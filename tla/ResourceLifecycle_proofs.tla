------------------------ MODULE ResourceLifecycle_proofs ------------------------
(***************************************************************************)
(* Proofs about the life of a managed resource, for every type, any sets   *)
(* of inputs and any number of edits and faults.                           *)
(***************************************************************************)
EXTENDS ResourceLifecycle, TLAPS

InSyncKinds == {"user", "bundle_install", "vault_unseal"}

(* What the proofs use of the types' records. *)
TypeFacts(t, k) ==
    /\ t.transport \in BOOLEAN /\ t.destroys \in BOOLEAN
    /\ t.place \in {"host", "main"}
    /\ t.sum \in {"none", "keep", "unknown"}
    /\ t.acts \in {"create", "sum", "always"}
    /\ t.read \in {"state", "attributes", "existence"}
    /\ t.replaceOn \subseteq {"main", "rest", "host"}
    /\ t.out \in {"static", "main", "keys"}
    /\ t.existing \in {"overwrite", "skip", "fail"}
    /\ t.sum # "none" <=> t.acts = "sum"
    /\ t.sum # "none" => /\ t.read = "state" /\ t.existing = "overwrite" /\ ~t.destroys
                         /\ t.place = "host" /\ t.replaceOn = {}
    /\ t.read = "attributes" => t.place = "host"
    /\ k \in InSyncKinds => /\ t.acts = "always" /\ t.existing = "overwrite" /\ ~t.destroys
                            /\ t.place = "host" /\ t.read \in {"state", "attributes"}
    /\ k = "kind_cluster" => /\ t.acts = "create" /\ t.existing = "fail" /\ t.destroys
                             /\ t.place = "main" /\ t.read = "existence" /\ t.replaceOn = {"main"}

LEMMA EveryType == ASSUME NEW k \in DOMAIN TypeOf PROVE TypeFacts(TypeOf[k], k)
<1> USE DEF TypeOf, TypeFacts, InSyncKinds, Plain
<1>1. CASE k = "file"
  BY <1>1 DEF File
<1>2. CASE k = "remote_exec"
  BY <1>2 DEF RemoteExec
<1>3. CASE k = "local_exec"
  BY <1>3 DEF LocalExec, RemoteExec
<1>4. CASE k = "user"
  BY <1>4 DEF User
<1>5. CASE k = "bundle_install"
  BY <1>5 DEF BundleInstall
<1>6. CASE k = "vault_start"
  BY <1>6 DEF VaultStart
<1>7. CASE k = "consul_start"
  BY <1>7 DEF ConsulStart
<1>8. CASE k = "boundary_start"
  BY <1>8 DEF BoundaryStart
<1>9. CASE k = "vault_init"
  BY <1>9 DEF VaultInit
<1>10. CASE k = "boundary_init"
  BY <1>10 DEF BoundaryInit
<1>11. CASE k = "vault_unseal"
  BY <1>11 DEF VaultUnseal
<1>12. CASE k = "kind_cluster"
  BY <1>12 DEF LocalKindCluster
<1>13. CASE k = "kind_load_image"
  BY <1>13 DEF LocalKindLoadImage
<1> QED
  BY <1>1, <1>2, <1>3, <1>4, <1>5, <1>6, <1>7, <1>8, <1>9, <1>10, <1>11, <1>12, <1>13
-----------------------------------------------------------------------------
(***************************************************************************)
(* Types, and the plan in hand: what it says about the state it was made   *)
(* for.                                                                    *)
(***************************************************************************)

(* A type that is not read back knows its main input and its sum.          *)
StateInv ==
    state # Null =>
        /\ Type.read # "attributes" => state.main \in Mains
        /\ Type.sum # "none" => state.sum \in Mains

PlanInv ==
    phase = "planned" =>
        /\ plan.action # "none"
        /\ plan.action = "create" <=> state = Null
        /\ plan.action # "delete" => config # Null /\ plan.planned \in PlannedStates

TypeInv == TypeOK /\ StateInv /\ PlanInv

(* The plan shown agrees with the one that will be made when applying.     *)
ShownPlanInv ==
    phase = "planned" =>
        /\ plan.action \in {"create", "update"} /\ Type.sum # "keep" => FinalPlanOK
        /\ plan.action = "replace" =>
              /\ plan.planned.main \in {Unknown, config.main}
              /\ plan.planned.rest = config.rest /\ plan.planned.host = config.host
              /\ Type.sum = "none" /\ plan.planned.sum = Null

(* The update of a kind cluster never renames it. *)
RenameInv ==
    phase = "planned" /\ plan.action = "update" /\ kind = "kind_cluster" =>
        config.main = state.main

(* InSync and SumInSync between any two steps, not only at rest. *)
ContentInv ==
    kind \in InSyncKinds /\ state # Null =>
        Place(state) \in dirty \/ Describes(state, world[Place(state)])

SumInv ==
    Type.sum # "none" =>
        /\ config # Null => config.host = CHOOSE h \in Hosts : TRUE
        /\ state # Null =>
              /\ state.host = CHOOSE h \in Hosts : TRUE
              /\ \/ Place(state) \in dirty
                 \/ world[Place(state)] # Nothing /\ world[Place(state)].main = state.sum

LEMMA KindFacts == ASSUME TypeOK PROVE TypeFacts(Type, kind)
  BY EveryType, LifecycleAssumption DEF TypeOK, Type

LEMMA ConfigInputs == ASSUME NEW k PROVE Config(k) \subseteq Inputs
  BY DEF Config

(* The type of a resource never changes. *)
LEMMA KindIsFixed == ASSUME [Next]_vars PROVE kind' = kind /\ Type' = Type
  BY DEF Next, Terraform, Edit, Drift, Refresh, PlanResourceChange, CreateOrUpdate, Delete,
         Refused, vars, Type

(* Everything has a place. *)
LEMMA PlaceOf ==
    ASSUME TypeOK, NEW r, r.host \in Hosts, Type.read # "attributes" => r.main \in Mains
    PROVE  Place(r) \in Places
<1>1. CASE Type.place = "host"
  BY <1>1 DEF Place, Places
<1>2. CASE Type.place = "main"
  BY <1>2, KindFacts DEF Place, Places, TypeFacts
<1> QED
  BY <1>1, <1>2, KindFacts DEF TypeFacts

LEMMA PlaceOfState == ASSUME TypeInv, state # Null PROVE Place(state) \in Places
  BY PlaceOf DEF TypeInv, StateInv, TypeOK, States

(* What is planned with everything known. *)
LEMMA PlannedKnown ==
    ASSUME TypeInv, config # Null
    PROVE  /\ Planned(TRUE) \in PlannedStates
           /\ Planned(TRUE).main = config.main /\ Planned(TRUE).main \in Mains
           /\ Planned(TRUE).sum \in Mains \union {Null}
           /\ Type.sum # "none" => Planned(TRUE).sum = config.main
           /\ Type.sum = "none" => Planned(TRUE).sum = Null
           /\ Planned(TRUE).rest = config.rest /\ Planned(TRUE).host = config.host
           /\ Place(Planned(TRUE)) \in Places
           /\ Content(Planned(TRUE)) \in [main : Mains, rest : Rests]
<1> DEFINE p == Planned(TRUE)
<1>1. config \in Inputs
  BY DEF TypeInv, TypeOK
<1>2. /\ p.main = config.main /\ p.rest = config.rest /\ p.host = config.host
      /\ p.sum = PlannedSum(TRUE) /\ p.out = PlannedOut(TRUE)
  BY DEF Planned
<1>3. PlannedSum(TRUE) = IF Type.sum = "none" THEN Null ELSE config.main
  BY KindFacts DEF TypeInv, PlannedSum, FileSum, ExecSum, TypeFacts
<1>4. PlannedOut(TRUE) \in Outs \union {Unknown}
  BY DEF PlannedOut, TypeInv, TypeOK, States
<1>5. p \in PlannedStates
  BY <1>1, <1>3, <1>4 DEF Planned, PlannedStates, Inputs
<1>6. Place(p) \in Places
  BY <1>1, <1>2, PlaceOf DEF TypeInv, Inputs
<1>7. Content(p) \in [main : Mains, rest : Rests]
  BY <1>1, <1>2 DEF Content, Inputs
<1> QED
  BY <1>1, <1>2, <1>3, <1>5, <1>6, <1>7 DEF Inputs

(* What may be unknown when planned first. *)
LEMMA PlannedType ==
    ASSUME TypeInv, config # Null, NEW known \in BOOLEAN
    PROVE  /\ Planned(known) \in PlannedStates
           /\ Planned(known).main \in {Unknown, config.main}
           /\ Planned(known).rest = config.rest /\ Planned(known).host = config.host
           /\ Type.sum = "none" => Planned(known).sum = Null
<1>1. config \in Inputs
  BY DEF TypeInv, TypeOK
<1>2. PlannedSum(known) \in Mains \union {Null, Unknown}
  BY <1>1, KindFacts DEF TypeInv, TypeOK, States, PlannedSum, FileSum, ExecSum, TypeFacts, Inputs
<1>3. PlannedOut(known) \in Outs \union {Unknown}
  BY DEF PlannedOut, TypeInv, TypeOK, States
<1>4. Planned(known) \in PlannedStates
  BY <1>1, <1>2, <1>3 DEF Planned, PlannedStates, Inputs
<1>5. Type.sum = "none" => PlannedSum(known) = Null
  BY DEF PlannedSum
<1> QED
  BY <1>4, <1>5 DEF Planned

LEMMA SetOut ==
    ASSUME NEW r \in PlannedStates, NEW o \in Outs, r.main \in Mains,
           r.sum \in Mains \union {Null}
    PROVE  /\ [r EXCEPT !.out = o] \in States
           /\ [r EXCEPT !.out = o].main = r.main /\ [r EXCEPT !.out = o].rest = r.rest
           /\ [r EXCEPT !.out = o].host = r.host /\ [r EXCEPT !.out = o].sum = r.sum
<1>1. [r EXCEPT !.out = o] =
          [main |-> r.main, rest |-> r.rest, host |-> r.host, sum |-> r.sum, out |-> o]
  BY DEF PlannedStates
<1> QED
  BY <1>1 DEF PlannedStates, States

(* The state saved after a successful apply leaves nothing unknown. *)
LEMMA NewStateType ==
    ASSUME TypeInv, config # Null
    PROVE  /\ NewState(Planned(TRUE)) \in States
           /\ NewState(Planned(TRUE)).main = config.main
           /\ NewState(Planned(TRUE)).rest = config.rest
           /\ NewState(Planned(TRUE)).host = config.host
           /\ NewState(Planned(TRUE)).sum = Planned(TRUE).sum
<1> DEFINE p == Planned(TRUE)
<1>1. /\ p \in PlannedStates /\ p.main = config.main /\ p.main \in Mains
      /\ p.sum \in Mains \union {Null}
      /\ p.rest = config.rest /\ p.host = config.host
      /\ Type.sum # "none" => p.sum = config.main
  BY PlannedKnown
<1>2. p.out = PlannedOut(TRUE)
  BY DEF Planned
<1>3. ASSUME ~Acts(p) PROVE p.out \in Outs
  <2>1. state # Null
    BY <1>3, KindFacts DEF Acts, TypeInv, TypeFacts
  <2>2. Type.sum = "unknown" => ExecSum(TRUE) = state.sum
    BY <1>1, <1>3, <2>1, KindFacts DEF Acts, ExecSum, TypeInv, TypeFacts
  <2> QED
    BY <1>2, <2>1, <2>2 DEF PlannedOut, TypeInv, TypeOK, States
<1>4. Out(p) \in Outs
  BY <1>1, <1>3, KindFacts DEF Out, Outs, TypeInv, TypeFacts
<1>5. NewState(p) = [p EXCEPT !.out = Out(p)]
  BY DEF NewState
<1> HIDE DEF p
<1>6. /\ NewState(p) \in States
      /\ NewState(p).main = config.main /\ NewState(p).rest = config.rest
      /\ NewState(p).host = config.host /\ NewState(p).sum = p.sum
  BY <1>1, <1>4, <1>5, SetOut
<1> QED
  BY <1>6 DEF p

LEMMA TypeInit == Init => TypeInv
<1> SUFFICES ASSUME Init PROVE TypeInv
  OBVIOUS
<1>1. config \in Inputs
  BY ConfigInputs DEF Init
<1>2. TypeOK
  BY <1>1, LifecycleAssumption DEF Init, TypeOK, NoPlan
<1> QED
  BY <1>2 DEF Init, TypeInv, StateInv, PlanInv

LEMMA TypeEdit == ASSUME TypeInv, Edit PROVE TypeInv'
<1>1. config' \in Inputs \union {Null}
  BY ConfigInputs DEF Edit
<1>2. edits' \in 0..MaxEdits
  BY LifecycleAssumption DEF Edit, TypeInv, TypeOK
<1>3. TypeOK'
  BY <1>1, <1>2 DEF Edit, TypeInv, TypeOK
<1> QED
  BY <1>3 DEF Edit, TypeInv, StateInv, PlanInv, Type

LEMMA TypeDrift == ASSUME TypeInv, Drift PROVE TypeInv'
<1>1. PICK p \in Places :
        /\ world[p] # Nothing
        /\ \/ world' = [world EXCEPT ![p] = Nothing]
           \/ \E m \in Mains : world' = [world EXCEPT ![p].main = m]
        /\ dirty' = dirty \union {p}
  BY DEF Drift
<1>2. world[p] \in [main : Mains, rest : Rests]
  BY <1>1 DEF TypeInv, TypeOK
<1>3. world' \in [Places -> [main : Mains, rest : Rests] \union {Nothing}]
  <2>1. CASE world' = [world EXCEPT ![p] = Nothing]
    BY <2>1 DEF TypeInv, TypeOK
  <2>2. ASSUME NEW m \in Mains, world' = [world EXCEPT ![p].main = m]
        PROVE  world' \in [Places -> [main : Mains, rest : Rests] \union {Nothing}]
    <3>1. [world[p] EXCEPT !.main = m] \in [main : Mains, rest : Rests]
      BY <1>2
    <3>2. world' = [world EXCEPT ![p] = [world[p] EXCEPT !.main = m]]
      BY <2>2
    <3> QED
      BY <3>1, <3>2 DEF TypeInv, TypeOK
  <2> QED
    BY <1>1, <2>1, <2>2
<1>4. faults' \in 0..MaxFaults
  BY LifecycleAssumption DEF Drift, TypeInv, TypeOK
<1>5. TypeOK'
  BY <1>1, <1>3, <1>4 DEF Drift, TypeInv, TypeOK
<1> QED
  BY <1>5 DEF Drift, TypeInv, StateInv, PlanInv, Type

(* What a refresh makes of the state: what it knew, less, or what is there. *)
LEMMA NotFound ==
    ASSUME TypeInv, state # Null, NEW m \in Mains \union {Unknown}
    PROVE  /\ [state EXCEPT !.main = m] \in States
           /\ [state EXCEPT !.main = m].main = m
           /\ [state EXCEPT !.main = m].rest = state.rest
           /\ [state EXCEPT !.main = m].host = state.host
<1>1. state \in States
  BY DEF TypeInv, TypeOK
<1>2. [state EXCEPT !.main = m] = [main |-> m, rest |-> state.rest, host |-> state.host,
                                   sum |-> state.sum, out |-> state.out]
  BY <1>1 DEF States
<1> QED
  BY <1>1, <1>2 DEF States

LEMMA Refreshed ==
    ASSUME TypeInv, Refresh, state # Null, state' # state
    PROVE  \/ /\ Type.read = "attributes"
              /\ state' \in States
              /\ state'.rest = state.rest /\ state'.host = state.host
              /\ \/ state'.main = Unknown
                 \/ world[Place(state)] # Nothing /\ state'.main = world[Place(state)].main
           \/ /\ Type.read = "existence"
              /\ state' = Null /\ world[Place(state)] = Nothing
<1>1. CASE Type.read = "attributes"
  <2>1. \/ state' = UserNotFound
        \/ /\ world[Place(state)] # Nothing
           /\ state' = [state EXCEPT !.main = world[Place(state)].main]
    BY <1>1 DEF Refresh, ReadResource, UserRead
  <2>2. world[Place(state)] # Nothing => world[Place(state)].main \in Mains
    BY PlaceOfState DEF TypeInv, TypeOK
  <2>3. CASE state' = UserNotFound
    BY <1>1, <2>3, NotFound DEF UserNotFound
  <2>4. CASE state' # UserNotFound
    BY <1>1, <2>1, <2>2, <2>4, NotFound
  <2> QED
    BY <2>3, <2>4
<1>2. CASE Type.read # "attributes"
  BY <1>2 DEF Refresh, ReadResource, KindClusterRead
<1> QED
  BY <1>1, <1>2

LEMMA TypeRefresh == ASSUME TypeInv, Refresh PROVE TypeInv'
<1>1. /\ phase = "idle" /\ phase' = "refreshed"
      /\ faults' \in {faults, faults + 1}
      /\ faults' = faults \/ faults < MaxFaults
      /\ UNCHANGED <<kind, config, plan, world, edits, dirty>>
  BY DEF Refresh
<1>2. CASE state' = state
  BY <1>1, <1>2, LifecycleAssumption DEF TypeInv, TypeOK, StateInv, PlanInv, Type
<1>3. CASE state' # state
  <2>1. state # Null
    BY <1>3 DEF Refresh, ReadResource
  <2>2. state' \in States \union {Null}
    BY <1>3, <2>1, Refreshed
  <2>3. TypeOK'
    BY <1>1, <2>2, LifecycleAssumption DEF TypeInv, TypeOK
  <2>4. Type.sum # "none" => Type.read = "state"
    BY KindFacts DEF TypeInv, TypeFacts
  <2>5. StateInv'
    BY <1>1, <1>3, <2>1, <2>4, Refreshed DEF StateInv, Type
  <2> QED
    BY <1>1, <2>3, <2>5 DEF TypeInv, PlanInv
<1> QED
  BY <1>2, <1>3

(* A plan that is not empty is for the state it was made for. *)
LEMMA PlanType ==
    ASSUME TypeInv, NEW known \in BOOLEAN, ProviderPlan(known).action # "none"
    PROVE  /\ ProviderPlan(known).action = "create" <=> state = Null
           /\ ProviderPlan(known).action \in {"create", "update", "delete", "replace"}
           /\ ProviderPlan(known).action = "delete" => ProviderPlan(known).planned = Null
           /\ ProviderPlan(known).action # "delete" =>
                /\ config # Null /\ ProviderPlan(known).planned = Planned(known)
                /\ ProviderPlan(known).action = ActionOf(Planned(known))
           /\ ProviderPlan(known) =
                [action |-> ProviderPlan(known).action, planned |-> ProviderPlan(known).planned]
  BY DEF ProviderPlan, ActionOf, NoPlan

LEMMA TypePlan == ASSUME TypeInv, PlanResourceChange PROVE TypeInv'
<1>1. PICK known \in BOOLEAN :
        /\ known \/ edits < MaxEdits
        /\ edits' = IF known THEN edits ELSE edits + 1
        /\ plan' = ProviderPlan(known)
  BY DEF PlanResourceChange
<1>2. /\ phase' = IF plan'.action = "none" THEN "idle" ELSE "planned"
      /\ UNCHANGED <<kind, config, state, world, faults, dirty>>
  BY DEF PlanResourceChange
<1>3. edits' \in 0..MaxEdits
  BY <1>1, LifecycleAssumption DEF TypeInv, TypeOK
<1>4. StateInv'
  BY <1>2 DEF TypeInv, StateInv, Type
<1>5. plan' \in [action : {"none", "create", "update", "delete", "replace"},
                 planned : PlannedStates \union {Null}]
  <2>1. CASE plan'.action = "none"
    <3>1. plan' = NoPlan
      BY <1>1, <2>1 DEF ProviderPlan, ActionOf, NoPlan
    <3> QED
      BY <3>1 DEF NoPlan
  <2>2. CASE plan'.action # "none"
    BY <1>1, <2>2, PlanType, PlannedType
  <2> QED
    BY <2>1, <2>2
<1>6. TypeOK'
  BY <1>2, <1>3, <1>5 DEF TypeInv, TypeOK
<1>7. PlanInv'
  <2> SUFFICES ASSUME phase' = "planned"
               PROVE  /\ plan'.action # "none"
                      /\ plan'.action = "create" <=> state' = Null
                      /\ plan'.action # "delete" => config' # Null /\ plan'.planned \in PlannedStates
    BY DEF PlanInv
  <2>1. plan'.action # "none"
    BY <1>2
  <2> QED
    BY <1>1, <1>2, <2>1, PlanType, PlannedType
<1> QED
  BY <1>4, <1>6, <1>7 DEF TypeInv

(* What applying does to the target is one change at one place. *)
LEMMA EffectType ==
    ASSUME TypeInv, config # Null
    PROVE  Effect(Planned(TRUE)) \in [Places -> [main : Mains, rest : Rests] \union {Nothing}]
  BY PlannedKnown DEF Effect, TypeInv, TypeOK

LEMMA TypeApply == ASSUME TypeInv, CreateOrUpdate PROVE TypeInv'
<1> DEFINE p == Planned(TRUE)
<1>1. /\ phase = "planned" /\ plan.action \in {"create", "update"}
      /\ phase' = "idle" /\ plan' = NoPlan /\ UNCHANGED <<kind, config, edits>>
  BY DEF CreateOrUpdate
<1>2. config # Null
  BY <1>1 DEF TypeInv, PlanInv
<1>3. PlanInv'
  BY <1>1 DEF PlanInv
<1>4. plan' \in [action : {"none", "create", "update", "delete", "replace"},
                 planned : PlannedStates \union {Null}]
  BY <1>1 DEF NoPlan
<1> HIDE DEF p
<1>5. /\ world' \in {world, Effect(p)}
      /\ dirty' \in {dirty, dirty \ {Place(p)}, dirty \union {Place(p)}}
      /\ state' \in {state, NewState(p)}
      /\ \/ faults' = faults
         \/ faults < MaxFaults /\ faults' = faults + 1
  <2>1. NoChange(p) \/ ApplySucceeds(p) \/ ApplyFails(p)
    BY DEF CreateOrUpdate, p
  <2>2. CASE NoChange(p)
    BY <2>2 DEF NoChange
  <2>3. CASE ApplySucceeds(p)
    BY <2>3 DEF ApplySucceeds
  <2>4. CASE ApplyFails(p)
    BY <2>4 DEF ApplyFails
  <2> QED
    BY <2>1, <2>2, <2>3, <2>4
<1>6. Place(p) \in Places
  BY <1>2, PlannedKnown DEF p
<1>7. /\ Effect(p) \in [Places -> [main : Mains, rest : Rests] \union {Nothing}]
      /\ NewState(p) \in States
      /\ NewState(p).main \in Mains
      /\ Type.sum # "none" => NewState(p).sum \in Mains
  <2>1. config.main \in Mains
    BY <1>2 DEF TypeInv, TypeOK, Inputs
  <2> QED
    BY <1>2, <2>1, EffectType, NewStateType, PlannedKnown DEF p
<1>8. world' \in [Places -> [main : Mains, rest : Rests] \union {Nothing}] /\ dirty' \subseteq Places
  BY <1>5, <1>6, <1>7 DEF TypeInv, TypeOK
<1>9. state' \in States \union {Null} /\ faults' \in 0..MaxFaults
  BY <1>5, <1>7, LifecycleAssumption DEF TypeInv, TypeOK
<1>10. TypeOK'
  BY <1>1, <1>4, <1>8, <1>9 DEF TypeInv, TypeOK
<1>11. StateInv'
  BY <1>1, <1>5, <1>7 DEF TypeInv, StateInv, Type
<1> QED
  BY <1>3, <1>10, <1>11 DEF TypeInv

LEMMA TypeDelete == ASSUME TypeInv, Delete PROVE TypeInv'
<1>1. /\ phase = "planned" /\ plan.action \in {"delete", "replace"}
      /\ UNCHANGED <<kind, config, edits>>
  BY DEF Delete
<1>2. state # Null
  BY <1>1 DEF TypeInv, PlanInv
<1>3. Place(state) \in Places
  BY <1>2, PlaceOfState
<1>4. Destroyed \in [Places -> [main : Mains, rest : Rests] \union {Nothing}]
  BY DEF Destroyed, TypeInv, TypeOK
<1>5. /\ world' \in {world, Destroyed}
      /\ dirty' \in {dirty, dirty \ {Place(state)}, dirty \union {Place(state)}}
      /\ state' \in {state, Null}
      /\ \/ faults' = faults
         \/ faults < MaxFaults /\ faults' = faults + 1
  BY DEF Delete
<1>6. \/ plan' = NoPlan /\ phase' = "idle"
      \/ /\ plan.action = "replace"
         /\ plan' = [action |-> "create", planned |-> [plan.planned EXCEPT !.out = Unknown]]
         /\ phase' = phase /\ state' = Null
  BY <1>1 DEF Delete
<1>7. plan.action = "replace" => config # Null /\ [plan.planned EXCEPT !.out = Unknown] \in PlannedStates
  BY <1>1 DEF TypeInv, PlanInv, PlannedStates
<1>8. plan' \in [action : {"none", "create", "update", "delete", "replace"},
                 planned : PlannedStates \union {Null}]
  BY <1>6, <1>7 DEF NoPlan
<1>9. world' \in [Places -> [main : Mains, rest : Rests] \union {Nothing}] /\ dirty' \subseteq Places
  BY <1>3, <1>4, <1>5 DEF TypeInv, TypeOK
<1>10. faults' \in 0..MaxFaults
  BY <1>5, LifecycleAssumption DEF TypeInv, TypeOK
<1>11. TypeOK'
  BY <1>1, <1>5, <1>6, <1>8, <1>9, <1>10 DEF TypeInv, TypeOK
<1>12. StateInv'
  BY <1>1, <1>5 DEF TypeInv, StateInv, Type
<1>13. PlanInv'
  BY <1>1, <1>6, <1>7 DEF PlanInv
<1> QED
  BY <1>11, <1>12, <1>13 DEF TypeInv

(* Whatever fails, is edited or drifts, no attribute is left unknown.      *)
LEMMA TypeInvariant == Spec => []TypeInv
<1>1. ASSUME TypeInv, [Next]_vars PROVE TypeInv'
  <2> USE <1>1
  <2>1. CASE Edit
    BY <2>1, TypeEdit
  <2>2. CASE Drift
    BY <2>2, TypeDrift
  <2>3. CASE Refresh
    BY <2>3, TypeRefresh
  <2>4. CASE PlanResourceChange
    BY <2>4, TypePlan
  <2>5. CASE CreateOrUpdate
    BY <2>5, TypeApply
  <2>6. CASE Delete
    BY <2>6, TypeDelete
  <2>7. CASE Refused
    BY <2>7 DEF Refused, NoPlan, TypeInv, TypeOK, StateInv, PlanInv, Type
  <2>8. CASE UNCHANGED vars
    BY <2>8 DEF vars, TypeInv, TypeOK, StateInv, PlanInv, Type
  <2> QED
    BY <2>1, <2>2, <2>3, <2>4, <2>5, <2>6, <2>7, <2>8 DEF Next, Terraform
<1> QED
  BY <1>1, TypeInit, PTL DEF Spec

(* The state of a resource keeps its shape whatever is edited, fails half   *)
(* way or drifts: no apply leaves a computed attribute unknown, and the     *)
(* history of any number of them stays within the types.                    *)
THEOREM StatesAreKnown == Spec => []TypeOK
  BY TypeInvariant, PTL DEF TypeInv
-----------------------------------------------------------------------------
(***************************************************************************)
(* The plan made when applying agrees with the one that was shown.         *)
(***************************************************************************)
SamePlan(before, after) ==
    /\ before.main \in {Unknown, after.main} /\ before.rest = after.rest
    /\ before.host = after.host /\ before.sum \in {Unknown, after.sum}
    /\ before.out \in {Unknown, after.out}

LEMMA CompatibleIs ==
    ASSUME NEW before, NEW after, SamePlan(before, after) PROVE Compatible(before, after)
  BY DEF SamePlan, Compatible

LEMMA PlannedAgain ==
    ASSUME TypeInv, config # Null, Type.sum # "keep", NEW known \in BOOLEAN
    PROVE  Compatible(Planned(known), Planned(TRUE))
<1>1. PlannedSum(known) \in {Unknown, PlannedSum(TRUE)}
  BY DEF PlannedSum, ExecSum
<1>2. PlannedOut(known) \in {Unknown, PlannedOut(TRUE)}
  <2>1. CASE state = Null \/ Type.sum # "unknown"
    BY <2>1 DEF PlannedOut
  <2>2. CASE state # Null /\ Type.sum = "unknown"
    <3>1. state.sum # Unknown
      BY <2>2, LifecycleAssumption DEF TypeInv, StateInv
    <3>2. ExecSum(known) \in {Unknown, ExecSum(TRUE)}
      BY DEF ExecSum
    <3> QED
      BY <2>2, <3>1, <3>2 DEF PlannedOut
  <2> QED
    BY <2>1, <2>2
<1>3. SamePlan(Planned(known), Planned(TRUE))
  BY <1>1, <1>2 DEF SamePlan, Planned
<1> QED
  BY <1>3, CompatibleIs

LEMMA ShownPlanStays ==
    ASSUME TypeInv, ShownPlanInv, [Next]_vars PROVE ShownPlanInv'
<1>1. CASE phase' # "planned"
  BY <1>1 DEF ShownPlanInv
<1>2. CASE PlanResourceChange /\ phase' = "planned"
  <2>1. PICK known \in BOOLEAN : plan' = ProviderPlan(known)
    BY <1>2 DEF PlanResourceChange
  <2>2. plan'.action # "none" /\ UNCHANGED <<kind, config, state>>
    BY <1>2 DEF PlanResourceChange
  <2>3. Type' = Type /\ Planned(TRUE)' = Planned(TRUE)
    BY <2>2 DEF Type, Planned, PlannedSum, FileSum, ExecSum, PlannedOut
  <2>4. ASSUME plan'.action \in {"create", "update"}, Type.sum # "keep" PROVE FinalPlanOK'
    <3>1. config # Null /\ plan'.planned = Planned(known)
      BY <2>1, <2>2, <2>4, PlanType
    <3>2. Compatible(Planned(known), Planned(TRUE))
      BY <2>4, <3>1, PlannedAgain
    <3>3. Compatible(plan'.planned, Planned(TRUE)')
      BY <2>3, <3>1, <3>2
    <3> QED
      BY <3>3 DEF FinalPlanOK, Compatible
  <2>5. ASSUME plan'.action = "replace"
        PROVE  /\ plan'.planned.main \in {Unknown, config.main}
               /\ plan'.planned.rest = config.rest /\ plan'.planned.host = config.host
               /\ Type.sum = "none" /\ plan'.planned.sum = Null
    <3>1. config # Null /\ plan'.planned = Planned(known) /\ ActionOf(Planned(known)) = "replace"
      BY <2>1, <2>2, <2>5, PlanType
    <3>2. Type.sum = "none"
      BY <3>1, KindFacts
         DEF ActionOf, RequiresReplace, TransportReplacedAttributePaths, TypeInv, TypeFacts
    <3> QED
      BY <3>1, <3>2, PlannedType
  <2> QED
    BY <2>2, <2>3, <2>4, <2>5 DEF ShownPlanInv
<1>3. CASE Delete /\ phase' = "planned"
  <2> DEFINE q == [plan.planned EXCEPT !.out = Unknown]
  <2>1. /\ plan.action = "replace" /\ phase = "planned" /\ state' = Null
        /\ plan' = [action |-> "create", planned |-> q]
        /\ UNCHANGED <<kind, config>>
    BY <1>3 DEF Delete
  <2>2. /\ config # Null /\ plan.planned \in PlannedStates
        /\ plan.planned.main \in {Unknown, config.main}
        /\ plan.planned.rest = config.rest /\ plan.planned.host = config.host
        /\ Type.sum = "none" /\ plan.planned.sum = Null
    BY <2>1 DEF TypeInv, PlanInv, ShownPlanInv
  <2>3. /\ q.main \in {Unknown, config.main} /\ q.rest = config.rest /\ q.host = config.host
        /\ q.sum = Null /\ q.out = Unknown
    BY <2>2 DEF PlannedStates
  <2> HIDE DEF q
  <2>4. Type' = Type
    BY <2>1 DEF Type
  <2>5. /\ Planned(TRUE)'.main = config.main /\ Planned(TRUE)'.rest = config.rest
        /\ Planned(TRUE)'.host = config.host /\ Planned(TRUE)'.sum = Null
    BY <2>1, <2>2, <2>4 DEF Planned, PlannedSum
  <2>6. SamePlan(q, Planned(TRUE)')
    BY <2>3, <2>5 DEF SamePlan
  <2>7. Compatible(q, Planned(TRUE)')
    BY <2>6, CompatibleIs
  <2>8. FinalPlanOK'
    BY <2>1, <2>7 DEF FinalPlanOK, Compatible
  <2> QED
    BY <2>1, <2>8 DEF ShownPlanInv
<1>4. CASE UNCHANGED vars
  BY <1>4 DEF vars, ShownPlanInv, FinalPlanOK, Compatible, Planned, PlannedSum, FileSum,
              ExecSum, PlannedOut, Type
<1> QED
  BY <1>1, <1>2, <1>3, <1>4
     DEF Next, Terraform, Edit, Drift, Refresh, CreateOrUpdate, Refused

(* The plan that was shown holds: for every type but enos_file, no apply is *)
(* refused because the plan made when applying changes a value that was     *)
(* known, also when an input was unknown and after the first half of a      *)
(* replace.                                                                 *)
THEOREM PlansHold == Spec => PlanHolds
<1>1. Init => ShownPlanInv
  BY DEF Init, ShownPlanInv
<1>2. ASSUME ShownPlanInv, [Next]_vars PROVE [Type.sum = "keep" \/ ~Refused]_vars
  BY <1>2 DEF ShownPlanInv, Refused
<1> QED
  BY <1>1, <1>2, ShownPlanStays, TypeInvariant, PTL DEF Spec, PlanHolds
-----------------------------------------------------------------------------
(***************************************************************************)
(* What the target holds.                                                  *)
(***************************************************************************)

(* Where a resource is and what it holds depend on its inputs only. *)
LEMMA SameInputs ==
    ASSUME TypeInv, NEW r, NEW s, r.main = s.main, r.rest = s.rest, r.host = s.host
    PROVE  Place(r) = Place(s) /\ Content(r) = Content(s)
<1>1. Type.place \in {"host", "main"}
  BY KindFacts DEF TypeInv, TypeFacts
<1> QED
  BY <1>1 DEF Place, Content

(* An apply that succeeded: what was planned is the state, and is in place  *)
(* if the provider worked on the target.                                    *)
LEMMA Applied ==
    ASSUME TypeInv, CreateOrUpdate, ApplySucceeds(Planned(TRUE)), Type.existing # "skip"
    PROVE  /\ config # Null /\ state' = NewState(Planned(TRUE)) /\ state' # Null
           /\ state'.main = config.main /\ state'.rest = config.rest
           /\ state'.host = config.host
           /\ Place(state') = Place(Planned(TRUE))
           /\ Content(state') = Content(Planned(TRUE))
           /\ IF Acts(Planned(TRUE))
              THEN /\ world' = [world EXCEPT ![Place(state')] = Content(state')]
                   /\ world'[Place(state')] = Content(state')
                   /\ dirty' = dirty \ {Place(state')}
              ELSE world' = world /\ dirty' = dirty
<1>1. config # Null
  BY DEF CreateOrUpdate, TypeInv, PlanInv
<1>2. state' = NewState(Planned(TRUE))
  BY DEF ApplySucceeds
<1>3. /\ state' # Null
      /\ state'.main = config.main /\ state'.rest = config.rest /\ state'.host = config.host
  BY <1>1, <1>2, NewStateType, NullIsNoState
<1>4. /\ Planned(TRUE).main = config.main /\ Planned(TRUE).rest = config.rest
      /\ Planned(TRUE).host = config.host /\ Place(Planned(TRUE)) \in Places
  BY <1>1, PlannedKnown
<1>5. Place(state') = Place(Planned(TRUE)) /\ Content(state') = Content(Planned(TRUE))
  BY <1>3, <1>4, SameInputs
<1>6. Acts(Planned(TRUE)) =>
        Effect(Planned(TRUE)) = [world EXCEPT ![Place(state')] = Content(state')]
  <2>1. Type.existing \in {"overwrite", "fail"}
    BY KindFacts DEF TypeInv, TypeFacts
  <2> QED
    BY <1>5, <2>1 DEF Effect, Initialised, InitFails, ApplySucceeds
<1>7. Place(state') \in DOMAIN world
  BY <1>4, <1>5 DEF TypeInv, TypeOK
<1>8. /\ world' = IF Acts(Planned(TRUE)) THEN Effect(Planned(TRUE)) ELSE world
      /\ dirty' = IF Acts(Planned(TRUE)) THEN dirty \ {Place(Planned(TRUE))} ELSE dirty
  BY DEF ApplySucceeds
<1> QED
  BY <1>1, <1>2, <1>3, <1>5, <1>6, <1>7, <1>8

(* An apply that failed leaves the state, and a place it changed is dirty. *)
LEMMA Failed ==
    ASSUME TypeInv, CreateOrUpdate, ApplyFails(Planned(TRUE)), NEW q \in Places
    PROVE  /\ state' = state /\ dirty \subseteq dirty'
           /\ q \in dirty' \/ world'[q] = world[q]
<1> DEFINE p == Planned(TRUE)
<1>1. config # Null
  BY DEF CreateOrUpdate, TypeInv, PlanInv
<1>2. Effect(p) \in {world, [world EXCEPT ![Place(p)] = Content(p)]}
  BY DEF Effect
<1> HIDE DEF p
<1>3. \/ UNCHANGED <<world, dirty>>
      \/ world' = Effect(p) /\ dirty' = dirty \union {Place(p)}
  BY DEF ApplyFails, p
<1>4. state' = state
  BY DEF ApplyFails
<1>5. world \in [Places -> [main : Mains, rest : Rests] \union {Nothing}]
  BY DEF TypeInv, TypeOK
<1> QED
  BY <1>2, <1>3, <1>4, <1>5

(* The place of the next state, seen from this one. *)
LEMMA NextPlace ==
    ASSUME [Next]_vars PROVE Place(state)' = Place(state') /\ Content(state)' = Content(state')
  BY KindIsFixed DEF Place, Content

(* The types whose every apply reaches the target. *)
LEMMA ContentStays == ASSUME TypeInv, ContentInv, [Next]_vars PROVE ContentInv'
<1> SUFFICES ASSUME kind \in InSyncKinds, state' # Null
             PROVE  Place(state') \in dirty' \/ Describes(state', world'[Place(state')])
  <2>1. Describes(state, world[Place(state)])' <=> Describes(state', world'[Place(state)'])
    BY DEF Describes
  <2> QED
    BY <2>1, KindIsFixed, NextPlace DEF ContentInv
<1>1. /\ Type.acts = "always" /\ Type.existing = "overwrite" /\ ~Type.destroys
      /\ Type.place = "host" /\ Type.read \in {"state", "attributes"}
  BY KindFacts DEF TypeInv, TypeFacts
<1>2. state # Null =>
        /\ Place(state) \in Places
        /\ Place(state) \in dirty \/ Describes(state, world[Place(state)])
  BY PlaceOfState DEF ContentInv
<1>3. CASE UNCHANGED <<state, world, dirty>>
  <2>1. Place(state') = Place(state)
    BY <1>3
  <2> QED
    BY <1>2, <1>3, <2>1
<1>4. CASE Drift
  <2>1. PICK p \in Places :
          /\ dirty' = dirty \union {p} /\ state' = state
          /\ \A q \in Places : q # p => world'[q] = world[q]
    BY <1>4 DEF Drift, TypeInv, TypeOK
  <2> QED
    BY <1>2, <2>1
<1>5. CASE Refresh
  <2>1. UNCHANGED <<world, dirty>>
    BY <1>5 DEF Refresh
  <2>2. state # Null
    BY <1>5 DEF Refresh, ReadResource
  <2>3. CASE state' = state
    BY <1>3, <2>1, <2>3
  <2>4. CASE state' # state
    <3>1. /\ state'.rest = state.rest /\ state'.host = state.host
          /\ \/ state'.main = Unknown
             \/ world[Place(state)] # Nothing /\ state'.main = world[Place(state)].main
      BY <1>1, <1>5, <2>2, <2>4, Refreshed
    <3>2. Place(state') = Place(state)
      BY <1>1, <3>1 DEF Place
    <3> QED
      BY <1>2, <2>1, <2>2, <3>1, <3>2 DEF Describes
  <2> QED
    BY <2>3, <2>4
<1>6. CASE CreateOrUpdate
  <2>1. CASE NoChange(Planned(TRUE))
    BY <1>3, <2>1 DEF NoChange
  <2>2. CASE ApplySucceeds(Planned(TRUE))
    <3>1. /\ world'[Place(state')] = Content(state')
          /\ config # Null /\ Content(state') = Content(Planned(TRUE))
      BY <1>1, <1>6, <2>2, Applied DEF Acts
    <3>2. Content(state') \in [main : Mains, rest : Rests]
      BY <3>1, PlannedKnown
    <3>3. world'[Place(state')] # Nothing
      BY <3>1, <3>2, LifecycleAssumption
    <3> QED
      BY <3>1, <3>3 DEF Describes, Content
  <2>3. CASE ApplyFails(Planned(TRUE))
    <3>1. state' = state
      BY <2>3 DEF ApplyFails
    <3>2. Place(state) \in Places
      BY <1>2, <3>1
    <3>3. dirty \subseteq dirty' /\ (Place(state) \in dirty' \/ world'[Place(state)] = world[Place(state)])
      BY <1>1, <1>6, <2>3, <3>2, Failed
    <3> QED
      BY <1>2, <3>1, <3>3
  <2> QED
    BY <1>6, <2>1, <2>2, <2>3 DEF CreateOrUpdate
<1>7. CASE Delete
  <2>1. world' = world /\ state' = state /\ dirty \subseteq dirty'
    BY <1>1, <1>7 DEF Delete, Destroyed
  <2> QED
    BY <1>2, <2>1
<1> QED
  BY <1>3, <1>4, <1>5, <1>6, <1>7
     DEF Next, Terraform, Edit, PlanResourceChange, Refused, vars

(* For a user, a bundle and an unsealed vault, whatever is edited, fails    *)
(* and is tried again, moved to another host or read back: once applied,    *)
(* the host in the state holds what the state says, as far as it knows      *)
(* after a lookup that failed, unless the last thing that happened to it    *)
(* failed half way or was drift.                                            *)
THEOREM StateDescribesItsTarget == Spec => []InSync
<1>1. Init => ContentInv
  BY DEF Init, ContentInv
<1>2. ContentInv => InSync
  BY DEF ContentInv, InSync, InSyncKinds, UpdatesTakeEffect
<1>3. ASSUME [Next]_vars, TypeInv, ContentInv PROVE ContentInv'
  BY <1>3, ContentStays
<1> QED
  BY <1>1, <1>2, <1>3, TypeInvariant, PTL DEF Spec

(* The sum of a file or of commands says nothing about another host: moving *)
(* such a resource is what the hypothesis of the theorem excludes.          *)
FixedHost == CHOOSE h \in Hosts : TRUE
SummedKinds == {k \in DOMAIN TypeOf : TypeOf[k].sum # "none"}

LEMMA FixedConfig ==
    ASSUME TypeOK, Movable \cap SummedKinds = {}, Type.sum # "none", NEW c \in Config(kind)
    PROVE  c.host = FixedHost
<1>1. kind \notin Movable
  BY LifecycleAssumption DEF SummedKinds, Type, TypeOK
<1> QED
  BY <1>1 DEF Config, FixedHost

LEMMA SumStays ==
    ASSUME TypeInv, SumInv, Movable \cap SummedKinds = {}, [Next]_vars PROVE SumInv'
<1> SUFFICES ASSUME Type.sum # "none"
             PROVE  /\ config' # Null => config'.host = FixedHost
                    /\ state' # Null =>
                         /\ state'.host = FixedHost
                         /\ \/ Place(state') \in dirty'
                            \/ /\ world'[Place(state')] # Nothing
                               /\ world'[Place(state')].main = state'.sum
  BY KindIsFixed, NextPlace DEF SumInv, FixedHost
<1>1. /\ Type.acts = "sum" /\ Type.existing = "overwrite" /\ ~Type.destroys
      /\ Type.place = "host" /\ Type.read = "state"
  BY KindFacts DEF TypeInv, TypeFacts
<1>2. /\ config # Null => config.host = FixedHost
      /\ state # Null =>
           /\ Place(state) \in Places /\ state.host = FixedHost
           /\ \/ Place(state) \in dirty
              \/ world[Place(state)] # Nothing /\ world[Place(state)].main = state.sum
  BY PlaceOfState DEF SumInv, FixedHost
<1>3. CASE UNCHANGED <<config, state, world, dirty>>
  BY <1>2, <1>3
<1>4. CASE Edit
  <2>1. config' \in Config(kind) \union {Null} /\ UNCHANGED <<state, world, dirty>>
    BY <1>4 DEF Edit
  <2> QED
    BY <1>2, <2>1, FixedConfig DEF TypeInv
<1>5. CASE Refresh
  BY <1>1, <1>2, <1>5 DEF Refresh, ReadResource
<1>6. CASE CreateOrUpdate
  <2>1. config' = config /\ config # Null
    BY <1>6 DEF CreateOrUpdate, TypeInv, PlanInv
  <2>2. CASE NoChange(Planned(TRUE))
    BY <1>3, <2>1, <2>2 DEF NoChange
  <2>3. CASE ApplySucceeds(Planned(TRUE))
    <3>1. /\ state' = NewState(Planned(TRUE)) /\ state'.host = config.host
          /\ state'.main = config.main /\ state'.sum = config.main
          /\ state' # Null
      BY <1>1, <1>6, <2>1, <2>3, Applied, NewStateType, PlannedKnown
    <3>2. CASE Acts(Planned(TRUE))
      <4>1. world'[Place(state')] = Content(state')
        BY <1>1, <1>6, <2>3, <3>2, Applied
      <4>2. Content(state') \in [main : Mains, rest : Rests]
        BY <1>1, <1>6, <2>1, <2>3, Applied, PlannedKnown
      <4>3. Content(state') # Nothing
        BY <4>2, LifecycleAssumption
      <4>4. Content(state').main = state'.sum
        BY <3>1 DEF Content
      <4> QED
        BY <1>2, <2>1, <3>1, <4>1, <4>3, <4>4
    <3>3. CASE ~Acts(Planned(TRUE))
      <4>1. world' = world /\ dirty' = dirty
        BY <1>1, <1>6, <2>3, <3>3, Applied
      <4>2. state # Null /\ state.sum = config.main
        BY <1>1, <2>1, <3>3, PlannedKnown DEF Acts
      <4>3. Place(state') = Place(state)
        BY <1>1, <1>2, <2>1, <3>1, <4>2 DEF Place
      <4> QED
        BY <1>2, <2>1, <3>1, <4>1, <4>2, <4>3
    <3> QED
      BY <3>2, <3>3
  <2>4. CASE ApplyFails(Planned(TRUE))
    <3>1. state' = state
      BY <2>4 DEF ApplyFails
    <3>2. CASE state = Null
      BY <1>2, <2>1, <3>1, <3>2
    <3>3. CASE state # Null
      <4>1. /\ dirty \subseteq dirty'
            /\ Place(state) \in dirty' \/ world'[Place(state)] = world[Place(state)]
        BY <1>1, <1>2, <1>6, <2>4, <3>3, Failed
      <4> QED
        BY <1>2, <2>1, <3>1, <3>3, <4>1
    <3> QED
      BY <3>2, <3>3
  <2> QED
    BY <1>6, <2>2, <2>3, <2>4 DEF CreateOrUpdate
<1>7. CASE Delete
  <2>1. /\ world' = world /\ dirty' \in {dirty, dirty \union {Place(state)}}
        /\ config' = config /\ state' \in {state, Null}
    BY <1>1, <1>7 DEF Delete, Destroyed
  <2> QED
    BY <1>2, <2>1
<1>8. ~Drift
  BY <1>1 DEF Drift
<1> QED
  BY <1>3, <1>4, <1>5, <1>6, <1>7, <1>8
     DEF Next, Terraform, PlanResourceChange, Refused, vars

(* As long as no resource with a sum changes its host, the sum in the state *)
(* is the sum of what the target holds, unless an apply failed half way:    *)
(* only then may an equal sum stand for work that is done.                  *)
THEOREM SumDescribesItsTarget ==
    ASSUME Movable \cap SummedKinds = {} PROVE Spec => []SumInSync
<1>1. ASSUME Init PROVE SumInv
  <2>1. TypeOK /\ config \in Config(kind) /\ state = Null
    BY <1>1, TypeInit DEF Init, TypeInv
  <2> QED
    BY <2>1, FixedConfig DEF SumInv, FixedHost
<1>2. SumInv => SumInSync
  BY DEF SumInv, SumInSync
<1>3. ASSUME [Next]_vars, TypeInv, SumInv PROVE SumInv'
  BY <1>3, SumStays
<1> QED
  BY <1>1, <1>2, <1>3, TypeInvariant, PTL DEF Spec

(* An update of a kind cluster keeps its name. *)
LEMMA RenameStays == ASSUME TypeInv, RenameInv, [Next]_vars PROVE RenameInv'
<1>1. CASE phase' # "planned" \/ plan'.action # "update"
  BY <1>1 DEF RenameInv
<1>2. CASE PlanResourceChange /\ phase' = "planned" /\ plan'.action = "update"
  <2> SUFFICES ASSUME kind = "kind_cluster" PROVE config.main = state.main
    BY <1>2 DEF PlanResourceChange, RenameInv
  <2>1. PICK known \in BOOLEAN : plan' = ProviderPlan(known)
    BY <1>2 DEF PlanResourceChange
  <2>2. config # Null /\ ActionOf(Planned(known)) = "update"
    BY <1>2, <2>1, PlanType
  <2>3. state # Null /\ ~RequiresReplace(Planned(known))
    BY <2>2 DEF ActionOf
  <2>4. Type.replaceOn = {"main"} /\ Type.read = "existence"
    BY KindFacts DEF TypeInv, TypeFacts
  <2>5. Planned(known)["main"] = state["main"]
    BY <2>3, <2>4 DEF RequiresReplace, TransportReplacedAttributePaths
  <2>6. state.main \in Mains /\ state.main # Unknown
    BY <2>3, <2>4, LifecycleAssumption DEF TypeInv, StateInv
  <2> QED
    BY <2>5, <2>6 DEF Planned
<1>3. CASE Delete /\ phase' = "planned"
  BY <1>3 DEF Delete, RenameInv
<1>4. CASE UNCHANGED vars
  BY <1>4 DEF vars, RenameInv
<1> QED
  BY <1>1, <1>2, <1>3, <1>4
     DEF Next, Terraform, Edit, Drift, Refresh, CreateOrUpdate, Refused

LEMMA OrphanStays ==
    ASSUME TypeInv, RenameInv, NoOrphan, [Next]_vars PROVE NoOrphan'
<1> SUFFICES ASSUME kind = "kind_cluster", NEW p \in Places, world'[p] # Nothing, p \notin dirty'
             PROVE  state' # Null /\ Place(state') = p
  BY KindIsFixed, NextPlace DEF NoOrphan
<1>1. /\ Type.acts = "create" /\ Type.existing = "fail" /\ Type.destroys
      /\ Type.place = "main" /\ Type.read = "existence"
  BY KindFacts DEF TypeInv, TypeFacts
<1>2. world[p] # Nothing => p \in dirty \/ (state # Null /\ Place(state) = p)
  BY DEF NoOrphan
<1>3. CASE UNCHANGED <<state, world, dirty>>
  BY <1>2, <1>3
<1>4. CASE Drift
  <2>1. PICK q \in Places :
          /\ dirty' = dirty \union {q} /\ state' = state
          /\ \A r \in Places : r # q => world'[r] = world[r]
    BY <1>4 DEF Drift, TypeInv, TypeOK
  <2> QED
    BY <1>2, <2>1
<1>5. CASE Refresh
  BY <1>1, <1>2, <1>5 DEF Refresh, ReadResource, KindClusterRead
<1>6. CASE CreateOrUpdate
  <2>1. /\ config # Null /\ plan.action \in {"create", "update"} /\ phase = "planned"
        /\ state = Null <=> plan.action = "create"
    BY <1>6 DEF CreateOrUpdate, TypeInv, PlanInv
  <2>2. CASE NoChange(Planned(TRUE))
    BY <1>3, <2>2 DEF NoChange
  <2>3. CASE ApplySucceeds(Planned(TRUE))
    <3>1. /\ state' # Null /\ state'.main = config.main
          /\ IF Acts(Planned(TRUE))
             THEN /\ world' = [world EXCEPT ![Place(state')] = Content(state')]
                  /\ dirty' = dirty \ {Place(state')}
             ELSE world' = world /\ dirty' = dirty
      BY <1>1, <1>6, <2>3, Applied
    <3>2. CASE state = Null
      <4>1. Acts(Planned(TRUE))
        BY <1>1, <3>2 DEF Acts
      <4>2. p # Place(state') => world'[p] = world[p] /\ p \notin dirty
        BY <3>1, <4>1 DEF TypeInv, TypeOK
      <4> QED
        BY <1>2, <3>1, <3>2, <4>2
    <3>3. CASE state # Null
      <4>1. ~Acts(Planned(TRUE))
        BY <1>1, <3>3 DEF Acts
      <4>2. config.main = state.main
        BY <2>1, <3>3 DEF RenameInv
      <4>3. Place(state') = Place(state)
        BY <1>1, <3>1, <4>2 DEF Place
      <4> QED
        BY <1>2, <3>1, <3>3, <4>1, <4>3
    <3> QED
      BY <3>2, <3>3
  <2>4. CASE ApplyFails(Planned(TRUE))
    <3>1. state' = state /\ dirty \subseteq dirty' /\ (p \in dirty' \/ world'[p] = world[p])
      BY <1>1, <1>6, <2>4, Failed
    <3> QED
      BY <1>2, <3>1
  <2> QED
    BY <1>6, <2>2, <2>3, <2>4 DEF CreateOrUpdate
<1>7. CASE Delete
  <2>1. state # Null /\ Place(state) \in Places
    BY <1>7, PlaceOfState DEF Delete, TypeInv, PlanInv
  <2>2. Destroyed = [world EXCEPT ![Place(state)] = Nothing]
    BY <1>1 DEF Destroyed
  <2>3. /\ Destroyed[Place(state)] = Nothing
        /\ p # Place(state) => Destroyed[p] = world[p]
    BY <2>1, <2>2 DEF TypeInv, TypeOK
  <2>4. \/ /\ world' = Destroyed /\ state' = Null /\ dirty' = dirty \ {Place(state)}
        \/ state' = state /\ world' = world /\ dirty' = dirty
        \/ state' = state /\ world' = Destroyed /\ dirty' = dirty \union {Place(state)}
    BY <1>1, <1>7 DEF Delete
  <2> QED
    BY <1>2, <2>1, <2>3, <2>4
<1> QED
  BY <1>3, <1>4, <1>5, <1>6, <1>7
     DEF Next, Terraform, Edit, PlanResourceChange, Refused, vars

(* No kind cluster is left behind: renamed, replaced by half, removed, gone *)
(* behind Terraform's back or failed to be deleted, the only clusters that  *)
(* exist are the one in the state and those of an apply that failed half    *)
(* way.                                                                     *)
THEOREM NoClusterIsLeft == Spec => []NoOrphan
<1>1. Init => RenameInv /\ NoOrphan
  BY DEF Init, RenameInv, NoOrphan
<1>2. ASSUME [Next]_vars, TypeInv, RenameInv, NoOrphan PROVE RenameInv' /\ NoOrphan'
  BY <1>2, RenameStays, OrphanStays
<1> QED
  BY <1>1, <1>2, TypeInvariant, PTL DEF Spec
=============================================================================
