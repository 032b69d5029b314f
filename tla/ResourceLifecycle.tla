-------------------------- MODULE ResourceLifecycle --------------------------
(***************************************************************************)
(* One managed resource of the provider (internal/plugin/resource_*.go)    *)
(* driven through refresh, plan and apply by Terraform core, which is      *)
(* external.  The resource types share their handlers' shape and differ in *)
(* when ApplyResourceChange really touches the target, in what they plan   *)
(* for computed attributes and in what they read back: a record per type.  *)
(*                                                                         *)
(* An input is split in three: main, the attributes a sum is computed from *)
(* (or the ones that matter most when there is no sum), rest, the others   *)
(* (destination, mode, wait_timeout), and host, the target: the transport, *)
(* or for kind_load_image the cluster.                                     *)
(***************************************************************************)
EXTENDS Naturals, FiniteSets

CONSTANTS
    Kinds,       \* resource types to explore
    Movable,     \* types whose host the author may change
    Mains, Rests, Hosts,
    Null,        \* no state, no configuration
    Nothing,     \* what an untouched target holds
    MaxEdits,    \* edits of the configuration
    MaxFaults    \* failed applies and changes made behind Terraform's back

(* What distinguishes a type:                                              *)
(*   transport  it has a target to be applied to                           *)
(*   place      the input that says where it lives                         *)
(*   sum        how its sum is planned: "none" when it has none, else the  *)
(*              prior one is kept or it is unknown while main is unknown   *)
(*   acts       ApplyResourceChange works on the target when creating,     *)
(*              when the sum changed, or always                            *)
(*   read       ReadResource returns the state as it is, looks up the      *)
(*              attributes, or the existence of the resource               *)
(*   replaceOn  the inputs whose change asks for a replace                 *)
(*   out        the computed outputs: a constant, a result of main, keys   *)
(*   existing   what applying to a target that has one already does        *)
(*   destroys   deleting the resource undoes it on the target              *)
Plain == [transport |-> TRUE, place |-> "host", sum |-> "none", acts |-> "always",
          read |-> "state", replaceOn |-> {}, out |-> "static", existing |-> "overwrite",
          destroys |-> FALSE]

(* Mutations: commands that run once only, an install that ignores updates  *)
(* and a cluster that outlives its resource.                                *)
RemoteExecOnce == [Plain EXCEPT !.sum = "unknown", !.acts = "create", !.out = "main"]
BundleInstallOnce == [Plain EXCEPT !.acts = "create", !.out = "main"]
LocalKindClusterKept ==
    [Plain EXCEPT !.transport = FALSE, !.place = "main", !.acts = "create",
                  !.read = "existence", !.replaceOn = {"main"}, !.out = "main",
                  !.existing = "fail"]

File == [Plain EXCEPT !.sum = "keep", !.acts = "sum"]
RemoteExec == [Plain EXCEPT !.sum = "unknown", !.acts = "sum", !.out = "main"]
LocalExec == [RemoteExec EXCEPT !.transport = FALSE]
User == [Plain EXCEPT !.read = "attributes"]
BundleInstall == [Plain EXCEPT !.out = "main"]
VaultStart == [Plain EXCEPT !.acts = "create"]
ConsulStart == [Plain EXCEPT !.acts = "create"]
BoundaryStart == [Plain EXCEPT !.acts = "create"]
VaultInit == [Plain EXCEPT !.out = "keys", !.existing = "skip"]
BoundaryInit == [Plain EXCEPT !.out = "keys", !.existing = "fail"]
VaultUnseal == Plain
LocalKindCluster ==
    [Plain EXCEPT !.transport = FALSE, !.place = "main", !.acts = "create",
                  !.read = "existence", !.replaceOn = {"main"}, !.out = "main",
                  !.existing = "fail", !.destroys = TRUE]
LocalKindLoadImage ==
    [Plain EXCEPT !.acts = "create", !.replaceOn = {"main", "rest", "host"}, !.out = "main"]

TypeOf ==
    [file |-> File, remote_exec |-> RemoteExec, local_exec |-> LocalExec, user |-> User,
     bundle_install |-> BundleInstall, vault_start |-> VaultStart,
     consul_start |-> ConsulStart, boundary_start |-> BoundaryStart,
     vault_init |-> VaultInit, boundary_init |-> BoundaryInit, vault_unseal |-> VaultUnseal,
     kind_cluster |-> LocalKindCluster, kind_load_image |-> LocalKindLoadImage]

Unknown == "unknown"

ASSUME LifecycleAssumption ==
    /\ Kinds \subseteq DOMAIN TypeOf /\ Movable \subseteq Kinds
    /\ Hosts # {} /\ Mains # {} /\ Rests # {}
    /\ MaxEdits \in Nat /\ MaxFaults \in Nat
    /\ {Null, Unknown, Nothing} \cap (Mains \union Rests \union Hosts) = {}
    /\ Nothing \notin [main : Mains \union {Unknown}, rest : Rests]

VARIABLES
    kind,      \* type of the resource
    config,    \* wanted inputs, or Null when removed from the configuration
    state,     \* Terraform's saved state of the resource, or Null
    plan,      \* the plan being applied: action and planned state
    world,     \* what the targets really hold, by place
    phase,     \* "idle", "refreshed" or "planned"
    edits, faults,
    dirty      \* history: places changed by a failed apply or from outside

vars == <<kind, config, state, plan, world, phase, edits, faults, dirty>>

Type == TypeOf[kind]
Inputs == [main : Mains, rest : Rests, host : Hosts]
Places == Hosts \union Mains
NoPlan == [action |-> "none", planned |-> Null]

(* Where a resource lives: a kind cluster is found by its name. *)
Place(r) == r[Type.place]
InputsOf(r) == [main |-> r.main, rest |-> r.rest, host |-> r.host]
Content(r) == [main |-> r.main, rest |-> r.rest]

Config(k) == IF k \in Movable /\ TypeOf[k].transport
             THEN Inputs
             ELSE {i \in Inputs : i.host = CHOOSE h \in Hosts : TRUE}

Init ==
    /\ kind \in Kinds
    /\ config \in Config(kind)
    /\ state = Null
    /\ plan = NoPlan
    /\ world = [p \in Places |-> Nothing]
    /\ phase = "idle"
    /\ edits = 0
    /\ faults = 0
    /\ dirty = {}

-----------------------------------------------------------------------------
(* The author of the configuration changes or removes the resource. *)
Edit ==
    /\ phase = "idle"
    /\ edits < MaxEdits
    /\ edits' = edits + 1
    /\ config' \in (Config(kind) \union {Null}) \ {config}
    /\ UNCHANGED <<kind, state, plan, world, phase, faults, dirty>>

(* Someone changes or removes a resource that is read back, behind         *)
(* Terraform's back.                                                       *)
Drift ==
    /\ phase = "idle"
    /\ Type.read # "state"
    /\ faults < MaxFaults
    /\ faults' = faults + 1
    /\ \E p \in Places :
        /\ world[p] # Nothing
        /\ \/ world' = [world EXCEPT ![p] = Nothing]
           \/ /\ Type.read = "attributes"
              /\ \E m \in Mains : world' = [world EXCEPT ![p].main = m]
        /\ dirty' = dirty \union {p}
    /\ UNCHANGED <<kind, config, state, plan, phase, edits>>

-----------------------------------------------------------------------------
(* Mutation: the state is returned unread. *)
UserReadBlind == state

(* user.ReadResource looks the user up by name: its attributes become what *)
(* the host says, and unknown when it was not found, for whatever reason.  *)
UserNotFound == [state EXCEPT !.main = Unknown]
UserRead ==
    IF world[Place(state)] = Nothing THEN UserNotFound
    ELSE [state EXCEPT !.main = world[Place(state)].main]

(* A kind cluster that is gone is reported as deleted. *)
KindClusterRead == IF world[Place(state)] = Nothing THEN Null ELSE state

ReadResource ==
    IF state = Null THEN Null
    ELSE CASE Type.read = "attributes" -> UserRead
           [] Type.read = "existence" -> KindClusterRead
           [] OTHER -> state

(* A client that cannot be built (a key that does not parse) leaves the    *)
(* state of a user as it is.  Building it does not connect, so a host that *)
(* does not answer, or that loses the commands, is a user not found.       *)
Refresh ==
    /\ phase = "idle"
    /\ \/ state' = ReadResource /\ UNCHANGED faults
       \/ /\ Type.read = "attributes" /\ state # Null
          /\ faults < MaxFaults
          /\ faults' = faults + 1
          /\ state' \in {state, UserNotFound}
    /\ phase' = "refreshed"
    /\ UNCHANGED <<kind, config, plan, world, edits, dirty>>

-----------------------------------------------------------------------------
(* PlanResourceChange.  known says whether main is known when planning; it *)
(* is not when it comes from a resource that was edited as well and is     *)
(* still to be applied.                                                    *)

(* file.PlanResourceChange: the sum of the source, or what the proposed     *)
(* state holds, which for a computed attribute is the prior value.         *)
FileSum(known) ==
    IF known THEN config.main
    ELSE IF state # Null THEN state.sum ELSE Unknown

(* Mutation: the same mistake in the exec resources. *)
ExecSumKeeps(known) ==
    IF known THEN config.main
    ELSE IF state # Null THEN state.sum ELSE Unknown

(* remoteExec and localExec plan an unknown sum whenever main is unknown. *)
ExecSum(known) == IF known THEN config.main ELSE Unknown

PlannedSum(known) ==
    CASE Type.sum = "keep" -> FileSum(known)
      [] Type.sum = "unknown" -> ExecSum(known)
      [] OTHER -> Null

(* Computed outputs are unknown on create and otherwise planned as they    *)
(* were, except the output of commands that will run again.                *)
PlannedOut(known) ==
    IF state = Null THEN Unknown
    ELSE IF Type.sum = "unknown" /\ ExecSum(known) # state.sum THEN Unknown
    ELSE state.out

Planned(known) ==
    [main |-> IF known THEN config.main ELSE Unknown,
     rest |-> config.rest, host |-> config.host,
     sum |-> PlannedSum(known), out |-> PlannedOut(known)]

(* embeddedTransportV1.transportReplacedAttributePaths builds its list in a *)
(* copy that is dropped: no change of transport ever asks for a replace.    *)
TransportReplacedAttributePaths == {}

RequiresReplace(planned) ==
    \E a \in Type.replaceOn \union TransportReplacedAttributePaths : planned[a] # state[a]

(* Core compares the plan with the state: an unknown equals nothing. *)
ActionOf(planned) ==
    IF state = Null THEN "create"
    ELSE IF planned = state /\ planned.main # Unknown THEN "none"
    ELSE IF RequiresReplace(planned) THEN "replace" ELSE "update"

ProviderPlan(known) ==
    IF config = Null
    THEN IF state = Null THEN NoPlan ELSE [action |-> "delete", planned |-> Null]
    ELSE IF ActionOf(Planned(known)) = "none" THEN NoPlan
    ELSE [action |-> ActionOf(Planned(known)), planned |-> Planned(known)]

PlanResourceChange ==
    /\ phase = "refreshed"
    /\ \E known \in BOOLEAN :
        /\ known \/ edits < MaxEdits
        /\ edits' = IF known THEN edits ELSE edits + 1
        /\ plan' = ProviderPlan(known)
    /\ phase' = IF plan'.action = "none" THEN "idle" ELSE "planned"
    /\ UNCHANGED <<kind, config, state, world, faults, dirty>>

-----------------------------------------------------------------------------
(* Terraform core plans once more when applying, with everything known, and *)
(* refuses a plan that changes a value the first plan knew.                 *)
Compatible(before, after) ==
    \A a \in {"main", "rest", "host", "sum", "out"} :
        before[a] \in {Unknown, after[a]}

FinalPlanOK ==
    config # Null => Compatible(plan.planned, Planned(TRUE))

(* The condition under which ApplyResourceChange works on the target. *)
Acts(planned) ==
    CASE Type.acts = "create" -> state = Null
      [] Type.acts = "sum" -> (state # Null => state.sum # planned.sum)
      [] OTHER -> TRUE

(* vault.Init on an initialised node succeeds and answers nothing; boundary *)
(* database init fails there, and so does kind's create of a cluster whose  *)
(* name is taken.                                                           *)
Initialised(planned) == Type.existing # "overwrite" /\ world[Place(planned)] # Nothing
InitFails(planned) == Type.existing = "fail" /\ Acts(planned) /\ Initialised(planned)

(* The target after the work is done. *)
Effect(planned) ==
    IF Initialised(planned) THEN world
    ELSE [world EXCEPT ![Place(planned)] = Content(planned)]

(* Computed outputs in the new state. *)
Out(planned) ==
    IF ~Acts(planned) THEN planned.out
    ELSE IF Initialised(planned) THEN "none"
    ELSE IF Type.out = "main" THEN planned.main
    ELSE Type.out

(* Mutations: an output is never set, and an update returns the prior state. *)
NewStateUnset(planned) == planned
NewStatePrior(planned) == IF state = Null THEN [planned EXCEPT !.out = Out(planned)] ELSE state

NewState(planned) == [planned EXCEPT !.out = Out(planned)]

(* Saving what ApplyResourceChange returned.  ToTFProto6Response leaves the *)
(* state out of a response with errors, and core then keeps the prior one.  *)
ApplySucceeds(planned) ==
    /\ planned # state
    /\ ~InitFails(planned)
    /\ world' = IF Acts(planned) THEN Effect(planned) ELSE world
    /\ dirty' = IF Acts(planned) THEN dirty \ {Place(planned)} ELSE dirty
    /\ state' = NewState(planned)
    /\ UNCHANGED faults

(* The transport or a command fails, before or after the target changed, or *)
(* Terraform dies before it saved the state.                                *)
ApplyFails(planned) ==
    /\ planned # state
    /\ \/ /\ faults < MaxFaults
          /\ faults' = faults + 1
          /\ \/ UNCHANGED <<world, dirty>>
             \/ /\ Acts(planned) /\ ~InitFails(planned)
                /\ world' = Effect(planned)
                /\ dirty' = dirty \union {Place(planned)}
       \/ /\ InitFails(planned)
          /\ UNCHANGED <<world, dirty, faults>>
    /\ UNCHANGED state

(* What was unknown turned out as it was: core does not call the provider. *)
NoChange(planned) ==
    /\ planned = state
    /\ UNCHANGED <<world, dirty, state, faults>>

CreateOrUpdate ==
    /\ phase = "planned"
    /\ plan.action \in {"create", "update"}
    /\ FinalPlanOK
    /\ NoChange(Planned(TRUE)) \/ ApplySucceeds(Planned(TRUE)) \/ ApplyFails(Planned(TRUE))
    /\ plan' = NoPlan
    /\ phase' = "idle"
    /\ UNCHANGED <<kind, config, edits>>

(* Most types do nothing when they are deleted. *)
Destroyed == IF Type.destroys THEN [world EXCEPT ![Place(state)] = Nothing] ELSE world

(* A delete, or the first half of a replace, which then goes on to create.  *)
(* It may fail, or be reported as failed, before or after the target changed. *)
Delete ==
    /\ phase = "planned"
    /\ plan.action \in {"delete", "replace"}
    /\ \/ /\ world' = Destroyed
          /\ state' = Null
          /\ dirty' = IF Type.destroys THEN dirty \ {Place(state)} ELSE dirty
          /\ IF plan.action = "delete"
             THEN plan' = NoPlan /\ phase' = "idle"
             ELSE plan' = [action |-> "create",
                           planned |-> [plan.planned EXCEPT !.out = Unknown]] /\ UNCHANGED phase
          /\ UNCHANGED faults
       \/ /\ faults < MaxFaults
          /\ faults' = faults + 1
          /\ plan' = NoPlan
          /\ phase' = "idle"
          /\ \/ UNCHANGED <<world, dirty>>
             \/ world' = Destroyed /\ dirty' = dirty \union {Place(state)}
          /\ UNCHANGED state
    /\ UNCHANGED <<kind, config, edits>>

(* Core reports "inconsistent final plan" and gives up on this apply. *)
Refused ==
    /\ phase = "planned"
    /\ plan.action \in {"create", "update"}
    /\ ~FinalPlanOK
    /\ plan' = NoPlan
    /\ phase' = "idle"
    /\ UNCHANGED <<kind, config, state, world, edits, faults, dirty>>

Terraform == Refresh \/ PlanResourceChange \/ CreateOrUpdate \/ Delete \/ Refused
Next == Edit \/ Drift \/ Terraform

(* Whoever runs Terraform runs it again until there is nothing to apply. *)
Spec == Init /\ [][Next]_vars /\ WF_vars(Terraform)
-----------------------------------------------------------------------------
Outs == Mains \union {"keys", "none", "static"}
States == [main : Mains \union {Unknown}, rest : Rests, host : Hosts,
           sum : Mains \union {Null}, out : Outs]
PlannedStates == [main : Mains \union {Unknown}, rest : Rests, host : Hosts,
                  sum : Mains \union {Null, Unknown}, out : Outs \union {Unknown}]

ASSUME NullIsNoState == Null \notin States

(* In particular no computed attribute is left unknown by an apply. *)
TypeOK ==
    /\ kind \in Kinds
    /\ config \in Inputs \union {Null}
    /\ state \in States \union {Null}
    /\ plan \in [action : {"none", "create", "update", "delete", "replace"},
                 planned : PlannedStates \union {Null}]
    /\ world \in [Places -> [main : Mains, rest : Rests] \union {Nothing}]
    /\ phase \in {"idle", "refreshed", "planned"}
    /\ edits \in 0..MaxEdits
    /\ faults \in 0..MaxFaults
    /\ dirty \subseteq Places

(* What the target holds is what a state says of it, as far as that state   *)
(* knows.                                                                   *)
Describes(r, held) ==
    /\ held # Nothing
    /\ held.rest = r.rest
    /\ r.main \in {Unknown, held.main}

(* After an apply the target holds what the saved state says, for every     *)
(* history of edits, failed applies, lookups that failed, retries and       *)
(* changes of host, unless the last thing done to that target failed half   *)
(* way or was drift.                                                        *)
UpdatesTakeEffect ==
    phase = "idle" /\ state # Null =>
        Place(state) \in dirty \/ Describes(state, world[Place(state)])

(* user, bundle_install and vault_unseal apply every change and keep that   *)
(* promise.  The others do not: enos_vault_start ignores updates, enos_file *)
(* looks at its sum only.                                                   *)
InSync == kind \in {"user", "bundle_install", "vault_unseal"} => UpdatesTakeEffect

(* For file and exec the sum in the state is the sum of what the target     *)
(* holds: only then is it safe not to upload or run again.                  *)
SumInSync ==
    Type.sum # "none" /\ phase = "idle" /\ state # Null =>
        \/ Place(state) \in dirty
        \/ world[Place(state)] # Nothing /\ world[Place(state)].main = state.sum

(* A kind cluster that no state describes does not exist, unless a create   *)
(* failed half way: none is left behind by a rename, a replace that stops   *)
(* after its delete, or a removal.                                          *)
NoOrphan == kind = "kind_cluster" =>
    \A p \in Places : world[p] # Nothing => p \in dirty \/ (state # Null /\ Place(state) = p)

(* The plan made at apply time never contradicts the one that was shown:    *)
(* no apply is refused.  enos_file is left out, since it plans the sum of   *)
(* its old content when the new one is unknown.                             *)
PlanHolds == [][Type.sum = "keep" \/ ~Refused]_vars

(* Running Terraform again and again brings state and configuration together *)
(* once edits and faults have stopped, unless each create or update fails    *)
(* because its target has one already.  For boundary_init that is any apply  *)
(* to an initialised database; for a kind cluster only one whose create took *)
(* effect and was not saved, and which no state describes since.             *)
Settled ==
    IF config = Null THEN state = Null
    ELSE state # Null /\ InputsOf(state) = config
Blocked ==
    /\ config # Null
    /\ InitFails(Planned(TRUE))
    /\ kind = "boundary_init" \/ (state = Null /\ Place(config) \in dirty)
Converges == <>[](Settled \/ Blocked)

(* For the types that read their target, drift is repaired as well. *)
Repaired == config # Null => world[Place(config)] # Nothing /\ world[Place(config)].main = config.main
DriftIsRepaired == <>[](Type.read # "state" => Repaired)
=============================================================================
