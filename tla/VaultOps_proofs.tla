---------------------------- MODULE VaultOps_proofs ----------------------------
(***************************************************************************)
(* Proofs about concurrent vault.Init and vault.Unseal calls, for every    *)
(* set of clients, number of keys and threshold.                           *)
(***************************************************************************)
EXTENDS VaultOps, TLAPS

(* What the reads of GetState see of the node, and what they store. *)
LEMMA ViewType == TypeOK => NodeView \in ReadState
BY DEF TypeOK, NodeView, ReadState

(* A read leaves the State of its client alone or fills in one field of it. *)
LEMMA ReadUnit ==
    ASSUME NEW c \in Clients, TypeOK, ShowProperties(c)
    PROVE  st' = st \/ st' = [st EXCEPT ![c] = [st[c] EXCEPT !.unit = [known |-> TRUE, running |-> up]]]
BY DEF ShowProperties, Read, TypeOK

LEMMA ReadStatus ==
    ASSUME NEW c \in Clients, TypeOK, GetStatus(c)
    PROVE  st' = st \/ st' = [st EXCEPT ![c] = [st[c] EXCEPT !.status = NodeView]]
BY DEF GetStatus, Read, TypeOK

LEMMA ReadSealStatus ==
    ASSUME NEW c \in Clients, TypeOK, GetSealStatus(c)
    PROVE  st' = st \/ st' = [st EXCEPT ![c] = [st[c] EXCEPT !.seal = NodeView]]
BY DEF GetSealStatus, Read, TypeOK

LEMMA ReadHealth ==
    ASSUME NEW c \in Clients, TypeOK, GetHealth(c)
    PROVE  st' = st \/ st' = [st EXCEPT ![c] = [st[c] EXCEPT !.health = NodeView]]
BY DEF GetHealth, Read, TypeOK

(* A State stays a State, whichever field is filled in. *)
LEMMA FieldType ==
    ASSUME NEW s \in StateType, NEW u \in UnitState, NEW v \in ReadState
    PROVE  /\ [s EXCEPT !.unit = u] \in StateType
           /\ [s EXCEPT !.status = v] \in StateType
           /\ [s EXCEPT !.seal = v] \in StateType
           /\ [s EXCEPT !.health = v] \in StateType
BY DEF StateType

LEMMA ReadType ==
    ASSUME NEW c \in Clients, TypeOK,
           ShowProperties(c) \/ GetStatus(c) \/ GetSealStatus(c) \/ GetHealth(c)
    PROVE  st' \in [Clients -> StateType]
<1>1. [known |-> TRUE, running |-> up] \in UnitState
  BY DEF TypeOK, UnitState
<1>2. st \in [Clients -> StateType] /\ st[c] \in StateType /\ NodeView \in ReadState
  BY ViewType DEF TypeOK
<1>3. \E s \in StateType : st' = [st EXCEPT ![c] = s]
  <2>1. CASE st' = st
    BY <1>2, <2>1
  <2>2. CASE st' # st
    BY <1>1, <1>2, <2>2, ReadUnit, ReadStatus, ReadSealStatus, ReadHealth, FieldType
  <2> QED
    BY <2>1, <2>2
<1> QED
  BY <1>2, <1>3

-----------------------------------------------------------------------------
(* The variables of the node and of every client keep their types: a State  *)
(* is only ever filled in field by field, and the index of the next key     *)
(* stays within one past the last.                                          *)
THEOREM TypeCorrect == Spec => []TypeOK
<1> USE VaultOpsAssumption
<1>1. ASSUME Init PROVE TypeOK
  <2>1. EmptyState \in StateType
    BY DEF EmptyState, NoData, StateType, UnitState, ReadState
  <2>2. init \in BOOLEAN /\ owner \in Clients \union {NoCaller, Operator}
    BY <1>1 DEF Init
  <2>3. key \in [Clients -> 1..NumKeys + 1] /\ faults \in 0..MaxFaults
    BY <1>1 DEF Init
  <2>4. st \in [Clients -> StateType] /\ progress \subseteq 1..NumKeys
    BY <1>1, <2>1 DEF Init
  <2>5. /\ pc = [c \in Clients |-> "entry"] /\ phase = [c \in Clients |-> "prior"]
        /\ ctx = [c \in Clients |-> "live"] /\ keys = [c \in Clients |-> FALSE]
        /\ result = [c \in Clients |-> "pending"] /\ fresh = [c \in Clients |-> FALSE]
    BY <1>1 DEF Init
  <2>6. /\ SealsAre /\ weather \in Weathers /\ op \in [Clients -> Ops]
        /\ up \in BOOLEAN /\ sealed = TRUE
    BY <1>1 DEF Init
  <2> QED
    BY <2>2, <2>3, <2>4, <2>5, <2>6 DEF TypeOK
<1>2. TypeOK /\ [Next]_vars => TypeOK'
  <2> SUFFICES ASSUME TypeOK, [Next]_vars PROVE TypeOK'
    OBVIOUS
  <2>1. CASE Start
    BY <2>1 DEF Start, Observe, fixed, client, TypeOK, SealsAre
  <2>2. CASE Crash
    <3>1. faults' \in 0..MaxFaults /\ fresh' \in [Clients -> BOOLEAN]
      BY <2>2 DEF Crash, Observe, TypeOK
    <3> QED
      BY <2>2, <3>1 DEF Crash, fixed, client, TypeOK, SealsAre
  <2>3. CASE Seal
    BY <2>3 DEF Seal, Observe, fixed, client, TypeOK, SealsAre
  <2>4. CASE AutoUnseal
    BY <2>4 DEF AutoUnseal, Observe, fixed, client, TypeOK, SealsAre
  <2>5. ASSUME NEW c \in Clients, CtxDone(c)
        PROVE  TypeOK'
    BY <2>5 DEF CtxDone, Observe, server, fixed, TypeOK, SealsAre
  <2>6. ASSUME NEW c \in Clients, Entry(c)
        PROVE  TypeOK'
    BY <2>6 DEF Entry, Finish, Goto, Observe, server, fixed, TypeOK, SealsAre
  <2>7. ASSUME NEW c \in Clients, Select(c)
        PROVE  TypeOK'
    <3>1. EmptyState \in StateType
      BY DEF EmptyState, NoData, StateType, UnitState, ReadState
    <3> QED
      BY <2>7, <3>1 DEF Select, Finish, Goto, Observe, server, fixed, TypeOK, SealsAre
  <2>8. ASSUME NEW c \in Clients,
               ShowProperties(c) \/ GetStatus(c) \/ GetSealStatus(c) \/ GetHealth(c)
        PROVE  TypeOK'
    <3>1. st' \in [Clients -> StateType]
      BY <2>8, ReadType
    <3>2. UNCHANGED <<server, faults, owner, op, phase, ctx, key, keys, result>>
      BY <2>8 DEF ShowProperties, GetStatus, GetSealStatus, GetHealth, Read
    <3>3. pc' \in [Clients -> {"entry", "select", "unit", "status", "sealstatus", "health",
                               "evaluate", "sleep", "command", "unsealkey", "fail", "done"}]
      BY <2>8 DEF ShowProperties, GetStatus, GetSealStatus, GetHealth, Read, Goto, TypeOK
    <3>4. fresh' \in [Clients -> BOOLEAN]
      BY <2>8 DEF ShowProperties, GetStatus, GetSealStatus, GetHealth, Read, Observe, TypeOK
    <3> QED
      BY <3>1, <3>2, <3>3, <3>4 DEF server, fixed, TypeOK, SealsAre
  <2>9. ASSUME NEW c \in Clients, EvaluateFails(c)
        PROVE  TypeOK'
    BY <2>9 DEF EvaluateFails, Goto, Observe, server, fixed, TypeOK, SealsAre
  <2>10. ASSUME NEW c \in Clients, PriorReached(c)
         PROVE  TypeOK'
    BY <2>10 DEF PriorReached, AfterPrior, Finish, Goto, Observe, server, fixed, TypeOK, SealsAre
  <2>11. ASSUME NEW c \in Clients, PostReached(c)
         PROVE  TypeOK'
    BY <2>11 DEF PostReached, Finish, Goto, Observe, server, fixed, TypeOK, SealsAre
  <2>12. ASSUME NEW c \in Clients, Wake(c)
         PROVE  TypeOK'
    BY <2>12 DEF Wake, Goto, Observe, server, fixed, TypeOK, SealsAre
  <2>13. ASSUME NEW c \in Clients, InitCommand(c)
         PROVE  TypeOK'
    BY <2>13 DEF InitCommand, CommandFailed, Goto, Observe, fixed, TypeOK, SealsAre
  <2>14. ASSUME NEW c \in Clients, UnsealKey(c)
         PROVE  TypeOK'
    <3>0. key[c] \in 1..NumKeys + 1 /\ progress \subseteq 1..NumKeys /\ sealed \in BOOLEAN
      BY DEF TypeOK
    <3>1. /\ progress' \subseteq 1..NumKeys /\ sealed' \in BOOLEAN
          /\ \/ key' = key
             \/ key[c] <= NumKeys /\ key' = [key EXCEPT ![c] = @ + 1]
      <4>1. CASE UNCHANGED <<server, key>>
        BY <3>0, <4>1 DEF server
      <4>2. CASE KeysLeft(c) /\ EnterKey(key[c]) /\ key' = [key EXCEPT ![c] = @ + 1]
        <5>1. key[c] \in 1..NumKeys
          BY <3>0, <4>2 DEF KeysLeft
        <5>2. progress' \subseteq progress \union {key[c]} /\ sealed' \in BOOLEAN
          BY <3>0, <4>2 DEF EnterKey
        <5> QED
          BY <3>0, <4>2, <5>1, <5>2
      <4> QED
        BY <2>14, <4>1, <4>2 DEF UnsealKey, server, fixed
    <3>2. key' \in [Clients -> 1..NumKeys + 1]
      BY <3>0, <3>1 DEF TypeOK
    <3> QED
      BY <2>14, <3>1, <3>2 DEF UnsealKey, CommandFailed, Goto, Observe, server, fixed, TypeOK, SealsAre
  <2>15. ASSUME NEW c \in Clients, Fail(c)
         PROVE  TypeOK'
    BY <2>15 DEF Fail, Finish, Goto, Observe, server, fixed, TypeOK, SealsAre
  <2>16. CASE UNCHANGED vars
    BY <2>16 DEF vars, server, fixed, client, TypeOK, SealsAre
  <2> QED
    BY <2>1, <2>2, <2>3, <2>4, <2>5, <2>6, <2>7, <2>8, <2>9, <2>10, <2>11, <2>12, <2>13, <2>14,
       <2>15, <2>16 DEF Next, ServerStep, ClientStep
<1> QED
  BY <1>1, <1>2, PTL DEF Spec

-----------------------------------------------------------------------------
ReadStep(c) == ShowProperties(c) \/ GetStatus(c) \/ GetSealStatus(c) \/ GetHealth(c)

(* A step of the node or of another client does not touch what client d     *)
(* keeps, and takes nothing back of what it could have observed.            *)
Untouched(d) ==
    /\ pc'[d] = pc[d] /\ result'[d] = result[d] /\ st'[d] = st[d] /\ keys'[d] = keys[d]
    /\ fresh[d] => fresh'[d]

LEMMA ServerLeavesClients ==
    ASSUME NEW d \in Clients, TypeOK, ServerStep
    PROVE  Untouched(d) /\ op' = op
BY DEF ServerStep, Start, Crash, Seal, AutoUnseal, Observe, client, TypeOK, Untouched

LEMMA OthersUntouched ==
    ASSUME NEW c \in Clients, NEW d \in Clients \ {c}, TypeOK, CtxDone(c) \/ ClientStep(c)
    PROVE  Untouched(d) /\ op' = op
<1> USE DEF Untouched, TypeOK, Goto, Finish, Observe
<1>1. CASE CtxDone(c) \/ Entry(c) \/ Wake(c) \/ Fail(c)
  BY <1>1 DEF CtxDone, Entry, Wake, Fail
<1>2. CASE Select(c)
  BY <1>2 DEF Select
<1>3. CASE ReadStep(c)
  BY <1>3 DEF ReadStep, ShowProperties, GetStatus, GetSealStatus, GetHealth, Read
<1>4. CASE EvaluateFails(c) \/ PostReached(c)
  BY <1>4 DEF EvaluateFails, PostReached
<1>5. CASE PriorReached(c)
  BY <1>5 DEF PriorReached, AfterPrior
<1>6. CASE InitCommand(c)
  BY <1>6 DEF InitCommand, CommandFailed
<1>7. CASE UnsealKey(c)
  BY <1>7 DEF UnsealKey, CommandFailed
<1> QED
  BY <1>1, <1>2, <1>3, <1>4, <1>5, <1>6, <1>7 DEF ClientStep, ReadStep

(* What a client knows of the node's status is from "vault status" as it was *)
(* at that read.                                                             *)
LEMMA StatusIsView ==
    ASSUME NEW c \in Clients, TypeOK, ReadStep(c)
    PROVE  /\ st'[c].status = st[c].status \/ (GetStatus(c) /\ up /\ st'[c].status = NodeView)
           /\ UNCHANGED <<up, init, sealed, owner, op, keys, result>>
           /\ {pc[c], pc'[c]} \cap {"done", "fail"} = {}
           /\ fresh'[c] = (fresh[c] \/ (up /\ ~sealed))
<1>1. st[c] \in StateType /\ NodeView \in ReadState
  BY ViewType DEF TypeOK
<1>2. st'[c].status = st[c].status \/ (GetStatus(c) /\ st'[c].status = NodeView)
  <2>1. CASE ShowProperties(c)
    BY <1>1, <2>1, ReadUnit DEF TypeOK, StateType
  <2>2. CASE GetStatus(c)
    BY <1>1, <2>2, ReadStatus DEF TypeOK, StateType
  <2>3. CASE GetSealStatus(c)
    BY <1>1, <2>3, ReadSealStatus DEF TypeOK, StateType
  <2>4. CASE GetHealth(c)
    BY <1>1, <2>4, ReadHealth DEF TypeOK, StateType
  <2> QED
    BY <2>1, <2>2, <2>3, <2>4 DEF ReadStep
<1>3. GetStatus(c) => up \/ st' = st
  BY DEF GetStatus, Read
<1>4. UNCHANGED <<up, init, sealed, owner, op, keys, result>>
  BY DEF ReadStep, ShowProperties, GetStatus, GetSealStatus, GetHealth, Read, server
<1>5. {pc[c], pc'[c]} \cap {"done", "fail"} = {}
  BY DEF ReadStep, ShowProperties, GetStatus, GetSealStatus, GetHealth, Read, Goto, TypeOK
<1>6. fresh'[c] = (fresh[c] \/ (up /\ ~sealed))
  BY <1>4 DEF ReadStep, ShowProperties, GetStatus, GetSealStatus, GetHealth, Read, Observe
<1> QED
  BY <1>2, <1>3, <1>4, <1>5, <1>6

-----------------------------------------------------------------------------
(* UnsealIsFresh is not inductive: what a call has read of an unsealed node  *)
(* must already be recorded as seen, from the read to the end of the call.   *)
FreshFor(c) ==
    /\ result[c] # "pending" => pc[c] = "done"
    /\ pc[c] # "done" /\ st[c].status.known /\ ~st[c].status.sealed => fresh[c]
    /\ op[c] = "unseal" /\ result[c] = "ok" => fresh[c]
FreshInv == \A c \in Clients : FreshFor(c)

LEMMA UntouchedStaysFresh ==
    ASSUME NEW d \in Clients, FreshFor(d), Untouched(d), op' = op
    PROVE  FreshFor(d)'
BY DEF FreshFor, Untouched

(* A client's own step keeps the record: only the top of the loop takes it   *)
(* back, together with everything that was read.                             *)
LEMMA OwnStepKeepsFresh ==
    ASSUME NEW c \in Clients, TypeOK, FreshFor(c), CtxDone(c) \/ ClientStep(c)
    PROVE  FreshFor(c)'
<1> USE DEF FreshFor, Goto, Finish
<1>0. /\ pc \in [Clients -> {"entry", "select", "unit", "status", "sealstatus", "health",
                              "evaluate", "sleep", "command", "unsealkey", "fail", "done"}]
      /\ result \in [Clients -> {"pending", "ok", "error", "unsupported"}]
      /\ st \in [Clients -> StateType]
  BY DEF TypeOK
<1>1. CASE CtxDone(c)
  BY <1>0, <1>1 DEF CtxDone, Observe
<1>2. CASE Entry(c) \/ Wake(c) \/ Fail(c)
  BY <1>0, <1>2 DEF Entry, Wake, Fail, Observe
<1>3. CASE Select(c)
  BY <1>0, <1>3 DEF Select, EmptyState, NoData
<1>4. CASE ReadStep(c)
  <2>1. st'[c].status = NodeView => st'[c].status.sealed = sealed
    BY DEF NodeView
  <2> QED
    BY <1>4, <2>1, StatusIsView
<1>5. CASE EvaluateFails(c)
  BY <1>0, <1>5 DEF EvaluateFails, Observe
<1>6. CASE PriorReached(c)
  BY <1>0, <1>6 DEF PriorReached, AfterPrior, Observe
<1>7. CASE PostReached(c)
  BY <1>0, <1>7 DEF PostReached, PostChecks, IsUnsealed, SealKnown, Observe
<1>8. CASE InitCommand(c)
  BY <1>0, <1>8 DEF InitCommand, CommandFailed, Observe
<1>9. CASE UnsealKey(c)
  BY <1>0, <1>9 DEF UnsealKey, CommandFailed, Observe
<1> QED
  BY <1>1, <1>2, <1>3, <1>4, <1>5, <1>6, <1>7, <1>8, <1>9 DEF ClientStep, ReadStep

(* An Unseal that returns success saw the node up and unsealed during its    *)
(* last GetState, for any number of concurrent clients, keys and faults.     *)
THEOREM UnsealSawItsState == Spec => []UnsealIsFresh
<1>1. Init => FreshInv
  BY DEF Init, FreshInv, FreshFor, EmptyState, NoData
<1>2. TypeOK /\ FreshInv /\ [Next]_vars => FreshInv'
  <2> SUFFICES ASSUME TypeOK, FreshInv, [Next]_vars, NEW d \in Clients PROVE FreshFor(d)'
    BY DEF FreshInv
  <2>0. FreshFor(d)
    BY DEF FreshInv
  <2>1. CASE ServerStep
    BY <2>0, <2>1, ServerLeavesClients, UntouchedStaysFresh
  <2>2. ASSUME NEW c \in Clients, CtxDone(c) \/ ClientStep(c)
        PROVE  FreshFor(d)'
    BY <2>0, <2>2, OthersUntouched, OwnStepKeepsFresh, UntouchedStaysFresh
  <2>3. CASE UNCHANGED vars
    BY <2>0, <2>3 DEF FreshFor, vars, client
  <2> QED
    BY <2>1, <2>2, <2>3 DEF Next
<1>3. FreshInv => UnsealIsFresh
  BY DEF FreshInv, FreshFor, UnsealIsFresh
<1> QED
  BY <1>1, <1>2, <1>3, TypeCorrect, PTL DEF Spec

-----------------------------------------------------------------------------
(* Who initialised the node holds the keys, or has lost them and fails; and  *)
(* a client that read an initialised node read the truth, for ever.          *)
HolderFor(c) ==
    /\ result[c] # "pending" => pc[c] = "done"
    /\ owner = c => keys[c] \/ pc[c] = "fail" \/ result[c] = "error"
    /\ keys[c] => owner = c
    /\ st[c].status.known /\ st[c].status.init => init
OnceInv ==
    /\ init <=> owner # NoCaller
    /\ \A c \in Clients : HolderFor(c)

(* The node and its owner change in one command only. *)
LEMMA OwnerStep ==
    ASSUME TypeOK, OnceInv, [Next]_vars
    PROVE  \/ UNCHANGED <<init, owner>>
           \/ \E c \in Clients : InitCommand(c) /\ ~init /\ init' /\ owner = NoCaller /\ owner' = c
<1>1. CASE ServerStep
  BY <1>1 DEF ServerStep, Start, Crash, Seal, AutoUnseal
<1>2. ASSUME NEW c \in Clients, CtxDone(c) \/ Entry(c) \/ Select(c) \/ EvaluateFails(c)
                \/ PriorReached(c) \/ PostReached(c) \/ Wake(c) \/ UnsealKey(c) \/ Fail(c)
      PROVE  UNCHANGED <<init, owner>>
  BY <1>2 DEF CtxDone, Entry, Select, EvaluateFails, PriorReached, PostReached, Wake, UnsealKey,
     Fail, server
<1>3. ASSUME NEW c \in Clients, ReadStep(c) PROVE UNCHANGED <<init, owner>>
  BY <1>3, StatusIsView
<1>4. ASSUME NEW c \in Clients, InitCommand(c)
      PROVE  UNCHANGED <<init, owner>> \/ (~init /\ init' /\ owner = NoCaller /\ owner' = c)
  BY <1>4 DEF InitCommand, OnceInv
<1>5. CASE UNCHANGED vars
  BY <1>5 DEF vars, server
<1> QED
  BY <1>1, <1>2, <1>3, <1>4, <1>5 DEF Next, ClientStep, ReadStep

LEMMA OwnStepKeepsHolder ==
    ASSUME NEW c \in Clients, TypeOK, OnceInv, CtxDone(c) \/ ClientStep(c)
    PROVE  HolderFor(c)'
<1> USE DEF HolderFor, Goto, Finish
<1>0. /\ pc \in [Clients -> {"entry", "select", "unit", "status", "sealstatus", "health",
                              "evaluate", "sleep", "command", "unsealkey", "fail", "done"}]
      /\ result \in [Clients -> {"pending", "ok", "error", "unsupported"}]
      /\ keys \in [Clients -> BOOLEAN]
      /\ st \in [Clients -> StateType]
      /\ HolderFor(c)
      /\ init <=> owner # NoCaller
      /\ c # NoCaller
  BY VaultOpsAssumption DEF TypeOK, OnceInv
<1>1. CASE CtxDone(c)
  BY <1>0, <1>1 DEF CtxDone, server
<1>2. CASE Entry(c) \/ Wake(c)
  BY <1>0, <1>2 DEF Entry, Wake, server
<1>3. CASE Fail(c)
  BY <1>0, <1>3 DEF Fail, server
<1>4. CASE Select(c)
  BY <1>0, <1>4 DEF Select, EmptyState, NoData, server
<1>5. CASE ReadStep(c)
  <2>1. st'[c].status = NodeView => st'[c].status.init = init
    BY DEF NodeView
  <2> QED
    BY <1>0, <1>5, <2>1, StatusIsView
<1>6. CASE EvaluateFails(c)
  BY <1>0, <1>6 DEF EvaluateFails, server
<1>7. CASE PriorReached(c)
  BY <1>0, <1>7 DEF PriorReached, AfterPrior, server
<1>8. CASE PostReached(c)
  BY <1>0, <1>8 DEF PostReached, server
<1>9. CASE InitCommand(c)
  BY <1>0, <1>9 DEF InitCommand, CommandFailed
<1>10. CASE UnsealKey(c)
  BY <1>0, <1>10 DEF UnsealKey, CommandFailed, server
<1> QED
  BY <1>1, <1>2, <1>3, <1>4, <1>5, <1>6, <1>7, <1>8, <1>9, <1>10 DEF ClientStep, ReadStep

LEMMA OnceInvariant == Spec => [](TypeOK /\ OnceInv)
<1>1. Init => OnceInv
  BY VaultOpsAssumption DEF Init, OnceInv, HolderFor, EmptyState, NoData, NoCaller, Operator
<1>2. TypeOK /\ OnceInv /\ [Next]_vars => OnceInv'
  <2> SUFFICES ASSUME TypeOK, OnceInv, [Next]_vars PROVE OnceInv'
    OBVIOUS
  <2>1. (init <=> owner # NoCaller)'
    BY OwnerStep, VaultOpsAssumption DEF OnceInv
  <2>2. ASSUME NEW d \in Clients PROVE HolderFor(d)'
    <3>0. HolderFor(d) /\ d # NoCaller
      BY VaultOpsAssumption DEF OnceInv
    <3>1. CASE CtxDone(d) \/ ClientStep(d)
      BY <3>1, OwnStepKeepsHolder
    <3>2. CASE ~(CtxDone(d) \/ ClientStep(d))
      <4>1. pc'[d] = pc[d] /\ result'[d] = result[d] /\ st'[d] = st[d] /\ keys'[d] = keys[d]
        BY <3>2, ServerLeavesClients, OthersUntouched DEF Next, Untouched, vars, client
      <4>2. UNCHANGED <<init, owner>> \/ (owner = NoCaller /\ owner' # d /\ init')
        BY <3>2, OwnerStep DEF ClientStep
      <4> QED
        BY <3>0, <4>1, <4>2 DEF HolderFor
    <3> QED
      BY <3>1, <3>2
  <2> QED
    BY <2>1, <2>2 DEF OnceInv
<1> QED
  BY <1>1, <1>2, TypeCorrect, PTL DEF Spec

(* A step of the clients and the node is an initialisation, the return of    *)
(* one call, or nothing, of the abstract OnceInit.                           *)
LEMMA StepRefines ==
    ASSUME TypeOK, OnceInv, OnceInv', [Next]_vars
    PROVE  [Once!Next]_Once!vars
<1> DEFINE bar == [c \in Clients |-> Outcome(c)]
<1>1. ASSUME NEW d \in Clients, op' = op, result'[d] = result[d],
             keys'[d] = keys[d] \/ result[d] = "pending"
      PROVE  Outcome(d)' = Outcome(d)
  BY <1>1 DEF Outcome
<1>2. CASE ServerStep
  <2>1. owner' = owner
    BY <1>2 DEF ServerStep, Start, Crash, Seal, AutoUnseal
  <2>2. bar' = bar
    BY <1>1, <1>2, ServerLeavesClients DEF Untouched
  <2> QED
    BY <2>1, <2>2 DEF Once!vars
<1>3. ASSUME NEW c \in Clients, CtxDone(c) \/ ClientStep(c)
      PROVE  [Once!Next]_Once!vars
  <2>1. \A d \in Clients \ {c} : Outcome(d)' = Outcome(d)
    BY <1>1, <1>3, OthersUntouched DEF Untouched
  <2>2. CASE InitCommand(c)
    <3>1. Outcome(c) = "pending" /\ op' = op /\ result' = result
      BY <2>2 DEF InitCommand, OnceInv, HolderFor, Outcome, TypeOK
    <3>2. bar' = bar
      BY <2>1, <3>1 DEF Outcome
    <3>3. CASE owner' = owner
      BY <3>2, <3>3 DEF Once!vars
    <3>4. CASE owner' # owner
      <4>1. owner = NoCaller /\ owner' = c
        BY <2>2, <3>4 DEF InitCommand, OnceInv
      <4> QED
        BY <3>1, <3>2, <4>1 DEF Once!Next, Once!Initialise, Once!NoCaller, NoCaller
    <3> QED
      BY <3>3, <3>4
  <2>3. CASE ~InitCommand(c)
    <3>0. owner' = owner /\ op' = op
      BY <1>3, <2>3, StatusIsView DEF ClientStep, ReadStep, CtxDone, Entry, Select, EvaluateFails,
         PriorReached, PostReached, Wake, UnsealKey, Fail
    <3>1. CASE Outcome(c)' = Outcome(c)
      <4>1. bar' = bar
        BY <2>1, <3>1
      <4> QED
        BY <3>0, <4>1 DEF Once!vars
    <3>2. CASE Outcome(c)' # Outcome(c)
      <4>0. HolderFor(c) /\ HolderFor(c)' /\ c # NoCaller /\ (init <=> owner # NoCaller)
        BY VaultOpsAssumption DEF OnceInv
      <4>1. Outcome(c) = "pending"
        <5>1. pc[c] # "done" \/ UNCHANGED <<result, keys>>
          BY <1>3, <2>3, StatusIsView DEF ClientStep, ReadStep, CtxDone, Entry, Select, EvaluateFails,
             PriorReached, PostReached, Wake, UnsealKey, Fail
        <5> QED
          BY <3>0, <3>2, <4>0, <5>1 DEF HolderFor, Outcome
      <4>2. Outcome(c)' \in {"keys", "no keys", "error"}
        BY <3>2, <4>1 DEF Outcome
      <4>3. Outcome(c)' = "keys" => owner = c
        BY <3>0, <4>0 DEF HolderFor, Outcome
      <4>4. Outcome(c)' = "no keys" => owner \notin {NoCaller, c}
        <5> SUFFICES ASSUME Outcome(c)' = "no keys" PROVE owner \notin {NoCaller, c}
          OBVIOUS
        <5>1. op[c] = "init" /\ result'[c] = "ok" /\ ~keys'[c] /\ result[c] = "pending"
          BY <3>0, <4>1 DEF Outcome
        <5>2. PostReached(c)
          BY <5>1, <1>3, <2>3, StatusIsView DEF ClientStep, ReadStep, CtxDone, Entry, Select,
             EvaluateFails, PriorReached, AfterPrior, Wake, UnsealKey, Fail, Finish, TypeOK
        <5>3. pc[c] = "evaluate" /\ IsInitialized(st[c]) /\ keys' = keys
          BY <5>2 DEF PostReached, PostChecks
        <5>4. owner # NoCaller
          BY <4>0, <5>3 DEF HolderFor, IsInitialized, InitKnown
        <5>5. owner # c
          BY <4>0, <5>1, <5>3 DEF HolderFor
        <5> QED
          BY <5>4, <5>5
      <4>5. bar' = [bar EXCEPT ![c] = Outcome(c)']
        BY <2>1
      <4> QED
        BY <3>0, <4>1, <4>2, <4>3, <4>4, <4>5 DEF Once!Next, Once!Return, Once!NoCaller, NoCaller
    <3> QED
      BY <3>1, <3>2
  <2> QED
    BY <2>2, <2>3
<1>4. CASE UNCHANGED vars
  <2>1. owner' = owner /\ op' = op /\ result' = result /\ keys' = keys
    BY <1>4 DEF vars, client
  <2>2. bar' = bar
    BY <2>1 DEF Outcome
  <2> QED
    BY <2>1, <2>2 DEF Once!vars
<1> QED
  BY <1>2, <1>3, <1>4 DEF Next

(* Concurrent vault.Init calls implement the abstract OnceInit: whatever     *)
(* interleaving, fault or lost answer there is, the node is initialised at   *)
(* most once, only that call returns the keys, and success without keys is   *)
(* only returned when someone else initialised the node.                     *)
THEOREM ImplementsOnceInit == Spec => InitIsOnce
<1>1. Init => Once!Init
  BY DEF Init, Once!Init, Once!NoCaller, NoCaller, Outcome
<1>2. (TypeOK /\ OnceInv) /\ (TypeOK /\ OnceInv)' /\ [Next]_vars => [Once!Next]_Once!vars
  BY StepRefines
<1> QED
  BY <1>1, <1>2, OnceInvariant, PTL DEF Spec, InitIsOnce, Once!Spec
=============================================================================
