------------------------------ MODULE VaultOps ------------------------------
(***************************************************************************)
(* vault.Init and vault.Unseal (internal/remoteflight/vault) run by        *)
(* concurrent clients against one Vault node over the SSH transport.  Both *)
(* are built on WaitForState, a Retry loop around GetState, and GetState   *)
(* is not a snapshot: it reads the systemd unit, "vault status",           *)
(* seal-status and health one after the other while the node may crash,    *)
(* restart, be sealed by an operator or be changed by another client.      *)
(*                                                                         *)
(* The Vault server and systemd are external: up, init, sealed and the     *)
(* unseal progress are modelled from what the client commands rely on.     *)
(***************************************************************************)
EXTENDS Naturals, FiniteSets

CONSTANTS
    Clients,       \* applies that run against the node
    Ops,           \* which operations they may be: "init", "unseal"
    NumKeys,       \* number of unseal keys the unseal request carries
    Threshold,     \* number of distinct keys that unseals the node
    Seals,         \* pairs of the node's seal and the requests' seal_type
    PreInit,       \* TRUE: the node may have been initialised before
    MaxFaults,     \* how often the node crashes or is sealed
    Weathers       \* subset of {"fair", "foul"}: see the variable of that name

AutoSealTypes == {"alicloudkms", "awskms", "azurekeyvault", "gcpkms",
                  "ocikms", "pkcs11", "transit"}
NoCaller == "nobody"
Operator == "operator"
NoData == [known |-> FALSE]

ASSUME VaultOpsAssumption ==
    /\ Ops \subseteq {"init", "unseal"}
    /\ NumKeys \in Nat
    /\ Threshold \in Nat \ {0}
    /\ PreInit \in BOOLEAN
    /\ MaxFaults \in Nat
    /\ Weathers \subseteq {"fair", "foul"}
    /\ {NoCaller, Operator} \cap Clients = {}

VARIABLES
    sealType,   \* seal_type of the requests, fixed
    nodeSeal,   \* the type of the node's seal, fixed
    weather,    \* "foul": commands may fail, the node crashes, the timeout fires
    up,         \* the vault process runs; its unit is enabled and running
    init,       \* storage is initialised
    sealed,     \* the node is sealed (always when not initialised)
    progress,   \* unseal keys entered since the last start or unseal
    faults,     \* crashes and seals so far
    owner,      \* history: whose "operator init" initialised the node
    op,         \* operation of each client
    pc,         \* control state of each client
    phase,      \* "prior" or "post": which WaitForState it is in
    ctx,        \* context of the apply, with its two minute timeout
    st,         \* the State GetState is filling in
    key,        \* index of the next unseal key
    keys,       \* the init response holds the unseal keys
    result,     \* "pending", "ok", "error" or "unsupported"
    fresh       \* history: node unsealed at some moment of the current GetState

fixed == <<sealType, nodeSeal, weather>>
server == <<fixed, up, init, sealed, progress>>
client == <<op, pc, phase, ctx, st, key, keys, result>>
vars == <<server, faults, owner, client, fresh>>

Foul == weather = "foul"
EmptyState == [unit |-> NoData, status |-> NoData, seal |-> NoData, health |-> NoData]

SealsAre == \E pair \in Seals : nodeSeal = pair[1] /\ sealType = pair[2]

Init ==
    /\ SealsAre
    /\ weather \in Weathers
    /\ up \in BOOLEAN
    /\ init \in IF PreInit THEN BOOLEAN ELSE {FALSE}
    /\ sealed = TRUE
    /\ progress = {}
    /\ faults = 0
    /\ owner = IF init THEN Operator ELSE NoCaller
    /\ op \in [Clients -> Ops]
    /\ pc = [c \in Clients |-> "entry"]
    /\ phase = [c \in Clients |-> "prior"]
    /\ ctx = [c \in Clients |-> "live"]
    /\ st = [c \in Clients |-> EmptyState]
    /\ key = [c \in Clients |-> 1]
    /\ keys = [c \in Clients |-> FALSE]
    /\ result = [c \in Clients |-> "pending"]
    /\ fresh = [c \in Clients |-> FALSE]

(* fresh follows the node: every step that leaves the node up and unsealed *)
(* is a moment at which any GetState under way could have seen it so.      *)
Observe(f) == fresh' = [c \in Clients |-> f[c] \/ (up' /\ ~sealed')]

-----------------------------------------------------------------------------
(* The Vault server, external. *)
Start ==
    /\ ~up
    /\ up' = TRUE
    /\ sealed' = TRUE
    /\ progress' = {}
    /\ UNCHANGED <<fixed, init, faults, owner, client>>
    /\ Observe(fresh)

Crash ==
    /\ Foul /\ up
    /\ faults < MaxFaults
    /\ faults' = faults + 1
    /\ up' = FALSE
    /\ progress' = {}
    /\ UNCHANGED <<fixed, init, sealed, owner, client>>
    /\ Observe(fresh)

Seal ==
    /\ Foul /\ up /\ init /\ ~sealed
    /\ faults < MaxFaults
    /\ faults' = faults + 1
    /\ sealed' = TRUE
    /\ progress' = {}
    /\ UNCHANGED <<fixed, up, init, owner, client>>
    /\ Observe(fresh)

AutoUnseal ==
    /\ up /\ init /\ sealed
    /\ nodeSeal # "shamir"
    /\ sealed' = FALSE
    /\ UNCHANGED <<fixed, up, init, progress, faults, owner, client>>
    /\ Observe(fresh)

(* What "operator unseal k" does to a node that is up and initialised. *)
EnterKey(k) ==
    LET entered == progress \union {k} IN
    IF sealed /\ Cardinality(entered) >= Threshold
    THEN sealed' = FALSE /\ progress' = {}
    ELSE /\ sealed' = sealed
         /\ progress' = IF sealed THEN entered ELSE progress

-----------------------------------------------------------------------------
Goto(c, where) == pc' = [pc EXCEPT ![c] = where]

Finish(c, r) ==
    /\ Goto(c, "done")
    /\ result' = [result EXCEPT ![c] = r]

CtxDone(c) ==
    /\ Foul
    /\ ctx[c] = "live"
    /\ pc[c] # "done"
    /\ ctx' = [ctx EXCEPT ![c] = "done"]
    /\ UNCHANGED <<server, faults, owner, op, pc, phase, st, key, keys, result>>
    /\ Observe(fresh)

(* Unseal looks at its context before anything else; Init does not. *)
Entry(c) ==
    /\ pc[c] = "entry"
    /\ IF op[c] = "unseal" /\ ctx[c] = "done"
       THEN Finish(c, "error")
       ELSE Goto(c, "select") /\ UNCHANGED result
    /\ UNCHANGED <<server, faults, owner, op, phase, ctx, st, key, keys>>
    /\ Observe(fresh)

(* Mutation: the loop does not look at its context. *)
SelectIgnoresCtx(c) ==
    /\ pc[c] = "select"
    /\ Goto(c, "unit")
    /\ st' = [st EXCEPT ![c] = EmptyState]
    /\ UNCHANGED <<server, faults, owner, op, phase, ctx, key, keys, result>>
    /\ Observe([fresh EXCEPT ![c] = FALSE])

(* The top of WaitForState's Retry loop; a new attempt starts from NewState. *)
Select(c) ==
    /\ pc[c] = "select"
    /\ IF ctx[c] = "done"
       THEN Finish(c, "error") /\ UNCHANGED st
       ELSE /\ Goto(c, "unit")
            /\ st' = [st EXCEPT ![c] = EmptyState]
            /\ UNCHANGED result
    /\ UNCHANGED <<server, faults, owner, op, phase, ctx, key, keys>>
    /\ Observe([fresh EXCEPT ![c] = FALSE])

(* One remote read of GetState: it fails when the node does not answer or  *)
(* the context is done, and may fail in foul weather; GetState then returns *)
(* its error and Retry sleeps.                                             *)
Read(c, here, there, field, reachable, value) ==
    /\ pc[c] = here
    /\ \/ /\ Foul \/ ~reachable
          /\ Goto(c, "sleep")
          /\ UNCHANGED st
       \/ /\ ctx[c] = "live"
          /\ reachable
          /\ Goto(c, there)
          /\ st' = [st EXCEPT ![c][field] = value]
    /\ UNCHANGED <<server, faults, owner, op, phase, ctx, key, keys, result>>
    /\ Observe(fresh)

ShowProperties(c) == Read(c, "unit", "status", "unit", TRUE, [known |-> TRUE, running |-> up])

NodeView == [known |-> TRUE, init |-> init, sealed |-> sealed]
GetStatus(c) == Read(c, "status", "sealstatus", "status", up, NodeView)
GetSealStatus(c) == Read(c, "sealstatus", "health", "seal", up, NodeView)
GetHealth(c) == Read(c, "health", "evaluate", "health", up, NodeView)

(* State.IsInitialized and State.IsSealed: an error unless the sources agree. *)
InitKnown(s) == s.status.known /\ s.health.known /\ s.status.init = s.health.init
IsInitialized(s) == InitKnown(s) /\ s.status.init
SealKnown(s) ==
    /\ s.status.known /\ s.seal.known /\ s.health.known
    /\ s.status.sealed = s.health.sealed
    /\ s.status.sealed = s.seal.sealed
IsUnsealed(s) == SealKnown(s) /\ ~s.status.sealed
Running(s) == s.unit.known /\ s.unit.running

(* The end of GetState: the checks that decide which further endpoints are  *)
(* worth reading.  An unsealed node's replication status may fail to read.  *)
StateComplete(s) == InitKnown(s) /\ (s.status.init => SealKnown(s))

PriorChecks(c, s) ==
    /\ op[c] = "unseal" => IsInitialized(s)
    /\ SealKnown(s)
    /\ Running(s)

(* CheckStateHasSealType, asked for shamir only.  The type that the seal    *)
(* status reports is that of the node, whenever it is read.                 *)
HasSealType(s) == sealType = "shamir" => s.seal.known /\ nodeSeal = sealType

(* Mutation: Unseal waits for a known seal state only. *)
PostChecksAnySeal(c, s) == IsInitialized(s) /\ SealKnown(s) /\ Running(s)

PostChecks(c, s) ==
    /\ IsInitialized(s)
    /\ IF op[c] = "init" THEN SealKnown(s) ELSE IsUnsealed(s) /\ HasSealType(s)
    /\ Running(s)

Checks(c, s) == IF phase[c] = "prior" THEN PriorChecks(c, s) ELSE PostChecks(c, s)

(* WaitForState's checks failed, or GetState did: Retry will try again. *)
EvaluateFails(c) ==
    /\ pc[c] = "evaluate"
    /\ \/ ~(StateComplete(st[c]) /\ Checks(c, st[c]))
       \/ IsUnsealed(st[c]) /\ Foul
    /\ Goto(c, "sleep")
    /\ UNCHANGED <<server, faults, owner, op, phase, ctx, st, key, keys, result>>
    /\ Observe(fresh)

(* What Init and Unseal do with the state they waited for. *)
AfterPrior(c) ==
    IF op[c] = "init"
    THEN Goto(c, IF IsInitialized(st[c]) THEN "select" ELSE "command") /\ UNCHANGED result
    ELSE IF IsUnsealed(st[c]) \/ sealType \in AutoSealTypes
         THEN Goto(c, "select") /\ UNCHANGED result
         ELSE IF sealType = "shamir"
              THEN Goto(c, "unsealkey") /\ UNCHANGED result
              ELSE Finish(c, "unsupported")

PriorReached(c) ==
    /\ pc[c] = "evaluate"
    /\ phase[c] = "prior"
    /\ StateComplete(st[c]) /\ PriorChecks(c, st[c])
    /\ phase' = [phase EXCEPT ![c] = "post"]
    /\ AfterPrior(c)
    /\ UNCHANGED <<server, faults, owner, op, ctx, st, key, keys>>
    /\ Observe(fresh)

PostReached(c) ==
    /\ pc[c] = "evaluate"
    /\ phase[c] = "post"
    /\ StateComplete(st[c]) /\ PostChecks(c, st[c])
    /\ Finish(c, "ok")
    /\ UNCHANGED <<server, faults, owner, op, phase, ctx, st, key, keys>>
    /\ Observe(fresh)

Wake(c) ==
    /\ pc[c] = "sleep"
    /\ Goto(c, "select")
    /\ UNCHANGED <<server, faults, owner, op, phase, ctx, st, key, keys, result>>
    /\ Observe(fresh)

(* Mutation: a failed command is waited for like one that succeeded. *)
CommandFailedIgnored(c) == Goto(c, "select")

CommandFailed(c) == Goto(c, "fail")

(* "vault operator init".  The node refuses when it is initialised already. *)
(* The command may initialise the node and its answer still be lost: the    *)
(* connection drops, or anything is written to STDERR.                      *)
InitCommand(c) ==
    /\ pc[c] = "command"
    /\ \/ /\ Foul \/ ~up \/ init
          /\ CommandFailed(c)
          /\ UNCHANGED <<init, owner, keys>>
       \/ /\ up /\ ~init /\ ctx[c] = "live"
          /\ init' = TRUE
          /\ owner' = c
          /\ \/ Goto(c, "select") /\ keys' = [keys EXCEPT ![c] = TRUE]
             \/ Foul /\ CommandFailed(c) /\ UNCHANGED keys
    /\ UNCHANGED <<fixed, up, sealed, progress, faults, op, phase, ctx, st, key, result>>
    /\ Observe(fresh)

(* Mutation: one key too few.                                             *)
KeysLeftSkipsLast(c) == key[c] < NumKeys

KeysLeft(c) == key[c] <= NumKeys

(* One "vault operator unseal" per key, in order; the first failure ends it. *)
UnsealKey(c) ==
    /\ pc[c] = "unsealkey"
    /\ \/ /\ ~KeysLeft(c)
          /\ Goto(c, "select")
          /\ UNCHANGED <<server, key>>
       \/ /\ KeysLeft(c)
          /\ Foul \/ ~(up /\ init)
          /\ CommandFailed(c)
          /\ UNCHANGED <<server, key>>
       \/ /\ KeysLeft(c)
          /\ ctx[c] = "live"
          /\ up /\ init
          /\ EnterKey(key[c])
          /\ key' = [key EXCEPT ![c] = @ + 1]
          /\ UNCHANGED <<pc, fixed, up, init>>
    /\ UNCHANGED <<faults, owner, op, phase, ctx, st, keys, result>>
    /\ Observe(fresh)

(* The command failed: get the state once more for the report, then return. *)
Fail(c) ==
    /\ pc[c] = "fail"
    /\ Finish(c, "error")
    /\ UNCHANGED <<server, faults, owner, op, phase, ctx, st, key, keys>>
    /\ Observe(fresh)

ClientStep(c) ==
    \/ Entry(c) \/ Select(c)
    \/ ShowProperties(c) \/ GetStatus(c) \/ GetSealStatus(c) \/ GetHealth(c)
    \/ EvaluateFails(c) \/ PriorReached(c) \/ PostReached(c) \/ Wake(c)
    \/ InitCommand(c) \/ UnsealKey(c) \/ Fail(c)

ServerStep == Start \/ Crash \/ Seal \/ AutoUnseal

Next == ServerStep \/ \E c \in Clients : CtxDone(c) \/ ClientStep(c)

(* The provider's goroutine runs, the two minute timeout of the apply      *)
(* fires, systemd restarts vault and an auto-sealed node unseals itself.   *)
Fairness ==
    /\ WF_vars(Start) /\ WF_vars(AutoUnseal)
    /\ \A c \in Clients : WF_vars(ClientStep(c)) /\ WF_vars(CtxDone(c))

Spec == Init /\ [][Next]_vars /\ Fairness
-----------------------------------------------------------------------------
ReadState == [known : {FALSE}] \union [known : {TRUE}, init : BOOLEAN, sealed : BOOLEAN]
UnitState == [known : {FALSE}] \union [known : {TRUE}, running : BOOLEAN]
StateType == [unit : UnitState,
              status : ReadState, seal : ReadState, health : ReadState]

TypeOK ==
    /\ SealsAre /\ weather \in Weathers
    /\ up \in BOOLEAN /\ init \in BOOLEAN /\ sealed \in BOOLEAN
    /\ progress \subseteq 1..NumKeys
    /\ faults \in 0..MaxFaults
    /\ owner \in Clients \union {NoCaller, Operator}
    /\ op \in [Clients -> Ops]
    /\ pc \in [Clients -> {"entry", "select", "unit", "status", "sealstatus", "health",
                           "evaluate", "sleep", "command", "unsealkey", "fail", "done"}]
    /\ phase \in [Clients -> {"prior", "post"}]
    /\ ctx \in [Clients -> {"live", "done"}]
    /\ st \in [Clients -> StateType]
    /\ key \in [Clients -> 1..NumKeys + 1]
    /\ keys \in [Clients -> BOOLEAN]
    /\ result \in [Clients -> {"pending", "ok", "error", "unsupported"}]
    /\ fresh \in [Clients -> BOOLEAN]

(* An Unseal that reports success saw a state that was true during its last *)
(* GetState: the node was up and unsealed at a moment after that attempt    *)
(* began, although its four reads are not a snapshot and the node may have  *)
(* crashed, been sealed or restarted between any two of them.               *)
UnsealIsFresh == \A c \in Clients :
    op[c] = "unseal" /\ result[c] = "ok" => fresh[c]

(* Concurrent Init calls are a OnceInit: one initialisation, one holder of  *)
(* the keys, and success without keys only for a call that was not the one. *)
Outcome(c) ==
    IF op[c] # "init" \/ result[c] = "pending" THEN "pending"
    ELSE IF result[c] # "ok" THEN "error"
    ELSE IF keys[c] THEN "keys" ELSE "no keys"
Once == INSTANCE OnceInit WITH
    Callers <- Clients, Outside <- {Operator}, outcome <- [c \in Clients |-> Outcome(c)]
InitIsOnce == Once!Spec

(* Every call returns: whatever fails, crashes or never becomes true, the   *)
(* timeout, which only foul weather has, ends every wait.                   *)
Terminates == \A c \in Clients : Foul ~> pc[c] = "done"

(* In fair weather every Unseal of an initialised node with a seal type it  *)
(* knows, which is the node's, and enough keys succeeds, whatever the order *)
(* in which clients read, initialise and unseal the node.                   *)
Unsealable ==
    /\ NumKeys >= Threshold
    /\ sealType \in AutoSealTypes \union {"shamir"}
    /\ nodeSeal = "shamir" <=> sealType = "shamir"
UnsealConverges == \A c \in Clients :
    ~Foul /\ Unsealable /\ init /\ op[c] = "unseal" ~> result[c] = "ok"
=============================================================================
