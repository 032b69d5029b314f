------------------------------- MODULE PodQuery -------------------------------
(***************************************************************************)
(* Reading pods: the enos_kubernetes_pods data source, which validates its *)
(* configuration, runs kubernetes.QueryPodInfos under a timeout and turns  *)
(* the answer into one transport per container, and ListPods, which vault's *)
(* GetState uses and which retries until its context ends.                 *)
(*                                                                         *)
(* Pods come, go and change phase while a query is retried.  Time is       *)
(* counted in seconds and passes in sleeps and list calls only.            *)
(***************************************************************************)
EXTENDS Integers, FiniteSets

CONSTANTS
    Pods,            \* names of pods the selectors match, in the namespace
    Containers,      \* Containers[p]: the containers of pod p
    Phases,          \* phases a pod may be in, besides being absent
    Timeouts,        \* values of wait_timeout, in seconds; NoTimeout: not set
    Counts,          \* values of expected_pod_count; NoCount: not set
    ListTimes,       \* seconds a list call may take
    MaxChanges,      \* how often pods change while the data source is read
    AttemptBound     \* where ListPods, which has no limit, stops counting

Running == "Running"
Absent == "absent"
NoTimeout == -1000
NoCount == -1000
DefaultWaitTimeout == 60
MaxRetries == 10

ASSUME PodQueryAssumption ==
    /\ Running \in Phases /\ Absent \notin Phases
    /\ Timeouts \subseteq Int /\ Counts \subseteq Int
    /\ ListTimes \subseteq Nat
    /\ \E d \in ListTimes : \A e \in ListTimes : e <= d
    /\ MaxChanges \in Nat
    /\ AttemptBound \in Nat \ {0}

VARIABLES
    op, wellFormed, waitTimeout, expected,   \* the request, fixed
    ctx,          \* context of the caller
    pods,         \* phase of each pod on the cluster
    changes,      \* changes of pods so far
    pc,           \* control state of the read
    now,          \* seconds since the query began
    attempts,     \* runs of the retried function
    answer,       \* pods of the last list call that passed the checks
    outcome,      \* "pending", "ok" or "error"
    transports,   \* pod and container of each transport in the state
    moments       \* history: what the cluster was since the query began

request == <<op, wellFormed, waitTimeout, expected>>
vars == <<request, ctx, pods, changes, pc, now, attempts, answer, outcome, transports, moments>>

(* The data source's default when wait_timeout is not set; a timeout of zero *)
(* or less means a single query.                                             *)
WaitTimeout == IF waitTimeout = NoTimeout THEN DefaultWaitTimeout ELSE waitTimeout
ExpectedPodCount == IF expected = NoCount THEN 0 ELSE expected
Retried == op = "list" \/ WaitTimeout > 0
Timed == op = "query" /\ WaitTimeout > 0
QueryCtxDone == ctx = "done" \/ (Timed /\ now >= WaitTimeout)

Init ==
    /\ op \in {"query", "list"}
    /\ wellFormed \in IF op = "query" THEN BOOLEAN ELSE {TRUE}
    /\ waitTimeout \in IF op = "query" THEN Timeouts ELSE {NoTimeout}
    /\ expected \in IF op = "query" THEN Counts ELSE {NoCount}
    /\ ctx \in {"live", "done"}
    /\ pods \in [Pods -> Phases \union {Absent}]
    /\ changes = 0
    /\ pc = IF op = "query" THEN "validate" ELSE "select"
    /\ now = 0
    /\ attempts = 0
    /\ answer = {}
    /\ outcome = "pending"
    /\ transports = {}
    /\ moments = {pods}

CtxDone ==
    /\ ctx = "live"
    /\ pc # "return"
    /\ ctx' = "done"
    /\ UNCHANGED <<request, pods, changes, pc, now, attempts, answer, outcome, transports, moments>>

(* The cluster, external: a pod is created, changes phase or goes away. *)
Change(p) ==
    /\ changes < MaxChanges
    /\ pc # "return"
    /\ \E phase \in (Phases \union {Absent}) \ {pods[p]} : pods' = [pods EXCEPT ![p] = phase]
    /\ changes' = changes + 1
    /\ moments' = moments \union {pods'}
    /\ UNCHANGED <<request, ctx, pc, now, attempts, answer, outcome, transports>>

-----------------------------------------------------------------------------
Finish(how) == pc' = "return" /\ outcome' = how

(* Validate: the kubeconfig, its context and the timeout must parse, and a   *)
(* count that is set must be positive.                                       *)
Validate ==
    /\ pc = "validate"
    /\ IF ctx = "live" /\ wellFormed /\ (expected # NoCount => expected > 0)
       THEN pc' = (IF Timed THEN "select" ELSE "list") /\ UNCHANGED outcome
       ELSE Finish("error")
    /\ UNCHANGED <<request, ctx, pods, changes, now, attempts, answer, transports, moments>>

(* Mutation: the loop does not look at its context. *)
SelectIgnoresCtx ==
    /\ pc = "select"
    /\ pc' = "list"
    /\ UNCHANGED <<request, ctx, pods, changes, now, attempts, answer, outcome, transports, moments>>

(* The top of retry.Retry, with the context that has the timeout. *)
Select ==
    /\ pc = "select"
    /\ IF QueryCtxDone THEN Finish("error") ELSE pc' = "list" /\ UNCHANGED outcome
    /\ UNCHANGED <<request, ctx, pods, changes, now, attempts, answer, transports, moments>>

Found(m) == {p \in Pods : m[p] # Absent}

(* Mutation: one running pod is enough. *)
AcceptableAnyRunning(m) ==
    /\ Found(m) # {}
    /\ ExpectedPodCount > 0 => Cardinality(Found(m)) = ExpectedPodCount
    /\ \E p \in Found(m) : m[p] = Running

(* queryFunc: a list that is not empty, of the expected length if there is   *)
(* one, and of running pods only.                                            *)
Acceptable(m) ==
    /\ Found(m) # {}
    /\ ExpectedPodCount > 0 => Cardinality(Found(m)) = ExpectedPodCount
    /\ \A p \in Found(m) : m[p] = Running

Count(n) == IF op = "query" \/ n < AttemptBound THEN n + 1 ELSE n

(* One list call.  It is made with the caller's context, not with the one    *)
(* that has the timeout, so the timeout does not cut a slow call short.      *)
List ==
    /\ pc = "list"
    /\ attempts' = Count(attempts)
    /\ \E d \in ListTimes : now' = IF Timed THEN now + d ELSE now
    /\ \/ /\ ctx = "live"
          /\ op = "list" \/ Acceptable(pods)
          /\ answer' = Found(pods)
          /\ pc' = "build"
          /\ UNCHANGED outcome
       \/ /\ IF Retried THEN pc' = "should" /\ UNCHANGED outcome ELSE Finish("error")
          /\ UNCHANGED answer
    /\ UNCHANGED <<request, ctx, pods, changes, transports, moments>>

GaveUp == op = "query" /\ attempts >= MaxRetries

ShouldRetry ==
    /\ pc = "should"
    /\ IF GaveUp THEN Finish("error") ELSE pc' = "sleep" /\ UNCHANGED outcome
    /\ UNCHANGED <<request, ctx, pods, changes, now, attempts, answer, transports, moments>>

IntervalFibonacci[n \in 0..MaxRetries] ==
    IF n <= 1 THEN n ELSE IntervalFibonacci[n - 1] + IntervalFibonacci[n - 2]

(* The sleep between two attempts; the context does not cut it short. *)
Sleep ==
    /\ pc = "sleep"
    /\ now' = IF Timed THEN now + IntervalFibonacci[attempts] ELSE now
    /\ pc' = "select"
    /\ UNCHANGED <<request, ctx, pods, changes, attempts, answer, outcome, transports, moments>>

TransportsOf(found) == UNION {{<<p, c>> : c \in Containers[p]} : p \in found}

(* ReadDataSource: a transport for every container of every pod found. *)
Build ==
    /\ pc = "build"
    /\ transports' = IF op = "query" THEN TransportsOf(answer) ELSE {}
    /\ Finish("ok")
    /\ UNCHANGED <<request, ctx, pods, changes, now, attempts, answer, moments>>

Read == Validate \/ Select \/ List \/ ShouldRetry \/ Sleep \/ Build
Next == CtxDone \/ (\E p \in Pods : Change(p)) \/ Read

(* The provider's goroutine runs and a list call is answered. *)
Spec == Init /\ [][Next]_vars /\ WF_vars(Read)
-----------------------------------------------------------------------------
AllContainers == UNION {Containers[p] : p \in Pods}
LongestSleep == IntervalFibonacci[MaxRetries - 1]
SlowestList == CHOOSE d \in ListTimes : \A e \in ListTimes : e <= d

TypeOK ==
    /\ op \in {"query", "list"} /\ wellFormed \in BOOLEAN
    /\ waitTimeout \in Timeouts \union {NoTimeout} /\ expected \in Counts \union {NoCount}
    /\ ctx \in {"live", "done"}
    /\ pods \in [Pods -> Phases \union {Absent}]
    /\ changes \in 0..MaxChanges
    /\ pc \in {"validate", "select", "list", "should", "sleep", "build", "return"}
    /\ now \in Nat
    /\ attempts \in 0..MaxRetries \union 0..AttemptBound
    /\ answer \subseteq Pods
    /\ outcome \in {"pending", "ok", "error"}
    /\ \A t \in transports : t[1] \in Pods /\ t[2] \in Containers[t[1]]
    /\ moments \subseteq [Pods -> Phases \union {Absent}]

(* The transports of the state are those of one moment of the cluster since  *)
(* the read began, at which every matching pod was running and there were as *)
(* many as expected: never a mixture of attempts, and none left out.         *)
OneSnapshot == op = "query" /\ outcome = "ok" => \E m \in moments :
    LET running == {p \in Pods : m[p] = Running} IN
    /\ running # {}
    /\ \A p \in Pods : m[p] \in {Running, Absent}
    /\ transports = {t \in running \X AllContainers : t[2] \in Containers[t[1]]}
    /\ expected # NoCount => Cardinality(running) = expected

(* The timeout ends the query, but only between attempts: a query is at most *)
(* one sleep and one list call late.                                         *)
OverrunIsBounded == Timed => now < WaitTimeout + LongestSleep + SlowestList

(* A query always returns, and so does ListPods once its context is done. *)
ReadReturns == (op = "query" \/ ctx = "done") ~> pc = "return"
=============================================================================
