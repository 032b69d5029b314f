---------------------------- MODULE PodQuery_proofs ----------------------------
(***************************************************************************)
(* Proofs about reading pods, for any pods and phases, any timeouts, any   *)
(* duration of a list call and any number of changes of the cluster.       *)
(***************************************************************************)
EXTENDS PodQuery, TLAPS

(* The Fibonacci intervals of the sleeps, computed from their definition. *)
LEMMA Intervals ==
    /\ DOMAIN IntervalFibonacci = 0..10
    /\ IntervalFibonacci[0] = 0 /\ IntervalFibonacci[1] = 1
    /\ \A n \in 2..10 : IntervalFibonacci[n] = IntervalFibonacci[n - 1] + IntervalFibonacci[n - 2]
<1> DEFINE Step(f) == [n \in 0..MaxRetries |-> IF n <= 1 THEN n ELSE f[n - 1] + f[n - 2]]
           values == [n \in 0..MaxRetries |->
                        CASE n = 0 -> 0 [] n = 1 -> 1 [] n = 2 -> 1 [] n = 3 -> 2 [] n = 4 -> 3
                          [] n = 5 -> 5 [] n = 6 -> 8 [] n = 7 -> 13 [] n = 8 -> 21
                          [] n = 9 -> 34 [] n = 10 -> 55]
<1>1. values = Step(values)
  BY DEF MaxRetries
<1>2. \E f : f = Step(f)
  BY <1>1
<1>3. IntervalFibonacci = CHOOSE f : f = Step(f)
  BY DEF IntervalFibonacci
<1>4. IntervalFibonacci = Step(IntervalFibonacci)
  BY <1>2, <1>3
<1> QED
  BY <1>4 DEF MaxRetries

(* A sleep that is followed by another attempt is at most the longest one. *)
LEMMA SleepBound ==
    ASSUME NEW n \in 0..MaxRetries
    PROVE  /\ IntervalFibonacci[n] \in Nat
           /\ n < MaxRetries => IntervalFibonacci[n] <= LongestSleep
<1>1. /\ IntervalFibonacci[0] = 0 /\ IntervalFibonacci[1] = 1 /\ IntervalFibonacci[2] = 1
      /\ IntervalFibonacci[3] = 2 /\ IntervalFibonacci[4] = 3 /\ IntervalFibonacci[5] = 5
      /\ IntervalFibonacci[6] = 8 /\ IntervalFibonacci[7] = 13 /\ IntervalFibonacci[8] = 21
      /\ IntervalFibonacci[9] = 34 /\ IntervalFibonacci[10] = 55
  BY Intervals
<1> QED
  BY <1>1 DEF LongestSleep, MaxRetries

LEMMA SlowestIsSlowest == SlowestList \in ListTimes /\ \A d \in ListTimes : d <= SlowestList
BY PodQueryAssumption DEF SlowestList

(* What is asked for does not change while it is answered. *)
LEMMA RequestIsFixed ==
    [Next]_vars => /\ UNCHANGED <<op, waitTimeout, expected>>
                   /\ WaitTimeout' = WaitTimeout /\ (Timed' <=> Timed)
<1>1. CtxDone \/ (\E p \in Pods : Change(p)) => UNCHANGED <<op, waitTimeout, expected>>
  BY DEF CtxDone, Change, request
<1>2. Read => UNCHANGED <<op, waitTimeout, expected>>
  BY DEF Read, Validate, Select, List, ShouldRetry, Sleep, Build, request
<1> QED
  BY <1>1, <1>2 DEF Next, vars, request, WaitTimeout, Timed

-----------------------------------------------------------------------------
(* The typing that the proofs need: time and attempts only grow, and a query *)
(* sleeps only when it has attempts left.                                    *)
TypeInv ==
    /\ op \in {"query", "list"}
    /\ waitTimeout \in Int /\ expected \in Int
    /\ now \in Nat /\ attempts \in Nat
    /\ answer \subseteq Pods
    /\ pc \in {"validate", "select", "list", "should", "sleep", "build", "return"}
    /\ pc = "sleep" /\ op = "query" => attempts < MaxRetries

LEMMA TypeInvariant == Spec => []TypeInv
<1> USE PodQueryAssumption DEF TypeInv
<1>1. Init => TypeInv
  BY DEF Init, NoTimeout, NoCount
<1>2. TypeInv /\ [Next]_vars => TypeInv'
  <2> SUFFICES ASSUME TypeInv, [Next]_vars PROVE TypeInv'
    OBVIOUS
  <2> USE DEF request
  <2>1. CASE CtxDone
    BY <2>1 DEF CtxDone
  <2>2. ASSUME NEW p \in Pods, Change(p) PROVE TypeInv'
    BY <2>2 DEF Change
  <2>3. CASE Validate
    BY <2>3 DEF Validate, Finish
  <2>4. CASE Select
    BY <2>4 DEF Select, Finish
  <2>5. CASE List
    <3>1. now' \in Nat
      <4>1. PICK d \in ListTimes : now' = IF Timed THEN now + d ELSE now
        BY <2>5 DEF List
      <4> QED
        BY <4>1
    <3>2. attempts' \in Nat
      BY <2>5 DEF List, Count
    <3>3. answer' \subseteq Pods
      BY <2>5 DEF List, Found
    <3> QED
      BY <2>5, <3>1, <3>2, <3>3 DEF List, Finish
  <2>6. CASE ShouldRetry
    BY <2>6 DEF ShouldRetry, Finish, GaveUp, MaxRetries
  <2>7. CASE Sleep
    <3>1. Timed => now + IntervalFibonacci[attempts] \in Nat
      BY <2>7, SleepBound DEF Sleep, Timed, MaxRetries
    <3> QED
      BY <2>7, <3>1 DEF Sleep
  <2>8. CASE Build
    BY <2>8 DEF Build, Finish
  <2>9. CASE UNCHANGED vars
    BY <2>9 DEF vars
  <2> QED
    BY <2>1, <2>2, <2>3, <2>4, <2>5, <2>6, <2>7, <2>8, <2>9
       DEF Next, Read
<1> QED
  BY <1>1, <1>2, PTL DEF Spec

-----------------------------------------------------------------------------
(* How late a query may be at each point of its loop: not at all after the   *)
(* select, one list call after that, and a sleep more before the next select. *)
LateInv ==
    Timed =>
        /\ pc \in {"validate", "list"} => now < WaitTimeout
        /\ pc \in {"should", "sleep", "build"} => now < WaitTimeout + SlowestList
        /\ OverrunIsBounded

(* A query is never later than its timeout by more than the longest sleep    *)
(* and the slowest list call, however long a list call may take.             *)
THEOREM QueriesEndInTime == Spec => []OverrunIsBounded
<1> USE DEF LateInv, OverrunIsBounded
<1>0. LongestSleep \in Nat /\ SlowestList \in Nat
  <2>1. 9 \in 0..MaxRetries /\ MaxRetries - 1 = 9
    BY DEF MaxRetries
  <2> QED
    BY <2>1, SlowestIsSlowest, SleepBound, PodQueryAssumption DEF LongestSleep
<1>1. Init => LateInv
  <2> SUFFICES ASSUME Init PROVE LateInv
    OBVIOUS
  <2>1. now = 0 /\ WaitTimeout \in Int
    BY PodQueryAssumption DEF Init, WaitTimeout, DefaultWaitTimeout, NoTimeout
  <2>2. Timed => WaitTimeout > 0
    BY DEF Timed
  <2>3. pc \in {"validate", "select"}
    BY DEF Init
  <2> QED
    BY <1>0, <2>1, <2>2, <2>3
<1>2. TypeInv /\ LateInv /\ [Next]_vars => LateInv'
  <2> SUFFICES ASSUME TypeInv, LateInv, [Next]_vars PROVE LateInv'
    OBVIOUS
  <2>0. WaitTimeout \in Int /\ now \in Nat
    BY DEF TypeInv, WaitTimeout, DefaultWaitTimeout
  <2>a. WaitTimeout' = WaitTimeout /\ (Timed' <=> Timed)
    BY RequestIsFixed
  <2> USE DEF request
  <2>1. CASE CtxDone
    BY <1>0, <2>0, <2>a, <2>1 DEF CtxDone
  <2>2. ASSUME NEW p \in Pods, Change(p) PROVE LateInv'
    BY <1>0, <2>0, <2>a, <2>2 DEF Change
  <2>3. CASE Validate
    BY <1>0, <2>0, <2>a, <2>3 DEF Validate, Finish, Timed
  <2>4. CASE Select
    BY <1>0, <2>0, <2>a, <2>4 DEF Select, Finish, QueryCtxDone
  <2>5. CASE List
    BY <1>0, <2>0, <2>a, <2>5, SlowestIsSlowest, PodQueryAssumption DEF List, Finish
  <2>6. CASE ShouldRetry
    BY <1>0, <2>0, <2>a, <2>6 DEF ShouldRetry, Finish
  <2>7. CASE Sleep
    <3>1. ASSUME Timed
          PROVE  IntervalFibonacci[attempts] \in Nat /\ IntervalFibonacci[attempts] <= LongestSleep
      BY <2>7, <3>1, SleepBound DEF Sleep, Timed, TypeInv, MaxRetries
    <3> QED
      BY <1>0, <2>0, <2>a, <2>7, <3>1 DEF Sleep
  <2>8. CASE Build
    BY <1>0, <2>0, <2>a, <2>8 DEF Build, Finish
  <2>9. CASE UNCHANGED vars
    BY <1>0, <2>0, <2>a, <2>9 DEF vars
  <2> QED
    BY <2>1, <2>2, <2>3, <2>4, <2>5, <2>6, <2>7, <2>8, <2>9
       DEF Next, Read
<1> QED
  BY <1>1, <1>2, TypeInvariant, PTL DEF Spec

-----------------------------------------------------------------------------
(* The moment at which an answer was taken is in the history, and what the   *)
(* answer had to satisfy is what the configuration asked for.                *)
Describes(m) == Acceptable(m) /\ answer = Found(m)
SnapshotInv ==
    /\ pods \in moments
    /\ outcome = "ok" => pc = "return"
    /\ op = "query" =>
        /\ pc \notin {"validate", "return"} => (expected # NoCount => expected > 0)
        /\ pc = "build" => \E m \in moments : Describes(m)
    /\ OneSnapshot

(* The transports of an acceptable answer are those of the running pods. *)
LEMMA AnswerIsSnapshot ==
    ASSUME NEW m, Describes(m), expected # NoCount => expected > 0, expected \in Int,
           transports' = TransportsOf(answer), UNCHANGED expected
    PROVE  LET running == {p \in Pods : m[p] = Running} IN
           /\ running # {}
           /\ \A p \in Pods : m[p] \in {Running, Absent}
           /\ transports' = {t \in running \X AllContainers : t[2] \in Containers[t[1]]}
           /\ expected # NoCount => Cardinality(running) = expected
<1> DEFINE running == {p \in Pods : m[p] = Running}
<1>1. \A p \in Pods : m[p] \in {Running, Absent}
  BY DEF Describes, Acceptable, Found
<1>2. running = Found(m)
  BY <1>1 DEF Describes, Acceptable, Found, Running, Absent
<1>3. running # {}
  BY <1>2 DEF Describes, Acceptable
<1>4. expected # NoCount => Cardinality(running) = expected
  BY <1>2 DEF Describes, Acceptable, ExpectedPodCount
<1>5. TransportsOf(answer) = {t \in running \X AllContainers : t[2] \in Containers[t[1]]}
  <2>1. answer = running /\ running \subseteq Pods
    BY <1>2 DEF Describes
  <2> QED
    BY <2>1 DEF TransportsOf, AllContainers
<1> QED
  BY <1>1, <1>3, <1>4, <1>5

(* The data source describes one moment of the cluster at which every pod it *)
(* matched was running and there were as many as expected, whatever changes  *)
(* while the query is retried.                                               *)
THEOREM TransportsAreOneSnapshot == Spec => []OneSnapshot
<1> USE DEF SnapshotInv
<1>1. Init => SnapshotInv
  BY DEF Init, OneSnapshot
<1>2. TypeInv /\ SnapshotInv /\ [Next]_vars => SnapshotInv'
  <2> SUFFICES ASSUME TypeInv, SnapshotInv, [Next]_vars PROVE SnapshotInv'
    OBVIOUS
  <2> USE DEF request
  <2>1. CASE CtxDone
    <3>1. UNCHANGED <<op, expected, answer, pods, moments, pc, outcome>> /\ outcome # "ok"
      BY <2>1 DEF CtxDone
    <3>2. ASSUME NEW m PROVE Describes(m) => Describes(m)'
      BY <3>1 DEF Describes, Acceptable, Found, ExpectedPodCount
    <3> QED
      BY <3>1, <3>2 DEF OneSnapshot
  <2>2. ASSUME NEW p \in Pods, Change(p) PROVE SnapshotInv'
    <3>1. /\ UNCHANGED <<op, expected, answer, pc, outcome>> /\ outcome # "ok"
          /\ moments \subseteq moments' /\ pods' \in moments'
      BY <2>2 DEF Change
    <3>2. ASSUME NEW m PROVE Describes(m) => Describes(m)'
      BY <3>1 DEF Describes, Acceptable, Found, ExpectedPodCount
    <3> QED
      BY <3>1, <3>2 DEF OneSnapshot
  <2>3. CASE Validate
    BY <2>3 DEF Validate, Finish, OneSnapshot
  <2>4. CASE Select
    BY <2>4 DEF Select, Finish, OneSnapshot
  <2>5. CASE List
    <3>1. pc' = "build" /\ op = "query" => Describes(pods)'
      BY <2>5 DEF List, Finish, Describes, Acceptable, Found, ExpectedPodCount
    <3>2. UNCHANGED <<op, expected, pods, moments>> /\ pc = "list" /\ pc' # "validate" /\ outcome' # "ok"
      BY <2>5 DEF List, Finish
    <3> QED
      BY <3>1, <3>2 DEF OneSnapshot
  <2>6. CASE ShouldRetry
    BY <2>6 DEF ShouldRetry, Finish, OneSnapshot
  <2>7. CASE Sleep
    BY <2>7 DEF Sleep, OneSnapshot
  <2>8. CASE Build
    <3>1. CASE op = "list"
      BY <2>8, <3>1 DEF Build, Finish, OneSnapshot
    <3>2. CASE op = "query"
      <4>1. PICK m \in moments : Describes(m)
        BY <2>8, <3>2 DEF Build
      <4>2. UNCHANGED <<op, expected, moments, pods>> /\ transports' = TransportsOf(answer)
        BY <2>8, <3>2 DEF Build
      <4>3. expected \in Int /\ (expected # NoCount => expected > 0)
        BY <2>8, <3>2 DEF Build, TypeInv
      <4>4. OneSnapshot'
        BY <4>1, <4>2, <4>3, AnswerIsSnapshot DEF OneSnapshot
      <4> QED
        BY <2>8, <4>2, <4>4 DEF Build, Finish
    <3> QED
      BY <3>1, <3>2 DEF TypeInv
  <2>9. CASE UNCHANGED vars
    BY <2>9 DEF vars, OneSnapshot, Describes, Acceptable, Found, ExpectedPodCount
  <2> QED
    BY <2>1, <2>2, <2>3, <2>4, <2>5, <2>6, <2>7, <2>8, <2>9
       DEF Next, Read
<1>3. SnapshotInv => OneSnapshot
  OBVIOUS
<1> QED
  BY <1>1, <1>2, <1>3, TypeInvariant, PTL DEF Spec

-----------------------------------------------------------------------------
(* A query that may still list pods has attempts left, so that their number  *)
(* stays within the limit; ListPods has none and stops counting.             *)
AttemptsInv ==
    /\ op = "query" /\ pc \in {"validate", "select", "list", "sleep"} => attempts < MaxRetries
    /\ op = "query" => attempts <= MaxRetries
    /\ op = "list" => attempts <= AttemptBound

(* What is asked for, the cluster, the attempts, the answer and the          *)
(* transports keep their types: no query lists pods more often than its      *)
(* retries allow, and every transport is to a container of a pod.            *)
THEOREM QueriesAreTyped == Spec => []TypeOK
<1> USE PodQueryAssumption
<1>1. Init => TypeOK /\ AttemptsInv
  <2> SUFFICES ASSUME Init PROVE TypeOK /\ AttemptsInv
    OBVIOUS
  <2>1. wellFormed \in BOOLEAN /\ op \in {"query", "list"}
    BY DEF Init
  <2>2. pc \in {"validate", "select"} /\ attempts = 0
    BY DEF Init
  <2>3. moments \subseteq [Pods -> Phases \union {Absent}]
    BY DEF Init
  <2>4. waitTimeout \in Timeouts \union {NoTimeout} /\ expected \in Counts \union {NoCount}
    BY DEF Init
  <2> QED
    BY <2>1, <2>2, <2>3, <2>4 DEF Init, TypeOK, AttemptsInv, MaxRetries
<1>2. ASSUME TypeInv, TypeOK, AttemptsInv, [Next]_vars PROVE TypeOK' /\ AttemptsInv'
  <2> USE DEF request
  <2>1. CASE CtxDone
    BY <1>2, <2>1 DEF CtxDone, TypeOK, AttemptsInv
  <2>2. ASSUME NEW p \in Pods, Change(p) PROVE TypeOK' /\ AttemptsInv'
    <3>1. pods' \in [Pods -> Phases \union {Absent}] /\ changes' \in 0..MaxChanges
      BY <1>2, <2>2 DEF Change, TypeOK
    <3>2. moments' \subseteq [Pods -> Phases \union {Absent}]
      BY <1>2, <2>2, <3>1 DEF Change, TypeOK
    <3>3. UNCHANGED <<request, ctx, pc, now, attempts, answer, outcome, transports>>
      BY <2>2 DEF Change
    <3> QED
      BY <1>2, <3>1, <3>2, <3>3 DEF TypeOK, AttemptsInv
  <2>3. CASE Validate
    BY <1>2, <2>3 DEF Validate, Finish, TypeOK, AttemptsInv
  <2>4. CASE Select
    BY <1>2, <2>4 DEF Select, Finish, TypeOK, AttemptsInv
  <2>5. CASE List
    <3>1. now' \in Nat
      <4>1. PICK d \in ListTimes : now' = IF Timed THEN now + d ELSE now
        BY <2>5 DEF List
      <4> QED
        BY <1>2, <4>1 DEF TypeOK
    <3>2. /\ attempts' \in 0..MaxRetries \union 0..AttemptBound
          /\ op = "query" => attempts' <= MaxRetries
          /\ op = "list" => attempts' <= AttemptBound
      BY <1>2, <2>5 DEF List, Count, TypeOK, AttemptsInv, TypeInv, MaxRetries
    <3>3. answer' \subseteq Pods
      BY <1>2, <2>5 DEF List, Found, TypeOK
    <3>4. /\ pc' \in {"build", "should", "return"} /\ outcome' \in {"pending", "ok", "error"}
          /\ UNCHANGED <<request, ctx, pods, changes, transports, moments>>
      BY <1>2, <2>5 DEF List, Finish, TypeOK
    <3> QED
      BY <1>2, <3>1, <3>2, <3>3, <3>4 DEF TypeOK, AttemptsInv
  <2>6. CASE ShouldRetry
    BY <1>2, <2>6 DEF ShouldRetry, Finish, GaveUp, MaxRetries, TypeOK, AttemptsInv, TypeInv
  <2>7. CASE Sleep
    <3>1. now' \in Nat
      BY <1>2, <2>7, SleepBound DEF Sleep, Timed, MaxRetries, TypeInv
    <3> QED
      BY <1>2, <2>7, <3>1 DEF Sleep, TypeOK, AttemptsInv
  <2>8. CASE Build
    <3>1. \A t \in transports' : t[1] \in Pods /\ t[2] \in Containers[t[1]]
      BY <1>2, <2>8 DEF Build, TransportsOf, TypeOK
    <3> QED
      BY <1>2, <2>8, <3>1 DEF Build, Finish, TypeOK, AttemptsInv
  <2>9. CASE UNCHANGED vars
    BY <1>2, <2>9 DEF vars, TypeOK, AttemptsInv
  <2> QED
    BY <1>2, <2>1, <2>2, <2>3, <2>4, <2>5, <2>6, <2>7, <2>8, <2>9 DEF Next, Read
<1> QED
  BY <1>1, <1>2, TypeInvariant, PTL DEF Spec
=============================================================================
