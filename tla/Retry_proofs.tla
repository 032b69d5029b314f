--------------------------- MODULE Retry_proofs ---------------------------
(***************************************************************************)
(* Proofs about two loops that run until something succeeds.  First the    *)
(* Retry loop, for every set of limits and errors, every number of calls   *)
(* and every bound on the counters of unlimited Retriers.  Then starting a *)
(* service, for any number of creates, faults, crashes and restarts.       *)
(***************************************************************************)
EXTENDS Retry, StartService, TLAPS

(* Counting one more attempt keeps a counter a natural number. *)
LEMMA BumpType ==
    ASSUME NEW n \in Nat, maxRetries \in Int
    PROVE  Bump(n) \in Nat /\ Bump(n) >= n /\ (Limited => Bump(n) = n + 1)
BY DEF Bump

(* Retry's variables keep their types: what the loop in retry.go stores in  *)
(* the Retrier and in its own locals.                                       *)
THEOREM TypeCorrect == Spec => []TypeOK
<1>1. Init => TypeOK
  BY RetryAssumption DEF Init, TypeOK, LateBound
<1>2. TypeOK /\ [Next]_vars => TypeOK'
  <2> SUFFICES ASSUME TypeOK, [Next]_vars PROVE TypeOK'
    OBVIOUS
  <2> USE RetryAssumption
  <2>0. maxRetries \in Int
    BY DEF TypeOK
  <2>1. CASE CtxDone
    BY <2>1 DEF CtxDone, TypeOK, config
  <2>2. CASE Select
    BY <2>2 DEF Select, TypeOK, config
  <2>3. CASE Run
    <3>1. Bump(rAttempts) \in Nat
      BY <2>0, BumpType DEF TypeOK
    <3> QED
      BY <2>3, <3>1 DEF Run, TypeOK, config, LateBound
  <2>4. CASE Decide
    <3>1. Bump(attempts) \in Nat \ {0}
      BY <2>0, BumpType DEF TypeOK
    <3> QED
      BY <2>4, <3>1 DEF Decide, TypeOK, config
  <2>5. CASE Wake
    BY <2>5 DEF Wake, TypeOK, config
  <2>6. CASE NextCall
    BY <2>6 DEF NextCall, TypeOK, config, LateBound
  <2>7. CASE UNCHANGED vars
    BY <2>7 DEF vars, TypeOK, config
  <2> QED
    BY <2>1, <2>2, <2>3, <2>4, <2>5, <2>6, <2>7 DEF Next, Loop
<1> QED
  BY <1>1, <1>2, PTL DEF Spec

-----------------------------------------------------------------------------
(* AttemptsBounded is not inductive: a state that is about to run must also *)
(* have budget left, or be about to make the first run of its call.         *)
HasBudget == pc \in {"select", "run", "sleep"} => rAttempts = start \/ rAttempts < maxRetries
BoundInv ==
    /\ TypeOK
    /\ Limited => start <= rAttempts /\ HasBudget /\ rAttempts - start <= Budget

(* The strengthened invariant holds in every state of the loop. *)
LEMMA BoundInvariant == Spec => []BoundInv
<1>1. Init => BoundInv
  BY RetryAssumption DEF Init, TypeOK, LateBound, BoundInv, Limited, HasBudget, Budget, AtLeastOne, MaxRetriesUnlimited
<1>2. TypeOK' /\ BoundInv /\ [Next]_vars => BoundInv'
  <2> SUFFICES ASSUME TypeOK', BoundInv, [Next]_vars PROVE BoundInv'
    OBVIOUS
  <2> USE DEF BoundInv, Limited, HasBudget, Budget, AtLeastOne, MaxRetriesUnlimited
  <2>0. maxRetries \in Int /\ rAttempts \in Nat /\ start \in Nat
    BY RetryAssumption DEF TypeOK
  <2>1. CASE CtxDone
    BY <2>0, <2>1 DEF CtxDone, config
  <2>2. CASE Select
    BY <2>0, <2>2 DEF Select, config
  <2>3. CASE Run
    <3>1. maxRetries' = maxRetries /\ start' = start /\ pc' \in {"return", "should"}
      BY <2>3 DEF Run, config
    <3>2. Limited => rAttempts' = rAttempts + 1
      BY <2>0, <2>3, BumpType DEF Run
    <3> QED
      BY <2>0, <2>3, <3>1, <3>2 DEF Run
  <2>4. CASE Decide
    BY <2>0, <2>4 DEF Decide, ShouldRetry, config
  <2>5. CASE Wake
    BY <2>0, <2>5 DEF Wake, config
  <2>6. CASE NextCall
    BY <2>0, <2>6 DEF NextCall, config, TypeOK
  <2>7. CASE UNCHANGED vars
    BY <2>0, <2>7 DEF vars, config
  <2> QED
    BY <2>1, <2>2, <2>3, <2>4, <2>5, <2>6, <2>7 DEF Next, Loop
<1> QED
  BY <1>1, <1>2, TypeCorrect, PTL DEF Spec

(* The attempt limit of a Retrier bounds the runs of its function over all  *)
(* the Retry calls that share it, with one run guaranteed to each call.     *)
THEOREM LimitHolds == Spec => []AttemptsBounded
<1>1. BoundInv => AttemptsBounded
  BY DEF BoundInv, AttemptsBounded
<1> QED
  BY <1>1, BoundInvariant, PTL
-----------------------------------------------------------------------------
(* Before a call returns its error has no context error in it: Select adds  *)
(* one only on its way out.                                                 *)
AgreeInv ==
    /\ TypeOK
    /\ pc # "return" => CtxErr \notin err
    /\ AttemptsAgree

(* The attempt number that labels the joined errors counts the runs of the  *)
(* current call, also on a Retrier that earlier calls have used.            *)
THEOREM AttemptNumbersAgree == Spec => []AttemptsAgree
<1>1. Init => AgreeInv
  <2>1. Init => TypeOK
    BY RetryAssumption DEF Init, TypeOK, LateBound
  <2>2. Init => CtxErr \notin err /\ pc = "select" /\ rAttempts - start = attempts - 1
    BY DEF Init
  <2> QED
    BY <2>1, <2>2 DEF AgreeInv, AttemptsAgree, Started
<1>2. TypeOK' /\ AgreeInv /\ [Next]_vars => AgreeInv'
  <2> SUFFICES ASSUME TypeOK', AgreeInv, [Next]_vars PROVE AgreeInv'
    OBVIOUS
  <2> USE DEF AgreeInv, AttemptsAgree, Started, Limited, MaxRetriesUnlimited
  <2>0. /\ maxRetries \in Int /\ rAttempts \in Nat /\ start \in Nat /\ attempts \in Nat
        /\ pc \in {"select", "run", "should", "sleep", "return"}
    BY RetryAssumption DEF TypeOK
  <2>1. CASE CtxDone
    BY <2>0, <2>1 DEF CtxDone, config
  <2>2. CASE Select
    BY <2>0, <2>2 DEF Select, config
  <2>3. CASE Run
    <3>1. Limited => rAttempts' = rAttempts + 1
      BY <2>0, <2>3, BumpType DEF Run
    <3>2. CtxErr \notin err'
      BY <2>3, RetryAssumption DEF Run
    <3> QED
      BY <2>0, <2>3, <3>1, <3>2 DEF Run, config
  <2>4. CASE Decide
    <3>1. Limited => Bump(attempts) = attempts + 1
      BY <2>0, BumpType
    <3> QED
      BY <2>0, <2>4, <3>1 DEF Decide, config
  <2>5. CASE Wake
    BY <2>0, <2>5 DEF Wake, config
  <2>6. CASE NextCall
    BY <2>0, <2>6 DEF NextCall, config, TypeOK
  <2>7. CASE UNCHANGED vars
    BY <2>0, <2>7 DEF vars, config
  <2> QED
    BY <2>1, <2>2, <2>3, <2>4, <2>5, <2>6, <2>7 DEF Next, Loop
<1>3. AgreeInv => AttemptsAgree
  BY DEF AgreeInv
<1> QED
  BY <1>1, <1>2, <1>3, TypeCorrect, PTL DEF Spec

-----------------------------------------------------------------------------
(* A late run leaves the loop below its select, which the context then ends. *)
PromptInv ==
    /\ lateRuns \in {0, 1}
    /\ lateRuns = 1 => ctx = "done" /\ pc # "run"

(* After the context is done the retried function starts at most once more   *)
(* in the call under way.                                                    *)
THEOREM CancelStopsRetrying == Spec => []CancelIsPrompt
<1>1. Init => PromptInv
  BY DEF Init, PromptInv
<1>2. PromptInv /\ [Next]_vars => PromptInv'
  <2> SUFFICES ASSUME PromptInv, [Next]_vars PROVE PromptInv'
    OBVIOUS
  <2> USE DEF PromptInv
  <2>1. CASE CtxDone
    BY <2>1 DEF CtxDone
  <2>2. CASE Select
    BY <2>2 DEF Select
  <2>3. CASE Run
    BY <2>3 DEF Run, LateBound
  <2>4. CASE Decide
    BY <2>4 DEF Decide
  <2>5. CASE Wake
    BY <2>5 DEF Wake
  <2>6. CASE NextCall
    BY <2>6 DEF NextCall
  <2>7. CASE UNCHANGED vars
    BY <2>7 DEF vars
  <2> QED
    BY <2>1, <2>2, <2>3, <2>4, <2>5, <2>6, <2>7 DEF Next, Loop
<1>3. PromptInv => CancelIsPrompt
  BY DEF PromptInv, CancelIsPrompt
<1> QED
  BY <1>1, <1>2, <1>3, PTL DEF Spec

-----------------------------------------------------------------------------
(* A call on a Clone starts from zero and has run at least once when it      *)
(* decides; with BoundInv this pins down where it gives up.                  *)
CloneInv ==
    /\ BoundInv
    /\ cloned => start = 0
    /\ Limited /\ pc = "should" => rAttempts > start
    /\ CloneHasFullBudget

(* TargetHostInfo's calls each get the whole budget of the Retrier they      *)
(* clone, whatever the calls before them used up.                            *)
THEOREM ClonesAreIndependent == Spec => []CloneHasFullBudget
<1>1. Init => CloneInv
  BY RetryAssumption DEF Init, TypeOK, LateBound, BoundInv, Limited, HasBudget, Budget, AtLeastOne,
     MaxRetriesUnlimited, CloneInv, CloneHasFullBudget
<1>2. BoundInv' /\ CloneInv /\ [Next]_vars => CloneInv'
  <2> SUFFICES ASSUME BoundInv', CloneInv, [Next]_vars PROVE CloneInv'
    OBVIOUS
  <2> USE DEF CloneInv, CloneHasFullBudget, Limited, AtLeastOne, MaxRetriesUnlimited
  <2>0. /\ maxRetries \in Int /\ rAttempts \in Nat /\ start \in Nat
        /\ cloned \in BOOLEAN
        /\ Limited => rAttempts - start <= Budget
    BY RetryAssumption DEF BoundInv, TypeOK
  <2>1. CASE CtxDone
    BY <2>0, <2>1 DEF CtxDone, config
  <2>2. CASE Select
    BY <2>0, <2>2 DEF Select, config
  <2>3. CASE Run
    <3>1. Limited => rAttempts' = rAttempts + 1
      BY <2>0, <2>3, BumpType DEF Run
    <3>2. Limited => start <= rAttempts
      BY DEF BoundInv
    <3> QED
      BY <2>0, <2>3, <3>1, <3>2 DEF Run, config
  <2>4. CASE Decide
    BY <2>0, <2>4 DEF Decide, ShouldRetry, config, Budget
  <2>5. CASE Wake
    BY <2>0, <2>5 DEF Wake, config
  <2>6. CASE NextCall
    BY <2>0, <2>6 DEF NextCall, config
  <2>7. CASE UNCHANGED vars
    BY <2>0, <2>7 DEF vars, config
  <2> QED
    BY <2>1, <2>2, <2>3, <2>4, <2>5, <2>6, <2>7 DEF Next, Loop
<1>3. CloneInv => CloneHasFullBudget
  BY DEF CloneInv
<1> QED
  BY <1>1, <1>2, <1>3, BoundInvariant, PTL DEF Spec

-----------------------------------------------------------------------------
(* Where RestartService begins in the order of the steps.                  *)
ShowAt == CASE service = "vault" -> 8 [] service = "consul" -> 10 [] OTHER -> 7

(* What the proofs need of the order of the steps. *)
Ordered ==
    /\ ShowAt \in 7..10 /\ DOMAIN Steps = 1 .. ShowAt + 6
    /\ Steps[ShowAt] = "show" /\ Steps[ShowAt + 1] = "stop" /\ Steps[ShowAt + 2] = "enable"
    /\ Steps[ShowAt + 3] = "enabled" /\ Steps[ShowAt + 4] = "start" /\ Steps[ShowAt + 5] = "started"
    /\ Steps[ShowAt + 6] \in {"wait", "status"}
    /\ \A i \in 1 .. ShowAt - 1 :
            Steps[i] \in {"user", "license", "config", "env", "unit", "reload", "dir", "valid", "validate"}
    /\ \A i, j \in 1 .. ShowAt - 1 : Steps[i] = "unit" /\ Steps[j] = "reload" => i < j
    /\ \E i \in 1 .. ShowAt - 1 : Steps[i] = "reload"

(* The lists of steps of startVault, startConsul and startBoundary are in    *)
(* order: the unit file is written before systemd reads it, both before      *)
(* RestartService, which is the same seven steps for all three.              *)
LEMMA StepsOrdered == Ordered
<1>1. CASE service = "vault"
  <2>1. Steps = StartVault /\ ShowAt = 8
    BY <1>1 DEF Steps, ShowAt
  <2>2. /\ DOMAIN Steps = 1..14
        /\ Steps[1] = "user" /\ Steps[2] = "license" /\ Steps[3] = "config" /\ Steps[4] = "env"
        /\ Steps[5] = "unit" /\ Steps[6] = "reload" /\ Steps[7] = "dir" /\ Steps[8] = "show"
        /\ Steps[9] = "stop" /\ Steps[10] = "enable" /\ Steps[11] = "enabled" /\ Steps[12] = "start"
        /\ Steps[13] = "started" /\ Steps[14] = "wait"
    BY <2>1 DEF StartVault
  <2>3. \A i \in 1..7 : i = 1 \/ i = 2 \/ i = 3 \/ i = 4 \/ i = 5 \/ i = 6 \/ i = 7
    OBVIOUS
  <2> QED
    BY <2>1, <2>2, <2>3 DEF Ordered
<1>2. CASE service = "consul"
  <2>1. Steps = StartConsul /\ ShowAt = 10
    BY <1>2 DEF Steps, ShowAt
  <2>2. /\ DOMAIN Steps = 1..16
        /\ Steps[1] = "user" /\ Steps[2] = "license" /\ Steps[3] = "valid" /\ Steps[4] = "unit"
        /\ Steps[5] = "reload" /\ Steps[6] = "config" /\ Steps[7] = "dir" /\ Steps[8] = "dir"
        /\ Steps[9] = "validate" /\ Steps[10] = "show"
        /\ Steps[11] = "stop" /\ Steps[12] = "enable" /\ Steps[13] = "enabled" /\ Steps[14] = "start"
        /\ Steps[15] = "started" /\ Steps[16] = "wait"
    BY <2>1 DEF StartConsul
  <2>3. \A i \in 1..9 : i = 1 \/ i = 2 \/ i = 3 \/ i = 4 \/ i = 5 \/ i = 6 \/ i = 7 \/ i = 8 \/ i = 9
    OBVIOUS
  <2> QED
    BY <2>1, <2>2, <2>3 DEF Ordered
<1>3. CASE service \notin {"vault", "consul"}
  <2>1. Steps = StartBoundary /\ ShowAt = 7
    BY <1>3 DEF Steps, ShowAt
  <2>2. /\ DOMAIN Steps = 1..13
        /\ Steps[1] = "user" /\ Steps[2] = "dir" /\ Steps[3] = "license" /\ Steps[4] = "env"
        /\ Steps[5] = "unit" /\ Steps[6] = "reload" /\ Steps[7] = "show"
        /\ Steps[8] = "stop" /\ Steps[9] = "enable" /\ Steps[10] = "enabled" /\ Steps[11] = "start"
        /\ Steps[12] = "started" /\ Steps[13] = "status"
    BY <2>1 DEF StartBoundary
  <2>3. \A i \in 1..6 : i = 1 \/ i = 2 \/ i = 3 \/ i = 4 \/ i = 5 \/ i = 6
    OBVIOUS
  <2> QED
    BY <2>1, <2>2, <2>3 DEF Ordered
<1> QED
  BY <1>1, <1>2, <1>3

(* Steps that were taken in this apply.                                    *)
Past(s) == Needed(s) /\ \E i \in 1 .. step - 1 : Steps[i] = s

(* The unit runs, or ran last, with what this apply wrote.                 *)
Fresh(u) == \A s \in Written : unit[u].ran[s] = apply

StartHolds ==
    /\ \A f \in FileNames : Past(f) => files[f] = apply
    /\ Past("unit") => unit[unitName].file = apply
    /\ Past("reload") => unit[unitName].loaded = unit[unitName].file
    /\ RestartedUnit = unitName =>
        /\ step > ShowAt /\ seen # "starting" =>
                \/ seen = "active" /\ step = ShowAt + 1
                \/ unit[unitName].proc \in {"starting", "active"} => Fresh(unitName)
        /\ step > ShowAt + 2 /\ seen # "starting" => Fresh(unitName)

StartInv ==
    /\ StartTypeOK
    /\ result = "ok" => step = ShowAt + 6
    /\ result # "error" => StartHolds

UnitFiles == [exists : BOOLEAN, file : 0..MaxApplies, loaded : 0..MaxApplies,
              enabled : BOOLEAN, proc : Procs, ran : Read]

(* A process that is started runs with what is on the host.                *)
LEMMA ExecIs ==
    ASSUME files \in [FileNames -> 0..MaxApplies], NEW x \in UnitFiles
    PROVE  /\ Exec(x) \in UnitFiles
           /\ Exec(x).exists = x.exists /\ Exec(x).file = x.file /\ Exec(x).loaded = x.loaded
           /\ Exec(x).proc \in {"starting", "active"}
           /\ Exec(x).ran = [license |-> files.license, config |-> files.config,
                             env |-> files.env, unit |-> x.loaded]
<1> DEFINE p == IF service = "boundary" THEN "active" ELSE "starting"
           r == [license |-> files.license, config |-> files.config, env |-> files.env, unit |-> x.loaded]
<1>1. p \in {"starting", "active"}
  OBVIOUS
<1>2. r \in Read
  BY DEF Read, FileNames, UnitFiles
<1>3. Exec(x) = [x EXCEPT !.proc = p, !.ran = r]
  BY DEF Exec
<1> HIDE DEF p, r
<1>4. /\ Exec(x) \in UnitFiles
      /\ Exec(x).exists = x.exists /\ Exec(x).file = x.file /\ Exec(x).loaded = x.loaded
      /\ Exec(x).proc = p /\ Exec(x).ran = r
  BY <1>1, <1>2, <1>3 DEF UnitFiles, Procs
<1> QED
  BY <1>1, <1>4 DEF r

(* Reading a unit file changes what is loaded and no process. *)
LEMMA ReloadIs ==
    ASSUME NEW x \in UnitFiles
    PROVE  /\ Reload(x) \in UnitFiles
           /\ Reload(x).exists = x.exists /\ Reload(x).file = x.file /\ Reload(x).loaded = x.file
           /\ Reload(x).proc = x.proc /\ Reload(x).ran = x.ran
BY DEF Reload, UnitFiles

(* A step that took effect goes on to the next one, unless its answer is     *)
(* lost.                                                                     *)
LEMMA ProceedIs ==
    ASSUME StartTypeOK, Proceed
    PROVE  /\ step' \in DOMAIN Steps /\ faults' \in 0..MaxFaults
           /\ \/ result' = "error" /\ step' = step
              \/ result' = result /\ Follows(step')
<1>1. MaxFaults \in Nat
  BY StartServiceAssumption
<1> QED
  BY <1>1 DEF Proceed, StartTypeOK

(* Every action of a start keeps the variables in their sets: remote steps,  *)
(* faults, systemd, processes and the next apply.                            *)
LEMMA StartKeepsTypes ==
    ASSUME StartTypeOK, [StartNext]_startVars
    PROVE  StartTypeOK'
<1>0. /\ service \in Services /\ unitName \in UnitNames /\ username \in Usernames
      /\ options \subseteq Options
      /\ apply \in 1..MaxApplies /\ step \in DOMAIN Steps
      /\ result \in {"pending", "ok", "error"} /\ seen \in Procs /\ users \subseteq Usernames
      /\ files \in [FileNames -> 0..MaxApplies] /\ unit \in [Units -> UnitFiles]
      /\ faults \in 0..MaxFaults
      /\ unitName \in Units /\ RestartedUnit \in Units
      /\ MaxApplies \in Nat \ {0} /\ MaxFaults \in Nat
  BY StartServiceAssumption DEF StartTypeOK, UnitFiles, Units, RestartedUnit
<1> DEFINE Kept == /\ apply' \in 1..MaxApplies /\ step' \in DOMAIN Steps
                   /\ result' \in {"pending", "ok", "error"} /\ seen' \in Procs /\ users' \subseteq Usernames
                   /\ files' \in [FileNames -> 0..MaxApplies] /\ unit' \in [Units -> UnitFiles]
                   /\ faults' \in 0..MaxFaults
<1>1. SUFFICES ASSUME UNCHANGED request, step' \in DOMAIN Steps
               PROVE  Kept
  <2>1. UNCHANGED request
    BY DEF StartNext, StartStep, SystemdStep, startVars, CreateOrUpdateUser, CopyFile, CreateUnitFile, DaemonReload,
           CreateDirectory, Validate, ShowProperties, StopService, EnableService, StartUnit, JobDone, WaitForState,
           WaitTimesOut, ServiceStatus, StepFails, Ready, AutoRestart, Apply, Crash
  <2>2. step' \in DOMAIN Steps
    <3>1. 1 \in DOMAIN Steps
      BY StepsOrdered DEF Ordered
    <3> QED
      BY <1>0, <3>1 DEF StartNext, StartStep, SystemdStep, startVars, CreateOrUpdateUser, CopyFile, CreateUnitFile,
           DaemonReload, CreateDirectory, Validate, ShowProperties, StopService, EnableService, StartUnit, JobDone,
           WaitForState, WaitTimesOut, ServiceStatus, StepFails, Ready, AutoRestart, Apply, Crash,
           Proceed
  <2> QED
    BY <1>0, <2>1, <2>2 DEF StartTypeOK, UnitFiles, request, Steps
<1>2. CASE UNCHANGED startVars
  BY <1>0, <1>2 DEF startVars, host
<1>3. CASE StepFails
  BY <1>0, <1>3 DEF StepFails, host
<1>4. CASE CreateOrUpdateUser
  BY <1>0, <1>4, ProceedIs DEF CreateOrUpdateUser
<1>5. ASSUME NEW f \in FileNames, CopyFile(f)
      PROVE  Kept
  BY <1>0, <1>5, ProceedIs DEF CopyFile
<1>6. CASE CreateUnitFile
  <2>1. unit' \in [Units -> UnitFiles]
    <3> DEFINE y == unit[unitName]
               x == [y EXCEPT !.exists = TRUE, !.file = apply]
    <3>0. y \in UnitFiles /\ apply \in 0..MaxApplies
      BY <1>0
    <3>1. x \in UnitFiles
      <4> HIDE DEF y
      <4> QED
        BY <3>0 DEF UnitFiles
    <3>2. unit' = [unit EXCEPT ![unitName] = x]
      BY <1>6 DEF CreateUnitFile
    <3> HIDE DEF x
    <3> QED
      BY <1>0, <3>1, <3>2
  <2> QED
    BY <1>0, <1>6, <2>1, ProceedIs DEF CreateUnitFile
<1>7. CASE DaemonReload
  <2>1. unit' \in [Units -> UnitFiles]
    BY <1>0, <1>7, ReloadIs DEF DaemonReload
  <2> QED
    BY <1>0, <1>7, <2>1, ProceedIs DEF DaemonReload
<1>8. CASE CreateDirectory \/ Validate \/ JobDone
  BY <1>0, <1>8, ProceedIs DEF CreateDirectory, Validate, JobDone, host
<1>9. CASE ShowProperties
  <2>1. seen' \in Procs
    BY <1>0, <1>9 DEF ShowProperties, UnitFiles
  <2> QED
    BY <1>0, <1>9, <2>1, ProceedIs DEF ShowProperties, host
<1>10. CASE StopService
  <2>1. unit' \in [Units -> UnitFiles]
    BY <1>0, <1>10 DEF StopService, UnitFiles, Procs
  <2> QED
    BY <1>0, <1>10, <2>1, ProceedIs DEF StopService
<1>11. CASE EnableService
  <2>1. unit' \in [Units -> UnitFiles]
    <3> DEFINE x == unit[RestartedUnit]
               y == StartQueued(Reload(x))
    <3>1. y \in UnitFiles
      BY <1>0, ExecIs, ReloadIs DEF StartQueued
    <3>2. unit' = unit \/ unit' = [unit EXCEPT ![RestartedUnit] = [y EXCEPT !.enabled = TRUE]]
      BY <1>11 DEF EnableService
    <3> HIDE DEF y
    <3>3. [y EXCEPT !.enabled = TRUE] \in UnitFiles
      BY <3>1 DEF UnitFiles
    <3> QED
      BY <1>0, <3>2, <3>3
  <2> QED
    BY <1>0, <1>11, <2>1, ProceedIs DEF EnableService
<1>12. CASE StartUnit
  <2>1. unit' \in [Units -> UnitFiles]
    BY <1>0, <1>12, ExecIs DEF StartUnit, StartQueued
  <2> QED
    BY <1>0, <1>12, <2>1, ProceedIs DEF StartUnit
<1>13. CASE WaitForState \/ WaitTimesOut \/ ServiceStatus
  BY <1>0, <1>13 DEF WaitForState, WaitTimesOut, ServiceStatus, host
<1>14. CASE Apply
  <2>1. apply' \in 1..MaxApplies
    BY <1>0, <1>14 DEF Apply
  <2> QED
    BY <1>0, <1>1, <1>14, <2>1 DEF Apply, host
<1>15. ASSUME NEW u \in Units, Ready(u) \/ AutoRestart(u) \/ Crash(u)
       PROVE  Kept
  <2>1. unit' \in [Units -> UnitFiles]
    <3>1. CASE AutoRestart(u)
      BY <1>0, <3>1, ExecIs DEF AutoRestart
    <3>2. CASE Ready(u) \/ Crash(u)
      <4>1. PICK p \in Procs : unit' = [unit EXCEPT ![u].proc = p]
        BY <3>2 DEF Ready, Crash, Procs
      <4> QED
        BY <1>0, <4>1 DEF UnitFiles
    <3> QED
      BY <1>15, <3>1, <3>2
  <2> QED
    BY <1>0, <1>15, <2>1 DEF Ready, AutoRestart, Crash
<1> QED
  BY <1>2, <1>3, <1>4, <1>5, <1>6, <1>7, <1>8, <1>9, <1>10, <1>11, <1>12, <1>13, <1>14, <1>15
     DEF StartNext, StartStep, SystemdStep

(* On a host where the resource was never applied, every variable is in its  *)
(* set.                                                                      *)
LEMMA StartInitTyped ==
    ASSUME StartInit
    PROVE  StartTypeOK
<1>1. 1 \in DOMAIN Steps
  BY StepsOrdered DEF Ordered
<1>2. NoUnit \in UnitFiles
  BY StartServiceAssumption DEF NoUnit, NothingRead, UnitFiles, Procs, Read
<1>3. unit \in [Units -> UnitFiles]
  <2>1. ASSUME NEW f \in Found
        PROVE  [NoUnit EXCEPT !.exists = TRUE, !.enabled = f.enabled, !.proc = f.proc] \in UnitFiles
    <3>1. f.enabled \in BOOLEAN /\ f.proc \in Procs
      BY StartServiceAssumption DEF Procs
    <3> QED
      BY <1>2, <3>1 DEF UnitFiles
  <2>2. FoundUnits \subseteq UnitFiles
    BY <1>2, <2>1 DEF FoundUnits
  <2> QED
    BY <2>2 DEF StartInit
<1> QED
  BY <1>1, <1>3, StartServiceAssumption DEF StartInit, StartTypeOK, UnitFiles, Procs

(* startVault, startConsul and startBoundary, systemd and the processes     *)
(* keep every variable in its set, whatever fails and however often the     *)
(* resource is created.                                                     *)
THEOREM StartsAreTyped == StartSpec => []StartTypeOK
BY StartInitTyped, StartKeepsTypes, PTL DEF StartSpec

(* The resource is what it was configured to be while it is created. *)
LEMMA SameRequest ==
    ASSUME UNCHANGED request
    PROVE  /\ UNCHANGED <<service, unitName, username, options>>
           /\ Steps' = Steps /\ ShowAt' = ShowAt /\ RestartedUnit' = RestartedUnit /\ Written' = Written
           /\ \A s : Needed(s)' = Needed(s)
<1>1. UNCHANGED <<service, unitName, username, options>>
  BY DEF request
<1>2. \A s : Needed(s)' = Needed(s)
  BY <1>1 DEF Needed
<1>3. Steps' = Steps
  BY <1>1 DEF Steps
<1>4. Written' = Written
  BY <1>2, <1>3 DEF Written
<1> QED
  BY <1>1, <1>2, <1>3, <1>4 DEF ShowAt, RestartedUnit

(* Going on takes one step more, and RestartService leaves none out. *)
LEMMA GoesOn ==
    ASSUME StartTypeOK, StartTypeOK', UNCHANGED request, Follows(step')
    PROVE  /\ \A s : Past(s)' => Past(s) \/ (Needed(s) /\ Steps[step] = s)
           /\ step < ShowAt => step' <= ShowAt
           /\ step >= ShowAt => step' = step + 1
<1>0. /\ step \in DOMAIN Steps /\ step' \in DOMAIN Steps
      /\ ShowAt \in 7..10 /\ DOMAIN Steps = 1 .. ShowAt + 6
  BY SameRequest, StepsOrdered DEF StartTypeOK, Ordered
<1>1. step' > step /\ \A i \in step + 1 .. step' - 1 : ~Needed(Steps[i])
  BY DEF Follows
<1>2. ASSUME NEW s, Past(s)'
      PROVE  Past(s) \/ (Needed(s) /\ Steps[step] = s)
  <2>1. PICK i \in 1 .. step' - 1 : Steps[i] = s
    BY <1>2, SameRequest DEF Past
  <2>2. Needed(s)
    BY <1>2, SameRequest DEF Past
  <2>3. i \in 1 .. step - 1 \/ i = step
    BY <1>0, <1>1, <2>1, <2>2
  <2>4. CASE i \in 1 .. step - 1
    BY <2>1, <2>2, <2>4 DEF Past
  <2>5. CASE i = step
    BY <2>1, <2>2, <2>5
  <2> QED
    BY <2>3, <2>4, <2>5
<1>3. \A i \in ShowAt .. ShowAt + 6 : Needed(Steps[i])
  <2>1. \A i \in ShowAt .. ShowAt + 6 :
            \/ i = ShowAt \/ i = ShowAt + 1 \/ i = ShowAt + 2 \/ i = ShowAt + 3
            \/ i = ShowAt + 4 \/ i = ShowAt + 5 \/ i = ShowAt + 6
    BY <1>0
  <2>2. \A i \in ShowAt .. ShowAt + 6 :
            Steps[i] \in {"show", "stop", "enable", "enabled", "start", "started", "wait", "status"}
    BY <2>1, StepsOrdered DEF Ordered
  <2> QED
    BY <2>2 DEF Needed
<1>4. step < ShowAt => step' <= ShowAt
  BY <1>0, <1>1, <1>3
<1>5. step >= ShowAt => step' = step + 1
  BY <1>0, <1>1, <1>3
<1> QED
  BY <1>2, <1>4, <1>5

(* Where each step stands. *)
LEMMA AtIs ==
    ASSUME StartTypeOK, NEW s, At(s)
    PROVE  /\ result = "pending" /\ Steps[step] = s
           /\ s \in {"user", "license", "config", "env", "unit", "reload", "dir", "valid", "validate"}
                => step < ShowAt
           /\ s = "show" => step = ShowAt
           /\ s = "stop" => step = ShowAt + 1
           /\ s = "enable" => step = ShowAt + 2
           /\ s = "enabled" => step = ShowAt + 3
           /\ s = "start" => step = ShowAt + 4
           /\ s = "started" => step = ShowAt + 5
           /\ s \in {"wait", "status"} => step = ShowAt + 6
<1>0. step \in 1 .. ShowAt + 6 /\ ShowAt \in 7..10
  BY StepsOrdered DEF StartTypeOK, Ordered
<1>1. \/ step \in 1 .. ShowAt - 1 \/ step = ShowAt \/ step = ShowAt + 1 \/ step = ShowAt + 2
      \/ step = ShowAt + 3 \/ step = ShowAt + 4 \/ step = ShowAt + 5 \/ step = ShowAt + 6
  BY <1>0
<1>2. Steps[step] = s /\ result = "pending"
  BY DEF At
<1> QED
  BY <1>0, <1>1, <1>2, StepsOrdered DEF Ordered

(* By the time RestartService begins, everything the apply writes has been  *)
(* written, and the unit that was written has been loaded.                  *)
LEMMA AllWritten ==
    ASSUME StartTypeOK, StartHolds, step >= ShowAt
    PROVE  /\ \A s \in Written \ {"unit"} : files[s] = apply
           /\ "unit" \in Written => /\ unit[unitName].file = apply
                                    /\ unit[unitName].loaded = apply
<1>0. /\ step \in 1 .. ShowAt + 6 /\ ShowAt \in 7..10 /\ DOMAIN Steps = 1 .. ShowAt + 6
  BY StepsOrdered DEF StartTypeOK, Ordered
<1>1. ASSUME NEW s \in Written
      PROVE  Past(s)
  <2>1. PICK i \in DOMAIN Steps : Steps[i] = s /\ Needed(s)
    BY <1>1 DEF Written
  <2>2. \/ i \in 1 .. ShowAt - 1 \/ i = ShowAt \/ i = ShowAt + 1 \/ i = ShowAt + 2
        \/ i = ShowAt + 3 \/ i = ShowAt + 4 \/ i = ShowAt + 5 \/ i = ShowAt + 6
    BY <1>0
  <2>3. s \in {"license", "config", "env", "unit"}
    BY <1>1 DEF Written
  <2>4. i \in 1 .. ShowAt - 1
    BY <2>1, <2>2, <2>3, StepsOrdered DEF Ordered
  <2> QED
    BY <1>0, <2>1, <2>4 DEF Past
<1>2. ASSUME "unit" \in Written
      PROVE  Past("reload")
  <2>1. PICK i \in 1 .. ShowAt - 1 : Steps[i] = "reload"
    BY StepsOrdered DEF Ordered
  <2>2. Needed("reload")
    BY <1>2 DEF Written, Needed
  <2> QED
    BY <1>0, <2>1, <2>2 DEF Past
<1>3. Written \ {"unit"} \subseteq FileNames
  BY DEF Written, FileNames
<1> QED
  BY <1>1, <1>2, <1>3 DEF StartHolds

(* A process that is started after that runs with all of it. *)
LEMMA StartedFresh ==
    ASSUME StartTypeOK, StartHolds, step >= ShowAt, NEW x \in UnitFiles,
           x.loaded = unit[unitName].loaded \/ x.loaded = unit[unitName].file
    PROVE  \A s \in Written : Exec(x).ran[s] = apply
<1>1. Exec(x).ran = [license |-> files.license, config |-> files.config, env |-> files.env, unit |-> x.loaded]
  BY ExecIs DEF StartTypeOK
<1>2. Written \subseteq {"license", "config", "env", "unit"}
  BY DEF Written
<1> QED
  BY <1>1, <1>2, AllWritten

(* What holds while the steps before RestartService are taken. *)
LEMMA BeforeRestart ==
    ASSUME StartInv, StartTypeOK', UNCHANGED <<request, apply>>, step < ShowAt, Follows(step'),
           result = "pending",
           \A f \in FileNames : Past(f) \/ Steps[step] = f => files'[f] = apply,
           Past("unit") \/ Steps[step] = "unit" => unit'[unitName].file = apply,
           Past("reload") \/ Steps[step] = "reload" => unit'[unitName].loaded = unit'[unitName].file
    PROVE  StartHolds'
<1>1. /\ UNCHANGED unitName /\ ShowAt' = ShowAt
      /\ step' <= ShowAt
      /\ \A s : Past(s)' => Past(s) \/ Steps[step] = s
  BY SameRequest, GoesOn DEF StartInv
<1>2. step' \in Nat /\ ShowAt \in 7..10
  <2>1. step' \in DOMAIN Steps
    BY SameRequest DEF StartTypeOK
  <2> QED
    BY <2>1, StepsOrdered DEF Ordered
<1>3. (step > ShowAt + 2)' = FALSE /\ (step > ShowAt)' = FALSE
  BY <1>1, <1>2
<1> QED
  BY <1>1, <1>3 DEF StartHolds

(* What holds while RestartService goes on: the files stay, and systemd     *)
(* may load the unit file again.                                            *)
LEMMA WhileRestarting ==
    ASSUME StartInv, StartTypeOK', UNCHANGED <<request, apply, files>>, step >= ShowAt, Follows(step'),
           result = "pending",
           unit'[unitName].file = unit[unitName].file,
           \/ unit'[unitName].loaded = unit[unitName].loaded
           \/ unit'[unitName].loaded = unit[unitName].file
    PROVE  /\ \A f \in FileNames : Past(f)' => files'[f] = apply'
           /\ Past("unit")' => unit'[unitName'].file = apply'
           /\ Past("reload")' => unit'[unitName'].loaded = unit'[unitName'].file
           /\ step' = step + 1
<1>1. /\ UNCHANGED unitName /\ step' = step + 1
      /\ \A s : Past(s)' => Past(s) \/ Steps[step] = s
  BY SameRequest, GoesOn DEF StartInv
<1>2. /\ step \in 1 .. ShowAt + 6 /\ ShowAt \in 7..10
  BY StepsOrdered DEF StartInv, StartTypeOK, Ordered
<1>3. Steps[step] \in {"show", "stop", "enable", "enabled", "start", "started", "wait", "status"}
  <2>1. \/ step = ShowAt \/ step = ShowAt + 1 \/ step = ShowAt + 2
        \/ step = ShowAt + 3 \/ step = ShowAt + 4 \/ step = ShowAt + 5 \/ step = ShowAt + 6
    BY <1>2
  <2> QED
    BY <2>1, StepsOrdered DEF Ordered
<1>4. StartHolds
  BY DEF StartInv
<1>5. \A f \in FileNames : Past(f)' => Past(f)
  BY <1>1, <1>3 DEF FileNames
<1>6. (Past("unit")' => Past("unit")) /\ (Past("reload")' => Past("reload"))
  BY <1>1, <1>3
<1> QED
  BY <1>1, <1>4, <1>5, <1>6 DEF StartHolds

(* The steps before RestartService write the files, the unit file and then   *)
(* have systemd read it.                                                     *)
LEMMA EarlyStep ==
    ASSUME StartInv, StartTypeOK',
           \/ CreateOrUpdateUser \/ \E f \in FileNames : CopyFile(f)
           \/ CreateUnitFile \/ DaemonReload \/ CreateDirectory \/ Validate
    PROVE  StartInv'
<1>0. /\ UNCHANGED <<request, apply, seen>> /\ UNCHANGED <<service, unitName, username, options>>
      /\ Proceed \* /\ result = "pending"
      /\ StartTypeOK /\ unit \in [Units -> UnitFiles] /\ unitName \in Units
      /\ files \in [FileNames -> 0..MaxApplies]
  <2>1. UNCHANGED <<request, apply, seen>> /\ Proceed
    BY DEF CreateOrUpdateUser, CopyFile, CreateUnitFile, DaemonReload, CreateDirectory, Validate
  <2>2. StartTypeOK /\ unit \in [Units -> UnitFiles] /\ unitName \in Units /\ files \in [FileNames -> 0..MaxApplies]
    BY StartServiceAssumption DEF StartInv, StartTypeOK, UnitFiles, Units
  <2> QED
    BY <2>1, <2>2 DEF request
<1>1. result = "pending" /\ step < ShowAt
  <2>1. PICK s \in {"user", "license", "config", "env", "unit", "reload", "dir", "valid", "validate"} : At(s)
    BY DEF CreateOrUpdateUser, CopyFile, CreateUnitFile, DaemonReload, CreateDirectory, Validate, FileNames
  <2> QED
    BY <1>0, <2>1, AtIs
<1>2. result' = "error" \/ (result' = "pending" /\ Follows(step'))
  BY <1>0, <1>1, ProceedIs
<1>3. StartHolds
  BY <1>1 DEF StartInv
<1>5. ASSUME result' # "error"
      PROVE  StartHolds'
  <2>1. /\ \A f \in FileNames : Past(f) \/ Steps[step] = f => files'[f] = apply
    <3>1. ASSUME NEW f \in FileNames, CopyFile(f)
          PROVE  \A g \in FileNames : Past(g) \/ Steps[step] = g => files'[g] = apply
      BY <1>0, <1>3, <3>1 DEF CopyFile, At, StartHolds
    <3>2. ASSUME ~\E f \in FileNames : CopyFile(f)
          PROVE  files' = files /\ Steps[step] \notin FileNames
      BY <3>2 DEF CreateOrUpdateUser, CreateUnitFile, DaemonReload, CreateDirectory, Validate, host, At, FileNames
    <3> QED
      BY <1>3, <3>1, <3>2 DEF StartHolds
  <2>2. /\ Past("unit") \/ Steps[step] = "unit" => unit'[unitName].file = apply
        /\ Past("reload") \/ Steps[step] = "reload" => unit'[unitName].loaded = unit'[unitName].file
    <3>1. CASE CreateUnitFile
      <4>1. unit'[unitName].file = apply
        <5> DEFINE y == unit[unitName]
                   x == [y EXCEPT !.exists = TRUE, !.file = apply]
        <5>1. x.file = apply
          <6>1. y \in UnitFiles
            BY <1>0
          <6> HIDE DEF y
          <6> QED
            BY <6>1 DEF UnitFiles
        <5>2. unit' = [unit EXCEPT ![unitName] = x]
          BY <3>1 DEF CreateUnitFile
        <5> HIDE DEF x
        <5> QED
          BY <1>0, <5>1, <5>2
      <4>2. Steps[step] = "unit"
        BY <3>1 DEF CreateUnitFile, At
      <4>3. ~Past("reload")
        <5>1. step \in DOMAIN Steps /\ DOMAIN Steps = 1 .. ShowAt + 6 /\ ShowAt \in 7..10
          BY <1>0, StepsOrdered DEF StartTypeOK, Ordered
        <5>2. step \in 1 .. ShowAt - 1
          BY <1>1, <5>1
        <5>3. \A i \in 1 .. step - 1 : i \in 1 .. ShowAt - 1 /\ ~(step < i)
          BY <5>2, <5>1
        <5>4. \A i \in 1 .. step - 1 : Steps[i] # "reload"
          BY <4>2, <5>2, <5>3, StepsOrdered DEF Ordered
        <5> QED
          BY <5>4 DEF Past
      <4> QED
        BY <4>1, <4>2, <4>3
    <3>2. CASE DaemonReload
      <4>1. Steps[step] = "reload" /\ unit'[unitName] = Reload(unit[unitName])
        BY <1>0, <3>2 DEF DaemonReload, At
      <4> QED
        BY <1>0, <1>3, <4>1, ReloadIs DEF StartHolds
    <3>3. CASE ~CreateUnitFile /\ ~DaemonReload
      <4>1. unit' = unit /\ Steps[step] \notin {"unit", "reload"}
        BY <3>3 DEF CreateOrUpdateUser, CopyFile, CreateDirectory, Validate, host, At, FileNames
      <4> QED
        BY <1>3, <4>1 DEF StartHolds
    <3> QED
      BY <3>1, <3>2, <3>3
  <2>3. Follows(step')
    BY <1>2, <1>5
  <2> QED
    BY <1>0, <1>1, <2>1, <2>2, <2>3, BeforeRestart
<1> QED
  BY <1>2, <1>5 DEF StartInv

(* What RestartService begins with. *)
LEMMA RestartBegins ==
    ASSUME StartInv, StartTypeOK', UNCHANGED <<request, apply, files>>, step >= ShowAt, Proceed,
           result = "pending",
           unit'[unitName].file = unit[unitName].file,
           \/ unit'[unitName].loaded = unit[unitName].loaded
           \/ unit'[unitName].loaded = unit[unitName].file,
           step' = step + 1 /\ RestartedUnit = unitName =>
                \/ seen' = "starting"
                \/ seen' = "active" /\ step = ShowAt
                \/ unit'[unitName].proc \notin {"starting", "active"}
                \/ \A s \in Written : unit'[unitName].ran[s] = apply,
           step >= ShowAt + 2 /\ RestartedUnit = unitName /\ seen' # "starting" =>
                \A s \in Written : unit'[unitName].ran[s] = apply
    PROVE  StartInv'
<1>1. StartTypeOK /\ ShowAt \in 7..10 /\ step \in 1 .. ShowAt + 6
  BY StepsOrdered DEF StartInv, StartTypeOK, Ordered
<1>2. result' = "error" \/ (result' = "pending" /\ Follows(step'))
  BY <1>1, ProceedIs
<1>3. UNCHANGED unitName /\ ShowAt' = ShowAt /\ RestartedUnit' = RestartedUnit /\ Written' = Written
  BY SameRequest
<1>4. \A u : Fresh(u)' <=> \A s \in Written : unit'[u].ran[s] = apply
  BY <1>3 DEF Fresh
<1>5. ASSUME result' # "error"
      PROVE  StartHolds'
  <2>1. Follows(step')
    BY <1>2, <1>5
  <2>2. /\ \A f \in FileNames : Past(f)' => files'[f] = apply'
        /\ Past("unit")' => unit'[unitName'].file = apply'
        /\ Past("reload")' => unit'[unitName'].loaded = unit'[unitName'].file
        /\ step' = step + 1
    BY <2>1, WhileRestarting
  <2>3. step' > ShowAt' + 2 => step >= ShowAt + 2
    BY <1>1, <1>3, <2>2
  <2>4. step = ShowAt => step' = ShowAt' + 1
    BY <1>3, <2>2
  <2>5. RestartedUnit' = unitName' /\ (step > ShowAt /\ seen # "starting")' =>
            \/ seen' = "active" /\ step' = ShowAt' + 1
            \/ unit'[unitName'].proc \in {"starting", "active"} => Fresh(unitName)'
    BY <1>3, <1>4, <2>2, <2>4
  <2>6. RestartedUnit' = unitName' /\ (step > ShowAt + 2)' /\ seen' # "starting" => Fresh(unitName)'
    BY <1>3, <1>4, <2>3
  <2> QED
    BY <2>2, <2>5, <2>6 DEF StartHolds
<1>6. result' # "ok"
  BY <1>2
<1> QED
  BY <1>5, <1>6 DEF StartInv

(* What a start leaves: a process that runs, with what is on the host       *)
(* unless it ran before.                                                    *)
LEMMA StartQueuedIs ==
    ASSUME files \in [FileNames -> 0..MaxApplies], NEW x \in UnitFiles
    PROVE  /\ StartQueued(x) \in UnitFiles
           /\ StartQueued(x).exists = x.exists /\ StartQueued(x).file = x.file
           /\ StartQueued(x).loaded = x.loaded
           /\ \/ StartQueued(x).ran = Exec(x).ran
              \/ x.proc \in {"starting", "active"} /\ StartQueued(x).ran = x.ran
BY ExecIs DEF StartQueued, UnitFiles, Procs

(* RestartService looks at the unit: what runs is active, is starting or is  *)
(* not there.                                                                *)
LEMMA ShowStep ==
    ASSUME StartInv, StartTypeOK', ShowProperties
    PROVE  StartInv'
<1>1. /\ result = "pending" /\ step = ShowAt /\ unitName \in Units /\ RestartedUnit \in Units
      /\ unit \in [Units -> UnitFiles] /\ ShowAt \in 7..10
  BY AtIs, StepsOrdered, StartServiceAssumption
     DEF ShowProperties, StartInv, StartTypeOK, UnitFiles, Units, RestartedUnit, Ordered
<1>2. UNCHANGED <<request, apply, files, unit>> /\ Proceed /\ seen' = unit[RestartedUnit].proc
  BY DEF ShowProperties, host
<1>3. unit[RestartedUnit].proc \in {"inactive", "starting", "active", "waiting"}
  BY <1>1 DEF UnitFiles, Procs
<1>4. UNCHANGED unitName
  BY <1>2 DEF request
<1>5. \/ seen' = "starting"
      \/ seen' = "active" /\ step = ShowAt
      \/ unit'[RestartedUnit].proc \notin {"starting", "active"}
  BY <1>1, <1>2, <1>3
<1>6. ~(step >= ShowAt + 2) /\ step >= ShowAt
  BY <1>1
<1> QED
  BY <1>1, <1>2, <1>5, <1>6, RestartBegins

(* A unit seen active is stopped, so nothing of an earlier apply is left     *)
(* when it is started.                                                       *)
LEMMA StopStep ==
    ASSUME StartInv, StartTypeOK', StopService
    PROVE  StartInv'
<1>1. /\ result = "pending" /\ step = ShowAt + 1 /\ unitName \in Units /\ RestartedUnit \in Units
      /\ unit \in [Units -> UnitFiles] /\ ShowAt \in 7..10
  BY AtIs, StepsOrdered, StartServiceAssumption
     DEF StopService, StartInv, StartTypeOK, UnitFiles, Units, RestartedUnit, Ordered
<1>2. UNCHANGED <<request, apply, seen, files>> /\ Proceed
  BY DEF StopService
<1>3. UNCHANGED unitName
  BY <1>2 DEF request
<1>4. ~(step >= ShowAt + 2) /\ step >= ShowAt /\ step > ShowAt /\ step # ShowAt
  BY <1>1
<1>5. StartHolds
  BY <1>1 DEF StartInv
<1>6. CASE seen = "active"
  <2> DEFINE y == unit[RestartedUnit]
             x == [y EXCEPT !.proc = "inactive"]
  <2>1. unit' = [unit EXCEPT ![RestartedUnit] = x]
    BY <1>6 DEF StopService
  <2>2. x \in UnitFiles /\ x.proc = "inactive" /\ x.exists = y.exists /\ x.file = y.file /\ x.loaded = y.loaded
    <3>1. y \in UnitFiles
      BY <1>1
    <3> HIDE DEF y
    <3> QED
      BY <3>1 DEF UnitFiles, Procs
  <2> HIDE DEF x
  <2>4. unit'[unitName].file = unit[unitName].file /\ unit'[unitName].loaded = unit[unitName].loaded
    BY <1>1, <2>1, <2>2
  <2>5. unit'[RestartedUnit].proc = "inactive"
    BY <1>1, <2>1, <2>2
  <2> QED
    BY <1>1, <1>2, <1>4, <2>4, <2>5, RestartBegins
<1>7. CASE seen # "active"
  <2>1. unit' = unit
    BY <1>7 DEF StopService
  <2>2. RestartedUnit = unitName =>
            \/ seen' = "starting"
            \/ unit'[unitName].proc \notin {"starting", "active"}
            \/ \A s \in Written : unit'[unitName].ran[s] = apply
    BY <1>2, <1>4, <1>5, <1>7, <2>1 DEF StartHolds, Fresh
  <2> QED
    BY <1>1, <1>2, <1>4, <2>1, <2>2, RestartBegins
<1> QED
  BY <1>6, <1>7

(* enable --now starts what was written, unless it was starting when         *)
(* RestartService looked.                                                    *)
LEMMA EnableStep ==
    ASSUME StartInv, StartTypeOK', EnableService
    PROVE  StartInv'
<1>1. /\ result = "pending" /\ step = ShowAt + 2 /\ unitName \in Units /\ RestartedUnit \in Units
      /\ unit \in [Units -> UnitFiles] /\ files \in [FileNames -> 0..MaxApplies] /\ ShowAt \in 7..10
  BY AtIs, StepsOrdered, StartServiceAssumption
     DEF EnableService, StartInv, StartTypeOK, UnitFiles, Units, RestartedUnit, Ordered
<1>2. UNCHANGED <<request, apply, seen, files>>
  BY DEF EnableService
<1>3. UNCHANGED unitName
  BY <1>2 DEF request
<1>4. step >= ShowAt /\ step > ShowAt /\ step # ShowAt /\ step # ShowAt + 1
  BY <1>1
<1>5. StartHolds
  BY <1>1 DEF StartInv
<1>6. CASE unit[RestartedUnit].exists
  <2> DEFINE y == unit[RestartedUnit]
             z == StartQueued(Reload(y))
             x == [z EXCEPT !.enabled = TRUE]
  <2>0. y \in UnitFiles
    BY <1>1
  <2>1. unit' = [unit EXCEPT ![RestartedUnit] = x] /\ Proceed
    BY <1>6 DEF EnableService
  <2>2. /\ Reload(y) \in UnitFiles /\ Reload(y).exists = y.exists /\ Reload(y).file = y.file
        /\ Reload(y).loaded = y.file /\ Reload(y).proc = y.proc /\ Reload(y).ran = y.ran
    BY <2>0, ReloadIs
  <2>3. /\ z \in UnitFiles /\ z.exists = y.exists /\ z.file = y.file /\ z.loaded = y.file
        /\ z.ran = Exec(Reload(y)).ran \/ (y.proc \in {"starting", "active"} /\ z.ran = y.ran)
    BY <1>1, <2>2, StartQueuedIs
  <2>4. RestartedUnit = unitName => \A s \in Written : Exec(Reload(y)).ran[s] = apply
    BY <1>4, <1>5, <2>0, <2>2, StartedFresh DEF StartInv
  <2>5. RestartedUnit = unitName => seen = "starting" \/ \A s \in Written : z.ran[s] = apply
    <3> SUFFICES ASSUME RestartedUnit = unitName
                 PROVE  seen = "starting" \/ \A s \in Written : z.ran[s] = apply
      OBVIOUS
    <3>1. CASE z.ran = Exec(Reload(y)).ran
      BY <2>4, <3>1
    <3>2. CASE y.proc \in {"starting", "active"} /\ z.ran = y.ran
      <4> HIDE DEF z
      <4>1. seen # "starting" => Fresh(RestartedUnit)
        BY <1>1, <1>4, <1>5, <3>2 DEF StartHolds
      <4> QED
        BY <3>2, <4>1 DEF Fresh
    <3> QED
      BY <2>3, <3>1, <3>2
  <2> HIDE DEF z
  <2>6. /\ x \in UnitFiles /\ x.exists = z.exists /\ x.file = z.file /\ x.loaded = z.loaded /\ x.ran = z.ran
    BY <2>3 DEF UnitFiles
  <2> HIDE DEF x
  <2>7. y = unit[RestartedUnit]
    OBVIOUS
  <2> HIDE DEF y
  <2>8. unit'[RestartedUnit] = x /\ (unitName # RestartedUnit => unit'[unitName] = unit[unitName])
    BY <1>1, <2>1
  <2>9. /\ unit'[unitName].file = unit[unitName].file
        /\ \/ unit'[unitName].loaded = unit[unitName].loaded
           \/ unit'[unitName].loaded = unit[unitName].file
    BY <2>3, <2>6, <2>7, <2>8
  <2>10. RestartedUnit = unitName =>
            seen' = "starting" \/ \A s \in Written : unit'[unitName].ran[s] = apply
    BY <1>2, <2>5, <2>6, <2>8
  <2> QED
    BY <1>1, <1>2, <1>4, <2>1, <2>9, <2>10, RestartBegins
<1>7. CASE ~unit[RestartedUnit].exists
  <2>1. unit' = unit /\ result' = "error"
    BY <1>7 DEF EnableService
  <2> QED
    BY <1>3, <2>1 DEF StartInv
<1> QED
  BY <1>6, <1>7

(* A start of a unit that runs already keeps what enable --now started. *)
LEMMA StartUnitStep ==
    ASSUME StartInv, StartTypeOK', StartUnit
    PROVE  StartInv'
<1>1. /\ result = "pending" /\ step = ShowAt + 4 /\ unitName \in Units /\ RestartedUnit \in Units
      /\ unit \in [Units -> UnitFiles] /\ files \in [FileNames -> 0..MaxApplies] /\ ShowAt \in 7..10
  BY AtIs, StepsOrdered, StartServiceAssumption
     DEF StartUnit, StartInv, StartTypeOK, UnitFiles, Units, RestartedUnit, Ordered
<1>2. UNCHANGED <<request, apply, seen, files>> /\ Proceed
  BY DEF StartUnit
<1>3. UNCHANGED unitName
  BY <1>2 DEF request
<1>4. step >= ShowAt /\ step > ShowAt + 2
  BY <1>1
<1>5. StartHolds
  BY <1>1 DEF StartInv
<1> DEFINE y == unit[RestartedUnit]
           x == StartQueued(y)
<1>6. RestartedUnit = unitName /\ seen # "starting" => Fresh(unitName)
  BY <1>4, <1>5 DEF StartHolds
<1>7. y \in UnitFiles
  BY <1>1
<1>8. unit' = [unit EXCEPT ![RestartedUnit] = x]
  BY DEF StartUnit
<1>9. /\ x \in UnitFiles /\ x.exists = y.exists /\ x.file = y.file /\ x.loaded = y.loaded
      /\ x.ran = Exec(y).ran \/ (y.proc \in {"starting", "active"} /\ x.ran = y.ran)
  BY <1>1, <1>7, StartQueuedIs
<1>10. RestartedUnit = unitName => seen = "starting" \/ \A s \in Written : x.ran[s] = apply
  <2> SUFFICES ASSUME RestartedUnit = unitName
               PROVE  seen = "starting" \/ \A s \in Written : x.ran[s] = apply
    OBVIOUS
  <2>1. \A s \in Written : Exec(y).ran[s] = apply
    BY <1>4, <1>5, <1>7, StartedFresh DEF StartInv
  <2> HIDE DEF x
  <2>2. seen # "starting" => \A s \in Written : y.ran[s] = apply
    BY <1>6 DEF Fresh
  <2> QED
    BY <1>9, <2>1, <2>2
<1> HIDE DEF x
<1>11. unit'[RestartedUnit] = x /\ (unitName # RestartedUnit => unit'[unitName] = unit[unitName])
  BY <1>1, <1>8
<1>12. unit'[unitName].file = unit[unitName].file /\ unit'[unitName].loaded = unit[unitName].loaded
  BY <1>9, <1>11
<1>13. RestartedUnit = unitName =>
          seen' = "starting" \/ \A s \in Written : unit'[unitName].ran[s] = apply
  BY <1>2, <1>10, <1>11
<1> QED
  BY <1>1, <1>2, <1>4, <1>12, <1>13, RestartBegins

(* Waiting for the job changes nothing. *)
LEMMA JobStep ==
    ASSUME StartInv, StartTypeOK', JobDone
    PROVE  StartInv'
<1>1. /\ result = "pending" /\ ShowAt \in 7..10 /\ step >= ShowAt /\ step > ShowAt + 2
      /\ UNCHANGED <<request, apply, seen, files, unit>> /\ UNCHANGED unitName
  <2>1. step = ShowAt + 3 \/ step = ShowAt + 5
    BY AtIs DEF JobDone, StartInv
  <2> QED
    BY <2>1, AtIs, StepsOrdered DEF JobDone, StartInv, host, request, Ordered
<1>2. StartHolds
  BY <1>1 DEF StartInv
<1>3. RestartedUnit = unitName /\ seen # "starting" => Fresh(unitName)
  BY <1>1, <1>2 DEF StartHolds
<1>5. CASE Proceed
  BY <1>1, <1>3, <1>5, RestartBegins DEF Fresh
<1>6. CASE result' = "error"
  BY <1>6 DEF StartInv
<1> QED
  BY <1>5, <1>6 DEF JobDone

(* systemd and the processes may move between any two steps: a process that  *)
(* is restarted after everything was written runs with it, one that is       *)
(* restarted before may not.                                                 *)
LEMMA SystemdMoves ==
    ASSUME StartInv, StartTypeOK', NEW u \in Units, Ready(u) \/ AutoRestart(u) \/ Crash(u)
    PROVE  StartInv'
<1>1. /\ unitName \in Units /\ unit \in [Units -> UnitFiles] /\ files \in [FileNames -> 0..MaxApplies]
      /\ ShowAt \in 7..10 /\ step \in 1 .. ShowAt + 6 /\ unit[u] \in UnitFiles
  BY StepsOrdered, StartServiceAssumption DEF StartInv, StartTypeOK, UnitFiles, Units, Ordered
<1>2. UNCHANGED <<request, apply, step, result, seen, files>>
  BY DEF Ready, AutoRestart, Crash
<1>3. /\ UNCHANGED unitName /\ ShowAt' = ShowAt /\ RestartedUnit' = RestartedUnit /\ Written' = Written
      /\ \A s : Past(s)' = Past(s)
  BY <1>2, SameRequest DEF Past
<1>5. PICK x \in UnitFiles :
            /\ unit' = [unit EXCEPT ![u] = x]
            /\ x.exists = unit[u].exists /\ x.file = unit[u].file /\ x.loaded = unit[u].loaded
            /\ \/ x.ran = Exec(unit[u]).ran
               \/ x.ran = unit[u].ran /\ (x.proc \in {"starting", "active"} => unit[u].proc \in {"starting", "active"})
  <2>1. CASE AutoRestart(u)
    BY <1>1, <2>1, ExecIs DEF AutoRestart
  <2>2. CASE Ready(u) \/ Crash(u)
    <3>1. PICK p \in Procs : /\ unit' = [unit EXCEPT ![u].proc = p]
                             /\ p \in {"starting", "active"} => unit[u].proc \in {"starting", "active"}
      BY <2>2 DEF Ready, Crash, Procs
    <3> DEFINE y == unit[u]
    <3>2. y \in UnitFiles
      BY <1>1
    <3>3. unit' = [unit EXCEPT ![u] = [y EXCEPT !.proc = p]]
      BY <3>1
    <3>4. y.proc = unit[u].proc /\ y = unit[u]
      OBVIOUS
    <3> HIDE DEF y
    <3>5. LET x == [y EXCEPT !.proc = p] IN
            /\ x \in UnitFiles /\ x.exists = y.exists /\ x.file = y.file /\ x.loaded = y.loaded
            /\ x.ran = y.ran /\ x.proc = p
      BY <3>2 DEF UnitFiles
    <3> QED
      BY <3>1, <3>3, <3>4, <3>5
  <2> QED
    BY <2>1, <2>2
<1>6. unit'[u] = x /\ (unitName # u => unit'[unitName] = unit[unitName])
  BY <1>1, <1>5
<1>7. ASSUME result # "error"
      PROVE  StartHolds'
  <2>1. StartHolds
    BY <1>7 DEF StartInv
  <2>2. /\ \A f \in FileNames : Past(f)' => files'[f] = apply'
        /\ Past("unit")' => unit'[unitName'].file = apply'
        /\ Past("reload")' => unit'[unitName'].loaded = unit'[unitName'].file
    BY <1>2, <1>3, <1>5, <1>6, <2>1 DEF StartHolds
  <2>3. \A v : Fresh(v)' <=> \A s \in Written : unit'[v].ran[s] = apply
    BY <1>2, <1>3 DEF Fresh
  <2>4. CASE u # unitName
    BY <1>2, <1>3, <1>6, <2>1, <2>2, <2>3, <2>4 DEF StartHolds, Fresh
  <2>5. CASE u = unitName
    <3>1. step > ShowAt => \/ \A s \in Written : x.ran[s] = apply
                           \/ x.ran = unit[u].ran /\ (x.proc \in {"starting", "active"}
                                                        => unit[u].proc \in {"starting", "active"})
      BY <1>1, <1>5, <2>1, <2>5, StartedFresh DEF StartInv
    <3>2. Fresh(unitName)' <=> \A s \in Written : x.ran[s] = apply
      BY <1>3, <1>6, <2>3, <2>5
    <3>3. step > ShowAt + 2 => step > ShowAt
      BY <1>1
    <3> QED
      BY <1>2, <1>3, <1>6, <2>1, <2>2, <2>5, <3>1, <3>2, <3>3 DEF StartHolds, Fresh
  <2> QED
    BY <2>4, <2>5
<1> QED
  BY <1>2, <1>3, <1>7 DEF StartInv

(* What startVault, startConsul and startBoundary report as started runs     *)
(* with the license, configuration, environment and unit of that very        *)
(* apply, for any number of applies, faults, crashes and restarts by         *)
(* systemd in between and whatever units were there before, if the unit that *)
(* is restarted is the one that was named.                                   *)
THEOREM StartedRunsWhatWasWritten == StartSpec => []RunsWhatWasWritten
<1>1. StartInit => StartInv
  <2> SUFFICES ASSUME StartInit PROVE StartInv
    OBVIOUS
  <2>1. StartTypeOK
    BY StartInitTyped
  <2>3. \A s : ~Past(s)
    BY DEF StartInit, Past
  <2>4. ~(step > ShowAt) /\ ~(step > ShowAt + 2) /\ result = "pending"
    BY StepsOrdered DEF StartInit, Ordered
  <2> QED
    BY <2>1, <2>3, <2>4 DEF StartInv, StartHolds
<1>2. StartInv /\ [StartNext]_startVars => StartInv'
  <2> SUFFICES ASSUME StartInv, [StartNext]_startVars PROVE StartInv'
    OBVIOUS
  <2>1. StartTypeOK'
    BY StartKeepsTypes DEF StartInv
  <2>2. CASE UNCHANGED startVars
    BY <2>2 DEF startVars, host, request, StartInv, StartTypeOK, StartHolds, Past, Fresh, Written, Needed, Steps,
                ShowAt, RestartedUnit
  <2>3. CASE StepFails \/ WaitTimesOut
    BY <2>1, <2>3 DEF StepFails, WaitTimesOut, StartInv
  <2>4. CASE WaitForState \/ ServiceStatus
    <3>1. /\ result' = "ok" /\ UNCHANGED <<request, apply, step, seen, host>> /\ result # "error"
          /\ step = ShowAt + 6
      BY <2>4, AtIs DEF WaitForState, ServiceStatus, StartInv
    <3>2. UNCHANGED <<unitName, files, unit>> /\ ShowAt' = ShowAt /\ RestartedUnit' = RestartedUnit
          /\ \A s : Past(s)' = Past(s) /\ \A u : Fresh(u)' = Fresh(u)
      BY <3>1, SameRequest DEF host, Past, Fresh
    <3> QED
      BY <2>1, <3>1, <3>2 DEF StartInv, StartHolds
  <2>5. CASE Apply
    <3>1. UNCHANGED <<request, seen, host>> /\ step' = 1 /\ result' = "pending"
      BY <2>5 DEF Apply
    <3>2. UNCHANGED <<unitName, files, unit>> /\ ShowAt' = ShowAt /\ \A s : ~Past(s)'
      BY <3>1, SameRequest DEF host, Past
    <3>3. ~(step > ShowAt)' /\ ~(step > ShowAt + 2)'
      BY <3>1, <3>2, StepsOrdered DEF Ordered
    <3> QED
      BY <2>1, <3>1, <3>2, <3>3 DEF StartInv, StartHolds
  <2> QED
    BY <2>1, <2>2, <2>3, <2>4, <2>5, EarlyStep, ShowStep, StopStep, EnableStep, StartUnitStep, JobStep, SystemdMoves
       DEF StartNext, StartStep, SystemdStep
<1>3. StartInv => RunsWhatWasWritten
  <2> SUFFICES ASSUME StartInv, result = "ok", seen # "starting", RestartedUnit = unitName
               PROVE  \A s \in Written : unit[unitName].ran[s] = apply
    BY DEF RunsWhatWasWritten
  <2>1. StartHolds /\ step > ShowAt + 2
    BY StepsOrdered DEF StartInv, Ordered
  <2> QED
    BY <2>1 DEF StartHolds, Fresh
<1> QED
  BY <1>1, <1>2, <1>3, PTL DEF StartSpec
=============================================================================
