------------------------------- MODULE Retry -------------------------------
(***************************************************************************)
(* internal/retry/retry.go: the Retry loop and the Retrier it drives, used *)
(* by every remote operation of the provider.  A caller makes up to Calls  *)
(* Retry calls one after the other, either on one shared Retrier           *)
(* (InstallFlightControl: the platform, then the architecture) or each on  *)
(* a Clone of a Retrier that never ran (TargetHostInfo).  The context may  *)
(* be cancelled at any moment, also during a Run or a sleep.               *)
(***************************************************************************)
EXTENDS Integers

CONSTANTS
    Limits,        \* values of MaxRetries to explore
    Errs,          \* errors the retried function may return
    Calls,         \* number of consecutive Retry calls the caller makes
    AttemptBound   \* where counters that have no limit stop counting

MaxRetriesUnlimited == -1
CtxErr == "context error"
LateBound == 2     \* more late runs than this are not told apart

ASSUME RetryAssumption ==
    /\ Limits \subseteq Int
    /\ Calls \in Nat \ {0}
    /\ AttemptBound \in Nat
    /\ CtxErr \notin Errs

VARIABLES
    maxRetries,    \* Retrier.MaxRetries, fixed
    onlyRetry,     \* Retrier.OnlyRetryError, fixed; no filter when empty
    cloned,        \* TRUE when every call runs on a Clone of the Retrier
    pc,            \* where the current Retry call is
    ctx,           \* "live", or "done" once cancelled or timed out
    call,          \* number of the current call
    attempts,      \* the loop's own attempt number
    rAttempts,     \* Retrier.attempts, kept from call to call when shared
    lastErr,       \* Retrier.lastErr, a set holding at most one error
    err,           \* the joined error, as the set errors.Is can find in it
    start,         \* history: rAttempts when the current call began
    lateRuns       \* history: runs of the current call begun after ctx was done

config == <<maxRetries, onlyRetry, cloned>>
vars == <<config, pc, ctx, call, attempts, rAttempts, lastErr, err, start, lateRuns>>

Limited == maxRetries > MaxRetriesUnlimited

(* One more, except that an unlimited Retrier stops counting at AttemptBound. *)
Bump(n) == IF Limited \/ n < AttemptBound THEN n + 1 ELSE n

Init ==
    /\ maxRetries \in Limits
    /\ onlyRetry \in SUBSET Errs
    /\ cloned \in BOOLEAN
    /\ pc = "select"
    /\ ctx \in {"live", "done"}
    /\ call = 1
    /\ attempts = 1
    /\ rAttempts = 0
    /\ lastErr = {}
    /\ err = {}
    /\ start = 0
    /\ lateRuns = 0

(* The context of the call is cancelled or reaches its deadline. *)
CtxDone ==
    /\ ctx = "live"
    /\ ctx' = "done"
    /\ UNCHANGED <<config, pc, call, attempts, rAttempts, lastErr, err, start, lateRuns>>

(* Mutation: the loop does not look at its context. *)
SelectIgnoresCtx ==
    /\ pc = "select"
    /\ pc' = "run"
    /\ UNCHANGED <<config, ctx, call, attempts, rAttempts, lastErr, err, start, lateRuns>>

(* Mutation: the error of the context is recorded as the Retrier's last one. *)
SelectRecordsCtxErr ==
    /\ pc = "select"
    /\ ctx = "done"
    /\ lastErr' = {CtxErr}
    /\ pc' = "return"
    /\ UNCHANGED <<config, ctx, call, attempts, rAttempts, err, start, lateRuns>>

(* The top of the loop: the one place where the context is looked at. *)
Select ==
    /\ pc = "select"
    /\ \/ /\ ctx = "done"
          /\ err' = err \union {CtxErr}
          /\ pc' = "return"
       \/ /\ ctx = "live"
          /\ pc' = "run"
          /\ UNCHANGED err
    /\ UNCHANGED <<config, ctx, call, attempts, rAttempts, lastErr, start, lateRuns>>

(* Retrier.Run counts the attempt and records what the function returned;  *)
(* the loop returns a nil error on success and joins the error otherwise.  *)
Run ==
    /\ pc = "run"
    /\ rAttempts' = Bump(rAttempts)
    /\ lateRuns' = IF ctx = "done" /\ lateRuns < LateBound THEN lateRuns + 1 ELSE lateRuns
    /\ \/ /\ lastErr' = {}
          /\ err' = {}
          /\ pc' = "return"
       \/ \E e \in Errs :
          /\ lastErr' = {e}
          /\ err' = err \union {e}
          /\ pc' = "should"
    /\ UNCHANGED <<config, ctx, call, attempts, start>>

(* Mutation: one attempt too many. *)
ShouldRetryOffByOne ==
    /\ ~(Limited /\ rAttempts > maxRetries)
    /\ onlyRetry = {} \/ lastErr \subseteq onlyRetry

ShouldRetry ==
    /\ ~(Limited /\ rAttempts >= maxRetries)
    /\ onlyRetry = {} \/ lastErr \subseteq onlyRetry

(* Mutation: the loop goes round without counting. *)
DecideWithoutCount ==
    /\ pc = "should"
    /\ pc' = IF ShouldRetry THEN "sleep" ELSE "return"
    /\ UNCHANGED <<config, ctx, call, attempts, rAttempts, lastErr, err, start, lateRuns>>

(* The decision after a failed Run: give up, or count and sleep. *)
Decide ==
    /\ pc = "should"
    /\ \/ /\ ~ShouldRetry
          /\ pc' = "return"
          /\ UNCHANGED attempts
       \/ /\ ShouldRetry
          /\ attempts' = Bump(attempts)
          /\ pc' = "sleep"
    /\ UNCHANGED <<config, ctx, call, rAttempts, lastErr, err, start, lateRuns>>

(* time.Sleep(Interval()): the context does not cut it short. *)
Wake ==
    /\ pc = "sleep"
    /\ pc' = "select"
    /\ UNCHANGED <<config, ctx, call, attempts, rAttempts, lastErr, err, start, lateRuns>>

(* Mutation: a Clone keeps the attempts of the Retrier it is made from. *)
NextCallCloneKeepsAttempts ==
    /\ pc = "return"
    /\ call < Calls
    /\ cloned \/ err = {}
    /\ call' = call + 1
    /\ pc' = "select"
    /\ attempts' = 1
    /\ err' = {}
    /\ start' = rAttempts
    /\ lateRuns' = 0
    /\ UNCHANGED <<config, ctx, rAttempts, lastErr>>

(* The caller's next Retry call.  A shared Retrier is only used again after *)
(* a success; TargetHostInfo goes on after an error, on a fresh Clone.      *)
NextCall ==
    /\ pc = "return"
    /\ call < Calls
    /\ cloned \/ err = {}
    /\ call' = call + 1
    /\ pc' = "select"
    /\ attempts' = 1
    /\ rAttempts' = IF cloned THEN 0 ELSE rAttempts
    /\ lastErr' = IF cloned THEN {} ELSE lastErr
    /\ err' = {}
    /\ start' = rAttempts'
    /\ lateRuns' = 0
    /\ UNCHANGED <<config, ctx>>

Loop == Select \/ Run \/ Decide \/ Wake \/ NextCall
Next == CtxDone \/ Loop

(* The caller's goroutine runs and the retried function returns. *)
Fairness == WF_vars(Loop)
Spec == Init /\ [][Next]_vars /\ Fairness

-----------------------------------------------------------------------------
TypeOK ==
    /\ maxRetries \in Limits
    /\ onlyRetry \in SUBSET Errs
    /\ cloned \in BOOLEAN
    /\ pc \in {"select", "run", "should", "sleep", "return"}
    /\ ctx \in {"live", "done"}
    /\ call \in 1..Calls
    /\ attempts \in Nat \ {0}
    /\ rAttempts \in Nat
    /\ lastErr \in SUBSET Errs
    /\ err \in SUBSET (Errs \union {CtxErr})
    /\ start \in Nat
    /\ lateRuns \in 0..LateBound

(* A limited Retrier runs its function at most maxRetries times over all   *)
(* the calls that share it, except that every call runs it once: the       *)
(* budget of a call is what earlier calls on the same Retrier left of it.  *)
AtLeastOne(n) == IF n > 1 THEN n ELSE 1
Budget == AtLeastOne(maxRetries - start)
AttemptsBounded == Limited => rAttempts - start <= Budget

(* A Clone starts with the whole budget, whatever earlier calls used up:   *)
(* a cloned call that gave up although the context never ended and every   *)
(* error was retryable has made all its attempts.                          *)
CloneHasFullBudget ==
    cloned /\ Limited /\ onlyRetry = {} /\ pc = "return" /\ err # {} /\ CtxErr \notin err
        => rAttempts = AtLeastOne(maxRetries)

(* The loop's attempt number, used to label the joined errors, counts the  *)
(* runs of this call also when Retrier.attempts started above zero.        *)
Started == IF pc \in {"select", "run", "sleep"} THEN attempts - 1 ELSE attempts
AttemptsAgree == Limited =>
    IF pc = "return" /\ CtxErr \in err
    THEN rAttempts - start = attempts - 1
    ELSE rAttempts - start = Started

(* Once the context is done at most one more Run begins in a call: the one *)
(* for which the select had already let the loop through.                  *)
CancelIsPrompt == lateRuns <= 1

(* A cancelled context makes every call return, however often the function *)
(* fails and whatever MaxRetries is.                                       *)
CancelReturns == ctx = "done" ~> pc = "return"

=============================================================================
