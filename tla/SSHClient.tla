------------------------------- MODULE SSHClient -------------------------------
(***************************************************************************)
(* internal/transport/ssh: the client of one apply, from New over a number *)
(* of Run calls to the deferred Close.  Connect starts a dial at every tick *)
(* of a ticker and takes the first that succeeds; newSession tries out each *)
(* session with requests from goroutines of their own; Run is Stream with  *)
(* a goroutine that waits for the command and readers of its output (the   *)
(* two readers are alike: one is modelled).                                *)
(*                                                                         *)
(* External are the network, sshd and the command.  A connection that no   *)
(* longer answers counts as lost, since TCP's keepalive ends it; a dial may *)
(* hang, because only its TCP part has a timeout.                          *)
(***************************************************************************)
EXTENDS Integers, FiniteSets

CONSTANTS
    MaxRuns,          \* Run calls before Close
    MaxDials,         \* dials that one Connect starts in its 60 s (the code's: 20)
    DialErrCap,       \* capacity of dialErrs (the code's: 5)
    MaxRequests,      \* test requests that fit into 30 s (the code's: 30)
    KeepaliveLimit,   \* requests that are not ok before the keepalive ends (the code's: 5)
    MaxSessions,      \* sshd's limit of sessions per connection
    Chunks,           \* chunks of output a command writes
    Codes             \* exit codes of a command that fails

Rounds == 1..MaxRuns
Dials == Rounds \X (1..MaxDials)
NoDial == <<0, 0>>
NoErr == [class |-> "nil", code |-> 0]
PlainErr == [class |-> "plain", code |-> 0]
Unset == [class |-> "unset", code |-> 0]
ExecError(c) == [class |-> "exec", code |-> c]

ASSUME SSHClientAssumption ==
    /\ {MaxRuns, MaxDials, MaxRequests, KeepaliveLimit, MaxSessions} \subseteq Nat \ {0}
    /\ DialErrCap \in Nat /\ Chunks \in Nat
    /\ Codes \subseteq Nat \ {0}

VARIABLES
    ctx,         \* context of the apply
    readable,    \* keys and passphrases can be read and parsed
    pc,          \* the caller
    runs,        \* Run calls so far
    round,       \* Connect calls so far
    dial,        \* state of every dial goroutine
    started,     \* dials this Connect started
    ticking,     \* its ticker still ticks
    late,        \* the timeout of Connect or newSession passed
    dialErrs,    \* errors in the channel of each Connect
    client,      \* c.client: the dial whose connection is used
    link,        \* that connection
    keepalive, failures,   \* the keepalive goroutine and its errCount
    sessions,    \* sessions open on the connection
    untried,     \* history: sessions whose test requests failed
    asked, asking, answers,  \* test requests of this session: sent, unanswered, succeeded
    remote,      \* the command: "off", "running", "ended" or "closed" (its channel)
    exit,        \* its exit status, -1 until it arrived
    out, got,    \* chunks that arrived and chunks that were read
    reader, waiter,  \* the reader and the goroutine that waits for the command
    errC,        \* what Stream sent
    result       \* what the last Run returned

connecting == <<round, dial, started, ticking, dialErrs>>
conn == <<client, link, keepalive, failures>>
session == <<sessions, untried, asked, asking, answers>>
command == <<remote, exit, out>>
run == <<got, reader, waiter, errC>>
vars == <<ctx, readable, pc, runs, late, result, connecting, conn, session, command, run>>

Init ==
    /\ ctx = "live"
    /\ readable \in BOOLEAN
    /\ pc = "new" /\ runs = 0 /\ result = Unset /\ late = FALSE
    /\ round = 0 /\ started = 0 /\ ticking = FALSE
    /\ dial = [d \in Dials |-> "off"]
    /\ dialErrs = [r \in Rounds |-> 0]
    /\ client = NoDial /\ link = "none" /\ keepalive = "off" /\ failures = 0
    /\ sessions = 0 /\ untried = 0 /\ asked = 0 /\ asking = 0 /\ answers = 0
    /\ remote = "off" /\ exit = -1 /\ out = 0 /\ got = 0
    /\ reader = "off" /\ waiter = "off" /\ errC = Unset

CtxDone ==
    /\ ctx = "live"
    /\ ctx' = "done"
    /\ UNCHANGED <<readable, pc, runs, late, result, connecting, conn, session, command, run>>

-----------------------------------------------------------------------------
Return(err) == pc' = "idle" /\ result' = err

(* New and init: password, key and agent become authentication methods.    *)
NewClient ==
    /\ pc = "new"
    /\ pc' = IF ctx = "live" /\ readable THEN "idle" ELSE "closed"
    /\ UNCHANGED <<ctx, readable, runs, late, result, connecting, conn, session, command, run>>

(* The next Run of the apply: Stream, and in it newSession, which connects   *)
(* if there is no client.                                                    *)
Stream ==
    /\ pc = "idle"
    /\ runs < MaxRuns
    /\ runs' = runs + 1
    /\ errC' = Unset /\ got' = 0 /\ reader' = "off" /\ waiter' = "off"
    /\ remote' = "off" /\ exit' = -1 /\ out' = 0
    /\ IF ctx = "done" THEN Return(PlainErr)
       ELSE /\ pc' = IF client = NoDial THEN "connect" ELSE "session"
            /\ UNCHANGED result
    /\ UNCHANGED <<ctx, readable, late, connecting, conn, session>>

(* Connect, which holds the lock until it returns: the first dial. *)
Connect ==
    /\ pc = "connect"
    /\ pc' = "check"
    /\ late' = FALSE
    /\ round' = round + 1
    /\ started' = 1
    /\ ticking' = TRUE
    /\ dial' = [dial EXCEPT ![<<round + 1, 1>>] = "dialing"]
    /\ UNCHANGED <<ctx, readable, runs, result, dialErrs, conn, session, command, run>>

(* The errors are drained, which lets the dials blocked on them end. *)
DialGivesUp ==
    /\ ctx = "done" \/ late
    /\ ticking' = FALSE
    /\ dialErrs' = [dialErrs EXCEPT ![round] = 0]
    /\ dial' = [d \in Dials |->
         IF d[1] = round /\ dial[d] = "failing" THEN "ended" ELSE dial[d]]
    /\ Return(PlainErr)
    /\ UNCHANGED <<round, started, client, link, keepalive, failures>>

CheckDial ==
    /\ pc = "check"
    /\ \/ DialGivesUp
       \/ ctx = "live" /\ ~late /\ pc' = "select" /\ UNCHANGED <<result, connecting, conn>>
    /\ UNCHANGED <<ctx, readable, runs, late, session, command, run>>

(* The select of waitForClientConnection. *)
DialTick ==
    /\ ticking
    /\ started < MaxDials
    /\ started' = started + 1
    /\ dial' = [dial EXCEPT ![<<round, started + 1>>] = "dialing"]
    /\ pc' = "check"
    /\ UNCHANGED <<round, ticking, dialErrs, conn, result>>

TakeClient(d) ==
    /\ d[1] = round
    /\ dial[d] = "connected"
    /\ dial' = [dial EXCEPT ![d] = "ended"]
    /\ ticking' = FALSE
    /\ client' = d
    /\ link' = "up"
    /\ keepalive' = "running"
    /\ failures' = 0
    /\ pc' = "session"
    /\ UNCHANGED <<round, started, dialErrs, result>>

SelectDial ==
    /\ pc = "select"
    /\ DialGivesUp \/ DialTick \/ \E d \in Dials : TakeClient(d)
    /\ UNCHANGED <<ctx, readable, runs, late, session, command, run>>

(* Mutation: Connect has no timeout of its own. *)
TimeoutOfRequestsOnly ==
    /\ ~late
    /\ pc \in {"requestCheck", "requestSelect"} /\ asked = MaxRequests
    /\ late' = TRUE
    /\ UNCHANGED <<ctx, readable, pc, runs, result, connecting, conn, session, command, run>>

(* The timers of Connect and newSession: by then every tick has come. *)
Timeout ==
    /\ ~late
    /\ \/ pc \in {"check", "select"} /\ (started = MaxDials \/ ~ticking)
       \/ pc \in {"requestCheck", "requestSelect"} /\ asked = MaxRequests
    /\ late' = TRUE
    /\ UNCHANGED <<ctx, readable, pc, runs, result, connecting, conn, session, command, run>>

(* A dial goroutine, which may outlive its Connect.  One that succeeds stops *)
(* the ticker and waits to hand over its connection, for ever if nobody asks. *)
Dial(d) ==
    /\ dial[d] = "dialing"
    /\ \/ /\ dial' = [dial EXCEPT ![d] = "connected"]
          /\ ticking' = (ticking /\ d[1] # round)
          /\ UNCHANGED dialErrs
       \/ /\ dialErrs[d[1]] < DialErrCap
          /\ dialErrs' = [dialErrs EXCEPT ![d[1]] = @ + 1]
          /\ dial' = [dial EXCEPT ![d] = "ended"]
          /\ UNCHANGED ticking
       \/ /\ dialErrs[d[1]] = DialErrCap
          /\ dial' = [dial EXCEPT ![d] = "failing"]
          /\ UNCHANGED <<ticking, dialErrs>>
    /\ UNCHANGED <<ctx, readable, pc, runs, late, result, round, started, conn, session, command, run>>

(* A request every second until KeepaliveLimit of them were not ok, which a  *)
(* healthy sshd that does not know the request causes as well as a lost      *)
(* connection: errCount is never reset.                                      *)
Keepalive ==
    /\ keepalive = "running"
    /\ \/ /\ ctx = "done" \/ pc = "closed"
          /\ keepalive' = "ended"
          /\ UNCHANGED failures
       \/ /\ failures' = failures + 1
          /\ keepalive' = IF failures + 1 = KeepaliveLimit THEN "ended" ELSE "running"
    /\ UNCHANGED <<ctx, readable, pc, runs, late, result, connecting, client, link, session, command, run>>

LinkLost ==
    /\ link = "up"
    /\ link' = "lost"
    /\ remote' = IF remote \in {"running", "ended"} THEN "closed" ELSE remote
    /\ UNCHANGED <<ctx, readable, pc, runs, late, result, connecting, client, keepalive, failures,
                   session, exit, out, run>>

-----------------------------------------------------------------------------
(* newSession with its client: a lost connection is not replaced. *)
NewSession ==
    /\ pc = "session"
    /\ late' = FALSE
    /\ answers' = 0
    /\ IF link = "up" /\ sessions < MaxSessions
       THEN /\ pc' = "requestCheck"
            /\ sessions' = sessions + 1
            /\ asked' = 1 /\ asking' = 1
            /\ UNCHANGED result
       ELSE Return(PlainErr) /\ UNCHANGED <<sessions, asked, asking>>
    /\ UNCHANGED <<ctx, readable, runs, untried, connecting, conn, command, run>>

(* The caller drops the session and its cleanup. *)
RequestGivesUp ==
    /\ ctx = "done" \/ late
    /\ untried' = untried + 1
    /\ Return(PlainErr)
    /\ UNCHANGED <<asked, asking, answers>>

CheckRequest ==
    /\ pc = "requestCheck"
    /\ \/ RequestGivesUp
       \/ /\ ctx = "live" /\ ~late
          /\ pc' = "requestSelect"
          /\ UNCHANGED <<result, untried, asked, asking, answers>>
    /\ UNCHANGED <<ctx, readable, runs, late, connecting, conn, sessions, command, run>>

RequestTick ==
    /\ asked < MaxRequests
    /\ asked' = asked + 1 /\ asking' = asking + 1
    /\ pc' = "requestCheck"
    /\ UNCHANGED <<result, untried, answers>>

TakeAnswer ==
    /\ answers > 0
    /\ pc' = "start"
    /\ UNCHANGED <<result, untried, asked, asking, answers>>

SelectRequest ==
    /\ pc = "requestSelect"
    /\ RequestGivesUp \/ RequestTick \/ TakeAnswer
    /\ UNCHANGED <<ctx, readable, runs, late, connecting, conn, sessions, command, run>>

(* A test request is answered, or fails with the connection. *)
SendRequest ==
    /\ pc \in {"requestCheck", "requestSelect"}
    /\ asking > 0
    /\ asking' = asking - 1
    /\ answers' = IF link = "up" THEN answers + 1 ELSE answers
    /\ UNCHANGED <<ctx, readable, pc, runs, late, result, connecting, conn, sessions, untried, asked,
                   command, run>>

-----------------------------------------------------------------------------
(* Start: the command begins, or the error, of a lost connection or of a     *)
(* server that refuses the command, goes through completeStream, whose close *)
(* of the session ends the readers too.                                      *)
Start ==
    /\ pc = "start"
    /\ pc' = "wait"
    /\ reader' = "reading"
    /\ waiter' = "waiting"
    /\ remote' \in IF link = "up" THEN {"running", "closed"} ELSE {"closed"}
    /\ UNCHANGED <<ctx, readable, runs, late, result, connecting, conn, session, exit, out, got, errC>>

Output ==
    /\ remote \in {"running", "ended"}
    /\ out < Chunks
    /\ out' = out + 1
    /\ UNCHANGED <<ctx, readable, pc, runs, late, result, connecting, conn, session, remote, exit, run>>

(* sshd reports the exit status as soon as the command ends and may still    *)
(* have output to send; then it closes the channel.                          *)
Exit(c) ==
    /\ remote = "running"
    /\ remote' = "ended"
    /\ exit' = c
    /\ UNCHANGED <<ctx, readable, pc, runs, late, result, connecting, conn, session, out, run>>

ChannelClose ==
    /\ remote = "ended"
    /\ out = Chunks
    /\ remote' = "closed"
    /\ UNCHANGED <<ctx, readable, pc, runs, late, result, connecting, conn, session, exit, out, run>>

Capture ==
    /\ reader = "reading"
    /\ \/ got < out /\ got' = got + 1 /\ UNCHANGED reader
       \/ got = out /\ remote = "closed" /\ reader' = "done" /\ UNCHANGED got
    /\ UNCHANGED <<ctx, readable, pc, runs, late, result, connecting, conn, session, command, waiter, errC>>

(* session.Wait and handleExecErr. *)
Verdict == IF exit = 0 THEN NoErr ELSE IF exit > 0 THEN ExecError(exit) ELSE PlainErr

(* completeStream: an error of the cleanup is added to the command's. *)
Consolidated(err, cleanup) == IF err = NoErr THEN cleanup ELSE err

(* Mutation: the session is not closed. *)
CompleteWithoutCleanup ==
    /\ waiter = "waiting"
    /\ remote = "closed"
    /\ waiter' = "done"
    /\ \E cleanup \in IF link = "up" THEN {NoErr} ELSE {NoErr, PlainErr} :
         errC' = Consolidated(Verdict, cleanup)
    /\ UNCHANGED <<ctx, readable, pc, runs, late, result, connecting, conn, session, command, got, reader>>

CompleteStream ==
    /\ waiter = "waiting"
    /\ remote = "closed"
    /\ waiter' = "done"
    /\ sessions' = sessions - 1
    /\ \E cleanup \in IF link = "up" THEN {NoErr} ELSE {NoErr, PlainErr} :
         errC' = Consolidated(Verdict, cleanup)
    /\ UNCHANGED <<ctx, readable, pc, runs, late, result, connecting, conn, untried, asked, asking,
                   answers, command, got, reader>>

(* Mutation: the readers are not waited for. *)
RunWithoutReaders ==
    /\ pc = "wait"
    /\ errC # Unset
    /\ Return(errC)
    /\ UNCHANGED <<ctx, readable, runs, late, connecting, conn, session, command, run>>

(* Run has the error and the reader is done. *)
Run ==
    /\ pc = "wait"
    /\ errC # Unset
    /\ reader = "done"
    /\ Return(errC)
    /\ UNCHANGED <<ctx, readable, runs, late, connecting, conn, session, command, run>>

(* The deferred Close: the keepalive is cancelled, the connection closed. *)
Close ==
    /\ pc = "idle"
    /\ pc' = "closed"
    /\ client' = NoDial
    /\ link' = IF client = NoDial THEN link ELSE "closed"
    /\ sessions' = 0
    /\ UNCHANGED <<ctx, readable, runs, late, result, connecting, keepalive, failures, untried, asked,
                   asking, answers, command, run>>

Caller ==
    \/ NewClient \/ Stream \/ Connect \/ CheckDial \/ SelectDial \/ NewSession \/ CheckRequest
    \/ SelectRequest \/ Start \/ Run \/ Close
Remote == Output \/ ChannelClose \/ \E c \in Codes \union {0} : Exit(c)

Next ==
    \/ CtxDone \/ Timeout \/ Keepalive \/ LinkLost \/ SendRequest \/ Capture \/ CompleteStream
    \/ Caller \/ Remote
    \/ \E d \in Dials : Dial(d)

(* Goroutines run, timers fire and a command ends or its connection is lost; *)
(* nothing is assumed of dials and test requests.                            *)
Fairness ==
    /\ WF_vars(Caller) /\ WF_vars(Remote) /\ WF_vars(Timeout)
    /\ WF_vars(Capture) /\ WF_vars(CompleteStream) /\ WF_vars(Keepalive)

Spec == Init /\ [][Next]_vars /\ Fairness
-----------------------------------------------------------------------------
Error == [class : {"unset", "nil", "plain", "exec"}, code : Codes \union {0}]

TypeOK ==
    /\ ctx \in {"live", "done"} /\ readable \in BOOLEAN /\ late \in BOOLEAN
    /\ pc \in {"new", "idle", "connect", "check", "select", "session", "requestCheck",
               "requestSelect", "start", "wait", "closed"}
    /\ runs \in 0..MaxRuns /\ round \in 0..runs
    /\ dial \in [Dials -> {"off", "dialing", "connected", "failing", "ended"}]
    /\ started \in 0..MaxDials /\ ticking \in BOOLEAN
    /\ dialErrs \in [Rounds -> 0..DialErrCap]
    /\ client \in Dials \union {NoDial}
    /\ link \in {"none", "up", "lost", "closed"}
    /\ keepalive \in {"off", "running", "ended"} /\ failures \in 0..KeepaliveLimit
    /\ sessions \in 0..MaxSessions /\ untried \in 0..MaxRuns
    /\ asked \in 0..MaxRequests /\ asking \in 0..MaxRequests /\ answers \in 0..MaxRequests
    /\ remote \in {"off", "running", "ended", "closed"}
    /\ exit \in Codes \union {-1, 0} /\ out \in 0..Chunks /\ got \in 0..Chunks
    /\ reader \in {"off", "reading", "done"} /\ waiter \in {"off", "waiting", "done"}
    /\ errC \in Error /\ result \in Error

(* What Run returned is true of the command, in whatever order its exit      *)
(* status, its output and the end of the connection arrive: no error means   *)
(* that it exited with 0, and that all its output was read unless the        *)
(* connection was lost after the exit status had come; the code of a command *)
(* that failed is never replaced by another error.                           *)
RunResultIsTrue == pc = "idle" /\ waiter = "done" =>
    /\ result.class = "nil" => exit = 0 /\ got = out /\ (link = "up" => out = Chunks)
    /\ exit > 0 => result = ExecError(exit)

(* Sessions and connections are accounted for.  A session stays open after   *)
(* its Run only if its test requests failed; a connection no client uses is  *)
(* one whose dial nobody waits for, at most MaxDials for each Connect that   *)
(* failed and one less for one that did not; after Close no connection that  *)
(* was used is open.                                                         *)
Stranded(r) == {d \in Dials : d[1] = r /\ dial[d] = "connected"}
Accounted ==
    /\ pc = "idle" => sessions = untried
    /\ pc = "closed" => sessions = 0 /\ link \in {"none", "closed"}
    /\ client # NoDial => Cardinality(Stranded(client[1])) < MaxDials

(* The apply gets to its Close and past it, and the keepalive ends, whatever *)
(* the dials, the test requests and the context do.                          *)
AlwaysCloses == <>[](pc = "closed" /\ keepalive # "running" /\ reader # "reading" /\ waiter # "waiting")
=============================================================================
