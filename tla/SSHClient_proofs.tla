---------------------------- MODULE SSHClient_proofs ----------------------------
(***************************************************************************)
(* Proofs about the way a command goes to a host.  First one SSH client,   *)
(* for any number of Run calls, dials, test requests, sessions, chunks of  *)
(* output and exit codes.  Then the transport that a request resolves and  *)
(* sends back to core, for any number of resources, rounds and blocks that *)
(* are of the form core sends.  Last the two files that a create of a      *)
(* Vault writes, which hold all that was configured for it.                *)
(***************************************************************************)
EXTENDS SSHClient, EmbeddedTransport, FiniteSetTheorems, TLAPS

(* Where the caller is before the command of a Run was started. *)
Preparing == {"new", "connect", "check", "select", "session", "requestCheck", "requestSelect", "start"}

(* The command of this Run and what is known of it.  The channel closes     *)
(* after the last output, with the connection or because the command was    *)
(* refused; the error is made when it is closed, the reader is done when    *)
(* everything was read.                                                     *)
CommandInv ==
    /\ exit \in Codes \union {-1, 0}
    /\ waiter \in {"off", "waiting", "done"}
    /\ waiter = "off" => remote = "off" /\ reader = "off" /\ errC = Unset
    /\ waiter # "done" => errC = Unset
    /\ waiter = "done" => remote = "closed" /\ errC # Unset
    /\ remote = "off" => exit = -1
    /\ remote = "closed" /\ link = "up" => out = Chunks \/ exit = -1
    /\ reader = "done" => remote = "closed" /\ got = out

(* The caller is where its command is. *)
CallerInv ==
    /\ pc \in Preparing => waiter = "off"
    /\ pc = "wait" => waiter # "off"
    /\ waiter = "waiting" => pc = "wait"
    /\ pc = "idle" /\ waiter # "off" => waiter = "done" /\ reader = "done" /\ result = errC

(* The error is the command's own. *)
ErrInv == waiter = "done" =>
    /\ errC.class = "nil" => exit = 0
    /\ exit > 0 => errC = ExecError(exit)

RunInv == CommandInv /\ CallerInv /\ ErrInv

(* How many sessions are open beside those whose test requests failed. *)
Trying == \/ pc \in {"requestCheck", "requestSelect", "start"}
          \/ pc = "wait" /\ waiter = "waiting"
SessionInv ==
    /\ sessions \in Nat /\ untried \in Nat
    /\ pc # "closed" => sessions = IF Trying THEN untried + 1 ELSE untried
    /\ pc \in {"new", "closed"} => sessions = 0

(* A connection belongs to the client, which is the dial it was taken from. *)
ClientInv ==
    /\ DOMAIN dial = Dials
    /\ client = NoDial => link \in {"none", "closed"}
    /\ client # NoDial => client \in Dials /\ dial[client] = "ended"
    /\ pc \in {"new", "connect", "check", "select", "closed"} => client = NoDial
-----------------------------------------------------------------------------
(***************************************************************************)
(* What a Run returns.                                                     *)
(***************************************************************************)

(* What the waiting goroutine sends is the command's own error. *)
LEMMA ErrorIsTheCommands ==
    ASSUME exit \in Codes \union {-1, 0}, NEW cleanup \in {NoErr, PlainErr}
    PROVE  LET err == Consolidated(Verdict, cleanup) IN
           /\ err # Unset
           /\ err.class = "nil" => exit = 0
           /\ exit > 0 => err = ExecError(exit)
<1>1. Codes \subseteq Nat \ {0}
  BY SSHClientAssumption
<1>2. CASE exit = 0
  BY <1>2 DEF Verdict, Consolidated, NoErr, PlainErr, Unset
<1>3. CASE exit = -1
  <2>1. Verdict = PlainErr
    BY <1>3 DEF Verdict
  <2> QED
    BY <1>3, <2>1 DEF Consolidated, NoErr, PlainErr, Unset
<1>4. CASE exit \in Codes
  <2>1. exit > 0 /\ Verdict = ExecError(exit)
    BY <1>1, <1>4 DEF Verdict
  <2> QED
    BY <2>1 DEF Consolidated, NoErr, Unset, ExecError
<1> QED
  BY <1>2, <1>3, <1>4

LEMMA RunStays == ASSUME RunInv, [Next]_vars PROVE RunInv'
<1> USE DEF RunInv, CommandInv, CallerInv, ErrInv, Preparing, connecting, conn, session, command, run
<1>1. CASE CtxDone
  BY <1>1 DEF CtxDone
<1>2. CASE Timeout
  BY <1>2 DEF Timeout
<1>3. CASE Keepalive
  BY <1>3 DEF Keepalive
<1>4. CASE LinkLost
  BY <1>4 DEF LinkLost
<1>5. CASE SendRequest
  BY <1>5 DEF SendRequest
<1>6. CASE Capture
  BY <1>6 DEF Capture
<1>7. CASE CompleteStream
  <2>1. PICK cleanup \in {NoErr, PlainErr} : errC' = Consolidated(Verdict, cleanup)
    BY <1>7 DEF CompleteStream
  <2>2. /\ waiter = "waiting" /\ remote = "closed" /\ waiter' = "done"
        /\ UNCHANGED <<pc, result, link, remote, exit, out, got, reader>>
    BY <1>7 DEF CompleteStream
  <2>3. /\ errC' # Unset
        /\ errC'.class = "nil" => exit = 0
        /\ exit > 0 => errC' = ExecError(exit)
    BY <2>1, ErrorIsTheCommands
  <2>4. ErrInv'
    BY <2>2, <2>3
  <2> QED
    BY <2>2, <2>3, <2>4
<1>8. CASE NewClient
  BY <1>8 DEF NewClient
<1>9. CASE Stream
  BY <1>9 DEF Stream, Return
<1>10. CASE Connect
  BY <1>10 DEF Connect
<1>11. CASE CheckDial
  BY <1>11 DEF CheckDial, DialGivesUp, Return
<1>12. CASE SelectDial
  BY <1>12 DEF SelectDial, DialGivesUp, DialTick, TakeClient, Return
<1>13. CASE NewSession
  BY <1>13 DEF NewSession, Return
<1>14. CASE CheckRequest
  BY <1>14 DEF CheckRequest, RequestGivesUp, Return
<1>15. CASE SelectRequest
  BY <1>15 DEF SelectRequest, RequestGivesUp, RequestTick, TakeAnswer, Return
<1>16. CASE Start
  BY <1>16 DEF Start
<1>17. CASE Run
  BY <1>17 DEF Run, Return
<1>18. CASE Close
  BY <1>18 DEF Close
<1>19. CASE Output
  BY <1>19 DEF Output
<1>20. CASE ChannelClose
  BY <1>20 DEF ChannelClose
<1>21. ASSUME NEW c \in Codes \union {0}, Exit(c) PROVE RunInv'
  BY <1>21 DEF Exit
<1>22. ASSUME NEW d \in Dials, Dial(d) PROVE RunInv'
  BY <1>22 DEF Dial
<1>23. CASE UNCHANGED vars
  BY <1>23 DEF vars
<1> QED
  BY <1>1, <1>2, <1>3, <1>4, <1>5, <1>6, <1>7, <1>8, <1>9, <1>10, <1>11, <1>12, <1>13, <1>14,
     <1>15, <1>16, <1>17, <1>18, <1>19, <1>20, <1>21, <1>22, <1>23
     DEF Next, Caller, Remote

(* What Run returned is true of its command, in whatever order the exit     *)
(* status, the output and the end of the connection arrive and whatever     *)
(* became of the cleanup: no error means that it exited with 0 and that all *)
(* output that arrived was read, which is all there was unless the          *)
(* connection was lost; the code of a command that failed is never replaced. *)
THEOREM RunsAreTrue == Spec => []RunResultIsTrue
<1>1. Init => RunInv
  BY DEF Init, RunInv, CommandInv, CallerInv, ErrInv, Preparing
<1>2. ASSUME RunInv, [Next]_vars PROVE RunInv'
  BY <1>2, RunStays
<1>3. RunInv => RunResultIsTrue
  BY DEF RunInv, CommandInv, CallerInv, ErrInv, RunResultIsTrue
<1> QED
  BY <1>1, <1>2, <1>3, PTL DEF Spec
-----------------------------------------------------------------------------
(***************************************************************************)
(* What stays open.                                                        *)
(***************************************************************************)

LEMMA SessionsAdd == ASSUME SessionInv, RunInv, [Next]_vars PROVE SessionInv'
<1> USE DEF SessionInv, Trying, CommandInv, CallerInv, RunInv, Preparing, connecting, conn, session,
            command, run
<1>1. CASE CtxDone
  BY <1>1 DEF CtxDone
<1>2. CASE Timeout
  BY <1>2 DEF Timeout
<1>3. CASE Keepalive
  BY <1>3 DEF Keepalive
<1>4. CASE LinkLost
  BY <1>4 DEF LinkLost
<1>5. CASE SendRequest
  BY <1>5 DEF SendRequest
<1>6. CASE Capture
  BY <1>6 DEF Capture
<1>7. CASE CompleteStream
  BY <1>7 DEF CompleteStream
<1>8. CASE NewClient
  BY <1>8 DEF NewClient
<1>9. CASE Stream
  BY <1>9 DEF Stream, Return
<1>10. CASE Connect
  BY <1>10 DEF Connect
<1>11. CASE CheckDial
  BY <1>11 DEF CheckDial, DialGivesUp, Return
<1>12. CASE SelectDial
  BY <1>12 DEF SelectDial, DialGivesUp, DialTick, TakeClient, Return
<1>13. CASE NewSession
  BY <1>13 DEF NewSession, Return
<1>14. CASE CheckRequest
  BY <1>14 DEF CheckRequest, RequestGivesUp, Return
<1>15. CASE SelectRequest
  BY <1>15 DEF SelectRequest, RequestGivesUp, RequestTick, TakeAnswer, Return
<1>16. CASE Start
  BY <1>16 DEF Start
<1>17. CASE Run
  BY <1>17 DEF Run, Return
<1>18. CASE Close
  BY <1>18 DEF Close
<1>19. CASE Output
  BY <1>19 DEF Output
<1>20. CASE ChannelClose
  BY <1>20 DEF ChannelClose
<1>21. ASSUME NEW c \in Codes \union {0}, Exit(c) PROVE SessionInv'
  BY <1>21 DEF Exit
<1>22. ASSUME NEW d \in Dials, Dial(d) PROVE SessionInv'
  BY <1>22 DEF Dial
<1>23. CASE UNCHANGED vars
  BY <1>23 DEF vars
<1> QED
  BY <1>1, <1>2, <1>3, <1>4, <1>5, <1>6, <1>7, <1>8, <1>9, <1>10, <1>11, <1>12, <1>13, <1>14,
     <1>15, <1>16, <1>17, <1>18, <1>19, <1>20, <1>21, <1>22, <1>23
     DEF Next, Caller, Remote

LEMMA NoDialIsNone == NoDial \notin Dials
  BY DEF NoDial, Dials, Rounds

LEMMA ClientStays == ASSUME ClientInv, [Next]_vars PROVE ClientInv'
<1> USE DEF ClientInv, connecting, conn, session, command, run
<1>1. CASE CtxDone
  BY <1>1 DEF CtxDone
<1>2. CASE Timeout
  BY <1>2 DEF Timeout
<1>3. CASE Keepalive
  BY <1>3 DEF Keepalive
<1>4. CASE LinkLost
  BY <1>4 DEF LinkLost
<1>5. CASE SendRequest
  BY <1>5 DEF SendRequest
<1>6. CASE Capture
  BY <1>6 DEF Capture
<1>7. CASE CompleteStream
  BY <1>7 DEF CompleteStream
<1>8. CASE NewClient
  BY <1>8 DEF NewClient
<1>9. CASE Stream
  BY <1>9 DEF Stream, Return
<1>10. CASE Connect
  BY <1>10 DEF Connect
<1>11. CASE CheckDial
  BY <1>11 DEF CheckDial, DialGivesUp, Return
<1>12. CASE SelectDial
  <2>1. pc = "select" /\ client = NoDial
    BY <1>12 DEF SelectDial
  <2>2. CASE DialGivesUp
    BY <2>1, <2>2 DEF DialGivesUp, Return
  <2>3. CASE DialTick
    BY <2>1, <2>3 DEF DialTick
  <2>4. ASSUME NEW d \in Dials, TakeClient(d) PROVE ClientInv'
    BY <2>1, <2>4, NoDialIsNone DEF TakeClient
  <2> QED
    BY <1>12, <2>2, <2>3, <2>4 DEF SelectDial
<1>13. CASE NewSession
  BY <1>13 DEF NewSession, Return
<1>14. CASE CheckRequest
  BY <1>14 DEF CheckRequest, RequestGivesUp, Return
<1>15. CASE SelectRequest
  BY <1>15 DEF SelectRequest, RequestGivesUp, RequestTick, TakeAnswer, Return
<1>16. CASE Start
  BY <1>16 DEF Start
<1>17. CASE Run
  BY <1>17 DEF Run, Return
<1>18. CASE Close
  BY <1>18 DEF Close
<1>19. CASE Output
  BY <1>19 DEF Output
<1>20. CASE ChannelClose
  BY <1>20 DEF ChannelClose
<1>21. ASSUME NEW c \in Codes \union {0}, Exit(c) PROVE ClientInv'
  BY <1>21 DEF Exit
<1>22. ASSUME NEW d \in Dials, Dial(d) PROVE ClientInv'
  BY <1>22 DEF Dial
<1>23. CASE UNCHANGED vars
  BY <1>23 DEF vars
<1> QED
  BY <1>1, <1>2, <1>3, <1>4, <1>5, <1>6, <1>7, <1>8, <1>9, <1>10, <1>11, <1>12, <1>13, <1>14,
     <1>15, <1>16, <1>17, <1>18, <1>19, <1>20, <1>21, <1>22, <1>23
     DEF Next, Caller, Remote

(* Of the dials of the client's Connect one became the client. *)
LEMMA OneIsUsed ==
    ASSUME ClientInv, client # NoDial
    PROVE  Cardinality(Stranded(client[1])) < MaxDials
<1> DEFINE all == {client[1]} \X (1..MaxDials)
<1>1. MaxDials \in Nat \ {0} /\ client \in Dials /\ dial[client] = "ended"
  BY SSHClientAssumption DEF ClientInv
<1>2. IsFiniteSet(all) /\ Cardinality(all) = MaxDials
  <2>1. IsFiniteSet(1..MaxDials) /\ Cardinality(1..MaxDials) = MaxDials
    BY <1>1, FS_Interval
  <2>2. IsFiniteSet({client[1]}) /\ Cardinality({client[1]}) = 1
    BY FS_Singleton
  <2>3. IsFiniteSet(all) /\ Cardinality(all) = 1 * MaxDials
    BY <2>1, <2>2, FS_Product
  <2> QED
    BY <1>1, <2>3
<1>3. client \in all /\ Stranded(client[1]) \subseteq all \ {client}
  BY <1>1 DEF Stranded, Dials
<1> HIDE DEF all
<1>4. IsFiniteSet(all \ {client}) /\ Cardinality(all \ {client}) = MaxDials - 1
  BY <1>2, <1>3, FS_RemoveElement
<1>5. /\ IsFiniteSet(Stranded(client[1]))
      /\ Cardinality(Stranded(client[1])) <= Cardinality(all \ {client})
  BY <1>3, <1>4, FS_Subset
<1>6. Cardinality(Stranded(client[1])) \in Nat
  BY <1>5, FS_CardinalityType
<1> QED
  BY <1>1, <1>4, <1>5, <1>6

(* Between two Run calls the only sessions open are those whose test        *)
(* requests failed, after Close there is none and the connection is closed; *)
(* a Connect that found its client leaves fewer connections behind than it  *)
(* may start dials.                                                         *)
THEOREM NothingIsLost == Spec => []Accounted
<1>1. Init => RunInv /\ SessionInv /\ ClientInv
  BY DEF Init, RunInv, CommandInv, CallerInv, ErrInv, Preparing, SessionInv, ClientInv, Trying
<1>2. ASSUME RunInv, SessionInv, ClientInv, [Next]_vars
      PROVE  RunInv' /\ SessionInv' /\ ClientInv'
  BY <1>2, RunStays, SessionsAdd, ClientStays
<1>3. ASSUME RunInv, SessionInv, ClientInv PROVE Accounted
  <2>1. pc = "idle" => sessions = untried
    BY <1>3 DEF SessionInv, Trying
  <2>2. pc = "closed" => sessions = 0 /\ link \in {"none", "closed"}
    BY <1>3 DEF SessionInv, ClientInv
  <2> QED
    BY <1>3, <2>1, <2>2, OneIsUsed DEF Accounted
<1> QED
  BY <1>1, <1>2, <1>3, PTL DEF Spec
-----------------------------------------------------------------------------
(***************************************************************************)
(* The types of the client's variables.                                    *)
(***************************************************************************)

DialStates == {"off", "dialing", "connected", "failing", "ended"}

(* Where newSession may still fail. *)
Opening == {"connect", "check", "select", "session", "requestCheck", "requestSelect"}

(* What the types need beside themselves: a Connect belongs to a Run that    *)
(* no other Connect served, the keepalive ends at its limit, what was        *)
(* answered or is still to be was asked, and a Run leaves one session at     *)
(* most.                                                                     *)
CountInv ==
    /\ pc = "connect" => round < runs
    /\ pc \in {"check", "select"} => round > 0
    /\ keepalive = "running" => failures < KeepaliveLimit
    /\ asking + answers <= asked
    /\ untried <= runs /\ (pc \in Opening => untried < runs)

(* What the waiting goroutine sends is an error of Run. *)
LEMMA VerdictIsAnError ==
    ASSUME exit \in Codes \union {-1, 0}, NEW cleanup \in {NoErr, PlainErr}
    PROVE  Consolidated(Verdict, cleanup) \in Error
<1>1. Codes \subseteq Nat \ {0}
  BY SSHClientAssumption
<1>2. NoErr \in Error /\ PlainErr \in Error
  BY DEF Error, NoErr, PlainErr
<1>3. Verdict \in Error
  BY <1>1, <1>2 DEF Verdict, Error, ExecError
<1> QED
  BY <1>2, <1>3 DEF Consolidated

(* Every action keeps the variables in their sets. *)
LEMMA TypesStay ==
    ASSUME TypeOK, CountInv, SessionInv, CallerInv, CommandInv, [Next]_vars
    PROVE  TypeOK' /\ CountInv'
<1> USE DEF TypeOK, CountInv, Opening, DialStates, connecting, conn, session, command, run
<1>a. /\ MaxRuns \in Nat \ {0} /\ MaxDials \in Nat \ {0} /\ MaxRequests \in Nat \ {0}
      /\ KeepaliveLimit \in Nat \ {0} /\ MaxSessions \in Nat \ {0}
      /\ DialErrCap \in Nat /\ Chunks \in Nat
  BY SSHClientAssumption
<1> USE <1>a
<1>b. \A x \in {"dialing", "connected", "failing", "ended"}, d \in Dials :
          [dial EXCEPT ![d] = x] \in [Dials -> DialStates]
  OBVIOUS
<1>c. \A n \in 0..DialErrCap, r \in Rounds : [dialErrs EXCEPT ![r] = n] \in [Rounds -> 0..DialErrCap]
  OBVIOUS
<1>0. Unset \in Error /\ PlainErr \in Error
  BY DEF Error, Unset, PlainErr
<1>1. CASE CtxDone
  BY <1>1 DEF CtxDone
<1>2. CASE Timeout
  BY <1>2 DEF Timeout
<1>3. CASE Keepalive
  BY <1>3 DEF Keepalive
<1>4. CASE LinkLost
  BY <1>4 DEF LinkLost
<1>5. CASE SendRequest
  BY <1>5 DEF SendRequest
<1>6. CASE Capture
  BY <1>6 DEF Capture
<1>7. CASE CompleteStream
  <2>1. errC' \in Error
    BY <1>7, VerdictIsAnError DEF CompleteStream
  <2>2. sessions > 0
    BY <1>7 DEF CompleteStream, SessionInv, CallerInv, Trying
  <2> QED
    BY <1>7, <2>1, <2>2 DEF CompleteStream
<1>8. CASE NewClient
  BY <1>8 DEF NewClient
<1>9. CASE Stream
  BY <1>0, <1>9 DEF Stream, Return
<1>10. CASE Connect
  <2>1. round + 1 \in Rounds /\ <<round + 1, 1>> \in Dials
    BY <1>10 DEF Connect, Rounds, Dials
  <2>2. dial' \in [Dials -> DialStates]
    BY <1>b, <1>10, <2>1 DEF Connect
  <2>3. /\ pc = "connect" /\ pc' = "check" /\ late' \in BOOLEAN /\ round' = round + 1 /\ started' = 1
        /\ ticking' \in BOOLEAN
        /\ UNCHANGED <<ctx, readable, runs, result, dialErrs, conn, session, command, run>>
    BY Zenon, <1>10 DEF Connect
  <2> QED
    BY <2>2, <2>3
<1>11. ASSUME DialGivesUp, pc \in {"check", "select"}, UNCHANGED <<ctx, readable, runs, late, session, command, run>>
       PROVE  TypeOK' /\ CountInv'
  <2>1. dialErrs' \in [Rounds -> 0..DialErrCap]
    <3>1. round \in Rounds /\ 0 \in 0..DialErrCap
      BY <1>11 DEF Rounds
    <3> QED
      BY <1>c, <1>11, <3>1 DEF DialGivesUp
  <2>2. dial' \in [Dials -> DialStates]
    <3>1. \A d \in Dials : (IF d[1] = round /\ dial[d] = "failing" THEN "ended" ELSE dial[d])
                            \in DialStates
      OBVIOUS
    <3> QED
      BY <1>11, <3>1 DEF DialGivesUp
  <2>3. /\ ticking' \in BOOLEAN /\ pc' = "idle" /\ result' = PlainErr
        /\ UNCHANGED <<ctx, readable, runs, late, session, command, run, round, started, conn>>
    BY Zenon, <1>11 DEF DialGivesUp, Return
  <2> QED
    BY <1>0, <2>1, <2>2, <2>3
<1>12. CASE CheckDial
  <2>1. CASE DialGivesUp
    BY <1>11, <1>12, <2>1 DEF CheckDial
  <2>2. CASE ~DialGivesUp
    BY <1>12, <2>2 DEF CheckDial
  <2> QED
    BY <2>1, <2>2
<1>13. CASE SelectDial
  <2>1. CASE DialGivesUp
    BY <1>11, <1>13, <2>1 DEF SelectDial
  <2>2. CASE DialTick
    <3>1. <<round, started + 1>> \in Dials
      BY <1>13, <2>2 DEF DialTick, SelectDial, Rounds, Dials
    <3>2. dial' \in [Dials -> DialStates]
      BY <1>b, <2>2, <3>1 DEF DialTick
    <3> QED
      BY <1>13, <2>2, <3>2 DEF DialTick, SelectDial
  <2>3. ASSUME NEW d \in Dials, TakeClient(d) PROVE TypeOK' /\ CountInv'
    <3>1. dial' \in [Dials -> DialStates]
      BY <1>b, <2>3 DEF TakeClient
    <3>2. /\ ticking' \in BOOLEAN /\ client' = d /\ link' = "up" /\ keepalive' = "running" /\ failures' = 0
          /\ pc = "select" /\ pc' = "session"
          /\ UNCHANGED <<ctx, readable, runs, late, session, command, run, round, started, dialErrs, result>>
      BY Zenon, <1>13, <2>3 DEF TakeClient, SelectDial
    <3> QED
      BY <3>1, <3>2
  <2> QED
    BY <1>13, <2>1, <2>2, <2>3 DEF SelectDial
<1>14. CASE NewSession
  <2>1. /\ pc = "session" /\ late' \in BOOLEAN /\ answers' = 0
        /\ UNCHANGED <<ctx, readable, runs, untried, connecting, conn, command, run>>
    BY Zenon, <1>14 DEF NewSession
  <2>2. CASE /\ link = "up" /\ sessions < MaxSessions
             /\ pc' = "requestCheck" /\ sessions' = sessions + 1 /\ asked' = 1 /\ asking' = 1
             /\ UNCHANGED result
    BY <2>1, <2>2
  <2>3. CASE pc' = "idle" /\ result' = PlainErr /\ UNCHANGED <<sessions, asked, asking>>
    BY <1>0, <2>1, <2>3
  <2> QED
    BY <1>14, <2>2, <2>3 DEF NewSession, Return
<1>15. CASE CheckRequest
  BY <1>0, <1>15 DEF CheckRequest, RequestGivesUp, Return
<1>16. CASE SelectRequest
  BY <1>0, <1>16 DEF SelectRequest, RequestGivesUp, RequestTick, TakeAnswer, Return
<1>17. CASE Start
  BY <1>17 DEF Start
<1>18. CASE Run
  BY <1>18 DEF Run, Return
<1>19. CASE Close
  BY <1>19 DEF Close
<1>20. CASE Output
  BY <1>20 DEF Output
<1>21. CASE ChannelClose
  BY <1>21 DEF ChannelClose
<1>22. ASSUME NEW c \in Codes \union {0}, Exit(c) PROVE TypeOK' /\ CountInv'
  BY <1>22 DEF Exit
<1>23. ASSUME NEW d \in Dials, Dial(d) PROVE TypeOK' /\ CountInv'
  <2>1. d[1] \in Rounds
    BY DEF Dials
  <2>2. dial' \in [Dials -> DialStates]
    BY <1>b, <1>23 DEF Dial
  <2>3. dialErrs' \in [Rounds -> 0..DialErrCap]
    <3>1. dialErrs[d[1]] < DialErrCap => dialErrs[d[1]] + 1 \in 0..DialErrCap
      BY <2>1
    <3> QED
      BY <1>c, <1>23, <2>1, <3>1 DEF Dial
  <2>4. /\ ticking' \in BOOLEAN
        /\ UNCHANGED <<ctx, readable, pc, runs, late, result, round, started, conn, session, command, run>>
    BY <1>23 DEF Dial
  <2> QED
    BY <2>2, <2>3, <2>4
<1>24. CASE UNCHANGED vars
  BY <1>24 DEF vars
<1> QED
  BY <1>1, <1>2, <1>3, <1>4, <1>5, <1>6, <1>7, <1>8, <1>9, <1>10, <1>12, <1>13, <1>14,
     <1>15, <1>16, <1>17, <1>18, <1>19, <1>20, <1>21, <1>22, <1>23, <1>24
     DEF Next, Caller, Remote

(* The client's variables keep their types whatever the network, sshd and    *)
(* the timers do: no more dials, test requests and sessions than Connect,    *)
(* newSession and sshd allow, and a keepalive that stops at its limit.       *)
THEOREM ClientsAreTyped == Spec => []TypeOK
<1>1. Init => TypeOK /\ CountInv /\ RunInv /\ SessionInv
  <2> SUFFICES ASSUME Init PROVE TypeOK /\ CountInv /\ RunInv /\ SessionInv
    OBVIOUS
  <2>1. RunInv /\ SessionInv
    BY DEF Init, RunInv, CommandInv, CallerInv, ErrInv, Preparing, SessionInv, Trying
  <2>2. CountInv
    BY DEF Init, CountInv, Opening
  <2>3. late \in BOOLEAN /\ ticking \in BOOLEAN /\ readable \in BOOLEAN
    BY Zenon DEF Init
  <2>4. Unset \in Error
    BY DEF Error, Unset
  <2>5. dial \in [Dials -> DialStates]
    BY DEF Init, DialStates
  <2>6. dialErrs \in [Rounds -> 0..DialErrCap]
    BY SSHClientAssumption DEF Init
  <2> QED
    BY <2>1, <2>2, <2>3, <2>4, <2>5, <2>6, SSHClientAssumption DEF Init, TypeOK, DialStates
<1>2. ASSUME TypeOK, CountInv, RunInv, SessionInv, [Next]_vars
      PROVE  TypeOK' /\ CountInv' /\ RunInv' /\ SessionInv'
  BY <1>2, RunStays, SessionsAdd, TypesStay DEF RunInv
<1> QED
  BY <1>1, <1>2, PTL DEF Spec

-----------------------------------------------------------------------------
(* What the ways a holder of tftypes.go is filled, Set, FromTFValue and the  *)
(* makers of new ones, leave in it.                                          *)
LEMMA HolderOf ==
    ASSUME NEW t, NEW v, NEW w
    PROVE  /\ Set(New(t), v) = [k |-> t, Unknown |-> FALSE, Null |-> FALSE, Val |-> v]
           /\ w.s = "unknown" => Flag(New(t), w) = [k |-> t, Unknown |-> TRUE, Null |-> TRUE, Val |-> Empty]
           /\ w.s # "unknown" => Flag(New(t), w) = [k |-> t, Unknown |-> FALSE, Null |-> TRUE, Val |-> Empty]
<1>1. Set(New(t), v) = [k |-> t, Unknown |-> FALSE, Null |-> FALSE, Val |-> v]
  BY DEF Set, New
<1>2. ASSUME w.s = "unknown"
      PROVE  Flag(New(t), w) = [k |-> t, Unknown |-> TRUE, Null |-> TRUE, Val |-> Empty]
  BY Zenon, <1>2 DEF Flag, New
<1>3. ASSUME w.s # "unknown"
      PROVE  Flag(New(t), w) = [k |-> t, Unknown |-> FALSE, Null |-> TRUE, Val |-> Empty]
  BY Zenon, <1>3 DEF Flag, New
<1> QED
  BY <1>1, <1>2, <1>3

(* A scalar comes back from its holder. *)
LEMMA ScalarBack ==
    ASSUME NEW w, IsWire(w), ~HasValue(w) => w.v = Empty,
           NEW h, h = IF HasValue(w) THEN Set(New(w.t), w.v) ELSE Flag(New(w.t), w)
    PROVE  ScalarValue(h) = w
<1> USE DEF ScalarValue, IsWire, HasValue
<1>1. CASE w.s = "known"
  BY <1>1, HolderOf DEF Known
<1>2. CASE w.s = "unknown"
  <2>1. h = [k |-> w.t, Unknown |-> TRUE, Null |-> TRUE, Val |-> Empty]
    BY <1>2, HolderOf
  <2> QED
    BY <1>2, <2>1 DEF Unknown
<1>3. CASE w.s = "null"
  <2>1. h = [k |-> w.t, Unknown |-> FALSE, Null |-> TRUE, Val |-> Empty]
    BY <1>3, HolderOf
  <2> QED
    BY <1>3, <2>1 DEF Null
<1> QED
  BY <1>1, <1>2, <1>3

(* A string without a value comes back too: ToTFValue of a tfString. *)
LEMMA StringBack ==
    ASSUME NEW w, StringWire(w)
    PROVE  ScalarValue(StringFrom(New("string"), w)) = w
BY ScalarBack DEF StringWire, StringFrom

(* Numbers without a fraction are not changed. *)
LEMMA WholeNumber ==
    ASSUME NEW n \in Int, n % 10 = 0, InInt64(n)
    PROVE  Int64(n) = n
<1> DEFINE whole == IF n >= 0 THEN n - (n % 10) ELSE -((-n) - ((-n) % 10))
<1>1. whole = n
  <2>1. CASE n >= 0
    BY <2>1
  <2>2. CASE n < 0
    <3>1. (-n) % 10 = 0
      BY <2>2
    <3> QED
      BY <2>2, <3>1
  <2> QED
    BY <2>1, <2>2
<1> HIDE DEF whole
<1>2. Int64(n) = IF InInt64(whole) THEN whole ELSE IF n > 0 THEN 10 * MaxInt ELSE -10 * (MaxInt + 1)
  BY Zenon DEF Int64, whole
<1> QED
  BY <1>1, <1>2

(* Only the empty mapping has no names. *)
LEMMA EmptyMapping ==
    ASSUME NEW f, IsMapping(f)
    PROVE  f = Empty <=> DOMAIN f = {}
BY DEF IsMapping, Empty

(* A list or map of strings that is not empty comes back. *)
LEMMA CollectionBack ==
    ASSUME NEW w, FlatWire(w), FlatPlain(w), w.t \in Collections, HasValue(w),
           NEW h, h = Set(New(w.t), [a \in DOMAIN w.v |-> StringFrom(New("string"), w.v[a])])
    PROVE  CollectionValue(h) = w
<1>1. h = [k |-> w.t, Unknown |-> FALSE, Null |-> FALSE, Val |-> [a \in DOMAIN w.v |-> StringFrom(New("string"), w.v[a])]]
  BY Zenon, HolderOf
<1>2. w.v = [a \in DOMAIN w.v |-> w.v[a]] /\ \A a \in DOMAIN w.v : StringWire(w.v[a])
  BY DEF FlatWire, IsMapping
<1>3. DOMAIN w.v # {}
  <2>1. w.v # Empty
    BY DEF FlatPlain
  <2> QED
    BY Zenon, <1>2, <2>1, EmptyMapping DEF FlatWire
<1>4. \A a \in DOMAIN h.Val : ScalarValue(h.Val[a]) = w.v[a]
  BY <1>1, <1>2, StringBack
<1>5. CollectionValue(h) = Known(w.t, [a \in DOMAIN w.v |-> w.v[a]])
  BY <1>1, <1>3, <1>4 DEF CollectionValue
<1> QED
  BY <1>2, <1>5 DEF Known, FlatWire, IsWire, HasValue

(* A list or map of strings that is unknown or was not said comes back:      *)
(* ToTFValue of tfStringSlice and tfStringMap.                               *)
LEMMA NoCollectionBack ==
    ASSUME NEW w, IsWire(w), ~HasValue(w), w.v = Empty
    PROVE  CollectionValue(Flag(New(w.t), w)) = w
<1> DEFINE h == Flag(New(w.t), w)
<1> USE DEF CollectionValue, IsWire, HasValue
<1>2. CASE w.s = "unknown"
  <2>1. h = [k |-> w.t, Unknown |-> TRUE, Null |-> TRUE, Val |-> Empty]
    BY <1>2, HolderOf
  <2> HIDE DEF h
  <2>2. CollectionValue(h) = w
    BY <1>2, <2>1 DEF Unknown
  <2> QED
    BY <2>2 DEF h
<1>3. CASE w.s = "null"
  <2>1. h = [k |-> w.t, Unknown |-> FALSE, Null |-> TRUE, Val |-> Empty]
    BY <1>3, HolderOf
  <2> HIDE DEF h
  <2>2. CollectionValue(h) = w
    BY <1>3, <2>1 DEF Null
  <2> QED
    BY <2>2 DEF h
<1> QED
  BY <1>2, <1>3

(* What a holder is for. *)
LEMMA HolderKind ==
    ASSUME NEW t, NEW v, NEW w, NEW values
    PROVE  /\ Set(New(t), v).k = t
           /\ Flag(New(t), w).k = t
           /\ ObjectFrom(New(t), w, values).k = t
<1>1. Set(New(t), v).k = t
  BY DEF Set, New
<1>2. Flag(New(t), w).k = t
  BY HolderOf
<1>3. ObjectFrom(New(t), w, values).k = t
  <2>1. Set(New(t), values).k = t /\ Set(New(t), Empty).k = t
    BY DEF Set, New
  <2>2. [New(t) EXCEPT !.Unknown = TRUE].k = t
    BY DEF New
  <2>3. [New(t) EXCEPT !.Null = TRUE].k = t
    BY DEF New
  <2> QED
    BY <2>1, <2>2, <2>3 DEF ObjectFrom
<1> QED
  BY <1>1, <1>2, <1>3

(* An attribute that is no object comes back. *)
LEMMA FlatBack ==
    ASSUME NEW w, FlatWire(w), InnerPlain(w)
    PROVE  FlatValue(FlatFrom(w)) = w
<1>0. IsWire(w) /\ FlatPlain(w) /\ w.t \notin {"objects", "map"}
  BY DEF FlatWire, InnerPlain
<1>1. CASE w.t \in {"bool", "string"}
  <2>1. FlatFrom(w) = IF HasValue(w) THEN Set(New(w.t), w.v) ELSE Flag(New(w.t), w)
    BY <1>1 DEF FlatFrom, BoolFrom, StringFrom
  <2>2. FlatFrom(w).k = w.t
    BY <2>1, HolderKind
  <2>3. ~HasValue(w) => w.v = Empty
    BY <1>1 DEF FlatWire, Scalars
  <2> QED
    BY <1>0, <1>1, <2>1, <2>2, <2>3, ScalarBack DEF FlatValue, Scalars
<1>2. CASE w.t = "number"
  <2>1. HasValue(w) => <<Int64(w.v[1])>> = w.v
    BY <1>0, <1>2, WholeNumber DEF FlatWire, FlatPlain, Scalars
  <2>2. FlatFrom(w) = IF HasValue(w) THEN Set(New(w.t), w.v) ELSE Flag(New(w.t), w)
    BY <1>2, <2>1 DEF FlatFrom, NumFrom
  <2>3. FlatFrom(w).k = w.t
    BY <2>2, HolderKind
  <2>4. ~HasValue(w) => w.v = Empty
    BY <1>2 DEF FlatWire, Scalars
  <2> QED
    BY <1>0, <1>2, <2>2, <2>3, <2>4, ScalarBack DEF FlatValue, Scalars
<1>3. CASE w.t \in Collections /\ HasValue(w)
  <2>1. FlatFrom(w) = Set(New(w.t), [a \in DOMAIN w.v |-> StringFrom(New("string"), w.v[a])])
    BY <1>3 DEF FlatFrom, StringsFrom, StringMapFrom, Collections
  <2>2. FlatFrom(w).k = w.t
    BY <2>1, HolderKind
  <2> QED
    BY <1>0, <1>3, <2>1, <2>2, CollectionBack DEF FlatValue, Scalars, Collections
<1>4. CASE w.t \in Collections /\ ~HasValue(w)
  <2>1. FlatFrom(w) = Flag(New(w.t), w)
    BY <1>4 DEF FlatFrom, StringsFrom, StringMapFrom, Collections
  <2>2. FlatFrom(w).k = w.t
    BY <2>1, HolderKind
  <2>3. w.v = Empty
    BY <1>4 DEF FlatWire
  <2> QED
    BY <1>0, <1>4, <2>1, <2>2, <2>3, NoCollectionBack DEF FlatValue, Scalars, Collections
<1>5. CASE w.t \notin Scalars \union Collections
  <2>1. FlatFrom(w) = [New("raw") EXCEPT !.Val = <<w>>]
    BY <1>0, <1>5 DEF FlatFrom, Scalars, Collections
  <2>2. FlatFrom(w).k = "raw" /\ FlatFrom(w).Val = <<w>>
    BY <2>1 DEF New
  <2> QED
    BY <2>2 DEF FlatValue, Scalars
<1> QED
  BY <1>1, <1>2, <1>3, <1>4, <1>5 DEF Scalars

(* An object in an object comes back. *)
LEMMA NestedBack ==
    ASSUME NEW w, NestedWire(w), NestedPlain(w)
    PROVE  NestedValue(NestedFrom(w)) = w
<1>1. CASE w.t = "object"
  <2> DEFINE values == [a \in DOMAIN w.v |-> FlatFrom(w.v[a])]
             h == NestedFrom(w)
  <2>1. HasValue(w) /\ IsMapping(w.v) /\ DOMAIN w.v # {}
    BY Zenon, <1>1, EmptyMapping DEF NestedWire, NestedPlain
  <2>2. h = [k |-> "object", Unknown |-> FALSE, Null |-> FALSE, Val |-> values]
    BY Zenon, <1>1, <2>1, HolderOf DEF NestedFrom, ObjectFrom, HasValue
  <2>3. \A a \in DOMAIN w.v : FlatValue(values[a]) = w.v[a]
    BY <1>1, <2>1, FlatBack DEF NestedWire, NestedPlain
  <2>4. [a \in DOMAIN values |-> FlatValue(values[a])] = w.v
    <3>1. DOMAIN values = DOMAIN w.v
      OBVIOUS
    <3> HIDE DEF values
    <3> QED
      BY <2>1, <2>3, <3>1 DEF IsMapping
  <2> HIDE DEF values, h
  <2>5. NestedValue(h) = Known("object", w.v)
    <3>1. DOMAIN values = DOMAIN w.v
      BY DEF values
    <3> QED
      BY <2>1, <2>2, <2>4, <3>1 DEF NestedValue, ObjectValue
  <2> QED
    BY <1>1, <2>1, <2>5 DEF h, Known, NestedWire, FlatWire, IsWire, HasValue
<1>2. CASE w.t # "object"
  <2>1. NestedFrom(w) = FlatFrom(w)
    BY <1>2 DEF NestedFrom
  <2>2. FlatFrom(w).k # "object"
    <3>1. CASE w.t \in Scalars \union Collections
      BY Zenon, <3>1, HolderKind DEF FlatFrom, BoolFrom, NumFrom, StringFrom, StringsFrom, StringMapFrom, Scalars, Collections
    <3>2. CASE w.t \notin Scalars \union Collections
      <4>1. FlatFrom(w) = [New("raw") EXCEPT !.Val = <<w>>]
        BY <3>2 DEF FlatFrom, NestedPlain, InnerPlain, Scalars, Collections
      <4> QED
        BY <4>1 DEF New
    <3> QED
      BY <3>1, <3>2
  <2> QED
    BY <2>1, <2>2, FlatBack DEF NestedValue, NestedWire, NestedPlain
<1> QED
  BY <1>1, <1>2

(* What an object holds comes back. *)
LEMMA HoldersBack ==
    ASSUME NEW w, ObjectWire(w), ObjectPlain(w), NEW h, h.Val = HoldersFrom(w)
    PROVE  NestedValues(h) = w.v
<1>1. IsMapping(w.v) /\ DOMAIN h.Val = DOMAIN w.v
  BY DEF ObjectWire, ObjectPlain, HoldersFrom
<1>2. \A a \in DOMAIN w.v : NestedValue(h.Val[a]) = w.v[a]
  BY NestedBack DEF ObjectWire, ObjectPlain, HoldersFrom
<1> QED
  BY <1>1, <1>2 DEF NestedValues, IsMapping

(* A block of any type comes back, as what it was. *)
LEMMA BlockBack ==
    ASSUME NEW w, AttrWire(w), Plain(w), IsDynamic(w)
    PROVE  BlockValue(BlockFrom(NewBlock, w)) = w
<1> DEFINE b == BlockFrom(NewBlock, w)
<1>0. IsWire(w)
  BY DEF AttrWire, FlatWire
<1>1. CASE HasValue(w)
  <2>1. ObjectWire(w) /\ ObjectPlain(w)
    BY <1>1 DEF AttrWire, FlatWire, Plain, IsDynamic
  <2>2. b = [Object |-> Set(New("object"), HoldersFrom(w)), Original |-> <<w>>]
    BY <1>1 DEF BlockFrom, ObjectFrom, NewBlock, HasValue
  <2>3. b.Object = [k |-> "object", Unknown |-> FALSE, Null |-> FALSE, Val |-> HoldersFrom(w)]
    BY <2>2, HolderOf
  <2>4. NestedValues(b.Object) = w.v
    BY <2>1, <2>3, HoldersBack
  <2>5. b.Original[1] = w /\ b.Original # Empty
    BY <2>2 DEF Empty
  <2> HIDE DEF b
  <2>6. Content(b) = w.v
    <3> DEFINE o == ObjectValue(b.Object, NestedValues(b.Object))
    <3> SUFFICES (IF HasValue(o) THEN o.v ELSE Empty) = w.v
      BY Zenon DEF Content
    <3>1. CASE DOMAIN b.Object.Val = {}
      <4>1. o = [Null("object") EXCEPT !.v = [a \in {} |-> Empty]]
        BY <2>3, <3>1 DEF ObjectValue
      <4>2. ~HasValue(o)
        BY <4>1 DEF Null, HasValue
      <4>3. IsMapping(w.v) /\ DOMAIN w.v = {}
        BY <2>1, <2>3, <3>1 DEF ObjectWire, HoldersFrom, ObjectPlain
      <4>4. w.v = Empty
        BY Zenon, <4>3, EmptyMapping
      <4> QED
        BY <4>2, <4>4
    <3>2. CASE DOMAIN b.Object.Val # {}
      <4>1. o = Known("object", w.v)
        BY <2>3, <2>4, <3>2 DEF ObjectValue
      <4> QED
        BY <4>1 DEF Known, HasValue
    <3> QED
      BY <3>1, <3>2
  <2>7. BlockValue(b) = Known(w.t, w.v)
    BY <2>5, <2>6 DEF BlockValue, Encode
  <2> QED
    BY <1>0, <1>1, <2>7 DEF b, Known, IsWire, HasValue
<1>2. CASE ~HasValue(w)
  <2>1. w.t = "dynamic" /\ w.v = Empty
    BY <1>2 DEF IsDynamic, Plain, ObjectPlain, AttrWire, FlatWire
  <2>2. CASE w.s = "unknown"
    <3>1. b = [NewBlock EXCEPT !.Object.Unknown = TRUE]
      BY <2>2 DEF BlockFrom
    <3>2. b.Original = Empty /\ b.Object.Unknown
      BY <3>1 DEF NewBlock, New
    <3> HIDE DEF b
    <3>3. BlockValue(b) = Unknown("dynamic")
      BY <3>2 DEF BlockValue
    <3> QED
      BY <1>0, <2>1, <2>2, <3>3 DEF b, Unknown, IsWire
  <2>3. CASE w.s = "null"
    <3>1. b = NewBlock
      BY <2>3 DEF BlockFrom
    <3>2. b.Original = Empty /\ ~b.Object.Unknown
      BY <3>1 DEF NewBlock, New
    <3> HIDE DEF b
    <3>3. BlockValue(b) = Null("dynamic")
      BY <3>2 DEF BlockValue
    <3> QED
      BY <1>0, <2>1, <2>3, <3>3 DEF b, Null, IsWire
  <2> QED
    BY <1>0, <1>2, <2>2, <2>3 DEF IsWire, HasValue
<1> QED
  BY <1>1, <1>2

(* A list of objects comes back. *)
LEMMA ObjectsBack ==
    ASSUME NEW w, AttrWire(w), Plain(w), w.t = "objects"
    PROVE  ObjectsValue(ObjectsFrom(New("objects"), w)) = w
<1> DEFINE h == ObjectsFrom(New("objects"), w)
<1>0. IsWire(w)
  BY DEF AttrWire, FlatWire
<1>1. CASE HasValue(w)
  <2> DEFINE elem(i) == ObjectFrom(New("object"), w.v[i], HoldersFrom(w.v[i]))
             values == [i \in DOMAIN w.v |-> elem(i)]
  <2>1. /\ IsMapping(w.v) /\ DOMAIN w.v # {}
        /\ \A i \in DOMAIN w.v : /\ w.v[i].t = "object" /\ ObjectWire(w.v[i]) /\ ObjectPlain(w.v[i])
                                 /\ w.v[i].v # Empty
    BY Zenon, <1>1, EmptyMapping DEF AttrWire, Plain
  <2>2. h = [k |-> "objects", Unknown |-> FALSE, Null |-> FALSE, Val |-> values]
    BY Zenon, <1>1, HolderOf DEF ObjectsFrom
  <2>3. ASSUME NEW i \in DOMAIN w.v
        PROVE  ObjectValue(elem(i), NestedValues(elem(i))) = w.v[i]
    <3>1. elem(i) = [k |-> "object", Unknown |-> FALSE, Null |-> FALSE, Val |-> HoldersFrom(w.v[i])]
      BY Zenon, <2>1, HolderOf DEF ObjectFrom, ObjectPlain, HasValue
    <3>2. NestedValues(elem(i)) = w.v[i].v
      BY <2>1, <3>1, HoldersBack
    <3>3. DOMAIN elem(i).Val # {}
      BY <2>1, <3>1, EmptyMapping DEF HoldersFrom, ObjectWire, ObjectPlain
    <3> HIDE DEF elem
    <3>4. ObjectValue(elem(i), NestedValues(elem(i))) = Known("object", w.v[i].v)
      BY <3>1, <3>2, <3>3 DEF ObjectValue
    <3> QED
      BY Zenon, <2>1, <3>4 DEF Known, ObjectWire, IsWire, ObjectPlain, HasValue
  <2>4. DOMAIN values = DOMAIN w.v /\ \A i \in DOMAIN w.v : values[i] = elem(i)
    OBVIOUS
  <2> HIDE DEF elem, values, h
  <2>5. [i \in DOMAIN values |-> ObjectValue(values[i], NestedValues(values[i]))] = w.v
    BY <2>1, <2>3, <2>4 DEF IsMapping
  <2>6. ObjectsValue(h) = Known("objects", w.v)
    BY <2>1, <2>2, <2>4, <2>5 DEF ObjectsValue
  <2> QED
    BY <1>0, <1>1, <2>6 DEF h, Known, IsWire, HasValue
<1>2. CASE ~HasValue(w)
  <2>1. h = Flag(New("objects"), w) /\ w.v = Empty
    BY <1>2 DEF ObjectsFrom, AttrWire, FlatWire
  <2>2. CASE w.s = "unknown"
    <3>1. h.Unknown
      BY <2>1, <2>2, HolderOf
    <3> HIDE DEF h
    <3>2. ObjectsValue(h) = Unknown("objects")
      BY <3>1 DEF ObjectsValue
    <3> QED
      BY <1>0, <2>1, <2>2, <3>2 DEF h, Unknown, IsWire
  <2>3. CASE w.s = "null"
    <3>1. ~h.Unknown /\ h.Null
      BY <2>1, <2>3, HolderOf
    <3> HIDE DEF h
    <3>2. ObjectsValue(h) = Null("objects")
      BY <3>1 DEF ObjectsValue
    <3> QED
      BY <1>0, <2>1, <2>3, <3>2 DEF h, Null, IsWire
  <2> QED
    BY <1>0, <1>2, <2>2, <2>3 DEF IsWire, HasValue
<1> QED
  BY <1>1, <1>2

(* An attribute of a resource comes back. *)
LEMMA AttrBack ==
    ASSUME NEW w, AttrWire(w), Plain(w)
    PROVE  EncodeAgain(w) = w
<1>1. CASE IsDynamic(w)
  <2>1. w.t # "objects"
    BY <1>1 DEF IsDynamic
  <2>2. EncodeAgain(w) = BlockValue(BlockFrom(NewBlock, w))
    BY <1>1, <2>1 DEF EncodeAgain, Decode
  <2> QED
    BY <1>1, <2>2, BlockBack
<1>2. CASE w.t = "objects"
  <2>1. ~IsDynamic(w)
    BY <1>2 DEF IsDynamic
  <2> QED
    BY <1>2, <2>1, ObjectsBack DEF EncodeAgain, Decode
<1>3. CASE ~IsDynamic(w) /\ w.t # "objects"
  <2>1. InnerPlain(w)
    BY <1>3 DEF IsDynamic, Plain, InnerPlain
  <2> QED
    BY <1>3, <2>1, FlatBack DEF EncodeAgain, Decode, AttrWire
<1> QED
  BY <1>1, <1>2, <1>3

(* The type of a stanza or a seal comes back. *)
LEMMA TypeBack ==
    ASSUME NEW w, FlatWire(w), TypePlain(w)
    PROVE  ScalarValue(StringFrom(New("string"), w)) = w
BY Zenon, StringBack DEF FlatWire, TypePlain, StringWire, Scalars

(* A listener or a storage comes back. *)
LEMMA StanzaBack ==
    ASSUME NEW w, NEW parts, StanzaWire(w), StanzaDecodes(parts, w), StanzaPlain(w)
    PROVE  StanzaValue(StanzaFrom(parts, w)) = w
<1> DEFINE s == StanzaFrom(parts, w)
<1>0. IsWire(w)
  BY DEF StanzaWire
<1>1. CASE HasValue(w)
  <2>1. /\ IsMapping(w.v) /\ DOMAIN w.v # {} /\ DOMAIN w.v \subseteq parts \union {"type"}
        /\ \A p \in DOMAIN w.v : AttrWire(w.v[p]) /\ (p # "type" => PartPlain(w.v[p]))
        /\ "type" \in DOMAIN w.v => TypePlain(w.v["type"])
    BY Zenon, <1>1, EmptyMapping DEF StanzaWire, StanzaDecodes, StanzaPlain
  <2>2. s.Raw = <<w>>
    BY <1>1 DEF StanzaFrom
  <2>3. \A p \in DOMAIN w.v : p # "type" => BlockValue(s.parts[p]) = w.v[p]
    <3> TAKE p \in DOMAIN w.v
    <3> HAVE p # "type"
    <3>1. s.parts[p] = BlockFrom(NewBlock, w.v[p])
      BY <1>1, <2>1 DEF StanzaFrom
    <3> HIDE DEF s
    <3> QED
      BY <2>1, <3>1, BlockBack DEF PartPlain
  <2>4. "type" \in DOMAIN w.v => ScalarValue(s.Type) = w.v["type"]
    <3> HAVE "type" \in DOMAIN w.v
    <3>1. s.Type = StringFrom(New("string"), w.v["type"])
      BY <1>1 DEF StanzaFrom
    <3> HIDE DEF s
    <3> QED
      BY <2>1, <3>1, TypeBack DEF AttrWire
  <2> HIDE DEF s
  <2>5. [p \in DOMAIN s.Raw[1].v |-> IF p = "type" THEN ScalarValue(s.Type) ELSE BlockValue(s.parts[p])] = w.v
    BY <2>1, <2>2, <2>3, <2>4 DEF IsMapping
  <2>6. s.Raw[1] = w /\ s.Raw # Empty
    BY <2>2 DEF Empty
  <2>7. StanzaValue(s) = Known(w.t, w.v)
    BY <2>1, <2>5, <2>6 DEF StanzaValue
  <2> QED
    BY <1>0, <1>1, <2>7 DEF s, Known, IsWire, HasValue
<1>2. CASE ~HasValue(w)
  <2>1. w = Null("dynamic")
    BY <1>0, <1>2 DEF StanzaWire, StanzaPlain, Null, IsWire, IsKnown, HasValue
  <2>2. s.Raw = Empty
    BY <1>2 DEF StanzaFrom
  <2> HIDE DEF s
  <2>3. StanzaValue(s) = Null("dynamic")
    BY <2>2 DEF StanzaValue
  <2> QED
    BY <2>1, <2>3 DEF s
<1> QED
  BY <1>1, <1>2

(* A seal comes back, its attributes as they came. *)
LEMMA SealBack ==
    ASSUME NEW w, SealWire(w), SealPlain(w)
    PROVE  ConfigBlockValue(ConfigBlockFrom(w)) = w
<1> DEFINE b == ConfigBlockFrom(w)
<1>0. IsWire(w) /\ w.t = "object"
  BY DEF SealWire, SealPlain
<1>1. CASE HasValue(w)
  <2> DEFINE attributes == w.v["attributes"]
  <2>1. /\ IsMapping(w.v) /\ DOMAIN w.v = {"type", "attributes"}
        /\ FlatWire(w.v["type"]) /\ TypePlain(w.v["type"]) /\ AttrWire(attributes)
        /\ HasValue(attributes) \/ attributes.t = "dynamic"
    BY <1>1 DEF SealWire, SealPlain, BlockType
  <2>2. /\ b.Type = StringFrom(New("string"), w.v["type"]) /\ ~b.Unknown /\ ~b.Null
        /\ b.Raw = IF HasValue(attributes) THEN <<attributes>> ELSE Empty
        /\ ~IsKnown(attributes) => b.Attrs.Unknown
        /\ attributes.s = "null" => ~b.Attrs.Unknown
    <3> DEFINE attrs == CASE ~IsKnown(attributes) -> [New("object") EXCEPT !.Unknown = TRUE]
                          [] attributes.s = "null" -> New("object")
                          [] OTHER -> ObjectFrom(New("object"), attributes, HoldersFrom(attributes))
    <3>1. b = [Type |-> StringFrom(New("string"), w.v["type"]), Attrs |-> attrs,
               Raw |-> IF HasValue(attributes) THEN <<attributes>> ELSE Empty,
               Unknown |-> FALSE, Null |-> FALSE]
      BY <1>1, <2>1 DEF ConfigBlockFrom
    <3>2. ~IsKnown(attributes) => attrs.Unknown
      <4> HAVE ~IsKnown(attributes)
      <4>1. attrs = [New("object") EXCEPT !.Unknown = TRUE]
        BY DEF IsKnown
      <4> QED
        BY <4>1 DEF New
    <3>3. attributes.s = "null" => ~attrs.Unknown
      <4> HAVE attributes.s = "null"
      <4>1. attrs = New("object")
        BY DEF IsKnown
      <4> QED
        BY <4>1 DEF New
    <3> HIDE DEF attrs, attributes
    <3> QED
      BY <3>1, <3>2, <3>3
  <2>3. ScalarValue(b.Type) = w.v["type"]
    BY <2>1, <2>2, TypeBack
  <2> DEFINE back == IF b.Raw # Empty THEN Encode(b.Raw[1], b.Raw[1].v)
                     ELSE IF b.Attrs.Unknown THEN Unknown("dynamic") ELSE Null("dynamic")
  <2>4. IsWire(attributes) /\ (~HasValue(attributes) => attributes.v = Empty)
    BY <2>1 DEF AttrWire, FlatWire
  <2> HIDE DEF b, attributes
  <2>5. back = attributes
    <3>1. CASE HasValue(attributes)
      BY <2>2, <2>4, <3>1 DEF Empty, Encode, Known, IsWire, HasValue
    <3>2. CASE attributes.s = "unknown"
      BY <2>1, <2>2, <2>4, <3>2 DEF Unknown, IsWire, HasValue, IsKnown
    <3>3. CASE attributes.s = "null"
      BY <2>1, <2>2, <2>4, <3>3 DEF Null, IsWire, HasValue
    <3> QED
      BY <2>4, <3>1, <3>2, <3>3 DEF IsWire, HasValue
  <2>6. ConfigBlockValue(b) = Known("object", [type |-> w.v["type"], attributes |-> attributes])
    BY <2>2, <2>3, <2>5 DEF ConfigBlockValue
  <2>7. [type |-> w.v["type"], attributes |-> attributes] = w.v
    BY <2>1 DEF IsMapping, attributes
  <2> QED
    BY <1>0, <1>1, <2>6, <2>7 DEF b, Known, IsWire, HasValue
<1>2. CASE ~HasValue(w)
  <2>1. w.v = BlockType
    BY <1>2 DEF SealPlain
  <2>2. b = [NewConfigBlock EXCEPT !.Unknown = ~IsKnown(w)]
    BY <1>2 DEF ConfigBlockFrom
  <2>3. b.Null /\ (b.Unknown <=> w.s = "unknown")
    BY Zenon, <2>2 DEF NewConfigBlock, IsKnown
  <2> HIDE DEF b
  <2>4. CASE w.s = "unknown"
    <3>1. ConfigBlockValue(b) = [Unknown("object") EXCEPT !.v = BlockType]
      BY <2>3, <2>4 DEF ConfigBlockValue
    <3> QED
      BY <1>0, <2>1, <2>4, <3>1 DEF b, Unknown, IsWire
  <2>5. CASE w.s = "null"
    <3>1. ConfigBlockValue(b) = [Null("object") EXCEPT !.v = BlockType]
      BY <2>3, <2>5 DEF ConfigBlockValue
    <3> QED
      BY <1>0, <2>1, <2>5, <3>1 DEF b, Null, IsWire
  <2> QED
    BY <1>0, <1>2, <2>4, <2>5 DEF IsWire, HasValue
<1> QED
  BY <1>1, <1>2

(* The seals come back, if none of them is the tertiary one.               *)
LEMMA SealsBack ==
    ASSUME NEW w, SealsWire(w), SealsDecode(w), SealsPlain(w)
    PROVE  SealsValue(SealsFrom(w)) = w
<1> DEFINE s == SealsFrom(w)
<1>0. IsWire(w)
  BY DEF SealsWire
<1>1. CASE HasValue(w)
  <2>1. /\ IsMapping(w.v) /\ DOMAIN w.v # {} /\ DOMAIN w.v \subseteq SealNames /\ "tertiary" \notin DOMAIN w.v
        /\ \A n \in DOMAIN w.v : SealWire(w.v[n]) /\ SealPlain(w.v[n])
    BY Zenon, <1>1, EmptyMapping DEF SealsWire, SealsDecode, SealsPlain
  <2>2. s.Raw = <<w>>
    BY <1>1 DEF SealsFrom
  <2>3. \A n \in DOMAIN w.v : ConfigBlockValue(s.blocks[EncodedSeal(n)]) = w.v[n]
    <3> TAKE n \in DOMAIN w.v
    <3>1. EncodedSeal(n) = n
      BY <2>1 DEF EncodedSeal
    <3>2. s.blocks[n] = ConfigBlockFrom(w.v[n])
      BY <1>1, <2>1 DEF SealsFrom
    <3> HIDE DEF s
    <3> QED
      BY <2>1, <3>1, <3>2, SealBack
  <2> HIDE DEF s
  <2>4. s.Raw[1] = w /\ s.Raw # Empty
    BY <2>2 DEF Empty
  <2>5. [n \in DOMAIN w.v |-> ConfigBlockValue(s.blocks[EncodedSeal(n)])] = w.v
    BY <2>1, <2>3 DEF IsMapping
  <2>6. SealsValue(s) = Known(w.t, w.v)
    BY <2>1, <2>4, <2>5 DEF SealsValue
  <2> QED
    BY <1>0, <1>1, <2>6 DEF s, Known, IsWire, HasValue
<1>2. CASE ~HasValue(w)
  <2>1. w = Null("dynamic")
    BY <1>0, <1>2 DEF SealsWire, SealsPlain, Null, IsWire, IsKnown, HasValue
  <2>2. s.Raw = Empty
    BY <1>2 DEF SealsFrom, NewSeals
  <2> HIDE DEF s
  <2>3. SealsValue(s) = Null("dynamic")
    BY <2>2 DEF SealsValue
  <2> QED
    BY <2>1, <2>3 DEF s
<1> QED
  BY <1>1, <1>2

(* The scalars of a configuration come back.                               *)
LEMMA ScalarsBack ==
    ASSUME NEW w, ConfigWire(w), HasValue(w), NEW a \in DOMAIN Scalar
    PROVE  ScalarValue(VaultConfigFrom(w).scalars[a]) = w.v[a]
<1> DEFINE h == VaultConfigFrom(w).scalars[a]
<1>1. a \in DOMAIN w.v /\ FlatWire(w.v[a]) /\ w.v[a].t = Scalar[a]
  BY DEF ConfigWire
<1>2. Scalar[a] \in {"bool", "string"}
  BY DEF Scalar
<1>3. h = IF HasValue(w.v[a]) THEN Set(New(w.v[a].t), w.v[a].v) ELSE Flag(New(w.v[a].t), w.v[a])
  <2>1. h = IF Scalar[a] = "bool" THEN BoolFrom(New(Scalar[a]), w.v[a]) ELSE StringFrom(New(Scalar[a]), w.v[a])
    BY <1>1 DEF VaultConfigFrom
  <2> HIDE DEF h
  <2> QED
    BY <1>1, <2>1 DEF BoolFrom, StringFrom
<1>4. IsWire(w.v[a]) /\ (~HasValue(w.v[a]) => w.v[a].v = Empty)
  BY <1>1, <1>2 DEF FlatWire, Scalars
<1> HIDE DEF h
<1>5. ScalarValue(h) = w.v[a]
  BY <1>3, <1>4, ScalarBack
<1> QED
  BY <1>5 DEF h

(* So does all of it.                                                      *)
LEMMA ConfigBack ==
    ASSUME NEW w, ConfigWire(w), HasValue(w), ConfigDecodes(w),
           StanzaPlain(w.v["listener"]), StanzaPlain(w.v["storage"]), PartPlain(w.v["telemetry"]),
           SealPlain(w.v["seal"]), SealsPlain(w.v["seals"])
    PROVE  VaultConfigValue(VaultConfigFrom(w)) = w
<1> DEFINE c == VaultConfigFrom(w)
           blocks == [listener |-> ListenerValue(c.listener), storage |-> StorageValue(c.storage),
                      seal |-> ConfigBlockValue(c.seal), seals |-> SealsValue(c.seals),
                      telemetry |-> BlockValue(c.telemetry)]
<1>0. IsWire(w) /\ w.t = "object" /\ IsMapping(w.v) /\ DOMAIN w.v = DOMAIN Scalar \union Blocks
  BY DEF ConfigWire
<1>1. /\ c.listener = ListenerFrom(w.v["listener"]) /\ c.storage = StorageFrom(w.v["storage"])
      /\ c.seal = ConfigBlockFrom(w.v["seal"]) /\ c.seals = SealsFrom(w.v["seals"])
      /\ c.telemetry = BlockFrom(NewBlock, w.v["telemetry"])
  BY <1>0 DEF VaultConfigFrom, Blocks
<1>2. ListenerValue(c.listener) = w.v["listener"]
  <2>1. StanzaWire(w.v["listener"]) /\ StanzaDecodes(ListenerParts, w.v["listener"])
    BY DEF ConfigWire, ConfigDecodes, ListenerDecodes
  <2> HIDE DEF c
  <2> QED
    BY <1>1, <2>1, StanzaBack DEF ListenerValue, ListenerFrom
<1>3. StorageValue(c.storage) = w.v["storage"]
  <2>1. StanzaWire(w.v["storage"]) /\ StanzaDecodes(StorageParts, w.v["storage"])
    BY DEF ConfigWire, ConfigDecodes, StorageDecodes
  <2> HIDE DEF c
  <2> QED
    BY <1>1, <2>1, StanzaBack DEF StorageValue, StorageFrom
<1>4. ConfigBlockValue(c.seal) = w.v["seal"]
  <2> HIDE DEF c
  <2> QED
    BY <1>1, SealBack DEF ConfigWire
<1>5. SealsValue(c.seals) = w.v["seals"]
  <2>1. SealsDecode(w.v["seals"])
    BY DEF ConfigDecodes
  <2> HIDE DEF c
  <2> QED
    BY <1>1, <2>1, SealsBack DEF ConfigWire
<1>6. BlockValue(c.telemetry) = w.v["telemetry"]
  <2> HIDE DEF c
  <2> QED
    BY <1>1, BlockBack DEF ConfigWire, PartPlain
<1>7. \A a \in DOMAIN Scalar : ScalarValue(c.scalars[a]) = w.v[a]
  BY ScalarsBack
<1> HIDE DEF c
<1>8. DOMAIN blocks = Blocks /\ \A a \in Blocks : blocks[a] = w.v[a]
  BY <1>2, <1>3, <1>4, <1>5, <1>6 DEF Blocks
<1>9. VaultConfigValue(c) = Known("object", [a \in DOMAIN Scalar \union DOMAIN blocks |->
                            IF a \in DOMAIN Scalar THEN ScalarValue(c.scalars[a]) ELSE blocks[a]])
  BY DEF VaultConfigValue
<1> HIDE DEF blocks
<1>10. VaultConfigValue(c) = Known("object", w.v)
  BY <1>0, <1>7, <1>8, <1>9 DEF IsMapping
<1> QED
  BY <1>0, <1>10 DEF c, Known, IsWire, HasValue

(* The configuration of an enos_vault_start comes back.                    *)
LEMMA VaultBack ==
    ASSUME NEW w, VaultWire(w), w.t = "vault", VaultDecodes(w), VaultPlain(w)
    PROVE  VaultAgain(w) = w
<1>1. VaultConfigValue(VaultConfigFrom(w.v.config)) = w.v.config
  BY ConfigBack DEF VaultWire, VaultDecodes, VaultPlain
<1>2. EncodeAgain(w.v.config_mode) = w.v.config_mode
  <2>1. w.v.config_mode.t = "string" /\ StringWire(w.v.config_mode)
    BY DEF VaultWire, StringWire
  <2>2. EncodeAgain(w.v.config_mode) = FlatValue(StringFrom(New("string"), w.v.config_mode))
    BY <2>1 DEF EncodeAgain, Decode, FlatFrom, IsDynamic
  <2>3. StringFrom(New("string"), w.v.config_mode).k = "string"
    BY HolderKind DEF StringFrom
  <2> QED
    BY <2>1, <2>2, <2>3, StringBack DEF FlatValue, Scalars
<1>3. EncodeAgain(w.v.environment) = w.v.environment
  <2>1. AttrWire(w.v.environment)
    BY DEF VaultWire, AttrWire
  <2> QED
    BY <2>1, AttrBack DEF VaultPlain
<1> QED
  BY <1>1, <1>2, <1>3 DEF VaultAgain, VaultWire, Known, IsWire, HasValue

(* The type a part of an object has once it was decoded and encoded: lists   *)
(* and maps are told by being one.                                           *)
Seen(t) == IF t = "objects" THEN "strings" ELSE IF t = "map" THEN "stringMap" ELSE t
Part(w) == <<Seen(w.t), {}>>

(* An attribute that is no object is not one either when it comes back, and  *)
(* its type depends on that of the value only.                               *)
LEMMA FlatType ==
    ASSUME NEW w, FlatWire(w), FlatDecodes(w)
    PROVE  /\ FlatFrom(w).k # "object"
           /\ FlatValue(FlatFrom(w)).t = Seen(w.t)
           /\ Seen(w.t) \notin {"object", "map"}
<1>1. CASE w.t \in Scalars \union Collections
  <2>1. FlatFrom(w).k = w.t
    BY Zenon, <1>1, HolderKind DEF FlatFrom, BoolFrom, NumFrom, StringFrom, StringsFrom, StringMapFrom, Scalars, Collections
  <2> QED
    BY <1>1, <2>1 DEF FlatValue, ScalarValue, CollectionValue, Unknown, Null, Known, Seen, Scalars, Collections
<1>2. CASE w.t \in {"objects", "map"}
  <2> DEFINE v == IF HasValue(w) THEN [a \in DOMAIN w.v |-> Set(New("string"), <<"">>)] ELSE Empty
  <2>1. FlatFrom(w) = Set(New(Seen(w.t)), v)
    BY <1>2 DEF FlatFrom, TakenForStrings, Seen
  <2> HIDE DEF v
  <2>2. FlatFrom(w).k = Seen(w.t)
    BY Zenon, <2>1, HolderKind
  <2> QED
    BY <1>2, <2>2 DEF FlatValue, CollectionValue, Unknown, Null, Known, Seen, Scalars
<1>3. CASE w.t = "dynamic"
  <2>1. FlatFrom(w) = [New("raw") EXCEPT !.Val = <<w>>]
    BY <1>3 DEF FlatFrom
  <2>2. FlatFrom(w).k = "raw" /\ FlatFrom(w).Val = <<w>>
    BY <2>1 DEF New
  <2> QED
    BY <1>3, <2>2 DEF FlatValue, Seen, Scalars
<1> QED
  BY <1>1, <1>2, <1>3 DEF FlatDecodes, Collections

(* So is the type of what a map of any type holds; an object that has a      *)
(* value keeps the names of its attributes.                                  *)
LEMMA NestedType ==
    ASSUME NEW w, NestedWire(w), NestedDecodes(w), w.t = "object" => HasValue(w)
    PROVE  EncodedType(NestedValue(NestedFrom(w))) =
                IF w.t = "object" THEN <<"object", {<<a, Part(w.v[a])>> : a \in DOMAIN w.v}>> ELSE Part(w)
<1>1. CASE w.t # "object"
  <2>1. FlatWire(w) /\ FlatDecodes(w)
    BY <1>1 DEF NestedWire, NestedDecodes
  <2>2. NestedValue(NestedFrom(w)) = FlatValue(FlatFrom(w))
    BY <1>1, <2>1, FlatType DEF NestedFrom, NestedValue
  <2> QED
    BY <1>1, <2>1, <2>2, FlatType DEF EncodedType, Part
<1>2. CASE w.t = "object"
  <2> DEFINE holders == [a \in DOMAIN w.v |-> FlatFrom(w.v[a])]
             values == [a \in DOMAIN w.v |-> FlatValue(FlatFrom(w.v[a]))]
             h == NestedFrom(w)
  <2>1. \A a \in DOMAIN w.v : FlatWire(w.v[a]) /\ FlatDecodes(w.v[a])
    BY <1>2 DEF NestedWire, NestedDecodes, FlatDecodes, Scalars
  <2>2. h = [k |-> "object", Unknown |-> FALSE, Null |-> FALSE, Val |-> holders]
    BY Zenon, <1>2, HolderOf DEF NestedFrom, ObjectFrom, HasValue
  <2>3. [a \in DOMAIN holders |-> FlatValue(holders[a])] = values
    OBVIOUS
  <2>4. DOMAIN holders = DOMAIN w.v /\ DOMAIN values = DOMAIN w.v
    OBVIOUS
  <2>5. \A a \in DOMAIN w.v : Shape(values[a]) = Part(w.v[a])
    <3> SUFFICES ASSUME NEW a \in DOMAIN w.v
                 PROVE  Shape(values[a]) = Part(w.v[a])
      OBVIOUS
    <3>1. values[a] = FlatValue(FlatFrom(w.v[a]))
      OBVIOUS
    <3>2. values[a].t = Seen(w.v[a].t) /\ values[a].t # "object"
      BY <2>1, <3>1, FlatType
    <3> HIDE DEF values
    <3> QED
      BY <3>2 DEF Shape, Part
  <2> HIDE DEF holders, values, h
  <2>6. CASE DOMAIN w.v = {}
    <3>1. NestedValue(h).t = "object" /\ ~HasValue(NestedValue(h))
      BY <2>2, <2>4, <2>6 DEF NestedValue, ObjectValue, Null, HasValue
    <3> QED
      BY <1>2, <2>6, <3>1 DEF EncodedType, h
  <2>7. CASE DOMAIN w.v # {}
    <3>1. NestedValue(h) = Known("object", values)
      BY <2>2, <2>3, <2>4, <2>7 DEF NestedValue, ObjectValue
    <3>2. {<<a, Shape(values[a])>> : a \in DOMAIN values} = {<<a, Part(w.v[a])>> : a \in DOMAIN w.v}
      BY <2>4, <2>5
    <3> QED
      BY <1>2, <3>1, <3>2 DEF EncodedType, Known, HasValue, h
  <2> QED
    BY <2>6, <2>7
<1> QED
  BY <1>1, <1>2

(* encodeTfObjectDynamicPseudoType: a map of any type whose objects all      *)
(* have values is encoded, if it holds anything.                             *)
LEMMA BlockPanics ==
    ASSUME NEW w, AttrWire(w), HasValue(w) => IsDynamic(w), Decodes(w), ~BlockEncodes(BlockFrom(NewBlock, w))
    PROVE  Gap(w)
<1> DEFINE b == BlockFrom(NewBlock, w)
           values == [a \in DOMAIN w.v |-> NestedValue(NestedFrom(w.v[a]))]
<1>1. HasValue(w)
  <2>1. b.Original # Empty
    BY DEF BlockEncodes
  <2> QED
    BY <2>1 DEF BlockFrom, NewBlock, HasValue, AttrWire, FlatWire, IsWire
<1>2. b.Original = <<w>> /\ b.Object = ObjectFrom(New("object"), w, HoldersFrom(w))
  BY <1>1 DEF BlockFrom, NewBlock, HasValue
<1>3. w.t = "map" /\ ~(Content(b) # Empty /\ OneElementType(Content(b)))
  BY <1>2 DEF BlockEncodes
<1>4. /\ IsMapping(w.v) /\ ObjectDecodes(w)
      /\ \A a \in DOMAIN w.v : NestedWire(w.v[a])
      /\ \A a, c \in DOMAIN w.v : SameType(w.v[a], w.v[c])
  BY <1>1, <1>3 DEF AttrWire, ObjectWire, Decodes, IsDynamic
<1>5. SUFFICES ASSUME w.v # Empty, \A a \in DOMAIN w.v : w.v[a].t = "object" => HasValue(w.v[a])
               PROVE  FALSE
  BY <1>1, <1>3 DEF Gap
<1>6. DOMAIN w.v # {}
  BY Zenon, <1>4, <1>5, EmptyMapping
<1>7. Content(b) = values
  <2>1. b.Object = Set(New("object"), HoldersFrom(w))
    BY <1>1, <1>2 DEF ObjectFrom, HasValue
  <2>2. b.Object = [k |-> "object", Unknown |-> FALSE, Null |-> FALSE, Val |-> HoldersFrom(w)]
    BY Zenon, <2>1, HolderOf
  <2>3. DOMAIN HoldersFrom(w) = DOMAIN w.v
    BY DEF HoldersFrom
  <2>4. NestedValues(b.Object) = values
    BY <2>2 DEF NestedValues, HoldersFrom
  <2> HIDE DEF b, values
  <2>5. ObjectValue(b.Object, NestedValues(b.Object)) = Known("object", values)
    BY <1>6, <2>2, <2>3, <2>4 DEF ObjectValue
  <2> QED
    BY <2>5 DEF Content, Known, HasValue
<1>8. ASSUME NEW a \in DOMAIN w.v, NEW c \in DOMAIN w.v
      PROVE  EncodedType(values[a]) = EncodedType(values[c])
  <2> DEFINE x == w.v[a]
             y == w.v[c]
  <2>1. NestedWire(x) /\ NestedDecodes(x) /\ NestedWire(y) /\ NestedDecodes(y) /\ SameType(x, y)
    BY <1>4 DEF ObjectDecodes
  <2>2. values[a] = NestedValue(NestedFrom(x)) /\ values[c] = NestedValue(NestedFrom(y))
    OBVIOUS
  <2>3. (x.t = "object" => HasValue(x)) /\ (y.t = "object" => HasValue(y))
    BY <1>5
  <2> HIDE DEF x, y, values
  <2>4. x.t = "object" => {<<d, Part(x.v[d])>> : d \in DOMAIN x.v} = {<<d, Part(y.v[d])>> : d \in DOMAIN y.v}
    BY <2>1, <2>3 DEF SameType, Part
  <2> QED
    BY <2>1, <2>2, <2>3, <2>4, NestedType DEF SameType, Part
<1>9. DOMAIN values = DOMAIN w.v /\ values # Empty
  <2>1. DOMAIN values = DOMAIN w.v
    OBVIOUS
  <2> HIDE DEF values
  <2> QED
    BY <1>6, <2>1 DEF Empty
<1> HIDE DEF values
<1> QED
  BY <1>3, <1>7, <1>8, <1>9 DEF OneElementType

(* Of a stanza a part panics, or the stanza itself: vaultListenerConfig and  *)
(* vaultStorageConfig.                                                       *)
LEMMA StanzaPanics ==
    ASSUME NEW w, NEW parts, StanzaWire(w), StanzaDecodes(parts, w), ~StanzaEncodes(StanzaFrom(parts, w))
    PROVE  MapOfSeveral(w) \/ \E part \in PartsIn(w, parts) : Gap(part)
<1> DEFINE s == StanzaFrom(parts, w)
<1>1. HasValue(w)
  BY DEF StanzaEncodes, StanzaFrom
<1>2. s.Raw = <<w>> /\ \A p \in parts \cap DOMAIN w.v : s.parts[p] = BlockFrom(NewBlock, w.v[p])
  BY <1>1 DEF StanzaFrom
<1> HIDE DEF s
<1>3. /\ DOMAIN w.v \subseteq parts \union {"type"}
      /\ \A p \in DOMAIN w.v : AttrWire(w.v[p])
      /\ \A p \in DOMAIN w.v \ {"type"} : PartDecodes(w.v[p])
  BY <1>1 DEF StanzaWire, StanzaDecodes
<1>4. CASE \E p \in DOMAIN w.v \ {"type"} : ~BlockEncodes(s.parts[p])
  <2>1. PICK p \in DOMAIN w.v \ {"type"} : ~BlockEncodes(s.parts[p])
    BY <1>4
  <2>2. Gap(w.v[p])
    BY <1>2, <1>3, <2>1, BlockPanics DEF PartDecodes
  <2>3. w.v[p] \in PartsIn(w, parts)
    BY <1>1, <1>3, <2>1 DEF PartsIn
  <2> QED
    BY <2>2, <2>3
<1>5. CASE w.t = "map" /\ ~OneElementType(StanzaValue(s).v)
  <2>1. PICK p, q \in DOMAIN StanzaValue(s).v : p # q
    BY <1>5 DEF OneElementType
  <2>2. DOMAIN w.v # {}
    <3>1. CASE DOMAIN w.v = {}
      <4>1. StanzaValue(s).v = Empty
        BY <1>2, <3>1 DEF StanzaValue, Null
      <4> QED
        BY <2>1, <4>1 DEF Empty
    <3> QED
      BY <3>1
  <2>3. s.Raw # Empty
    BY <1>2 DEF Empty
  <2>4. DOMAIN StanzaValue(s).v = DOMAIN w.v
    BY <1>2, <2>2, <2>3 DEF StanzaValue, Known
  <2> QED
    BY <1>1, <1>5, <2>1, <2>4 DEF MapOfSeveral
<1> QED
  BY <1>2, <1>4, <1>5 DEF StanzaEncodes, s

(* Of a seal its attributes.                                                 *)
LEMMA SealPanics ==
    ASSUME NEW w, ~ConfigBlockEncodes(ConfigBlockFrom(w))
    PROVE  \E part \in PartsIn(w, {"attributes"}) : Gap(part)
<1> DEFINE b == ConfigBlockFrom(w)
<1>1. b.Raw # Empty /\ b.Raw[1].t = "map" /\ b.Raw[1].v = Empty
  BY DEF ConfigBlockEncodes
<1>2. HasValue(w)
  <2>1. CASE ~HasValue(w)
    <3>1. b.Raw = Empty
      BY <2>1 DEF ConfigBlockFrom, NewConfigBlock
    <3> QED
      BY <1>1, <3>1
  <2> QED
    BY <2>1
<1>3. ~HasValue(Null("dynamic"))
  BY DEF Null, HasValue
<1>4. "attributes" \in DOMAIN w.v /\ HasValue(w.v["attributes"]) /\ b.Raw = <<w.v["attributes"]>>
  BY <1>1, <1>2, <1>3 DEF ConfigBlockFrom
<1> HIDE DEF b
<1> QED
  BY <1>1, <1>2, <1>4 DEF PartsIn, Gap

(* Of the seals the attributes of one, or all of them: vaultSealsConfig.     *)
LEMMA SealsPanic ==
    ASSUME NEW w, SealsDecode(w), ~SealsEncode(SealsFrom(w))
    PROVE  \/ MapOfSeveral(w)
           \/ \E seal \in PartsIn(w, SealNames) : \E part \in PartsIn(seal, {"attributes"}) : Gap(part)
<1> DEFINE seals == SealsFrom(w)
<1>1. HasValue(w)
  BY DEF SealsEncode, SealsFrom, NewSeals
<1>2. /\ seals.Raw = <<w>> /\ DOMAIN w.v \subseteq SealNames
      /\ \A n \in SealNames : seals.blocks[n] = IF n \in DOMAIN w.v THEN ConfigBlockFrom(w.v[n]) ELSE NewConfigBlock
  BY <1>1 DEF SealsFrom, SealsDecode
<1> HIDE DEF seals
<1>3. CASE \E n \in DOMAIN w.v : ~ConfigBlockEncodes(seals.blocks[EncodedSeal(n)])
  <2>1. PICK n \in DOMAIN w.v : ~ConfigBlockEncodes(seals.blocks[EncodedSeal(n)])
    BY <1>3
  <2> DEFINE m == EncodedSeal(n)
  <2>2. m \in SealNames
    BY <1>2 DEF EncodedSeal, SealNames
  <2> HIDE DEF m
  <2>3. ConfigBlockEncodes(NewConfigBlock)
    BY DEF ConfigBlockEncodes, NewConfigBlock
  <2>4. m \in DOMAIN w.v /\ ~ConfigBlockEncodes(ConfigBlockFrom(w.v[m]))
    BY <1>2, <2>1, <2>2, <2>3 DEF m
  <2>5. w.v[m] \in PartsIn(w, SealNames)
    BY <1>1, <2>2, <2>4 DEF PartsIn
  <2> QED
    BY <2>4, <2>5, SealPanics
<1>4. CASE w.t = "map" /\ \E n, m \in DOMAIN w.v : n # m
  BY <1>1, <1>4 DEF MapOfSeveral
<1> QED
  BY <1>2, <1>3, <1>4 DEF SealsEncode, seals

(* The only maps whose encoding panics are those that MapsIn names.          *)
LEMMA EncodeCrash ==
    ASSUME NEW w, StateWire(w), StateAccepted(w), ~StateEncodes(w)
    PROVE  MapsIn(w.payload)
<1> DEFINE p == w.payload
           config == p.v.config
           c == VaultConfigFrom(config)
<1>1. CASE ~IsVault(p)
  <2>1. AttrWire(p) /\ Decodes(p) /\ IsDynamic(p) /\ ~BlockEncodes(BlockFrom(NewBlock, p))
    <3>1. AttrWire(p) /\ Decodes(p) /\ ~Encodes(p)
      BY <1>1 DEF StateWire, PayloadWire, StateAccepted, StateEncodes, IsVault
    <3>2. IsDynamic(p) => Decode(p) = BlockFrom(NewBlock, p)
      BY DEF Decode, IsDynamic
    <3> QED
      BY <3>1, <3>2 DEF Encodes
  <2>2. Gap(p)
    BY <2>1, BlockPanics
  <2> QED
    BY <1>1, <2>2 DEF MapsIn
<1>2. CASE IsVault(p)
  <2>1. ConfigWire(config) /\ ConfigDecodes(config) /\ ~ConfigEncodes(c)
    BY <1>2 DEF StateWire, PayloadWire, VaultWire, StateAccepted, VaultDecodes, StateEncodes, VaultEncodes, IsVault
  <2> HIDE DEF p
  <2>2. CASE ~HasValue(config)
    <3>1. /\ c.listener = ListenerFrom(Null("dynamic")) /\ c.storage = StorageFrom(Null("dynamic"))
          /\ c.seal = ConfigBlockFrom(Null("object")) /\ c.seals = SealsFrom(Null("dynamic"))
          /\ c.telemetry = BlockFrom(NewBlock, Null("dynamic"))
      BY <2>2 DEF VaultConfigFrom, Empty
    <3>2. ~HasValue(Null("dynamic")) /\ ~HasValue(Null("object")) /\ Null("dynamic").s = "null"
      BY DEF Null, HasValue
    <3> HIDE DEF c
    <3>3. StanzaEncodes(c.listener) /\ StanzaEncodes(c.storage)
      BY <3>1, <3>2 DEF StanzaEncodes, ListenerFrom, StorageFrom, StanzaFrom
    <3>4. ConfigBlockEncodes(c.seal)
      <4>1. c.seal.Raw = Empty
        BY <3>1, <3>2 DEF ConfigBlockFrom, NewConfigBlock
      <4> QED
        BY <4>1 DEF ConfigBlockEncodes
    <3>5. SealsEncode(c.seals)
      BY <3>1, <3>2 DEF SealsEncode, SealsFrom, NewSeals
    <3>6. BlockEncodes(c.telemetry)
      BY <3>1, <3>2 DEF BlockEncodes, BlockFrom, NewBlock
    <3> QED
      BY <2>1, <3>3, <3>4, <3>5, <3>6 DEF ConfigEncodes
  <2>3. CASE HasValue(config)
    <3>1. /\ c.listener = ListenerFrom(config.v["listener"]) /\ c.storage = StorageFrom(config.v["storage"])
          /\ c.seal = ConfigBlockFrom(config.v["seal"]) /\ c.seals = SealsFrom(config.v["seals"])
          /\ c.telemetry = BlockFrom(NewBlock, config.v["telemetry"])
      BY <2>1, <2>3 DEF VaultConfigFrom, ConfigWire, Blocks
    <3>2. /\ StanzaWire(config.v["listener"]) /\ StanzaDecodes(ListenerParts, config.v["listener"])
          /\ StanzaWire(config.v["storage"]) /\ StanzaDecodes(StorageParts, config.v["storage"])
          /\ SealsDecode(config.v["seals"])
          /\ AttrWire(config.v["telemetry"]) /\ PartDecodes(config.v["telemetry"])
      BY <2>1, <2>3 DEF ConfigWire, ConfigDecodes, ListenerDecodes, StorageDecodes
    <3> HIDE DEF c
    <3>3. /\ \A s \in {"listener", "storage", "seals"} : ~MapOfSeveral(config.v[s])
          /\ \A part \in AnyType(config.v) : ~Gap(part)
          => ConfigEncodes(c)
      <4> SUFFICES ASSUME \A s \in {"listener", "storage", "seals"} : ~MapOfSeveral(config.v[s]),
                          \A part \in AnyType(config.v) : ~Gap(part)
                   PROVE  ConfigEncodes(c)
        OBVIOUS
      <4>1. StanzaEncodes(c.listener)
        BY <3>1, <3>2, StanzaPanics DEF ListenerFrom, AnyType
      <4>2. StanzaEncodes(c.storage)
        BY <3>1, <3>2, StanzaPanics DEF StorageFrom, AnyType
      <4>3. ConfigBlockEncodes(c.seal)
        BY <3>1, SealPanics DEF AnyType
      <4>4. SealsEncode(c.seals)
        <5>1. \A seal \in PartsIn(config.v["seals"], SealNames) :
                 \A part \in PartsIn(seal, {"attributes"}) : part \in AnyType(config.v)
          BY DEF AnyType
        <5> QED
          BY <3>1, <3>2, <5>1, SealsPanic
      <4>5. BlockEncodes(c.telemetry)
        BY <3>1, <3>2, BlockPanics DEF AnyType, PartDecodes
      <4> QED
        BY <4>1, <4>2, <4>3, <4>4, <4>5 DEF ConfigEncodes
    <3> QED
      BY <1>2, <2>1, <2>3, <3>3 DEF MapsIn, p
  <2> QED
    BY <2>2, <2>3
<1> QED
  BY <1>1, <1>2

(* What decoding leaves: of a type either what createTransport made or     *)
(* what mapAttributesTo made of some attributes.                           *)
Decoded(T) ==
    /\ IsMapping(T) /\ DOMAIN T \subseteq TransportTypes
    /\ \A type \in DOMAIN T :
          \/ T[type] = createTransport(type)
          \/ /\ DOMAIN T[type].Values # {}
             /\ T[type] = mapAttributesTo(type, Known("object", T[type].Values))

(* What is decoded of one type.                                            *)
LEMMA BlockDecoded ==
    ASSUME NEW w, NEW type, BlockAccepted(type, w), NEW T, T = BlockFrom5(type, w)
    PROVE  IF HasValue(w) THEN /\ T.Values = w.v /\ DOMAIN T.Values # {}
                               /\ T = mapAttributesTo(type, Known("object", T.Values))
                          ELSE T = createTransport(type)
<1>1. CASE HasValue(w)
  <2>1. T = mapAttributesTo(type, w) /\ DOMAIN w.v # {}
    BY <1>1 DEF BlockFrom5, BlockAccepted, verifyConfiguration, IsKnown, HasValue
  <2>2. T.Values = w.v
    BY <2>1 DEF mapAttributesTo
  <2>3. mapAttributesTo(type, Known("object", w.v)) = mapAttributesTo(type, w)
    BY DEF mapAttributesTo, Known
  <2> QED
    BY <1>1, <2>1, <2>2, <2>3
<1>2. CASE ~HasValue(w)
  BY <1>2 DEF BlockFrom5
<1> QED
  BY <1>1, <1>2

(* What FromTerraform5Value leaves in the holders of transports that were    *)
(* empty: the types core names, each as TypeFrom decodes its block.          *)
LEMMA FromDecoded ==
    ASSUME NEW w, TransportsWire(w), TransportsAccepted(w), NEW T, T = TransportsFrom(NoTransports, w)
    PROVE  Decoded(T) /\ DOMAIN T = Types(w)
<1>1. CASE HasValue(w)
  <2>1. T = [type \in DOMAIN w.v |-> BlockFrom5(type, w.v[type])]
    BY <1>1 DEF TransportsFrom, NoTransports, Empty
  <2>2. DOMAIN w.v \subseteq TransportTypes /\ \A type \in DOMAIN w.v : BlockAccepted(type, w.v[type])
    BY <1>1 DEF TransportsAccepted
  <2>3. ASSUME NEW type \in DOMAIN w.v
        PROVE  \/ T[type] = createTransport(type)
               \/ /\ DOMAIN T[type].Values # {}
                  /\ T[type] = mapAttributesTo(type, Known("object", T[type].Values))
    <3>1. T[type] = BlockFrom5(type, w.v[type])
      BY <2>1
    <3> QED
      BY <2>2, <3>1, BlockDecoded
  <2> QED
    BY Zenon, <1>1, <2>1, <2>2, <2>3 DEF Decoded, Types, IsMapping
<1>2. CASE ~HasValue(w)
  <2>1. T = Empty /\ DOMAIN T = {}
    BY <1>2 DEF TransportsFrom, NoTransports, Empty
  <2> QED
    BY <1>2, <2>1, EmptyMapping DEF Decoded, Types, IsMapping, Empty
<1> QED
  BY <1>1, <1>2

(* What one type sends comes back to it.                                   *)
LEMMA TypeCopied ==
    ASSUME NEW type, NEW t,
           \/ t = createTransport(type)
           \/ DOMAIN t.Values # {} /\ t = mapAttributesTo(type, Known("object", t.Values))
    PROVE  BlockFrom5(type, TypeValue(type, t)) = t
<1>1. CASE t = createTransport(type)
  <2>1. t.Values = Empty
    BY <1>1 DEF createTransport
  <2>2. TypeValue(type, t) = [Unknown("object") EXCEPT !.v = [a \in Attributes(type) |-> Empty]]
    BY <2>1 DEF TypeValue
  <2>3. ~HasValue(TypeValue(type, t))
    BY <2>2 DEF Unknown, HasValue
  <2> QED
    BY <1>1, <2>3 DEF BlockFrom5
<1>2. CASE DOMAIN t.Values # {} /\ t = mapAttributesTo(type, Known("object", t.Values))
  <2>1. t.Values # Empty
    BY <1>2 DEF Empty
  <2>2. TypeValue(type, t) = Known("object", t.Values)
    BY <2>1 DEF TypeValue
  <2>3. HasValue(TypeValue(type, t))
    BY <2>2 DEF Known, HasValue
  <2> QED
    BY <1>2, <2>2, <2>3 DEF BlockFrom5
<1> QED
  BY <1>1, <1>2

(* A copy is what it was copied from, over what has no other types.        *)
LEMMA CopyBack ==
    ASSUME NEW T, Decoded(T), NEW R, R = NoTransports \/ R = T
    PROVE  TransportsFrom(R, TransportsValue(T)) = T
<1>1. CASE DOMAIN T = {}
  <2>1. T = Empty
    BY <1>1, EmptyMapping DEF Decoded
  <2>2. TransportsValue(T) = Null("dynamic")
    BY <1>1 DEF TransportsValue
  <2>3. ~HasValue(TransportsValue(T))
    BY <2>2 DEF Null, HasValue
  <2> QED
    BY <2>1, <2>3 DEF TransportsFrom, NoTransports
<1>2. CASE DOMAIN T # {}
  <2> DEFINE values == [type \in DOMAIN T |-> TypeValue(type, T[type])]
  <2>1. TransportsValue(T) = Known("object", values)
    BY <1>2 DEF TransportsValue
  <2>2. HasValue(TransportsValue(T)) /\ TransportsValue(T).v = values
    BY <2>1 DEF Known, HasValue
  <2>3. DOMAIN values = DOMAIN T /\ \A type \in DOMAIN T : BlockFrom5(type, values[type]) = T[type]
    BY TypeCopied DEF Decoded
  <2> HIDE DEF values
  <2>4. DOMAIN R \union DOMAIN values = DOMAIN T
    <3>1. DOMAIN NoTransports = {}
      BY DEF NoTransports, Empty
    <3> QED
      BY Zenon, <2>3, <3>1
  <2>5. TransportsFrom(R, TransportsValue(T)) = [type \in DOMAIN T |-> BlockFrom5(type, values[type])]
    BY <2>2, <2>3, <2>4 DEF TransportsFrom
  <2> QED
    BY <2>3, <2>5 DEF Decoded, IsMapping
<1> QED
  BY Zenon, <1>1, <1>2

(* The transports of a state come back, if they were determined.           *)
LEMMA TransportsBack ==
    ASSUME NEW w, TransportsWire(w), TransportsAccepted(w), Determined(w)
    PROVE  TransportsValue(TransportsFrom(NoTransports, w)) = w
<1> DEFINE T == TransportsFrom(NoTransports, w)
<1>0. IsWire(w)
  BY DEF TransportsWire
<1>1. CASE HasValue(w)
  <2>1. /\ IsMapping(w.v) /\ DOMAIN w.v # {} /\ w.t = "object"
        /\ \A type \in DOMAIN w.v :
              /\ w.v[type].t = "object" /\ BlockWire(w.v[type]) /\ BlockAccepted(type, w.v[type])
              /\ HasValue(w.v[type]) \/ (~IsKnown(w.v[type]) /\ DOMAIN w.v[type].v = Attributes(type))
    BY Zenon, <1>1, EmptyMapping DEF TransportsWire, TransportsAccepted, Determined
  <2>2. DOMAIN T = DOMAIN w.v /\ \A type \in DOMAIN w.v : T[type] = BlockFrom5(type, w.v[type])
    BY <1>1 DEF TransportsFrom, NoTransports, Empty
  <2> HIDE DEF T
  <2>3. ASSUME NEW type \in DOMAIN w.v
        PROVE  TypeValue(type, T[type]) = w.v[type]
    <3> DEFINE b == w.v[type]
    <3>0. BlockWire(b) /\ b.t = "object" /\ IsWire(b)
      BY Zenon, <2>1 DEF BlockWire
    <3>1. CASE HasValue(b)
      <4>1. T[type].Values = b.v /\ T[type].Values # Empty
        BY <2>1, <2>2, <3>1, BlockDecoded DEF Empty
      <4>2. TypeValue(type, T[type]) = Known("object", b.v)
        BY <4>1 DEF TypeValue
      <4> HIDE DEF b
      <4> QED
        BY <3>0, <3>1, <4>2 DEF b, Known, IsWire, HasValue
    <3>2. CASE ~HasValue(b)
      <4>1. T[type] = createTransport(type)
        BY <2>2, <3>2 DEF BlockFrom5
      <4>2. T[type].Values = Empty
        BY <4>1 DEF createTransport
      <4>3. TypeValue(type, T[type]) = [Unknown("object") EXCEPT !.v = [a \in Attributes(type) |-> Empty]]
        BY <4>2 DEF TypeValue
      <4>4. b.s = "unknown" /\ b.v = [a \in Attributes(type) |-> Empty]
        BY Zenon, <2>1, <3>2, <3>0 DEF BlockWire, IsKnown
      <4> HIDE DEF b
      <4> QED
        BY <3>0, <4>3, <4>4 DEF b, Unknown, IsWire
    <3> QED
      BY <3>1, <3>2
  <2>4. [type \in DOMAIN T |-> TypeValue(type, T[type])] = w.v
    BY <2>1, <2>2, <2>3 DEF IsMapping
  <2>5. TransportsValue(T) = Known("object", w.v)
    BY <2>1, <2>2, <2>4 DEF TransportsValue
  <2> QED
    BY <1>0, <1>1, <2>1, <2>5 DEF T, Known, IsWire, HasValue
<1>2. CASE ~HasValue(w)
  <2>1. w = Null("dynamic")
    BY <1>0, <1>2 DEF TransportsWire, Determined, Null, IsWire, IsKnown, HasValue
  <2>2. T = Empty /\ DOMAIN T = {}
    BY <1>2 DEF TransportsFrom, NoTransports, Empty
  <2> HIDE DEF T
  <2>3. TransportsValue(T) = Null("dynamic")
    BY <2>2 DEF TransportsValue
  <2> QED
    BY <2>1, <2>3 DEF T
<1> QED
  BY <1>1, <1>2

(* So does the state of a resource.                                        *)
LEMMA StateBack ==
    ASSUME NEW w, StateWire(w), StateAccepted(w), Determined(w.transport), PayloadPlain(w.payload)
    PROVE  StateValue(w) = w
<1>1. w # Empty
  <2>1. DOMAIN w # {}
    BY DEF StateWire
  <2> QED
    BY <2>1 DEF Empty
<1>2. TransportsValue(StateFrom(w).Transport) = w.transport
  BY <1>1, TransportsBack DEF StateFrom, StateWire, StateAccepted
<1>3. (IF IsVault(w.payload) THEN VaultAgain(w.payload) ELSE EncodeAgain(w.payload)) = w.payload
  BY VaultBack, AttrBack DEF StateWire, StateAccepted, PayloadWire, PayloadPlain, IsVault
<1> QED
  BY <1>2, <1>3 DEF StateValue, StateWire

(* What has a value can be worked with, once it is decoded: an attribute   *)
(* that is no object, an object in an object, an object and an attribute   *)
(* of a resource.                                                          *)
LEMMA FlatNative ==
    ASSUME NEW w, FlatWhole(w), FlatDecodes(w)
    PROVE  FlatGet(FlatFrom(w)) /\ FlatFrom(w).k # "object"
<1>1. w.t \in Scalars \union Collections \union {"objects", "map"}
  BY DEF FlatWhole, FlatDecodes, IsKnown, HasValue, Collections
<1>2. CASE w.t \in Scalars
  <2>1. PICK v : FlatFrom(w) = Set(New(w.t), v)
    BY <1>2 DEF FlatFrom, BoolFrom, NumFrom, StringFrom, FlatWhole, Scalars
  <2>2. FlatFrom(w) = [k |-> w.t, Unknown |-> FALSE, Null |-> FALSE, Val |-> v]
    BY Zenon, <2>1, HolderOf
  <2> QED
    BY <1>2, <2>2 DEF FlatGet, Get, Scalars
<1>3. CASE w.t \in Collections
  <2> DEFINE v == [a \in DOMAIN w.v |-> StringFrom(New("string"), w.v[a])]
  <2>1. FlatFrom(w) = Set(New(w.t), v)
    BY <1>3 DEF FlatFrom, StringsFrom, StringMapFrom, FlatWhole, Collections
  <2>2. FlatFrom(w) = [k |-> w.t, Unknown |-> FALSE, Null |-> FALSE, Val |-> v]
    BY Zenon, <2>1, HolderOf
  <2>3. \A a \in DOMAIN v : Get(v[a])
    <3> TAKE a \in DOMAIN v
    <3>1. v[a] = Set(New("string"), w.v[a].v)
      BY <1>3 DEF StringFrom, FlatWhole
    <3> HIDE DEF v
    <3> QED
      BY <3>1, HolderOf DEF Get
  <2> HIDE DEF v
  <2> QED
    BY <1>3, <2>2, <2>3 DEF FlatGet, GetStrings, Get, Scalars, Collections
<1>4. CASE w.t \in {"objects", "map"}
  <2> DEFINE v == [a \in DOMAIN w.v |-> Set(New("string"), <<"">>)]
             kind1 == IF w.t = "objects" THEN "strings" ELSE "stringMap"
  <2>1. FlatFrom(w) = Set(New(kind1), v)
    BY <1>4 DEF FlatFrom, TakenForStrings, FlatWhole, Scalars
  <2>2. FlatFrom(w) = [k |-> kind1, Unknown |-> FALSE, Null |-> FALSE, Val |-> v]
    BY Zenon, <2>1, HolderOf
  <2>3. \A a \in DOMAIN v : Get(v[a])
    <3> DEFINE h == Set(New("string"), <<"">>)
    <3>1. \A a \in DOMAIN v : v[a] = h
      OBVIOUS
    <3>2. h.Unknown = FALSE /\ h.Null = FALSE
      BY DEF Set
    <3> HIDE DEF v, h
    <3> QED
      BY <3>1, <3>2 DEF Get
  <2>4. kind1 \in Collections
    BY DEF Collections
  <2> HIDE DEF v, kind1
  <2> QED
    BY <2>2, <2>3, <2>4 DEF FlatGet, GetStrings, Get, Scalars, Collections
<1> QED
  BY <1>1, <1>2, <1>3, <1>4

(* The same of an object in an object, which dynamic pseudo types bring. *)
LEMMA NestedNative ==
    ASSUME NEW w, NestedWhole(w), NestedDecodes(w)
    PROVE  NestedGet(NestedFrom(w))
<1>0. HasValue(w)
  BY DEF NestedWhole, FlatWhole
<1>1. CASE w.t = "object"
  <2> DEFINE values == [a \in DOMAIN w.v |-> FlatFrom(w.v[a])]
  <2>1. NestedFrom(w) = [k |-> "object", Unknown |-> FALSE, Null |-> FALSE, Val |-> values]
    BY Zenon, <1>0, <1>1, HolderOf DEF NestedFrom, ObjectFrom, HasValue
  <2>2. \A a \in DOMAIN w.v : FlatGet(FlatFrom(w.v[a]))
    <3>1. \A a \in DOMAIN w.v : FlatWhole(w.v[a]) /\ FlatDecodes(w.v[a])
      BY <1>0, <1>1 DEF NestedWhole, NestedDecodes, FlatDecodes, Scalars
    <3> QED
      BY <3>1, FlatNative
  <2>3. \A a \in DOMAIN values : FlatGet(values[a])
    BY <2>2
  <2> HIDE DEF values
  <2> QED
    BY <2>1, <2>3 DEF NestedGet, Get
<1>2. CASE w.t # "object"
  <2>1. FlatDecodes(w)
    BY <1>0, <1>2 DEF NestedDecodes
  <2>2. NestedFrom(w) = FlatFrom(w)
    BY <1>2 DEF NestedFrom
  <2> QED
    BY <2>1, <2>2, FlatNative DEF NestedGet, NestedWhole
<1> QED
  BY <1>1, <1>2

(* The same of an object: GetObject of what FromTFValue left in a holder. *)
LEMMA ObjectNative ==
    ASSUME NEW w, ObjectWhole(w), ObjectDecodes(w), NEW h, Get(h), h.Val = HoldersFrom(w)
    PROVE  GetObject(h)
<1>1. \A a \in DOMAIN w.v : NestedGet(NestedFrom(w.v[a]))
  BY NestedNative DEF ObjectWhole, ObjectDecodes
<1> QED
  BY <1>1 DEF GetObject, HoldersFrom

(* The same of an attribute of a resource, a list of objects included. *)
LEMMA NativeOfWhole ==
    ASSUME NEW w, AttrWire(w), Decodes(w), Whole(w)
    PROVE  Native(w)
<1>0. HasValue(w)
  BY DEF Whole, FlatWhole
<1>1. CASE IsDynamic(w)
  <2>1. w.t \in {"object", "map"} /\ ObjectDecodes(w) /\ ObjectWhole(w)
    BY <1>0, <1>1 DEF Decodes, IsDynamic, AttrWire, FlatWire, Whole
  <2>2. Decode(w).Object = Set(New("object"), HoldersFrom(w))
    <3>1. Decode(w) = BlockFrom(NewBlock, w)
      BY <1>1, <2>1 DEF Decode
    <3>2. BlockFrom(NewBlock, w) = [Object |-> ObjectFrom(NewBlock.Object, w, HoldersFrom(w)), Original |-> <<w>>]
      BY <1>0 DEF BlockFrom, HasValue
    <3>3. ObjectFrom(NewBlock.Object, w, HoldersFrom(w)) = Set(New("object"), HoldersFrom(w))
      BY <1>0 DEF ObjectFrom, NewBlock, HasValue
    <3> QED
      BY <3>1, <3>2, <3>3
  <2>3. Get(Decode(w).Object) /\ Decode(w).Object.Val = HoldersFrom(w)
    BY <2>2, HolderOf DEF Get
  <2>4. GetObject(Decode(w).Object)
    BY <2>1, <2>3, ObjectNative
  <2>5. w.t # "objects"
    BY <2>1
  <2> QED
    BY <1>1, <2>4, <2>5 DEF Native
<1>2. CASE w.t = "objects"
  <2> DEFINE values == [i \in DOMAIN w.v |-> ObjectFrom(New("object"), w.v[i], HoldersFrom(w.v[i]))]
  <2>1. ~IsDynamic(w)
    BY <1>2 DEF IsDynamic
  <2>2. Decode(w) = Set(New("objects"), values)
    BY <1>0, <1>2, <2>1 DEF Decode, ObjectsFrom
  <2>3. Get(Decode(w)) /\ Decode(w).Val = values
    BY <2>2, HolderOf DEF Get
  <2>4. \A i \in DOMAIN w.v : GetObject(values[i])
    <3> TAKE i \in DOMAIN w.v
    <3>1. ObjectWhole(w.v[i]) /\ ObjectDecodes(w.v[i]) /\ HasValue(w.v[i])
      BY <1>0, <1>2 DEF Whole, Decodes, ObjectWhole
    <3>2. values[i] = Set(New("object"), HoldersFrom(w.v[i]))
      BY <3>1 DEF ObjectFrom, HasValue
    <3>3. Get(values[i]) /\ values[i].Val = HoldersFrom(w.v[i])
      BY <3>2, HolderOf DEF Get
    <3> HIDE DEF values
    <3> QED
      BY <3>1, <3>3, ObjectNative
  <2>5. DOMAIN values = DOMAIN w.v
    OBVIOUS
  <2> HIDE DEF values
  <2> QED
    BY <1>2, <2>1, <2>3, <2>4, <2>5 DEF Native, GetObjects
<1>3. CASE ~IsDynamic(w) /\ w.t # "objects"
  <2>1. FlatDecodes(w) \/ FlatGet(FlatFrom(w))
    <3>1. CASE w.t \in Scalars \union Collections
      BY <3>1 DEF FlatDecodes, Collections
    <3>2. CASE w.t \notin Scalars \union Collections
      <4>1. FlatFrom(w) = [New("raw") EXCEPT !.Val = <<w>>]
        BY <1>3, <3>2 DEF FlatFrom, IsDynamic, Scalars, Collections
      <4>2. FlatFrom(w).k = "raw"
        BY <4>1 DEF New
      <4> QED
        BY <4>2 DEF FlatGet, Scalars
    <3> QED
      BY <3>1, <3>2
  <2>2. FlatGet(FlatFrom(w))
    BY <2>1, FlatNative DEF Whole
  <2> QED
    BY <1>3, <2>2 DEF Native, Decode
<1> QED
  BY <1>1, <1>2, <1>3

(* What a holder of a string is after decoding w.                          *)
LEMMA StringHolder ==
    ASSUME NEW w, NEW h, h = StringFrom(New("string"), w)
    PROVE  /\ h.k = "string"
           /\ Get(h) <=> HasValue(w)
           /\ HasValue(w) => h.Val = w.v
<1>1. CASE HasValue(w)
  <2>1. h = [k |-> "string", Unknown |-> FALSE, Null |-> FALSE, Val |-> w.v]
    BY Zenon, <1>1, HolderOf DEF StringFrom
  <2> QED
    BY <1>1, <2>1 DEF Get
<1>2. CASE ~HasValue(w)
  <2>1. h = Flag(New("string"), w)
    BY <1>2 DEF StringFrom
  <2>2. h.Null /\ h.k = "string"
    BY <2>1, HolderOf
  <2> QED
    BY <1>2, <2>2 DEF Get
<1> QED
  BY <1>1, <1>2

(* The attributes of a decoded transport are what its block says.          *)
LEMMA SaidAttributes ==
    ASSUME NEW w, TransportsAccepted(w), NEW T, T = TransportsFrom(NoTransports, w),
           NEW type \in DOMAIN T
    PROVE  /\ T[type] = [Values |-> T[type].Values, attrs |-> T[type].attrs]
           /\ DOMAIN T[type].attrs = Attributes(type)
           /\ \A a \in Attributes(type) :
                 /\ T[type].attrs[a].k = "string"
                 /\ Get(T[type].attrs[a]) <=> Says(w, type, a)
                 /\ Says(w, type, a) => T[type].attrs[a].Val = w.v[type].v[a].v
<1> DEFINE b == w.v[type]
           t == T[type]
<1>1. HasValue(w) /\ type \in DOMAIN w.v /\ t = BlockFrom5(type, b)
  <2>1. HasValue(w)
    BY DEF TransportsFrom, NoTransports, Empty
  <2> QED
    BY <2>1 DEF TransportsFrom, NoTransports, Empty
<1>2. CASE HasValue(b)
  <2> DEFINE attrs == [a \in Attributes(type) |->
                        IF a \in DOMAIN b.v THEN StringFrom(createTransport(type).attrs[a], b.v[a])
                        ELSE createTransport(type).attrs[a]]
  <2>1. t = [Values |-> b.v, attrs |-> attrs]
    BY <1>1, <1>2 DEF BlockFrom5, mapAttributesTo
  <2>2. \A a \in Attributes(type) :
            attrs[a] = IF a \in DOMAIN b.v THEN StringFrom(New("string"), b.v[a]) ELSE New("string")
    BY DEF createTransport
  <2>3. DOMAIN attrs = Attributes(type)
    OBVIOUS
  <2> HIDE DEF attrs, t, b
  <2>4. ASSUME NEW a \in Attributes(type)
        PROVE  /\ attrs[a].k = "string"
               /\ Get(attrs[a]) <=> a \in DOMAIN b.v /\ HasValue(b.v[a])
               /\ a \in DOMAIN b.v /\ HasValue(b.v[a]) => attrs[a].Val = b.v[a].v
    <3>1. CASE a \in DOMAIN b.v
      BY <2>2, <3>1, StringHolder
    <3>2. CASE a \notin DOMAIN b.v
      BY <2>2, <3>2 DEF New, Get
    <3> QED
      BY <3>1, <3>2
  <2>5. \A a : Says(w, type, a) <=> a \in DOMAIN b.v /\ HasValue(b.v[a])
    BY <1>1, <1>2 DEF Says, b
  <2>6. t = [Values |-> t.Values, attrs |-> t.attrs] /\ t.attrs = attrs
    BY <2>1
  <2> QED
    BY <2>3, <2>4, <2>5, <2>6 DEF t, b
<1>3. CASE ~HasValue(b)
  <2>1. t = createTransport(type)
    BY <1>1, <1>3 DEF BlockFrom5
  <2>2. t = [Values |-> Empty, attrs |-> [a \in Attributes(type) |-> New("string")]]
    BY <2>1 DEF createTransport
  <2>3. \A a : ~Says(w, type, a)
    BY <1>3 DEF Says
  <2>4. \A a \in Attributes(type) : t.attrs[a].k = "string" /\ ~Get(t.attrs[a])
    BY <2>2 DEF New, Get
  <2> HIDE DEF t
  <2> QED
    BY <2>2, <2>3, <2>4 DEF t
<1> QED
  BY <1>2, <1>3

(* applyDefaults, attribute by attribute.                                  *)
LEMMA Defaulted ==
    ASSUME NEW defaults, NEW t, NEW R, R = applyDefaults(defaults, t),
           t = [Values |-> t.Values, attrs |-> t.attrs]
    PROVE  /\ DOMAIN R.attrs = DOMAIN t.attrs /\ R.Values = t.Values
           /\ \A a \in DOMAIN t.attrs :
                 IF Get(t.attrs[a]) \/ ~Get(defaults.attrs[a]) THEN R.attrs[a] = t.attrs[a]
                 ELSE Get(R.attrs[a]) /\ R.attrs[a].Val = defaults.attrs[a].Val
<1> DEFINE filled == [a \in DOMAIN t.attrs |->
                IF ~Get(t.attrs[a]) /\ Get(defaults.attrs[a])
                THEN StringFrom(t.attrs[a], ScalarValue(defaults.attrs[a])) ELSE t.attrs[a]]
<1>1. R = [t EXCEPT !.attrs = filled]
  BY DEF applyDefaults
<1>2. DOMAIN filled = DOMAIN t.attrs
      /\ \A a \in DOMAIN t.attrs : filled[a] =
                IF ~Get(t.attrs[a]) /\ Get(defaults.attrs[a])
                THEN StringFrom(t.attrs[a], ScalarValue(defaults.attrs[a])) ELSE t.attrs[a]
  OBVIOUS
<1> HIDE DEF filled
<1>3. R.attrs = filled /\ R.Values = t.Values
  BY <1>1
<1>4. ASSUME NEW a \in DOMAIN t.attrs, Get(defaults.attrs[a])
      PROVE  LET h == StringFrom(t.attrs[a], ScalarValue(defaults.attrs[a])) IN
             Get(h) /\ h.Val = defaults.attrs[a].Val
  <2>1. ScalarValue(defaults.attrs[a]) = Known(defaults.attrs[a].k, defaults.attrs[a].Val)
    BY <1>4 DEF ScalarValue, Get
  <2>2. HasValue(ScalarValue(defaults.attrs[a])) /\ ScalarValue(defaults.attrs[a]).v = defaults.attrs[a].Val
    BY <2>1 DEF Known, HasValue
  <2> QED
    BY <2>2 DEF StringFrom, Set, Get
<1> QED
  BY <1>2, <1>3, <1>4

(* A transport block with one type has the type that getConfiguredTransport  *)
(* takes.                                                                    *)
LEMMA OneType ==
    ASSUME NEW T, DOMAIN T \subseteq TransportTypes, One(T)
    PROVE  DOMAIN T = {OnlyType(T)} /\ OnlyType(T) \in TransportTypes
<1>1. IsFiniteSet(TransportTypes)
  <2>1. TransportTypes = {"ssh"} \union ({"kubernetes"} \union {"nomad"})
    BY DEF TransportTypes
  <2> QED
    BY Zenon, <2>1, FS_Singleton, FS_Union
<1>2. IsFiniteSet(DOMAIN T)
  BY <1>1, FS_Subset
<1>3. PICK x : DOMAIN T = {x}
  BY Zenon, <1>2, FS_Singleton DEF One
<1> QED
  BY <1>3 DEF OnlyType

(* The resolved transport T of a resource that wrote own, under a provider *)
(* that wrote defaults.                                                    *)
OwnElseDefault(own, defaults, T) ==
    LET type == OnlyType(T)
        attrs == T[type].attrs
    IN  /\ DOMAIN T = {type} /\ type \in TransportTypes
        /\ {type} = IF Types(own) # {} THEN Types(own) ELSE Types(defaults)
        /\ DOMAIN attrs = Attributes(type)
        /\ \A a \in Attributes(type) :
               IF Says(own, type, a) THEN Get(attrs[a]) /\ attrs[a].Val = own.v[type].v[a].v
               ELSE IF Says(defaults, type, a)
                    THEN Get(attrs[a]) /\ attrs[a].Val = defaults.v[type].v[a].v
                    ELSE ~Get(attrs[a])

(* ApplyDefaults does what its comment says.                               *)
LEMMA Resolved ==
    ASSUME NEW own, TransportsWire(own), TransportsAccepted(own),
           NEW defaults, TransportsWire(defaults), TransportsAccepted(defaults),
           NEW O, O = TransportsFrom(NoTransports, own),
           NEW D, D = TransportsFrom(NoTransports, defaults),
           Resolvable(O, D),
           NEW T, T = ApplyDefaults(O, D)
    PROVE  OwnElseDefault(own, defaults, T)
<1>1. /\ DOMAIN O = Types(own) /\ DOMAIN O \subseteq TransportTypes
      /\ DOMAIN D = Types(defaults) /\ DOMAIN D \subseteq TransportTypes
  BY FromDecoded DEF Decoded
<1> DEFINE type == OnlyType(T)
           Attrs(a) == T[type].attrs[a]
<1>2. CASE One(O)
  <2> DEFINE o == OnlyType(O)
  <2>1. DOMAIN O = {o} /\ o \in TransportTypes
    BY Zenon, <1>1, <1>2, OneType
  <2>2. DOMAIN T = DOMAIN O /\ T[o] = IF o \in DOMAIN D THEN applyDefaults(D[o], O[o]) ELSE O[o]
    BY <1>2, <2>1 DEF ApplyDefaults
  <2>3. type = o
    BY <2>2 DEF OnlyType
  <2> HIDE DEF type, o
  <2>4. /\ O[o] = [Values |-> O[o].Values, attrs |-> O[o].attrs]
        /\ DOMAIN O[o].attrs = Attributes(o)
        /\ \A a \in Attributes(o) :
                 /\ Get(O[o].attrs[a]) <=> Says(own, o, a)
                 /\ Says(own, o, a) => O[o].attrs[a].Val = own.v[o].v[a].v
    BY <2>1, SaidAttributes
  <2>5. CASE o \in DOMAIN D
    <3>1. /\ DOMAIN D[o].attrs = Attributes(o)
          /\ \A a \in Attributes(o) :
                 /\ Get(D[o].attrs[a]) <=> Says(defaults, o, a)
                 /\ Says(defaults, o, a) => D[o].attrs[a].Val = defaults.v[o].v[a].v
      BY <2>5, SaidAttributes
    <3>2. /\ DOMAIN T[o].attrs = DOMAIN O[o].attrs
          /\ \A a \in DOMAIN O[o].attrs :
                 IF Get(O[o].attrs[a]) \/ ~Get(D[o].attrs[a]) THEN T[o].attrs[a] = O[o].attrs[a]
                 ELSE Get(T[o].attrs[a]) /\ T[o].attrs[a].Val = D[o].attrs[a].Val
      BY <2>2, <2>4, <2>5, Defaulted
    <3>3. \A a \in Attributes(o) :
               IF Says(own, o, a) THEN Get(T[o].attrs[a]) /\ T[o].attrs[a].Val = own.v[o].v[a].v
               ELSE IF Says(defaults, o, a)
                    THEN Get(T[o].attrs[a]) /\ T[o].attrs[a].Val = defaults.v[o].v[a].v
                    ELSE ~Get(T[o].attrs[a])
      BY <2>4, <3>1, <3>2
    <3> QED
      BY <1>1, <2>1, <2>2, <2>3, <2>4, <3>2, <3>3 DEF OwnElseDefault, type
  <2>6. CASE o \notin DOMAIN D
    <3>1. \A a : ~Says(defaults, o, a)
      BY <1>1, <2>6 DEF Says, Types
    <3>2. \A a \in Attributes(o) :
               IF Says(own, o, a) THEN Get(T[o].attrs[a]) /\ T[o].attrs[a].Val = own.v[o].v[a].v
               ELSE ~Get(T[o].attrs[a])
      BY <2>2, <2>4, <2>6
    <3> QED
      BY <1>1, <2>1, <2>2, <2>3, <2>4, <2>6, <3>1, <3>2 DEF OwnElseDefault, type
  <2> QED
    BY <2>5, <2>6
<1>3. CASE ~One(O)
  <2> DEFINE d == OnlyType(D)
  <2>1. DOMAIN D = {d} /\ d \in TransportTypes /\ Types(own) = {}
    BY Zenon, <1>1, <1>3, OneType DEF Resolvable
  <2>2. T = [t \in {d} |-> applyDefaults(D[d], createTransport(d))]
    BY <1>3 DEF ApplyDefaults
  <2>3. DOMAIN T = {d} /\ type = d /\ T[d] = applyDefaults(D[d], createTransport(d))
    BY <2>2 DEF OnlyType
  <2> HIDE DEF type, d
  <2>4. \A a : ~Says(own, d, a)
    BY <2>1 DEF Says, Types
  <2>5. \A a \in Attributes(d) :
                 /\ Get(D[d].attrs[a]) <=> Says(defaults, d, a)
                 /\ Says(defaults, d, a) => D[d].attrs[a].Val = defaults.v[d].v[a].v
    BY <2>1, SaidAttributes
  <2> DEFINE new == createTransport(d)
  <2>6. /\ new = [Values |-> new.Values, attrs |-> new.attrs] /\ DOMAIN new.attrs = Attributes(d)
        /\ \A a \in Attributes(d) : ~Get(new.attrs[a])
    BY DEF createTransport, New, Get
  <2> HIDE DEF new
  <2>7. T[d] = applyDefaults(D[d], new)
    BY <2>3 DEF new
  <2>8. /\ DOMAIN T[d].attrs = DOMAIN new.attrs
        /\ \A a \in DOMAIN new.attrs :
                 IF Get(new.attrs[a]) \/ ~Get(D[d].attrs[a]) THEN T[d].attrs[a] = new.attrs[a]
                 ELSE Get(T[d].attrs[a]) /\ T[d].attrs[a].Val = D[d].attrs[a].Val
    BY <2>6, <2>7, Defaulted
  <2>9. \A a \in Attributes(d) :
               IF Says(defaults, d, a) THEN Get(T[d].attrs[a]) /\ T[d].attrs[a].Val = defaults.v[d].v[a].v
               ELSE ~Get(T[d].attrs[a])
    BY <2>5, <2>6, <2>8
  <2> QED
    BY <1>1, <2>1, <2>3, <2>4, <2>6, <2>8, <2>9 DEF OwnElseDefault, type
<1> QED
  BY <1>2, <1>3

(* The inductive invariant.                                                *)
Typed ==
    /\ kind \in Kinds /\ provider \in ProviderConfigs /\ conf \in [Resources -> kind.configs]
    /\ walk \in {"plan", "apply"} /\ server \in {"new", "up", "down", "crashed"}
    /\ crash \in {"no", "logs", "replace", "encode"} /\ (crash # "no" <=> server = "crashed")
    /\ due \in [Resources -> {"read", "validate", "plan", "apply", "done", "failed", "refused",
                        "inconsistent"}]
    /\ set \in [Resources -> BOOLEAN]
    /\ saved = [r \in Resources |-> saved[r]] /\ resolved = [r \in Resources |-> resolved[r]]
    /\ planned = [r \in Resources |-> planned[r]]
    /\ rounds \in 1..MaxRounds

Runs == server \in {"up", "crashed"}
Defaults == TransportsFrom(NoTransports, provider[walk].transport)
Shared ==
    /\ Runs => TransportsAccepted(provider[walk].transport) /\ pconf.Transport = Defaults
    /\ Runs => rconf.Transport \in {NoTransports, Defaults}
    /\ \A r \in Resources : set[r] => Runs /\ rconf.Transport = Defaults
    /\ ~Runs => pconf = newProviderConfig /\ rconf = newProviderConfig

Answered(r) ==
    /\ due[r] \in {"plan", "apply", "done", "refused", "inconsistent"} => StateAccepted(Written(r))
    /\ due[r] = "refused" => StateValue(Written(r)) # Written(r)
    /\ due[r] = "apply" =>
            walk = "apply" /\ planned[r] = Written(r) /\ StateValue(Written(r)) = Written(r)
    /\ due[r] = "read" => saved[r] # Empty

Kept(r) ==
    saved[r] # Empty =>
        /\ \E i \in DOMAIN ResourceConfigs : Same(ResourceConfigs[i].apply, saved[r])
        /\ StateAccepted(saved[r]) /\ StateValue(saved[r]) = saved[r]

OwnOf(r) == IF due[r] = "validate" THEN saved[r].transport ELSE Written(r).transport
ResolvedOf(r) ==
    resolved[r] # NoTransports => Runs /\ OwnElseDefault(OwnOf(r), provider[walk].transport, resolved[r])

Completed(r) ==
    walk = "apply" /\ due[r] = "done" =>
        /\ saved[r] = Written(r) /\ resolved[r] # NoTransports
        /\ ValidateType(OnlyType(resolved[r]), resolved[r][OnlyType(resolved[r])])

TransportInv ==
    /\ Typed /\ Shared /\ CrashesOnlyThere
    /\ \A r \in Resources : Answered(r) /\ Kept(r) /\ ResolvedOf(r) /\ Completed(r)

-----------------------------------------------------------------------------
(* No state that core sends is taken for the state of a resource that was    *)
(* not created.                                                              *)
LEMMA StateIsNotEmpty ==
    ASSUME NEW w, StateWire(w)
    PROVE  w # Empty
<1>1. DOMAIN w # {}
  BY DEF StateWire
<1> QED
  BY <1>1 DEF Empty

(* What a copy of the transports of a state is.                            *)
LEMMA OwnIs ==
    ASSUME NEW w, StateWire(w), StateAccepted(w)
    PROVE  /\ StateFrom(w).Transport = TransportsFrom(NoTransports, w.transport)
           /\ CopyTransports(StateFrom(w).Transport) = TransportsFrom(NoTransports, w.transport)
<1>1. StateFrom(w).Transport = TransportsFrom(NoTransports, w.transport)
  BY StateIsNotEmpty DEF StateFrom
<1>2. TransportsWire(w.transport) /\ TransportsAccepted(w.transport)
  BY DEF StateWire, StateAccepted
<1> QED
  BY <1>1, <1>2, FromDecoded, CopyBack DEF CopyTransports

(* What core sends in a walk is of the form it is assumed to have.         *)
LEMMA Sent ==
    ASSUME Typed
    PROVE  /\ TransportsWire(provider[walk].transport)
           /\ \A r \in Resources : conf[r] \in DOMAIN ResourceConfigs /\ StateWire(Written(r))
           /\ walk = "apply" => \A r \in Resources : Written(r) = ResourceConfigs[conf[r]]["apply"]
<1>1. TransportsWire(provider[walk].transport)
  BY WireAssumption DEF Typed
<1>2. ASSUME NEW r \in Resources
      PROVE  conf[r] \in DOMAIN ResourceConfigs /\ StateWire(Written(r))
  <2>1. conf[r] \in DOMAIN ResourceConfigs
    BY WireAssumption DEF Typed
  <2> QED
    BY <2>1, WireAssumption DEF Typed, Written
<1> QED
  BY <1>1, <1>2 DEF Written

(* What core has saved of a resource is a state it can send again. *)
LEMMA KeptWire ==
    ASSUME NEW r \in Resources, Kept(r), saved[r] # Empty
    PROVE  StateWire(saved[r])
BY WireAssumption DEF Kept, Same

(* A request works with the provider's block.                              *)
LEMMA ConfigIs ==
    ASSUME Typed, Shared, NEW r \in Resources, set[r]
    PROVE  GetProviderConfig = Defaults
<1>1. rconf.Transport = Defaults /\ TransportsAccepted(provider[walk].transport)
  BY DEF Shared
<1>2. Decoded(Defaults)
  BY <1>1, Sent, FromDecoded DEF Defaults
<1>3. CopyTransports(rconf.Transport) = Defaults
  BY <1>1, <1>2, CopyBack DEF CopyTransports
<1> QED
  BY <1>3 DEF GetProviderConfig, CopyConfig

(* Resolvable is what getConfiguredTransport's comment says.               *)
LEMMA ResolvableIs ==
    ASSUME NEW own, TransportsWire(own), TransportsAccepted(own),
           NEW defaults, TransportsWire(defaults), TransportsAccepted(defaults)
    PROVE  Resolvable(TransportsFrom(NoTransports, own), TransportsFrom(NoTransports, defaults))
                <=> SingleTransport(own, defaults)
<1> DEFINE O == TransportsFrom(NoTransports, own)
           D == TransportsFrom(NoTransports, defaults)
<1>1. DOMAIN O = Types(own) /\ DOMAIN D = Types(defaults)
  BY FromDecoded
<1>2. Cardinality({}) = 0
  BY FS_EmptySet
<1> HIDE DEF O, D
<1>3. Resolvable(O, D) <=> SingleTransport(own, defaults)
  BY <1>1, <1>2 DEF Resolvable, One, SingleTransport
<1> QED
  BY <1>3 DEF O, D

(* What a request works with is one transport. *)
LEMMA ResolvedIsOne ==
    ASSUME NEW own, NEW defaults, NEW T, OwnElseDefault(own, defaults, T)
    PROVE  T # NoTransports /\ DOMAIN T = IF Types(own) # {} THEN Types(own) ELSE Types(defaults)
<1>1. DOMAIN T # {}
  BY DEF OwnElseDefault
<1> QED
  BY <1>1 DEF NoTransports, Empty, OwnElseDefault

DueStates == {"read", "validate", "plan", "apply", "done", "failed", "refused", "inconsistent"}

(* A request on one resource leaves the rest of the invariant as it is.    *)
LEMMA RequestFrame ==
    ASSUME TransportInv, NEW r \in Resources,
           UNCHANGED <<kind, provider, conf, walk, pconf, rconf, rounds>>, server = "up",
           \/ server' = server /\ crash' = crash
           \/ server' = "crashed" /\ crash' \in {"logs", "replace", "encode"},
           due' = [due EXCEPT ![r] = due'[r]], due'[r] \in DueStates,
           set' = [set EXCEPT ![r] = set'[r]], set'[r] \in BOOLEAN, set'[r] => set[r],
           saved' = [saved EXCEPT ![r] = saved'[r]],
           resolved' = [resolved EXCEPT ![r] = resolved'[r]],
           planned' = [planned EXCEPT ![r] = planned'[r]],
           CrashesOnlyThere', Answered(r)', Kept(r)', ResolvedOf(r)', Completed(r)'
    PROVE  TransportInv'
<1>0. Typed /\ Shared
  BY DEF TransportInv
<1>1. Typed'
  BY <1>0 DEF Typed, DueStates
<1>2. Runs /\ Runs'
  BY DEF Runs
<1>3. Defaults' = Defaults
  BY DEF Defaults
<1>4. Shared'
  <2>1. \A q \in Resources : set'[q] => set[q]
    BY <1>0 DEF Typed
  <2> QED
    BY <1>0, <1>2, <1>3, <2>1 DEF Shared
<1>5. ASSUME NEW q \in Resources
      PROVE  (Answered(q) /\ Kept(q) /\ ResolvedOf(q) /\ Completed(q))'
  <2>1. CASE q = r
    BY <2>1
  <2>2. CASE q # r
    <3>1. due'[q] = due[q] /\ saved'[q] = saved[q] /\ resolved'[q] = resolved[q] /\ planned'[q] = planned[q]
      BY <1>0, <2>2 DEF Typed
    <3>2. Written(q)' = Written(q)
      BY DEF Written
    <3>3. Answered(q) /\ Kept(q) /\ ResolvedOf(q) /\ Completed(q)
      BY DEF TransportInv
    <3>4. Answered(q)' /\ Kept(q)' /\ Completed(q)'
      BY <3>1, <3>2, <3>3 DEF Answered, Kept, Completed
    <3>5. ResolvedOf(q)'
      <4>1. OwnOf(q)' = OwnOf(q)
        BY <3>1, <3>2 DEF OwnOf
      <4> QED
        BY <1>2, <3>1, <3>3, <4>1 DEF ResolvedOf
    <3> QED
      BY <3>4, <3>5
  <2> QED
    BY <2>1, <2>2
<1> QED
  BY <1>1, <1>4, <1>5 DEF TransportInv

(* The crashes that were explained stay explained.                         *)
LEMMA NoNewCrash ==
    ASSUME TransportInv, server = "up", crash' = crash
    PROVE  CrashesOnlyThere'
<1>1. crash = "no"
  BY DEF TransportInv, Typed
<1> QED
  BY <1>1 DEF CrashesOnlyThere

(* ReadResource answers with what was saved, whatever the other resource's   *)
(* requests did to the shared configuration.                                 *)
LEMMA ReadStep ==
    ASSUME TransportInv, NEW r \in Resources, Read(r)
    PROVE  TransportInv'
<1>0. Typed /\ Shared /\ Answered(r) /\ Kept(r) /\ server = "up" /\ set[r] /\ due[r] = "read"
  BY DEF TransportInv, Read, Handles
<1> DEFINE own == CopyTransports(StateFrom(saved[r]).Transport)
           w == saved[r].transport
<1>1. StateWire(saved[r]) /\ StateAccepted(saved[r]) /\ StateValue(saved[r]) = saved[r] /\ saved[r] # Empty
  BY <1>0, KeptWire DEF Answered, Kept
<1>2. own = TransportsFrom(NoTransports, w)
  BY <1>1, OwnIs
<1>3. GetProviderConfig = Defaults
  BY <1>0, ConfigIs
<1>4. TransportsWire(w) /\ TransportsAccepted(w) /\ TransportsWire(provider[walk].transport)
      /\ TransportsAccepted(provider[walk].transport) /\ Runs
  BY <1>0, <1>1, Sent DEF StateWire, StateAccepted, Shared, Runs
<1>5. /\ UNCHANGED <<kind, provider, conf, walk, pconf, rconf, rounds, planned, server, crash>>
      /\ due' = [due EXCEPT ![r] = due'[r]] /\ due'[r] \in {"failed", "validate"}
      /\ set' = [set EXCEPT ![r] = FALSE]
  BY <1>0 DEF Read, Answer, Typed
<1>6. saved' = saved
  <2>1. saved' = saved \/ saved' = [saved EXCEPT ![r] = StateValue(@)]
    BY DEF Read
  <2> QED
    BY <1>0, <1>1, <2>1 DEF Typed
<1>7. \/ resolved' = [resolved EXCEPT ![r] = NoTransports]
      \/ /\ due'[r] = "validate" /\ Resolvable(own, GetProviderConfig)
         /\ resolved' = [resolved EXCEPT ![r] = ApplyDefaults(own, GetProviderConfig)]
  BY <1>0 DEF Read, Resolve, Answer, Typed
<1> HIDE DEF own
<1>8. resolved' = [resolved EXCEPT ![r] = resolved'[r]]
  BY <1>0, <1>7 DEF Typed
<1>9. planned' = [planned EXCEPT ![r] = planned'[r]] /\ saved' = [saved EXCEPT ![r] = saved'[r]]
  BY Zenon, <1>0, <1>5, <1>6 DEF Typed
<1>10. Answered(r)' /\ Completed(r)' /\ Kept(r)'
  BY <1>0, <1>5, <1>6 DEF Answered, Completed, Kept
<1>11. ResolvedOf(r)'
  <2>1. CASE resolved' = [resolved EXCEPT ![r] = NoTransports]
    BY <1>0, <2>1 DEF ResolvedOf, Typed
  <2>2. CASE /\ due'[r] = "validate" /\ Resolvable(own, GetProviderConfig)
             /\ resolved' = [resolved EXCEPT ![r] = ApplyDefaults(own, GetProviderConfig)]
    <3>1. resolved'[r] = ApplyDefaults(own, Defaults) /\ Resolvable(own, Defaults)
      BY <1>0, <1>3, <2>2 DEF Typed
    <3>2. OwnElseDefault(w, provider[walk].transport, resolved'[r])
      BY <1>2, <1>4, <3>1, Resolved DEF Defaults
    <3>3. OwnOf(r)' = w
      BY <1>6, <2>2 DEF OwnOf
    <3> QED
      BY <1>4, <1>5, <3>2, <3>3 DEF ResolvedOf, Runs
  <2> QED
    BY <1>7, <2>1, <2>2
<1>12. CrashesOnlyThere'
  BY <1>0, <1>5, NoNewCrash
<1>13. due'[r] \in DueStates /\ set'[r] \in BOOLEAN /\ (set'[r] => set[r]) /\ set' = [set EXCEPT ![r] = set'[r]]
  BY <1>0, <1>5 DEF DueStates, Typed
<1> QED
  BY Zenon, <1>0, <1>5, <1>8, <1>9, <1>10, <1>11, <1>12, <1>13, RequestFrame

(* ValidateResourceTypeConfig fails on what it cannot decode, or answers     *)
(* nothing.                                                                  *)
LEMMA ValidateStep ==
    ASSUME TransportInv, NEW r \in Resources, Validate(r)
    PROVE  TransportInv'
<1>0. Typed /\ Shared /\ Answered(r) /\ Kept(r) /\ server = "up" /\ set[r] /\ due[r] = "validate"
  BY DEF TransportInv, Validate, Handles
<1>1. /\ UNCHANGED <<kind, provider, conf, saved, walk, pconf, rconf, rounds, planned, server, crash>>
      /\ due'[r] = (IF StateAccepted(Written(r)) THEN "plan" ELSE "failed")
      /\ due' = [due EXCEPT ![r] = due'[r]]
      /\ set' = [set EXCEPT ![r] = FALSE] /\ resolved' = [resolved EXCEPT ![r] = NoTransports]
  BY <1>0 DEF Validate, Answer, Resolve, Typed
<1>2. Written(r)' = Written(r)
  BY <1>1 DEF Written
<1>3. Answered(r)' /\ Completed(r)' /\ Kept(r)'
  BY <1>0, <1>1, <1>2 DEF Answered, Completed, Kept
<1>4. ResolvedOf(r)'
  BY <1>0, <1>1 DEF ResolvedOf, Typed
<1>5. CrashesOnlyThere'
  BY <1>0, <1>1, NoNewCrash
<1>6. /\ due'[r] \in DueStates /\ set'[r] \in BOOLEAN /\ (set'[r] => set[r]) /\ set' = [set EXCEPT ![r] = set'[r]]
      /\ resolved' = [resolved EXCEPT ![r] = resolved'[r]]
      /\ planned' = [planned EXCEPT ![r] = planned'[r]] /\ saved' = [saved EXCEPT ![r] = saved'[r]]
  BY Zenon, <1>0, <1>1 DEF DueStates, Typed
<1> QED
  BY Zenon, <1>0, <1>1, <1>3, <1>4, <1>5, <1>6, RequestFrame

(* SetProviderConfig copies the configuration of the provider, that a        *)
(* Configure left, for all resources of the type.                            *)
LEMMA SetStep ==
    ASSUME TransportInv, NEW r \in Resources, SetProviderConfig(r)
    PROVE  TransportInv'
<1>0. Typed /\ Shared /\ server = "up" /\ Runs
  BY DEF TransportInv, SetProviderConfig, Runs
<1>1. /\ UNCHANGED <<kind, provider, conf, saved, walk, server, crash, pconf, due, resolved, planned,
                     target, rounds>>
      /\ set' = [set EXCEPT ![r] = TRUE]
      /\ rconf' = ConfigFrom(rconf, ConfigValue(pconf))
  BY DEF SetProviderConfig
<1>2. rconf'.Transport = Defaults
  <2>1. Decoded(Defaults) /\ pconf.Transport = Defaults /\ rconf.Transport \in {NoTransports, Defaults}
    BY <1>0, Sent, FromDecoded DEF Shared, Defaults
  <2> DEFINE w == TransportsValue(pconf.Transport)
  <2>2. IsKnown(w)
    BY DEF TransportsValue, IsKnown, Null, Known
  <2>3. ConfigValue(pconf).transport = w
    BY DEF ConfigValue
  <2>4. rconf'.Transport = TransportsFrom(rconf.Transport, w)
    BY <1>1, <2>2, <2>3 DEF ConfigFrom
  <2> QED
    BY <2>1, <2>4, CopyBack
<1>3. Typed'
  BY <1>0, <1>1 DEF Typed
<1>4. Shared'
  <2>1. Runs' /\ Defaults' = Defaults
    BY <1>0, <1>1 DEF Runs, Defaults
  <2> QED
    BY <1>0, <1>1, <1>2, <2>1 DEF Shared
<1>5. ASSUME NEW q \in Resources
      PROVE  (Answered(q) /\ Kept(q) /\ ResolvedOf(q) /\ Completed(q))'
  <2>1. Written(q)' = Written(q) /\ OwnOf(q)' = OwnOf(q) /\ Runs' = Runs
    BY <1>1 DEF Written, OwnOf, Runs
  <2>2. Answered(q) /\ Kept(q) /\ ResolvedOf(q) /\ Completed(q)
    BY DEF TransportInv
  <2> QED
    BY <1>1, <2>1, <2>2 DEF Answered, Kept, ResolvedOf, Completed
<1>6. CrashesOnlyThere'
  BY <1>0, <1>1, NoNewCrash
<1> QED
  BY <1>3, <1>4, <1>5, <1>6 DEF TransportInv

(* Configure decodes the provider's block once for each process. *)
LEMMA ConfigureStep ==
    ASSUME TransportInv, Configure
    PROVE  TransportInv'
<1>0. Typed /\ Shared /\ server = "new" /\ ~Runs /\ crash = "no"
  BY DEF TransportInv, Configure, Runs, Typed
<1>1. UNCHANGED <<kind, provider, conf, saved, walk, crash, rconf, due, set, resolved, planned, target, rounds>>
  BY DEF Configure
<1>2. /\ pconf = newProviderConfig /\ rconf = newProviderConfig
      /\ \A q \in Resources : ~set[q] /\ resolved[q] = NoTransports
  BY <1>0 DEF Shared, TransportInv, ResolvedOf
<1> DEFINE w == provider[walk]
           c == ConfigFrom(pconf, w)
<1>3. \/ server' = "up" /\ TransportsAccepted(w.transport) /\ pconf' = WithEnv(c)
      \/ server' = "down" /\ pconf' = pconf
  BY DEF Configure, ConfigAccepted
<1>4. c.Transport = Defaults /\ c = [Transport |-> c.Transport, DebugDataRootDir |-> c.DebugDataRootDir]
  <2>1. newProviderConfig = [Transport |-> NoTransports, DebugDataRootDir |-> New("string")]
    BY DEF newProviderConfig
  <2>2. CASE ~IsKnown(w.transport)
    <3>1. ~HasValue(w.transport)
      BY <2>2 DEF IsKnown, HasValue
    <3> QED
      BY <1>2, <2>1, <2>2, <3>1 DEF ConfigFrom, Defaults, TransportsFrom
  <2>3. CASE IsKnown(w.transport)
    <3>1. c = [Transport |-> TransportsFrom(NoTransports, w.transport),
               DebugDataRootDir |->
                  IF IsKnown(w.dir) THEN StringFrom(pconf.DebugDataRootDir, w.dir) ELSE pconf.DebugDataRootDir]
      BY <1>2, <2>1, <2>3 DEF ConfigFrom
    <3> HIDE DEF c
    <3> QED
      BY <3>1 DEF Defaults
  <2> QED
    BY <2>2, <2>3
<1> HIDE DEF c
<1>5. WithEnv(c).Transport = Defaults
  <2>1. CASE provider.env
    <3>1. WithEnv(c) = [c EXCEPT !.DebugDataRootDir = Set(@, <<"env">>)]
      BY <2>1 DEF WithEnv
    <3> QED
      BY <1>4, <3>1
  <2>2. CASE ~provider.env
    BY <1>4, <2>2 DEF WithEnv
  <2> QED
    BY <2>1, <2>2
<1>6. Typed'
  BY <1>0, <1>1, <1>3 DEF Typed
<1>7. Shared'
  <2>1. Defaults' = Defaults
    BY <1>1 DEF Defaults
  <2>2. CASE server' = "up" /\ TransportsAccepted(w.transport) /\ pconf' = WithEnv(c)
    <3>1. rconf'.Transport = NoTransports
      BY <1>1, <1>2 DEF newProviderConfig
    <3> QED
      BY <1>1, <1>2, <1>5, <2>1, <2>2, <3>1 DEF Shared, Runs
  <2>3. CASE server' = "down" /\ pconf' = pconf
    BY <1>1, <1>2, <2>3 DEF Shared, Runs
  <2> QED
    BY <1>3, <2>2, <2>3
<1>8. ASSUME NEW q \in Resources
      PROVE  (Answered(q) /\ Kept(q) /\ ResolvedOf(q) /\ Completed(q))'
  <2>1. Written(q)' = Written(q) /\ resolved'[q] = NoTransports
    BY <1>1, <1>2 DEF Written
  <2>2. Answered(q) /\ Kept(q) /\ Completed(q)
    BY DEF TransportInv
  <2> QED
    BY <1>1, <2>1, <2>2 DEF Answered, Kept, ResolvedOf, Completed
<1>9. CrashesOnlyThere'
  BY <1>0, <1>1 DEF CrashesOnlyThere
<1> QED
  BY <1>6, <1>7, <1>8, <1>9 DEF TransportInv

(* A new walk starts from a new process, with nothing decoded and nothing    *)
(* resolved.                                                                 *)
LEMMA NewWalk ==
    ASSUME TransportInv, NEW w \in {"plan", "apply"}, NewProcess(w),
           kind' = kind, provider' \in ProviderConfigs, conf' \in [Resources -> kind.configs],
           saved' = saved, rounds' \in 1..MaxRounds,
           due' \in [Resources -> {"read", "validate"}],
           \A r \in Resources : due'[r] = "read" => saved[r] # Empty
    PROVE  TransportInv'
<1>0. /\ Typed /\ walk' = w /\ server' = "new" /\ crash' = "no"
      /\ pconf' = newProviderConfig /\ rconf' = newProviderConfig
      /\ set' = [r \in Resources |-> FALSE]
      /\ resolved' = [r \in Resources |-> NoTransports]
      /\ planned' = [r \in Resources |-> Empty]
  BY DEF NewProcess, TransportInv
<1>1. Typed'
  <2>1. planned' = [r \in Resources |-> planned'[r]] /\ resolved' = [r \in Resources |-> resolved'[r]]
    BY <1>0
  <2> QED
    BY <1>0, <2>1 DEF Typed
<1>2. Shared'
  BY <1>0 DEF Shared, Runs
<1>3. CrashesOnlyThere'
  BY <1>0 DEF CrashesOnlyThere
<1>4. ASSUME NEW q \in Resources
      PROVE  (Answered(q) /\ Kept(q) /\ ResolvedOf(q) /\ Completed(q))'
  <2>1. due'[q] \in {"read", "validate"} /\ resolved'[q] = NoTransports
    BY <1>0
  <2>2. Kept(q)'
    BY DEF TransportInv, Kept
  <2> QED
    BY <2>1, <2>2 DEF Answered, ResolvedOf, Completed
<1> QED
  BY <1>1, <1>2, <1>3, <1>4 DEF TransportInv

(* An apply walk follows a plan that was accepted, with the same blocks,     *)
(* now known.                                                                *)
LEMMA ApplyWalkStep ==
    ASSUME TransportInv, ApplyWalk
    PROVE  TransportInv'
<1>1. Typed
  BY DEF TransportInv
<1> QED
  BY <1>1, NewWalk DEF ApplyWalk, Typed

(* The user's edits change what core sends, and nothing that was saved. *)
LEMMA EditStep ==
    ASSUME TransportInv, Edit
    PROVE  TransportInv'
<1>1. Typed /\ MaxRounds \in Nat \ {0} /\ Edited \subseteq Resources
  BY ConfigAssumption DEF TransportInv
<1>2. conf' \in [Resources -> kind.configs]
  <2>1. PICK c \in [Edited -> kind.configs] : conf' = [r \in Resources |-> IF r \in Edited THEN c[r] ELSE conf[r]]
    BY DEF Edit
  <2> QED
    BY <1>1, <2>1 DEF Typed
<1>3. rounds' \in 1..MaxRounds
  BY <1>1 DEF Edit, Typed
<1>4. /\ due' \in [Resources -> {"read", "validate"}]
      /\ \A r \in Resources : due'[r] = "read" => saved[r] # Empty
  BY DEF Edit, First
<1> QED
  BY <1>2, <1>3, <1>4, NewWalk DEF Edit

(* Gathering logs after a failure crashes only without a single transport:   *)
(* HandleFailure's call of the transport's client.                           *)
LEMMA FailureCrash ==
    ASSUME TransportInv, NEW r \in Resources, set[r], StateAccepted(Written(r)),
           UNCHANGED <<kind, provider, conf, walk, saved>>,
           NEW O, O = TransportsFrom(NoTransports, Written(r).transport), ~Resolvable(O, Defaults),
           kind.logs, crash' = "logs"
    PROVE  CrashesOnlyThere'
<1>1. Typed /\ Shared
  BY DEF TransportInv
<1>2. /\ TransportsWire(Written(r).transport) /\ TransportsAccepted(Written(r).transport)
      /\ TransportsWire(provider[walk].transport) /\ TransportsAccepted(provider[walk].transport)
  BY <1>1, Sent DEF StateWire, StateAccepted, Shared
<1>3. ~SingleTransport(Written(r).transport, provider[walk].transport)
  BY <1>2, ResolvableIs DEF Defaults
<1>4. Written(r)' = Written(r)
  BY DEF Written
<1> QED
  BY <1>3, <1>4 DEF CrashesOnlyThere

(* A panic in a plan leaves everything as it was but the process.            *)
LEMMA CrashFrame ==
    ASSUME TransportInv, NEW r \in Resources, due[r] = "plan",
           UNCHANGED <<kind, provider, conf, saved, walk, pconf, rconf, rounds, due, set, resolved, planned>>,
           server = "up", server' = "crashed", crash' \in {"replace", "encode"},
           CrashesOnlyThere'
    PROVE  TransportInv'
<1>0. Typed /\ Answered(r) /\ Kept(r) /\ ResolvedOf(r) /\ Completed(r)
  BY DEF TransportInv
<1>1. /\ due' = [due EXCEPT ![r] = due'[r]] /\ due'[r] \in DueStates
      /\ set' = [set EXCEPT ![r] = set'[r]] /\ set'[r] \in BOOLEAN
      /\ resolved' = [resolved EXCEPT ![r] = resolved'[r]]
      /\ planned' = [planned EXCEPT ![r] = planned'[r]]
      /\ saved' = [saved EXCEPT ![r] = saved'[r]]
  BY Zenon, <1>0 DEF Typed, DueStates
<1>2. Written(r)' = Written(r) /\ OwnOf(r)' = OwnOf(r) /\ Runs /\ Runs'
  BY DEF Written, OwnOf, Runs
<1>3. Answered(r)' /\ Kept(r)' /\ ResolvedOf(r)' /\ Completed(r)'
  BY <1>0, <1>2 DEF Answered, Kept, ResolvedOf, Completed
<1> QED
  BY <1>1, <1>3, RequestFrame

(* PlanResourceChange: the plan is what core sent, or core refuses it; a     *)
(* failure is the one that CrashesOnlyThere allows, and so is a crash of     *)
(* ReplaceAttributes or of the encoding of the plan.                         *)
LEMMA PlanStep ==
    ASSUME TransportInv, NEW r \in Resources, Plan(r)
    PROVE  TransportInv'
<1>0. /\ Typed /\ Shared /\ Answered(r) /\ Kept(r) /\ server = "up" /\ set[r] /\ due[r] = "plan"
      /\ Runs /\ crash = "no"
  BY DEF TransportInv, Plan, Handles, Runs, Typed
<1> DEFINE w == Written(r)
           own == CopyTransports(StateFrom(w).Transport)
           proposed == ApplyDefaults(own, GetProviderConfig)
           prior == StateFrom(saved[r]).Transport
<1>1. StateWire(w) /\ StateAccepted(w)
  BY <1>0, Sent DEF Answered
<1>2. own = TransportsFrom(NoTransports, w.transport)
  BY <1>1, OwnIs
<1>3. GetProviderConfig = Defaults
  BY <1>0, ConfigIs
<1>4. /\ TransportsWire(w.transport) /\ TransportsAccepted(w.transport)
      /\ TransportsWire(provider[walk].transport) /\ TransportsAccepted(provider[walk].transport)
  BY <1>0, <1>1, Sent DEF StateWire, StateAccepted, Shared
<1>5. UNCHANGED <<kind, provider, conf, saved, walk, pconf, rconf, rounds>>
  BY DEF Plan
<1>6. /\ Written(r)' = w /\ saved' = [saved EXCEPT ![r] = saved'[r]] /\ Kept(r)'
  BY <1>0, <1>5 DEF Written, Kept, Typed
<1>7. \/ /\ ~Resolvable(own, GetProviderConfig)
         /\ HandleFailure(r, NoTransports) /\ Resolve(r, NoTransports) /\ planned' = planned
      \/ /\ Resolvable(own, GetProviderConfig) /\ ReplacePanics(prior, proposed)
         /\ server' = "crashed" /\ crash' = "replace"
         /\ UNCHANGED <<due, set, resolved, planned>>
      \/ /\ ~StateEncodes(w)
         /\ server' = "crashed" /\ crash' = "encode"
         /\ UNCHANGED <<due, set, resolved, planned>>
      \/ /\ Resolvable(own, GetProviderConfig)
         /\ Resolve(r, proposed)
         /\ planned' = [planned EXCEPT ![r] = StateValue(w)]
         /\ Answer(r, IF StateValue(w) # w THEN "refused" ELSE IF walk = "plan" THEN "done" ELSE "apply")
  BY DEF Plan
<1>8. Resolvable(own, GetProviderConfig) => OwnElseDefault(w.transport, provider[walk].transport, proposed)
  <2> HIDE DEF w
  <2> QED
    BY <1>2, <1>3, <1>4, Resolved DEF Defaults
<1> HIDE DEF w, own, proposed, prior
<1>9. CASE /\ ~Resolvable(own, GetProviderConfig)
           /\ HandleFailure(r, NoTransports) /\ Resolve(r, NoTransports) /\ planned' = planned
  <2>1. \/ server' = "crashed" /\ crash' = "logs" /\ kind.logs /\ due' = due /\ set' = set
        \/ /\ server' = server /\ crash' = crash
           /\ due' = [due EXCEPT ![r] = "failed"] /\ set' = [set EXCEPT ![r] = FALSE]
    BY <1>9 DEF HandleFailure, Answer, LogsPanic
  <2>2. /\ due' = [due EXCEPT ![r] = due'[r]] /\ due'[r] \in {"plan", "failed"}
        /\ set' = [set EXCEPT ![r] = set'[r]] /\ set'[r] \in BOOLEAN /\ (set'[r] => set[r])
    BY Zenon, <1>0, <2>1 DEF Typed
  <2>3. resolved' = [resolved EXCEPT ![r] = resolved'[r]] /\ resolved'[r] = NoTransports
        /\ planned' = [planned EXCEPT ![r] = planned'[r]]
    BY <1>0, <1>9 DEF Resolve, Typed
  <2>4. Answered(r)' /\ ResolvedOf(r)' /\ Completed(r)'
    BY <1>0, <1>1, <1>6, <2>2, <2>3 DEF Answered, ResolvedOf, Completed
  <2>5. CrashesOnlyThere'
    <3>1. CASE server' = "crashed" /\ crash' = "logs" /\ kind.logs
      BY <1>0, <1>1, <1>2, <1>3, <1>5, <1>9, <3>1, FailureCrash DEF w
    <3>2. CASE crash' = crash
      BY <1>0, <3>2, NoNewCrash
    <3> QED
      BY <2>1, <3>1, <3>2
  <2> QED
    BY <1>0, <1>5, <1>6, <2>1, <2>2, <2>3, <2>4, <2>5, RequestFrame DEF DueStates
<1>10. CASE /\ Resolvable(own, GetProviderConfig) /\ ReplacePanics(prior, proposed)
            /\ server' = "crashed" /\ crash' = "replace"
            /\ UNCHANGED <<due, set, resolved, planned>>
  <2>1. CrashesOnlyThere'
    <3>1. PICK type \in DOMAIN prior : type \notin DOMAIN proposed
      BY <1>10 DEF ReplacePanics
    <3>2. saved[r] # Empty
      <4>1. DOMAIN NoTransports = {}
        BY DEF NoTransports, Empty
      <4> QED
        BY <3>1, <4>1 DEF prior, StateFrom
    <3>3. DOMAIN prior = Types(saved[r].transport)
      <4>1. StateWire(saved[r]) /\ StateAccepted(saved[r])
        BY <1>0, <3>2, KeptWire DEF Kept
      <4> QED
        BY <4>1, OwnIs, FromDecoded DEF prior, StateWire, StateAccepted
    <3>4. HasValue(saved[r].transport) /\ type \in DOMAIN saved[r].transport.v
      BY <3>1, <3>3 DEF Types
    <3>5. HasValue(w.transport) => type \notin DOMAIN w.transport.v
      BY <1>8, <1>10, <3>1, ResolvedIsOne DEF Types
    <3> QED
      BY <1>5, <1>6, <1>10, <3>2, <3>4, <3>5 DEF CrashesOnlyThere
  <2> QED
    BY <1>0, <1>5, <1>6, <1>10, <2>1, CrashFrame
<1>11. CASE /\ ~StateEncodes(w)
            /\ server' = "crashed" /\ crash' = "encode"
            /\ UNCHANGED <<due, set, resolved, planned>>
  <2>1. MapsIn(w.payload)
    BY <1>1, <1>11, EncodeCrash
  <2>2. CrashesOnlyThere'
    BY <1>6, <1>11, <2>1 DEF CrashesOnlyThere
  <2> QED
    BY <1>0, <1>5, <1>6, <1>11, <2>2, CrashFrame
<1>12. CASE /\ Resolvable(own, GetProviderConfig)
            /\ Resolve(r, proposed)
            /\ planned' = [planned EXCEPT ![r] = StateValue(w)]
            /\ Answer(r, IF StateValue(w) # w THEN "refused" ELSE IF walk = "plan" THEN "done" ELSE "apply")
  <2>1. /\ due'[r] = (IF StateValue(w) # w THEN "refused" ELSE IF walk = "plan" THEN "done" ELSE "apply")
        /\ due' = [due EXCEPT ![r] = due'[r]]
        /\ set' = [set EXCEPT ![r] = FALSE] /\ UNCHANGED <<server, crash>>
        /\ resolved' = [resolved EXCEPT ![r] = proposed] /\ resolved'[r] = proposed
        /\ planned'[r] = StateValue(w)
    BY <1>0, <1>12 DEF Answer, Resolve, Typed
  <2>2. /\ due'[r] \in DueStates /\ set'[r] \in BOOLEAN /\ (set'[r] => set[r]) /\ set' = [set EXCEPT ![r] = set'[r]]
        /\ resolved' = [resolved EXCEPT ![r] = resolved'[r]]
        /\ planned' = [planned EXCEPT ![r] = planned'[r]]
    BY <1>0, <1>12, <2>1 DEF Typed, DueStates
  <2>3. Answered(r)'
    BY <1>0, <1>1, <1>5, <1>6, <2>1 DEF Answered, Typed
  <2>4. Completed(r)'
    BY <1>5, <2>1 DEF Completed
  <2>5. ResolvedOf(r)'
    <3>1. OwnOf(r)' = w.transport
      BY <1>6, <2>1 DEF OwnOf
    <3>2. Runs'
      BY <1>0, <2>1 DEF Runs
    <3> QED
      BY <1>5, <1>8, <1>12, <2>1, <3>1, <3>2 DEF ResolvedOf
  <2>6. CrashesOnlyThere'
    BY <1>0, <2>1, NoNewCrash
  <2> QED
    BY Zenon, <1>0, <1>5, <1>6, <2>1, <2>2, <2>3, <2>4, <2>5, <2>6, RequestFrame
<1> QED
  BY <1>7, <1>9, <1>10, <1>11, <1>12

(* ApplyResourceChange: what was planned is answered and saved, the          *)
(* transport was resolved and validated for its type.                        *)
LEMMA ApplyStep ==
    ASSUME TransportInv, NEW r \in Resources, Apply(r)
    PROVE  TransportInv'
<1>0. /\ Typed /\ Shared /\ Answered(r) /\ Kept(r) /\ server = "up" /\ set[r] /\ due[r] = "apply"
      /\ Runs /\ crash = "no"
  BY DEF TransportInv, Apply, Handles, Runs, Typed
<1> DEFINE w == Written(r)
           own == CopyTransports(StateFrom(planned[r]).Transport)
           ok == Resolvable(own, GetProviderConfig)
           transport == IF ok THEN ApplyDefaults(own, GetProviderConfig) ELSE NoTransports
           valid == ok /\ ValidateType(OnlyType(transport), transport[OnlyType(transport)])
<1>1. /\ StateWire(w) /\ StateAccepted(w) /\ planned[r] = w /\ walk = "apply" /\ StateValue(w) = w
  BY <1>0, Sent DEF Answered
<1>2. own = TransportsFrom(NoTransports, w.transport)
  BY <1>1, OwnIs
<1>3. GetProviderConfig = Defaults
  BY <1>0, ConfigIs
<1>4. /\ TransportsWire(w.transport) /\ TransportsAccepted(w.transport)
      /\ TransportsWire(provider[walk].transport) /\ TransportsAccepted(provider[walk].transport)
  BY <1>0, <1>1, Sent DEF StateWire, StateAccepted, Shared
<1>5. UNCHANGED <<kind, provider, conf, walk, pconf, rconf, planned, rounds>>
  BY DEF Apply
<1>6. Written(r)' = w /\ planned' = [planned EXCEPT ![r] = planned'[r]]
  BY <1>0, <1>5 DEF Written, Typed
<1>7. /\ Resolve(r, transport)
      /\ \/ HandleFailure(r, transport) /\ saved' = saved
         \/ /\ valid
            /\ \/ /\ NewState(r) = planned[r] /\ Answer(r, "done")
                  /\ saved' = [saved EXCEPT ![r] = NewState(r)]
               \/ Answer(r, "inconsistent") /\ saved' = saved
  BY DEF Apply
<1>8. ok => OwnElseDefault(w.transport, provider[walk].transport, transport) /\ transport # NoTransports
  <2> HIDE DEF w, own
  <2>1. ASSUME ok PROVE OwnElseDefault(w.transport, provider[walk].transport, transport)
    BY <1>2, <1>3, <1>4, <2>1, Resolved DEF Defaults
  <2> HIDE DEF transport
  <2> QED
    BY <2>1, ResolvedIsOne
<1> HIDE DEF w, own, ok, valid, transport
<1>9. /\ resolved' = [resolved EXCEPT ![r] = resolved'[r]] /\ resolved'[r] = transport
  BY <1>0, <1>7 DEF Resolve, Typed
<1>10. transport # NoTransports => OwnElseDefault(w.transport, provider[walk].transport, transport)
  BY <1>8 DEF transport
<1>11. due'[r] # "validate" /\ Runs' => ResolvedOf(r)'
  <2>1. due'[r] # "validate" => OwnOf(r)' = w.transport
    BY <1>6 DEF OwnOf
  <2> QED
    BY <1>5, <1>9, <1>10, <2>1 DEF ResolvedOf
<1>12. CASE HandleFailure(r, transport) /\ saved' = saved
  <2>1. \/ server' = "crashed" /\ crash' = "logs" /\ kind.logs /\ transport = NoTransports /\ due' = due /\ set' = set
        \/ /\ server' = server /\ crash' = crash
           /\ due' = [due EXCEPT ![r] = "failed"] /\ set' = [set EXCEPT ![r] = FALSE]
    BY <1>12 DEF HandleFailure, Answer, LogsPanic
  <2>2. /\ due' = [due EXCEPT ![r] = due'[r]] /\ due'[r] \in {"apply", "failed"} /\ Runs'
        /\ set' = [set EXCEPT ![r] = set'[r]] /\ set'[r] \in BOOLEAN /\ (set'[r] => set[r])
        /\ saved' = [saved EXCEPT ![r] = saved'[r]]
    BY Zenon, <1>0, <1>12, <2>1 DEF Typed, Runs
  <2>3. Answered(r)' /\ Completed(r)' /\ Kept(r)' /\ ResolvedOf(r)'
    BY <1>0, <1>1, <1>5, <1>6, <1>11, <1>12, <2>2 DEF Answered, Completed, Kept
  <2>4. CrashesOnlyThere'
    <3>1. CASE crash' = "logs" /\ kind.logs /\ transport = NoTransports
      <4>1. ~Resolvable(own, Defaults)
        BY <1>3, <1>8, <3>1 DEF ok
      <4> QED
        BY <1>0, <1>1, <1>2, <1>5, <1>12, <3>1, <4>1, FailureCrash DEF w
    <3>2. CASE crash' = crash
      BY <1>0, <3>2, NoNewCrash
    <3> QED
      BY <2>1, <3>1, <3>2
  <2> QED
    BY <1>0, <1>5, <1>6, <1>9, <2>1, <2>2, <2>3, <2>4, RequestFrame DEF DueStates
<1>13. CASE /\ valid
            /\ \/ /\ NewState(r) = planned[r] /\ Answer(r, "done")
                  /\ saved' = [saved EXCEPT ![r] = NewState(r)]
               \/ Answer(r, "inconsistent") /\ saved' = saved
  <2>1. /\ \/ due'[r] = "done" /\ saved' = [saved EXCEPT ![r] = w] /\ saved'[r] = w
           \/ due'[r] = "inconsistent" /\ saved' = saved
        /\ due' = [due EXCEPT ![r] = due'[r]]
        /\ set' = [set EXCEPT ![r] = FALSE] /\ UNCHANGED <<server, crash>>
    BY <1>0, <1>1, <1>13 DEF Answer, Typed
  <2>2. /\ due'[r] \in DueStates /\ set'[r] \in BOOLEAN /\ (set'[r] => set[r]) /\ set' = [set EXCEPT ![r] = set'[r]]
        /\ saved' = [saved EXCEPT ![r] = saved'[r]] /\ Runs'
    BY <1>0, <2>1 DEF Typed, DueStates, Runs
  <2>3. Answered(r)' /\ ResolvedOf(r)'
    BY <1>1, <1>6, <1>11, <2>1, <2>2 DEF Answered
  <2>4. Completed(r)'
    <3>1. transport # NoTransports /\ ValidateType(OnlyType(transport), transport[OnlyType(transport)])
      BY <1>8, <1>13 DEF valid
    <3> QED
      BY <1>6, <1>9, <2>1, <3>1 DEF Completed
  <2>5. Kept(r)'
    <3>1. CASE saved'[r] = w
      <4>1. conf[r] \in DOMAIN ResourceConfigs /\ w = ResourceConfigs[conf[r]]["apply"]
        BY <1>0, <1>1, Sent DEF w
      <4>2. Same(ResourceConfigs[conf[r]].apply, w)
        BY <4>1 DEF Same
      <4> QED
        BY <1>1, <3>1, <4>1, <4>2 DEF Kept
    <3>2. CASE saved' = saved
      BY <1>0, <3>2 DEF Kept
    <3> QED
      BY <2>1, <3>1, <3>2
  <2>6. CrashesOnlyThere'
    BY <1>0, <2>1, NoNewCrash
  <2> QED
    BY Zenon, <1>0, <1>5, <1>6, <1>9, <2>1, <2>2, <2>3, <2>4, <2>5, <2>6, RequestFrame
<1> QED
  BY <1>7, <1>12, <1>13

(* Before the first walk nothing is decoded, resolved or saved. *)
LEMMA TransportStarts ==
    ASSUME TransportInit
    PROVE  TransportInv
<1>1. /\ kind \in Kinds /\ provider \in ProviderConfigs /\ conf \in [Resources -> kind.configs]
      /\ saved = [r \in Resources |-> Empty] /\ walk = "plan" /\ server = "new" /\ crash = "no"
      /\ pconf = newProviderConfig /\ rconf = newProviderConfig
      /\ due = [r \in Resources |-> "validate"] /\ set = [r \in Resources |-> FALSE]
      /\ resolved = [r \in Resources |-> NoTransports] /\ planned = [r \in Resources |-> Empty]
      /\ rounds = 1
  BY DEF TransportInit
<1>2. Typed
  <2>1. /\ saved = [r \in Resources |-> saved[r]] /\ resolved = [r \in Resources |-> resolved[r]]
        /\ planned = [r \in Resources |-> planned[r]]
    BY <1>1
  <2> QED
    BY <1>1, <2>1, ConfigAssumption DEF Typed
<1>3. Shared /\ CrashesOnlyThere
  BY <1>1 DEF Shared, Runs, CrashesOnlyThere
<1>4. \A r \in Resources : Answered(r) /\ Kept(r) /\ ResolvedOf(r) /\ Completed(r)
  BY <1>1 DEF Answered, Kept, ResolvedOf, Completed
<1> QED
  BY <1>2, <1>3, <1>4 DEF TransportInv

(* No request of a resource, walk or edit breaks the invariant. *)
LEMMA TransportStays ==
    ASSUME TransportInv, [TransportNext]_transportVars
    PROVE  TransportInv'
<1>1. ASSUME UNCHANGED transportVars
      PROVE  TransportInv'
  <2>1. UNCHANGED <<kind, provider, conf, saved, walk, server, crash, pconf, rconf, due, set, resolved, planned,
                    rounds>>
    BY <1>1 DEF transportVars
  <2>2. \A r \in Resources : Written(r)' = Written(r) /\ OwnOf(r)' = OwnOf(r)
    BY <2>1 DEF Written, OwnOf
  <2>3. Typed' /\ Shared'
    BY <2>1 DEF TransportInv, Typed, Shared, Runs, Defaults
  <2>4. CrashesOnlyThere'
    BY <2>1, <2>2 DEF TransportInv, CrashesOnlyThere
  <2>5. \A r \in Resources : (Answered(r) /\ Kept(r) /\ ResolvedOf(r) /\ Completed(r))'
    BY <2>1, <2>2 DEF TransportInv, Answered, Kept, ResolvedOf, Completed, Runs
  <2> QED
    BY <2>3, <2>4, <2>5 DEF TransportInv
<1>2. ASSUME NEW r \in Resources, Request(r)
      PROVE  TransportInv'
  BY <1>2, SetStep, ReadStep, ValidateStep, PlanStep, ApplyStep DEF Request
<1> QED
  BY <1>1, <1>2, ConfigureStep, ApplyWalkStep, EditStep DEF TransportNext

(* The invariant of the provider: the shared copy of the provider's          *)
(* configuration is that of the process's own walk, whoever wrote it last;   *)
(* what is saved was sent by core for an apply and can be sent back; what    *)
(* was resolved follows ApplyDefaults's comment; what was applied was        *)
(* validated.                                                                *)
LEMMA TransportAlways == TransportSpec => []TransportInv
<1>1. TransportInit => TransportInv
  BY TransportStarts
<1>2. TransportInv /\ [TransportNext]_transportVars => TransportInv'
  BY TransportStays
<1> QED
  BY <1>1, <1>2, PTL DEF TransportSpec

(* A request crashes the provider only where the code is known to:           *)
(* ReplaceAttributes on a transport type that the configuration dropped,     *)
(* HandleFailure's logs without a single transport, and the encoding of a    *)
(* plan with a map of any type that is empty, that holds an object without   *)
(* a value or that stands for stanzas or seals; never in a create for the    *)
(* first reason, nor with a sound transport for the second, nor without      *)
(* these maps for the third, for every set of configurations.                *)
THEOREM CrashesAreKnown == TransportSpec => []CrashesOnlyThere
<1>1. TransportInv => CrashesOnlyThere
  BY DEF TransportInv
<1> QED
  BY <1>1, TransportAlways, PTL

(* Terraform5Value "must return a value that is structurally the same as     *)
(* the value unmarshalled": a plan that core refuses had a value that is     *)
(* not plain, and what is saved is what the user wrote, without any default  *)
(* of the provider, for every set of configurations and any number of        *)
(* resources, plans, applies and edits.                                      *)
THEOREM CoreGetsBackWhatItSent == TransportSpec => []AnswersAsSent
<1>1. TransportInv => AnswersAsSent
  <2> SUFFICES ASSUME TransportInv, NEW r \in Resources
               PROVE  /\ due[r] = "refused" =>
                            ~Determined(Written(r).transport) \/ ~PayloadPlain(Written(r).payload)
                      /\ saved[r] # Empty => \E i \in DOMAIN ResourceConfigs :
                                    Same(ResourceConfigs[i].apply, saved[r])
    BY DEF AnswersAsSent
  <2>1. Typed /\ Answered(r) /\ Kept(r)
    BY DEF TransportInv
  <2>2. StateWire(Written(r))
    BY <2>1, Sent
  <2>3. due[r] = "refused" => ~Determined(Written(r).transport) \/ ~PayloadPlain(Written(r).payload)
    BY <2>1, <2>2, StateBack DEF Answered
  <2> QED
    BY <2>1, <2>3 DEF Kept
<1> QED
  BY <1>1, TransportAlways, PTL

(* ApplyDefaults, as its comment has it: every attribute a request connects  *)
(* with is the resource's own or else the provider's, for any number of      *)
(* resources whose requests share and overwrite the type's copy of the       *)
(* provider's configuration.                                                 *)
THEOREM DefaultsFillIn == TransportSpec => []ResolvedIsOwnElseDefault
<1>1. TransportInv => ResolvedIsOwnElseDefault
  <2>1. TransportInv => \A r \in Resources : ResolvedOf(r)
    BY DEF TransportInv
  <2> QED
    BY Zenon, <2>1 DEF ResolvedIsOwnElseDefault, ResolvedOf, OwnOf, OwnElseDefault
<1> QED
  BY <1>1, TransportAlways, PTL

(* What an attribute was said to be is something. *)
LEMMA SaidIsSomething ==
    ASSUME NEW w, TransportsWire(w), NEW type, NEW a, Says(w, type, a)
    PROVE  w.v[type].v[a].v # Empty
<1>1. FlatWire(w.v[type].v[a]) /\ w.v[type].v[a].t \in {"string", "dynamic"} /\ HasValue(w.v[type].v[a])
  BY Zenon DEF Says, TransportsWire, BlockWire
<1>2. w.v[type].v[a].v = <<w.v[type].v[a].v[1]>>
  BY <1>1 DEF FlatWire, Scalars
<1> QED
  BY <1>2 DEF Empty

(* An apply that is accepted has a transport with everything its Validate    *)
(* asks for, and can work with the whole payload, though both may have been  *)
(* unknown when it was planned.                                              *)
THEOREM AppliesAreComplete == TransportSpec => []AppliedIsComplete
<1>1. TransportInv => AppliedIsComplete
  <2> SUFFICES ASSUME TransportInv, NEW r \in Resources, walk = "apply", due[r] = "done"
               PROVE  LET type == OnlyType(resolved[r])
                          t == resolved[r][type]
                          Has(a) == t.attrs[a].Val # Empty /\ ~t.attrs[a].Unknown
                      IN  /\ type = "ssh" => Has("user") /\ Has("host") /\ (Has("private_key") \/ Has("private_key_path"))
                          /\ type = "kubernetes" => Has("kubeconfig_base64") /\ Has("context_name") /\ Has("pod")
                          /\ type = "nomad" => Has("host") /\ Has("allocation_id") /\ Has("task_name")
                          /\ ~IsVault(saved[r].payload) /\ Whole(saved[r].payload) => Native(saved[r].payload)
    BY DEF AppliedIsComplete
  <2> DEFINE type == OnlyType(resolved[r])
             t == resolved[r][type]
             Has(a) == t.attrs[a].Val # Empty /\ ~t.attrs[a].Unknown
             w == Written(r)
  <2>1. /\ Typed /\ Shared /\ StateAccepted(w) /\ saved[r] = w
        /\ Runs /\ OwnElseDefault(w.transport, provider[walk].transport, resolved[r])
        /\ ValidateType(type, t)
    BY DEF TransportInv, Answered, Completed, ResolvedOf, OwnOf
  <2>2. StateWire(w) /\ TransportsWire(w.transport) /\ TransportsWire(provider[walk].transport)
    BY <2>1, Sent DEF StateWire
  <2>3. ~IsVault(w.payload) /\ Whole(w.payload) => Native(w.payload)
    BY <2>1, <2>2, NativeOfWhole DEF StateWire, StateAccepted, PayloadWire, IsVault
  <2>4. ASSUME NEW a \in Attributes(type), HasAttr(t, a)
        PROVE  Has(a)
    <3>1. Get(t.attrs[a])
      BY <2>4 DEF HasAttr
    <3>2. \/ Says(w.transport, type, a) /\ t.attrs[a].Val = w.transport.v[type].v[a].v
          \/ Says(provider[walk].transport, type, a) /\ t.attrs[a].Val = provider[walk].transport.v[type].v[a].v
      <4> HIDE DEF w
      <4> QED
        BY <2>1, <3>1 DEF OwnElseDefault
    <3>3. t.attrs[a].Val # Empty
      <4> HIDE DEF t, type, w
      <4> QED
        BY Zenon, <2>2, <3>2, SaidIsSomething
    <3> QED
      BY <3>1, <3>3 DEF Get
  <2> HIDE DEF type, t, Has, w
  <2>5. type = "ssh" => Has("user") /\ Has("host") /\ (Has("private_key") \/ Has("private_key_path"))
    BY <2>1, <2>4 DEF ValidateType, ValidateSSH, Attributes, SSHAttributes
  <2>6. type = "kubernetes" => Has("kubeconfig_base64") /\ Has("context_name") /\ Has("pod")
    BY <2>1, <2>4 DEF ValidateType, ValidateK8S, Attributes, K8SAttributes
  <2>7. type = "nomad" => Has("host") /\ Has("allocation_id") /\ Has("task_name")
    BY <2>1, <2>4 DEF ValidateType, ValidateNomad, Attributes, NomadAttributes
  <2>8. ~IsVault(saved[r].payload) /\ Whole(saved[r].payload) => Native(saved[r].payload)
    BY <2>1, <2>3 DEF w
  <2> QED
    BY <2>5, <2>6, <2>7, <2>8 DEF type, t, Has
<1> QED
  BY <1>1, TransportAlways, PTL

(* The holders of a process are transports of known types with the           *)
(* attributes of their types, and a request works with one of them at most.  *)
THEOREM TransportsAreTyped == TransportSpec => []TransportTypeOK
<1>1. TransportInv => TransportTypeOK
  <2> SUFFICES ASSUME TransportInv PROVE TransportTypeOK
    OBVIOUS
  <2>0. Typed /\ Shared
    BY DEF TransportInv
  <2>1. ASSUME NEW T, DOMAIN T \subseteq TransportTypes,
               \A type \in DOMAIN T : DOMAIN T[type].attrs = Attributes(type)
        PROVE  Transports(T) # {}
    BY <2>1 DEF Transports
  <2>2. Transports(NoTransports) # {}
    <3>1. DOMAIN NoTransports = {}
      BY DEF NoTransports, Empty
    <3> QED
      BY <2>1, <3>1
  <2>3. Runs => Transports(Defaults) # {}
    <3> HAVE Runs
    <3>1. Decoded(Defaults) /\ TransportsAccepted(provider[walk].transport)
      BY <2>0, Sent, FromDecoded DEF Shared, Defaults
    <3>2. \A type \in DOMAIN Defaults : DOMAIN Defaults[type].attrs = Attributes(type)
      BY <3>1, SaidAttributes DEF Defaults
    <3> QED
      BY <2>1, <3>1, <3>2 DEF Decoded
  <2>4. Transports(pconf.Transport) # {} /\ Transports(rconf.Transport) # {}
    <3>1. newProviderConfig.Transport = NoTransports
      BY DEF newProviderConfig
    <3> QED
      BY <2>0, <2>2, <2>3, <3>1 DEF Shared
  <2>5. ASSUME NEW r \in Resources
        PROVE  Transports(resolved[r]) # {} /\ Cardinality(DOMAIN resolved[r]) <= 1
    <3>1. CASE resolved[r] = NoTransports
      <4>1. DOMAIN NoTransports = {}
        BY DEF NoTransports, Empty
      <4> QED
        BY <2>2, <3>1, <4>1, FS_EmptySet
    <3>2. CASE resolved[r] # NoTransports
      <4> DEFINE type == OnlyType(resolved[r])
      <4>1. /\ DOMAIN resolved[r] = {type} /\ type \in TransportTypes
            /\ DOMAIN resolved[r][type].attrs = Attributes(type)
        BY <3>2 DEF TransportInv, ResolvedOf, OwnElseDefault
      <4> HIDE DEF type
      <4>2. Cardinality({type}) = 1
        BY FS_Singleton
      <4> QED
        BY <2>1, <4>1, <4>2
    <3> QED
      BY <3>1, <3>2
  <2> QED
    BY <2>0, <2>4, <2>5 DEF TransportTypeOK, Typed
<1> QED
  BY <1>1, TransportAlways, PTL

-----------------------------------------------------------------------------
(* What the type of a stanza or a seal is, once it is decoded by             *)
(* vaultConfigBlock.                                                         *)
LEMMA TypeIs ==
    ASSUME NEW w, FlatWire(w), TypeDecodes(w), NEW h, h = StringFrom(New("string"), w)
    PROVE  /\ Get(h) <=> HasValue(w)
           /\ HasValue(w) => h.Val = w.v /\ w.v = <<w.v[1]>>
<1>1. Get(h) <=> HasValue(w)
  BY StringHolder
<1>2. HasValue(w) => h.Val = w.v
  BY StringHolder
<1>3. HasValue(w) => w.v = <<w.v[1]>>
  BY DEF FlatWire, TypeDecodes, Scalars
<1> QED
  BY <1>1, <1>2, <1>3

(* What the attributes of a stanza are, once they are decoded: GetObject     *)
(* gives them as the user wrote them.                                        *)
LEMMA AttributesAre ==
    ASSUME NEW w, AttrWire(w), PartPlain(w), HasValue(w), Decodes(w),
           NEW h, h = ObjectFrom(New("object"), w, HoldersFrom(w))
    PROVE  /\ GetObject(h) <=> Native(w)
           /\ NestedValues(h) = w.v
<1>1. w.t \in {"object", "map"} /\ ObjectWire(w) /\ ObjectPlain(w)
  BY DEF PartPlain, Decodes, IsDynamic, AttrWire, Plain, FlatWire, IsWire, HasValue
<1>2. h = Set(New("object"), HoldersFrom(w))
  BY DEF ObjectFrom, HasValue
<1>3. h.Val = HoldersFrom(w)
  BY <1>2 DEF Set
<1>4. NestedValues(h) = w.v
  BY <1>1, <1>3, HoldersBack
<1>5. Decode(w) = BlockFrom(NewBlock, w)
  BY <1>1 DEF Decode, IsDynamic
<1>6. BlockFrom(NewBlock, w).Object = ObjectFrom(New("object"), w, HoldersFrom(w))
  BY DEF BlockFrom, NewBlock, HasValue
<1>7. Native(w) <=> GetObject(h)
  BY <1>1, <1>5, <1>6 DEF Native, IsDynamic
<1> QED
  BY <1>4, <1>7

(* A listener or a storage that can be written is decoded to what the user   *)
(* wrote.                                                                    *)
LEMMA StanzaIs ==
    ASSUME NEW s, NEW parts, "attributes" \in parts, StanzaWire(s), StanzaDecodes(parts, s), StanzaPlain(s),
           Stands(s), NEW d, d = StanzaFrom(parts, s)
    PROVE  /\ Get(d.Type) /\ d.Type.Val = s.v["type"].v
           /\ GetObject(d.parts["attributes"].Object)
           /\ NestedValues(d.parts["attributes"].Object) = s.v["attributes"].v
<1>1. /\ HasValue(s) /\ "type" \in DOMAIN s.v /\ "attributes" \in DOMAIN s.v
      /\ HasValue(s.v["type"]) /\ HasValue(s.v["attributes"]) /\ Native(s.v["attributes"])
  BY DEF Stands
<1>2. /\ FlatWire(s.v["type"]) /\ TypeDecodes(s.v["type"])
      /\ AttrWire(s.v["attributes"]) /\ PartPlain(s.v["attributes"]) /\ Decodes(s.v["attributes"])
  BY <1>1 DEF StanzaWire, StanzaDecodes, PartDecodes, StanzaPlain, AttrWire
<1>3. /\ d.Type = StringFrom(New("string"), s.v["type"])
      /\ d.parts["attributes"] = BlockFrom(NewBlock, s.v["attributes"])
  BY <1>1 DEF StanzaFrom
<1>4. d.parts["attributes"].Object = ObjectFrom(New("object"), s.v["attributes"], HoldersFrom(s.v["attributes"]))
  BY <1>1, <1>3 DEF BlockFrom, NewBlock, HasValue
<1>5. Get(d.Type) /\ d.Type.Val = s.v["type"].v
  BY <1>1, <1>2, <1>3, TypeIs
<1> QED
  BY <1>1, <1>2, <1>4, <1>5, AttributesAre

(* So is a seal; one that lacks a type, a stanza or its attributes is not    *)
(* written by Render.                                                        *)
LEMMA SealIs ==
    ASSUME NEW s, SealWire(s), ConfigBlockDecodes(s), SealClear(s), NEW X, NEW b, b = ConfigBlockFrom(s)
    PROVE  /\ Stanza(b, X) <=> Stands(s) /\ s.v["type"].v[1] \notin X
           /\ Stands(s) => /\ b.Type.Val = s.v["type"].v /\ s.v["type"].v = <<s.v["type"].v[1]>>
                           /\ NestedValues(b.Attrs) = s.v["attributes"].v
                           /\ DOMAIN s.v["attributes"].v \cap Named = {}
                           /\ ~b.Null
<1>1. CASE ~HasValue(s)
  <2>1. b.Type = New("string")
    BY <1>1 DEF ConfigBlockFrom, NewConfigBlock
  <2>2. ~Get(b.Type)
    BY <2>1 DEF Get, New
  <2> QED
    BY <1>1, <2>2 DEF Stanza, Stands
<1>2. CASE HasValue(s)
  <2> DEFINE a == s.v["attributes"]
             t == s.v["type"]
  <2>1. /\ "type" \in DOMAIN s.v => FlatWire(t) /\ TypeDecodes(t)
        /\ "attributes" \in DOMAIN s.v => AttrWire(a) /\ Decodes(a) /\ PartPlain(a)
    BY <1>2 DEF SealWire, ConfigBlockDecodes, PartDecodes, SealClear
  <2>2. /\ "type" \in DOMAIN s.v => b.Type = StringFrom(New("string"), t)
        /\ "type" \notin DOMAIN s.v => b.Type = New("string")
        /\ ~b.Null
    BY <1>2 DEF ConfigBlockFrom
  <2>3. /\ "attributes" \in DOMAIN s.v =>
              b.Attrs = CASE ~IsKnown(a) -> [New("object") EXCEPT !.Unknown = TRUE]
                          [] a.s = "null" -> New("object")
                          [] OTHER -> ObjectFrom(New("object"), a, HoldersFrom(a))
        /\ "attributes" \notin DOMAIN s.v => b.Attrs = New("object")
    <3>1. CASE "attributes" \in DOMAIN s.v
      BY <1>2, <3>1 DEF ConfigBlockFrom
    <3>2. CASE "attributes" \notin DOMAIN s.v
      <4> DEFINE z == Null("dynamic")
      <4>1. IsKnown(z) /\ z.s = "null"
        BY DEF Null, IsKnown
      <4>2. b.Attrs = CASE ~IsKnown(z) -> [New("object") EXCEPT !.Unknown = TRUE]
                        [] z.s = "null" -> New("object")
                        [] OTHER -> ObjectFrom(New("object"), z, HoldersFrom(z))
        BY <1>2, <3>2 DEF ConfigBlockFrom
      <4> HIDE DEF z
      <4> QED
        BY <3>2, <4>1, <4>2
    <3> QED
      BY <3>1, <3>2
  <2> HIDE DEF a, t
  <2>4. Get(b.Type) <=> "type" \in DOMAIN s.v /\ HasValue(t)
    <3>1. ~Get(New("string"))
      BY DEF Get, New
    <3> QED
      BY <2>1, <2>2, <3>1, TypeIs
  <2>5. "type" \in DOMAIN s.v /\ HasValue(t) => b.Type.Val = t.v /\ t.v = <<t.v[1]>>
    BY <2>1, <2>2, TypeIs
  <2>6. ~GetObject(New("object")) /\ ~GetObject([New("object") EXCEPT !.Unknown = TRUE])
    BY DEF GetObject, Get, New
  <2>7. "attributes" \in DOMAIN s.v /\ HasValue(a) =>
            b.Attrs = ObjectFrom(New("object"), a, HoldersFrom(a))
    BY <2>3 DEF HasValue, IsKnown
  <2>8. GetObject(b.Attrs) => "attributes" \in DOMAIN s.v /\ HasValue(a)
    <3>1. "attributes" \in DOMAIN s.v => IsWire(a)
      BY <2>1 DEF AttrWire, FlatWire
    <3> QED
      BY <2>3, <2>6, <3>1 DEF HasValue, IsKnown, IsWire
  <2>9. "attributes" \in DOMAIN s.v /\ HasValue(a) =>
            /\ GetObject(b.Attrs) <=> Native(a)
            /\ NestedValues(b.Attrs) = a.v
    BY <2>1, <2>7, AttributesAre
  <2>10. Stands(s) <=> Get(b.Type) /\ GetObject(b.Attrs)
    BY <1>2, <2>4, <2>8, <2>9 DEF Stands, a, t
  <2>11. Stands(s) => /\ "type" \in DOMAIN s.v /\ HasValue(t)
                      /\ "attributes" \in DOMAIN s.v /\ HasValue(a)
    BY DEF Stands, a, t
  <2>12. Stands(s) => DOMAIN a.v \cap Named = {}
    BY <1>2, <2>11 DEF SealClear, a, t
  <2> QED
    BY <2>2, <2>5, <2>9, <2>10, <2>11, <2>12 DEF Stanza, a, t
<1> QED
  BY <1>1, <1>2

(* The configuration that startVault renders: what was decoded, with a log  *)
(* level of its own only if the user gave none.                             *)
LEMMA StartedIs ==
    ASSUME NEW w, VaultWire(w), HasValue(w.v.config), NEW c, c = w.v.config.v, NEW C, C = Started(w)
    PROVE  /\ C.listener = ListenerFrom(c["listener"]) /\ C.storage = StorageFrom(c["storage"])
           /\ C.seal = ConfigBlockFrom(c["seal"]) /\ C.seals = SealsFrom(c["seals"])
           /\ \A a \in TopLevel : HasValue(c[a]) => Get(C.scalars[a]) /\ C.scalars[a].Val = c[a].v
<1>0. ConfigWire(w.v.config)
  BY DEF VaultWire
<1>1. DOMAIN c = DOMAIN Scalar \union Blocks
  BY <1>0 DEF ConfigWire
<1>2. DOMAIN Scalar = {"cluster_name", "api_addr", "cluster_addr", "log_level", "ui"}
  BY DEF Scalar
<1> DEFINE F == VaultConfigFrom(w.v.config)
<1>3. /\ F = [scalars |-> F.scalars, listener |-> F.listener, storage |-> F.storage, seal |-> F.seal,
              seals |-> F.seals, telemetry |-> F.telemetry]
      /\ F.listener = ListenerFrom(c["listener"]) /\ F.storage = StorageFrom(c["storage"])
      /\ F.seal = ConfigBlockFrom(c["seal"]) /\ F.seals = SealsFrom(c["seals"])
      /\ F.scalars = [a \in DOMAIN Scalar |->
                        IF Scalar[a] = "bool" THEN BoolFrom(New(Scalar[a]), c[a])
                        ELSE StringFrom(New(Scalar[a]), c[a])]
  BY <1>1 DEF VaultConfigFrom, Blocks
<1> HIDE DEF F
<1>4. ASSUME NEW a \in TopLevel, HasValue(c[a])
      PROVE  Get(F.scalars[a]) /\ F.scalars[a].Val = c[a].v
  <2>1. a \in DOMAIN Scalar
    BY <1>2 DEF TopLevel
  <2>2. F.scalars[a] = Set(New(Scalar[a]), c[a].v)
    BY <1>3, <1>4, <2>1 DEF BoolFrom, StringFrom
  <2> QED
    BY <2>2 DEF Set, Get
<1>5. CASE Get(F.scalars["log_level"])
  BY <1>3, <1>4, <1>5 DEF Started, WithLogLevel, F
<1>6. CASE ~Get(F.scalars["log_level"])
  <2>1. C = [F EXCEPT !.scalars["log_level"] = Set(@, <<"info">>)]
    BY <1>6 DEF Started, WithLogLevel, F
  <2>2. /\ C.listener = F.listener /\ C.storage = F.storage /\ C.seal = F.seal /\ C.seals = F.seals
        /\ C.scalars = [F.scalars EXCEPT !["log_level"] = Set(@, <<"info">>)]
    BY <1>3, <2>1
  <2>3. \A a \in TopLevel \ {"log_level"} : C.scalars[a] = F.scalars[a]
    BY <1>2, <1>3, <2>2 DEF TopLevel
  <2>4. "log_level" \in TopLevel /\ ~HasValue(c["log_level"])
    BY <1>4, <1>6 DEF TopLevel
  <2> QED
    BY Zenon, <1>3, <1>4, <2>2, <2>3, <2>4
<1> QED
  BY <1>5, <1>6

(* The seals Render writes are, by name, those the user wrote a stanza for. *)
LEMMA SealsAre ==
    ASSUME NEW w, SealsWire(w), SealsDecode(w), HasValue(w) => \A n \in DOMAIN w.v : SealClear(w.v[n]),
           NEW d, d = SealsFrom(w), NEW n \in SealNames
    PROVE  /\ Stanza(d.blocks[n], {"shamir", "none"}) <=> HasValue(w) /\ n \in DOMAIN w.v /\ IsSeal(w.v[n])
           /\ HasValue(w) /\ n \in DOMAIN w.v => d.blocks[n] = ConfigBlockFrom(w.v[n])
           /\ ~HasValue(w) => d.blocks[n].Null
<1>1. ~Stanza(NewConfigBlock, {"shamir", "none"}) /\ NewConfigBlock.Null
  BY DEF Stanza, Get, New, NewConfigBlock
<1>2. CASE HasValue(w) /\ n \in DOMAIN w.v
  <2>1. d.blocks[n] = ConfigBlockFrom(w.v[n])
    BY <1>2 DEF SealsFrom
  <2>2. SealWire(w.v[n]) /\ ConfigBlockDecodes(w.v[n]) /\ SealClear(w.v[n])
    BY <1>2 DEF SealsWire, SealsDecode
  <2>3. Stanza(d.blocks[n], {"shamir", "none"}) <=>
            Stands(w.v[n]) /\ w.v[n].v["type"].v[1] \notin {"shamir", "none"}
    BY <2>1, <2>2, SealIs
  <2>4. Stands(w.v[n]) => w.v[n].v["type"].v = <<w.v[n].v["type"].v[1]>>
    BY <2>1, <2>2, SealIs
  <2>5. \A x, y : <<x>> = <<y>> <=> x = y
    OBVIOUS
  <2>6. Stands(w.v[n]) =>
            (w.v[n].v["type"].v \in {<<"shamir">>, <<"none">>} <=> w.v[n].v["type"].v[1] \in {"shamir", "none"})
    BY Zenon, <2>4, <2>5
  <2> QED
    BY <1>2, <2>1, <2>3, <2>6 DEF IsSeal
<1>3. CASE ~(HasValue(w) /\ n \in DOMAIN w.v)
  <2>1. d.blocks[n] = NewConfigBlock
    BY <1>3 DEF SealsFrom, NewSeals
  <2> QED
    BY <1>1, <1>3, <2>1
<1> QED
  BY <1>2, <1>3

(* No sealAttrEnvVarTranslator sets a variable that stands for an attribute  *)
(* on top, the one for the type of the seal, or one that is the user's own.  *)
LEMMA VariablesApart ==
    ASSUME NEW label \in DOMAIN Translator, NEW a
    PROVE  /\ Variable(label, a) # SealType
           /\ \A b \in TopLevel : Variable(label, a) # <<"VAULT_", b>>
           /\ \A x : UsersOwn(x) /\ x[1] \notin {"VAULT_", "AWS_"} => Variable(label, a) # x
<1> DEFINE t == Translator[label]
<1>1. Variable(label, a) = IF a \in DOMAIN t.renamed THEN t.renamed[a] ELSE <<t.prefix, a>>
  BY DEF Variable
<1>2. t \in {AliCloudKMS, AWSKMS, AzureKeyVault, GCPKMS, OCIKMS, PKCS11, Transit}
  BY DEF Translator
<1>3. t.prefix # "VAULT_"
  BY <1>2 DEF AliCloudKMS, AWSKMS, AzureKeyVault, GCPKMS, OCIKMS, PKCS11, Transit
<1>4. ASSUME a \in DOMAIN t.renamed
      PROVE  t.renamed[a][1] # "VAULT_"
             \/ t.renamed[a][2] \in {"addr", "token", "namespace", "ca_cert", "client_cert", "client_key",
                                     "skip_verify", "tls_server_name"}
  <2>1. CASE t = AliCloudKMS
    BY <1>4, <2>1 DEF AliCloudKMS
  <2>2. CASE t = AWSKMS
    BY <1>4, <2>2 DEF AWSKMS
  <2>3. CASE t = AzureKeyVault
    BY <1>4, <2>3 DEF AzureKeyVault
  <2>4. CASE t = GCPKMS
    BY <1>4, <2>4 DEF GCPKMS
  <2>5. CASE t = OCIKMS
    BY <1>4, <2>5 DEF OCIKMS
  <2>6. CASE t = PKCS11
    BY <1>4, <2>6 DEF PKCS11
  <2>7. CASE t = Transit
    BY <1>4, <2>7 DEF Transit
  <2> QED
    BY <1>2, <2>1, <2>2, <2>3, <2>4, <2>5, <2>6, <2>7
<1>5. \A b : <<t.prefix, a>>[1] = t.prefix /\ <<"VAULT_", b>>[1] = "VAULT_" /\ <<"VAULT_", b>>[2] = b
  OBVIOUS
<1>6. \A b \in TopLevel \union {"seal_type"} :
          b \notin {"addr", "token", "namespace", "ca_cert", "client_cert", "client_key",
                    "skip_verify", "tls_server_name"}
  BY DEF TopLevel
<1>7. \A b \in TopLevel \union {"seal_type"} : Variable(label, a) # <<"VAULT_", b>>
  <2> HIDE DEF t
  <2> QED
    BY <1>1, <1>3, <1>4, <1>5, <1>6
<1>8. \A x : UsersOwn(x) /\ x[1] \notin {"VAULT_", "AWS_"} => Variable(label, a) # x
  BY <1>1, <1>5 DEF UsersOwn
<1> QED
  BY <1>7, <1>8 DEF SealType

(* The blocks that Render writes for seals.                                 *)
SealBlock(C) == Block("seal", C.seal.Type.Val, NestedValues(C.seal.Attrs), {})
SealsBlock(C, n) == Block("seal", C.seals.blocks[n].Type.Val, SealAttributes(C, n), {})
SealBlocks(C, mode) ==
    (IF SealWritten(C) /\ mode = "file" THEN {SealBlock(C)} ELSE {})
    \union (IF SealsInEnv(C, mode) THEN {} ELSE {SealsBlock(C, n) : n \in SealsWritten(C)})

(* Which of the blocks Render puts in the file have which name. *)
LEMMA BlocksByName ==
    ASSUME NEW C, NEW mode, NEW blocks, blocks = RenderHCL(C, mode).blocks
    PROVE  /\ {b \in blocks : b.name = "listener"} = ListenerBlock(C.listener)
           /\ {b \in blocks : b.name = "storage"} = StorageBlock(C)
           /\ {b \in blocks : b.name = "seal"} = SealBlocks(C, mode)
<1> DEFINE T == IF GetObject(C.telemetry.Object)
                THEN {Block("telemetry", Empty, NestedValues(C.telemetry.Object), {})} ELSE {}
           L == ListenerBlock(C.listener)
           S == StorageBlock(C)
           X == SealBlocks(C, mode)
<1>1. blocks = ((L \union S) \union X) \union T
  BY DEF RenderHCL, SealBlocks, SealBlock, SealsBlock
<1>2. \A b \in T : b.name = "telemetry"
  BY DEF Block
<1>3. \A b \in L : b.name = "listener"
  BY DEF ListenerBlock, Block
<1>4. \A b \in S : b.name = "storage"
  BY DEF StorageBlock, Block
<1>5. \A b \in X : b.name = "seal"
  BY DEF SealBlocks, SealBlock, SealsBlock, Block
<1> HIDE DEF T, L, S, X
<1>6. /\ {b \in blocks : b.name = "listener"} = L
      /\ {b \in blocks : b.name = "storage"} = S
      /\ {b \in blocks : b.name = "seal"} = X
  BY <1>1, <1>2, <1>3, <1>4, <1>5
<1> QED
  BY <1>6 DEF L, S, X

(* A block that is there, alone, holds what is asked for.                   *)
LEMMA OneHolds ==
    ASSUME NEW blocks, NEW name, NEW label, NEW attrs, NEW b \in blocks, b.name = name, b.label = label,
           \A a \in DOMAIN attrs : a \in DOMAIN b.attrs /\ b.attrs[a] = attrs[a],
           \A x \in blocks : x.name = name /\ x.label = label
              /\ (\A a \in DOMAIN attrs : a \in DOMAIN x.attrs /\ x.attrs[a] = attrs[a]) => x = b
    PROVE  Holds(blocks, name, label, attrs)
<1>1. {x \in blocks : /\ x.name = name /\ x.label = label
                      /\ \A a \in DOMAIN attrs : a \in DOMAIN x.attrs /\ x.attrs[a] = attrs[a]} = {b}
  OBVIOUS
<1>2. Cardinality({b}) = 1
  BY Zenon, FS_Singleton
<1> QED
  BY Zenon, <1>1, <1>2 DEF Holds

(* Without a block of the name the file holds no stanza of that name. *)
LEMMA NoneHolds ==
    ASSUME NEW blocks, NEW name, NEW label, NEW attrs, {b \in blocks : b.name = name} = {}
    PROVE  ~Holds(blocks, name, label, attrs)
<1>1. {x \in blocks : /\ x.name = name /\ x.label = label
                      /\ \A a \in DOMAIN attrs : a \in DOMAIN x.attrs /\ x.attrs[a] = attrs[a]} = {}
  OBVIOUS
<1> QED
  BY <1>1, FS_EmptySet DEF Holds

(* The listener and the storage are in the file in either mode, with all     *)
(* the attributes the user wrote; raft's default path gives way to the       *)
(* user's.                                                                   *)
LEMMA StanzasIn ==
    ASSUME NEW w, VaultWire(w), VaultDecodes(w), Unambiguous(w)
    PROVE  StanzasAreIn(Files(w), w.v.config.v)
<1> DEFINE C == Started(w)
           c == w.v.config.v
           blocks == Files(w).hcl.blocks
<1>1. /\ StanzaWire(c["listener"]) /\ StanzaWire(c["storage"])
      /\ StanzaDecodes(ListenerParts, c["listener"]) /\ StanzaDecodes(StorageParts, c["storage"])
      /\ StanzaPlain(c["listener"]) /\ StanzaPlain(c["storage"])
  BY DEF VaultWire, ConfigWire, VaultDecodes, ConfigDecodes, ListenerDecodes, StorageDecodes, Unambiguous
<1>2. C.listener = StanzaFrom(ListenerParts, c["listener"]) /\ C.storage = StanzaFrom(StorageParts, c["storage"])
  BY StartedIs DEF Unambiguous, ListenerFrom, StorageFrom
<1>3. /\ {b \in blocks : b.name = "listener"} = ListenerBlock(C.listener)
      /\ {b \in blocks : b.name = "storage"} = StorageBlock(C)
  BY BlocksByName DEF Files
<1> HIDE DEF C, c, blocks
<1>4. ASSUME NEW s \in {"listener", "storage"}, Stands(c[s])
      PROVE  Holds(blocks, s, c[s].v["type"].v, c[s].v["attributes"].v)
  <2> DEFINE attrs == c[s].v["attributes"].v
             label == c[s].v["type"].v
  <2> SUFFICES Holds(blocks, s, label, attrs)
    OBVIOUS
  <2>1. ASSUME NEW y, y.name = s, y.label = label, {x \in blocks : x.name = s} = {y},
               \A a \in DOMAIN attrs : a \in DOMAIN y.attrs /\ y.attrs[a] = attrs[a]
        PROVE  Holds(blocks, s, label, attrs)
    <3> HIDE DEF attrs, label
    <3>1. y \in blocks /\ \A x \in blocks : x.name = s => x = y
      BY <2>1
    <3> QED
      BY <2>1, <3>1, OneHolds
  <2>2. CASE s = "listener"
    <3> DEFINE l == C.listener
    <3>1. /\ Get(l.Type) /\ l.Type.Val = label /\ GetObject(l.parts["attributes"].Object)
          /\ NestedValues(l.parts["attributes"].Object) = attrs
      BY <1>1, <1>2, <1>4, <2>2, StanzaIs DEF ListenerParts
    <3> DEFINE b == Block("listener", label, attrs, SubBlocks(l.parts, ListenerParts \ {"attributes"}))
    <3>2. ListenerBlock(l) = {b}
      BY <3>1 DEF ListenerBlock, AttributesOrNone
    <3>3. b.name = "listener" /\ b.label = label /\ b.attrs = attrs
      BY DEF Block
    <3>4. {x \in blocks : x.name = s} = {b}
      BY Zenon, <1>3, <2>2, <3>2 DEF l
    <3> HIDE DEF b, l, attrs, label
    <3> QED
      BY <2>1, <2>2, <3>3, <3>4
  <2>3. CASE s = "storage"
    <3> DEFINE S == C.storage
    <3>1. /\ Get(S.Type) /\ S.Type.Val = label /\ GetObject(S.parts["attributes"].Object)
          /\ NestedValues(S.parts["attributes"].Object) = attrs
      BY <1>1, <1>2, <1>4, <2>3, StanzaIs DEF StorageParts
    <3> DEFINE path == [path |-> Known("string", <<"/opt/raft/data">>)]
               raft == Block("storage", label, Override(path, attrs), {Block("retry_join", Empty, RetryJoin(C), {})})
               plain == Block("storage", label, attrs, {})
    <3>2. StorageBlock(C) = {IF RaftDefaults(S) THEN raft ELSE plain}
      BY <3>1 DEF StorageBlock, AttributesOrNone
    <3>3. /\ raft.name = "storage" /\ raft.label = label /\ raft.attrs = Override(path, attrs)
          /\ plain.name = "storage" /\ plain.label = label /\ plain.attrs = attrs
      BY DEF Block
    <3>5. {x \in blocks : x.name = s} = {IF RaftDefaults(S) THEN raft ELSE plain}
      BY Zenon, <1>3, <2>3, <3>2
    <3> HIDE DEF raft, plain, S, path, attrs, label
    <3>4. \A a \in DOMAIN attrs : a \in DOMAIN Override(path, attrs) /\ Override(path, attrs)[a] = attrs[a]
      BY DEF Override
    <3> QED
      BY <2>1, <2>3, <3>3, <3>4, <3>5
  <2> QED
    BY <2>2, <2>3
<1> QED
  BY <1>4 DEF StanzasAreIn, c, blocks

(* What the environment sets for the seals.                                 *)
SealVars(C, mode) ==
    IF SealWritten(C) /\ mode = "env" THEN ToEnvVars(C.seal.Type.Val[1], NestedValues(C.seal.Attrs)) ELSE Empty
Names(C, mode) == IF SealsInEnv(C, mode) THEN SealsWritten(C) ELSE {}
SealsVars(C, mode) ==
    LET last == CHOOSE n \in Names(C, mode) : TRUE IN
    IF Names(C, mode) = {} THEN Empty
    ELSE ToEnvVars(C.seals.blocks[last].Type.Val[1], SealAttributes(C, last))
TopVars(C, mode) ==
    IF mode = "env" THEN [x \in {<<"VAULT_", a>> : a \in SetOnTop(C)} |-> InVariable(C, x[2])] ELSE Empty

(* The order of Render for the environment: what stands on top, the seal,    *)
(* then one of the seals.                                                    *)
LEMMA EnvIs ==
    ASSUME NEW C, NEW mode
    PROVE  RenderEnv(C, mode) = Override(Override(TopVars(C, mode), SealVars(C, mode)), SealsVars(C, mode))
BY DEF RenderEnv, TopVars, SealVars, Names, SealsVars

(* A name that only a seal can set: SealType, or one its translator makes.  *)
OfASeal(x) == x = SealType \/ \E label \in DOMAIN Translator : \E a : x = Variable(label, a)

(* What the seals set in the environment, only in that mode, are variables   *)
(* of a type that has a translator.                                          *)
LEMMA VarsOfSeals ==
    ASSUME NEW C, NEW mode, CanRender(C, mode),
           NEW x \in DOMAIN SealVars(C, mode) \union DOMAIN SealsVars(C, mode)
    PROVE  mode = "env" /\ OfASeal(x)
<1>1. ASSUME NEW label, NEW attrs, label \in DOMAIN Translator, x \in DOMAIN ToEnvVars(label, attrs)
      PROVE  OfASeal(x)
  <2>1. x \in {SealType} \union {Variable(label, a) : a \in DOMAIN attrs \ Translator[label].drops}
    BY <1>1 DEF ToEnvVars
  <2> QED
    BY <1>1, <2>1 DEF OfASeal
<1>2. DOMAIN Empty = {}
  BY DEF Empty
<1>3. CASE x \in DOMAIN SealVars(C, mode)
  <2>1. SealWritten(C) /\ mode = "env"
    BY <1>2, <1>3 DEF SealVars
  <2>2. C.seal.Type.Val[1] \in DOMAIN Translator
    BY <2>1 DEF CanRender, CanTranslate
  <2> QED
    BY <1>1, <1>3, <2>1, <2>2 DEF SealVars
<1>4. CASE x \in DOMAIN SealsVars(C, mode)
  <2> DEFINE last == CHOOSE n \in Names(C, mode) : TRUE
  <2>1. Names(C, mode) # {}
    BY <1>2, <1>4 DEF SealsVars
  <2>2. last \in Names(C, mode)
    BY <2>1
  <2>3. SealsInEnv(C, mode) /\ last \in SealsWritten(C)
    BY <2>2 DEF Names
  <2>4. C.seals.blocks[last].Type.Val[1] \in DOMAIN Translator
    BY <2>3 DEF CanRender, CanTranslate
  <2>5. x \in DOMAIN ToEnvVars(C.seals.blocks[last].Type.Val[1], SealAttributes(C, last))
    BY <1>4, <2>1 DEF SealsVars
  <2>6. mode = "env"
    BY <2>3 DEF SealsInEnv
  <2> HIDE DEF last
  <2> QED
    BY <1>1, <2>4, <2>5, <2>6
<1> QED
  BY <1>3, <1>4

(* What stands on top is in the file or, in the other mode, in a variable    *)
(* that no seal sets.                                                        *)
LEMMA TopIn ==
    ASSUME NEW w, VaultWire(w), HasValue(w.v.config), CanStart(w)
    PROVE  TopIsIn(Files(w), w.v.config.v)
<1> DEFINE C == Started(w)
           c == w.v.config.v
           mode == Mode(w)
           f == Files(w)
<1>1. CanRender(C, mode) /\ mode \in {"env", "file"}
  BY DEF CanStart, CanRender
<1>2. /\ f.hcl.attrs = Override(IF mode = "file" THEN [a \in SetOnTop(C) |-> C.scalars[a].Val] ELSE Empty,
                                IF NeedsMultiseal(C.seals) THEN [enable_multiseal |-> <<TRUE>>] ELSE Empty)
      /\ f.env = Override(UserVars(w), RenderEnv(C, mode))
  BY DEF Files, RenderHCL
<1>3. \A a \in TopLevel : HasValue(c[a]) => a \in SetOnTop(C) /\ C.scalars[a].Val = c[a].v
  BY StartedIs DEF SetOnTop
<1>0. DOMAIN Empty = {}
  BY DEF Empty
<1> HIDE DEF C, c, mode, f
<1>4. ASSUME NEW a \in TopLevel, HasValue(c[a])
      PROVE  \/ a \in DOMAIN f.hcl.attrs /\ f.hcl.attrs[a] = c[a].v
             \/ /\ <<"VAULT_", a>> \in DOMAIN f.env
                /\ f.env[<<"VAULT_", a>>] = IF a = "ui" THEN FormatBool(c[a].v) ELSE c[a].v
  <2>1. a \in SetOnTop(C) /\ C.scalars[a].Val = c[a].v
    BY <1>3, <1>4
  <2>2. CASE mode = "file"
    <3> DEFINE top == [x \in SetOnTop(C) |-> C.scalars[x].Val]
               more == IF NeedsMultiseal(C.seals) THEN [enable_multiseal |-> <<TRUE>>] ELSE Empty
    <3>1. f.hcl.attrs = Override(top, more)
      BY <1>2, <2>2
    <3>2. a \notin DOMAIN more
      BY <1>0 DEF TopLevel
    <3>3. a \in DOMAIN top /\ top[a] = c[a].v
      BY <2>1
    <3> HIDE DEF top, more
    <3> QED
      BY <3>1, <3>2, <3>3 DEF Override
  <2>3. CASE mode = "env"
    <3> DEFINE x == <<"VAULT_", a>>
               top == TopVars(C, mode)
               seal == SealVars(C, mode)
               seals == SealsVars(C, mode)
    <3>1. top = [y \in {<<"VAULT_", b>> : b \in SetOnTop(C)} |-> InVariable(C, y[2])]
      BY <2>3 DEF TopVars
    <3>2. x \in DOMAIN top /\ top[x] = InVariable(C, a)
      BY <2>1, <3>1
    <3>3. InVariable(C, a) = IF a = "ui" THEN FormatBool(c[a].v) ELSE c[a].v
      BY <2>1 DEF InVariable
    <3>4. x # SealType
      BY DEF SealType, TopLevel
    <3>5. ~OfASeal(x)
      BY <3>4, VariablesApart DEF OfASeal
    <3>6. x \notin DOMAIN seal /\ x \notin DOMAIN seals
      BY <1>1, <3>5, VarsOfSeals
    <3>7. f.env = Override(UserVars(w), Override(Override(top, seal), seals))
      BY <1>2, EnvIs
    <3> HIDE DEF top, seal, seals, x
    <3>8. x \in DOMAIN Override(top, seal) /\ Override(top, seal)[x] = top[x]
      BY <3>2, <3>6 DEF Override
    <3> DEFINE both == Override(top, seal)
               all == Override(both, seals)
    <3>9. x \in DOMAIN both /\ both[x] = top[x]
      BY <3>8
    <3>10. x \in DOMAIN all /\ all[x] = top[x]
      <4> HIDE DEF both
      <4> QED
        BY <3>6, <3>9 DEF Override
    <3> HIDE DEF all
    <3>11. x \in DOMAIN f.env /\ f.env[x] = top[x]
      BY <3>7, <3>10 DEF Override, all
    <3> QED
      BY <3>2, <3>3, <3>11 DEF x
  <2> QED
    BY <1>1, <2>2, <2>3
<1> QED
  BY Zenon, <1>4 DEF TopIsIn, c, f

(* The user's variables, decoded by startVault: all of them, as they have    *)
(* values.                                                                   *)
LEMMA UserVarsAre ==
    ASSUME NEW w, VaultWire(w), Unambiguous(w), NEW e, e = w.v.environment
    PROVE  /\ HasValue(e) => DOMAIN UserVars(w) = DOMAIN e.v /\ \A x \in DOMAIN e.v : UserVars(w)[x] = e.v[x].v
           /\ ~HasValue(e) => DOMAIN UserVars(w) = {}
<1> DEFINE h == Decode(e)
           h0 == [a \in DOMAIN e.v |-> StringFrom(New("string"), e.v[a])]
<1>1. e.t = "stringMap"
  BY DEF VaultWire
<1>2. h = FlatFrom(e)
  BY <1>1 DEF Decode, IsDynamic
<1>3. h = StringMapFrom(New("stringMap"), e)
  BY <1>1, <1>2 DEF FlatFrom
<1>4. UserVars(w) = [x \in (IF Get(h) THEN {y \in DOMAIN h.Val : Get(h.Val[y])} ELSE {}) |-> h.Val[x].Val]
  BY DEF UserVars
<1>5. DOMAIN h0 = DOMAIN e.v
  OBVIOUS
<1>6. ASSUME HasValue(e)
      PROVE  DOMAIN UserVars(w) = DOMAIN e.v /\ \A x \in DOMAIN e.v : UserVars(w)[x] = e.v[x].v
  <2>1. h = Set(New("stringMap"), h0)
    BY <1>3, <1>6 DEF StringMapFrom
  <2>2. Get(h) /\ h.Val = h0
    <3> HIDE DEF h0, h
    <3> QED
      BY <2>1 DEF Get, Set
  <2>3. \A x \in DOMAIN e.v : Get(h0[x]) /\ h0[x].Val = e.v[x].v
    <3>1. \A x \in DOMAIN e.v : HasValue(e.v[x])
      BY <1>6 DEF Unambiguous
    <3> QED
      BY <3>1, StringHolder
  <2> HIDE DEF h0, h
  <2>4. {y \in DOMAIN h.Val : Get(h.Val[y])} = DOMAIN e.v
    BY <1>5, <2>2, <2>3
  <2> QED
    BY <1>4, <2>2, <2>3, <2>4
<1>7. ASSUME ~HasValue(e)
      PROVE  DOMAIN UserVars(w) = {}
  <2>1. h = Flag(New("stringMap"), e)
    BY <1>3, <1>7 DEF StringMapFrom
  <2>2. h.Null
    BY <2>1, HolderOf
  <2> HIDE DEF h
  <2> QED
    BY <1>4, <2>2 DEF Get
<1> QED
  BY <1>6, <1>7

(* The user's variables are all in the file of the environment, and those    *)
(* the configuration does not set keep the user's value.                     *)
LEMMA UserVarsIn ==
    ASSUME NEW w, VaultWire(w), CanStart(w), Unambiguous(w)
    PROVE  UserVarsAreIn(Files(w), w.v.environment)
<1> DEFINE C == Started(w)
           mode == Mode(w)
           e == w.v.environment
           f == Files(w)
           rendered == RenderEnv(C, mode)
<1>1. CanRender(C, mode)
  BY DEF CanStart
<1>2. f.env = Override(UserVars(w), rendered)
  BY DEF Files
<1>3. HasValue(e) => DOMAIN UserVars(w) = DOMAIN e.v /\ \A x \in DOMAIN e.v : UserVars(w)[x] = e.v[x].v
  BY UserVarsAre
<1>4. ASSUME NEW x, UsersOwn(x), x[1] \notin {"VAULT_", "AWS_"}
      PROVE  x \notin DOMAIN rendered
  <2> DEFINE top == TopVars(C, mode)
             seal == SealVars(C, mode)
             seals == SealsVars(C, mode)
             both == Override(top, seal)
  <2>1. rendered = Override(both, seals)
    BY EnvIs
  <2>2. ~OfASeal(x)
    BY <1>4, VariablesApart DEF OfASeal, UsersOwn
  <2>3. x \notin DOMAIN seal /\ x \notin DOMAIN seals
    BY <1>1, <2>2, VarsOfSeals
  <2>4. x \notin DOMAIN top
    <3>1. DOMAIN Empty = {}
      BY DEF Empty
    <3>2. \A b : <<"VAULT_", b>>[1] = "VAULT_"
      OBVIOUS
    <3>3. \A y \in DOMAIN top : y[1] = "VAULT_"
      BY <3>1, <3>2 DEF TopVars
    <3> QED
      BY <1>4, <3>3
  <2> HIDE DEF top, seal, seals
  <2>5. x \notin DOMAIN both
    BY <2>3, <2>4 DEF Override
  <2> HIDE DEF both
  <2> QED
    BY <2>1, <2>3, <2>5 DEF Override
<1>5. HasValue(e) => \A x \in DOMAIN e.v : UsersOwn(x)
  BY DEF Unambiguous
<1> HIDE DEF C, mode, rendered, e, f
<1>6. ASSUME HasValue(e), NEW x \in DOMAIN e.v
      PROVE  x \in DOMAIN f.env /\ (x[1] \notin {"VAULT_", "AWS_"} => f.env[x] = e.v[x].v)
  BY <1>2, <1>3, <1>4, <1>5, <1>6 DEF Override
<1> QED
  BY <1>6 DEF UserVarsAreIn, e, f

(* What Render knows of the seals is what the user wrote: C is the decoded  *)
(* configuration c.                                                         *)
SealsKnown(C, c) ==
    /\ HasValue(c["seals"]) => ~SealWritten(C)
    /\ ~HasValue(c["seals"]) => ~NeedsMultiseal(C.seals)
    /\ IsSeal(c["seal"]) => SealWritten(C) /\ ~HasValue(c["seals"])
    /\ IsSeal(c["seal"]) =>
          /\ C.seal.Type.Val = c["seal"].v["type"].v
          /\ c["seal"].v["type"].v = <<c["seal"].v["type"].v[1]>>
          /\ NestedValues(C.seal.Attrs) = c["seal"].v["attributes"].v
          /\ DOMAIN c["seal"].v["attributes"].v \cap Named = {}
    /\ SealsWritten(C) = SealsOf(c)
    /\ \A n \in SealsOf(c) :
          LET s == c["seals"].v[n] IN
          /\ n \in SealNames /\ n \in DOMAIN c["seals"].v /\ HasValue(c["seals"])
          /\ C.seals.blocks[n].Type.Val = s.v["type"].v
          /\ s.v["type"].v = <<s.v["type"].v[1]>>
          /\ NestedValues(C.seals.blocks[n].Attrs) = s.v["attributes"].v
          /\ DOMAIN s.v["attributes"].v \cap Named = {}
          /\ ~C.seals.blocks[n].Null

(* Which seals Render finds, with which label and attributes, is what the    *)
(* user wrote.                                                               *)
LEMMA SealsAreKnown ==
    ASSUME NEW w, VaultWire(w), VaultDecodes(w), Unambiguous(w)
    PROVE  SealsKnown(Started(w), w.v.config.v)
<1> DEFINE C == Started(w)
           c == w.v.config.v
           S == c["seals"]
           q == c["seal"]
<1>1. /\ SealWire(q) /\ ConfigBlockDecodes(q) /\ SealClear(q)
      /\ SealsWire(S) /\ SealsDecode(S)
      /\ HasValue(S) => ~Stands(q) /\ \A n \in DOMAIN S.v : SealClear(S.v[n])
  BY Zenon DEF VaultWire, ConfigWire, VaultDecodes, ConfigDecodes, Unambiguous
<1>2. C.seal = ConfigBlockFrom(q) /\ C.seals = SealsFrom(S)
  BY StartedIs DEF Unambiguous
<1>3. SealsOf(c) = IF HasValue(S) THEN {n \in DOMAIN S.v : IsSeal(S.v[n])} ELSE {}
  BY DEF SealsOf
<1> HIDE DEF C, S, q
<1>4. /\ SealWritten(C) <=> Stands(q) /\ q.v["type"].v[1] \notin {"shamir"}
      /\ Stands(q) => /\ C.seal.Type.Val = q.v["type"].v /\ q.v["type"].v = <<q.v["type"].v[1]>>
                      /\ NestedValues(C.seal.Attrs) = q.v["attributes"].v
                      /\ DOMAIN q.v["attributes"].v \cap Named = {}
  BY <1>1, <1>2, SealIs DEF SealWritten
<1>5. IsSeal(q) => Stands(q) /\ SealWritten(C)
  <2>1. IsSeal(q) => Stands(q) /\ q.v["type"].v # <<"shamir">>
    BY Zenon DEF IsSeal
  <2> QED
    BY <1>4, <2>1
<1>6. \A n \in SealNames :
          /\ n \in SealsWritten(C) <=> HasValue(S) /\ n \in DOMAIN S.v /\ IsSeal(S.v[n])
          /\ HasValue(S) /\ n \in DOMAIN S.v => C.seals.blocks[n] = ConfigBlockFrom(S.v[n])
          /\ ~HasValue(S) => C.seals.blocks[n].Null
  BY <1>1, <1>2, SealsAre DEF SealsWritten
<1>7. SealsWritten(C) \subseteq SealNames /\ (HasValue(S) => DOMAIN S.v \subseteq SealNames)
  BY <1>1 DEF SealsWritten, SealsDecode
<1>8. SealsWritten(C) = SealsOf(c)
  BY <1>3, <1>6, <1>7
<1>9. ASSUME NEW n \in SealsOf(c)
      PROVE  LET s == S.v[n] IN
             /\ n \in SealNames /\ n \in DOMAIN S.v /\ HasValue(S)
             /\ C.seals.blocks[n].Type.Val = s.v["type"].v
             /\ s.v["type"].v = <<s.v["type"].v[1]>>
             /\ NestedValues(C.seals.blocks[n].Attrs) = s.v["attributes"].v
             /\ DOMAIN s.v["attributes"].v \cap Named = {}
             /\ ~C.seals.blocks[n].Null
  <2> DEFINE s == S.v[n]
  <2>1. n \in SealNames /\ n \in DOMAIN S.v /\ HasValue(S) /\ IsSeal(s)
    BY <1>3, <1>7, <1>9
  <2>2. Stands(s) /\ SealWire(s) /\ ConfigBlockDecodes(s) /\ SealClear(s)
    BY <1>1, <2>1 DEF IsSeal, SealsWire, SealsDecode
  <2>3. C.seals.blocks[n] = ConfigBlockFrom(s)
    BY <1>6, <2>1
  <2> HIDE DEF s
  <2>4. /\ C.seals.blocks[n].Type.Val = s.v["type"].v /\ s.v["type"].v = <<s.v["type"].v[1]>>
        /\ NestedValues(C.seals.blocks[n].Attrs) = s.v["attributes"].v
        /\ DOMAIN s.v["attributes"].v \cap Named = {}
        /\ ~C.seals.blocks[n].Null
    BY <2>2, <2>3, SealIs
  <2> QED
    BY <2>1, <2>4 DEF s
<1>10. ~HasValue(S) => ~NeedsMultiseal(C.seals)
  BY <1>6 DEF NeedsMultiseal
<1>11. /\ HasValue(S) => ~SealWritten(C)
       /\ IsSeal(q) => SealWritten(C) /\ ~HasValue(S)
  BY <1>1, <1>4, <1>5
<1>12. IsSeal(q) => /\ C.seal.Type.Val = q.v["type"].v /\ q.v["type"].v = <<q.v["type"].v[1]>>
                    /\ NestedValues(C.seal.Attrs) = q.v["attributes"].v
                    /\ DOMAIN q.v["attributes"].v \cap Named = {}
  BY <1>4, <1>5
<1> HIDE DEF c
<1>13. SealsKnown(C, c)
  BY <1>8, <1>9, <1>10, <1>11, <1>12 DEF SealsKnown, S, q
<1> QED
  BY <1>13 DEF C, c

(* ToEnvVars loses nothing of a seal whose attributes have variables of      *)
(* their own: its type and every attribute are there.                        *)
LEMMA VarsHold ==
    ASSUME NEW label, NEW attrs, NEW given, label \in DOMAIN Translator,
           DOMAIN attrs \ Named = DOMAIN given,
           \A a \in DOMAIN given : attrs[a] = given[a],
           \A a, b \in DOMAIN given : a # b => Variable(label, a) # Variable(label, b),
           NEW env,
           \A x \in DOMAIN ToEnvVars(label, attrs) : x \in DOMAIN env /\ env[x] = ToEnvVars(label, attrs)[x]
    PROVE  InEnv(env, <<label>>, given)
<1> DEFINE sealVars == ToEnvVars(label, attrs)
           kept == DOMAIN attrs \ Translator[label].drops
           at(x) == CHOOSE a \in kept : Variable(label, a) = x
<1>1. sealVars = [x \in {SealType} \union {Variable(label, a) : a \in kept} |->
                 IF x = SealType THEN <<label>> ELSE attrs[at(x)].v]
  BY DEF ToEnvVars
<1>2. /\ Named \subseteq Translator[label].drops
      /\ Translator[label].drops \subseteq Named \union {"key_id_prefix"}
  <2>1. Translator[label] \in {AliCloudKMS, AWSKMS, AzureKeyVault, GCPKMS, OCIKMS, PKCS11, Transit}
    BY DEF Translator
  <2> QED
    BY <2>1 DEF AliCloudKMS, AWSKMS, AzureKeyVault, GCPKMS, OCIKMS, PKCS11, Transit
<1>3. kept \subseteq DOMAIN given /\ DOMAIN given \ {"key_id_prefix"} \subseteq kept
  BY <1>2
<1>0. \A x \in DOMAIN sealVars : x \in DOMAIN env /\ env[x] = sealVars[x]
  OBVIOUS
<1> HIDE DEF kept, sealVars
<1>4. SealType \in DOMAIN sealVars /\ sealVars[SealType] = <<label>>
  BY <1>1
<1>5. ASSUME NEW a \in DOMAIN given \ {"key_id_prefix"}
      PROVE  \E x \in DOMAIN env : env[x] = given[a].v
  <2> DEFINE x == Variable(label, a)
  <2>1. a \in kept /\ x # SealType
    BY <1>3, VariablesApart
  <2>2. at(x) \in kept /\ Variable(label, at(x)) = x
    BY <2>1
  <2>3. at(x) = a
    <3> DEFINE b == at(x)
    <3>1. b \in DOMAIN given /\ a \in DOMAIN given /\ Variable(label, b) = Variable(label, a)
      BY <1>3, <2>2
    <3> HIDE DEF b
    <3>2. b = a
      BY <3>1
    <3> QED
      BY <3>2 DEF b
  <2>4. x \in DOMAIN sealVars /\ sealVars[x] = attrs[a].v
    <3>1. x \in {SealType} \union {Variable(label, y) : y \in kept}
      BY <2>1
    <3> HIDE DEF x
    <3>2. x \in DOMAIN sealVars /\ sealVars[x] = attrs[at(x)].v
      BY <1>1, <2>1, <3>1
    <3> HIDE DEF at
    <3> QED
      BY <2>3, <3>2
  <2> HIDE DEF x
  <2> QED
    BY <1>0, <1>3, <2>1, <2>4
<1> QED
  BY <1>0, <1>4, <1>5 DEF InEnv

(* Without a seal in the environment the variable for the type of a seal is  *)
(* not set.                                                                  *)
LEMMA NoSealVars ==
    ASSUME NEW w, VaultWire(w), Unambiguous(w), NEW C, NEW mode,
           SealVars(C, mode) = Empty, SealsVars(C, mode) = Empty, NEW label, NEW attrs
    PROVE  ~InEnv(Override(UserVars(w), RenderEnv(C, mode)), label, attrs)
<1>0. DOMAIN Empty = {}
  BY DEF Empty
<1>1. SealType \notin DOMAIN UserVars(w)
  BY UserVarsAre DEF Unambiguous, UsersOwn
<1>2. SealType \notin DOMAIN TopVars(C, mode)
  <2>1. \A y \in DOMAIN TopVars(C, mode) : \E a \in TopLevel : y = <<"VAULT_", a>>
    BY <1>0 DEF TopVars, SetOnTop
  <2>2. \A a \in TopLevel : <<"VAULT_", a>> # SealType
    BY DEF SealType, TopLevel
  <2> QED
    BY <2>1, <2>2
<1>3. DOMAIN RenderEnv(C, mode) = DOMAIN TopVars(C, mode)
  BY Zenon, <1>0, EnvIs DEF Override
<1> QED
  BY <1>1, <1>2, <1>3 DEF InEnv, Override

(* The variables of the seal in the environment stay as they were rendered:  *)
(* nothing overrides them.                                                   *)
LEMMA VarsAreInEnv ==
    ASSUME NEW w, NEW C, NEW mode, NEW env, env = Override(UserVars(w), RenderEnv(C, mode)), NEW sealVars,
           SealsVars(C, mode) = sealVars \/ (SealsVars(C, mode) = Empty /\ SealVars(C, mode) = sealVars),
           NEW x \in DOMAIN sealVars
    PROVE  x \in DOMAIN env /\ env[x] = sealVars[x]
<1>0. DOMAIN Empty = {}
  BY DEF Empty
<1> DEFINE both == Override(TopVars(C, mode), SealVars(C, mode))
           all == Override(both, SealsVars(C, mode))
<1>1. SealVars(C, mode) = sealVars => x \in DOMAIN both /\ both[x] = sealVars[x]
  BY DEF Override
<1>2. RenderEnv(C, mode) = all
  BY EnvIs
<1> HIDE DEF both
<1>3. x \in DOMAIN all /\ all[x] = sealVars[x]
  BY <1>0, <1>1 DEF Override
<1> HIDE DEF all
<1> QED
  BY <1>2, <1>3 DEF Override

(* The attributes of a seal among several: those the user wrote, and the     *)
(* name and the priority Render gives it.                                    *)
LEMMA SealAttributesAre ==
    ASSUME NEW C, NEW n \in SealNames, DOMAIN NestedValues(C.seals.blocks[n].Attrs) \cap Named = {}
    PROVE  /\ DOMAIN SealAttributes(C, n) = DOMAIN NestedValues(C.seals.blocks[n].Attrs) \union Named
           /\ \A a \in DOMAIN NestedValues(C.seals.blocks[n].Attrs) :
                  SealAttributes(C, n)[a] = NestedValues(C.seals.blocks[n].Attrs)[a]
           /\ SealAttributes(C, n)["name"] = Known("string", <<n>>)
<1> DEFINE own == [priority |-> Known("string", <<Priority[n]>>), name |-> Known("string", <<n>>)]
           given == NestedValues(C.seals.blocks[n].Attrs)
<1>1. SealAttributes(C, n) = Override(own, given)
  BY DEF SealAttributes
<1>2. DOMAIN own = Named /\ own["name"] = Known("string", <<n>>) /\ "name" \in Named
  BY DEF Named
<1> HIDE DEF own, given
<1>3. DOMAIN given \cap Named = {}
  BY DEF given
<1>4. /\ DOMAIN Override(own, given) = DOMAIN given \union Named
      /\ \A a \in DOMAIN given : Override(own, given)[a] = given[a]
      /\ Override(own, given)["name"] = Known("string", <<n>>)
  BY <1>2, <1>3 DEF Override
<1> QED
  BY <1>1, <1>4 DEF given

(* A seal in the file is in exactly one block, since no other has all of     *)
(* its attributes, and not in the environment.                               *)
LEMMA SealsInFile ==
    ASSUME NEW w, VaultWire(w), VaultDecodes(w), Unambiguous(w), NEW n \in SealsOf(w.v.config.v),
           ~SealsInEnv(Started(w), Mode(w))
    PROVE  Once(Files(w), w.v.config.v.seals.v[n])
<1> DEFINE C == Started(w)
           c == w.v.config.v
           mode == Mode(w)
           blocks == Files(w).hcl.blocks
           s(m) == c["seals"].v[m]
           label == s(n).v["type"].v
           attrs == s(n).v["attributes"].v
<1>1. SealsKnown(C, c)
  BY SealsAreKnown
<1>2. {b \in blocks : b.name = "seal"} = SealBlocks(C, mode)
  BY BlocksByName DEF Files
<1>3. ~SealWritten(C) /\ SealsWritten(C) = SealsOf(c)
  BY Zenon, <1>1 DEF SealsKnown
<1>4. SealBlocks(C, mode) = {SealsBlock(C, m) : m \in SealsOf(c)}
  BY <1>3 DEF SealBlocks
<1>5. ASSUME NEW m \in SealsOf(c)
      PROVE  LET b == SealsBlock(C, m) IN
             /\ b.name = "seal" /\ b.label = s(m).v["type"].v
             /\ DOMAIN b.attrs = DOMAIN s(m).v["attributes"].v \union Named
             /\ \A a \in DOMAIN s(m).v["attributes"].v : b.attrs[a] = s(m).v["attributes"].v[a]
  <2> DEFINE given == s(m).v["attributes"].v
  <2>1. /\ m \in SealNames /\ C.seals.blocks[m].Type.Val = s(m).v["type"].v
        /\ NestedValues(C.seals.blocks[m].Attrs) = given /\ DOMAIN given \cap Named = {}
    BY Zenon, <1>1 DEF SealsKnown
  <2>2. SealsBlock(C, m) = [name |-> "seal", label |-> C.seals.blocks[m].Type.Val,
                            attrs |-> SealAttributes(C, m), blocks |-> {}]
    BY DEF SealsBlock, Block
  <2> HIDE DEF C, c, s
  <2>3. /\ DOMAIN SealAttributes(C, m) = DOMAIN given \union Named
        /\ \A a \in DOMAIN given : SealAttributes(C, m)[a] = given[a]
    <3> HIDE DEF given
    <3> DEFINE nv == NestedValues(C.seals.blocks[m].Attrs)
               sa == SealAttributes(C, m)
    <3>1. nv = given
      BY <2>1
    <3>2. m \in SealNames /\ DOMAIN nv \cap Named = {}
      BY <2>1
    <3>3. DOMAIN sa = DOMAIN nv \union Named /\ \A a \in DOMAIN nv : sa[a] = nv[a]
      BY Zenon, <3>2, SealAttributesAre
    <3> HIDE DEF nv, sa
    <3>4. DOMAIN sa = DOMAIN given \union Named /\ \A a \in DOMAIN given : sa[a] = given[a]
      BY <3>1, <3>3
    <3> QED
      BY <3>4 DEF sa
  <2> QED
    BY <2>1, <2>2, <2>3
<1>6. \A m \in SealsOf(c) : n # m => ~PartOf(s(n), s(m))
  BY DEF Unambiguous
<1>7. DOMAIN attrs \cap Named = {}
  BY Zenon, <1>1 DEF SealsKnown
<1> DEFINE b == SealsBlock(C, n)
<1>8. ASSUME NEW x \in blocks, x.name = "seal", x.label = label,
             \A a \in DOMAIN attrs : a \in DOMAIN x.attrs /\ x.attrs[a] = attrs[a]
      PROVE  x = b
  <2>1. PICK m \in SealsOf(c) : x = SealsBlock(C, m)
    BY Zenon, <1>2, <1>4, <1>8
  <2>2. CASE m = n
    BY <2>1, <2>2
  <2>3. CASE m # n
    <3>1. /\ x.label = s(m).v["type"].v
          /\ DOMAIN x.attrs = DOMAIN s(m).v["attributes"].v \union Named
          /\ \A a \in DOMAIN s(m).v["attributes"].v : x.attrs[a] = s(m).v["attributes"].v[a]
      BY Zenon, <1>5, <2>1
    <3> HIDE DEF C, c, blocks, s
    <3>2. \A a \in DOMAIN attrs : a \in DOMAIN s(m).v["attributes"].v /\ attrs[a] = s(m).v["attributes"].v[a]
      BY <1>7, <1>8, <3>1
    <3>3. PartOf(s(n), s(m))
      BY <1>8, <3>1, <3>2 DEF PartOf
    <3> QED
      BY <1>6, <2>3, <3>3
  <2> QED
    BY <2>2, <2>3
<1>9. b \in blocks /\ b.name = "seal" /\ b.label = label
      /\ \A a \in DOMAIN attrs : a \in DOMAIN b.attrs /\ b.attrs[a] = attrs[a]
  BY Zenon, <1>2, <1>4, <1>5
<1>10. Holds(blocks, "seal", label, attrs)
  <2> HIDE DEF blocks, label, attrs, b
  <2> QED
    BY Zenon, <1>8, <1>9, OneHolds
<1>11. SealVars(C, mode) = Empty /\ SealsVars(C, mode) = Empty
  BY <1>3 DEF SealVars, SealsVars, Names
<1>12. ~InEnv(Files(w).env, label, attrs)
  BY <1>11, NoSealVars DEF Files
<1> QED
  BY Zenon, <1>10, <1>12 DEF Once

(* A seal in the environment is the only one there, so its variables are     *)
(* the last ones set, and it has no block.                                   *)
LEMMA SealsInVariables ==
    ASSUME NEW w, VaultWire(w), VaultDecodes(w), CanStart(w), Unambiguous(w), NEW n \in SealsOf(w.v.config.v),
           SealsInEnv(Started(w), Mode(w))
    PROVE  Once(Files(w), w.v.config.v.seals.v[n])
<1> DEFINE C == Started(w)
           c == w.v.config.v
           mode == Mode(w)
           blocks == Files(w).hcl.blocks
           env == Files(w).env
           s == c["seals"].v[n]
           label == s.v["type"].v
           given == s.v["attributes"].v
           attrs == SealAttributes(C, n)
<1>1. SealsKnown(C, c)
  BY SealsAreKnown
<1>2. ~SealWritten(C) /\ SealsWritten(C) = SealsOf(c)
  BY Zenon, <1>1 DEF SealsKnown
<1>3. {b \in blocks : b.name = "seal"} = {}
  BY <1>2, BlocksByName DEF Files, SealBlocks
<1>4. ~Holds(blocks, "seal", label, given)
  <2> HIDE DEF blocks, label, given
  <2> QED
    BY <1>3, NoneHolds
<1>5. SealsOf(c) = {n}
  <2>1. \A m \in SealsOf(c) : m \in SealNames /\ ~C.seals.blocks[m].Null
    BY Zenon, <1>1 DEF SealsKnown
  <2>2. ~NeedsMultiseal(C.seals)
    BY DEF SealsInEnv
  <2> HIDE DEF C, c
  <2> QED
    BY <2>1, <2>2 DEF NeedsMultiseal, c
<1>6. /\ n \in SealNames /\ n \in DOMAIN c["seals"].v /\ HasValue(c["seals"])
      /\ C.seals.blocks[n].Type.Val = label /\ label = <<label[1]>>
      /\ NestedValues(C.seals.blocks[n].Attrs) = given /\ DOMAIN given \cap Named = {}
  <2>1. n \in SealsOf(c)
    OBVIOUS
  <2> HIDE DEF C, c
  <2> QED
    BY <1>1, <2>1 DEF SealsKnown
<1>7. SealsVars(C, mode) = ToEnvVars(label[1], attrs)
  <2>1. Names(C, mode) = {n}
    BY <1>2, <1>5 DEF Names
  <2>2. (CHOOSE m \in {n} : TRUE) = n
    OBVIOUS
  <2> QED
    BY Zenon, <1>6, <2>1, <2>2 DEF SealsVars
<1>8. label[1] \in DOMAIN Translator
  <2>1. CanRender(C, mode) /\ SealsInEnv(C, mode) /\ n \in SealsWritten(C)
    BY <1>2 DEF CanStart
  <2> HIDE DEF C, c, mode
  <2>2. C.seals.blocks[n].Type.Val[1] \in DOMAIN Translator
    BY <2>1 DEF CanRender, CanTranslate
  <2> QED
    BY <1>6, <2>2
<1>9. \A a, b \in DOMAIN given : a # b => Variable(label[1], a) # Variable(label[1], b)
  <2>1. SealClear(s) /\ Stands(s)
    BY Zenon, <1>6 DEF Unambiguous, SealsOf, IsSeal
  <2> HIDE DEF s
  <2> QED
    BY <1>8, <2>1 DEF SealClear, Stands
<1>10. env = Override(UserVars(w), RenderEnv(C, mode))
  BY DEF Files
<1> HIDE DEF C, c, mode, s, env, blocks, label, given
<1>11. DOMAIN attrs = DOMAIN given \union Named /\ \A a \in DOMAIN given : attrs[a] = given[a]
  <2> DEFINE nv == NestedValues(C.seals.blocks[n].Attrs)
  <2>1. nv = given
    BY <1>6
  <2>2. n \in SealNames /\ DOMAIN nv \cap Named = {}
    BY <1>6
  <2>3. DOMAIN attrs = DOMAIN nv \union Named /\ \A a \in DOMAIN nv : attrs[a] = nv[a]
    BY Zenon, <2>2, SealAttributesAre
  <2> HIDE DEF nv, attrs
  <2> QED
    BY <2>1, <2>3
<1> HIDE DEF attrs
<1>14. DOMAIN attrs \ Named = DOMAIN given
  BY Zenon, <1>6, <1>11
<1>12. \A x \in DOMAIN ToEnvVars(label[1], attrs) : x \in DOMAIN env /\ env[x] = ToEnvVars(label[1], attrs)[x]
  BY <1>7, <1>10, VarsAreInEnv
<1>13. InEnv(env, <<label[1]>>, given)
  BY Zenon, <1>8, <1>9, <1>11, <1>12, <1>14, VarsHold
<1> QED
  BY Zenon, <1>4, <1>6, <1>13 DEF Once, env, blocks, label, given, s, c

(* The one seal of the seal block is in the file or in the environment, by   *)
(* the mode.                                                                 *)
LEMMA SealIn ==
    ASSUME NEW w, VaultWire(w), VaultDecodes(w), CanStart(w), Unambiguous(w), IsSeal(w.v.config.v.seal)
    PROVE  Once(Files(w), w.v.config.v.seal)
<1> DEFINE C == Started(w)
           c == w.v.config.v
           mode == Mode(w)
           blocks == Files(w).hcl.blocks
           env == Files(w).env
           s == c["seal"]
           label == s.v["type"].v
           attrs == s.v["attributes"].v
<1>1. SealsKnown(C, c)
  BY SealsAreKnown
<1>2. /\ SealWritten(C) /\ ~HasValue(c["seals"]) /\ ~NeedsMultiseal(C.seals)
      /\ C.seal.Type.Val = label /\ label = <<label[1]>>
      /\ NestedValues(C.seal.Attrs) = attrs /\ DOMAIN attrs \cap Named = {}
  <2>1. IsSeal(s)
    OBVIOUS
  <2> HIDE DEF C, c
  <2> QED
    BY <1>1, <2>1 DEF SealsKnown
<1>3. SealsWritten(C) = {}
  BY Zenon, <1>1, <1>2 DEF SealsKnown, SealsOf
<1>4. SealsVars(C, mode) = Empty
  BY <1>3 DEF SealsVars, Names
<1>5. {x \in blocks : x.name = "seal"} = SealBlocks(C, mode)
  BY BlocksByName DEF Files
<1>6. SealBlocks(C, mode) = IF mode = "file" THEN {SealBlock(C)} ELSE {}
  BY Zenon, <1>2, <1>3 DEF SealBlocks
<1>7. env = Override(UserVars(w), RenderEnv(C, mode))
  BY DEF Files
<1>8. mode \in {"env", "file"}
  BY DEF CanStart, CanRender
<1>9. CASE mode = "file"
  <2> DEFINE b == SealBlock(C)
  <2>1. b.name = "seal" /\ b.label = label /\ b.attrs = attrs
    BY Zenon, <1>2 DEF SealBlock, Block
  <2>2. {x \in blocks : x.name = "seal"} = {b}
    BY <1>5, <1>6, <1>9
  <2>3. Holds(blocks, "seal", label, attrs)
    <3> HIDE DEF b, blocks, label, attrs
    <3>1. b \in blocks /\ \A x \in blocks : x.name = "seal" => x = b
      BY <2>2
    <3> QED
      BY Zenon, <2>1, <3>1, OneHolds
  <2>4. SealVars(C, mode) = Empty
    BY <1>9 DEF SealVars
  <2>5. ~InEnv(env, label, attrs)
    BY <1>4, <1>7, <2>4, NoSealVars
  <2> HIDE DEF C, c, mode, s, env, blocks, label, attrs
  <2>6. Holds(blocks, "seal", label, attrs) # InEnv(env, label, attrs)
    BY Zenon, <2>3, <2>5
  <2> QED
    BY Zenon, <2>6 DEF Once, env, blocks, label, attrs, s, c
<1>10. CASE mode = "env"
  <2>1. ~Holds(blocks, "seal", label, attrs)
    <3>1. {x \in blocks : x.name = "seal"} = {}
      BY <1>5, <1>6, <1>10
    <3> HIDE DEF blocks, label, attrs
    <3> QED
      BY <3>1, NoneHolds
  <2>2. SealVars(C, mode) = ToEnvVars(label[1], attrs)
    <3> HIDE DEF C, c, mode
    <3> QED
      BY <1>2, <1>10 DEF SealVars
  <2>3. label[1] \in DOMAIN Translator
    <3>1. CanRender(C, mode)
      BY DEF CanStart
    <3> HIDE DEF C, c, mode
    <3> QED
      BY Zenon, <1>2, <1>10, <3>1 DEF CanRender, CanTranslate
  <2>4. \A a, b \in DOMAIN attrs : a # b => Variable(label[1], a) # Variable(label[1], b)
    <3>1. SealClear(s) /\ Stands(s)
      BY DEF Unambiguous, IsSeal
    <3> HIDE DEF s
    <3> QED
      BY <2>3, <3>1 DEF SealClear, Stands
  <2> HIDE DEF C, c, mode, s, env, blocks, label, attrs
  <2>5. \A x \in DOMAIN ToEnvVars(label[1], attrs) : x \in DOMAIN env /\ env[x] = ToEnvVars(label[1], attrs)[x]
    BY <1>4, <1>7, <2>2, VarsAreInEnv
  <2>6. DOMAIN attrs \ Named = DOMAIN attrs
    BY <1>2
  <2>7. InEnv(env, <<label[1]>>, attrs)
    BY Zenon, <2>3, <2>4, <2>5, <2>6, VarsHold
  <2> QED
    BY Zenon, <1>2, <2>1, <2>7 DEF Once, env, blocks, label, attrs, s, c
<1> QED
  BY <1>8, <1>9, <1>10

(* Several seals are all in the file, whatever the mode, with                *)
(* enable_multiseal and names of their own.                                  *)
LEMMA SeveralIn ==
    ASSUME NEW w, VaultWire(w), VaultDecodes(w), CanStart(w), Unambiguous(w),
           Cardinality(SealsOf(w.v.config.v)) > 1
    PROVE  LET f == Files(w) n == SealsOf(w.v.config.v) IN
           /\ "enable_multiseal" \in DOMAIN f.hcl.attrs
           /\ Cardinality({b.attrs["name"] : b \in {x \in f.hcl.blocks : x.name = "seal"}}) = Cardinality(n)
<1> DEFINE C == Started(w)
           c == w.v.config.v
           mode == Mode(w)
           N == SealsOf(c)
           f == Files(w)
           named == {b.attrs["name"] : b \in {x \in f.hcl.blocks : x.name = "seal"}}
<1>1. SealsKnown(C, c)
  BY SealsAreKnown
<1>2. ~SealWritten(C) /\ SealsWritten(C) = N
      /\ \A n \in N : /\ n \in SealNames /\ ~C.seals.blocks[n].Null
                      /\ DOMAIN NestedValues(C.seals.blocks[n].Attrs) \cap Named = {}
  <2>1. N # {}
    BY FS_EmptySet
  <2> QED
    BY Zenon, <1>1, <2>1 DEF SealsKnown
<1>3. f.hcl.attrs = Override(IF mode = "file" THEN [a \in SetOnTop(C) |-> C.scalars[a].Val] ELSE Empty,
                             IF NeedsMultiseal(C.seals) THEN [enable_multiseal |-> <<TRUE>>] ELSE Empty)
  BY DEF Files, RenderHCL
<1>4. {x \in f.hcl.blocks : x.name = "seal"} = SealBlocks(C, mode)
  BY BlocksByName DEF Files
<1> HIDE DEF C, c, mode, f
<1>5. IsFiniteSet(N)
  <2>1. IsFiniteSet(({} \union {"primary"}) \union {"secondary"} \union {"tertiary"})
    BY Zenon, FS_EmptySet, FS_AddElement
  <2>2. SealNames = ({} \union {"primary"}) \union {"secondary"} \union {"tertiary"}
    BY DEF SealNames
  <2>3. N \subseteq SealNames
    BY <1>2
  <2> QED
    BY <2>1, <2>2, <2>3, FS_Subset
<1>6. \E n, m \in N : n # m
  <2> SUFFICES ASSUME \A n, m \in N : n = m PROVE FALSE
    OBVIOUS
  <2>1. CASE N = {}
    BY <2>1, FS_EmptySet DEF c
  <2>2. CASE N # {}
    <3>1. PICK n \in N : TRUE
      BY <2>2
    <3>2. N = {n}
      BY <3>1
    <3>3. Cardinality(N) = 1
      BY Zenon, <3>2, FS_Singleton
    <3> QED
      BY <3>3 DEF c
  <2> QED
    BY <2>1, <2>2
<1>7. NeedsMultiseal(C.seals)
  BY <1>2, <1>6 DEF NeedsMultiseal
<1>8. "enable_multiseal" \in DOMAIN f.hcl.attrs
  BY <1>3, <1>7 DEF Override
<1>9. SealBlocks(C, mode) = {SealsBlock(C, n) : n \in N}
  BY <1>2, <1>7 DEF SealBlocks, SealsInEnv
<1>10. \A n \in N : SealsBlock(C, n).attrs["name"] = Known("string", <<n>>)
  BY Zenon, <1>2, SealAttributesAre DEF SealsBlock, Block
<1> DEFINE name == [n \in N |-> Known("string", <<n>>)]
<1>11. named = {name[n] : n \in N}
  <2>1. {x \in f.hcl.blocks : x.name = "seal"} = {SealsBlock(C, n) : n \in N}
    BY <1>4, <1>9
  <2>2. named = {SealsBlock(C, n).attrs["name"] : n \in N}
    BY <2>1
  <2> QED
    BY Zenon, <1>10, <2>2
<1>12. \A n, m \in N : name[n] = name[m] => n = m
  BY DEF Known
<1>15. name \in [N -> named]
  BY Zenon, <1>11
<1>16. \A t \in named : \E n \in N : name[n] = t
  BY Zenon, <1>11
<1> HIDE DEF N, named, name
<1>13. name \in Bijection(N, named)
  BY <1>12, <1>15, <1>16 DEF Bijection, Injection, Surjection, IsInjective
<1>14. Cardinality(named) = Cardinality(N)
  BY <1>5, <1>13, FS_Bijection DEF ExistsBijection
<1> QED
  BY <1>8, <1>14 DEF named, N, f, c

(* What startVault writes is all of the configuration, when nothing in that  *)
(* is ambiguous.                                                             *)
LEMMA FilesHoldIt ==
    ASSUME NEW w, VaultWire(w), VaultDecodes(w), CanStart(w), Unambiguous(w)
    PROVE  IsIn(w, Files(w))
<1> DEFINE c == w.v.config.v
           f == Files(w)
<1>1. StanzasAreIn(f, c) /\ UserVarsAreIn(f, w.v.environment)
  BY StanzasIn, UserVarsIn
<1>2. TopIsIn(f, c)
  BY TopIn DEF Unambiguous
<1>3. ASSUME NEW n \in SealsOf(c)
      PROVE  Once(f, c.seals.v[n])
  BY SealsInFile, SealsInVariables
<1>4. IsSeal(c.seal) => Once(f, c.seal)
  BY SealIn
<1>5. Cardinality(SealsOf(c)) > 1 =>
        /\ "enable_multiseal" \in DOMAIN f.hcl.attrs
        /\ Cardinality({b.attrs["name"] : b \in {x \in f.hcl.blocks : x.name = "seal"}}) = Cardinality(SealsOf(c))
  BY SeveralIn
<1>6. SealsAreIn(f, c)
  BY <1>3, <1>4, <1>5 DEF SealsAreIn
<1> QED
  BY <1>1, <1>2, <1>6 DEF IsIn

(* What a create has left on a host was rendered from a configuration that  *)
(* core sent, that was decoded and that could be rendered.                  *)
FilesOf(t) ==
    \E i \in DOMAIN ResourceConfigs : LET w == ResourceConfigs[i].apply.payload IN
        /\ IsVault(w) /\ VaultWire(w) /\ VaultDecodes(w) /\ CanStart(w)
        /\ t = <<[of |-> w, files |-> Files(w)]>>
HostsInv ==
    /\ target = [r \in Resources |-> target[r]]
    /\ \A r \in Resources : target[r] # Empty => FilesOf(target[r])

(* A create of enos_vault_start writes what Render makes of the              *)
(* configuration core sent for that very apply.                              *)
LEMMA HostStep ==
    ASSUME TransportInv, HostsInv, NEW r \in Resources, Apply(r)
    PROVE  HostsInv'
<1>0. Typed /\ Answered(r) /\ server = "up" /\ set[r] /\ due[r] = "apply"
  BY DEF TransportInv, Apply, Handles
<1>1. planned[r] = Written(r) /\ StateWire(Written(r)) /\ StateAccepted(Written(r)) /\ walk = "apply"
  BY <1>0, Sent DEF Answered
<1>2. target' = target \/ (/\ target' = [target EXCEPT ![r] = <<Rendered(r)>>]
                           /\ IsVault(planned[r].payload) /\ CanStart(planned[r].payload))
  BY DEF Apply, Starts
<1>3. CASE target' = target
  BY <1>3 DEF HostsInv, FilesOf
<1>4. CASE /\ target' = [target EXCEPT ![r] = <<Rendered(r)>>]
           /\ IsVault(planned[r].payload) /\ CanStart(planned[r].payload)
  <2> DEFINE w == planned[r].payload
             t == <<Rendered(r)>>
  <2>1. conf[r] \in DOMAIN ResourceConfigs /\ w = ResourceConfigs[conf[r]].apply.payload
    BY <1>0, <1>1, WireAssumption DEF Typed, Written
  <2>2. VaultWire(w) /\ VaultDecodes(w)
    BY <1>1, <1>4 DEF StateWire, PayloadWire, StateAccepted, IsVault
  <2>3. t = <<[of |-> w, files |-> Files(w)]>>
    BY DEF Rendered
  <2>4. FilesOf(t)
    <3> HIDE DEF t
    <3> QED
      BY <1>4, <2>1, <2>2, <2>3 DEF FilesOf
  <2> HIDE DEF t
  <2>5. target' = [target EXCEPT ![r] = t]
    BY <1>4 DEF t
  <2>6. \A q \in Resources : target'[q] = IF q = r THEN t ELSE target[q]
    BY <2>5 DEF HostsInv
  <2>7. target' = [q \in Resources |-> target'[q]]
    BY <2>5 DEF HostsInv
  <2>8. \A q \in Resources : target'[q] # Empty => FilesOf(target'[q])
    BY <2>4, <2>6 DEF HostsInv
  <2> QED
    BY <2>7, <2>8 DEF HostsInv, FilesOf
<1> QED
  BY <1>2, <1>3, <1>4

(* What creates leave on the hosts was rendered from a configuration core    *)
(* sent, which could be decoded and rendered, through any later reads,       *)
(* plans, updates, failures, crashes and edits.                              *)
LEMMA HostsAlways == TransportSpec => []HostsInv
<1>1. TransportInit => HostsInv
  BY DEF TransportInit, HostsInv
<1>2. ASSUME TransportInv, HostsInv, [TransportNext]_transportVars
      PROVE  HostsInv'
  <2>1. ASSUME target' = target
        PROVE  HostsInv'
    BY <1>2, <2>1 DEF HostsInv, FilesOf
  <2>2. CASE UNCHANGED transportVars
    BY <2>1, <2>2 DEF transportVars
  <2>3. CASE Configure
    BY <2>1, <2>3 DEF Configure
  <2>4. CASE ApplyWalk
    BY <2>1, <2>4 DEF ApplyWalk
  <2>5. CASE Edit
    BY <2>1, <2>5 DEF Edit
  <2>6. ASSUME NEW r \in Resources, SetProviderConfig(r) \/ Read(r) \/ Validate(r) \/ Plan(r)
        PROVE  target' = target
    BY <2>6 DEF SetProviderConfig, Read, Validate, Plan
  <2>7. ASSUME NEW r \in Resources, Apply(r)
        PROVE  HostsInv'
    BY <1>2, <2>7, HostStep
  <2> QED
    BY <1>2, <2>1, <2>2, <2>3, <2>4, <2>5, <2>6, <2>7 DEF TransportNext, Request
<1> QED
  BY <1>1, <1>2, TransportAlways, PTL DEF TransportSpec

(* Render "takes a preferred configuration mode" and uses both files all     *)
(* the same: if no configuration is ambiguous, what a create leaves on a     *)
(* host is, in either mode, the whole of what the user wrote for it, each    *)
(* seal once; for any number of seals' attributes, user's variables,         *)
(* resources, plans, applies and edits.                                      *)
THEOREM RendersWhatIsConfigured ==
    ASSUME \A i \in DOMAIN ResourceConfigs :
               IsVault(ResourceConfigs[i].apply.payload) => Unambiguous(ResourceConfigs[i].apply.payload)
    PROVE  TransportSpec => []RenderedIsConfigured
<1>1. HostsInv => RenderedIsConfigured
  <2> SUFFICES ASSUME HostsInv, NEW r \in Resources, target[r] # Empty
               PROVE  IsIn(target[r][1].of, target[r][1].files)
    BY DEF RenderedIsConfigured
  <2>1. FilesOf(target[r])
    BY DEF HostsInv
  <2>2. PICK i \in DOMAIN ResourceConfigs : LET w == ResourceConfigs[i].apply.payload IN
            /\ IsVault(w) /\ VaultWire(w) /\ VaultDecodes(w) /\ CanStart(w)
            /\ target[r] = <<[of |-> w, files |-> Files(w)]>>
    BY <2>1 DEF FilesOf
  <2> DEFINE w == ResourceConfigs[i].apply.payload
  <2>3. IsIn(w, Files(w))
    BY <2>2, FilesHoldIt
  <2>4. target[r][1].of = w /\ target[r][1].files = Files(w)
    BY <2>2
  <2> QED
    BY <2>3, <2>4
<1> QED
  BY <1>1, HostsAlways, PTL
=============================================================================
