---------------------------- MODULE CopyFile_proofs ----------------------------
(***************************************************************************)
(* Proofs about CopyFile for every number of attempts, failed commands and *)
(* lost connections, and whatever modes and owners are asked for.          *)
(***************************************************************************)
EXTENDS CopyFile, TLAPS

(* A request is fixed: what it asks for does not change. *)
LEMMA RequestIsFixed == [Next]_vars => UNCHANGED <<mode, owner>> /\ Request' = Request
<1>1. CtxDone \/ Cut \/ SinkFails \/ SinkStep \/ WriterStep => UNCHANGED request
  BY DEF CtxDone, Cut, SinkFails, SinkStep, SinkHeader, SinkBody, WriterStep, WriteHeader, WriteBody,
     WriteEnd, CheckSCPStdout
<1>2. Chmod \/ Chown \/ Mkdir \/ Mv => UNCHANGED request
  BY DEF Chmod, Chown, Mkdir, Mv, Command, Skip
<1>3. Select \/ NewSession \/ SessionRun \/ Await \/ Cleanup \/ Decide => UNCHANGED request
  BY DEF Select, NewSession, SessionRun, Await, Cleanup, Decide
<1> QED
  BY <1>1, <1>2, <1>3 DEF Next, CopyStep, vars, request, Request

(* Outside of a copy there is neither a remote scp nor a writer. *)
InCopy == {"run", "await", "cleanup"}

(* MovedWithAttributes is not inductive: the attributes of the temporary     *)
(* file must be right at every stage, and nothing but the commands may touch *)
(* it once the copy is over.                                                 *)
MovedInv ==
    /\ owner \in Owners
    /\ pc \notin InCopy => sink = "none" /\ writer = "none"
    /\ tmp \in Files
    /\ tmp.mode \in {NoValue, Request.chmod}
    /\ tmp.owner \in {NoValue, Request.chown}
    /\ pc \in {"chown", "mkdir", "mv"} => tmp.mode = Request.chmod
    /\ pc \in {"mkdir", "mv"} => tmp.owner = Request.chown
    /\ MovedWithAttributes

LEMMA MovedInvariant == Spec => []MovedInv
<1> USE DEF MovedInv, MovedWithAttributes, InCopy, File, Files
<1>1. Init => MovedInv
  BY DEF Init
<1>2. MovedInv /\ [Next]_vars => MovedInv'
  <2> SUFFICES ASSUME MovedInv, [Next]_vars PROVE MovedInv'
    OBVIOUS
  <2>0. UNCHANGED <<mode, owner>> /\ Request' = Request
    BY RequestIsFixed
  <2> USE DEF copier, remote, budget
  <2>1. CASE CtxDone
    BY <2>0, <2>1 DEF CtxDone
  <2>2. CASE Cut
    BY <2>0, <2>2 DEF Cut
  <2>3. CASE SinkFails
    BY <2>0, <2>3 DEF SinkFails
  <2>4. CASE SinkHeader
    BY <2>0, <2>4 DEF SinkHeader
  <2>5. CASE SinkBody
    BY <2>0, <2>5 DEF SinkBody
  <2>6. CASE WriteHeader
    BY <2>0, <2>6 DEF WriteHeader, Write, Verdict
  <2>7. CASE WriteBody
    BY <2>0, <2>7 DEF WriteBody, Write, Verdict
  <2>8. CASE WriteEnd
    BY <2>0, <2>8 DEF WriteEnd, Write, Verdict
  <2>9. CASE CheckSCPStdout
    BY <2>0, <2>9 DEF CheckSCPStdout, Verdict, SinkGone
  <2>10. CASE Select
    BY <2>0, <2>10 DEF Select
  <2>11. CASE NewSession
    BY <2>0, <2>11 DEF NewSession
  <2>12. CASE SessionRun
    BY <2>0, <2>12 DEF SessionRun, SinkGone
  <2>13. CASE Await
    BY <2>0, <2>13 DEF Await
  <2>14. CASE Cleanup
    BY <2>0, <2>14 DEF Cleanup, CopyResult
  <2>15. CASE Chmod
    BY <2>0, <2>15 DEF Chmod, Skip, Command, Present
  <2>16. CASE Chown
    BY <2>0, <2>16 DEF Chown, Skip, Command, Present, Request
  <2>17. CASE Mkdir
    BY <2>0, <2>17 DEF Mkdir, Command
  <2>18. CASE Mv
    BY <2>0, <2>18 DEF Mv, Command, Present
  <2>19. CASE Decide
    BY <2>0, <2>19 DEF Decide, OutOfAttempts
  <2>20. CASE UNCHANGED vars
    BY <2>0, <2>20 DEF vars
  <2> QED
    BY <2>1, <2>2, <2>3, <2>4, <2>5, <2>6, <2>7, <2>8, <2>9, <2>10, <2>11, <2>12, <2>13, <2>14, <2>15, <2>16, <2>17, <2>18, <2>19, <2>20
       DEF Next, SinkStep, WriterStep, CopyStep
<1> QED
  BY <1>1, <1>2, PTL DEF Spec

(* Whatever fails and is repeated, a file that was moved to its destination  *)
(* has the mode and the owner that were asked for.                           *)
THEOREM MovedFilesHaveAttributes == Spec => []MovedWithAttributes
<1>1. MovedInv => MovedWithAttributes
  BY DEF MovedInv
<1> QED
  BY <1>1, MovedInvariant, PTL

-----------------------------------------------------------------------------
(* While scp does not fail, the temporary file is whole already, or the      *)
(* source is there to be read or has been sent in this attempt.              *)
SourceAhead ==
    \/ tmp.content = "full"
    \/ writer \in {"header", "headerAck", "body"} /\ reader = "left"
    \/ writer \in {"end", "endAck", "done"} /\ sent

(* As long as scp has not failed it has acknowledged everything. *)
AcksInv ==
    /\ scpFaults \in Nat
    /\ scpFaults = 0 => acks \in Seq({"ok"})

LEMMA AcksInvariant == Spec => []AcksInv
<1> USE DEF AcksInv
<1>1. Init => AcksInv
  BY DEF Init
<1>2. AcksInv /\ [Next]_vars => AcksInv'
  <2> SUFFICES ASSUME AcksInv, [Next]_vars PROVE AcksInv'
    OBVIOUS
  <2> USE DEF copier, remote, budget
  <2>1. CASE CtxDone
    BY <2>1 DEF CtxDone
  <2>2. CASE Cut
    BY <2>2 DEF Cut
  <2>3. CASE SinkFails
    BY <2>3 DEF SinkFails
  <2>4. CASE SinkHeader
    BY <2>4 DEF SinkHeader
  <2>5. CASE SinkBody
    BY <2>5 DEF SinkBody
  <2>6. CASE WriteHeader
    BY <2>6 DEF WriteHeader, Write, Verdict
  <2>7. CASE WriteBody
    BY <2>7 DEF WriteBody, Write, Verdict
  <2>8. CASE WriteEnd
    BY <2>8 DEF WriteEnd, Write, Verdict
  <2>9. CASE CheckSCPStdout
    BY <2>9 DEF CheckSCPStdout, Verdict, SinkGone
  <2>10. CASE Select
    BY <2>10 DEF Select
  <2>11. CASE NewSession
    <3>1. <<"ok">> \in Seq({"ok"})
      OBVIOUS
    <3> QED
      BY <2>11, <3>1 DEF NewSession
  <2>12. CASE SessionRun
    BY <2>12 DEF SessionRun, SinkGone
  <2>13. CASE Await
    BY <2>13 DEF Await
  <2>14. CASE Cleanup
    BY <2>14 DEF Cleanup, CopyResult
  <2>15. CASE Chmod
    BY <2>15 DEF Chmod, Skip, Command, Present
  <2>16. CASE Chown
    BY <2>16 DEF Chown, Skip, Command, Present
  <2>17. CASE Mkdir
    BY <2>17 DEF Mkdir, Command
  <2>18. CASE Mv
    BY <2>18 DEF Mv, Command, Present
  <2>19. CASE Decide
    BY <2>19 DEF Decide, OutOfAttempts
  <2>20. CASE UNCHANGED vars
    BY <2>20 DEF vars
  <2> QED
    BY <2>1, <2>2, <2>3, <2>4, <2>5, <2>6, <2>7, <2>8, <2>9, <2>10, <2>11, <2>12, <2>13, <2>14,
       <2>15, <2>16, <2>17, <2>18, <2>19, <2>20
       DEF Next, SinkStep, WriterStep, CopyStep
<1> QED
  BY <1>1, <1>2, PTL DEF Spec

(* The destination is whole because the temporary file is, whenever the      *)
(* connection still allows a move: a source that was consumed by an earlier  *)
(* attempt has then left a whole temporary file behind, which an empty copy  *)
(* does not truncate.                                                        *)
WholeInv ==
    scpFaults = 0 =>
        /\ DestinationIsWhole
        /\ pc \in {"await", "cleanup"} => sink \in {"exited", "failed"}
        /\ conn = "up" =>
            /\ pc \in {"chmod", "chown", "mkdir", "mv"} => tmp.content = "full"
            /\ pc \in {"select", "copy", "decide"} => tmp.content = "full" \/ reader = "left"
            /\ sink \in {"header", "body"} => SourceAhead
            /\ sink \in {"exited", "failed"} => tmp.content = "full"

(* A CopyFile that returns nil has copied the whole file, and none ever      *)
(* leaves a part of it at the destination, as long as scp itself works.      *)
THEOREM CopiesWholeFiles == Spec => []WholeUnlessScpFails
<1> USE DEF WholeInv, DestinationIsWhole, SourceAhead
<1>1. Init => WholeInv
  BY DEF Init, File
<1>2. MovedInv /\ AcksInv /\ WholeInv /\ [Next]_vars => WholeInv'
  <2> SUFFICES ASSUME MovedInv, WholeInv, AcksInv, [Next]_vars PROVE WholeInv'
    OBVIOUS
  <2>0. scpFaults \in Nat /\ (scpFaults = 0 => acks \in Seq({"ok"}))
    BY DEF AcksInv
  <2>a. (pc \notin InCopy => sink = "none" /\ writer = "none") /\ tmp \in Files
    BY DEF MovedInv
  <2> USE DEF copier, remote, budget, File, Files, InCopy
  <2>1. CASE CtxDone
    BY <2>0, <2>a, <2>1 DEF CtxDone
  <2>2. CASE Cut
    BY <2>0, <2>a, <2>2 DEF Cut
  <2>3. CASE SinkFails
    BY <2>0, <2>a, <2>3 DEF SinkFails
  <2>4. CASE SinkHeader
    BY <2>0, <2>a, <2>4 DEF SinkHeader
  <2>5. CASE SinkBody
    BY <2>0, <2>a, <2>5 DEF SinkBody
  <2>6. CASE WriteHeader
    BY <2>0, <2>a, <2>6 DEF WriteHeader, Write, Verdict, SinkGone
  <2>7. CASE WriteBody
    BY <2>0, <2>a, <2>7 DEF WriteBody, Write, Verdict, SinkGone
  <2>8. CASE WriteEnd
    BY <2>0, <2>a, <2>8 DEF WriteEnd, Write, Verdict
  <2>9. CASE CheckSCPStdout
    BY <2>0, <2>a, <2>9 DEF CheckSCPStdout, Verdict, SinkGone
  <2>10. CASE Select
    BY <2>0, <2>a, <2>10 DEF Select
  <2>11. CASE NewSession
    BY <2>0, <2>a, <2>11 DEF NewSession
  <2>12. CASE SessionRun
    BY <2>0, <2>a, <2>12 DEF SessionRun, SinkGone
  <2>13. CASE Await
    BY <2>0, <2>a, <2>13 DEF Await
  <2>14. CASE Cleanup
    BY <2>0, <2>a, <2>14 DEF Cleanup, CopyResult
  <2>15. CASE Chmod
    BY <2>0, <2>a, <2>15 DEF Chmod, Skip, Command, Present
  <2>16. CASE Chown
    BY <2>0, <2>a, <2>16 DEF Chown, Skip, Command, Present
  <2>17. CASE Mkdir
    BY <2>0, <2>a, <2>17 DEF Mkdir, Command
  <2>18. CASE Mv
    BY <2>0, <2>a, <2>18 DEF Mv, Command, Present
  <2>19. CASE Decide
    BY <2>0, <2>a, <2>19 DEF Decide, OutOfAttempts
  <2>20. CASE UNCHANGED vars
    BY <2>0, <2>a, <2>20 DEF vars
  <2> QED
    BY <2>1, <2>2, <2>3, <2>4, <2>5, <2>6, <2>7, <2>8, <2>9, <2>10, <2>11, <2>12, <2>13, <2>14, <2>15, <2>16, <2>17, <2>18, <2>19, <2>20
       DEF Next, SinkStep, WriterStep, CopyStep
<1>3. WholeInv => WholeUnlessScpFails
  BY DEF WholeUnlessScpFails
<1> QED
  BY <1>1, <1>2, <1>3, MovedInvariant, AcksInvariant, PTL DEF Spec

-----------------------------------------------------------------------------
(* One acknowledgement at most for the start of the remote scp, the header   *)
(* and the body or a failure of either, and an attempt only while there are  *)
(* some left.                                                                *)
RoomInv ==
    /\ sink \in {"none", "header"} => Len(acks) <= 1
    /\ sink = "body" => Len(acks) <= 2
    /\ pc = "select" => attempts < MaxRetries

(* The steps of CopyFile's own loop keep the variables in their sets. *)
LEMMA CopyStepsKeepTypes ==
    ASSUME TypeOK, RoomInv, CopyStep
    PROVE  TypeOK' /\ RoomInv'
<1> USE CopyFileAssumption DEF TypeOK, RoomInv, request, copier, remote, budget
<1>1. CASE Select
  BY <1>1 DEF Select
<1>2. CASE NewSession
  <2>1. CASE UNCHANGED <<writer, sent, errC, sink, acks>> /\ pc' = "decide"
    BY <1>2, <2>1 DEF NewSession
  <2>2. CASE /\ pc' = "run" /\ writer' = "header" /\ sent' = FALSE /\ errC' = <<>>
             /\ sink' = "header" /\ acks' = <<"ok">>
    <3>1. sent' \in BOOLEAN
      BY Zenon, <2>2
    <3>2. acks' \in Seq({"ok", "error"}) /\ Len(acks') = 1
      BY <2>2
    <3>3. pc' = "run" /\ writer' = "header" /\ errC' = <<>> /\ sink' = "header"
      BY <2>2
    <3>4. UNCHANGED <<request, ctx, attempts, result, reader, conn, tmp, dst, budget>>
      BY <1>2 DEF NewSession
    <3> QED
      BY <3>1, <3>2, <3>3, <3>4
  <2> QED
    BY <1>2, <2>1, <2>2 DEF NewSession
<1>3. CASE SessionRun
  BY <1>3 DEF SessionRun
<1>4. CASE Await
  BY <1>4 DEF Await
<1>5. CASE Cleanup
  <2>1. acks' \in Seq({"ok", "error"}) /\ Len(acks') = 0
    BY <1>5 DEF Cleanup
  <2> QED
    BY <1>5, <2>1 DEF Cleanup, CopyResult
<1>6. ASSUME NEW here, NEW there, NEW possible, NEW newTmp, NEW newDst,
             there \in {"chown", "mkdir", "mv", "returned"}, Command(here, there, possible, newTmp, newDst),
             possible => newTmp \in Files /\ newDst \in Files
      PROVE  TypeOK' /\ RoomInv'
  <2>1. pc' \in {"decide", there} /\ result' \in {"ok", result}
    BY <1>6 DEF Command
  <2>2. tmp' \in Files /\ dst' \in Files
    BY <1>6 DEF Command
  <2>3. conn' \in {"up", "down"} /\ cmdFaults' \in 0..CmdFaults /\ cuts' \in 0..Cuts
    BY <1>6 DEF Command
  <2>4. UNCHANGED <<request, ctx, attempts, copier, sink, acks, scpFaults>>
    BY <1>6 DEF Command
  <2> QED
    BY <1>6, <2>1, <2>2, <2>3, <2>4
<1>7. ASSUME NEW here, NEW there, there \in {"chown", "mkdir"}, Skip(here, there)
      PROVE  TypeOK' /\ RoomInv'
  BY <1>7 DEF Skip
<1>8. CASE Chmod
  <2> DEFINE possible == Present /\ Request.chmod \in Modes
             new == [tmp EXCEPT !.mode = Request.chmod]
  <2>1. possible => new \in Files /\ dst \in Files
    BY DEF Files
  <2>2. Skip("chmod", "chown") \/ Command("chmod", "chown", possible, new, dst)
    BY <1>8 DEF Chmod
  <2> HIDE DEF possible, new
  <2> QED
    BY ONLY <1>6, <1>7, <2>1, <2>2
<1>9. CASE Chown
  <2>1. [tmp EXCEPT !.owner = Request.chown] \in Files
    BY DEF Files, Request
  <2> QED
    BY <1>6, <1>7, <1>9, <2>1 DEF Chown
<1>10. CASE Mkdir
  <2> DEFINE possible == TRUE
  <2>1. tmp \in Files /\ dst \in Files /\ Command("mkdir", "mv", possible, tmp, dst)
    BY <1>10 DEF Mkdir
  <2> HIDE DEF possible
  <2> QED
    BY ONLY <1>6, <2>1
<1>11. CASE Mv
  <2>1. File("absent") \in Files
    BY DEF File, Files
  <2> QED
    BY <1>6, <1>11, <2>1 DEF Mv
<1>12. CASE Decide
  BY <1>12 DEF Decide, OutOfAttempts
<1> QED
  BY <1>1, <1>2, <1>3, <1>4, <1>5, <1>8, <1>9, <1>10, <1>11, <1>12 DEF CopyStep

(* The request, the channels, the acknowledgements and the remote files keep *)
(* their types: however many attempts were made, no more than the three      *)
(* acknowledgements of one are there, and there are no more than retries.    *)
THEOREM CopiesAreTyped == Spec => []TypeOK
<1> USE CopyFileAssumption
<1>1. Init => TypeOK /\ RoomInv
  <2> SUFFICES ASSUME Init PROVE TypeOK /\ RoomInv
    OBVIOUS
  <2>1. sent \in BOOLEAN
    BY Zenon DEF Init
  <2>2. tmp \in Files /\ dst \in Files
    BY DEF Init, File, Files
  <2>3. acks \in Seq({"ok", "error"}) /\ Len(acks) = 0
    BY DEF Init
  <2> QED
    BY <2>1, <2>2, <2>3 DEF Init, TypeOK, RoomInv
<1>2. ASSUME TypeOK, RoomInv, [Next]_vars PROVE TypeOK' /\ RoomInv'
  <2> USE <1>2 DEF TypeOK, RoomInv, request, copier, remote, budget
  <2>1. CASE CtxDone
    BY <2>1 DEF CtxDone
  <2>2. CASE Cut
    BY <2>2 DEF Cut
  <2>3. CASE SinkFails
    <3>1. tmp' \in Files
      BY <2>3 DEF SinkFails, Files
    <3>2. acks' \in Seq({"ok", "error"}) /\ Len(acks') = Len(acks) + 1
      BY <2>3 DEF SinkFails
    <3> QED
      BY <2>3, <3>1, <3>2 DEF SinkFails
  <2>4. CASE SinkHeader
    <3>1. tmp' \in Files
      BY <2>4 DEF SinkHeader, File, Files
    <3>2. acks' \in Seq({"ok", "error"}) /\ Len(acks') = Len(acks) + 1
      BY <2>4 DEF SinkHeader
    <3> QED
      BY <2>4, <3>1, <3>2 DEF SinkHeader
  <2>5. CASE SinkBody
    <3>1. tmp' \in Files
      BY <2>5 DEF SinkBody, Files
    <3>2. acks' \in Seq({"ok", "error"}) /\ Len(acks') <= Len(acks) + 1
      <4>1. Append(acks, "ok") \in Seq({"ok", "error"}) /\ Len(Append(acks, "ok")) = Len(acks) + 1
        OBVIOUS
      <4>2. acks' \in {acks, Append(acks, "ok")}
        BY <2>5 DEF SinkBody
      <4> QED
        BY <4>1, <4>2
    <3>3. sink = "body" /\ sink' \in {"exited", "failed"}
          /\ UNCHANGED <<request, pc, ctx, attempts, result, copier, conn, dst, budget>>
      BY <2>5 DEF SinkBody
    <3> QED
      BY <3>1, <3>2, <3>3
  <2>6. CASE WriteHeader
    BY <2>6 DEF WriteHeader, Write, Verdict
  <2>7. CASE WriteBody
    <3>1. sent' \in BOOLEAN
      BY Zenon, <2>7 DEF WriteBody
    <3> QED
      BY <2>7, <3>1 DEF WriteBody, Write, Verdict
  <2>8. CASE WriteEnd
    BY <2>8 DEF WriteEnd, Write, Verdict
  <2>9. CASE CheckSCPStdout
    <3>1. acks' \in Seq({"ok", "error"}) /\ Len(acks') <= Len(acks)
      BY <2>9 DEF CheckSCPStdout
    <3>2. writer' \in {"body", "done"} /\ errC' \in {<<>>, <<"nil">>, <<"error">>}
      BY <2>9 DEF CheckSCPStdout, Verdict
    <3>3. UNCHANGED <<request, pc, ctx, attempts, result, reader, sent, sink, conn, tmp, dst, budget>>
      BY <2>9 DEF CheckSCPStdout
    <3> QED
      BY <3>1, <3>2, <3>3
  <2>10. CASE CopyStep
    BY <2>10, CopyStepsKeepTypes
  <2>11. CASE UNCHANGED vars
    BY <2>11 DEF vars
  <2> QED
    BY <2>1, <2>2, <2>3, <2>4, <2>5, <2>6, <2>7, <2>8, <2>9, <2>10, <2>11
       DEF Next, SinkStep, WriterStep
<1> QED
  BY <1>1, <1>2, PTL DEF Spec
=============================================================================
