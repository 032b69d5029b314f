--------------------------- MODULE ExecStream_proofs ---------------------------
(***************************************************************************)
(* Proofs about the goroutines of a Run or a Copy of the kubernetes and    *)
(* the nomad transport, for any amount of output and any exit codes.       *)
(***************************************************************************)
EXTENDS ExecStream, TLAPS

(* The part of the typing that the proofs need. *)
TypeInv ==
    /\ op \in {"run", "copy"} /\ source \in Lengths
    /\ output \in [Outputs -> Nat]
    /\ taken \in [Outputs -> Nat] /\ got \in [Outputs -> Nat]
    /\ cpc \in {"begin", "exec", "wait", "writer", "returned"}
    /\ rpc \in [Outputs -> {"off", "reading", "done"}]
    /\ epc \in {"off", "alloc", "remote", "send", "close", "done"}
    /\ exit \in Codes \union {-1, 0}
    /\ writeErr \in {"unset", "nil", "error"}

LEMMA TypeInvariant == Spec => []TypeInv
<1> USE ExecStreamAssumption DEF TypeInv
<1>1. Init => TypeInv
  BY DEF Init, Lengths
<1>2. TypeInv /\ [Next]_vars => TypeInv'
  <2> SUFFICES ASSUME TypeInv, [Next]_vars PROVE TypeInv'
    OBVIOUS
  <2> USE DEF request
  <2>1. CASE CtxDone
    BY <2>1 DEF CtxDone
  <2>2. CASE Begin
    BY <2>2 DEF Begin
  <2>3. CASE ExecFails
    BY <2>3 DEF ExecFails
  <2>4. CASE ExecStarts
    BY <2>4 DEF ExecStarts
  <2>5. CASE Collect
    BY <2>5 DEF Collect
  <2>6. CASE TakeWriteErr
    BY <2>6 DEF TakeWriteErr
  <2>7. CASE WritePart
    BY <2>7 DEF WritePart, WriterUnchanged
  <2>8. CASE WriteFails
    BY <2>8 DEF WriteFails, WriterUnchanged
  <2>9. CASE Report
    BY <2>9 DEF Report, WriterUnchanged
  <2>10. CASE GetAllocation
    BY <2>10 DEF GetAllocation, ExecUnchanged
  <2>11. CASE Send
    BY <2>11 DEF Send, ExecUnchanged
  <2>12. CASE Close
    BY <2>12 DEF Close, ExecUnchanged
  <2>13. CASE Lost
    BY <2>13 DEF Lost, ExecUnchanged
  <2>14. ASSUME NEW s \in Outputs, Output(s) PROVE TypeInv'
    BY <2>14 DEF Output, ExecUnchanged
  <2>15. ASSUME NEW c \in Codes \union {0}, Exit(c) PROVE TypeInv'
    BY <2>15 DEF Exit, ExecUnchanged
  <2>16. ASSUME NEW s \in Outputs, Capture(s) PROVE TypeInv'
    BY <2>16 DEF Capture
  <2>17. CASE UNCHANGED vars
    BY <2>17 DEF vars
  <2> QED
    BY <2>1, <2>2, <2>3, <2>4, <2>5, <2>6, <2>7, <2>8, <2>9, <2>10, <2>11, <2>12, <2>13, <2>14,
       <2>15, <2>16, <2>17
       DEF Next, Caller, Exec, TarCopyWriter, Remote
<1> QED
  BY <1>1, <1>2, PTL DEF Spec

-----------------------------------------------------------------------------
(* What ExecErr holds at each stage of the goroutine of Exec: nothing until  *)
(* the command ended, then its verdict, and a plain error when it never ran. *)
CommandInv ==
    /\ cpc \in {"begin", "exec"} => epc = "off" /\ ~early /\ execErr = Unset
    /\ early => epc = "off"
    /\ epc = "off" => exit = -1 /\ execErr \in {Unset, Plain}
    /\ epc \in {"alloc", "remote"} => exit = -1
    /\ epc \in {"alloc", "remote", "send"} => execErr = Unset
    /\ epc \in {"close", "done"} => execErr = Verdict \/ (execErr = Plain /\ exit = -1)
    /\ closed => epc = "done"

LEMMA CommandInvariant == Spec => []CommandInv
<1> USE ExecStreamAssumption DEF CommandInv
<1>1. Init => CommandInv
  BY DEF Init
<1>2. TypeInv /\ CommandInv /\ [Next]_vars => CommandInv'
  <2> SUFFICES ASSUME TypeInv, CommandInv, [Next]_vars PROVE CommandInv'
    OBVIOUS
  <2> USE DEF request, Verdict
  <2>1. CASE CtxDone
    BY <2>1 DEF CtxDone
  <2>2. CASE Begin
    BY <2>2 DEF Begin
  <2>3. CASE ExecFails
    BY <2>3 DEF ExecFails
  <2>4. CASE ExecStarts
    BY <2>4 DEF ExecStarts
  <2>5. CASE Collect
    BY <2>5 DEF Collect
  <2>6. CASE TakeWriteErr
    BY <2>6 DEF TakeWriteErr
  <2>7. CASE WritePart
    BY <2>7 DEF WritePart, WriterUnchanged
  <2>8. CASE WriteFails
    BY <2>8 DEF WriteFails, WriterUnchanged
  <2>9. CASE Report
    BY <2>9 DEF Report, WriterUnchanged
  <2>10. CASE GetAllocation
    BY <2>10 DEF GetAllocation, ExecUnchanged
  <2>11. CASE Send
    BY <2>11 DEF Send, ExecUnchanged
  <2>12. CASE Close
    BY <2>12 DEF Close, ExecUnchanged
  <2>13. CASE Lost
    BY <2>13 DEF Lost, ExecUnchanged
  <2>14. ASSUME NEW s \in Outputs, Output(s) PROVE CommandInv'
    BY <2>14 DEF Output, ExecUnchanged
  <2>15. ASSUME NEW c \in Codes \union {0}, Exit(c) PROVE CommandInv'
    BY <2>15 DEF Exit, ExecUnchanged, TypeInv
  <2>16. ASSUME NEW s \in Outputs, Capture(s) PROVE CommandInv'
    BY <2>16 DEF Capture
  <2>17. CASE UNCHANGED vars
    BY <2>17 DEF vars
  <2> QED
    BY <2>1, <2>2, <2>3, <2>4, <2>5, <2>6, <2>7, <2>8, <2>9, <2>10, <2>11, <2>12, <2>13, <2>14,
       <2>15, <2>16, <2>17
       DEF Next, Caller, Exec, TarCopyWriter, Remote
<1> QED
  BY <1>1, <1>2, TypeInvariant, PTL DEF Spec

-----------------------------------------------------------------------------
(* What the readers have when they are done is all that was written: a       *)
(* command writes everything before it exits, and the end of a stream is     *)
(* seen behind its last chunk only.                                          *)
OutputInv ==
    /\ exit # -1 => taken = output
    /\ \A s \in Outputs :
        /\ cpc \in {"begin", "exec"} => rpc[s] = "off"
        /\ epc # "off" => rpc[s] # "off"
        /\ rpc[s] = "done" /\ ~early => closed /\ got[s] = taken[s]
        /\ cpc \in {"writer", "returned"} => rpc[s] # "reading"
    /\ cpc \in {"writer", "returned"} => epc \in {"off", "close", "done"}

LEMMA OutputInvariant == Spec => []OutputInv
<1> USE ExecStreamAssumption DEF OutputInv
<1>1. Init => OutputInv
  BY DEF Init
<1>2. TypeInv /\ CommandInv /\ OutputInv /\ [Next]_vars => OutputInv'
  <2> SUFFICES ASSUME TypeInv, CommandInv, OutputInv, [Next]_vars PROVE OutputInv'
    OBVIOUS
  <2> USE DEF request, TypeInv, CommandInv
  <2>1. CASE CtxDone
    BY <2>1 DEF CtxDone
  <2>2. CASE Begin
    BY <2>2 DEF Begin
  <2>3. CASE ExecFails
    BY <2>3 DEF ExecFails
  <2>4. CASE ExecStarts
    BY <2>4 DEF ExecStarts
  <2>5. CASE Collect
    BY <2>5 DEF Collect
  <2>6. CASE TakeWriteErr
    BY <2>6 DEF TakeWriteErr
  <2>7. CASE WritePart
    BY <2>7 DEF WritePart, WriterUnchanged
  <2>8. CASE WriteFails
    BY <2>8 DEF WriteFails, WriterUnchanged
  <2>9. CASE Report
    BY <2>9 DEF Report, WriterUnchanged
  <2>10. CASE GetAllocation
    BY <2>10 DEF GetAllocation, ExecUnchanged
  <2>11. CASE Send
    BY <2>11 DEF Send, ExecUnchanged
  <2>12. CASE Close
    BY <2>12 DEF Close, ExecUnchanged
  <2>13. CASE Lost
    BY <2>13 DEF Lost, ExecUnchanged
  <2>14. ASSUME NEW s \in Outputs, Output(s) PROVE OutputInv'
    BY <2>14 DEF Output, ExecUnchanged
  <2>15. ASSUME NEW c \in Codes \union {0}, Exit(c) PROVE OutputInv'
    BY <2>15 DEF Exit, ExecUnchanged
  <2>16. ASSUME NEW s \in Outputs, Capture(s) PROVE OutputInv'
    BY <2>16 DEF Capture
  <2>17. CASE UNCHANGED vars
    BY <2>17 DEF vars
  <2> QED
    BY <2>1, <2>2, <2>3, <2>4, <2>5, <2>6, <2>7, <2>8, <2>9, <2>10, <2>11, <2>12, <2>13, <2>14,
       <2>15, <2>16, <2>17
       DEF Next, Caller, Exec, TarCopyWriter, Remote
<1> QED
  BY <1>1, <1>2, TypeInvariant, CommandInvariant, PTL DEF Spec

-----------------------------------------------------------------------------
(* What the writer has passed on and reported tells how src.Size() related   *)
(* to src: the second half is only written when it did not end too soon.     *)
ArchiveInv ==
    /\ exit = 0 /\ op = "copy" => Archive \subseteq received
    /\ wpc = "second" \/ "second" \in received => source # "short"
    /\ writeErr = "nil" => source # "long"

LEMMA ArchiveInvariant == Spec => []ArchiveInv
<1> USE ExecStreamAssumption DEF ArchiveInv
<1>1. Init => ArchiveInv
  BY DEF Init
<1>2. TypeInv /\ CommandInv /\ ArchiveInv /\ [Next]_vars => ArchiveInv'
  <2> SUFFICES ASSUME TypeInv, CommandInv, ArchiveInv, [Next]_vars PROVE ArchiveInv'
    OBVIOUS
  <2> USE DEF request
  <2>1. CASE CtxDone
    BY <2>1 DEF CtxDone
  <2>2. CASE Begin
    BY <2>2 DEF Begin
  <2>3. CASE ExecFails
    BY <2>3 DEF ExecFails
  <2>4. CASE ExecStarts
    BY <2>4 DEF ExecStarts
  <2>5. CASE Collect
    BY <2>5 DEF Collect
  <2>6. CASE TakeWriteErr
    BY <2>6 DEF TakeWriteErr
  <2>7. CASE WritePart
    BY <2>7 DEF WritePart, WriterUnchanged, NextPart, Archive
  <2>8. CASE WriteFails
    BY <2>8 DEF WriteFails, WriterUnchanged
  <2>9. CASE Report
    BY <2>9 DEF Report, WriterUnchanged
  <2>10. CASE GetAllocation
    BY <2>10 DEF GetAllocation, ExecUnchanged
  <2>11. CASE Send
    BY <2>11 DEF Send, ExecUnchanged
  <2>12. CASE Close
    BY <2>12 DEF Close, ExecUnchanged
  <2>13. CASE Lost
    BY <2>13 DEF Lost, ExecUnchanged
  <2>14. ASSUME NEW s \in Outputs, Output(s) PROVE ArchiveInv'
    BY <2>14 DEF Output, ExecUnchanged
  <2>15. ASSUME NEW c \in Codes \union {0}, Exit(c) PROVE ArchiveInv'
    BY <2>15 DEF Exit, ExecUnchanged
  <2>16. ASSUME NEW s \in Outputs, Capture(s) PROVE ArchiveInv'
    BY <2>16 DEF Capture
  <2>17. CASE UNCHANGED vars
    BY <2>17 DEF vars
  <2> QED
    BY <2>1, <2>2, <2>3, <2>4, <2>5, <2>6, <2>7, <2>8, <2>9, <2>10, <2>11, <2>12, <2>13, <2>14,
       <2>15, <2>16, <2>17
       DEF Next, Caller, Exec, TarCopyWriter, Remote
<1> QED
  BY <1>1, <1>2, TypeInvariant, CommandInvariant, PTL DEF Spec

-----------------------------------------------------------------------------
Invariants == TypeInv /\ CommandInv /\ OutputInv /\ ArchiveInv

(* What the command's error tells of the command once both readers are done. *)
LEMMA ExecErrIsTrue ==
    ASSUME Invariants, execErr # Unset, \A s \in Outputs : rpc[s] = "done"
    PROVE  /\ execErr.class = "nil" => exit = 0 /\ got = output
           /\ exit > 0 => execErr = ExecError(exit)
<1> USE DEF Invariants, TypeInv, CommandInv, OutputInv
<1>1. CASE epc \in {"close", "done"}
  <2>1. exit > 0 => execErr = ExecError(exit)
    BY <1>1, ExecStreamAssumption DEF Verdict
  <2>2. execErr.class = "nil" => exit = 0
    BY <1>1, ExecStreamAssumption DEF Verdict, ExecError, Plain
  <2>3. exit = 0 => got = output
    BY <1>1
  <2> QED
    BY <2>1, <2>2, <2>3
<1>2. CASE epc \notin {"close", "done"}
  BY <1>2 DEF Plain
<1> QED
  BY <1>1, <1>2

(* Only these steps end a Run or a Copy, and nothing a result speaks of      *)
(* changes after it.                                                         *)
LEMMA WhoReturns ==
    ASSUME [Next]_vars, cpc # "returned", cpc' = "returned"
    PROVE  Begin \/ Collect \/ TakeWriteErr
<1>1. CtxDone \/ Exec \/ TarCopyWriter \/ Remote \/ (\E s \in Outputs : Capture(s)) => cpc' \in {cpc, "wait", "exec"}
  BY DEF CtxDone, Exec, ExecFails, ExecStarts, TarCopyWriter, WritePart, WriteFails, Report,
     WriterUnchanged, Remote, GetAllocation, Send, Close, Lost, Output, Exit, ExecUnchanged, Capture
<1> QED
  BY <1>1 DEF Next, Caller, vars

LEMMA ReturnIsFinal ==
    ASSUME Invariants, [Next]_vars, cpc = "returned"
    PROVE  UNCHANGED <<op, source, output, cpc, result, exit, got>> /\ received \subseteq received'
<1> USE DEF Invariants, TypeInv, OutputInv, request
<1>1. CASE CtxDone
  BY <1>1 DEF CtxDone
<1>2. CASE Caller
  BY <1>2 DEF Caller, Begin, Exec, ExecFails, ExecStarts, Collect, TakeWriteErr
<1>3. CASE TarCopyWriter
  BY <1>3 DEF TarCopyWriter, WritePart, WriteFails, Report, WriterUnchanged
<1>4. CASE Remote
  BY <1>4 DEF Remote, GetAllocation, Send, Close, Lost, Output, Exit, ExecUnchanged
<1>5. ASSUME NEW s \in Outputs, Capture(s) PROVE FALSE
  BY <1>5 DEF Capture
<1>6. CASE UNCHANGED vars
  BY <1>6 DEF vars
<1> QED
  BY <1>1, <1>2, <1>3, <1>4, <1>5, <1>6 DEF Next

(* Whatever the order in which the command ends, the pipes close, the        *)
(* readers finish and the writer reports, what Run and Copy return is true   *)
(* of the command: for any amount of output and any exit codes.              *)
THEOREM ResultsAreTrue == Spec => []ResultIsTrue
<1>1. Init => ResultIsTrue
  BY DEF Init, ResultIsTrue
<1>2. Invariants /\ Invariants' /\ ResultIsTrue /\ [Next]_vars => ResultIsTrue'
  <2> SUFFICES ASSUME Invariants, Invariants', ResultIsTrue, [Next]_vars PROVE ResultIsTrue'
    OBVIOUS
  <2>1. CASE Begin
    BY <2>1 DEF Begin, ResultIsTrue, Plain, Invariants, CommandInv
  <2>2. CASE Collect
    BY <2>2, ExecErrIsTrue DEF Collect, ResultIsTrue, request, Invariants, TypeInv
  <2>3. CASE TakeWriteErr
    <3>0. UNCHANGED <<op, source, output, exit, got, received>> /\ result' = CopyResult
      BY <2>3 DEF TakeWriteErr, request
    <3>1. CASE epc = "off"
      BY <3>0, <3>1 DEF CopyResult, ResultIsTrue, Invariants, CommandInv, Unset, Plain
    <3>2. CASE epc \in {"close", "done"}
      <4>1. \A s \in Outputs : rpc[s] = "done"
        BY <2>3, <3>2 DEF TakeWriteErr, Invariants, TypeInv, OutputInv
      <4>2. execErr # Unset
        BY <3>2 DEF Invariants, CommandInv, Verdict, Unset, NoErr, Plain, ExecError
      <4>3. /\ execErr.class = "nil" => exit = 0 /\ got = output
            /\ exit > 0 => execErr = ExecError(exit)
        BY <4>1, <4>2, ExecErrIsTrue
      <4>4. exit > 0 => result' = ExecError(exit)
        BY <3>0, <4>3 DEF CopyResult, ExecError
      <4>5. ASSUME result'.class = "nil", op = "copy"
            PROVE  source = "exact" /\ Archive \subseteq received /\ output["stderr"] = 0
        <5>1. execErr.class = "nil" /\ writeErr = "nil" /\ ~(got["stderr"] > 0)
          BY <2>3, <3>0, <4>5 DEF TakeWriteErr, CopyResult, Plain, Invariants, TypeInv
        <5>2. Archive \subseteq received /\ source # "short" /\ source # "long"
          BY <4>3, <4>5, <5>1 DEF Invariants, ArchiveInv, Archive
        <5>3. output["stderr"] = 0
          BY <4>3, <5>1 DEF Invariants, TypeInv, Outputs
        <5> QED
          BY <5>2, <5>3 DEF Invariants, TypeInv, Lengths
      <4>6. result'.class = "nil" => exit = 0 /\ got = output
        BY <3>0, <4>3 DEF CopyResult, Plain
      <4> QED
        BY <3>0, <4>4, <4>5, <4>6 DEF ResultIsTrue
    <3> QED
      BY <2>3, <3>1, <3>2 DEF TakeWriteErr, Invariants, OutputInv
  <2>4. CASE cpc = "returned"
    BY <2>4, ReturnIsFinal DEF ResultIsTrue
  <2>5. CASE cpc' # "returned"
    BY <2>5 DEF ResultIsTrue
  <2> QED
    BY <2>1, <2>2, <2>3, <2>4, <2>5, WhoReturns
<1> QED
  BY <1>1, <1>2, TypeInvariant, CommandInvariant, OutputInvariant, ArchiveInvariant, PTL
     DEF Spec, Invariants

-----------------------------------------------------------------------------
(* What the goroutine of Exec sends is an error of the results. *)
LEMMA ErrorsAreTyped ==
    /\ Unset \in Error /\ NoErr \in Error /\ Plain \in Error
    /\ exit \in Codes \union {-1, 0} => Verdict \in Error
<1>1. Unset \in Error /\ NoErr \in Error /\ Plain \in Error
  BY DEF Error, Unset, NoErr, Plain
<1>2. \A c \in Codes \union {NomadNoExit} : ExecError(c) \in Error
  BY DEF Error, ExecError
<1>3. ASSUME exit \in Codes \union {-1, 0} PROVE Verdict \in Error
  <2>1. CASE exit = 0
    BY <1>1, <2>1 DEF Verdict
  <2>2. CASE exit = -1
    <3>1. Verdict = IF kind = "nomad" THEN ExecError(NomadNoExit) ELSE Plain
      BY <2>2 DEF Verdict
    <3> QED
      BY <1>1, <1>2, <3>1
  <2>3. CASE exit \in Codes
    <3>1. Verdict = ExecError(exit)
      BY <2>3, ExecStreamAssumption DEF Verdict
    <3> QED
      BY <1>2, <2>3, <3>1
  <2> QED
    BY <1>3, <2>1, <2>2, <2>3
<1> QED
  BY <1>1, <1>3

(* No reader has taken more than was written, or kept more than it took. *)
PipesInv == \A s \in Outputs : taken[s] <= output[s] /\ got[s] <= taken[s]

(* The request, the pipes, the channels and the results keep their types: no *)
(* buffer ever holds more than the command wrote to its stream, and only     *)
(* parts of the archive reach the remote tar.                                *)
THEOREM StreamsAreTyped == Spec => []TypeOK
<1> USE ExecStreamAssumption DEF TypeOK, PipesInv
<1>1. Init => TypeOK /\ PipesInv
  <2> SUFFICES ASSUME Init PROVE TypeOK /\ PipesInv
    OBVIOUS
  <2>1. /\ closed \in BOOLEAN /\ early \in BOOLEAN /\ source \in Lengths
        /\ execErr \in Error /\ result \in Error
    BY Zenon, ErrorsAreTyped DEF Init, Lengths
  <2> QED
    BY <2>1 DEF Init
<1>2. ASSUME TypeOK, PipesInv, [Next]_vars PROVE TypeOK' /\ PipesInv'
  <2> USE <1>2, ErrorsAreTyped DEF request
  <2>1. CASE CtxDone
    BY <2>1 DEF CtxDone
  <2>2. CASE Begin
    <3>1. CASE op = "copy" /\ ctx = "done"
      BY <2>2, <3>1 DEF Begin
    <3>2. CASE ~(op = "copy" /\ ctx = "done")
      <4>1. wpc' \in Archive \union {"off"} /\ cpc' = "exec" /\ UNCHANGED result
        BY <2>2, <3>2 DEF Begin, Archive
      <4> QED
        BY <2>2, <4>1 DEF Begin
    <3> QED
      BY <3>1, <3>2
  <2>3. CASE ExecFails
    <3>1. early' \in BOOLEAN
      BY Zenon, <2>3 DEF ExecFails
    <3> QED
      BY <2>3, <3>1 DEF ExecFails
  <2>4. CASE ExecStarts
    BY <2>4 DEF ExecStarts
  <2>5. CASE Collect
    BY <2>5 DEF Collect
  <2>6. CASE TakeWriteErr
    BY <2>6 DEF TakeWriteErr, CopyResult
  <2>7. CASE WritePart
    BY <2>7 DEF WritePart, WriterUnchanged, NextPart, Archive
  <2>8. CASE WriteFails
    BY <2>8 DEF WriteFails, WriterUnchanged
  <2>9. CASE Report
    BY <2>9 DEF Report, WriterUnchanged
  <2>10. CASE GetAllocation
    BY <2>10 DEF GetAllocation, ExecUnchanged
  <2>11. CASE Send
    BY <2>11 DEF Send, ExecUnchanged
  <2>12. CASE Close
    <3>1. closed' \in BOOLEAN
      BY Zenon, <2>12 DEF Close
    <3> QED
      BY <2>12, <3>1 DEF Close, ExecUnchanged
  <2>13. CASE Lost
    BY <2>13 DEF Lost, ExecUnchanged
  <2>14. ASSUME NEW s \in Outputs, Output(s) PROVE TypeOK' /\ PipesInv'
    BY <2>14 DEF Output, ExecUnchanged
  <2>15. ASSUME NEW c \in Codes \union {0}, Exit(c) PROVE TypeOK' /\ PipesInv'
    BY <2>15 DEF Exit, ExecUnchanged
  <2>16. ASSUME NEW s \in Outputs, Capture(s) PROVE TypeOK' /\ PipesInv'
    BY <2>16 DEF Capture
  <2>17. CASE UNCHANGED vars
    BY <2>17 DEF vars
  <2> QED
    BY <2>1, <2>2, <2>3, <2>4, <2>5, <2>6, <2>7, <2>8, <2>9, <2>10, <2>11, <2>12, <2>13, <2>14,
       <2>15, <2>16, <2>17
       DEF Next, Caller, Exec, TarCopyWriter, Remote
<1> QED
  BY <1>1, <1>2, PTL DEF Spec
=============================================================================
