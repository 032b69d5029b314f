------------------------------ MODULE ExecStream ------------------------------
(***************************************************************************)
(* internal/transport/exec.go with its two implementations, the kubernetes *)
(* and the nomad transport: one Run or Copy made of up to five goroutines. *)
(* The caller waits in WaitForResults (and, for Copy, for the tar writer), *)
(* two readers drain the output pipes, a goroutine runs the remote command *)
(* and closes the streams, and the tar writer feeds stdin.  io.Pipe does   *)
(* not buffer: a write ends when it is read or when the pipe is closed.    *)
(*                                                                         *)
(* The API clients and the remote command are external: a command writes   *)
(* its output, reads the archive and exits, or the connection is lost.     *)
(***************************************************************************)
EXTENDS Integers

CONSTANTS
    Kinds,     \* transports to explore: subset of {"kubernetes", "nomad"}
    Ops,       \* subset of {"run", "copy"}
    Chunks,    \* most chunks a command writes to one stream
    Codes      \* exit codes of a command that fails

Outputs == {"stdout", "stderr"}
Lengths == {"exact", "short", "long"}     \* what src.Size() says of src
Archive == {"header", "first", "second"}  \* what makes the file whole
Unset == [class |-> "unset", code |-> 0]
NoErr == [class |-> "nil", code |-> 0]
Plain == [class |-> "plain", code |-> 0]
ExecError(c) == [class |-> "exec", code |-> c]
NomadNoExit == -2                         \* nomad's exit code when there is none

ASSUME ExecStreamAssumption ==
    /\ Kinds \subseteq {"kubernetes", "nomad"}
    /\ Ops \subseteq {"run", "copy"}
    /\ Chunks \in Nat
    /\ Codes \subseteq Nat \ {0}

VARIABLES
    kind, op, source, output,  \* the request, fixed; output: chunks per stream
    ctx,        \* context of the operation
    cpc,        \* the caller: Run or Copy
    rpc,        \* the reader of each output stream
    wpc,        \* the tar writer
    epc,        \* the goroutine of Exec
    execErr,    \* ExecResponse.ExecErr, capacity 1
    writeErr,   \* writeErrC, capacity 1: "unset", "nil" or "error"
    closed,     \* ExecStreams.Close was called
    taken,      \* chunks of each stream a reader took from the pipe
    got,        \* chunks of each stream in the caller's buffer
    received,   \* parts of the archive that reached the remote tar
    exit,       \* how the command ended: -1 unless it exited
    early,      \* Exec returned without having used the streams
    result      \* what Run or Copy returned

request == <<kind, op, source, output>>
vars == <<request, ctx, cpc, rpc, wpc, epc, execErr, writeErr, closed, taken, got,
          received, exit, early, result>>

Init ==
    /\ kind \in Kinds
    /\ op \in Ops
    /\ source \in IF op = "copy" THEN Lengths ELSE {"exact"}
    /\ output \in [Outputs -> 0..Chunks]
    /\ ctx \in {"live", "done"}
    /\ cpc = "begin"
    /\ rpc = [s \in Outputs |-> "off"]
    /\ wpc = "off"
    /\ epc = "off"
    /\ execErr = Unset
    /\ writeErr = "unset"
    /\ closed = FALSE
    /\ taken = [s \in Outputs |-> 0]
    /\ got = [s \in Outputs |-> 0]
    /\ received = {}
    /\ exit = -1
    /\ early = FALSE
    /\ result = Unset

CtxDone ==
    /\ ctx = "live"
    /\ ctx' = "done"
    /\ UNCHANGED <<request, cpc, rpc, wpc, epc, execErr, writeErr, closed, taken, got,
                   received, exit, early, result>>

-----------------------------------------------------------------------------
(* The caller. *)

(* The transport's Copy looks at the context before it makes the streams    *)
(* and starts the writer; Run goes straight to Exec.                        *)
Begin ==
    /\ cpc = "begin"
    /\ IF op = "copy" /\ ctx = "done"
       THEN cpc' = "returned" /\ result' = Plain /\ UNCHANGED wpc
       ELSE /\ cpc' = "exec"
            /\ wpc' = IF op = "copy" THEN "header" ELSE "off"
            /\ UNCHANGED result
    /\ UNCHANGED <<request, ctx, rpc, epc, execErr, writeErr, closed, taken, got,
                   received, exit, early>>

(* Exec gives up before it hands out the readers: the context is done, or   *)
(* the kubernetes client cannot make an executor.  Nobody will use or close *)
(* the streams.                                                             *)
ExecFails ==
    /\ cpc = "exec"
    /\ ctx = "done" \/ kind = "kubernetes"
    /\ cpc' = "wait"
    /\ execErr' = Plain
    /\ rpc' = [s \in Outputs |-> "done"]
    /\ early' = TRUE
    /\ UNCHANGED <<request, ctx, wpc, epc, writeErr, closed, taken, got, received, exit, result>>

(* WaitForResults starts a reader per stream, Exec its own goroutine. *)
ExecStarts ==
    /\ cpc = "exec"
    /\ ctx = "live"
    /\ cpc' = "wait"
    /\ rpc' = [s \in Outputs |-> "reading"]
    /\ epc' = IF kind = "nomad" THEN "alloc" ELSE "remote"
    /\ UNCHANGED <<request, ctx, wpc, execErr, writeErr, closed, taken, got, received, exit,
                   early, result>>

Exec == ExecFails \/ ExecStarts

(* Mutation: the results are read without waiting for the readers. *)
CollectAtOnce ==
    /\ cpc = "wait"
    /\ execErr # Unset
    /\ \/ op = "run" /\ cpc' = "returned" /\ result' = execErr
       \/ op = "copy" /\ cpc' = "writer" /\ UNCHANGED result
    /\ UNCHANGED <<request, ctx, rpc, wpc, epc, execErr, writeErr, closed, taken, got,
                   received, exit, early>>

(* WaitForResults has the error of the command and both readers are done. *)
Collect ==
    /\ cpc = "wait"
    /\ execErr # Unset
    /\ \A s \in Outputs : rpc[s] = "done"
    /\ \/ op = "run" /\ cpc' = "returned" /\ result' = execErr
       \/ op = "copy" /\ cpc' = "writer" /\ UNCHANGED result
    /\ UNCHANGED <<request, ctx, rpc, wpc, epc, execErr, writeErr, closed, taken, got,
                   received, exit, early>>

(* An error of the command comes first and keeps its exit code. *)
CopyResult ==
    IF execErr.class # "nil" THEN execErr
    ELSE IF writeErr = "error" \/ got["stderr"] > 0 THEN Plain
    ELSE NoErr

(* Copy waits for the writer's verdict, whatever became of the command. *)
TakeWriteErr ==
    /\ cpc = "writer"
    /\ writeErr # "unset"
    /\ cpc' = "returned"
    /\ result' = CopyResult
    /\ UNCHANGED <<request, ctx, rpc, wpc, epc, execErr, writeErr, closed, taken, got,
                   received, exit, early>>

Caller == Begin \/ Exec \/ Collect \/ TakeWriteErr

-----------------------------------------------------------------------------
(* The reader of stream s: a chunk from the pipe goes into the buffer before *)
(* the next one is read, and the end of the stream ends the reader.          *)
Capture(s) ==
    /\ rpc[s] = "reading"
    /\ \/ /\ got[s] < taken[s]
          /\ got' = [got EXCEPT ![s] = @ + 1]
          /\ UNCHANGED rpc
       \/ /\ got[s] = taken[s]
          /\ closed
          /\ rpc' = [rpc EXCEPT ![s] = "done"]
          /\ UNCHANGED got
    /\ UNCHANGED <<request, ctx, cpc, wpc, epc, execErr, writeErr, closed, taken, received,
                   exit, early, result>>

-----------------------------------------------------------------------------
(* The tar writer.  After the body it reports, and only then do the deferred *)
(* calls write the trailer and close stdin; a trailer that cannot be written *)
(* because the source was short is not reported.                             *)
NextPart == CASE wpc = "header" -> "first"
               [] wpc = "first" -> IF source = "short" THEN "report" ELSE "second"
               [] wpc = "second" -> "report"
               [] wpc = "trailer" -> "done"

WriterUnchanged == UNCHANGED <<request, ctx, cpc, rpc, epc, execErr, closed, taken, got,
                               exit, early, result>>

(* A part is written: the client of the API reads it and passes it on while  *)
(* the command runs; once the command ended it may still be read, and lost.  *)
WritePart ==
    /\ wpc \in Archive \union {"trailer"}
    /\ epc \in {"remote", "send", "close"}
    /\ ~closed
    /\ received' = IF epc = "remote" THEN received \union {wpc} ELSE received
    /\ wpc' = NextPart
    /\ UNCHANGED writeErr
    /\ WriterUnchanged

(* Closing the pipe ends a blocked or later write with an error. *)
WriteFails ==
    /\ wpc \in Archive \union {"trailer"}
    /\ closed
    /\ writeErr' = IF wpc = "trailer" THEN writeErr ELSE "error"
    /\ wpc' = IF wpc = "trailer" THEN "done" ELSE "trailer"
    /\ UNCHANGED received
    /\ WriterUnchanged

Report ==
    /\ wpc = "report"
    /\ writeErr' = IF source = "long" THEN "error" ELSE "nil"
    /\ wpc' = IF source = "short" THEN "done" ELSE "trailer"
    /\ UNCHANGED received
    /\ WriterUnchanged

TarCopyWriter == WritePart \/ WriteFails \/ Report

-----------------------------------------------------------------------------
(* The goroutine of Exec and, behind the API, the command. *)
ExecUnchanged == UNCHANGED <<request, ctx, cpc, rpc, wpc, writeErr, got, received, early, result>>

(* nomad: exactly one allocation must match the prefix. *)
GetAllocation ==
    /\ epc = "alloc"
    /\ \/ epc' = "remote" /\ UNCHANGED execErr
       \/ epc' = "close" /\ execErr' = Plain
    /\ UNCHANGED <<closed, taken, exit>>
    /\ ExecUnchanged

Output(s) ==
    /\ epc = "remote"
    /\ taken[s] < output[s]
    /\ rpc[s] = "reading" /\ got[s] = taken[s]
    /\ taken' = [taken EXCEPT ![s] = @ + 1]
    /\ UNCHANGED <<epc, execErr, closed, exit>>
    /\ ExecUnchanged

(* tar succeeds on a whole archive only; every command writes all its output *)
(* before it exits.                                                          *)
Exit(c) ==
    /\ epc = "remote"
    /\ taken = output
    /\ c = 0 /\ op = "copy" => Archive \subseteq received
    /\ exit' = c
    /\ epc' = "send"
    /\ UNCHANGED <<execErr, closed, taken>>
    /\ ExecUnchanged

(* The connection is lost or the context ends: there is no exit code. *)
Lost ==
    /\ epc = "remote"
    /\ epc' = "send"
    /\ UNCHANGED <<execErr, closed, taken, exit>>
    /\ ExecUnchanged

Verdict ==
    IF exit = 0 THEN NoErr
    ELSE IF exit > 0 THEN ExecError(exit)
    ELSE IF kind = "nomad" THEN ExecError(NomadNoExit)
    ELSE Plain

Send ==
    /\ epc = "send"
    /\ execErr' = Verdict
    /\ epc' = "close"
    /\ UNCHANGED <<closed, taken, exit>>
    /\ ExecUnchanged

(* Mutation: the streams stay open. *)
CloseNever ==
    /\ epc = "close"
    /\ epc' = "done"
    /\ UNCHANGED <<execErr, closed, taken, exit>>
    /\ ExecUnchanged

(* The deferred ExecStreams.Close: all three pipes. *)
Close ==
    /\ epc = "close"
    /\ closed' = TRUE
    /\ epc' = "done"
    /\ UNCHANGED <<execErr, taken, exit>>
    /\ ExecUnchanged

Remote ==
    \/ GetAllocation \/ Send \/ Close \/ Lost
    \/ \E s \in Outputs : Output(s)
    \/ \E c \in Codes \union {0} : Exit(c)

Next == CtxDone \/ Caller \/ TarCopyWriter \/ Remote \/ \E s \in Outputs : Capture(s)

(* Goroutines run, and a remote command ends or its connection does. *)
Fairness ==
    /\ WF_vars(Caller) /\ WF_vars(TarCopyWriter) /\ WF_vars(Remote)
    /\ \A s \in Outputs : WF_vars(Capture(s))

Spec == Init /\ [][Next]_vars /\ Fairness

-----------------------------------------------------------------------------
Error == [class : {"unset", "nil", "plain", "exec"}, code : Codes \union {0, NomadNoExit}]

TypeOK ==
    /\ kind \in Kinds /\ op \in Ops /\ source \in Lengths
    /\ output \in [Outputs -> 0..Chunks]
    /\ ctx \in {"live", "done"}
    /\ cpc \in {"begin", "exec", "wait", "writer", "returned"}
    /\ rpc \in [Outputs -> {"off", "reading", "done"}]
    /\ wpc \in Archive \union {"off", "report", "trailer", "done"}
    /\ epc \in {"off", "alloc", "remote", "send", "close", "done"}
    /\ execErr \in Error /\ result \in Error
    /\ writeErr \in {"unset", "nil", "error"}
    /\ closed \in BOOLEAN /\ early \in BOOLEAN
    /\ taken \in [Outputs -> 0..Chunks]
    /\ got \in [Outputs -> 0..Chunks]
    /\ received \subseteq Archive \union {"trailer"}
    /\ exit \in Codes \union {-1, 0}

(* What Run and Copy return is true of the command, whatever the order in    *)
(* which the command ends, the streams close, the readers finish and the     *)
(* writer reports: no error means that it exited with 0, that all its output *)
(* is in the buffers and that a copied file is whole and nothing but the     *)
(* source; the exit code of a command that failed is never lost.             *)
ResultIsTrue == cpc = "returned" =>
    /\ result.class = "nil" =>
        /\ exit = 0
        /\ got = output
        /\ op = "copy" => source = "exact" /\ Archive \subseteq received /\ output["stderr"] = 0
    /\ exit > 0 => result = ExecError(exit)

(* Run and Copy return, and when they have no goroutine is left waiting on a *)
(* pipe or a channel.  Left out is the one case in which the code does not:  *)
(* a Copy whose Exec failed before it used the streams.                      *)
AllDone ==
    /\ cpc = "returned"
    /\ wpc \in {"off", "done"} /\ epc \in {"off", "done"}
    /\ \A s \in Outputs : rpc[s] \in {"off", "done"}
EverythingEnds == <>(AllDone \/ (early /\ op = "copy"))

=============================================================================
