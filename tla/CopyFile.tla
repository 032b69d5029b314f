------------------------------ MODULE CopyFile ------------------------------
(***************************************************************************)
(* remoteflight.CopyFile over the SSH transport: a Retry loop around Copy  *)
(* to a temporary path, chmod, chown, mkdir and mv.  transport.Copy is two *)
(* goroutines and a remote process: copyFile writes the SCP protocol to    *)
(* STDIN and reads acknowledgements, Copy itself waits in session.Run for  *)
(* the remote scp to exit and then for the writer's verdict.               *)
(*                                                                         *)
(* The remote scp and shell are external.  scp acknowledges its start, the *)
(* header and the file; it opens its target when it has the header, without *)
(* truncating it, and exits with an error when STDIN ends too soon.        *)
(***************************************************************************)
EXTENDS Naturals, Sequences

CONSTANTS
    Modes, Owners,    \* values of chmod and chown; NoValue when not given
    NoValue,
    ViaFileResource,  \* TRUE: the request is built by enos_file
    MaxRetries,       \* MaxRetries of the request, 3 by default
    ScpFaults,        \* how often the remote scp fails
    CmdFaults,        \* how often a command fails, with and without sudo
    Cuts              \* how often the connection is lost

ASSUME CopyFileAssumption ==
    /\ MaxRetries \in Nat \ {0}
    /\ ScpFaults \in Nat /\ CmdFaults \in Nat /\ Cuts \in Nat
    /\ ViaFileResource \in BOOLEAN
    /\ Modes \cap Owners \subseteq {NoValue}

VARIABLES
    mode, owner,   \* what the author asked for
    pc,            \* control of CopyFile and of Copy inside it
    ctx, attempts, result,
    reader,        \* the source, "left" to read or "consumed"
    writer,        \* control of the copyFile goroutine
    sent,          \* TRUE when this attempt sent the whole file
    errC,          \* the writer's verdict, a channel of capacity one
    sink,          \* the remote scp
    acks,          \* acknowledgements that were not read yet
    conn,          \* the SSH connection, "up" or "down"
    tmp, dst,      \* the remote files
    scpFaults, cmdFaults, cuts

request == <<mode, owner>>
copier == <<reader, writer, sent, errC>>
remote == <<sink, acks, conn, tmp, dst>>
budget == <<scpFaults, cmdFaults, cuts>>
vars == <<request, pc, ctx, attempts, result, copier, remote, budget>>

(* enos_file hands the value of chown to WithCopyFileChmod. *)
Request ==
    IF ViaFileResource
    THEN [chmod |-> IF owner # NoValue THEN owner ELSE mode, chown |-> NoValue]
    ELSE [chmod |-> mode, chown |-> owner]

File(c) == [content |-> c, mode |-> NoValue, owner |-> NoValue]

Init ==
    /\ mode \in Modes /\ owner \in Owners
    /\ pc = "select" /\ ctx = "live" /\ attempts = 0 /\ result = "pending"
    /\ reader = "left" /\ writer = "none" /\ sent = FALSE /\ errC = <<>>
    /\ sink = "none" /\ acks = <<>> /\ conn = "up"
    /\ tmp = File("absent") /\ dst = File("old")
    /\ scpFaults = 0 /\ cmdFaults = 0 /\ cuts = 0

-----------------------------------------------------------------------------
(* The context, the network and the remote scp. *)
CtxDone ==
    /\ ctx = "live" /\ result = "pending"
    /\ ctx' = "done"
    /\ UNCHANGED <<request, pc, attempts, result, copier, remote, budget>>

Cut ==
    /\ conn = "up" /\ result = "pending" /\ cuts < Cuts
    /\ cuts' = cuts + 1
    /\ conn' = "down"
    /\ sink' = IF sink \in {"header", "body"} THEN "failed" ELSE sink
    /\ UNCHANGED <<request, pc, ctx, attempts, result, copier, acks, tmp, dst, scpFaults, cmdFaults>>

SinkHeader ==
    /\ sink = "header"
    /\ writer \notin {"none", "header"}
    /\ sink' = "body"
    /\ acks' = Append(acks, "ok")
    /\ tmp' = IF tmp.content = "absent" THEN File("partial") ELSE tmp
    /\ UNCHANGED <<request, pc, ctx, attempts, result, copier, conn, dst, budget>>

(* All bytes and the status byte arrived, or STDIN was closed before that. *)
SinkBody ==
    /\ sink = "body"
    /\ \/ /\ sent /\ writer \in {"endAck", "done"}
          /\ sink' = "exited"
          /\ tmp' = [tmp EXCEPT !.content = "full"]
          /\ acks' = Append(acks, "ok")
       \/ /\ ~sent /\ writer = "done"
          /\ sink' = "failed"
          /\ UNCHANGED <<tmp, acks>>
    /\ UNCHANGED <<request, pc, ctx, attempts, result, copier, conn, dst, budget>>

(* scp cannot create its target or cannot write all of it. *)
SinkFails ==
    /\ sink \in {"header", "body"}
    /\ scpFaults < ScpFaults
    /\ scpFaults' = scpFaults + 1
    /\ sink' = "failed"
    /\ acks' = Append(acks, "error")
    /\ tmp' \in IF sink = "header" THEN {tmp} ELSE {tmp, [tmp EXCEPT !.content = "partial"]}
    /\ UNCHANGED <<request, pc, ctx, attempts, result, copier, conn, dst, cmdFaults, cuts>>

-----------------------------------------------------------------------------
(* The copyFile goroutine.  Its channel always has room: one verdict. *)
SinkGone == sink \in {"exited", "failed"}

(* Mutation: the writer ends without telling. *)
VerdictLost(e) == writer' = "done" /\ UNCHANGED errC

Verdict(e) == writer' = "done" /\ errC' = <<e>>

(* Writing to STDIN: fails once scp is gone. *)
Write(here, there) ==
    /\ writer = here
    /\ \/ SinkGone /\ Verdict("error")
       \/ writer' = there /\ UNCHANGED errC

WriteHeader ==
    /\ Write("header", "headerAck")
    /\ UNCHANGED <<request, pc, ctx, attempts, result, reader, sent, remote, budget>>

(* io.Copy from wherever the source is: nothing the second time. *)
WriteBody ==
    /\ Write("body", "end")
    /\ sent' = (reader = "left" /\ writer' = "end")
    /\ reader' = "consumed"
    /\ UNCHANGED <<request, pc, ctx, attempts, result, remote, budget>>

WriteEnd ==
    /\ Write("end", "endAck")
    /\ UNCHANGED <<request, pc, ctx, attempts, result, reader, sent, remote, budget>>

(* checkSCPStdout: the next acknowledgement, or the end of STDOUT. *)
CheckSCPStdout ==
    /\ writer \in {"headerAck", "endAck"}
    /\ \/ /\ acks # <<>>
          /\ acks' = Tail(acks)
          /\ IF Head(acks) = "error" THEN Verdict("error")
             ELSE IF writer = "endAck" THEN Verdict("nil")
             ELSE writer' = "body" /\ UNCHANGED errC
       \/ /\ acks = <<>> /\ SinkGone
          /\ Verdict("error")
          /\ UNCHANGED acks
    /\ UNCHANGED <<request, pc, ctx, attempts, result, reader, sent, sink, conn, tmp, dst, budget>>

-----------------------------------------------------------------------------
(* The top of the Retry loop. *)
Select ==
    /\ pc = "select"
    /\ \/ /\ ctx = "done"
          /\ pc' = "returned" /\ result' = "error"
          /\ UNCHANGED attempts
       \/ /\ ctx = "live"
          /\ pc' = "copy" /\ attempts' = attempts + 1
          /\ UNCHANGED result
    /\ UNCHANGED <<request, ctx, copier, remote, budget>>

(* Copy gets a session on the one connection of the client; the client does *)
(* not reconnect.  Errors up to here are returned.                          *)
NewSession ==
    /\ pc = "copy"
    /\ \/ /\ ctx = "done" \/ conn = "down"
          /\ pc' = "decide"
          /\ UNCHANGED <<writer, sent, errC, sink, acks>>
       \/ /\ ctx = "live" /\ conn = "up"
          /\ pc' = "run"
          /\ writer' = "header" /\ sent' = FALSE /\ errC' = <<>>
          /\ sink' = "header" /\ acks' = <<"ok">>
    /\ UNCHANGED <<request, ctx, attempts, result, reader, conn, tmp, dst, budget>>

(* Mutation: session.Start in place of session.Run. *)
SessionStart ==
    /\ pc = "run"
    /\ pc' = "cleanup"
    /\ UNCHANGED <<request, ctx, attempts, result, copier, remote, budget>>

(* session.Run returns when scp exits, whatever becomes of the context. *)
SessionRun ==
    /\ pc = "run"
    /\ SinkGone
    /\ pc' = IF sink = "exited" THEN "await" ELSE "cleanup"
    /\ UNCHANGED <<request, ctx, attempts, result, copier, remote, budget>>

(* The final select.  Nothing ever arrives on doneC: session.Run has taken  *)
(* the exit status that waitForCommandToFinish waits for.                   *)
Await ==
    /\ pc = "await"
    /\ ctx = "done" \/ errC # <<>>
    /\ pc' = "cleanup"
    /\ UNCHANGED <<request, ctx, attempts, result, copier, remote, budget>>

(* defer func() { err = cleanup() }(): the session's Close decides what Copy *)
(* returns, and Close succeeds while the connection is up.  A writer that is *)
(* about to read the source may still do so.                                 *)
CopyResult(err) == IF err = "nil" THEN "chmod" ELSE "decide"

Cleanup ==
    /\ pc = "cleanup"
    /\ \E closeErr \in IF conn = "up" THEN {"nil"} ELSE {"nil", "error"} :
          pc' = CopyResult(closeErr)
    /\ writer' = "none" /\ sink' = "none" /\ acks' = <<>>
    /\ reader' \in IF writer = "body" THEN {reader, "consumed"} ELSE {reader}
    /\ UNCHANGED <<request, ctx, attempts, result, sent, errC, conn, tmp, dst, budget>>

(* A remote command of CopyFile, tried without and with sudo.  The          *)
(* connection may be lost after it took effect.                             *)
Command(here, there, possible, newTmp, newDst) ==
    /\ pc = here
    /\ \/ /\ ctx = "done" \/ conn = "down" \/ ~possible
          /\ pc' = "decide"
          /\ UNCHANGED <<tmp, dst, conn, cmdFaults, cuts>>
       \/ /\ cmdFaults < CmdFaults
          /\ cmdFaults' = cmdFaults + 1
          /\ pc' = "decide"
          /\ UNCHANGED <<tmp, dst, conn, cuts>>
       \/ /\ ctx = "live" /\ conn = "up" /\ possible
          /\ tmp' = newTmp /\ dst' = newDst
          /\ \/ pc' = there /\ UNCHANGED <<conn, cuts>>
             \/ cuts < Cuts /\ cuts' = cuts + 1 /\ conn' = "down" /\ pc' = "decide"
          /\ UNCHANGED cmdFaults
    /\ UNCHANGED <<request, ctx, attempts, copier, sink, acks, scpFaults>>
    /\ result' = IF pc' = "returned" THEN "ok" ELSE result

Skip(here, there) ==
    /\ pc = here
    /\ pc' = there
    /\ UNCHANGED <<request, ctx, attempts, result, copier, remote, budget>>

Present == tmp.content # "absent"

(* Mutation: a failed chmod is ignored. *)
ChmodErrorIgnored ==
    \/ Skip("chmod", "chown")
    \/ Command("chmod", "chown", Present /\ Request.chmod \in Modes,
               [tmp EXCEPT !.mode = Request.chmod], dst)

Chmod ==
    IF Request.chmod = NoValue THEN Skip("chmod", "chown")
    ELSE Command("chmod", "chown", Present /\ Request.chmod \in Modes,
                 [tmp EXCEPT !.mode = Request.chmod], dst)

Chown ==
    IF Request.chown = NoValue THEN Skip("chown", "mkdir")
    ELSE Command("chown", "mkdir", Present, [tmp EXCEPT !.owner = Request.chown], dst)

Mkdir == Command("mkdir", "mv", TRUE, tmp, dst)

Mv == Command("mv", "returned", Present, File("absent"), tmp)

(* Mutation: one attempt too few. *)
OutOfAttemptsEarly == attempts + 1 >= MaxRetries

OutOfAttempts == attempts >= MaxRetries

(* ShouldRetry: give up, or sleep and go round again. *)
Decide ==
    /\ pc = "decide"
    /\ IF OutOfAttempts
       THEN pc' = "returned" /\ result' = "error"
       ELSE pc' = "select" /\ UNCHANGED result
    /\ UNCHANGED <<request, ctx, attempts, copier, remote, budget>>

CopyStep == Select \/ NewSession \/ SessionRun \/ Await \/ Cleanup \/ Chmod \/ Chown \/ Mkdir \/ Mv \/ Decide
WriterStep == WriteHeader \/ WriteBody \/ WriteEnd \/ CheckSCPStdout
SinkStep == SinkHeader \/ SinkBody

Next == CtxDone \/ Cut \/ SinkFails \/ SinkStep \/ WriterStep \/ CopyStep

(* Goroutines run, and the remote scp and the commands make progress. *)
Spec == Init /\ [][Next]_vars /\ WF_vars(CopyStep) /\ WF_vars(WriterStep) /\ WF_vars(SinkStep)
-----------------------------------------------------------------------------
Files == [content : {"absent", "old", "partial", "full"},
          mode : Modes \union {NoValue}, owner : Owners \union {NoValue}]

TypeOK ==
    /\ mode \in Modes /\ owner \in Owners
    /\ pc \in {"select", "copy", "run", "await", "cleanup", "chmod", "chown", "mkdir", "mv",
               "decide", "returned"}
    /\ ctx \in {"live", "done"} /\ attempts \in 0..MaxRetries
    /\ result \in {"pending", "ok", "error"}
    /\ reader \in {"left", "consumed"} /\ sent \in BOOLEAN
    /\ writer \in {"none", "header", "headerAck", "body", "end", "endAck", "done"}
    /\ errC \in {<<>>, <<"nil">>, <<"error">>}
    /\ sink \in {"none", "header", "body", "exited", "failed"}
    /\ acks \in Seq({"ok", "error"}) /\ Len(acks) <= 3
    /\ conn \in {"up", "down"}
    /\ tmp \in Files /\ dst \in Files
    /\ scpFaults \in 0..ScpFaults /\ cmdFaults \in 0..CmdFaults /\ cuts \in 0..Cuts

(* The destination is replaced in one step: it never holds part of the file, *)
(* however attempts fail and are repeated, and CopyFile returns nil only     *)
(* when it holds all of it.                                                  *)
DestinationIsWhole ==
    /\ dst.content # "partial"
    /\ result = "ok" => dst.content = "full"

(* That holds as long as the remote scp itself does not fail: lost           *)
(* connections, failed commands, retries that find the source consumed and   *)
(* a timeout at any moment do no harm.  A failed scp does: Copy drops its    *)
(* error.                                                                    *)
WholeUnlessScpFails == scpFaults = 0 => DestinationIsWhole

(* What reached the destination has the mode and the owner of the request:   *)
(* they are set on the temporary file before it is moved, in every attempt.  *)
MovedWithAttributes == dst.content # "old" => dst.mode = Request.chmod /\ dst.owner = Request.chown

(* CopyFile returns, although Copy does not look at the context while scp    *)
(* runs and one of its two goroutines never ends.                            *)
Returns == <>(result # "pending")

(* The file is copied when scp works, the connection holds, the caller does  *)
(* not give up and fewer commands fail than there are attempts.              *)
ReliableCopySucceeds ==
    [](ctx = "live" /\ cuts = 0 /\ scpFaults = 0 /\ cmdFaults < MaxRetries) => <>(result = "ok")
=============================================================================
