---------------------------- MODULE PackageInstall ----------------------------
(***************************************************************************)
(* enos_bundle_install: Validate, the choice of a getter and an installer, *)
(* and remoteflight.PackageInstall with the steps it consists of: copy or  *)
(* download of the artifact to a temporary path, InstallFlightControl      *)
(* before every use of the enos-flight-control binary, the download and    *)
(* unzip commands of that binary, dpkg or rpm, and the removal of the      *)
(* artifact.  Resources that are applied at the same time on one host share *)
(* the binary; each has an artifact and a destination of its own.          *)
(*                                                                         *)
(* CopyFile is used as the module CopyFile shows it to be: all or nothing, *)
(* but for a remote scp that fails unnoticed.  External are the servers,   *)
(* the host's commands and the package managers.                           *)
(***************************************************************************)
EXTENDS Integers, FiniteSets

CONSTANTS
    Installs,       \* resources applied at the same time
    Configs,        \* Configs[i]: configurations to explore for install i
    Files,          \* files in a zip archive
    Supported,      \* values of: is there an embedded binary for the host
    MaxFaults       \* commands and requests that fail or whose answer is lost

None == "none"
MaxAttempts == 3   \* of a download and of a removal
Extensions == {None, "zip", "deb", "rpm", "other"}
Config == [path : Extensions, product : {None, "vault", "consul"}, version : BOOLEAN,
           edition : {None, "ce", "unknown"}, url : Extensions, token : BOOLEAN, sha : BOOLEAN,
           destination : BOOLEAN]

ASSUME PackageInstallAssumption ==
    /\ Configs \in [Installs -> SUBSET Config]
    /\ Supported \subseteq BOOLEAN
    /\ MaxFaults \in Nat

VARIABLES
    config,      \* configuration of each install
    supported,   \* the host's platform and architecture are supported
    ctx,         \* context of the applies
    pc, after,   \* control, and where to go on after InstallFlightControl
    link,        \* SSH connection of each install
    attempts,    \* attempts of a download or removal that failed
    artifact,    \* the temporary file of each install
    expanding,   \* files of the archive that are not expanded yet
    destination, \* files in the destination of each install
    package,     \* what the package manager has installed
    binary,      \* enos-flight-control in the home directory
    result,
    faults,
    misses,      \* history: attempts that something made fail
    cause,       \* history: something happened that the code does not retry
    used         \* history: binaries that install commands were started with

host == <<artifact, destination, package, binary>>
history == <<misses, cause, used>>
vars == <<config, supported, ctx, pc, after, link, attempts, expanding, result, faults, host, history>>

Init ==
    /\ config \in {c \in [Installs -> UNION {Configs[i] : i \in Installs}] : \A i \in Installs : c[i] \in Configs[i]}
    /\ supported \in Supported
    /\ ctx = "live"
    /\ pc = [i \in Installs |-> "validate"]
    /\ after = [i \in Installs |-> None]
    /\ link = [i \in Installs |-> "up"]
    /\ attempts = [i \in Installs |-> 0]
    /\ artifact = [i \in Installs |-> "absent"]
    /\ expanding = [i \in Installs |-> {}]
    /\ \E content \in {"absent", "stale"} :
         destination = [i \in Installs |-> [f \in Files |-> content]]
    /\ package = [i \in Installs |-> "absent"]
    /\ binary \in {"absent", "old", "current"}
    /\ result = [i \in Installs |-> "pending"]
    /\ faults = 0
    /\ misses = [i \in Installs |-> 0]
    /\ cause = [i \in Installs |-> FALSE]
    /\ used = [i \in Installs |-> {}]

CtxDone ==
    /\ ctx = "live"
    /\ ctx' = "done"
    /\ UNCHANGED <<config, supported, pc, after, link, attempts, expanding, result, faults, host, history>>

Fault == faults < MaxFaults /\ faults' = faults + 1

(* The connection of an install is lost; the client never replaces it. *)
LinkLost(i) ==
    /\ link[i] = "up"
    /\ pc[i] # "return"
    /\ Fault
    /\ link' = [link EXCEPT ![i] = "lost"]
    /\ UNCHANGED <<config, supported, ctx, pc, after, attempts, expanding, result, host, history>>

Go(i, step) == pc' = [pc EXCEPT ![i] = step]
Put(f, i, value) == [f EXCEPT ![i] = value]

(* An error ends the install; without is TRUE for one that no retry avoids. *)
Fail(i, without) ==
    /\ Go(i, "return")
    /\ result' = Put(result, i, "error")
    /\ cause' = Put(cause, i, cause[i] \/ without)

(* A command of install i does not reach the host or fails there. *)
Unlucky(i) == \/ link[i] = "lost" /\ UNCHANGED faults
              \/ link[i] = "up" /\ Fault
Lucky(i) == link[i] = "up" /\ UNCHANGED faults

-----------------------------------------------------------------------------
(* The configuration. *)

Source(c) == <<c.path # None, c.product # None, c.url # None>>
InstallerForFile(extension) == IF extension \in {"zip", "deb", "rpm"} THEN extension ELSE None

Valid(c) ==
    /\ \E one \in 1..3 : \A s \in 1..3 : Source(c)[s] <=> s = one
    /\ (c.path = "zip" \/ c.url = "zip" \/ c.product # None) => c.destination
    /\ c.product = "vault" => c.edition = "ce"

Getter(c) ==
    IF c.path # None THEN "copy"
    ELSE IF c.product # None /\ c.version THEN "releases"
    ELSE IF c.url # None /\ c.token /\ c.sha THEN "artifactory"
    ELSE None

Installer(c) ==
    IF Getter(c) = "releases" THEN "zip"
    ELSE InstallerForFile(IF c.path # None THEN c.path ELSE c.url)

(* Validate asks for less than packageGetter needs, so some configurations   *)
(* fail only when they are applied.                                          *)
Validate(i) ==
    /\ pc[i] = "validate"
    /\ IF ctx = "live" /\ Valid(config[i])
       THEN Go(i, "select") /\ UNCHANGED <<result, cause>>
       ELSE Fail(i, TRUE)
    /\ UNCHANGED <<config, supported, ctx, after, link, attempts, expanding, faults, host, misses, used>>

(* packageInstallGetDownload installs the binary and then has it download.   *)
GetDownload(i) == Go(i, "facts") /\ after' = Put(after, i, "download")

Select(i) ==
    /\ pc[i] = "select"
    /\ LET getter == Getter(config[i]) IN
       \/ /\ getter = None \/ Installer(config[i]) = None
          /\ Fail(i, TRUE) /\ UNCHANGED after
       \/ /\ getter # None /\ Installer(config[i]) # None
          /\ CASE getter = "copy" -> Go(i, "copy") /\ UNCHANGED after
               [] getter = "releases" -> Go(i, "release") /\ UNCHANGED after
               [] getter = "artifactory" -> GetDownload(i)
          /\ UNCHANGED <<result, cause>>
    /\ UNCHANGED <<config, supported, ctx, link, attempts, expanding, faults, host, misses, used>>

(* What follows the getter. *)
Install(i) ==
    IF Installer(config[i]) = "zip"
    THEN Go(i, "facts") /\ after' = Put(after, i, "unzip")
    ELSE Go(i, "package") /\ UNCHANGED after

-----------------------------------------------------------------------------
(* The getters. *)

GetCopy(i) ==
    /\ pc[i] = "copy"
    /\ \/ /\ Lucky(i) /\ ctx = "live"
          /\ Install(i)
          /\ artifact' = Put(artifact, i, "whole")
          /\ UNCHANGED <<result, cause>>
       \/ /\ link[i] = "up" /\ Fault
          /\ Install(i)
          /\ artifact' = Put(artifact, i, "partial")
          /\ cause' = Put(cause, i, TRUE)
          /\ UNCHANGED result
       \/ /\ Unlucky(i) \/ (ctx = "done" /\ UNCHANGED faults)
          /\ Fail(i, TRUE)
          /\ UNCHANGED <<artifact, after>>
    /\ UNCHANGED <<config, supported, ctx, link, attempts, expanding, destination, package, binary,
                   misses, used>>

(* Platform and architecture, retried without limit until the context ends, *)
(* and the release's SHA256SUMS.                                            *)
GetRelease(i) ==
    /\ pc[i] = "release"
    /\ \/ Lucky(i) /\ GetDownload(i) /\ UNCHANGED <<result, cause>>
       \/ Unlucky(i) /\ UNCHANGED <<pc, after, result, cause>>
       \/ Fault /\ Fail(i, TRUE) /\ UNCHANGED after
       \/ ctx = "done" /\ Fail(i, FALSE) /\ UNCHANGED <<faults, after>>
    /\ UNCHANGED <<config, supported, ctx, link, attempts, expanding, host, misses, used>>

(* Mutation: the retries do not look at the context. *)
TargetFactsForEver(i) ==
    /\ pc[i] = "facts"
    /\ \/ /\ Lucky(i) /\ ctx = "live"
          /\ IF supported THEN Go(i, "digest") /\ UNCHANGED <<result, cause>> ELSE Fail(i, TRUE)
       \/ Unlucky(i) /\ UNCHANGED <<pc, result, cause>>
    /\ UNCHANGED <<config, supported, ctx, after, link, attempts, expanding, host, misses, used>>

(* InstallFlightControl: the facts are retried like those of a release. *)
TargetFacts(i) ==
    /\ pc[i] = "facts"
    /\ \/ /\ Lucky(i) /\ ctx = "live"
          /\ IF supported THEN Go(i, "digest") /\ UNCHANGED <<result, cause>> ELSE Fail(i, TRUE)
       \/ Unlucky(i) /\ UNCHANGED <<pc, result, cause>>
       \/ ctx = "done" /\ Fail(i, FALSE) /\ UNCHANGED faults
    /\ UNCHANGED <<config, supported, ctx, after, link, attempts, expanding, host, misses, used>>

(* Mutation: a binary that is there is good enough. *)
UpToDateIfPresent == binary # "absent"

UpToDate == binary = "current"

(* test -f and a digest by openssl or sha256sum; when they fail, or find     *)
(* anything but the embedded binary, it is copied.                           *)
Digest(i) ==
    /\ pc[i] = "digest"
    /\ \/ Lucky(i) /\ Go(i, IF UpToDate THEN after[i] ELSE "binary")
       \/ Unlucky(i) /\ Go(i, "binary")
    /\ UNCHANGED <<config, supported, ctx, after, link, attempts, expanding, result, host, history>>

(* CopyFile of the binary, retried until the context ends.  Its mv is a      *)
(* rename, or removes and rewrites the binary when /tmp is another file      *)
(* system.                                                                   *)
CopyBinary(i) ==
    /\ pc[i] = "binary"
    /\ \/ Lucky(i) /\ Go(i, after[i]) /\ binary' = "current" /\ UNCHANGED <<result, cause>>
       \/ Lucky(i) /\ Go(i, "move") /\ binary' = "partial" /\ UNCHANGED <<result, cause>>
       \/ /\ link[i] = "up" /\ Fault
          /\ Go(i, after[i])
          /\ binary' = "partial"
          /\ cause' = Put(cause, i, TRUE)
          /\ UNCHANGED result
       \/ Unlucky(i) /\ UNCHANGED <<pc, binary, result, cause>>
       \/ ctx = "done" /\ Fail(i, FALSE) /\ UNCHANGED <<binary, faults>>
    /\ UNCHANGED <<config, supported, ctx, after, link, attempts, expanding, artifact, destination,
                   package, misses, used>>

MoveBinary(i) ==
    /\ pc[i] = "move"
    /\ \/ Lucky(i) /\ Go(i, after[i]) /\ binary' = "current"
       \/ Unlucky(i) /\ Go(i, "binary") /\ UNCHANGED binary
    /\ UNCHANGED <<config, supported, ctx, after, link, attempts, expanding, result, artifact,
                   destination, package, history>>

-----------------------------------------------------------------------------
(* A download: attempts of a command of the binary. *)

Runnable == binary \in {"old", "current"}

(* One attempt of a Retrier with three of them failed. *)
AttemptFailed(i, again) ==
    /\ attempts' = Put(attempts, i, attempts[i] + 1)
    /\ IF attempts[i] + 1 >= MaxAttempts
       THEN Fail(i, FALSE)
       ELSE Go(i, again) /\ UNCHANGED <<result, cause>>

Uses(i) == used' = Put(used, i, used[i] \union {binary})
Missed(i) == misses' = Put(misses, i, misses[i] + 1)

(* The command's own work: the file an earlier attempt left is removed and a *)
(* new one is created.                                                       *)
Created(i) == Put(artifact, i, "empty")

(* Mutation: --replace is not given. *)
DownloadKeeps(i) ==
    /\ pc[i] = "download"
    /\ \/ /\ Lucky(i) /\ ctx = "live" /\ Runnable
          /\ IF artifact[i] = "absent"
             THEN Go(i, "fetch") /\ artifact' = Created(i) /\ UNCHANGED <<attempts, result, cause>>
             ELSE AttemptFailed(i, "download") /\ UNCHANGED artifact
          /\ UNCHANGED misses
       \/ /\ ctx = "live"
          /\ Unlucky(i) \/ (Lucky(i) /\ ~Runnable)
          /\ AttemptFailed(i, "download")
          /\ Missed(i)
          /\ UNCHANGED artifact
       \/ ctx = "done" /\ Fail(i, FALSE) /\ UNCHANGED <<faults, artifact, attempts, misses>>
    /\ UNCHANGED <<config, supported, ctx, after, link, expanding, destination, package, binary, used>>

Download(i) ==
    /\ pc[i] = "download"
    /\ \/ /\ Lucky(i) /\ ctx = "live" /\ Runnable
          /\ Go(i, "fetch")
          /\ artifact' = Created(i)
          /\ Uses(i)
          /\ UNCHANGED <<attempts, misses, result, cause>>
       \/ /\ ctx = "live"
          /\ Unlucky(i) \/ (Lucky(i) /\ ~Runnable)
          /\ AttemptFailed(i, "download")
          /\ Missed(i)
          /\ UNCHANGED <<artifact, used>>
       \/ ctx = "done" /\ Fail(i, FALSE) /\ UNCHANGED <<faults, artifact, attempts, misses, used>>
    /\ UNCHANGED <<config, supported, ctx, after, link, expanding, destination, package, binary>>

(* Content goes to the file as it comes and only then is its sum compared: a *)
(* refused download leaves a file, "empty" for any status but 200.           *)
Verified(content) == content = "whole"

(* The request is answered, or the answer of the command is lost. *)
Fetch(i) ==
    /\ pc[i] = "fetch"
    /\ \E content \in {"whole", "empty", "partial", "wrong"} :
         /\ artifact' = Put(artifact, i, content)
         /\ IF Verified(content) /\ link[i] = "up"
            THEN \/ Install(i) /\ UNCHANGED <<faults, attempts, misses, result, cause>>
                 \/ Fault /\ AttemptFailed(i, "download") /\ Missed(i) /\ UNCHANGED after
            ELSE Unlucky(i) /\ AttemptFailed(i, "download") /\ Missed(i) /\ UNCHANGED after
    /\ UNCHANGED <<config, supported, ctx, link, expanding, destination, package, binary, used>>

-----------------------------------------------------------------------------
(* The installers.  Their command is run once. *)

(* A whole archive is opened; a partial one has no directory. *)
Openable(i) == artifact[i] # "partial"

Unzip(i) ==
    /\ pc[i] = "unzip"
    /\ \/ /\ Lucky(i) /\ ctx = "live" /\ Runnable /\ Openable(i)
          /\ Go(i, "expand")
          /\ expanding' = Put(expanding, i, Files)
          /\ Uses(i)
          /\ UNCHANGED <<result, cause>>
       \/ /\ Unlucky(i) \/ (UNCHANGED faults /\ (ctx = "done" \/ ~Runnable \/ ~Openable(i)))
          /\ Fail(i, TRUE)
          /\ UNCHANGED <<expanding, used>>
    /\ UNCHANGED <<config, supported, ctx, after, link, attempts, host, misses>>

Expanded(i) == IF artifact[i] = "whole" THEN "new" ELSE "wrong"

(* One file of the archive: the old file is removed, since the new one is    *)
(* opened without truncation; a failure leaves it absent or partial and the  *)
(* files before it replaced.                                                 *)
Expand(i, f) ==
    /\ pc[i] = "expand"
    /\ f \in expanding[i]
    /\ \/ /\ UNCHANGED <<pc, result, faults, cause>>
          /\ destination' = [destination EXCEPT ![i][f] = Expanded(i)]
          /\ expanding' = Put(expanding, i, expanding[i] \ {f})
       \/ /\ Fault
          /\ Fail(i, TRUE)
          /\ \E content \in {"absent", "partial"} :
               destination' = [destination EXCEPT ![i][f] = content]
          /\ UNCHANGED expanding
    /\ UNCHANGED <<config, supported, ctx, after, link, attempts, artifact, package, binary, misses, used>>

UnzipEnds(i) ==
    /\ pc[i] = "expand"
    /\ expanding[i] = {}
    /\ attempts' = Put(attempts, i, 0)
    /\ misses' = Put(misses, i, 0)
    /\ \/ Lucky(i) /\ Go(i, "delete") /\ UNCHANGED <<result, cause>>
       \/ Unlucky(i) /\ Fail(i, TRUE)
    /\ UNCHANGED <<config, supported, ctx, after, link, expanding, host, used>>

(* dpkg --install or rpm -U --force. *)
InstallPackage(i) ==
    /\ pc[i] = "package"
    /\ attempts' = Put(attempts, i, 0)
    /\ misses' = Put(misses, i, 0)
    /\ \/ /\ Lucky(i) /\ artifact[i] # "partial" /\ Go(i, "delete") /\ UNCHANGED <<result, cause>>
          /\ package' = Put(package, i, Expanded(i))
       \/ /\ Unlucky(i) \/ (UNCHANGED faults /\ artifact[i] = "partial")
          /\ Fail(i, TRUE)
          /\ package' \in {package} \union (IF artifact[i] = "whole" THEN {Put(package, i, "new")} ELSE {})
    /\ UNCHANGED <<config, supported, ctx, after, link, expanding, artifact, destination, binary, used>>

(* rm without -f, tried three times: when only the answer of the first is    *)
(* lost, the others find nothing to remove and fail.                         *)
DeleteFile(i) ==
    /\ pc[i] = "delete"
    /\ \/ /\ Lucky(i) /\ ctx = "live" /\ artifact[i] # "absent"
          /\ artifact' = Put(artifact, i, "absent")
          /\ Go(i, "return")
          /\ result' = Put(result, i, "ok")
          /\ UNCHANGED <<attempts, misses, cause>>
       \/ /\ ctx = "live" /\ artifact[i] # "absent"
          /\ link[i] = "up" /\ Fault
          /\ attempts[i] + 1 < MaxAttempts
          /\ artifact' = Put(artifact, i, "absent")
          /\ attempts' = Put(attempts, i, attempts[i] + 1)
          /\ cause' = Put(cause, i, TRUE)
          /\ UNCHANGED <<pc, result, misses>>
       \/ /\ ctx = "live"
          /\ Unlucky(i) \/ (Lucky(i) /\ artifact[i] = "absent")
          /\ AttemptFailed(i, "delete")
          /\ Missed(i)
          /\ UNCHANGED artifact
       \/ ctx = "done" /\ Fail(i, FALSE) /\ UNCHANGED <<faults, artifact, attempts, misses>>
    /\ UNCHANGED <<config, supported, ctx, after, link, expanding, destination, package, binary, used>>

Step(i) ==
    \/ Validate(i) \/ Select(i) \/ GetCopy(i) \/ GetRelease(i)
    \/ TargetFacts(i) \/ Digest(i) \/ CopyBinary(i) \/ MoveBinary(i)
    \/ Download(i) \/ Fetch(i)
    \/ Unzip(i) \/ (\E f \in Files : Expand(i, f)) \/ UnzipEnds(i) \/ InstallPackage(i)
    \/ DeleteFile(i)

Next == CtxDone \/ \E i \in Installs : LinkLost(i) \/ Step(i)

Spec == Init /\ [][Next]_vars /\ \A i \in Installs : WF_vars(Step(i))
-----------------------------------------------------------------------------
Contents == {"absent", "empty", "partial", "wrong", "whole"}

TypeOK ==
    /\ \A i \in Installs : config[i] \in Configs[i]
    /\ supported \in BOOLEAN /\ ctx \in {"live", "done"}
    /\ pc \in [Installs -> {"validate", "select", "copy", "release", "facts", "digest", "binary", "move",
               "download", "fetch", "unzip", "expand", "package", "delete", "return"}]
    /\ after \in [Installs -> {None, "download", "unzip"}]
    /\ link \in [Installs -> {"up", "lost"}]
    /\ attempts \in [Installs -> 0..MaxAttempts] /\ misses \in [Installs -> 0..MaxAttempts]
    /\ artifact \in [Installs -> Contents]
    /\ expanding \in [Installs -> SUBSET Files]
    /\ destination \in [Installs -> [Files -> {"absent", "stale", "partial", "wrong", "new"}]]
    /\ package \in [Installs -> {"absent", "wrong", "new"}]
    /\ binary \in {"absent", "old", "partial", "current"}
    /\ result \in [Installs -> {"pending", "ok", "error"}]
    /\ faults \in 0..MaxFaults
    /\ cause \in [Installs -> BOOLEAN]
    /\ used \in [Installs -> SUBSET {"old", "current"}]

(* An install that succeeded put the whole verified artifact where it        *)
(* belongs, over whatever was there and whatever failed attempts left        *)
(* behind, removed its temporary file, and did so with the binary that the   *)
(* provider embeds, although other installs replace that binary meanwhile.   *)
InstalledIsVerified == \A i \in Installs : result[i] = "ok" =>
    /\ IF Installer(config[i]) = "zip" THEN \A f \in Files : destination[i][f] = "new"
       ELSE package[i] = "new"
    /\ artifact[i] = "absent"
    /\ used[i] \subseteq {"current"}

(* An install does not fail without a reason: a configuration, host or       *)
(* server that does not allow it, a failure in a step that is not retried,   *)
(* the end of the context, a lost connection, or as many failures of one     *)
(* step as it has attempts.  Fewer failures of a download are made good,     *)
(* whatever they left behind.                                                *)
FailsForCause == \A i \in Installs : result[i] = "error" =>
    cause[i] \/ ctx = "done" \/ link[i] = "lost" \/ misses[i] >= MaxAttempts

(* Every install returns, unless it retries the facts of a host it lost the  *)
(* connection to: that ends with the context only.                           *)
InstallReturns == \A i \in Installs :
    <>[](pc[i] = "return" \/ (link[i] = "lost" /\ ctx = "live"))
=============================================================================
