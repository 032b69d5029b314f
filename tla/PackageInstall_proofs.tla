-------------------------- MODULE PackageInstall_proofs --------------------------
(***************************************************************************)
(* Proofs about installs applied at the same time, for any number of them, *)
(* any configurations, files of an archive, hosts and faults.              *)
(***************************************************************************)
EXTENDS PackageInstall, TLAPS

Shapes ==
    /\ DOMAIN pc = Installs /\ DOMAIN after = Installs /\ DOMAIN link = Installs
    /\ DOMAIN artifact = Installs /\ DOMAIN expanding = Installs
    /\ DOMAIN destination = Installs /\ DOMAIN package = Installs
    /\ DOMAIN result = Installs /\ DOMAIN used = Installs
    /\ \A i \in Installs : DOMAIN destination[i] = Files
    /\ attempts \in [Installs -> Nat] /\ misses \in [Installs -> Nat]
    /\ cause \in [Installs -> BOOLEAN]

(* Inside InstallFlightControl. *)
InControl(i) == pc[i] \in {"facts", "digest", "binary", "move"}

(* An install that looked at the binary never finds an old one again,      *)
(* whatever other installs do to it.                                       *)
BinaryInv(i) ==
    /\ InControl(i) => after[i] \in {"download", "unzip"}
    /\ pc[i] \in {"move", "download", "fetch", "unzip"} => binary \in {"current", "partial"}
    /\ used[i] \subseteq {"current"}

(* What is in the destination, or is installed. *)
Installed(i) ==
    IF Installer(config[i]) = "zip" THEN \A f \in Files : destination[i][f] = "new"
    ELSE package[i] = "new"

(* Only a verified artifact gets past its getter, but for a remote scp that *)
(* fails unnoticed, and that one is never opened.                           *)
ArtifactInv(i) ==
    /\ (InControl(i) /\ after[i] = "unzip") \/ pc[i] = "unzip" =>
          artifact[i] \in {"whole", "partial"} /\ Installer(config[i]) = "zip"
    /\ pc[i] = "package" =>
          artifact[i] \in {"whole", "partial"} /\ Installer(config[i]) # "zip"
    /\ pc[i] = "expand" =>
          /\ artifact[i] = "whole" /\ Installer(config[i]) = "zip"
          /\ \A f \in Files : f \in expanding[i] \/ destination[i][f] = "new"
    /\ pc[i] = "delete" \/ result[i] = "ok" => Installed(i)
    /\ result[i] = "ok" => artifact[i] = "absent"

(* Attempts are spent on misses, unless a cause is known by now. *)
CauseInv(i) ==
    /\ cause[i] \/ misses[i] = attempts[i]
    /\ result[i] = "error" =>
          cause[i] \/ ctx = "done" \/ link[i] = "lost" \/ misses[i] >= MaxAttempts

InstallInv(i) ==
    /\ result[i] = "pending" <=> pc[i] # "return"
    /\ BinaryInv(i) /\ ArtifactInv(i) /\ CauseInv(i)

Inv == Shapes /\ \A i \in Installs : InstallInv(i)
-----------------------------------------------------------------------------
(* Nothing of another install is touched. *)
Untouched(i) ==
    /\ UNCHANGED config
    /\ pc'[i] = pc[i] /\ after'[i] = after[i] /\ link'[i] = link[i]
    /\ attempts'[i] = attempts[i] /\ misses'[i] = misses[i] /\ cause'[i] = cause[i]
    /\ artifact'[i] = artifact[i] /\ expanding'[i] = expanding[i]
    /\ destination'[i] = destination[i] /\ package'[i] = package[i]
    /\ result'[i] = result[i] /\ used'[i] = used[i]

LEMMA SelectIs ==
    ASSUME NEW i, Select(i)
    PROVE  \/ Fail(i, TRUE) /\ UNCHANGED after
           \/ UNCHANGED <<result, cause, after>> /\ Go(i, "copy") /\ Getter(config[i]) = "copy"
           \/ UNCHANGED <<result, cause, after>> /\ Go(i, "release")
           \/ UNCHANGED <<result, cause>> /\ GetDownload(i)
<1>1. Getter(config[i]) \in {None, "copy", "releases", "artifactory"}
  BY DEF Getter
<1> QED
  BY <1>1 DEF Select, None

LEMMA ShapesStay ==
    ASSUME Shapes, NEW j \in Installs, Step(j) \/ LinkLost(j) PROVE Shapes'
<1> USE DEF Shapes, Go, Put, Fail, Unlucky, Lucky, Fault, vars, host, history
<1>1. CASE Validate(j)
  BY <1>1 DEF Validate
<1>2. CASE Select(j)
  <2>1. CASE Fail(j, TRUE) /\ UNCHANGED after
    BY <1>2, <2>1 DEF Select
  <2>2. CASE UNCHANGED <<result, cause, after>> /\ Go(j, "copy")
    BY <1>2, <2>2 DEF Select
  <2>3. CASE UNCHANGED <<result, cause, after>> /\ Go(j, "release")
    BY <1>2, <2>3 DEF Select
  <2>4. CASE UNCHANGED <<result, cause>> /\ GetDownload(j)
    BY <1>2, <2>4 DEF Select, GetDownload
  <2> QED
    BY <1>2, <2>1, <2>2, <2>3, <2>4, SelectIs
<1>3. CASE GetCopy(j)
  BY <1>3 DEF GetCopy, Install
<1>4. CASE GetRelease(j)
  BY <1>4 DEF GetRelease, GetDownload
<1>5. CASE TargetFacts(j)
  BY <1>5 DEF TargetFacts
<1>6. CASE Digest(j)
  BY <1>6 DEF Digest
<1>7. CASE CopyBinary(j)
  BY <1>7 DEF CopyBinary
<1>8. CASE MoveBinary(j)
  BY <1>8 DEF MoveBinary
<1>9. CASE Download(j)
  BY <1>9 DEF Download, AttemptFailed, Missed, Uses, Created
<1>10. CASE Fetch(j)
  BY <1>10 DEF Fetch, Install, AttemptFailed, Missed
<1>11. CASE Unzip(j)
  BY <1>11 DEF Unzip, Uses
<1>12. ASSUME NEW f \in Files, Expand(j, f) PROVE Shapes'
  BY <1>12 DEF Expand
<1>13. CASE UnzipEnds(j)
  BY <1>13 DEF UnzipEnds
<1>14. CASE InstallPackage(j)
  BY <1>14 DEF InstallPackage
<1>15. CASE DeleteFile(j)
  <2>1. /\ DOMAIN pc' = Installs /\ DOMAIN artifact' = Installs /\ DOMAIN result' = Installs
        /\ UNCHANGED <<after, link, expanding, destination, package, used>>
    BY <1>15 DEF DeleteFile, AttemptFailed
  <2>2. \/ attempts' = attempts
        \/ attempts' = [attempts EXCEPT ![j] = attempts[j] + 1]
    BY <1>15 DEF DeleteFile, AttemptFailed
  <2>3. \/ misses' = misses
        \/ misses' = [misses EXCEPT ![j] = misses[j] + 1]
    BY <1>15 DEF DeleteFile, Missed
  <2>4. cause' = cause \/ \E b \in BOOLEAN : cause' = [cause EXCEPT ![j] = b]
    BY <1>15 DEF DeleteFile, AttemptFailed
  <2>5. attempts' \in [Installs -> Nat] /\ misses' \in [Installs -> Nat]
    BY <2>2, <2>3
  <2>6. cause' \in [Installs -> BOOLEAN]
    BY <2>4
  <2> QED
    BY <2>1, <2>5, <2>6
<1>16. CASE LinkLost(j)
  BY <1>16 DEF LinkLost
<1> QED
  BY <1>1, <1>2, <1>3, <1>4, <1>5, <1>6, <1>7, <1>8, <1>9, <1>10, <1>11, <1>12, <1>13,
     <1>14, <1>15, <1>16 DEF Step

LEMMA OthersUntouched ==
    ASSUME Shapes, NEW i \in Installs, NEW j \in Installs \ {i}, Step(j) \/ LinkLost(j)
    PROVE  Untouched(i)
<1> USE DEF Shapes, Untouched, Go, Put, Fail, Unlucky, Lucky, Fault, vars, host, history
<1>1. CASE Validate(j)
  BY <1>1 DEF Validate
<1>2. CASE Select(j)
  <2>1. CASE Fail(j, TRUE) /\ UNCHANGED after
    BY <1>2, <2>1 DEF Select
  <2>2. CASE UNCHANGED <<result, cause, after>> /\ Go(j, "copy")
    BY <1>2, <2>2 DEF Select
  <2>3. CASE UNCHANGED <<result, cause, after>> /\ Go(j, "release")
    BY <1>2, <2>3 DEF Select
  <2>4. CASE UNCHANGED <<result, cause>> /\ GetDownload(j)
    BY <1>2, <2>4 DEF Select, GetDownload
  <2> QED
    BY <1>2, <2>1, <2>2, <2>3, <2>4, SelectIs
<1>3. CASE GetCopy(j)
  BY <1>3 DEF GetCopy, Install
<1>4. CASE GetRelease(j)
  BY <1>4 DEF GetRelease, GetDownload
<1>5. CASE TargetFacts(j)
  BY <1>5 DEF TargetFacts
<1>6. CASE Digest(j)
  BY <1>6 DEF Digest
<1>7. CASE CopyBinary(j)
  BY <1>7 DEF CopyBinary
<1>8. CASE MoveBinary(j)
  BY <1>8 DEF MoveBinary
<1>9. CASE Download(j)
  BY <1>9 DEF Download, AttemptFailed, Missed, Uses, Created
<1>10. CASE Fetch(j)
  BY <1>10 DEF Fetch, Install, AttemptFailed, Missed
<1>11. CASE Unzip(j)
  BY <1>11 DEF Unzip, Uses
<1>12. ASSUME NEW f \in Files, Expand(j, f) PROVE Untouched(i)
  BY <1>12 DEF Expand
<1>13. CASE UnzipEnds(j)
  BY <1>13 DEF UnzipEnds
<1>14. CASE InstallPackage(j)
  BY <1>14 DEF InstallPackage
<1>15. CASE DeleteFile(j)
  BY <1>15 DEF DeleteFile, AttemptFailed, Missed
<1>16. CASE LinkLost(j)
  BY <1>16 DEF LinkLost
<1> QED
  BY <1>1, <1>2, <1>3, <1>4, <1>5, <1>6, <1>7, <1>8, <1>9, <1>10, <1>11, <1>12, <1>13,
     <1>14, <1>15, <1>16 DEF Step

(* Once it is not old, the binary never is again; the context never revives. *)
LEMMA BinaryGetsNewer ==
    ASSUME NEW j \in Installs, Step(j) \/ LinkLost(j)
    PROVE  (binary' = binary \/ binary' \in {"current", "partial"}) /\ ctx' = ctx
<1> USE DEF Go, Put, Fail, Unlucky, Lucky, Fault, vars, host, history
<1>1. CASE Validate(j)
  BY <1>1 DEF Validate
<1>2. CASE Select(j)
  <2>1. CASE Fail(j, TRUE) /\ UNCHANGED after
    BY <1>2, <2>1 DEF Select
  <2>2. CASE UNCHANGED <<result, cause, after>> /\ Go(j, "copy")
    BY <1>2, <2>2 DEF Select
  <2>3. CASE UNCHANGED <<result, cause, after>> /\ Go(j, "release")
    BY <1>2, <2>3 DEF Select
  <2>4. CASE UNCHANGED <<result, cause>> /\ GetDownload(j)
    BY <1>2, <2>4 DEF Select, GetDownload
  <2> QED
    BY <1>2, <2>1, <2>2, <2>3, <2>4, SelectIs
<1>3. CASE GetCopy(j)
  BY <1>3 DEF GetCopy, Install
<1>4. CASE GetRelease(j)
  BY <1>4 DEF GetRelease, GetDownload
<1>5. CASE TargetFacts(j)
  BY <1>5 DEF TargetFacts
<1>6. CASE Digest(j)
  BY <1>6 DEF Digest
<1>7. CASE CopyBinary(j)
  BY <1>7 DEF CopyBinary
<1>8. CASE MoveBinary(j)
  BY <1>8 DEF MoveBinary
<1>9. CASE Download(j)
  BY <1>9 DEF Download, AttemptFailed, Missed, Uses, Created
<1>10. CASE Fetch(j)
  BY <1>10 DEF Fetch, Install, AttemptFailed, Missed
<1>11. CASE Unzip(j)
  BY <1>11 DEF Unzip, Uses
<1>12. ASSUME NEW f \in Files, Expand(j, f) PROVE (binary' = binary \/ binary' \in {"current", "partial"}) /\ ctx' = ctx
  BY <1>12 DEF Expand
<1>13. CASE UnzipEnds(j)
  BY <1>13 DEF UnzipEnds
<1>14. CASE InstallPackage(j)
  BY <1>14 DEF InstallPackage
<1>15. CASE DeleteFile(j)
  BY <1>15 DEF DeleteFile, AttemptFailed, Missed
<1>16. CASE LinkLost(j)
  BY <1>16 DEF LinkLost
<1> QED
  BY <1>1, <1>2, <1>3, <1>4, <1>5, <1>6, <1>7, <1>8, <1>9, <1>10, <1>11, <1>12, <1>13,
     <1>14, <1>15, <1>16 DEF Step

(* An install keeps its invariant while others go on. *)
LEMMA OthersKeep ==
    ASSUME NEW i \in Installs, InstallInv(i), Untouched(i), ctx' = ctx \/ ctx' = "done",
           binary' = binary \/ binary' \in {"current", "partial"}
    PROVE  InstallInv(i)'
  BY DEF InstallInv, BinaryInv, ArtifactInv, CauseInv, InControl, Installed, Untouched

(* An install keeps its invariant in its own steps, in three parts. *)
LEMMA BinaryStays ==
    ASSUME Shapes, NEW j \in Installs, InstallInv(j), Step(j) PROVE BinaryInv(j)'
<1> USE DEF Shapes, InstallInv, BinaryInv, InControl, Go, Put, Fail, Unlucky, Lucky, Fault, vars, host, history
<1>1. CASE Validate(j)
  BY <1>1 DEF Validate
<1>2. CASE Select(j)
  <2>1. CASE Fail(j, TRUE) /\ UNCHANGED after
    BY <1>2, <2>1 DEF Select
  <2>2. CASE UNCHANGED <<result, cause, after>> /\ Go(j, "copy")
    BY <1>2, <2>2 DEF Select
  <2>3. CASE UNCHANGED <<result, cause, after>> /\ Go(j, "release")
    BY <1>2, <2>3 DEF Select
  <2>4. CASE UNCHANGED <<result, cause>> /\ GetDownload(j)
    BY <1>2, <2>4 DEF Select, GetDownload
  <2> QED
    BY <1>2, <2>1, <2>2, <2>3, <2>4, SelectIs
<1>3. CASE GetCopy(j)
  BY <1>3 DEF GetCopy, Install
<1>4. CASE GetRelease(j)
  BY <1>4 DEF GetRelease, GetDownload
<1>5. CASE TargetFacts(j)
  BY <1>5 DEF TargetFacts
<1>6. CASE Digest(j)
  BY <1>6 DEF Digest, UpToDate
<1>7. CASE CopyBinary(j)
  BY <1>7 DEF CopyBinary
<1>8. CASE MoveBinary(j)
  BY <1>8 DEF MoveBinary
<1>9. CASE Download(j)
  BY <1>9 DEF Download, AttemptFailed, Missed, Uses, Created, Runnable
<1>10. CASE Fetch(j)
  BY <1>10 DEF Fetch, Install, AttemptFailed, Missed
<1>11. CASE Unzip(j)
  BY <1>11 DEF Unzip, Uses, Runnable
<1>12. ASSUME NEW f \in Files, Expand(j, f) PROVE BinaryInv(j)'
  BY <1>12 DEF Expand
<1>13. CASE UnzipEnds(j)
  BY <1>13 DEF UnzipEnds
<1>14. CASE InstallPackage(j)
  BY <1>14 DEF InstallPackage
<1>15. CASE DeleteFile(j)
  BY <1>15 DEF DeleteFile, AttemptFailed, Missed
<1> QED
  BY <1>1, <1>2, <1>3, <1>4, <1>5, <1>6, <1>7, <1>8, <1>9, <1>10, <1>11, <1>12, <1>13,
     <1>14, <1>15 DEF Step

LEMMA ArtifactStays ==
    ASSUME Shapes, NEW j \in Installs, InstallInv(j), Step(j) PROVE ArtifactInv(j)'
<1> USE DEF Shapes, InstallInv, ArtifactInv, InControl, Installed, Go, Put, Fail, Unlucky, Lucky, Fault, vars, host, history
<1>1. CASE Validate(j)
  BY <1>1 DEF Validate
<1>2. CASE Select(j)
  <2>1. CASE Fail(j, TRUE) /\ UNCHANGED after
    BY <1>2, <2>1 DEF Select
  <2>2. CASE UNCHANGED <<result, cause, after>> /\ Go(j, "copy")
    BY <1>2, <2>2 DEF Select
  <2>3. CASE UNCHANGED <<result, cause, after>> /\ Go(j, "release")
    BY <1>2, <2>3 DEF Select
  <2>4. CASE UNCHANGED <<result, cause>> /\ GetDownload(j)
    BY <1>2, <2>4 DEF Select, GetDownload
  <2> QED
    BY <1>2, <2>1, <2>2, <2>3, <2>4, SelectIs
<1>3. CASE GetCopy(j)
  BY <1>3 DEF GetCopy, Install
<1>4. CASE GetRelease(j)
  BY <1>4 DEF GetRelease, GetDownload
<1>5. CASE TargetFacts(j)
  BY <1>5 DEF TargetFacts, BinaryInv
<1>6. CASE Digest(j)
  BY <1>6 DEF Digest, BinaryInv
<1>7. CASE CopyBinary(j)
  BY <1>7 DEF CopyBinary, BinaryInv
<1>8. CASE MoveBinary(j)
  BY <1>8 DEF MoveBinary, BinaryInv
<1>9. CASE Download(j)
  BY <1>9 DEF Download, AttemptFailed, Missed, Uses, Created
<1>10. CASE Fetch(j)
  BY <1>10 DEF Fetch, Install, AttemptFailed, Missed, Verified
<1>11. CASE Unzip(j)
  BY <1>11 DEF Unzip, Uses, Openable
<1>12. ASSUME NEW f \in Files, Expand(j, f) PROVE ArtifactInv(j)'
  BY <1>12 DEF Expand, Expanded
<1>13. CASE UnzipEnds(j)
  BY <1>13 DEF UnzipEnds
<1>14. CASE InstallPackage(j)
  BY <1>14 DEF InstallPackage, Expanded
<1>15. CASE DeleteFile(j)
  BY <1>15 DEF DeleteFile, AttemptFailed, Missed
<1> QED
  BY <1>1, <1>2, <1>3, <1>4, <1>5, <1>6, <1>7, <1>8, <1>9, <1>10, <1>11, <1>12, <1>13,
     <1>14, <1>15 DEF Step

LEMMA CauseStays ==
    ASSUME Shapes, NEW j \in Installs, InstallInv(j), Step(j)
    PROVE  CauseInv(j)' /\ (result'[j] = "pending" <=> pc'[j] # "return")
<1> USE DEF Shapes, InstallInv, CauseInv, BinaryInv, InControl, MaxAttempts, Go, Put, Fail, Unlucky, Lucky, Fault, vars, host, history
<1>1. CASE Validate(j)
  BY <1>1 DEF Validate
<1>2. CASE Select(j)
  <2>1. CASE Fail(j, TRUE) /\ UNCHANGED after
    BY <1>2, <2>1 DEF Select
  <2>2. CASE UNCHANGED <<result, cause, after>> /\ Go(j, "copy")
    BY <1>2, <2>2 DEF Select
  <2>3. CASE UNCHANGED <<result, cause, after>> /\ Go(j, "release")
    BY <1>2, <2>3 DEF Select
  <2>4. CASE UNCHANGED <<result, cause>> /\ GetDownload(j)
    BY <1>2, <2>4 DEF Select, GetDownload
  <2> QED
    BY <1>2, <2>1, <2>2, <2>3, <2>4, SelectIs
<1>3. CASE GetCopy(j)
  <2>1. pc[j] = "copy" /\ UNCHANGED <<misses, attempts, ctx>>
    BY <1>3 DEF GetCopy
  <2>2. CASE Install(j) /\ UNCHANGED result /\ UNCHANGED cause
    BY <1>3, <2>1, <2>2 DEF Install
  <2>3. CASE Install(j) /\ UNCHANGED result /\ cause' = [cause EXCEPT ![j] = TRUE]
    BY <1>3, <2>1, <2>3 DEF Install
  <2>4. CASE Fail(j, TRUE)
    BY <1>3, <2>1, <2>4
  <2> QED
    BY <1>3, <2>2, <2>3, <2>4 DEF GetCopy
<1>4. CASE GetRelease(j)
  BY <1>4 DEF GetRelease, GetDownload
<1>5. CASE TargetFacts(j)
  BY <1>5 DEF TargetFacts
<1>6. CASE Digest(j)
  BY <1>6 DEF Digest
<1>7. CASE CopyBinary(j)
  BY <1>7 DEF CopyBinary
<1>8. CASE MoveBinary(j)
  BY <1>8 DEF MoveBinary
<1>9. CASE Download(j)
  BY <1>9 DEF Download, AttemptFailed, Missed, Uses, Created
<1>10. CASE Fetch(j)
  BY <1>10 DEF Fetch, Install, AttemptFailed, Missed
<1>11. CASE Unzip(j)
  BY <1>11 DEF Unzip, Uses
<1>12. ASSUME NEW f \in Files, Expand(j, f) PROVE CauseInv(j)' /\ (result'[j] = "pending" <=> pc'[j] # "return")
  BY <1>12 DEF Expand
<1>13. CASE UnzipEnds(j)
  BY <1>13 DEF UnzipEnds
<1>14. CASE InstallPackage(j)
  BY <1>14 DEF InstallPackage
<1>15. CASE DeleteFile(j)
  BY <1>15 DEF DeleteFile, AttemptFailed, Missed
<1> QED
  BY <1>1, <1>2, <1>3, <1>4, <1>5, <1>6, <1>7, <1>8, <1>9, <1>10, <1>11, <1>12, <1>13,
     <1>14, <1>15 DEF Step

(***************************************************************************)
(* All installs together.                                                  *)
(***************************************************************************)
LEMMA InvStays == ASSUME Inv, [Next]_vars PROVE Inv'
<1> USE DEF Inv
<1>1. CASE CtxDone
  <2>1. Shapes'
    BY <1>1 DEF CtxDone, Shapes, host, history
  <2>2. ASSUME NEW i \in Installs PROVE InstallInv(i)'
    BY <1>1, OthersKeep DEF CtxDone, Untouched, host, history
  <2> QED
    BY <2>1, <2>2
<1>2. ASSUME NEW j \in Installs, LinkLost(j) \/ Step(j) PROVE Inv'
  <2>1. Shapes'
    BY <1>2, ShapesStay
  <2>2. ASSUME NEW i \in Installs PROVE InstallInv(i)'
    <3>1. CASE i # j
      BY <1>2, <3>1, OthersUntouched, BinaryGetsNewer, OthersKeep
    <3>2. CASE i = j /\ LinkLost(j)
      BY <3>2 DEF LinkLost, InstallInv, BinaryInv, ArtifactInv, CauseInv, InControl, Installed,
                  Shapes, host, history
    <3>3. CASE i = j /\ Step(j)
      BY <3>3, BinaryStays, ArtifactStays, CauseStays DEF InstallInv
    <3> QED
      BY <1>2, <3>1, <3>2, <3>3
  <2> QED
    BY <2>1, <2>2
<1>3. CASE UNCHANGED vars
  BY <1>3 DEF vars, host, history, Shapes, InstallInv, BinaryInv, ArtifactInv, CauseInv,
              InControl, Installed
<1> QED
  BY <1>1, <1>2, <1>3 DEF Next

LEMMA InvInit == Init => Inv
<1> SUFFICES ASSUME Init PROVE Inv
  OBVIOUS
<1>1. Shapes
  BY DEF Init, Shapes
<1>2. ASSUME NEW i \in Installs PROVE InstallInv(i)
  BY <1>2 DEF Init, InstallInv, BinaryInv, ArtifactInv, CauseInv, InControl
<1> QED
  BY <1>1, <1>2 DEF Inv

LEMMA Invariant == Spec => []Inv
  BY InvInit, InvStays, PTL DEF Spec

(* Whatever fails, is retried or is replaced by other installs meanwhile:   *)
(* an install that succeeded put all of a verified artifact where it        *)
(* belongs, removed its temporary file, and ran no other binary than the    *)
(* one the provider embeds.                                                 *)
THEOREM SuccessIsVerified == Spec => []InstalledIsVerified
<1>1. Inv => InstalledIsVerified
  BY DEF Inv, InstallInv, BinaryInv, ArtifactInv, Installed, InstalledIsVerified
<1> QED
  BY <1>1, Invariant, PTL

(* An install fails for a cause that no retry avoids, at the end of its     *)
(* context or connection, or after as many misses of one step as it has     *)
(* attempts: what an earlier attempt leaves behind never makes it fail.     *)
THEOREM FailureHasACause == Spec => []FailsForCause
<1>1. Inv => FailsForCause
  BY DEF Inv, InstallInv, CauseInv, FailsForCause
<1> QED
  BY <1>1, Invariant, PTL

(***************************************************************************)
(* The types of the variables.                                             *)
(***************************************************************************)
ControlOK ==
    /\ \A i \in Installs : config[i] \in Configs[i]
    /\ supported \in BOOLEAN /\ ctx \in {"live", "done"}
    /\ pc \in [Installs -> {"validate", "select", "copy", "release", "facts", "digest", "binary", "move",
               "download", "fetch", "unzip", "expand", "package", "delete", "return"}]
    /\ after \in [Installs -> {None, "download", "unzip"}]
    /\ link \in [Installs -> {"up", "lost"}]
    /\ result \in [Installs -> {"pending", "ok", "error"}]
    /\ faults \in 0..MaxFaults

ContentsOK ==
    /\ artifact \in [Installs -> Contents]
    /\ expanding \in [Installs -> SUBSET Files]
    /\ destination \in [Installs -> [Files -> {"absent", "stale", "partial", "wrong", "new"}]]
    /\ package \in [Installs -> {"absent", "wrong", "new"}]
    /\ binary \in {"absent", "old", "partial", "current"}
    /\ used \in [Installs -> SUBSET {"old", "current"}]

(* An install that goes on has an attempt left, and each miss was one. *)
BudgetInv == \A i \in Installs :
    /\ attempts[i] <= MaxAttempts /\ misses[i] <= attempts[i]
    /\ pc[i] # "return" => attempts[i] < MaxAttempts

LEMMA ControlStays ==
    ASSUME Shapes, ControlOK, NEW j \in Installs, InstallInv(j), Step(j) \/ LinkLost(j)
    PROVE  ControlOK'
<1> USE PackageInstallAssumption DEF ControlOK, Shapes, InstallInv, BinaryInv, InControl, Go, Put, Fail, Unlucky, Lucky, Fault, vars, host, history
<1>1. CASE Validate(j)
  BY <1>1 DEF Validate
<1>2. CASE Select(j)
  <2>1. CASE Fail(j, TRUE) /\ UNCHANGED after
    BY <1>2, <2>1 DEF Select
  <2>2. CASE UNCHANGED <<result, cause, after>> /\ Go(j, "copy")
    BY <1>2, <2>2 DEF Select
  <2>3. CASE UNCHANGED <<result, cause, after>> /\ Go(j, "release")
    BY <1>2, <2>3 DEF Select
  <2>4. CASE UNCHANGED <<result, cause>> /\ GetDownload(j)
    BY <1>2, <2>4 DEF Select, GetDownload
  <2> QED
    BY <1>2, <2>1, <2>2, <2>3, <2>4, SelectIs
<1>3. CASE GetCopy(j)
  BY <1>3 DEF GetCopy, Install
<1>4. CASE GetRelease(j)
  BY <1>4 DEF GetRelease, GetDownload
<1>5. CASE TargetFacts(j)
  BY <1>5 DEF TargetFacts
<1>6. CASE Digest(j)
  BY <1>6 DEF Digest
<1>7. CASE CopyBinary(j)
  BY <1>7 DEF CopyBinary
<1>8. CASE MoveBinary(j)
  BY <1>8 DEF MoveBinary
<1>9. CASE Download(j)
  BY <1>9 DEF Download, AttemptFailed, Missed, Uses, Created, Runnable
<1>10. CASE Fetch(j)
  BY <1>10 DEF Fetch, Install, AttemptFailed, Missed
<1>11. CASE Unzip(j)
  BY <1>11 DEF Unzip, Uses, Runnable
<1>12. ASSUME NEW f \in Files, Expand(j, f) PROVE ControlOK'
  BY <1>12 DEF Expand, Expanded
<1>13. CASE UnzipEnds(j)
  BY <1>13 DEF UnzipEnds
<1>14. CASE InstallPackage(j)
  BY <1>14 DEF InstallPackage, Expanded
<1>15. CASE DeleteFile(j)
  BY <1>15 DEF DeleteFile, AttemptFailed, Missed
<1>16. CASE LinkLost(j)
  BY <1>16 DEF LinkLost
<1> QED
  BY <1>1, <1>2, <1>3, <1>4, <1>5, <1>6, <1>7, <1>8,
     <1>9, <1>10, <1>11, <1>12, <1>13, <1>14, <1>15, <1>16 DEF Step

LEMMA ContentsStay ==
    ASSUME Shapes, ContentsOK, NEW j \in Installs, Step(j) \/ LinkLost(j)
    PROVE  ContentsOK'
<1> USE DEF ContentsOK, Contents, Shapes, Go, Put, Fail, Unlucky, Lucky, Fault, vars, host, history
<1>1. CASE Validate(j)
  BY <1>1 DEF Validate
<1>2. CASE Select(j)
  <2>1. CASE Fail(j, TRUE) /\ UNCHANGED after
    BY <1>2, <2>1 DEF Select
  <2>2. CASE UNCHANGED <<result, cause, after>> /\ Go(j, "copy")
    BY <1>2, <2>2 DEF Select
  <2>3. CASE UNCHANGED <<result, cause, after>> /\ Go(j, "release")
    BY <1>2, <2>3 DEF Select
  <2>4. CASE UNCHANGED <<result, cause>> /\ GetDownload(j)
    BY <1>2, <2>4 DEF Select, GetDownload
  <2> QED
    BY <1>2, <2>1, <2>2, <2>3, <2>4, SelectIs
<1>3. CASE GetCopy(j)
  BY <1>3 DEF GetCopy, Install
<1>4. CASE GetRelease(j)
  BY <1>4 DEF GetRelease, GetDownload
<1>5. CASE TargetFacts(j)
  BY <1>5 DEF TargetFacts
<1>6. CASE Digest(j)
  BY <1>6 DEF Digest
<1>7. CASE CopyBinary(j)
  BY <1>7 DEF CopyBinary
<1>8. CASE MoveBinary(j)
  BY <1>8 DEF MoveBinary
<1>9. CASE Download(j)
  <2>1. CASE UNCHANGED used
    BY <1>9, <2>1 DEF Download, AttemptFailed, Created
  <2>2. CASE Runnable /\ Uses(j)
    <3>1. binary \in {"old", "current"} /\ used' = [used EXCEPT ![j] = used[j] \union {binary}]
      BY <2>2 DEF Runnable, Uses
    <3>2. used[j] \union {binary} \in SUBSET {"old", "current"}
      BY <3>1
    <3>3. used' \in [Installs -> SUBSET {"old", "current"}]
      BY <3>1, <3>2
    <3> QED
      BY <1>9, <3>3 DEF Download, AttemptFailed, Created
  <2> QED
    BY <1>9, <2>1, <2>2 DEF Download
<1>10. CASE Fetch(j)
  BY <1>10 DEF Fetch, Install, AttemptFailed, Missed
<1>11. CASE Unzip(j)
  <2>1. CASE UNCHANGED <<expanding, used>>
    BY <1>11, <2>1 DEF Unzip
  <2>2. CASE Runnable /\ Uses(j) /\ expanding' = [expanding EXCEPT ![j] = Files]
    <3>1. binary \in {"old", "current"} /\ used' = [used EXCEPT ![j] = used[j] \union {binary}]
      BY <2>2 DEF Runnable, Uses
    <3>2. used[j] \union {binary} \in SUBSET {"old", "current"}
      BY <3>1
    <3>3. used' \in [Installs -> SUBSET {"old", "current"}]
      BY <3>1, <3>2
    <3>4. expanding' \in [Installs -> SUBSET Files]
      BY <2>2
    <3> QED
      BY <1>11, <3>3, <3>4 DEF Unzip
  <2> QED
    BY <1>11, <2>1, <2>2 DEF Unzip
<1>12. ASSUME NEW f \in Files, Expand(j, f) PROVE ContentsOK'
  <2> DEFINE Kinds == {"absent", "stale", "partial", "wrong", "new"}
  <2>1. PICK content \in Kinds : destination' = [destination EXCEPT ![j][f] = content]
    BY <1>12 DEF Expand, Expanded
  <2>2. [destination[j] EXCEPT ![f] = content] \in [Files -> Kinds]
    OBVIOUS
  <2>3. destination' \in [Installs -> [Files -> Kinds]]
    BY <2>1, <2>2
  <2>4. expanding' \in [Installs -> SUBSET Files]
    <3>1. expanding[j] \ {f} \in SUBSET Files
      OBVIOUS
    <3> QED
      BY <1>12, <3>1 DEF Expand
  <2>5. UNCHANGED <<artifact, package, binary, used>>
    BY <1>12 DEF Expand
  <2> QED
    BY <2>3, <2>4, <2>5
<1>13. CASE UnzipEnds(j)
  BY <1>13 DEF UnzipEnds
<1>14. CASE InstallPackage(j)
  BY <1>14 DEF InstallPackage, Expanded
<1>15. CASE DeleteFile(j)
  BY <1>15 DEF DeleteFile, AttemptFailed, Missed
<1>16. CASE LinkLost(j)
  BY <1>16 DEF LinkLost
<1> QED
  BY <1>1, <1>2, <1>3, <1>4, <1>5, <1>6, <1>7, <1>8,
     <1>9, <1>10, <1>11, <1>12, <1>13, <1>14, <1>15, <1>16 DEF Step

LEMMA BudgetStays ==
    ASSUME Shapes, BudgetInv, NEW j \in Installs, Step(j) \/ LinkLost(j)
    PROVE  BudgetInv'
<1> USE DEF BudgetInv, MaxAttempts, Shapes, Go, Put, Fail, Unlucky, Lucky, Fault, vars, host, history
<1>1. CASE Validate(j)
  BY <1>1 DEF Validate
<1>2. CASE Select(j)
  <2>1. CASE Fail(j, TRUE) /\ UNCHANGED after
    BY <1>2, <2>1 DEF Select
  <2>2. CASE UNCHANGED <<result, cause, after>> /\ Go(j, "copy")
    BY <1>2, <2>2 DEF Select
  <2>3. CASE UNCHANGED <<result, cause, after>> /\ Go(j, "release")
    BY <1>2, <2>3 DEF Select
  <2>4. CASE UNCHANGED <<result, cause>> /\ GetDownload(j)
    BY <1>2, <2>4 DEF Select, GetDownload
  <2> QED
    BY <1>2, <2>1, <2>2, <2>3, <2>4, SelectIs
<1>3. CASE GetCopy(j)
  BY <1>3 DEF GetCopy, Install
<1>4. CASE GetRelease(j)
  BY <1>4 DEF GetRelease, GetDownload
<1>5. CASE TargetFacts(j)
  BY <1>5 DEF TargetFacts
<1>6. CASE Digest(j)
  BY <1>6 DEF Digest
<1>7. CASE CopyBinary(j)
  BY <1>7 DEF CopyBinary
<1>8. CASE MoveBinary(j)
  BY <1>8 DEF MoveBinary
<1>9. CASE Download(j)
  BY <1>9 DEF Download, AttemptFailed, Missed, Uses, Created, Runnable
<1>10. CASE Fetch(j)
  BY <1>10 DEF Fetch, Install, AttemptFailed, Missed
<1>11. CASE Unzip(j)
  BY <1>11 DEF Unzip, Uses, Runnable
<1>12. ASSUME NEW f \in Files, Expand(j, f) PROVE BudgetInv'
  BY <1>12 DEF Expand, Expanded
<1>13. CASE UnzipEnds(j)
  BY <1>13 DEF UnzipEnds
<1>14. CASE InstallPackage(j)
  BY <1>14 DEF InstallPackage, Expanded
<1>15. CASE DeleteFile(j)
  BY <1>15 DEF DeleteFile, AttemptFailed, Missed
<1>16. CASE LinkLost(j)
  BY <1>16 DEF LinkLost
<1> QED
  BY <1>1, <1>2, <1>3, <1>4, <1>5, <1>6, <1>7, <1>8,
     <1>9, <1>10, <1>11, <1>12, <1>13, <1>14, <1>15, <1>16 DEF Step

(* Types, attempts and misses: no step has more attempts than the Retrier it *)
(* is run by allows, and what it leaves behind on the host is one of the     *)
(* contents the properties tell apart.                                       *)
THEOREM InstallsAreTyped == Spec => []TypeOK
<1> DEFINE Typed == ControlOK /\ ContentsOK /\ BudgetInv
<1>1. Init => Typed
  <2> SUFFICES ASSUME Init PROVE Typed
    OBVIOUS
  <2> USE PackageInstallAssumption DEF Init
  <2>1. ControlOK
    BY DEF ControlOK
  <2>2. ContentsOK
    BY DEF ContentsOK, Contents
  <2>3. BudgetInv
    BY DEF BudgetInv, MaxAttempts
  <2> QED
    BY <2>1, <2>2, <2>3
<1>2. ASSUME Typed, Inv, [Next]_vars PROVE Typed'
  <2>1. CASE CtxDone
    BY <1>2, <2>1 DEF CtxDone, ControlOK, ContentsOK, BudgetInv, host, history
  <2>2. ASSUME NEW j \in Installs, LinkLost(j) \/ Step(j) PROVE Typed'
    BY <1>2, <2>2, ControlStays, ContentsStay, BudgetStays DEF Inv
  <2>3. CASE UNCHANGED vars
    BY <1>2, <2>3 DEF vars, host, history, ControlOK, ContentsOK, BudgetInv
  <2> QED
    BY <1>2, <2>1, <2>2, <2>3 DEF Next
<1>3. Typed /\ Inv => TypeOK
  <2> SUFFICES ASSUME Typed, Inv PROVE TypeOK
    OBVIOUS
  <2>1. /\ attempts \in [Installs -> 0..MaxAttempts] /\ misses \in [Installs -> 0..MaxAttempts]
        /\ cause \in [Installs -> BOOLEAN]
    <3>1. /\ attempts \in [Installs -> Nat] /\ misses \in [Installs -> Nat]
          /\ cause \in [Installs -> BOOLEAN]
      BY DEF Inv, Shapes
    <3>2. \A i \in Installs : attempts[i] \in 0..MaxAttempts /\ misses[i] \in 0..MaxAttempts
      BY <3>1 DEF BudgetInv, MaxAttempts
    <3> QED
      BY <3>1, <3>2
  <2> QED
    BY <2>1 DEF ControlOK, ContentsOK, TypeOK
<1> QED
  BY <1>1, <1>2, <1>3, Invariant, PTL DEF Spec
=============================================================================
