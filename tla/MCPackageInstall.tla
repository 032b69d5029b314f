--------------------------- MODULE MCPackageInstall ---------------------------
EXTENDS PackageInstall
Nothing == [path |-> None, product |-> None, version |-> FALSE, edition |-> None, url |-> None,
            token |-> FALSE, sha |-> FALSE, destination |-> TRUE]
Release == [Nothing EXCEPT !.product = "vault", !.version = TRUE, !.edition = "ce"]
Artifactory(extension) == [Nothing EXCEPT !.url = extension, !.token = TRUE, !.sha = TRUE]
(* Every getter with every installer, and configurations that lack something *)
(* for one install; a deb from artifactory for the other.                    *)
MCConfigs == [i \in Installs |->
    IF i = "second" THEN {Artifactory("deb")}
    ELSE {[Nothing EXCEPT !.path = e] : e \in {"zip", "deb"}}
         \union {Release, [Release EXCEPT !.product = "consul", !.version = FALSE],
                 [Release EXCEPT !.path = "zip"], Nothing}
         \union {Artifactory(e) : e \in {"zip", "rpm", "other"}}
         \union {[Artifactory("zip") EXCEPT !.sha = FALSE], [Artifactory("zip") EXCEPT !.destination = FALSE]}]
=============================================================================
