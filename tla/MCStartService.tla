---------------------------- MODULE MCStartService ----------------------------
EXTENDS StartService

(* A unit that the package installed, and one that an earlier resource left *)
(* running.                                                                 *)
InstalledOrRunning == {[enabled |-> FALSE, proc |-> "inactive"], [enabled |-> TRUE, proc |-> "active"]}
=============================================================================
