------------------------------ MODULE MCPodQuery ------------------------------
EXTENDS PodQuery
(* A pod with a sidecar and one without; the default timeout, none, one that *)
(* ends before the attempts do and one that would outlast them; and list     *)
(* calls that answer at once or after ten seconds.                           *)
MCContainers == [p \in Pods |-> IF p = "server" THEN {"vault", "sidecar"} ELSE {"vault"}]
MCTimeouts == {NoTimeout, 0, 5, 300}
MCCounts == {NoCount, 0, 1, 2}
MCListTimes == {0, 10}
=============================================================================
