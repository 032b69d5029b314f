------------------------------ MODULE OnceInit ------------------------------
(***************************************************************************)
(* What a set of concurrent initialisations of one server promises: the    *)
(* server is initialised at most once, only the call that did it returns   *)
(* the unseal keys, a call returns success without keys only when another  *)
(* call initialised the server, and an error says nothing.                 *)
(***************************************************************************)
CONSTANTS
    Callers,   \* the calls
    Outside    \* who else may have initialised the server before them

NoCaller == "nobody"

VARIABLES
    owner,     \* the caller whose command initialised the server
    outcome    \* what each call returned

vars == <<owner, outcome>>

Init ==
    /\ owner \in {NoCaller} \union Outside
    /\ outcome = [c \in Callers |-> "pending"]

Initialise(c) ==
    /\ owner = NoCaller
    /\ outcome[c] = "pending"
    /\ owner' = c
    /\ UNCHANGED outcome

Return(c, r) ==
    /\ outcome[c] = "pending"
    /\ r = "keys" => owner = c
    /\ r = "no keys" => owner \notin {NoCaller, c}
    /\ outcome' = [outcome EXCEPT ![c] = r]
    /\ UNCHANGED owner

Next == \E c \in Callers :
    Initialise(c) \/ \E r \in {"keys", "no keys", "error"} : Return(c, r)

Spec == Init /\ [][Next]_vars
=============================================================================
