----------------------------- MODULE MCVaultOps -----------------------------
EXTENDS VaultOps, TLC

(* The node's seal next to the seal_type of the requests, which expect a    *)
(* shamir seal, rightly or not.                                             *)
Shamir == {<<"shamir", "shamir">>}
AsksForShamir == Shamir \union {<<"awskms", "shamir">>}
ClientSymmetry == Permutations(Clients)
=============================================================================
