----------------------------- MODULE MCKeyAccess -----------------------------
(* A finite instance of KeyAccess for TLC.                                 *)
EXTENDS KeyAccess, TLC

Symmetric == Permutations(Secrets) \cup Permutations(KeyIds) \cup Permutations(Requests)

=============================================================================
