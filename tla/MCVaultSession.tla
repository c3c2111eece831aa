--------------------------- MODULE MCVaultSession ---------------------------
(***************************************************************************)
(* VaultSession for TLC: two identities, a right and a wrong PIN, and two  *)
(* operations awaiting something at once; each kind is interchangeable.    *)
(***************************************************************************)
EXTENDS VaultSession, TLC

CONSTANTS a, b, p, q, s1, s2

Symmetry == Permutations({a, b}) \cup Permutations({p, q}) \cup Permutations({s1, s2})

=============================================================================
