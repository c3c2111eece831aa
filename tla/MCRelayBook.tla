----------------------------- MODULE MCRelayBook -----------------------------
(***************************************************************************)
(* RelayBook for TLC.                                                      *)
(***************************************************************************)
EXTENDS RelayBook, TLC

CONSTANTS d, c, t1, t2

Symmetry == Permutations({t1, t2})

=============================================================================
