----------------------------- MODULE MCReturnTrip ------------------------------
(***************************************************************************)
(* ReturnTrip for TLC.                                                     *)
(***************************************************************************)
EXTENDS ReturnTrip, TLC

CONSTANTS d1, d2, bad

Symmetry == Permutations({d1, d2})

=============================================================================
