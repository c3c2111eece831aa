--------------------------- MODULE MCHealthMonitor ---------------------------
(***************************************************************************)
(* HealthMonitor for TLC: services and requests are interchangeable where  *)
(* no temporal property is checked.                                        *)
(***************************************************************************)
EXTENDS HealthMonitor, TLC

CONSTANTS a, b, x, y, r1, r2

Symmetry == Permutations({a, b}) \cup Permutations({r1, r2})

=============================================================================
