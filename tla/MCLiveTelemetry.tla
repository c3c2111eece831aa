--------------------------- MODULE MCLiveTelemetry ---------------------------
(***************************************************************************)
(* LiveTelemetry for TLC.                                                  *)
(***************************************************************************)
EXTENDS LiveTelemetry, TLC

CONSTANTS w1, w2, w3

Symmetry == Permutations({w1, w2, w3})

=============================================================================
