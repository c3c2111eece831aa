----------------------------- MODULE MCDiscovery -----------------------------
(***************************************************************************)
(* Discovery for TLC.                                                      *)
(***************************************************************************)
EXTENDS Discovery

CONSTANT r1

=============================================================================
