--------------------------- MODULE MCServiceReload ---------------------------
(***************************************************************************)
(* ServiceReload for TLC.                                                  *)
(***************************************************************************)
EXTENDS ServiceReload

=============================================================================
