--------------------------- MODULE MCTunnelDaemon ---------------------------
(***************************************************************************)
(* TunnelDaemon for TLC.                                                   *)
(***************************************************************************)
EXTENDS TunnelDaemon

=============================================================================
