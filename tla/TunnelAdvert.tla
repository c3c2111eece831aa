---------------------------- MODULE TunnelAdvert ----------------------------
(***************************************************************************)
(* What the tunnel side of the daemon promises to the clients that ask it  *)
(* for an address, whatever goroutines it takes: the advertised hostname   *)
(* is one cloudflared has printed in this life of the daemon, and it only  *)
(* ever moves to a newer one.  Hostnames are numbered in the order they    *)
(* are minted; 0 is "no hostname".                                         *)
(***************************************************************************)
EXTENDS Naturals

VARIABLES
  seen,        \* newest hostname read from cloudflared
  advertised   \* hostname the discovery answers carry

advertVars == <<seen, advertised>>

Init == seen = 0 /\ advertised = 0

\* cloudflared is seen on a newer hostname.
See ==
  /\ seen' \in Nat /\ seen' > seen
  /\ UNCHANGED advertised

\* The daemon moves its clients to a newer hostname that was seen, not
\* necessarily the newest yet.
Advertise ==
  /\ advertised' \in (advertised + 1)..seen
  /\ UNCHANGED seen

\* The daemon stops or dies: nothing is advertised any more.
Down == seen' = 0 /\ advertised' = 0

Next == See \/ Advertise \/ Down

Spec == Init /\ [][Next]_advertVars

=============================================================================
