------------------------------- MODULE MCAuth -------------------------------
(***************************************************************************)
(* Auth for TLC: addresses are pairs of a network and a host; two of them  *)
(* are one client when they share an IPv6 network, or are equal.           *)
(***************************************************************************)
EXTENDS Auth, TLC

CONSTANTS t1, i1, i2, s1, s2, b1

MCAddresses == {<<"v6", 1, 1>>, <<"v6", 1, 2>>, <<"v4", 1, 1>>}
MCSameClient(a, b) == a = b \/ (a[1] = "v6" /\ b[1] = "v6" /\ a[2] = b[2])

Symmetry == Permutations({s1, s2}) \cup Permutations({i1, i2})

=============================================================================
