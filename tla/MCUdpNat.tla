------------------------------ MODULE MCUdpNat ------------------------------
(* Small instances of UdpNat for TLC.                                      *)
EXTENDS UdpNat

CONSTANTS s1, a, b

\* A hot reload moves every destination from outbound a to outbound b.
MCRouters == {[d \in Dests |-> a], [d \in Dests |-> b]}

\* The first session runs on the old routing table, the other on either.
MCInit == Init /\ \A d \in Dests : route[s1][d] = a
MCSpec == MCInit /\ [][Next]_vars
MCFairSpec == MCSpec /\ Fairness
=============================================================================
