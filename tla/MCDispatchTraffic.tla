-------------------------- MODULE MCDispatchTraffic --------------------------
EXTENDS MCDispatch

\* Nobody calls reset_traffic.
NoResetSpec == Init /\ [][Next /\ ~resetting']_vars
=============================================================================
