------------------------------ MODULE MCTunTcp ------------------------------
(* Small instances of TunTcp.  Every connection uses the same key: the     *)
(* second one reuses the port of the first.                                *)
EXTENDS TunTcp

CONSTANTS c1, k1

MCKey == [c \in Conns |-> k1]
MCSegs == [c \in Conns |-> IF c = c1 THEN 0 ELSE 2]
MCDown == [c \in Conns |-> IF c = c1 THEN 0 ELSE 1]

\* Enough to fill the channel and the hands of writer and relay.
MCDownMany == [c \in Conns |-> 3]
=============================================================================
