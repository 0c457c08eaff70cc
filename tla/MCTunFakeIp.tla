---------------------------- MODULE MCTunFakeIp ----------------------------
(***************************************************************************)
(* The TCP of the TUN device and the FakeIP pool that its DNS hands out    *)
(* from, side by side: a behaviour is one of the part that the constant    *)
(* variable which names.                                                   *)
(*                                                                         *)
(* TUN: both connections use the same key, c2 reuses the port of c1, which *)
(* only opens and closes.  Pool: an IPv4 range of two addresses and an IPv6*)
(* prefix whose lowest bit is set, under a counter that wraps at 4: both   *)
(* families run out of addresses.                                          *)
(***************************************************************************)
EXTENDS TunTcp, FakeIp

CONSTANTS c1, k1

VARIABLE which

MCKey == [c \in Conns |-> k1]
MCSegs == [c \in Conns |-> IF c = c1 THEN 0 ELSE 2]
MCDown == [c \in Conns |-> IF c = c1 THEN 0 ELSE 1]
MCV6Of == [n \in 0..(Wrap - 1) |-> IF n % 2 = 0 THEN n + 1 ELSE n]

MCInit == which \in {"tun", "pool"} /\ Init /\ PoolInit

\* Bound: what a connection carries, the highest segment that has arrived and
\* the chunks sent down together.
FewChunks == \A c \in Conns : sent[c] + down[c] <= 2

TunStep == which = "tun" /\ Next /\ FewChunks' /\ UNCHANGED <<which, poolVars>>
PoolStep == which = "pool" /\ PoolNext /\ UNCHANGED <<which, vars>>

MCSpec == MCInit /\ [][TunStep \/ PoolStep]_<<which, vars, poolVars>>

(* The state of both parts keeps its types.                                *)
TypesOK == TypeOK /\ PoolTypeOK
=============================================================================
