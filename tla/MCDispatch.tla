----------------------------- MODULE MCDispatch -----------------------------
(* Two connections by an inbound with room for both, and a third by an
   inbound that is always full: the global limit of two is reached too. *)
EXTENDS Dispatch

CONSTANTS c1, c2, c3, i1, i2

MCInbound == [c \in Conns |-> IF c = c3 THEN i2 ELSE i1]
MCInboundMax == [i \in Inbounds |-> IF i = i1 THEN 2 ELSE 0]
=============================================================================
