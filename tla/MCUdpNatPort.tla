---------------------------- MODULE MCUdpNatPort ----------------------------
(***************************************************************************)
(* UdpNat with a history variable: the outbound port the last packet of    *)
(* each (source, outbound) left through, and how long ago.                 *)
(***************************************************************************)
EXTENDS MCUdpNat

VARIABLE last   \* <<source, tag>> -> [t, age]

portVars == <<vars, last>>

PortInit == MCInit /\ last = [st \in SourceTags |-> [t |-> None, age |-> 0]]

PacketLeaves(s) ==
  /\ Send(s, TRUE)
  /\ LET e == fwd[s].e IN
     last' = [last EXCEPT ![<<src[s], obj[e].tag>>] = [t |-> obj[e].t, age |-> 0]]

\* Time passes between packets only, so that no slow send is needed.
PortTick ==
  /\ Tick
  /\ \A s \in Sessions : fwd[s].pc \in {"off", "recv"}
  /\ last' = [st \in SourceTags |->
       [last[st] EXCEPT !.age = IF @ > TTL THEN @ ELSE @ + 1]]

\* Every other step leaves the history alone.
OtherStep ==
  /\ \/ \E s \in Sessions :
          \/ Open(s) \/ Close(s) \/ Cleanup(s) \/ Send(s, FALSE)
          \/ (Forward(s) /\ fwd[s].pc # "send")
     \/ \E r \in Sessions \X Entries : Relay(r)
  /\ UNCHANGED last

PortNext == (\E s \in Sessions : PacketLeaves(s)) \/ PortTick \/ OtherStep

PortSpec == PortInit /\ [][PortNext]_portVars

\* Full Cone NAT as nat.rs states it: "Ensures same source always maps to the
\* same outbound port".  Two packets a client sends through one outbound within
\* the TTL of one another leave through the same port.
StablePort ==
  [][\A st \in SourceTags :
        last'[st].t # last[st].t => last[st].t = None \/ last[st].age > TTL]_portVars
=============================================================================
