-------------------------------- MODULE Derp --------------------------------
(***************************************************************************)
(* The DERP relay (src/src/derp/server.rs), which start_derp_server of     *)
(* src/src/app/mod.rs runs: one task per connection, and a table of the    *)
(* clients by public key behind an RwLock.                                 *)
(*                                                                         *)
(* Everybody reaches a client through the bounded channel that the table   *)
(* has under its key.  The lock is held over one await only, when a        *)
(* registration waits for room in the channel of the connection it         *)
(* replaces; every other critical section is one action, enabled while the *)
(* lock is free.  A loop that has decoded a frame is out of its select     *)
(* until the frame is handled: it then takes nothing from its channel.     *)
(***************************************************************************)
EXTENDS Naturals, Sequences, FiniteSets

CONSTANTS
  Conns,     \* accepted connections
  KeyOf,     \* connection -> the public key of its ClientInfo
  Cap,       \* capacity of a client's channel
  None

DerpAssumption ==
  /\ IsFiniteSet(Conns) /\ DOMAIN KeyOf = Conns
  /\ Cap \in Nat \ {0}
  /\ None \notin Conns

Keys == {KeyOf[c] : c \in Conns}

VARIABLES
  clients,   \* key -> the connection whose channel is tabled, or None
  writer,    \* the registration that holds the lock over its await, or None
  old,       \* the connection it has taken out and not yet told
  chan,      \* connection -> messages for its client
  pc,        \* connection -> where its task is
  dst,       \* connection -> the destination of the packet it relays
  ousted     \* connections that a registration has taken out of the table

vars == <<clients, writer, old, chan, pc, dst, ousted>>

Msgs == {"packet", "gone", "shutdown"}
\* Those whose client_loop runs: their receivers exist.
Serving == {c \in Conns : pc[c] \in {"present", "loop", "forward", "note"}}

TypeOK ==
  /\ clients \in [Keys -> Conns \cup {None}]
  /\ writer \in Conns \cup {None} /\ old \in Conns \cup {None}
  /\ chan \in [Conns -> UNION {[1..n -> Msgs] : n \in 0..Cap}]
  /\ pc \in [Conns -> {"accept", "info", "register", "replace", "present", "loop",
                       "forward", "note", "cleanup", "gone", "done"}]
  /\ dst \in [Conns -> Keys \cup {None}]
  /\ ousted \subseteq Conns

Init ==
  /\ clients = [k \in Keys |-> None]
  /\ writer = None /\ old = None
  /\ chan = [c \in Conns |-> <<>>]
  /\ pc = [c \in Conns |-> "accept"]
  /\ dst = [c \in Conns |-> None]
  /\ ousted = {}

Goto(c, from, to) == pc[c] = from /\ pc' = [pc EXCEPT ![c] = to]

Unlocked == writer = None
HasRoom(c) == Len(chan[c]) < Cap

\* try_send of m to each of cs: a full or closed channel loses it.
Sent(cs, m) ==
  [c \in Conns |-> IF c \in cs \cap Serving /\ HasRoom(c) THEN Append(chan[c], m)
                   ELSE chan[c]]

-----------------------------------------------------------------------------
(* The life of a connection.                                               *)

\* Accepted and upgraded, or not a DERP request.
Upgrade(c) ==
  /\ Goto(c, "accept", "info") \/ Goto(c, "accept", "done")
  /\ UNCHANGED <<clients, writer, old, chan, dst, ousted>>

\* ServerKey, ClientInfo and ServerInfo are exchanged; or something fails.
Handshake(c) ==
  /\ Goto(c, "info", "register") \/ Goto(c, "info", "done")
  /\ UNCHANGED <<clients, writer, old, chan, dst, ousted>>

\* The write lock is taken; a connection under the same key is taken out.
Register(c) ==
  LET o == clients[KeyOf[c]] IN
  /\ Unlocked
  /\ IF o = None
     THEN /\ Goto(c, "register", "present")
          /\ clients' = [clients EXCEPT ![KeyOf[c]] = c]
          /\ UNCHANGED <<writer, old, ousted>>
     ELSE /\ Goto(c, "register", "replace")
          /\ clients' = [clients EXCEPT ![KeyOf[c]] = None]
          /\ writer' = c /\ old' = o
          /\ ousted' = ousted \cup {o}
  /\ UNCHANGED <<chan, dst>>

\* Slip: the old connection is told with try_send.
ReplaceAtOnce(c) ==
  /\ Goto(c, "replace", "present")
  /\ chan' = Sent({old}, "shutdown")
  /\ clients' = [clients EXCEPT ![KeyOf[c]] = c]
  /\ writer' = None /\ old' = None
  /\ UNCHANGED <<dst, ousted>>

\* send(Shutdown) has found room, or no receiver any more.
Replace(c) ==
  /\ Goto(c, "replace", "present")
  /\ old \notin Serving \/ HasRoom(old)
  /\ chan' = Sent({old}, "shutdown")
  /\ clients' = [clients EXCEPT ![KeyOf[c]] = c]
  /\ writer' = None /\ old' = None
  /\ UNCHANGED <<dst, ousted>>

\* Those that broadcasts about c reach: every client under another key.
Others(c) == {clients[k] : k \in Keys \ {KeyOf[c]}}

BroadcastPeerPresent(c) ==
  /\ Unlocked
  /\ Goto(c, "present", "loop")
  /\ chan' = Sent(Others(c), "packet")
  /\ UNCHANGED <<clients, writer, old, dst, ousted>>

\* The loop has ended: the entry of the key goes, whosever it is by now.
Cleanup(c) ==
  /\ Unlocked
  /\ Goto(c, "cleanup", "gone")
  /\ clients' = [clients EXCEPT ![KeyOf[c]] = None]
  /\ UNCHANGED <<writer, old, chan, dst, ousted>>

BroadcastPeerGone(c) ==
  /\ Unlocked
  /\ Goto(c, "gone", "done")
  /\ chan' = Sent(Others(c), "gone")
  /\ UNCHANGED <<clients, writer, old, dst, ousted>>

-----------------------------------------------------------------------------
(* client_loop.                                                            *)

\* The loop breaks and drops its receiver with what it holds.
Break(c, from) ==
  /\ Goto(c, from, "cleanup")
  /\ chan' = [chan EXCEPT ![c] = <<>>]

\* The client has gone, or sent what is no frame; or a keepalive or pong is not written.
ReadFails(c) ==
  /\ Break(c, "loop")
  /\ UNCHANGED <<clients, writer, old, dst, ousted>>

\* SendPacket and NotePreferred wait for the table; what else comes in changes nothing.
ReadFrame(c) ==
  /\ \/ Goto(c, "loop", "forward") /\ \E k \in Keys : dst' = [dst EXCEPT ![c] = k]
     \/ Goto(c, "loop", "note") /\ UNCHANGED dst
  /\ UNCHANGED <<clients, writer, old, chan, ousted>>

\* To the destination; if it is not tabled, PeerGone to whoever is under the source's key.
ForwardPacket(c) ==
  LET d == clients[dst[c]] IN
  /\ Unlocked
  /\ Goto(c, "forward", "loop")
  /\ chan' = IF d # None THEN Sent({d}, "packet")
             ELSE Sent({clients[KeyOf[c]]}, "gone")
  /\ dst' = [dst EXCEPT ![c] = None]
  /\ UNCHANGED <<clients, writer, old, ousted>>

\* The preference is stored with the entry and read by nobody.
NotePreferred(c) ==
  /\ Unlocked
  /\ Goto(c, "note", "loop")
  /\ UNCHANGED <<clients, writer, old, chan, dst, ousted>>

\* A message is written to the client.  Failing with a packet ends the loop.
RecvMsg(c) ==
  /\ pc[c] = "loop" /\ chan[c] # <<>>
  /\ \/ /\ Head(chan[c]) # "shutdown"
        /\ chan' = [chan EXCEPT ![c] = Tail(@)]
        /\ UNCHANGED pc
     \/ /\ Head(chan[c]) \in {"shutdown", "packet"}
        /\ Break(c, "loop")
  /\ UNCHANGED <<clients, writer, old, dst, ousted>>

Next ==
  \E c \in Conns :
    \/ Upgrade(c) \/ Handshake(c) \/ Register(c) \/ Replace(c)
    \/ BroadcastPeerPresent(c) \/ Cleanup(c) \/ BroadcastPeerGone(c)
    \/ ReadFails(c) \/ ReadFrame(c) \/ ForwardPacket(c) \/ NotePreferred(c) \/ RecvMsg(c)

Spec == Init /\ [][Next]_vars

-----------------------------------------------------------------------------
(* Properties.                                                             *)

(* The table and the orders to stop are sound.  No entry outlives its      *)
(* connection's task and none is under another key, so that what is relayed*)
(* is not sent into the void for ever.  And the connection that a          *)
(* registration takes out of the table has the order to stop in its        *)
(* channel, however full that was and whatever was relayed to it meanwhile,*)
(* or is about to get it, or its loop has ended: the one way left to reach *)
(* it is not lost.  A connection that an older one's Cleanup takes out is  *)
(* told nothing.                                                           *)
TableSound ==
  /\ \A k \in Keys : clients[k] # None =>
       KeyOf[clients[k]] = k /\ pc[clients[k]] \notin {"gone", "done"}
  /\ \A c \in ousted \cap Serving :
       c = old \/ \E i \in DOMAIN chan[c] : chan[c][i] = "shutdown"
=============================================================================
