------------------------------- MODULE TunTcp -------------------------------
(***************************************************************************)
(* TCP over the TUN device (src/src/proxy/inbound/tun_stack.rs).           *)
(*                                                                         *)
(* One task, run, reads packets from the device and handles them one after *)
(* the other; a packet that waits for a lock or for room in a channel      *)
(* holds up all the others.  An accepted connection has two tasks more:    *)
(* the writer, which turns what the stream writes into packets, and the    *)
(* dispatch, which relays the stream (src/src/proxy/relay.rs) and cleans up*)
(* when the relay has ended.  Handler and writer share the connection's    *)
(* sequence numbers under a lock.                                          *)
(*                                                                         *)
(* The client is the operating system's TCP behind the device: it sends    *)
(* segments of one byte each, repeats any of them, and repeats its FIN.    *)
(* The device's queue may drop a packet, and what is sent on two paths may *)
(* overtake: the segments arrive in any order, with holes, and after the   *)
(* FIN as well.  A pure ACK, a repeated SYN and a SYN over the limit change*)
(* nothing and are not actions.                                            *)
(***************************************************************************)
EXTENDS Integers, Sequences

CONSTANTS
  Conns,        \* connections the client opens
  ConnKeys, Key,    \* connection -> its pair of socket addresses
  MaxTcp,       \* max_tcp_connections
  Width,        \* number of values of a usize, more than MaxTcp
  SeqMod,       \* number of sequence numbers, more than segments
  Cap,          \* capacity of the two channels of a stream (256)
  Isns,         \* initial sequence numbers clients choose
  Segs,         \* connection -> segments its client sends
  MaxDown,      \* connection -> bound on the chunks its remote sends
  None

ASSUME TunAssumption ==
  /\ Key \in [Conns -> ConnKeys]
  /\ MaxTcp \in Nat /\ Width \in Nat /\ MaxTcp < Width
  /\ SeqMod \in Nat \ {0} /\ Segs \in [Conns -> 0..SeqMod - 1]
  /\ Isns \subseteq 0..SeqMod - 1
  /\ Cap \in Nat \ {0} /\ MaxDown \in [Conns -> Nat]
  /\ None \notin Conns \cup {"handler", "writer"}

EOF == 0        \* an empty Vec in a channel

VARIABLES
  client,       \* connection -> "none", "open", "fin", "gone"
  sent,         \* connection -> highest segment that has arrived
  acked,        \* connection -> highest segment acknowledged to its client
  isn,          \* connection -> its client's initial sequence number
  table,        \* tcp_connections: key -> connection or None
  active,       \* active_tcp
  h,            \* the handler: its step, the connection, the segment
  cnext,        \* connection -> client_seq_next
  lock,         \* connection -> who holds its state: None, "handler", "writer"
  inq,          \* connection -> channel from the stack to the stream
  queued,       \* connection -> segments that were put into inq
  outq,         \* connection -> channel from the stream to the stack
  writer,       \* connection -> step of its writer
  task,         \* connection -> step of its dispatch task
  ended,        \* connection -> sides of the relay that are at end of file
  down          \* connection -> chunks the remote has sent

peer == <<client, sent, isn>>
stack == <<table, active>>
relay == <<task, ended, down>>
vars == <<peer, acked, stack, h, cnext, lock, inq, queued, outq, writer, relay>>

Idle == [pc |-> "idle", conn |-> None, seg |-> EOF]

\* The stream, and with it the receiving end of inq, lives while the relay does.
Streaming(c) == task[c] \in {"relay", "toClient"}

\* Segments below the acknowledgement number client_seq_next.
Acked(c) == (cnext[c] - isn[c] - 1) % SeqMod

TypeOK ==
  /\ client \in [Conns -> {"none", "open", "fin", "gone"}]
  /\ sent \in [Conns -> Nat] /\ acked \in [Conns -> Nat]
  /\ \A c \in Conns : sent[c] <= Segs[c] /\ acked[c] <= sent[c]
  /\ isn \in [Conns -> Isns] /\ cnext \in [Conns -> 0..SeqMod - 1]
  /\ table \in [ConnKeys -> Conns \cup {None}]
  /\ active \in 0..Width - 1
  /\ h \in [pc : {"idle", "register", "count", "eof", "remove", "sub", "lock", "queued", "send", "ack"},
            conn : Conns \cup {None}, seg : 0..SeqMod - 1]
  /\ lock \in [Conns -> {None, "handler", "writer"}]
  /\ \A c \in Conns : Len(inq[c]) <= Cap /\ Len(outq[c]) <= Cap
  /\ \A c \in Conns : \A i \in DOMAIN inq[c] : inq[c][i] \in 0..sent[c]
  /\ queued \in [Conns -> SUBSET (1..SeqMod - 1)]
  /\ writer \in [Conns -> {"none", "recv", "lock", "queued", "write", "end"}]
  /\ task \in [Conns -> {"none", "relay", "toClient", "remove", "sub", "done"}]
  /\ ended \in [Conns -> SUBSET {"client", "remote"}]
  /\ down \in [Conns -> Nat] /\ \A c \in Conns : down[c] <= MaxDown[c]

Init ==
  /\ client = [c \in Conns |-> "none"] /\ sent = [c \in Conns |-> 0]
  /\ acked = [c \in Conns |-> 0] /\ isn \in [Conns -> Isns]
  /\ table = [k \in ConnKeys |-> None] /\ active = 0 /\ h = Idle
  /\ cnext = [c \in Conns |-> 0] /\ lock = [c \in Conns |-> None]
  /\ inq = [c \in Conns |-> <<>>] /\ queued = [c \in Conns |-> {}]
  /\ outq = [c \in Conns |-> <<>>] /\ writer = [c \in Conns |-> "none"]
  /\ task = [c \in Conns |-> "none"] /\ ended = [c \in Conns |-> {}]
  /\ down = [c \in Conns |-> 0]

Step(from, to) == h.pc = from /\ h' = [h EXCEPT !.pc = to]
Done(from) == h.pc = from /\ h' = Idle

-----------------------------------------------------------------------------
(* The handler: a SYN on a free key, under the limit.                      *)

ReadSyn(c) ==
  /\ h = Idle /\ client[c] = "none"
  /\ \A d \in Conns : Key[d] = Key[c] => client[d] \in {"none", "gone"}
  /\ table[Key[c]] = None
  /\ active < MaxTcp
  /\ client' = [client EXCEPT ![c] = "open"]
  /\ cnext' = [cnext EXCEPT ![c] = (isn[c] + 1) % SeqMod]
  /\ h' = [pc |-> "register", conn |-> c, seg |-> EOF]
  /\ UNCHANGED <<sent, isn, acked, stack, lock, inq, queued, outq, writer, relay>>

Register ==
  /\ Step("register", "count")
  /\ table' = [table EXCEPT ![Key[h.conn]] = h.conn]
  /\ UNCHANGED <<peer, acked, active, cnext, lock, inq, queued, outq, writer, relay>>

\* fetch_add, and the two tasks are spawned.
Count ==
  /\ Done("count")
  /\ active' = (active + 1) % Width
  /\ writer' = [writer EXCEPT ![h.conn] = "recv"]
  /\ task' = [task EXCEPT ![h.conn] = "relay"]
  /\ UNCHANGED <<peer, acked, table, cnext, lock, inq, queued, outq, ended, down>>

-----------------------------------------------------------------------------
(* The handler: FIN or RST.  The stream gets an end of file, the entry goes*)
(* and the connection is discounted.                                       *)

\* A FIN may come again; after a RST, or when it gives up, the client is gone.
ReadFin(c) ==
  /\ h = Idle
  /\ \/ client[c] \in {"open", "fin"} /\ client' = [client EXCEPT ![c] = "fin"]
     \/ client[c] \in {"open", "fin"} /\ client' = [client EXCEPT ![c] = "gone"]
  /\ LET e == table[Key[c]] IN
       h' = IF e = None THEN Idle ELSE [pc |-> "eof", conn |-> e, seg |-> EOF]
  /\ UNCHANGED <<sent, isn, acked, stack, cnext, lock, inq, queued, outq, writer, relay>>

\* The FIN or RST itself is lost, and the client gives up on its own.
LoseFin(c) ==
  /\ client[c] \in {"open", "fin"}
  /\ client' = [client EXCEPT ![c] = "gone"]
  /\ UNCHANGED <<sent, isn, acked, stack, h, cnext, lock, inq, queued, outq, writer, relay>>

\* The send waits for room, unless nobody will receive.
SendEof ==
  /\ Step("eof", "remove")
  /\ LET c == h.conn IN
     \/ /\ Streaming(c) /\ Len(inq[c]) < Cap
        /\ inq' = [inq EXCEPT ![c] = Append(@, EOF)]
     \/ ~Streaming(c) /\ UNCHANGED inq
  /\ UNCHANGED <<peer, acked, stack, cnext, lock, queued, outq, writer, relay>>

\* Slip: the entry of the closed connection stays in the table.
FinRemoveNot ==
  /\ Step("remove", "sub")
  /\ UNCHANGED <<peer, acked, stack, cnext, lock, inq, queued, outq, writer, relay>>

FinRemove ==
  /\ Step("remove", "sub")
  /\ table' = [table EXCEPT ![Key[h.conn]] = None]
  /\ UNCHANGED <<peer, acked, active, cnext, lock, inq, queued, outq, writer, relay>>

FinSub ==
  /\ Done("sub")
  /\ active' = (active - 1) % Width
  /\ UNCHANGED <<peer, acked, table, cnext, lock, inq, queued, outq, writer, relay>>

-----------------------------------------------------------------------------
(* The handler: a segment.  The lock is held from the new client_seq_next  *)
(* over the send, which may have to wait, to the acknowledgement.          *)

\* Whether it is the next one is not asked.
ReadData(c, i) ==
  /\ h = Idle /\ client[c] \in {"open", "fin"}
  /\ i \in 1..Segs[c]
  /\ sent' = [sent EXCEPT ![c] = IF i > @ THEN i ELSE @]
  /\ LET e == table[Key[c]] IN
       h' = IF e = None THEN Idle ELSE [pc |-> "lock", conn |-> e, seg |-> i]
  /\ UNCHANGED <<client, isn, acked, stack, cnext, lock, inq, queued, outq, writer, relay>>

\* new_client_seq > client_seq_next, without regard to the wrap.
Advance(c, i) ==
  LET new == (isn[c] + i + 1) % SeqMod IN
  cnext' = [cnext EXCEPT ![c] = IF new > @ THEN new ELSE @]

\* The lock is a queue: it is taken when it is free, otherwise waited for and
\* handed over by the one who releases it.
QueueHandler ==
  /\ h.pc = "lock" /\ lock[h.conn] # None
  /\ Step("lock", "queued")
  /\ UNCHANGED <<peer, acked, stack, cnext, lock, inq, queued, outq, writer, relay>>

HandlerLocks ==
  \/ Step("lock", "send") /\ lock[h.conn] = None
  \/ Step("queued", "send") /\ lock[h.conn] = "handler"

HandOver(c) == IF writer[c] = "queued" THEN "writer" ELSE None

\* Slip: the lock is released once the numbers are set.
LockDataShort ==
  /\ HandlerLocks
  /\ Advance(h.conn, h.seg)
  /\ lock' = [lock EXCEPT ![h.conn] = HandOver(h.conn)]
  /\ UNCHANGED <<peer, acked, stack, inq, queued, outq, writer, relay>>

LockData ==
  /\ HandlerLocks
  /\ Advance(h.conn, h.seg)
  /\ lock' = [lock EXCEPT ![h.conn] = "handler"]
  /\ UNCHANGED <<peer, acked, stack, inq, queued, outq, writer, relay>>

SendData ==
  /\ Step("send", "ack")
  /\ LET c == h.conn IN
     \/ /\ Streaming(c) /\ Len(inq[c]) < Cap
        /\ inq' = [inq EXCEPT ![c] = Append(@, h.seg)]
        /\ queued' = [queued EXCEPT ![c] = @ \cup {h.seg}]
     \/ ~Streaming(c) /\ UNCHANGED <<inq, queued>>
  /\ UNCHANGED <<peer, acked, stack, cnext, lock, outq, writer, relay>>

\* Every packet to the client carries client_seq_next; writing it may fail.
Acknowledge(c) ==
  acked' = [acked EXCEPT ![c] = IF Acked(c) > @ THEN Acked(c) ELSE @]

AckData ==
  /\ Done("ack")
  /\ Acknowledge(h.conn) \/ UNCHANGED acked
  /\ lock' = [lock EXCEPT ![h.conn] = HandOver(h.conn)]
  /\ UNCHANGED <<peer, stack, cnext, inq, queued, outq, writer, relay>>

-----------------------------------------------------------------------------
(* The writer.                                                             *)

\* It ends on an end of file, or when the stream is gone and all is written.
Receive(c) ==
  /\ writer[c] = "recv"
  /\ \/ /\ outq[c] # <<>>
        /\ outq' = [outq EXCEPT ![c] = Tail(@)]
        /\ writer' = [writer EXCEPT ![c] = IF Head(outq[c]) = EOF THEN "end" ELSE "lock"]
     \/ /\ outq[c] = <<>> /\ ~Streaming(c)
        /\ writer' = [writer EXCEPT ![c] = "end"]
        /\ UNCHANGED outq
  /\ UNCHANGED <<peer, acked, stack, h, cnext, lock, inq, queued, relay>>

QueueWriter(c) ==
  /\ writer[c] = "lock" /\ lock[c] # None
  /\ writer' = [writer EXCEPT ![c] = "queued"]
  /\ UNCHANGED <<peer, acked, stack, h, cnext, lock, inq, queued, outq, relay>>

LockWrite(c) ==
  /\ <<writer[c], lock[c]>> \in {<<"lock", None>>, <<"queued", "writer">>}
  /\ lock' = [lock EXCEPT ![c] = "writer"]
  /\ writer' = [writer EXCEPT ![c] = "write"]
  /\ UNCHANGED <<peer, acked, stack, h, cnext, inq, queued, outq, relay>>

Write(c) ==
  /\ writer[c] = "write"
  /\ Acknowledge(c) \/ UNCHANGED acked
  /\ lock' = [lock EXCEPT ![c] = IF h.pc = "queued" /\ h.conn = c THEN "handler" ELSE None]
  /\ writer' = [writer EXCEPT ![c] = "recv"]
  /\ UNCHANGED <<peer, stack, h, cnext, inq, queued, outq, relay>>

-----------------------------------------------------------------------------
(* The dispatch task: one loop relays both directions, one chunk at a time.*)

\* client.read: the end is an empty chunk, or a channel without a sender.
RelayUp(c) ==
  /\ task[c] = "relay" /\ "client" \notin ended[c]
  /\ \/ /\ inq[c] # <<>>
        /\ inq' = [inq EXCEPT ![c] = Tail(@)]
        /\ ended' = IF Head(inq[c]) = EOF THEN [ended EXCEPT ![c] = @ \cup {"client"}] ELSE ended
     \/ /\ inq[c] = <<>> /\ table[Key[c]] # c /\ h.conn # c
        /\ ended' = [ended EXCEPT ![c] = @ \cup {"client"}]
        /\ UNCHANGED inq
  /\ UNCHANGED <<peer, acked, stack, h, cnext, lock, queued, outq, writer, task, down>>

\* remote.read, then client.write_all.
RelayDown(c) ==
  /\ task[c] = "relay" /\ "remote" \notin ended[c] /\ down[c] < MaxDown[c]
  /\ down' = [down EXCEPT ![c] = @ + 1]
  /\ task' = [task EXCEPT ![c] = "toClient"]
  /\ UNCHANGED <<peer, acked, stack, h, cnext, lock, inq, queued, outq, writer, ended>>

ToClient(c) ==
  /\ task[c] = "toClient"
  /\ \/ /\ writer[c] # "end" /\ Len(outq[c]) < Cap
        /\ outq' = [outq EXCEPT ![c] = Append(@, 1)]
        /\ task' = [task EXCEPT ![c] = "relay"]
     \/ /\ writer[c] = "end"
        /\ task' = [task EXCEPT ![c] = "remove"]
        /\ UNCHANGED outq
  /\ UNCHANGED <<peer, acked, stack, h, cnext, lock, inq, queued, writer, ended, down>>

\* poll_shutdown: the end of file is lost when the channel is full.
RelayDownEof(c) ==
  /\ task[c] = "relay" /\ "remote" \notin ended[c]
  /\ ended' = [ended EXCEPT ![c] = @ \cup {"remote"}]
  /\ outq' = IF Len(outq[c]) < Cap THEN [outq EXCEPT ![c] = Append(@, EOF)] ELSE outq
  /\ UNCHANGED <<peer, acked, stack, h, cnext, lock, inq, queued, writer, task, down>>

\* The relay is over: both sides ended, idle timeout, cancellation, an error
\* of the remote, or no connection to it at all.
RelayOver(c) ==
  /\ task[c] = "relay"
  /\ task' = [task EXCEPT ![c] = "remove"]
  /\ UNCHANGED <<peer, acked, stack, h, cnext, lock, inq, queued, outq, writer, ended, down>>

\* The cleanup removes what is under the key, and discounts.
Remove(c) ==
  /\ task[c] = "remove"
  /\ task' = [task EXCEPT ![c] = "sub"]
  /\ table' = [table EXCEPT ![Key[c]] = None]
  /\ UNCHANGED <<peer, acked, active, h, cnext, lock, inq, queued, outq, writer, ended, down>>

Sub(c) ==
  /\ task[c] = "sub"
  /\ task' = [task EXCEPT ![c] = "done"]
  /\ active' = (active - 1) % Width
  /\ UNCHANGED <<peer, acked, table, h, cnext, lock, inq, queued, outq, writer, ended, down>>

-----------------------------------------------------------------------------
Handler == Register \/ Count \/ SendEof \/ FinRemove \/ FinSub
           \/ QueueHandler \/ LockData \/ SendData \/ AckData
Packet(c) == ReadSyn(c) \/ ReadFin(c) \/ LoseFin(c) \/ \E i \in 1..Segs[c] : ReadData(c, i)
Writer(c) == Receive(c) \/ QueueWriter(c) \/ LockWrite(c) \/ Write(c)
Dispatch(c) == RelayUp(c) \/ RelayDown(c) \/ ToClient(c) \/ RelayDownEof(c)
               \/ RelayOver(c) \/ Remove(c) \/ Sub(c)

Next == Handler \/ \E c \in Conns : Packet(c) \/ Writer(c) \/ Dispatch(c)

Spec == Init /\ [][Next]_vars

\* Every task that can run does; nobody is obliged to send.
FairSpec ==
  /\ Spec
  /\ WF_vars(Handler)
  /\ \A c \in Conns : WF_vars(Writer(c)) /\ WF_vars(Dispatch(c))

-----------------------------------------------------------------------------
\* No acknowledgement runs ahead of the stream: the segment at which it ends,
\* sent by the handler or carried by the writer's data while the handler waits
\* for room, is in the stream's channel before.  Only when the stream is gone
\* are segments acknowledged and dropped.
AckEndsQueued ==
  \A c \in Conns : Streaming(c) => acked[c] = 0 \/ acked[c] \in queued[c]

\* The stack reassembles the segments into an ordered byte stream: what is
\* acknowledged to the client has reached the stream without a hole.
Reassembled ==
  \A c \in Conns : Streaming(c) => 1..acked[c] \subseteq queued[c]

\* The stream's end of file is final: FIN, a repeated FIN and late segments
\* never put anything behind it.
EofIsLast ==
  \A c \in Conns :
    /\ \A n \in DOMAIN inq[c] : inq[c][n] = EOF => n = Len(inq[c])
    /\ task[c] = "relay" /\ "client" \in ended[c] => inq[c] = <<>>

\* active_tcp is the count of active connections: it is zero when no
\* connection is left and no task is at work.
ActiveCounts ==
  (/\ h = Idle
   /\ \A k \in ConnKeys : table[k] = None
   /\ \A c \in Conns : task[c] \in {"none", "done"}) => active = 0

\* A relay that cannot write to its client does not stay so: it goes on, or
\* the idle timeout closes it.
IdleCloses == \A c \in Conns : (task[c] = "toClient") ~> (task[c] # "toClient")
=============================================================================
