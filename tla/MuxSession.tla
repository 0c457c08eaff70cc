----------------------------- MODULE MuxSession -----------------------------
(***************************************************************************)
(* One multiplexed connection (src/src/proxy/mux): the streams table, the  *)
(* writer task that empties the frame queue, the reader task that spreads  *)
(* the peer's frames over the streams' channels, and a relay per stream.   *)
(*                                                                         *)
(* The four protocols differ in one point of control.  sing-mux and smux   *)
(* keep the table locked while they wait for room in a stream's channel;   *)
(* yamux and h2mux take the channel out of the table first.                *)
(*                                                                         *)
(* A stream is a number of its own (next_id only grows).  A relay that     *)
(* waits to write does nothing else; poll_write of a full queue returns    *)
(* Pending without keeping the waker, so that it is polled again only if a *)
(* waker that the relay left elsewhere is woken.  poll_shutdown and        *)
(* poll_write use try_send; a stream that is dropped says nothing to the   *)
(* peer.                                                                   *)
(***************************************************************************)
EXTENDS Naturals, Sequences, FiniteSets

CONSTANTS
  Streams,
  OutCap,     \* capacity of the frame queue (256)
  InCap,      \* capacity of a stream's channel (64)
  WireCap     \* bound on the frames the peer has under way

SessionAssumption ==
  OutCap \in Nat \ {0} /\ InCap \in Nat \ {0} /\ WireCap \in Nat

VARIABLES
  protocol,   \* "smux" (and sing-mux) or "yamux" (and h2mux)
  table,      \* streams: the ids a channel is tabled for
  pc,         \* stream -> where its opener or relay is
  half,       \* streams whose client has ended
  eof,        \* streams that have read the end
  inq,        \* stream -> its channel
  out,        \* the frame queue
  wire,       \* frames of the peer under way
  peer,       \* stream -> "none", "open", "fin": what the peer knows and sends
  reading,    \* what the reader is handing over: at most one frame
  writer,     \* the writer task runs
  reader      \* the reader task runs

link == <<out, wire, peer, writer, reader>>
stream == <<pc, half, eof>>
vars == <<protocol, table, stream, inq, link, reading>>

Kinds == {"syn", "psh", "fin"}
Frames == [kind : Kinds, s : Streams]
Frame(k, s) == [kind |-> k, s |-> s]

TypeOK ==
  /\ protocol \in {"smux", "yamux"}
  /\ table \subseteq Streams /\ half \subseteq Streams /\ eof \subseteq Streams
  /\ pc \in [Streams -> {"new", "insert", "syn", "open", "blocked", "gone"}]
  /\ \A s \in Streams : inq[s] \in Seq({"psh", "fin"}) /\ Len(inq[s]) <= InCap
  /\ out \in Seq(Frames) /\ Len(out) <= OutCap
  /\ wire \in Seq(Frames)
  /\ peer \in [Streams -> {"none", "open", "fin"}]
  /\ reading \in Seq(Frames) /\ Len(reading) <= 1
  /\ writer \in BOOLEAN /\ reader \in BOOLEAN

Init ==
  /\ protocol \in {"smux", "yamux"}
  /\ table = {} /\ half = {} /\ eof = {}
  /\ pc = [s \in Streams |-> "new"]
  /\ inq = [s \in Streams |-> <<>>]
  /\ out = <<>> /\ wire = <<>>
  /\ peer = [s \in Streams |-> "none"]
  /\ reading = <<>>
  /\ writer = TRUE /\ reader = TRUE

\* The reader has the table locked.
Locked == protocol = "smux" /\ reading # <<>>

Room == Len(out) < OutCap

-----------------------------------------------------------------------------
(* Opening: an id, a channel in the table, a frame to the peer.            *)

OpenStream(s) ==
  /\ pc[s] = "new"
  /\ pc' = [pc EXCEPT ![s] = "insert"]
  /\ UNCHANGED <<protocol, table, half, eof, inq, link, reading>>

\* Slip: the peer is told before the channel is tabled.
InsertLater(s) ==
  /\ pc[s] = "insert" /\ Room
  /\ pc' = [pc EXCEPT ![s] = "syn"]
  /\ out' = Append(out, Frame("syn", s))
  /\ UNCHANGED <<protocol, table, half, eof, inq, wire, peer, writer, reader, reading>>

InsertStream(s) ==
  /\ pc[s] = "insert"
  /\ ~Locked
  /\ table' = table \cup {s}
  /\ pc' = [pc EXCEPT ![s] = "syn"]
  /\ UNCHANGED <<protocol, half, eof, inq, link, reading>>

SendSyn(s) ==
  /\ pc[s] = "syn"
  /\ writer /\ Room
  /\ out' = Append(out, Frame("syn", s))
  /\ pc' = [pc EXCEPT ![s] = "open"]
  /\ UNCHANGED <<protocol, table, half, eof, inq, wire, peer, writer, reader, reading>>

\* The queue is closed; the table keeps the channel.
SynFails(s) ==
  /\ pc[s] = "syn" /\ ~writer
  /\ pc' = [pc EXCEPT ![s] = "gone"]
  /\ UNCHANGED <<protocol, table, half, eof, inq, link, reading>>

\* The connection the stream is for is dropped; the table keeps the channel.
GiveUp(s) ==
  /\ pc[s] \in {"insert", "syn"}
  /\ pc' = [pc EXCEPT ![s] = "gone"]
  /\ UNCHANGED <<protocol, table, half, eof, inq, link, reading>>

-----------------------------------------------------------------------------
(* The relay of an open stream.                                            *)

\* poll_write of client data, for the first time or again.
WriteData(s) ==
  /\ pc[s] \in {"open", "blocked"} /\ s \notin half
  /\ pc' = [pc EXCEPT ![s] = IF ~writer THEN "gone" ELSE IF Room THEN "open" ELSE "blocked"]
  /\ out' = IF writer /\ Room THEN Append(out, Frame("psh", s)) ELSE out
  /\ UNCHANGED <<protocol, table, half, eof, inq, wire, peer, writer, reader, reading>>

\* The client has ended: poll_shutdown.
Shutdown(s) ==
  /\ pc[s] = "open" /\ s \notin half
  /\ half' = half \cup {s}
  /\ out' = IF writer /\ Room THEN Append(out, Frame("fin", s)) ELSE out
  /\ UNCHANGED <<protocol, table, pc, eof, inq, wire, peer, writer, reader, reading>>

\* poll_read.  What is read is passed on to the client.
ReadData(s) ==
  /\ pc[s] = "open" /\ s \notin eof /\ inq[s] # <<>>
  /\ eof' = IF Head(inq[s]) = "fin" THEN eof \cup {s} ELSE eof
  /\ inq' = [inq EXCEPT ![s] = Tail(@)]
  /\ UNCHANGED <<protocol, table, pc, half, link, reading>>

\* The relay ends, of both ends, an error, the idle timer or a close, or its task is
\* dropped; the receiver of the channel goes with the stream.
EndRelay(s) ==
  /\ pc[s] \in {"open", "blocked"}
  /\ pc' = [pc EXCEPT ![s] = "gone"]
  /\ inq' = [inq EXCEPT ![s] = <<>>]
  /\ UNCHANGED <<protocol, table, half, eof, link, reading>>

-----------------------------------------------------------------------------
(* The tasks of the connection.                                            *)

WriteFrame ==
  /\ writer /\ out # <<>>
  /\ out' = Tail(out)
  /\ peer' = IF Head(out).kind = "syn" THEN [peer EXCEPT ![Head(out).s] = "open"] ELSE peer
  /\ UNCHANGED <<protocol, table, stream, inq, wire, writer, reader, reading>>

\* A frame for a stream that is not tabled is skipped.
ReadFrame ==
  /\ reader /\ reading = <<>> /\ wire # <<>>
  /\ LET f == Head(wire) IN
     /\ reading' = IF f.s \in table THEN <<f>> ELSE <<>>
     /\ table' = IF f.kind = "fin" THEN table \ {f.s} ELSE table
  /\ wire' = Tail(wire)
  /\ UNCHANGED <<protocol, stream, inq, out, peer, writer, reader>>

\* Slip: the reader waits for room also when the receiver is gone.
DeliverToLivingOnly ==
  /\ reading # <<>>
  /\ pc[reading[1].s] # "gone" /\ Len(inq[reading[1].s]) < InCap
  /\ inq' = [inq EXCEPT ![reading[1].s] = Append(@, reading[1].kind)]
  /\ reading' = <<>>
  /\ UNCHANGED <<protocol, table, stream, link>>

\* tx.send: done when there is room, or when the receiver is gone.
Deliver ==
  /\ reading # <<>>
  /\ \/ /\ pc[reading[1].s] = "gone"
        /\ UNCHANGED inq
     \/ /\ pc[reading[1].s] # "gone" /\ Len(inq[reading[1].s]) < InCap
        /\ inq' = [inq EXCEPT ![reading[1].s] = Append(@, reading[1].kind)]
  /\ reading' = <<>>
  /\ UNCHANGED <<protocol, table, stream, link>>

\* The underlying stream fails under one of the tasks; the other may go on.
\* The table keeps its channels: nobody tells the streams.
WriterEnds ==
  /\ writer /\ writer' = FALSE
  /\ out' = <<>>
  /\ UNCHANGED <<protocol, table, stream, inq, wire, peer, reader, reading>>

ReaderEnds ==
  /\ reader /\ reading = <<>> /\ reader' = FALSE
  /\ UNCHANGED <<protocol, table, stream, inq, out, wire, peer, writer, reading>>

\* The peer answers on a stream it was told of, and ends it once.
PeerSends(s) ==
  /\ peer[s] = "open" /\ Len(wire) < WireCap
  /\ \E k \in {"psh", "fin"} :
       /\ wire' = Append(wire, Frame(k, s))
       /\ peer' = IF k = "fin" THEN [peer EXCEPT ![s] = "fin"] ELSE peer
  /\ UNCHANGED <<protocol, table, stream, inq, out, writer, reader, reading>>

Next ==
  \/ \E s \in Streams :
       \/ OpenStream(s) \/ InsertStream(s) \/ SendSyn(s) \/ SynFails(s) \/ GiveUp(s)
       \/ WriteData(s) \/ Shutdown(s) \/ ReadData(s) \/ EndRelay(s)
       \/ PeerSends(s)
  \/ WriteFrame \/ ReadFrame \/ Deliver \/ WriterEnds \/ ReaderEnds

Spec == Init /\ [][Next]_vars

OpenerGoesOn == \E s \in Streams : InsertStream(s) \/ SendSyn(s)

(* The reader runs.  Waiters of the table's mutex and of the queue are     *)
(* served in turn (tokio): an opener that could go on again and again      *)
(* does.  A stream is opened once, so that this is fairness to each.       *)
(* Nothing is assumed of the peer, of the underlying stream taking what is *)
(* written, or of relays: one that is stuck writing to its client reads no *)
(* more, and no timer ends it.                                             *)
Fairness ==
  /\ SF_vars(OpenerGoesOn) /\ \A s \in Streams : WF_vars(SynFails(s))
  /\ WF_vars(ReadFrame) /\ WF_vars(Deliver)

FairSpec == Spec /\ Fairness

-----------------------------------------------------------------------------
(* Properties.                                                             *)

\* The reader keeps the table locked for a stream whose relay does not read.
Held ==
  /\ Locked
  /\ pc[reading[1].s] # "gone" /\ Len(inq[reading[1].s]) = InCap

(* Whatever the peer answers finds its stream: the channel is tabled       *)
(* before the peer is told of the stream and stays until the peer's last   *)
(* frame has been read, whatever the relay, other streams and the two      *)
(* tasks do.  A frame without a channel is dropped in silence.             *)
AnswersFindStream == \A i \in DOMAIN wire : wire[i].s \in table

(* An opener hangs for two reasons only.  At the table it hangs because    *)
(* the reader of sing-mux or smux holds the lock for one relay that has    *)
(* stopped reading: a stream that is gone, the reader's waiting in turn    *)
(* and, with yamux and h2mux, a full channel never hold up the opening of  *)
(* another stream.  After that it hangs because the underlying stream      *)
(* takes nothing and the queue stays full; when the writer ends, it fails. *)
OpensFinish ==
  /\ <>[](\E s \in Streams : pc[s] = "insert") => <>[]Held
  /\ <>[](\E s \in Streams : pc[s] = "syn") => <>[](writer /\ ~Room)
=============================================================================
