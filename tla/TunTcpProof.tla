---------------------------- MODULE TunTcpProof ----------------------------
(***************************************************************************)
(* TCP over the TUN device, for any number of connections, keys, segments  *)
(* and chunks, and any size of the channels, the counter and the sequence  *)
(* numbers, whatever segments arrive and are lost: no acknowledgement runs *)
(* ahead of the stream's channel, and nothing follows an end of file.      *)
(*                                                                         *)
(* Two facts carry the proof.  The numbers are raised and the segment      *)
(* queued under one hold of the lock, so no writer sends the new number in *)
(* between.  And an end of file takes the connection out of the table      *)
(* before the handler reads its next packet; the table never leads back to *)
(* it, because a client finds under its key its own connection or none.    *)
(***************************************************************************)
EXTENDS TunTcp, TLAPS

\* The channels hold segments and ends of file.
Channels ==
  /\ inq \in [Conns -> Seq(0..SeqMod - 1)]
  /\ outq \in [Conns -> Seq({EOF, 1})]

\* A connection without tasks is one its client has not opened, or the one
\* whose SYN is being handled.
Fresh(c) ==
  /\ sent[c] = 0 /\ acked[c] = 0 /\ inq[c] = <<>> /\ ended[c] = {} /\ writer[c] = "none"
  /\ \/ client[c] = "none"
     \/ client[c] # "none" /\ h.conn = c /\ h.pc \in {"register", "count"}

Opened(c) ==
  /\ task[c] = "none" => Fresh(c)
  /\ client[c] = "none" => task[c] = "none"

\* What the handler is at.
Handling ==
  /\ h.pc = "idle" => h = Idle
  /\ h.pc # "idle" => h.conn \in Conns
  /\ h.pc \in {"register", "count"} => task[h.conn] = "none" /\ client[h.conn] # "none"
  /\ h.pc = "register" =>
       /\ table[Key[h.conn]] = None
       /\ \A c \in Conns :
            Key[c] = Key[h.conn] /\ client[c] \in {"open", "fin"} => c = h.conn
  /\ h.pc \in {"eof", "remove", "sub", "lock", "queued", "send", "ack"} =>
       task[h.conn] # "none" /\ client[h.conn] # "none"
  /\ h.pc \in {"lock", "queued", "send"} => h.seg \in 1..sent[h.conn]

\* A client that may still send finds its own connection under its key, or none.
Tabled ==
  /\ \A k \in ConnKeys : table[k] # None =>
       /\ Key[table[k]] = k
       /\ client[table[k]] # "none"
       /\ task[table[k]] # "none" \/ (h.pc = "count" /\ h.conn = table[k])
  /\ \A c \in Conns : client[c] \in {"open", "fin"} => table[Key[c]] \in {None, c}
  /\ \A c, d \in Conns :
       client[c] \in {"open", "fin"} /\ client[d] \in {"open", "fin"} /\ Key[c] = Key[d] => c = d

\* The lock has one holder.
Locked ==
  /\ h.pc \in {"send", "ack"} => lock[h.conn] = "handler"
  /\ \A c \in Conns : writer[c] = "write" => lock[c] = "writer"

\* The segment the handler has in hand at one of these steps.
InHand(c, pcs) == IF h.conn = c /\ h.pc \in pcs THEN {h.seg} ELSE {}

\* The number to be acknowledged is that of a queued segment, or of the one
\* being queued under the lock; the number acknowledged is of a queued one.
Covered(c) ==
  /\ Acked(c) = 0 \/ Acked(c) \in queued[c] \cup InHand(c, {"send"})
  /\ acked[c] = 0 \/ acked[c] \in queued[c]

\* The stream has an end of file before it, or has seen it.
Ends(c) == "client" \in ended[c] \/ \E n \in DOMAIN inq[c] : inq[c][n] = EOF

\* An ended connection is out of the table, or about to leave it; what is in
\* the handler's hands is for one that has not ended.
Ended(c) ==
  /\ Ends(c) => table[Key[c]] # c \/ (h.conn = c /\ h.pc = "remove")
  /\ Ends(c) => ~(h.conn = c /\ h.pc \in {"register", "count", "eof", "lock", "queued", "send"})
  /\ "client" \in ended[c] => inq[c] = <<>>
  /\ \A n \in DOMAIN inq[c] : inq[c][n] = EOF => n = Len(inq[c])

IInv ==
  /\ TypeOK /\ Channels /\ Handling /\ Tabled /\ Locked
  /\ \A c \in Conns :
       /\ Opened(c)
       /\ client[c] # "none" => Acked(c) <= sent[c]
       /\ Streaming(c) => Covered(c)
       /\ Ended(c)
-----------------------------------------------------------------------------
(* Sequence numbers, and records.                                          *)

\* Arithmetic modulo the number of sequence numbers, or of counter values.
LEMMA ModType == ASSUME NEW M \in Nat \ {0}, NEW x \in Int PROVE x % M \in 0..M - 1
OBVIOUS

\* The acknowledgement of segment i counts i segments, across the wrap.
LEMMA AckCounts ==
  ASSUME NEW M \in Nat \ {0}, NEW s \in 0..M - 1, NEW i \in 0..M - 1
  PROVE  (((s + i + 1) % M) - s - 1) % M = i
OBVIOUS

HPcs == {"idle", "register", "count", "eof", "remove", "sub", "lock", "queued", "send", "ack"}

\* The handler goes on with the same packet.
LEMMA StepFacts ==
  ASSUME TypeOK, NEW from, NEW to \in HPcs, Step(from, to)
  PROVE  /\ h.pc = from /\ h'.pc = to /\ h'.conn = h.conn /\ h'.seg = h.seg
         /\ h' \in [pc : HPcs, conn : Conns \cup {None}, seg : 0..SeqMod - 1]
BY DEF TypeOK, Step, HPcs

\* The handler is done with it.
LEMMA DoneFacts ==
  ASSUME NEW from, Done(from)
  PROVE  /\ h.pc = from /\ h' = Idle /\ h'.pc = "idle" /\ h'.conn = None
         /\ h' \in [pc : HPcs, conn : Conns \cup {None}, seg : 0..SeqMod - 1]
BY TunAssumption DEF Done, Idle, HPcs, EOF

\* The sequence numbers of a connection.
LEMMA NumberTypes ==
  ASSUME TypeOK, NEW c \in Conns
  PROVE  /\ isn[c] \in 0..SeqMod - 1 /\ cnext[c] \in 0..SeqMod - 1 /\ SeqMod \in Nat \ {0}
         /\ isn[c] \in Int /\ cnext[c] \in Int
<1>1. isn[c] \in Isns /\ cnext[c] \in 0..SeqMod - 1
  BY DEF TypeOK
<1>2. Isns \subseteq 0..SeqMod - 1 /\ SeqMod \in Nat \ {0}
  BY TunAssumption
<1>3. isn[c] \in 0..SeqMod - 1
  BY <1>1, <1>2
<1>4. \A x \in 0..SeqMod - 1 : x \in Int
  BY <1>2
<1> QED
  BY <1>1, <1>2, <1>3, <1>4

\* The number of acknowledged segments is one of a sequence number.
LEMMA AckedType == ASSUME TypeOK, NEW c \in Conns PROVE Acked(c) \in Nat /\ Acked(c) < SeqMod
<1>1. cnext[c] \in Int /\ isn[c] \in Int /\ SeqMod \in Nat \ {0}
  BY NumberTypes
<1>2. cnext[c] - isn[c] - 1 \in Int
  BY <1>1
<1> QED
  BY <1>1, <1>2, ModType DEF Acked

\* A packet acknowledges no more than was sent.
LEMMA AcknowledgeType ==
  ASSUME IInv, NEW c \in Conns, client[c] # "none", Acknowledge(c) \/ UNCHANGED acked
  PROVE  acked' \in [Conns -> Nat] /\ \A d \in Conns : acked'[d] <= sent[d]
<1>1. Acked(c) \in Nat /\ Acked(c) <= sent[c]
  BY AckedType DEF IInv
<1>2. acked \in [Conns -> Nat] /\ \A d \in Conns : acked[d] <= sent[d]
  BY DEF IInv, TypeOK
<1>3. CASE UNCHANGED acked
  BY <1>2, <1>3
<1>4. CASE Acknowledge(c)
  <2> DEFINE a == Acked(c)
  <2>1. a \in Nat /\ a <= sent[c] /\ acked' = [acked EXCEPT ![c] = IF a > @ THEN a ELSE @]
    BY <1>1, <1>4 DEF Acknowledge
  <2> HIDE DEF a
  <2>2. acked' \in [Conns -> Nat]
    BY <1>2, <2>1
  <2>3. ASSUME NEW d \in Conns PROVE acked'[d] <= sent[d]
    BY <1>2, <2>1, <2>3
  <2> QED
    BY <2>2, <2>3
<1> QED
  BY <1>3, <1>4

\* A channel with room, and one chunk more.
LEMMA AppendBound ==
  ASSUME NEW S, NEW q \in Seq(S), Len(q) < Cap, NEW x \in S,
         NEW R, \A i \in DOMAIN q : q[i] \in R, x \in R
  PROVE  /\ Append(q, x) \in Seq(S) /\ Len(Append(q, x)) <= Cap
         /\ \A i \in DOMAIN Append(q, x) : Append(q, x)[i] \in R
<1>1. Len(q) \in Nat /\ Cap \in Nat
  BY TunAssumption
<1> QED
  BY <1>1

\* A channel without its first chunk.
LEMMA TailFacts ==
  ASSUME NEW S, NEW q \in Seq(S), q # <<>>, Len(q) <= Cap
  PROVE  /\ Tail(q) \in Seq(S) /\ Len(Tail(q)) = Len(q) - 1 /\ Len(Tail(q)) <= Cap
         /\ \A n \in DOMAIN Tail(q) : Tail(q)[n] = q[n + 1] /\ n + 1 \in DOMAIN q
<1>1. Len(q) \in Nat /\ Cap \in Nat /\ Len(q) # 0
  BY TunAssumption
<1>2. Tail(q) \in Seq(S) /\ Len(Tail(q)) = Len(q) - 1
  BY <1>1
<1>3. Len(Tail(q)) <= Cap
  BY <1>1, <1>2
<1>4. ASSUME NEW n \in DOMAIN Tail(q)
      PROVE  Tail(q)[n] = q[n + 1] /\ n + 1 \in DOMAIN q
  <2>1. n \in 1..Len(q) - 1
    BY <1>2
  <2> QED
    BY <1>1, <2>1
<1> QED
  BY <1>2, <1>3, <1>4

-----------------------------------------------------------------------------
(* Types.                                                                  *)

\* The types, among them what is in the channels and what was acknowledged.
LEMMA TypeStep == ASSUME IInv, [Next]_vars PROVE (TypeOK /\ Channels)'
<1> USE DEF IInv
<1>h. [pc : HPcs, conn : Conns \cup {None}, seg : 0..SeqMod - 1] =
      [pc : {"idle", "register", "count", "eof", "remove", "sub", "lock", "queued", "send", "ack"},
       conn : Conns \cup {None}, seg : 0..SeqMod - 1]
  BY DEF HPcs
<1>w. Width \in Nat \ {0} /\ active \in Int /\ SeqMod \in Nat \ {0}
  BY TunAssumption DEF TypeOK
<1>1. ASSUME NEW c \in Conns, ReadSyn(c) PROVE (TypeOK /\ Channels)'
  <2>1. cnext' \in [Conns -> 0..SeqMod - 1]
    <3>1. (isn[c] + 1) % SeqMod \in 0..SeqMod - 1
      <4>1. isn[c] + 1 \in Int
        BY NumberTypes
      <4> QED
        BY <1>w, <4>1, ModType
    <3> QED
      BY <1>1, <3>1 DEF ReadSyn, TypeOK
  <2>2. h' \in [pc : HPcs, conn : Conns \cup {None}, seg : 0..SeqMod - 1]
    BY <1>1, <1>w DEF ReadSyn, HPcs, EOF
  <2> QED
    BY <1>1, <1>h, <2>1, <2>2 DEF ReadSyn, TypeOK, Channels, stack, relay
<1>2. CASE Register
  <2>1. h' \in [pc : HPcs, conn : Conns \cup {None}, seg : 0..SeqMod - 1]
    BY <1>2, StepFacts DEF Register, HPcs
  <2> QED
    BY <1>2, <1>h, <2>1 DEF Register, TypeOK, Channels, peer, relay
<1>3. CASE Count
  <2>1. h' \in [pc : HPcs, conn : Conns \cup {None}, seg : 0..SeqMod - 1]
    BY <1>3, DoneFacts DEF Count
  <2>2. active' \in 0..Width - 1
    BY <1>3, <1>w, ModType DEF Count
  <2> QED
    BY <1>3, <1>h, <2>1, <2>2 DEF Count, TypeOK, Channels, peer
<1>4. ASSUME NEW c \in Conns, ReadFin(c) PROVE (TypeOK /\ Channels)'
  <2>1. h' \in [pc : HPcs, conn : Conns \cup {None}, seg : 0..SeqMod - 1]
    BY <1>4, <1>w, TunAssumption DEF ReadFin, Idle, HPcs, EOF, TypeOK
  <2> QED
    BY <1>4, <1>h, <2>1 DEF ReadFin, TypeOK, Channels, stack, relay
<1>l. ASSUME NEW c \in Conns, LoseFin(c) PROVE (TypeOK /\ Channels)'
  BY <1>l DEF LoseFin, TypeOK, Channels, stack, relay
<1>5. CASE SendEof
  <2>1. h' \in [pc : HPcs, conn : Conns \cup {None}, seg : 0..SeqMod - 1]
    BY <1>5, StepFacts DEF SendEof, HPcs
  <2>2. h.conn \in Conns
    BY <1>5, StepFacts DEF SendEof, Handling, HPcs
  <2>3. UNCHANGED <<peer, acked, stack, cnext, lock, queued, outq, writer, relay>>
    BY <1>5 DEF SendEof
  <2>4. CASE inq' = inq
    BY <1>h, <2>1, <2>3, <2>4 DEF TypeOK, Channels, peer, stack, relay
  <2>5. CASE Len(inq[h.conn]) < Cap /\ inq' = [inq EXCEPT ![h.conn] = Append(@, EOF)]
    <3>1. inq[h.conn] \in Seq(0..SeqMod - 1) /\ EOF \in 0..SeqMod - 1
      BY <1>w, <2>2 DEF Channels, EOF
    <3>2. inq' \in [Conns -> Seq(0..SeqMod - 1)]
      BY <2>2, <2>5, <3>1 DEF Channels
    <3>3. ASSUME NEW c \in Conns
          PROVE  Len(inq'[c]) <= Cap /\ \A i \in DOMAIN inq'[c] : inq'[c][i] \in 0..sent[c]
      <4>1. CASE c = h.conn
        <5>1. inq'[c] = Append(inq[c], EOF)
          BY <2>5, <3>3, <4>1 DEF Channels
        <5>2. EOF \in 0..sent[c] /\ \A i \in DOMAIN inq[c] : inq[c][i] \in 0..sent[c]
          BY DEF TypeOK, EOF
        <5> QED
          BY <2>5, <3>1, <4>1, <5>1, <5>2, AppendBound
      <4>2. CASE c # h.conn
        BY <2>5, <3>3, <4>2 DEF Channels, TypeOK
      <4> QED
        BY <4>1, <4>2
    <3> QED
      BY <1>h, <2>1, <2>3, <3>2, <3>3 DEF TypeOK, Channels, peer, stack, relay
  <2> QED
    BY <1>5, <2>4, <2>5 DEF SendEof
<1>6. CASE FinRemove
  <2>1. h' \in [pc : HPcs, conn : Conns \cup {None}, seg : 0..SeqMod - 1]
    BY <1>6, StepFacts DEF FinRemove, HPcs
  <2> QED
    BY <1>6, <1>h, <2>1 DEF FinRemove, TypeOK, Channels, peer, relay
<1>7. CASE FinSub
  <2>1. h' \in [pc : HPcs, conn : Conns \cup {None}, seg : 0..SeqMod - 1]
    BY <1>7, DoneFacts DEF FinSub
  <2>2. active' \in 0..Width - 1
    BY <1>7, <1>w, ModType DEF FinSub
  <2> QED
    BY <1>7, <1>h, <2>1, <2>2 DEF FinSub, TypeOK, Channels, peer, relay
<1>8. ASSUME NEW c \in Conns, NEW i \in 1..Segs[c], ReadData(c, i) PROVE (TypeOK /\ Channels)'
  <2>1. i \in Nat /\ i <= Segs[c] /\ Segs[c] \in 0..SeqMod - 1 /\ sent[c] \in Nat
    BY <1>w, TunAssumption DEF TypeOK
  <2>2. h' \in [pc : HPcs, conn : Conns \cup {None}, seg : 0..SeqMod - 1]
    <3>1. i \in 0..SeqMod - 1 /\ EOF \in 0..SeqMod - 1
      BY <1>w, <2>1 DEF EOF
    <3>2. table[Key[c]] \in Conns \cup {None}
      BY TunAssumption DEF TypeOK
    <3> QED
      BY <1>8, <3>1, <3>2 DEF ReadData, Idle, HPcs
  <2>3. /\ sent' \in [Conns -> Nat]
        /\ \A d \in Conns : sent'[d] <= Segs[d] /\ sent[d] <= sent'[d]
    BY <1>8, <2>1, SMTT(30) DEF ReadData, TypeOK
  <2>4. UNCHANGED <<client, isn, acked, stack, cnext, lock, inq, queued, outq, writer, relay>>
    BY <1>8 DEF ReadData
  <2>5. ASSUME NEW d \in Conns
        PROVE  /\ acked[d] <= sent'[d]
               /\ \A n \in DOMAIN inq[d] : inq[d][n] \in 0..sent'[d]
    <3>1. sent[d] \in Nat /\ sent'[d] \in Nat /\ acked[d] \in Nat
      BY <2>3 DEF TypeOK
    <3> QED
      BY <2>3, <3>1, SMTT(30) DEF TypeOK
  <2> QED
    BY <1>h, <2>2, <2>3, <2>4, <2>5 DEF TypeOK, Channels, stack, relay
<1>9. CASE QueueHandler
  <2>1. h' \in [pc : HPcs, conn : Conns \cup {None}, seg : 0..SeqMod - 1]
    BY <1>9, StepFacts DEF QueueHandler, HPcs
  <2> QED
    BY <1>9, <1>h, <2>1 DEF QueueHandler, TypeOK, Channels, peer, stack, relay
<1>10. CASE LockData
  <2>1. h' \in [pc : HPcs, conn : Conns \cup {None}, seg : 0..SeqMod - 1]
    BY <1>10, StepFacts DEF LockData, HandlerLocks, HPcs
  <2>2. h.conn \in Conns /\ h.seg \in 0..SeqMod - 1
    BY <1>10, StepFacts DEF LockData, HandlerLocks, Handling, HPcs, TypeOK
  <2>3. cnext' \in [Conns -> 0..SeqMod - 1]
    <3>1. isn[h.conn] + h.seg + 1 \in Int
      BY <2>2, NumberTypes
    <3>2. (isn[h.conn] + h.seg + 1) % SeqMod \in 0..SeqMod - 1
      BY <1>w, <3>1, ModType
    <3> QED
      BY <1>10, <2>2, <3>2 DEF LockData, Advance, TypeOK
  <2> QED
    BY <1>10, <1>h, <2>1, <2>3 DEF LockData, TypeOK, Channels, peer, stack, relay
<1>11. CASE SendData
  <2>1. h' \in [pc : HPcs, conn : Conns \cup {None}, seg : 0..SeqMod - 1]
    BY <1>11, StepFacts DEF SendData, HPcs
  <2>2. h.conn \in Conns /\ h.seg \in 1..sent[h.conn] /\ h.seg \in 0..SeqMod - 1
    BY <1>11, StepFacts DEF SendData, Handling, HPcs, TypeOK
  <2>3. UNCHANGED <<peer, acked, stack, cnext, lock, outq, writer, relay>>
    BY <1>11 DEF SendData
  <2>4. CASE UNCHANGED <<inq, queued>>
    BY <1>h, <2>1, <2>3, <2>4 DEF TypeOK, Channels, peer, stack, relay
  <2>5. CASE /\ Len(inq[h.conn]) < Cap /\ inq' = [inq EXCEPT ![h.conn] = Append(@, h.seg)]
             /\ queued' = [queued EXCEPT ![h.conn] = @ \cup {h.seg}]
    <3>1. inq[h.conn] \in Seq(0..SeqMod - 1)
      BY <2>2 DEF Channels
    <3>2. inq' \in [Conns -> Seq(0..SeqMod - 1)]
      BY <2>2, <2>5, <3>1 DEF Channels
    <3>3. ASSUME NEW c \in Conns
          PROVE  Len(inq'[c]) <= Cap /\ \A i \in DOMAIN inq'[c] : inq'[c][i] \in 0..sent[c]
      <4>1. CASE c = h.conn
        <5>1. inq'[c] = Append(inq[c], h.seg)
          BY <2>5, <3>3, <4>1 DEF Channels
        <5>2. h.seg \in 0..sent[c]
          BY <2>2, <4>1 DEF TypeOK
        <5>3. \A i \in DOMAIN inq[c] : inq[c][i] \in 0..sent[c]
          BY DEF TypeOK
        <5> QED
          BY <2>2, <2>5, <3>1, <4>1, <5>1, <5>2, <5>3, AppendBound, SMTT(30)
      <4>2. CASE c # h.conn
        BY <2>5, <3>3, <4>2 DEF Channels, TypeOK
      <4> QED
        BY <4>1, <4>2
    <3>4. queued' \in [Conns -> SUBSET (1..SeqMod - 1)]
      <4>1. h.seg \in 1..SeqMod - 1
        BY <2>2, <1>w DEF TypeOK
      <4> QED
        BY <2>5, <4>1 DEF TypeOK
    <3> QED
      BY <1>h, <2>1, <2>3, <3>2, <3>3, <3>4 DEF TypeOK, Channels, peer, stack, relay
  <2> QED
    BY <1>11, <2>4, <2>5 DEF SendData
<1>12. CASE AckData
  <2>1. h' \in [pc : HPcs, conn : Conns \cup {None}, seg : 0..SeqMod - 1]
    BY <1>12, DoneFacts DEF AckData
  <2>2. h.conn \in Conns /\ client[h.conn] # "none"
    BY <1>12, DoneFacts DEF AckData, Handling, Fresh, Opened
  <2>3. acked' \in [Conns -> Nat] /\ \A c \in Conns : acked'[c] <= sent[c]
    BY <1>12, <2>2, AcknowledgeType DEF AckData
  <2>4. lock' \in [Conns -> {None, "handler", "writer"}]
    BY <1>12 DEF AckData, HandOver, TypeOK
  <2> QED
    BY <1>12, <1>h, <2>1, <2>3, <2>4 DEF AckData, TypeOK, Channels, peer, stack, relay
<1>13. ASSUME NEW c \in Conns, Receive(c) PROVE (TypeOK /\ Channels)'
  <2>1. outq' \in [Conns -> Seq({EOF, 1})] /\ \A d \in Conns : Len(outq'[d]) <= Cap
    <3>1. CASE UNCHANGED outq
      BY <3>1 DEF TypeOK, Channels
    <3>2. CASE outq[c] # <<>> /\ outq' = [outq EXCEPT ![c] = Tail(@)]
      <4>1. outq[c] \in Seq({EOF, 1}) /\ Len(outq[c]) <= Cap /\ Cap \in Nat
        BY TunAssumption DEF TypeOK, Channels
      <4>2. Tail(outq[c]) \in Seq({EOF, 1}) /\ Len(Tail(outq[c])) <= Cap
        BY <3>2, <4>1
      <4> QED
        BY <3>2, <4>2 DEF TypeOK, Channels
    <3> QED
      BY <1>13, <3>1, <3>2 DEF Receive
  <2> QED
    BY <1>13, <2>1 DEF Receive, TypeOK, Channels, peer, stack, relay
<1>14. ASSUME NEW c \in Conns, QueueWriter(c) \/ LockWrite(c) PROVE (TypeOK /\ Channels)'
  BY <1>14, ZenonT(60) DEF QueueWriter, LockWrite, TypeOK, Channels, peer, stack, relay
<1>15. ASSUME NEW c \in Conns, Write(c) PROVE (TypeOK /\ Channels)'
  <2>1. client[c] # "none"
    BY <1>15 DEF Write, Opened, Fresh
  <2>2. acked' \in [Conns -> Nat] /\ \A d \in Conns : acked'[d] <= sent[d]
    BY <1>15, <2>1, AcknowledgeType DEF Write
  <2> QED
    BY <1>15, <2>2 DEF Write, TypeOK, Channels, peer, stack, relay
<1>16. ASSUME NEW c \in Conns, RelayUp(c) PROVE (TypeOK /\ Channels)'
  <2>1. UNCHANGED <<peer, acked, stack, h, cnext, lock, queued, outq, writer, task, down>>
    BY <1>16 DEF RelayUp
  <2>e. ended' \in [Conns -> SUBSET {"client", "remote"}]
    <3>1. ended' = ended \/ ended' = [ended EXCEPT ![c] = @ \cup {"client"}]
      BY <1>16 DEF RelayUp
    <3>2. ended \in [Conns -> SUBSET {"client", "remote"}]
      BY DEF TypeOK
    <3>3. CASE ended' = ended
      BY <3>2, <3>3
    <3>4. CASE ended' = [ended EXCEPT ![c] = @ \cup {"client"}]
      <4>1. ended[c] \cup {"client"} \in SUBSET {"client", "remote"}
        BY <3>2
      <4> QED
        BY <3>2, <3>4, <4>1
    <3> QED
      BY <3>1, <3>3, <3>4
  <2>2. CASE UNCHANGED inq
    BY <2>1, <2>e, <2>2 DEF TypeOK, Channels, peer, stack
  <2>3. CASE inq[c] # <<>> /\ inq' = [inq EXCEPT ![c] = Tail(@)]
    <3>1. inq[c] \in Seq(0..SeqMod - 1) /\ Len(inq[c]) <= Cap /\ Cap \in Nat
      BY TunAssumption DEF TypeOK, Channels
    <3>2. /\ Tail(inq[c]) \in Seq(0..SeqMod - 1) /\ Len(Tail(inq[c])) <= Cap
          /\ \A n \in DOMAIN Tail(inq[c]) : Tail(inq[c])[n] = inq[c][n + 1] /\ n + 1 \in DOMAIN inq[c]
      BY <2>3, <3>1, TailFacts
    <3>3. inq' \in [Conns -> Seq(0..SeqMod - 1)] /\ \A d \in Conns : Len(inq'[d]) <= Cap
      BY <2>3, <3>2 DEF TypeOK, Channels
    <3>4. ASSUME NEW d \in Conns
          PROVE  \A n \in DOMAIN inq'[d] : inq'[d][n] \in 0..sent[d]
      <4>1. CASE d = c
        <5>1. inq'[d] = Tail(inq[c])
          BY <2>3, <4>1 DEF Channels
        <5>2. \A n \in DOMAIN inq[c] : inq[c][n] \in 0..sent[c]
          BY DEF TypeOK
        <5> QED
          BY <3>2, <4>1, <5>1, <5>2
      <4>2. CASE d # c
        BY <2>3, <4>2 DEF TypeOK, Channels
      <4> QED
        BY <4>1, <4>2
    <3> QED
      BY <2>1, <2>e, <3>3, <3>4 DEF TypeOK, Channels, peer, stack
  <2> QED
    BY <1>16, <2>2, <2>3 DEF RelayUp
<1>17. ASSUME NEW c \in Conns, RelayDown(c) PROVE (TypeOK /\ Channels)'
  <2>1. down' \in [Conns -> Nat] /\ \A d \in Conns : down'[d] <= MaxDown[d]
    <3>1. down[c] \in Nat /\ MaxDown[c] \in Nat
      BY TunAssumption DEF TypeOK
    <3> QED
      BY <1>17, <3>1, SMTT(30) DEF RelayDown, TypeOK
  <2> QED
    BY <1>17, <2>1 DEF RelayDown, TypeOK, Channels, peer, stack
<1>18. ASSUME NEW c \in Conns, ToClient(c) \/ RelayDownEof(c) PROVE (TypeOK /\ Channels)'
  <2>1. outq' \in [Conns -> Seq({EOF, 1})] /\ \A d \in Conns : Len(outq'[d]) <= Cap
    <3>1. CASE UNCHANGED outq
      BY <3>1 DEF TypeOK, Channels
    <3>2. ASSUME NEW x \in {EOF, 1}, Len(outq[c]) < Cap, outq' = [outq EXCEPT ![c] = Append(@, x)]
          PROVE  outq' \in [Conns -> Seq({EOF, 1})] /\ \A d \in Conns : Len(outq'[d]) <= Cap
      <4>1. outq[c] \in Seq({EOF, 1})
        BY DEF Channels
      <4>2. \A i \in DOMAIN outq[c] : outq[c][i] \in {EOF, 1}
        BY <4>1
      <4>3. Append(outq[c], x) \in Seq({EOF, 1}) /\ Len(Append(outq[c], x)) <= Cap
        BY <3>2, <4>1, <4>2, AppendBound
      <4> QED
        BY <3>2, <4>3 DEF TypeOK, Channels
    <3> QED
      BY <1>18, <3>1, <3>2 DEF ToClient, RelayDownEof
  <2>2. CASE ToClient(c)
    BY <2>1, <2>2 DEF ToClient, TypeOK, Channels, peer, stack
  <2>3. CASE RelayDownEof(c)
    BY <2>1, <2>3 DEF RelayDownEof, TypeOK, Channels, peer, stack
  <2> QED
    BY <1>18, <2>2, <2>3
<1>19. ASSUME NEW c \in Conns, RelayOver(c) \/ Remove(c) PROVE (TypeOK /\ Channels)'
  BY <1>19, ZenonT(60) DEF RelayOver, Remove, TypeOK, Channels, peer, stack
<1>20. ASSUME NEW c \in Conns, Sub(c) PROVE (TypeOK /\ Channels)'
  <2>1. active' \in 0..Width - 1
    BY <1>20, <1>w, ModType DEF Sub
  <2> QED
    BY <1>20, <2>1 DEF Sub, TypeOK, Channels, peer
<1>21. CASE UNCHANGED vars
  BY <1>21 DEF vars, TypeOK, Channels, peer, stack, relay
<1> QED
  BY <1>1, <1>2, <1>3, <1>4, <1>l, <1>5, <1>6, <1>7, <1>8, <1>9, <1>10, <1>11, <1>12, <1>13,
     <1>14, <1>15, <1>16, <1>17, <1>18, <1>19, <1>20, <1>21
  DEF Next, Handler, Packet, Writer, Dispatch

-----------------------------------------------------------------------------
(* The packet in hand.                                                     *)

\* Writers and dispatch tasks leave the handler and its numbers alone.
LEMMA TaskFrame ==
  ASSUME NEW c \in Conns, Writer(c) \/ Dispatch(c)
  PROVE  UNCHANGED <<client, sent, isn, h, cnext, queued>>
BY DEF Writer, Dispatch, Receive, QueueWriter, LockWrite, Write, RelayUp, RelayDown, ToClient,
       RelayDownEof, RelayOver, Remove, Sub, peer

\* The steps of a packet that has found its connection.
Working == SendEof \/ FinRemove \/ FinSub \/ QueueHandler \/ LockData \/ SendData \/ AckData

\* They leave clients and tasks alone.
LEMMA WorkFrame ==
  ASSUME Working
  PROVE  UNCHANGED <<client, sent, isn, outq, writer, relay>>
BY DEF Working, SendEof, FinRemove, FinSub, QueueHandler, LockData, SendData, AckData, peer

\* They are for a connection that has its tasks, and end idle or go on with it.
LEMMA WorkFacts ==
  ASSUME IInv, Working
  PROVE  /\ h.pc \in {"eof", "remove", "sub", "lock", "queued", "send", "ack"}
         /\ h.conn \in Conns /\ task[h.conn] # "none" /\ client[h.conn] # "none"
         /\ \/ h' = Idle
            \/ /\ h'.conn = h.conn /\ h'.seg = h.seg
               /\ h'.pc \in {"remove", "sub", "queued", "send", "ack"}
               /\ h'.pc \in {"queued", "send"} => h.pc \in {"lock", "queued"}
<1>1. CASE SendEof
  BY <1>1, StepFacts DEF SendEof, IInv, Handling, HPcs
<1>2. CASE FinRemove
  BY <1>2, StepFacts DEF FinRemove, IInv, Handling, HPcs
<1>3. CASE FinSub
  BY <1>3, DoneFacts DEF FinSub, IInv, Handling, HPcs
<1>4. CASE QueueHandler
  BY <1>4, StepFacts DEF QueueHandler, IInv, Handling, HPcs
<1>5. CASE LockData
  BY <1>5, StepFacts DEF LockData, HandlerLocks, IInv, Handling, HPcs
<1>6. CASE SendData
  BY <1>6, StepFacts DEF SendData, IInv, Handling, HPcs
<1>7. CASE AckData
  BY <1>7, DoneFacts DEF AckData, IInv, Handling, HPcs
<1> QED
  BY <1>1, <1>2, <1>3, <1>4, <1>5, <1>6, <1>7 DEF Working

\* An idle handler finds under a client's key its own connection, or none;
\* the connection has its tasks.
LEMMA FoundFacts ==
  ASSUME IInv, NEW c \in Conns, h = Idle, client[c] \in {"open", "fin"}
  PROVE  table[Key[c]] \in {None, c} /\ task[c] # "none"
<1>1. table[Key[c]] \in {None, c}
  BY DEF IInv, Tabled
<1>2. h.pc = "idle" /\ h.pc \notin {"register", "count"}
  BY DEF Idle
<1> QED
  BY <1>1, <1>2 DEF IInv, Opened, Fresh

\* A dispatch task stays one, and at most takes entries out of the table.
LEMMA DispatchFacts ==
  ASSUME TypeOK, NEW c \in Conns, Dispatch(c)
  PROVE  /\ task[c] # "none"
         /\ \A d \in Conns : task'[d] = "none" <=> task[d] = "none"
         /\ \A d \in Conns : Streaming(d)' => Streaming(d)
         /\ \A k \in ConnKeys : table'[k] \in {table[k], None}
         /\ UNCHANGED <<acked, lock, writer>>
<1>1. task[c] # "none" /\ UNCHANGED <<acked, lock, writer>>
  BY DEF Dispatch, RelayUp, RelayDown, ToClient, RelayDownEof, RelayOver, Remove, Sub
<1>2. \A d \in Conns : task'[d] = "none" <=> task[d] = "none"
  BY SMTT(30) DEF Dispatch, RelayUp, RelayDown, ToClient, RelayDownEof, RelayOver, Remove, Sub, TypeOK
<1>3. \A k \in ConnKeys : table'[k] \in {table[k], None}
  BY DEF Dispatch, RelayUp, RelayDown, ToClient, RelayDownEof, RelayOver, Remove, Sub, TypeOK, stack
<1>4. \A d \in Conns : Streaming(d)' => Streaming(d)
  BY DEF Dispatch, RelayUp, RelayDown, ToClient, RelayDownEof, RelayOver, Remove, Sub, TypeOK, Streaming
<1> QED
  BY <1>1, <1>2, <1>3, <1>4

\* Whose packet the handler has.
LEMMA HandlingStep == ASSUME IInv, [Next]_vars PROVE Handling'
<1> USE DEF IInv
<1>1. ASSUME NEW c \in Conns, ReadSyn(c) PROVE Handling'
  BY <1>1, TunAssumption, ZenonT(60) DEF ReadSyn, Handling, Opened, stack, relay, TypeOK
<1>l. ASSUME NEW c \in Conns, LoseFin(c) PROVE Handling'
  <2>1. UNCHANGED <<sent, h, table, task>>
    BY <1>l DEF LoseFin, stack, relay
  <2>2. \A d \in Conns : /\ client'[d] = "none" => client[d] = "none"
                         /\ client'[d] \in {"open", "fin"} => client[d] \in {"open", "fin"}
    BY <1>l DEF LoseFin, TypeOK
  <2> QED
    BY <2>1, <2>2 DEF Handling
<1>2. CASE Register
  <2>1. h.pc = "register" /\ h'.pc = "count" /\ h'.conn = h.conn
    BY <1>2, StepFacts DEF Register, HPcs
  <2> QED
    BY <1>2, <2>1 DEF Register, Handling, peer, relay
<1>3. CASE Count
  BY <1>3, DoneFacts DEF Count, Handling
<1>4. ASSUME NEW c \in Conns, ReadFin(c) PROVE Handling'
  <2>1. table[Key[c]] \in {None, c} /\ task[c] # "none" /\ task' = task
    BY <1>4, FoundFacts DEF ReadFin, relay
  <2>2. CASE h' = Idle
    BY <2>2 DEF Handling, Idle
  <2>3. CASE h' = [pc |-> "eof", conn |-> c, seg |-> EOF]
    <3>1. client'[c] # "none"
      BY <1>4 DEF ReadFin, TypeOK
    <3> QED
      BY <2>1, <2>3, <3>1 DEF Handling
  <2> QED
    BY <1>4, <2>1, <2>2, <2>3 DEF ReadFin
<1>5. ASSUME NEW c \in Conns, NEW i \in 1..Segs[c], ReadData(c, i) PROVE Handling'
  <2>1. table[Key[c]] \in {None, c} /\ task[c] # "none" /\ UNCHANGED <<task, client>>
    BY <1>5, FoundFacts DEF ReadData, relay
  <2>2. CASE h' = Idle
    BY <2>2 DEF Handling, Idle
  <2>3. CASE h' = [pc |-> "lock", conn |-> c, seg |-> i]
    <3>1. i \in 1..sent'[c]
      <4>1. sent[c] \in Nat /\ sent \in [Conns -> Nat] /\ i \in Nat /\ i >= 1
        BY TunAssumption DEF TypeOK
      <4> QED
        BY <1>5, <4>1 DEF ReadData
    <3>2. client'[c] # "none"
      BY <1>5, <2>1 DEF ReadData
    <3> QED
      BY <2>1, <2>3, <3>1, <3>2 DEF Handling
  <2> QED
    BY <1>5, <2>1, <2>2, <2>3 DEF ReadData
<1>6. CASE Working
  <2>1. UNCHANGED <<client, sent, task>>
    BY <1>6, WorkFrame DEF relay
  <2>2. CASE h' = Idle
    BY <2>2 DEF Handling, Idle
  <2>3. CASE /\ h'.conn = h.conn /\ h'.seg = h.seg
             /\ h'.pc \in {"remove", "sub", "queued", "send", "ack"}
             /\ h'.pc \in {"queued", "send"} => h.pc \in {"lock", "queued"}
    BY <1>6, <2>1, <2>3, WorkFacts DEF Handling
  <2> QED
    BY <1>6, <2>2, <2>3, WorkFacts
<1>7. ASSUME NEW c \in Conns, Writer(c) PROVE Handling'
  BY <1>7, TaskFrame DEF Writer, Receive, QueueWriter, LockWrite, Write, Handling, relay, stack
<1>8. ASSUME NEW c \in Conns, Dispatch(c) PROVE Handling'
  <2>1. UNCHANGED <<client, sent, h>>
    BY <1>8, TaskFrame
  <2>3. \A d \in Conns : task'[d] = "none" <=> task[d] = "none"
    BY <1>8, DispatchFacts
  <2>4. \A k \in ConnKeys : table'[k] \in {table[k], None}
    BY <1>8, DispatchFacts
  <2>5. h.pc = "register" => table'[Key[h.conn]] = None
    BY <2>4, TunAssumption DEF Handling
  <2> QED
    BY <2>1, <2>3, <2>5 DEF Handling
<1>9. CASE UNCHANGED vars
  BY <1>9 DEF vars, Handling, peer, stack, relay
<1> QED
  BY <1>1, <1>l, <1>2, <1>3, <1>4, <1>5, <1>6, <1>7, <1>8, <1>9 DEF Next, Handler, Packet, Working

\* What is in the table.
LEMMA TabledStep == ASSUME IInv, [Next]_vars PROVE Tabled'
<1> USE DEF IInv
<1>k. \A c \in Conns : Key[c] \in ConnKeys
  BY TunAssumption
<1>1. ASSUME NEW c \in Conns, ReadSyn(c) PROVE Tabled'
  <2>1. client' = [client EXCEPT ![c] = "open"] /\ UNCHANGED <<table, task>> /\ h.pc = "idle"
    BY <1>1 DEF ReadSyn, stack, relay, Idle
  <2>2. \A k \in ConnKeys : table[k] # None =>
          Key[table[k]] = k /\ client'[table[k]] # "none" /\ task'[table[k]] # "none"
    BY <2>1 DEF Tabled, TypeOK
  <2>3. \A d \in Conns : client'[d] \in {"open", "fin"} => table'[Key[d]] \in {None, d}
    BY <1>1, <2>1 DEF Tabled, TypeOK, ReadSyn
  <2>4. ASSUME NEW d \in Conns, NEW e \in Conns, Key[d] = Key[e],
               client'[d] \in {"open", "fin"}, client'[e] \in {"open", "fin"}
        PROVE  d = e
    <3>1. \A x \in Conns : client'[x] = IF x = c THEN "open" ELSE client[x]
      BY <2>1 DEF TypeOK
    <3>2. \A x \in Conns : Key[x] = Key[c] => client[x] \in {"none", "gone"}
      BY <1>1 DEF ReadSyn
    <3> QED
      BY <2>4, <3>1, <3>2 DEF Tabled
  <2> QED
    BY <2>1, <2>2, <2>3, <2>4 DEF Tabled
<1>2. CASE Register
  <2>1. /\ h.pc = "register" /\ h'.pc = "count" /\ h'.conn = h.conn
        /\ table' = [table EXCEPT ![Key[h.conn]] = h.conn]
        /\ UNCHANGED <<client, task>>
    BY <1>2, StepFacts DEF Register, HPcs, peer, relay
  <2>2. /\ h.conn \in Conns /\ client[h.conn] # "none"
        /\ \A c \in Conns :
             Key[c] = Key[h.conn] /\ client[c] \in {"open", "fin"} => c = h.conn
    BY <2>1 DEF Handling
  <2>3. ASSUME NEW k \in ConnKeys, table'[k] # None
        PROVE  /\ Key[table'[k]] = k /\ client'[table'[k]] # "none"
               /\ task'[table'[k]] # "none" \/ (h'.pc = "count" /\ h'.conn = table'[k])
    BY <2>1, <2>2, <2>3 DEF Tabled, TypeOK
  <2>4. \A c \in Conns : client[c] \in {"open", "fin"} => table'[Key[c]] \in {None, c}
    BY <1>k, <2>1, <2>2 DEF Tabled, TypeOK
  <2> QED
    BY <2>1, <2>3, <2>4 DEF Tabled
<1>3. CASE Count
  <2>1. /\ h.pc = "count" /\ task' = [task EXCEPT ![h.conn] = "relay"]
        /\ UNCHANGED <<client, table>>
    BY <1>3, DoneFacts DEF Count, peer
  <2>2. ASSUME NEW k \in ConnKeys, table[k] # None PROVE task'[table[k]] # "none"
    BY <2>1, <2>2 DEF Tabled, TypeOK
  <2> QED
    BY <2>1, <2>2 DEF Tabled
<1>4. ASSUME NEW c \in Conns, ReadFin(c) PROVE Tabled'
  <2>1. /\ h.pc = "idle" /\ UNCHANGED <<table, task>> /\ client[c] \in {"open", "fin"}
        /\ \E to \in {"fin", "gone"} : client' = [client EXCEPT ![c] = to]
    BY <1>4 DEF ReadFin, stack, relay, Idle
  <2>2. \A d \in Conns : /\ client'[d] = "none" => client[d] = "none"
                         /\ client'[d] \in {"open", "fin"} => client[d] \in {"open", "fin"}
    BY <2>1 DEF TypeOK
  <2> QED
    BY <2>1, <2>2, SMTT(30) DEF Tabled, TypeOK
<1>l. ASSUME NEW c \in Conns, LoseFin(c) PROVE Tabled'
  <2>1. UNCHANGED <<h, table, task>>
    BY <1>l DEF LoseFin, stack, relay
  <2>2. \A d \in Conns : /\ client'[d] = "none" => client[d] = "none"
                         /\ client'[d] \in {"open", "fin"} => client[d] \in {"open", "fin"}
    BY <1>l DEF LoseFin, TypeOK
  <2>3. ASSUME NEW k \in ConnKeys, table[k] # None
        PROVE  /\ Key[table[k]] = k /\ client'[table[k]] # "none"
               /\ task[table[k]] # "none" \/ (h.pc = "count" /\ h.conn = table[k])
    BY <2>2, <2>3 DEF Tabled, TypeOK
  <2>4. \A d \in Conns : client'[d] \in {"open", "fin"} => table[Key[d]] \in {None, d}
    BY <2>2 DEF Tabled
  <2> QED
    BY <2>1, <2>2, <2>3, <2>4 DEF Tabled
<1>5. ASSUME NEW c \in Conns, NEW i \in 1..Segs[c], ReadData(c, i) PROVE Tabled'
  BY <1>5 DEF ReadData, Tabled, stack, relay, Idle
<1>6. CASE Working
  <2>1. UNCHANGED <<client, task>> /\ h.pc # "count"
    BY <1>6, WorkFrame, WorkFacts DEF relay
  <2>2. CASE FinRemove
    BY <2>1, <2>2 DEF FinRemove, Tabled, TypeOK
  <2>3. CASE ~FinRemove
    <3>1. table' = table
      BY <1>6, <2>3 DEF Working, SendEof, FinSub, QueueHandler, LockData, SendData, AckData, stack
    <3> QED
      BY <2>1, <3>1 DEF Tabled
  <2> QED
    BY <2>2, <2>3
<1>7. ASSUME NEW c \in Conns, Writer(c) PROVE Tabled'
  BY <1>7, TaskFrame DEF Writer, Receive, QueueWriter, LockWrite, Write, Tabled, relay, stack
<1>8. ASSUME NEW c \in Conns, Dispatch(c) PROVE Tabled'
  <2>1. UNCHANGED <<client, h>>
    BY <1>8, TaskFrame
  <2>3. \A d \in Conns : task'[d] = "none" <=> task[d] = "none"
    BY <1>8, DispatchFacts
  <2>4. \A k \in ConnKeys : table'[k] \in {table[k], None}
    BY <1>8, DispatchFacts
  <2> QED
    BY <1>k, <2>1, <2>3, <2>4, SMTT(30) DEF Tabled, TypeOK
<1>9. CASE UNCHANGED vars
  BY <1>9 DEF vars, Tabled, peer, stack, relay
<1> QED
  BY <1>1, <1>l, <1>2, <1>3, <1>4, <1>5, <1>6, <1>7, <1>8, <1>9 DEF Next, Handler, Packet, Working

\* Handler and writer hold the lock in turn.
LEMMA LockedStep == ASSUME IInv, [Next]_vars PROVE Locked'
<1> USE DEF IInv
<1>n. None \notin {"handler", "writer"}
  BY TunAssumption
<1>1. ASSUME NEW c \in Conns, ReadSyn(c) PROVE Locked'
  BY <1>1 DEF ReadSyn, Locked
<1>2. CASE Register
  BY <1>2, StepFacts DEF Register, Locked, HPcs
<1>3. CASE Count
  BY <1>3, DoneFacts DEF Count, Locked, TypeOK
<1>4. ASSUME NEW c \in Conns, ReadFin(c) PROVE Locked'
  BY <1>4 DEF ReadFin, Locked, Idle
<1>l. ASSUME NEW c \in Conns, LoseFin(c) PROVE Locked'
  BY <1>l DEF LoseFin, Locked
<1>5. ASSUME NEW c \in Conns, NEW i \in 1..Segs[c], ReadData(c, i) PROVE Locked'
  BY <1>5 DEF ReadData, Locked, Idle
<1>6. CASE SendEof
  BY <1>6, StepFacts DEF SendEof, Locked, HPcs
<1>7. CASE FinRemove \/ QueueHandler
  BY <1>7, StepFacts DEF FinRemove, QueueHandler, Locked, HPcs
<1>8. CASE FinSub
  BY <1>8, DoneFacts DEF FinSub, Locked
<1>9. CASE LockData
  <2>1. /\ h'.conn = h.conn /\ lock[h.conn] \in {None, "handler"}
        /\ h.pc \in {"lock", "queued"} /\ lock' = [lock EXCEPT ![h.conn] = "handler"]
        /\ UNCHANGED writer
    BY <1>9, StepFacts DEF LockData, HandlerLocks, HPcs
  <2>2. h.conn \in Conns
    BY <2>1 DEF Handling
  <2> QED
    BY <1>n, <2>1, <2>2 DEF Locked, TypeOK
<1>10. CASE SendData
  BY <1>10, StepFacts DEF SendData, Locked, HPcs
<1>11. CASE AckData
  <2>1. h.pc = "ack" /\ h'.pc = "idle" /\ writer' = writer
    BY <1>11, DoneFacts DEF AckData
  <2>2. h.conn \in Conns /\ lock[h.conn] = "handler"
    BY <2>1 DEF Handling, Locked
  <2>3. \A c \in Conns : c # h.conn => lock'[c] = lock[c]
    BY <1>11 DEF AckData, TypeOK
  <2> QED
    BY <2>1, <2>2, <2>3 DEF Locked
<1>12. ASSUME NEW c \in Conns, Writer(c) PROVE Locked'
  <2>1. h' = h
    BY <1>12, TaskFrame
  <2>2. CASE Receive(c) \/ QueueWriter(c)
    BY <2>1, <2>2 DEF Receive, QueueWriter, Locked, TypeOK
  <2>3. CASE LockWrite(c)
    <3>1. /\ lock[c] \in {None, "writer"} /\ lock' = [lock EXCEPT ![c] = "writer"]
          /\ writer' = [writer EXCEPT ![c] = "write"]
      BY <2>3 DEF LockWrite
    <3> QED
      BY <1>n, <2>1, <3>1 DEF Locked, TypeOK
  <2>4. CASE Write(c)
    <3>1. /\ lock[c] = "writer" /\ writer' = [writer EXCEPT ![c] = "recv"]
          /\ \A d \in Conns : d # c => lock'[d] = lock[d]
      BY <2>4 DEF Write, Locked, TypeOK
    <3> QED
      BY <2>1, <3>1 DEF Locked, TypeOK, Handling
  <2> QED
    BY <1>12, <2>2, <2>3, <2>4 DEF Writer
<1>13. ASSUME NEW c \in Conns, Dispatch(c) PROVE Locked'
  BY <1>13, TaskFrame, DispatchFacts DEF Locked
<1>14. CASE UNCHANGED vars
  BY <1>14 DEF vars, Locked
<1> QED
  BY <1>1, <1>2, <1>3, <1>4, <1>l, <1>5, <1>6, <1>7, <1>8, <1>9, <1>10, <1>11, <1>12, <1>13, <1>14
  DEF Next, Handler, Packet

\* A connection starts with nothing sent, received or acknowledged.
LEMMA OpenedStep == ASSUME IInv, [Next]_vars, NEW c \in Conns PROVE Opened(c)'
<1> USE DEF IInv
<1>1. ASSUME NEW d \in Conns, ReadSyn(d) PROVE Opened(c)'
  <2>1. /\ h.pc = "idle" /\ client' = [client EXCEPT ![d] = "open"] /\ client[d] = "none"
        /\ h' = [pc |-> "register", conn |-> d, seg |-> EOF]
        /\ UNCHANGED <<sent, acked, inq, ended, writer, task>>
    BY <1>1 DEF ReadSyn, relay, Idle
  <2> QED
    BY <2>1 DEF Opened, Fresh, TypeOK
<1>2. CASE Register
  BY <1>2, StepFacts DEF Register, Opened, Fresh, HPcs, peer, relay
<1>3. CASE Count
  <2>1. /\ h.pc = "count" /\ h'.pc = "idle" /\ UNCHANGED <<client, sent, acked, inq, ended>>
        /\ task' = [task EXCEPT ![h.conn] = "relay"] /\ writer' = [writer EXCEPT ![h.conn] = "recv"]
    BY <1>3, DoneFacts DEF Count, peer
  <2> QED
    BY <2>1 DEF Opened, Fresh, TypeOK, Handling
<1>4. ASSUME NEW d \in Conns, ReadFin(d) PROVE Opened(c)'
  <2>1. /\ task[d] # "none" /\ h.pc = "idle" /\ client[d] # "none"
        /\ \E to \in {"fin", "gone"} : client' = [client EXCEPT ![d] = to]
        /\ UNCHANGED <<sent, acked, inq, ended, writer, task>>
    BY <1>4, FoundFacts DEF ReadFin, relay, Idle
  <2> QED
    BY <2>1 DEF Opened, Fresh, TypeOK
<1>l. ASSUME NEW d \in Conns, LoseFin(d) PROVE Opened(c)'
  <2>1. /\ client[d] # "none" /\ client' = [client EXCEPT ![d] = "gone"]
        /\ UNCHANGED <<sent, acked, inq, ended, writer, task, h>>
    BY <1>l DEF LoseFin, relay
  <2> QED
    BY <2>1 DEF Opened, Fresh, TypeOK
<1>5. ASSUME NEW d \in Conns, NEW i \in 1..Segs[d], ReadData(d, i) PROVE Opened(c)'
  <2>1. /\ task[d] # "none" /\ h.pc = "idle"
        /\ \A e \in Conns : e # d => sent'[e] = sent[e]
        /\ UNCHANGED <<client, acked, inq, ended, writer, task>>
    BY <1>5, FoundFacts DEF ReadData, relay, Idle, TypeOK
  <2> QED
    BY <2>1 DEF Opened, Fresh, TypeOK
<1>6. CASE Working
  <2>1. UNCHANGED <<client, sent, ended, writer, task>>
    BY <1>6, WorkFrame DEF relay
  <2>2. task[h.conn] # "none" /\ h.conn \in Conns /\ h.pc \notin {"register", "count"}
    BY <1>6, WorkFacts
  <2>3. c # h.conn => inq'[c] = inq[c] /\ acked'[c] = acked[c]
    BY <1>6 DEF Working, SendEof, FinRemove, FinSub, QueueHandler, LockData, SendData, AckData,
                Acknowledge, TypeOK, Channels
  <2> QED
    BY <2>1, <2>2, <2>3 DEF Opened, Fresh
<1>7. ASSUME NEW d \in Conns, Writer(d) PROVE Opened(c)'
  <2>1. UNCHANGED <<client, sent, h, inq, ended, task>>
    BY <1>7, TaskFrame DEF Writer, Receive, QueueWriter, LockWrite, Write, relay
  <2>2. writer[d] # "none" /\ (c # d => writer'[c] = writer[c] /\ acked'[c] = acked[c])
    BY <1>7 DEF Writer, Receive, QueueWriter, LockWrite, Write, Acknowledge, TypeOK
  <2> QED
    BY <2>1, <2>2 DEF Opened, Fresh
<1>8. ASSUME NEW d \in Conns, Dispatch(d) PROVE Opened(c)'
  <2>1. UNCHANGED <<client, sent, h, acked, writer>> /\ task[d] # "none"
        /\ (task'[c] = "none" <=> task[c] = "none")
    BY <1>8, TaskFrame, DispatchFacts
  <2>2. c # d => inq'[c] = inq[c] /\ ended'[c] = ended[c]
    BY <1>8 DEF Dispatch, RelayUp, RelayDown, ToClient, RelayDownEof, RelayOver, Remove, Sub, TypeOK, Channels
  <2> QED
    BY <2>1, <2>2 DEF Opened, Fresh
<1>9. CASE UNCHANGED vars
  BY <1>9 DEF vars, Opened, Fresh, peer, relay
<1> QED
  BY <1>1, <1>l, <1>2, <1>3, <1>4, <1>5, <1>6, <1>7, <1>8, <1>9 DEF Next, Handler, Packet, Working

-----------------------------------------------------------------------------
(* Acknowledgements.                                                       *)

\* The numbers after a segment: they count it, or stay.
LEMMA AdvanceFacts ==
  ASSUME IInv, LockData
  PROVE  /\ h.conn \in Conns /\ h.seg \in 1..sent[h.conn]
         /\ \A c \in Conns : c # h.conn => Acked(c)' = Acked(c)
         /\ \A c \in Conns : c = h.conn => Acked(c)' \in {Acked(c), h.seg}
<1> USE DEF IInv
<1>1. h.pc \in {"lock", "queued"} /\ UNCHANGED isn
  BY StepFacts DEF LockData, HandlerLocks, HPcs, peer
<1>2. h.conn \in Conns /\ h.seg \in 1..sent[h.conn]
  BY <1>1 DEF Handling
<1>3. \A c \in Conns : c # h.conn => Acked(c)' = Acked(c)
  BY <1>1, <1>2 DEF LockData, Advance, Acked, TypeOK
<1>4. h.seg \in 0..SeqMod - 1
  BY DEF TypeOK
<1>5. SeqMod \in Nat \ {0} /\ isn[h.conn] \in 0..SeqMod - 1
  BY <1>2, NumberTypes
<1>6. ASSUME NEW c \in Conns, c = h.conn PROVE Acked(c)' \in {Acked(c), h.seg}
  <2>1. cnext'[c] \in {cnext[c], (isn[c] + h.seg + 1) % SeqMod}
    BY <1>6 DEF LockData, Advance, TypeOK
  <2>2. CASE cnext'[c] = cnext[c]
    BY <1>1, <2>2 DEF Acked
  <2>3. CASE cnext'[c] = (isn[c] + h.seg + 1) % SeqMod
    <3>1. (cnext'[c] - isn[c] - 1) % SeqMod = h.seg
      BY <1>4, <1>5, <1>6, <2>3, AckCounts
    <3> QED
      BY <1>1, <3>1 DEF Acked
  <2> QED
    BY <2>1, <2>2, <2>3
<1> QED
  BY <1>2, <1>3, <1>6

\* No more is acknowledged than the client has sent.
LEMMA NumberStep ==
  ASSUME IInv, [Next]_vars, NEW c \in Conns, client'[c] # "none"
  PROVE  Acked(c)' <= sent'[c]
<1> USE DEF IInv
<1>t. sent \in [Conns -> Nat] /\ sent[c] \in Nat /\ Acked(c) \in Nat
  BY AckedType DEF TypeOK
<1>1. ASSUME NEW d \in Conns, ReadSyn(d) PROVE Acked(c)' <= sent'[c]
  <2>1. UNCHANGED <<sent, isn>>
    BY <1>1 DEF ReadSyn
  <2>2. CASE c = d
    <3>1. cnext'[c] = (isn[c] + 0 + 1) % SeqMod
      <4>1. cnext'[c] = (isn[c] + 1) % SeqMod
        BY <1>1, <2>2 DEF ReadSyn, TypeOK
      <4> QED
        BY <4>1, NumberTypes
    <3>2. Acked(c)' = 0
      <4>1. SeqMod \in Nat \ {0} /\ isn[c] \in 0..SeqMod - 1 /\ 0 \in 0..SeqMod - 1
        BY NumberTypes
      <4>2. (cnext'[c] - isn[c] - 1) % SeqMod = 0
        BY <3>1, <4>1, AckCounts
      <4> QED
        BY <2>1, <4>2 DEF Acked
    <3> QED
      BY <1>t, <2>1, <3>2
  <2>3. CASE c # d
    <3>1. client[c] # "none" /\ cnext'[c] = cnext[c]
      BY <1>1, <2>3 DEF ReadSyn, TypeOK
    <3> QED
      BY <2>1, <3>1 DEF Acked
  <2> QED
    BY <2>2, <2>3
<1>2. CASE Register \/ Count
  <2>1. UNCHANGED <<client, sent, isn, cnext>>
    BY <1>2 DEF Register, Count, peer
  <2> QED
    BY <2>1 DEF Acked
<1>3. ASSUME NEW d \in Conns, ReadFin(d) \/ LoseFin(d) PROVE Acked(c)' <= sent'[c]
  <2>1. UNCHANGED <<sent, isn, cnext>> /\ client[c] # "none"
    BY <1>3 DEF ReadFin, LoseFin, TypeOK
  <2> QED
    BY <2>1 DEF Acked
<1>4. ASSUME NEW d \in Conns, NEW i \in 1..Segs[d], ReadData(d, i) PROVE Acked(c)' <= sent'[c]
  <2>1. UNCHANGED <<client, isn, cnext>>
    BY <1>4 DEF ReadData
  <2>2. sent'[c] \in Nat /\ sent[c] <= sent'[c]
    <3>1. i \in Nat
      BY TunAssumption
    <3> QED
      BY <1>4, <1>t, <3>1 DEF ReadData
  <2>3. Acked(c)' = Acked(c) /\ Acked(c) <= sent[c]
    BY <2>1 DEF Acked
  <2> QED
    BY <1>t, <2>2, <2>3
<1>5. CASE LockData
  <2>1. UNCHANGED <<client, sent>>
    BY <1>5 DEF LockData, peer
  <2>2. c # h.conn => Acked(c)' = Acked(c)
    BY <1>5, AdvanceFacts
  <2>3. c = h.conn => Acked(c)' \in {Acked(c), h.seg} /\ h.seg \in 1..sent[c]
    BY <1>5, AdvanceFacts
  <2>4. Acked(c) <= sent[c] /\ (h.seg \in 1..sent[c] => h.seg <= sent[c])
    BY <1>t, <2>1
  <2> QED
    BY <2>1, <2>2, <2>3, <2>4
<1>6. CASE SendEof \/ FinRemove \/ FinSub \/ QueueHandler \/ SendData \/ AckData
  <2>1. UNCHANGED <<client, sent, isn, cnext>>
    BY <1>6 DEF SendEof, FinRemove, FinSub, QueueHandler, SendData, AckData, peer
  <2> QED
    BY <2>1 DEF Acked
<1>7. ASSUME NEW d \in Conns, Writer(d) \/ Dispatch(d) PROVE Acked(c)' <= sent'[c]
  BY <1>7, TaskFrame DEF Acked
<1>8. CASE UNCHANGED vars
  BY <1>8 DEF vars, Acked, peer
<1> QED
  BY <1>1, <1>2, <1>3, <1>4, <1>5, <1>6, <1>7, <1>8 DEF Next, Handler, Packet

\* A step that neither queues a segment of a stream nor acknowledges one.
LEMMA CoveredFrame ==
  ASSUME NEW c \in Conns, Covered(c), InHand(c, {"send"}) \subseteq InHand(c, {"send"})',
         queued'[c] = queued[c], cnext'[c] = cnext[c], isn'[c] = isn[c], acked'[c] = acked[c]
  PROVE  Covered(c)'
<1>1. Acked(c)' = Acked(c)
  BY DEF Acked
<1> QED
  BY <1>1 DEF Covered

\* What is acknowledged is queued.
LEMMA CoveredStep ==
  ASSUME IInv, [Next]_vars, NEW c \in Conns, Streaming(c)'
  PROVE  Covered(c)'
<1> USE DEF IInv
<1>n. c # None
  BY TunAssumption
<1>1. ASSUME NEW d \in Conns, ReadSyn(d) PROVE Covered(c)'
  <2>1. h = Idle /\ UNCHANGED <<isn, acked, queued, task>> /\ task[d] = "none"
    BY <1>1 DEF ReadSyn, relay, Opened
  <2>2. Streaming(c) /\ c # d
    BY <2>1 DEF Streaming
  <2>3. cnext'[c] = cnext[c]
    BY <1>1, <2>2 DEF ReadSyn, TypeOK
  <2>4. InHand(c, {"send"}) = {}
    BY <2>1 DEF InHand, Idle
  <2> QED
    BY <2>1, <2>2, <2>3, <2>4, CoveredFrame
<1>2. CASE Register
  <2>1. h.pc = "register" /\ UNCHANGED <<isn, acked, cnext, queued, task>>
    BY <1>2, StepFacts DEF Register, HPcs, peer, relay
  <2>2. Streaming(c) /\ InHand(c, {"send"}) = {}
    BY <2>1 DEF Streaming, InHand
  <2> QED
    BY <2>1, <2>2, CoveredFrame
<1>3. CASE Count
  <2>1. /\ h.pc = "count" /\ task' = [task EXCEPT ![h.conn] = "relay"]
        /\ UNCHANGED <<sent, isn, acked, cnext, queued>>
    BY <1>3, DoneFacts DEF Count, peer
  <2>2. CASE c = h.conn
    <3>1. sent[c] = 0 /\ acked[c] = 0 /\ client[c] # "none"
      BY <2>1, <2>2 DEF Handling, Opened, Fresh
    <3>2. Acked(c) \in Nat /\ Acked(c) <= 0
      BY <3>1, AckedType
    <3>3. Acked(c)' = 0
      BY <2>1, <3>2 DEF Acked
    <3> QED
      BY <2>1, <3>1, <3>3 DEF Covered
  <2>3. CASE c # h.conn
    <3>1. Streaming(c) /\ InHand(c, {"send"}) = {}
      BY <2>1, <2>3 DEF Streaming, TypeOK, InHand
    <3> QED
      BY <2>1, <3>1, CoveredFrame
  <2> QED
    BY <2>2, <2>3
<1>4. ASSUME NEW d \in Conns, ReadFin(d) \/ LoseFin(d) \/ \E i \in 1..Segs[d] : ReadData(d, i)
      PROVE  Covered(c)'
  <2>1. (h = Idle \/ h' = h) /\ UNCHANGED <<isn, acked, queued, task, cnext>>
    BY <1>4 DEF ReadFin, LoseFin, ReadData, relay
  <2>2. Streaming(c) /\ InHand(c, {"send"}) \subseteq InHand(c, {"send"})'
    BY <2>1 DEF InHand, Idle, Streaming
  <2> QED
    BY <2>1, <2>2, CoveredFrame
<1>w. ASSUME Working PROVE Streaming(c) /\ Covered(c) /\ UNCHANGED <<sent, isn>>
  BY <1>w, WorkFrame DEF Streaming, relay
<1>6. CASE SendEof \/ FinRemove \/ FinSub \/ QueueHandler
  <2>1. h.pc # "send"
    BY <1>6, StepFacts, DoneFacts DEF SendEof, FinRemove, FinSub, QueueHandler, HPcs
  <2>2. UNCHANGED <<acked, queued, cnext>>
    BY <1>6 DEF SendEof, FinRemove, FinSub, QueueHandler
  <2>3. InHand(c, {"send"}) = {}
    BY <2>1 DEF InHand
  <2> QED
    BY <1>6, <1>w, <2>2, <2>3, CoveredFrame DEF Working
<1>8. CASE LockData
  <2>1. /\ h.pc \in {"lock", "queued"} /\ h'.pc = "send" /\ h'.conn = h.conn /\ h'.seg = h.seg
        /\ UNCHANGED <<acked, queued>> /\ Covered(c)
    BY <1>8, <1>w, StepFacts DEF LockData, HandlerLocks, HPcs, Working
  <2>2. InHand(c, {"send"}) = {} /\ (c = h.conn => InHand(c, {"send"})' = {h.seg})
    BY <2>1 DEF InHand
  <2>3. Acked(c)' = Acked(c) \/ (c = h.conn /\ Acked(c)' = h.seg)
    BY <1>8, AdvanceFacts
  <2> QED
    BY <2>1, <2>2, <2>3 DEF Covered
<1>9. CASE SendData
  <2>1. /\ h.pc = "send" /\ UNCHANGED <<acked, cnext>> /\ h.conn \in Conns
    BY <1>9, StepFacts DEF SendData, HPcs, Handling
  <2>2. Acked(c)' = Acked(c) /\ Streaming(c) /\ Covered(c)
    BY <1>9, <1>w, <2>1 DEF Working, Acked
  <2>3. queued'[c] = queued[c] \cup InHand(c, {"send"})
    BY <1>9, <2>1, <2>2 DEF SendData, TypeOK, InHand
  <2> QED
    BY <2>1, <2>2, <2>3 DEF Covered
<1>10. CASE AckData
  <2>1. h.pc = "ack" /\ h.conn \in Conns /\ UNCHANGED <<queued, cnext>>
    BY <1>10, DoneFacts DEF AckData, Handling
  <2>2. Acked(c)' = Acked(c) /\ Covered(c) /\ InHand(c, {"send"}) = {}
    BY <1>10, <1>w, <2>1 DEF Working, Acked, InHand
  <2>4. acked'[c] \in {acked[c], Acked(c)}
    BY <1>10, <2>1 DEF AckData, Acknowledge, TypeOK
  <2> QED
    BY <2>1, <2>2, <2>4 DEF Covered
<1>11. ASSUME NEW d \in Conns, Writer(d) PROVE Covered(c)'
  <2>1. UNCHANGED <<isn, h, cnext, queued, task>>
    BY <1>11, TaskFrame DEF Writer, Receive, QueueWriter, LockWrite, Write, relay
  <2>2. Acked(c)' = Acked(c) /\ Covered(c) /\ InHand(c, {"send"})' = InHand(c, {"send"})
    BY <2>1 DEF Acked, Streaming, InHand
  <2>3. CASE acked'[c] = acked[c]
    BY <2>1, <2>2, <2>3 DEF Covered
  <2>4. CASE acked'[c] # acked[c]
    <3>1. Write(d) /\ Acknowledge(d)
      BY <1>11, <2>4 DEF Writer, Receive, QueueWriter, LockWrite, Write
    <3>2. c = d /\ acked'[c] = Acked(c)
      BY <2>4, <3>1 DEF Acknowledge, TypeOK
    <3>3. lock[c] = "writer"
      BY <3>1, <3>2 DEF Write, Locked
    <3>4. InHand(c, {"send"}) = {}
      BY <3>3 DEF Locked, InHand
    <3> QED
      BY <2>1, <2>2, <3>2, <3>4 DEF Covered
  <2> QED
    BY <2>3, <2>4
<1>12. ASSUME NEW d \in Conns, Dispatch(d) PROVE Covered(c)'
  <2>1. UNCHANGED <<isn, h, cnext, queued, acked>> /\ Streaming(c)
    BY <1>12, TaskFrame, DispatchFacts
  <2>2. InHand(c, {"send"})' = InHand(c, {"send"})
    BY <2>1 DEF InHand
  <2> QED
    BY <2>1, <2>2, CoveredFrame
<1>13. CASE UNCHANGED vars
  BY <1>13 DEF vars, Covered, InHand, Acked, Streaming, peer, stack, relay
<1> QED
  BY <1>1, <1>2, <1>3, <1>4, <1>6, <1>8, <1>9, <1>10, <1>11, <1>12, <1>13
  DEF Next, Handler, Packet

-----------------------------------------------------------------------------
(* The end of file.                                                        *)

\* A step that leaves the channel to a stream alone.
LEMMA EndsFrame ==
  ASSUME NEW c, inq'[c] = inq[c], "client" \in ended'[c] <=> "client" \in ended[c]
  PROVE  Ends(c)' <=> Ends(c)
BY DEF Ends

\* A new connection has no end of file.
LEMMA FreshOpen == ASSUME NEW c, Fresh(c) PROVE ~Ends(c)
BY DEF Fresh, Ends

\* The channel of an open stream, and one chunk more.
LEMMA AppendEnds ==
  ASSUME NEW c \in Conns, Channels, Ended(c), ~Ends(c), ended' = ended,
         NEW x \in 0..SeqMod - 1, inq' = [inq EXCEPT ![c] = Append(@, x)]
  PROVE  /\ x # EOF => ~Ends(c)'
         /\ "client" \notin ended'[c]
         /\ \A n \in DOMAIN inq'[c] : inq'[c][n] = EOF => n = Len(inq'[c])
<1>1. inq[c] \in Seq(0..SeqMod - 1) /\ inq'[c] = Append(inq[c], x)
  BY DEF Channels
<1>2. "client" \notin ended'[c] /\ \A n \in DOMAIN inq[c] : inq[c][n] # EOF
  BY DEF Ends
<1>3. /\ Len(inq'[c]) = Len(inq[c]) + 1 /\ Len(inq[c]) \in Nat
      /\ DOMAIN inq'[c] = 1..Len(inq[c]) + 1 /\ DOMAIN inq[c] = 1..Len(inq[c])
      /\ inq'[c][Len(inq[c]) + 1] = x
      /\ \A n \in 1..Len(inq[c]) : inq'[c][n] = inq[c][n]
  BY <1>1
<1>4. ASSUME NEW n \in DOMAIN inq'[c], inq'[c][n] = EOF PROVE n = Len(inq'[c]) /\ x = EOF
  BY <1>2, <1>3, <1>4
<1> QED
  BY <1>2, <1>4 DEF Ends

\* Nothing comes behind an end of file.
LEMMA EndedStep == ASSUME IInv, [Next]_vars, NEW c \in Conns PROVE Ended(c)'
<1> USE DEF IInv
<1>n. c # None /\ Key[c] \in ConnKeys
  BY TunAssumption
<1>1. ASSUME NEW d \in Conns, ReadSyn(d) PROVE Ended(c)'
  <2>1. /\ h = Idle /\ h' = [pc |-> "register", conn |-> d, seg |-> EOF]
        /\ UNCHANGED <<table, inq, ended>> /\ task[d] = "none"
    BY <1>1 DEF ReadSyn, stack, relay, Opened
  <2>2. Ends(c)' <=> Ends(c)
    BY <2>1, EndsFrame
  <2>3. c = d => ~Ends(c)
    BY <2>1, FreshOpen DEF Opened
  <2> QED
    BY <1>n, <2>1, <2>2, <2>3 DEF Ended, Idle
<1>2. CASE Register
  <2>1. /\ h.pc = "register" /\ h'.pc = "count" /\ h'.conn = h.conn
        /\ table' = [table EXCEPT ![Key[h.conn]] = h.conn] /\ UNCHANGED <<inq, ended>>
    BY <1>2, StepFacts DEF Register, HPcs, relay
  <2>2. Ends(c)' <=> Ends(c)
    BY <2>1, EndsFrame
  <2>3. c = h.conn => ~Ends(c)
    BY <2>1, FreshOpen DEF Opened, Handling
  <2>4. c # h.conn => table'[Key[c]] \in {table[Key[c]], h.conn}
    BY <1>n, <2>1 DEF TypeOK
  <2> QED
    BY <2>1, <2>2, <2>3, <2>4 DEF Ended
<1>3. CASE Count
  <2>1. h.pc = "count" /\ h' = Idle /\ UNCHANGED <<inq, ended, table>>
    BY <1>3, DoneFacts DEF Count
  <2>2. Ends(c)' <=> Ends(c)
    BY <2>1, EndsFrame
  <2> QED
    BY <2>1, <2>2 DEF Ended, Idle
<1>4. ASSUME NEW d \in Conns,
             ReadFin(d) \/ \E i \in 1..Segs[d] : ReadData(d, i)
      PROVE  Ended(c)'
  <2>1. /\ h = Idle /\ UNCHANGED <<table, inq, ended>> /\ client[d] \in {"open", "fin"}
        /\ \/ h' = Idle
           \/ h'.conn = table[Key[d]] /\ table[Key[d]] # None /\ h'.pc \in {"eof", "lock"}
    BY <1>4 DEF ReadFin, ReadData, stack, relay
  <2>2. Ends(c)' <=> Ends(c)
    BY <2>1, EndsFrame
  <2>3. table[Key[d]] \in {None, d}
    BY <2>1, FoundFacts
  <2>4. Ends(c) => table[Key[c]] # c
    BY <2>1 DEF Ended, Idle
  <2> QED
    BY <1>n, <2>1, <2>2, <2>3, <2>4 DEF Ended, Idle
<1>l. ASSUME NEW d \in Conns, LoseFin(d) PROVE Ended(c)'
  <2>1. UNCHANGED <<h, table, inq, ended>>
    BY <1>l DEF LoseFin, stack, relay
  <2> QED
    BY <2>1 DEF Ended, Ends
<1>5. CASE SendEof
  <2>1. /\ h.pc = "eof" /\ h'.pc = "remove" /\ h'.conn = h.conn /\ h.conn \in Conns
        /\ UNCHANGED <<table, ended>>
    BY <1>5, StepFacts DEF SendEof, HPcs, Handling, stack, relay
  <2>2. CASE UNCHANGED inq
    <3>1. Ends(c)' <=> Ends(c)
      BY <2>1, <2>2, EndsFrame
    <3> QED
      BY <2>1, <2>2, <3>1 DEF Ended
  <2>3. CASE inq' = [inq EXCEPT ![h.conn] = Append(@, EOF)]
    <3>1. CASE c # h.conn
      <4>1. inq'[c] = inq[c]
        BY <2>3, <3>1 DEF Channels
      <4>2. Ends(c)' <=> Ends(c)
        BY <2>1, <4>1, EndsFrame
      <4> QED
        BY <2>1, <3>1, <4>1, <4>2 DEF Ended
    <3>2. CASE c = h.conn
      <4>1. ~Ends(c) /\ EOF \in 0..SeqMod - 1
        BY <2>1, <3>2, TunAssumption DEF Ended, EOF
      <4>2. /\ "client" \notin ended'[c]
            /\ \A n \in DOMAIN inq'[c] : inq'[c][n] = EOF => n = Len(inq'[c])
        BY <2>1, <2>3, <3>2, <4>1, AppendEnds
      <4> QED
        BY <2>1, <3>2, <4>2 DEF Ended
    <3> QED
      BY <3>1, <3>2
  <2> QED
    BY <1>5, <2>2, <2>3 DEF SendEof
<1>6. CASE FinRemove
  <2>1. /\ h.pc = "remove" /\ h'.pc = "sub" /\ h'.conn = h.conn
        /\ table' = [table EXCEPT ![Key[h.conn]] = None] /\ UNCHANGED <<inq, ended>>
    BY <1>6, StepFacts DEF FinRemove, HPcs, relay
  <2>2. Ends(c)' <=> Ends(c)
    BY <2>1, EndsFrame
  <2>3. table'[Key[c]] = c => c # h.conn /\ table[Key[c]] = c
    BY <1>n, <2>1 DEF TypeOK
  <2> QED
    BY <2>1, <2>2, <2>3 DEF Ended
<1>7. CASE FinSub \/ AckData
  <2>1. h.pc \in {"sub", "ack"} /\ h' = Idle /\ UNCHANGED <<inq, ended, table>>
    BY <1>7, DoneFacts DEF FinSub, AckData, stack, relay
  <2>2. Ends(c)' <=> Ends(c)
    BY <2>1, EndsFrame
  <2> QED
    BY <2>1, <2>2 DEF Ended, Idle
<1>8. CASE QueueHandler \/ LockData
  <2>1. /\ h.pc \in {"lock", "queued"} /\ h'.pc \in {"queued", "send"} /\ h'.conn = h.conn
        /\ UNCHANGED <<inq, ended, table>>
    BY <1>8, StepFacts DEF QueueHandler, LockData, HandlerLocks, HPcs, stack, relay
  <2>2. Ends(c)' <=> Ends(c)
    BY <2>1, EndsFrame
  <2> QED
    BY <2>1, <2>2 DEF Ended
<1>9. CASE SendData
  <2>1. /\ h.pc = "send" /\ h'.pc = "ack" /\ h'.conn = h.conn /\ h.conn \in Conns
        /\ UNCHANGED <<table, ended>> /\ h.seg \in 1..sent[h.conn]
    BY <1>9, StepFacts DEF SendData, HPcs, Handling, stack, relay
  <2>2. CASE UNCHANGED inq
    <3>1. Ends(c)' <=> Ends(c)
      BY <2>1, <2>2, EndsFrame
    <3> QED
      BY <2>1, <2>2, <3>1 DEF Ended
  <2>3. CASE inq' = [inq EXCEPT ![h.conn] = Append(@, h.seg)]
    <3>1. CASE c # h.conn
      <4>1. inq'[c] = inq[c]
        BY <2>3, <3>1 DEF Channels
      <4>2. Ends(c)' <=> Ends(c)
        BY <2>1, <4>1, EndsFrame
      <4> QED
        BY <2>1, <3>1, <4>1, <4>2 DEF Ended
    <3>2. CASE c = h.conn
      <4>1. ~Ends(c) /\ h.seg \in 0..SeqMod - 1
        BY <2>1, <3>2 DEF Ended, TypeOK
      <4>2. h.seg # EOF
        BY <2>1 DEF EOF, TypeOK
      <4>3. /\ ~Ends(c)' /\ "client" \notin ended'[c]
            /\ \A n \in DOMAIN inq'[c] : inq'[c][n] = EOF => n = Len(inq'[c])
        BY <2>1, <2>3, <3>2, <4>1, <4>2, AppendEnds
      <4> QED
        BY <4>3 DEF Ended
    <3> QED
      BY <3>1, <3>2
  <2> QED
    BY <1>9, <2>2, <2>3 DEF SendData
<1>10. ASSUME NEW d \in Conns, Writer(d) PROVE Ended(c)'
  <2>1. UNCHANGED <<h, inq, ended, table>>
    BY <1>10 DEF Writer, Receive, QueueWriter, LockWrite, Write, stack, relay
  <2>2. Ends(c)' <=> Ends(c)
    BY <2>1, EndsFrame
  <2> QED
    BY <2>1, <2>2 DEF Ended
<1>11. ASSUME NEW d \in Conns, RelayUp(d) PROVE Ended(c)'
  <2>1. UNCHANGED <<table, h>> /\ "client" \notin ended[d]
    BY <1>11 DEF RelayUp, stack
  <2>2. CASE c # d
    <3>1. inq'[c] = inq[c] /\ ended'[c] = ended[c]
      BY <1>11, <2>2 DEF RelayUp, TypeOK, Channels
    <3>2. Ends(c)' <=> Ends(c)
      BY <3>1, EndsFrame
    <3> QED
      BY <2>1, <3>1, <3>2 DEF Ended
  <2>3. CASE c = d /\ inq[c] = <<>>
    <3>1. inq'[c] = <<>> /\ table[Key[c]] # c /\ h.conn # c
      BY <1>11, <2>3 DEF RelayUp
    <3> QED
      BY <2>1, <3>1 DEF Ended
  <2>4. CASE c = d /\ inq[c] # <<>>
    <3>1. /\ inq'[c] = Tail(inq[c]) /\ inq[c] \in Seq(0..SeqMod - 1) /\ Len(inq[c]) <= Cap
          /\ Head(inq[c]) # EOF => ended'[c] = ended[c]
      BY <1>11, <2>4 DEF RelayUp, TypeOK, Channels
    <3>2. /\ Len(inq'[c]) = Len(inq[c]) - 1 /\ inq'[c] \in Seq(0..SeqMod - 1)
          /\ \A n \in DOMAIN inq'[c] : inq'[c][n] = inq[c][n + 1] /\ n + 1 \in DOMAIN inq[c]
      <4> DEFINE q == inq[c]
      <4>1. q \in Seq(0..SeqMod - 1) /\ q # <<>> /\ Len(q) <= Cap /\ inq'[c] = Tail(q)
        BY <2>4, <3>1
      <4> HIDE DEF q
      <4>2. /\ Tail(q) \in Seq(0..SeqMod - 1) /\ Len(Tail(q)) = Len(q) - 1
            /\ \A n \in DOMAIN Tail(q) : Tail(q)[n] = q[n + 1] /\ n + 1 \in DOMAIN q
        BY <4>1, TailFacts
      <4>3. /\ Len(inq'[c]) = Len(q) - 1 /\ inq'[c] \in Seq(0..SeqMod - 1)
            /\ \A n \in DOMAIN inq'[c] : inq'[c][n] = q[n + 1] /\ n + 1 \in DOMAIN q
        BY <4>1, <4>2
      <4> QED
        BY <4>3 DEF q
    <3>3. \A n \in DOMAIN inq'[c] : inq'[c][n] = EOF => n = Len(inq'[c])
      <4>1. ASSUME NEW n \in DOMAIN inq'[c], inq'[c][n] = EOF PROVE n = Len(inq'[c])
        <5>1. n + 1 = Len(inq[c]) /\ n \in Int
          BY <3>2, <4>1 DEF Ended
        <5> QED
          BY <3>2, <5>1
      <4> QED
        BY <4>1
    <3>4. 1 \in DOMAIN inq[c] /\ Head(inq[c]) = inq[c][1]
      BY <2>4, <3>1
    <3>5. CASE Head(inq[c]) = EOF
      <4>1. Ends(c) /\ Len(inq[c]) = 1
        BY <3>4, <3>5 DEF Ended, Ends
      <4>2. inq'[c] = <<>>
        BY <3>2, <4>1
      <4> QED
        BY <2>1, <3>3, <4>1, <4>2 DEF Ended
    <3>6. CASE Head(inq[c]) # EOF
      <4>1. Ends(c)' => Ends(c)
        BY <2>1, <2>4, <3>1, <3>2, <3>6 DEF Ends
      <4>2. "client" \notin ended'[c]
        BY <2>1, <2>4, <3>1, <3>6
      <4> QED
        BY <2>1, <3>3, <4>1, <4>2 DEF Ended
    <3> QED
      BY <3>5, <3>6
  <2> QED
    BY <2>2, <2>3, <2>4
<1>12. ASSUME NEW d \in Conns, Dispatch(d), ~RelayUp(d) PROVE Ended(c)'
  <2>1. UNCHANGED <<h, inq>> /\ table'[Key[c]] \in {table[Key[c]], None}
    BY <1>12, <1>n, DispatchFacts
    DEF Dispatch, RelayDown, ToClient, RelayDownEof, RelayOver, Remove, Sub
  <2>2. "client" \in ended'[c] <=> "client" \in ended[c]
    <3>1. ended' = ended \/ ended' = [ended EXCEPT ![d] = @ \cup {"remote"}]
      BY <1>12 DEF Dispatch, RelayDown, ToClient, RelayDownEof, RelayOver, Remove, Sub
    <3>2. ended'[c] = ended[c] \/ ended'[c] = ended[c] \cup {"remote"}
      BY <3>1 DEF TypeOK
    <3> QED
      BY <3>2
  <2>3. Ends(c)' <=> Ends(c)
    BY <2>1, <2>2, EndsFrame
  <2> QED
    BY <1>n, <2>1, <2>2, <2>3 DEF Ended
<1>13. CASE UNCHANGED vars
  BY <1>13 DEF vars, Ended, Ends, stack, relay
<1> QED
  BY <1>1, <1>2, <1>3, <1>4, <1>l, <1>5, <1>6, <1>7, <1>8, <1>9, <1>10, <1>11, <1>12, <1>13
  DEF Next, Handler, Packet, Dispatch

-----------------------------------------------------------------------------
(* The theorems.                                                           *)

LEMMA InitIInv == Init => IInv
<1> SUFFICES ASSUME Init PROVE IInv
  OBVIOUS
<1>1. 0 \in 0..SeqMod - 1 /\ 0 \in 0..Width - 1
  BY TunAssumption
<1>2. TypeOK
  <2>1. h \in [pc : {"idle", "register", "count", "eof", "remove", "sub", "lock", "queued", "send", "ack"},
               conn : Conns \cup {None}, seg : 0..SeqMod - 1]
    BY <1>1 DEF Init, Idle, EOF
  <2>2. \A c \in Conns : Segs[c] \in Nat /\ MaxDown[c] \in Nat /\ Cap \in Nat
    BY TunAssumption
  <2> QED
    BY <1>1, <2>1, <2>2 DEF Init, TypeOK
<1>3. Channels
  BY DEF Init, Channels
<1>4. Handling /\ Locked
  BY DEF Init, Handling, Locked, Idle
<1>5. Tabled
  BY TunAssumption DEF Init, Tabled
<1>6. ASSUME NEW c \in Conns
      PROVE  Opened(c) /\ client[c] = "none" /\ ~Streaming(c) /\ Ended(c)
  BY <1>6 DEF Init, Opened, Fresh, Streaming, Ended, Ends
<1> QED
  BY <1>2, <1>3, <1>4, <1>5, <1>6 DEF IInv

LEMMA NextIInv == ASSUME IInv, [Next]_vars PROVE IInv'
<1>1. (TypeOK /\ Channels)' /\ Handling' /\ Tabled' /\ Locked'
  BY TypeStep, HandlingStep, TabledStep, LockedStep
<1>2. ASSUME NEW c \in Conns
      PROVE  /\ Opened(c)' /\ Ended(c)'
             /\ client'[c] # "none" => Acked(c)' <= sent'[c]
             /\ Streaming(c)' => Covered(c)'
  BY OpenedStep, EndedStep, NumberStep, CoveredStep
<1> QED
  BY <1>1, <1>2 DEF IInv

\* The inductive invariant of the stack, for every number of connections,
\* keys, segments and chunks, and every size of channels and counters.
THEOREM Invariance == Spec => []IInv
<1>1. Init => IInv
  BY InitIInv
<1>2. IInv /\ [Next]_vars => IInv'
  BY NextIInv
<1> QED
  BY <1>1, <1>2, PTL DEF Spec

\* Types: among them, a client is never told of more than it has sent, the
\* channels keep their capacity and hold only what the client sent.
THEOREM TypeCorrect == Spec => []TypeOK
<1>1. IInv => TypeOK
  BY DEF IInv
<1> QED
  BY <1>1, Invariance, PTL

\* An acknowledgement of handle_tcp_packet, or one that the writer task's data
\* carries, ends at a segment that is in the stream's channel as long as there
\* is a stream, in whatever order segments arrive.
THEOREM Acks == Spec => []AckEndsQueued
<1>1. IInv => AckEndsQueued
  BY DEF IInv, AckEndsQueued, Covered
<1> QED
  BY <1>1, Invariance, PTL

\* The end of file that a FIN or RST puts into the stream's channel is final.
THEOREM EofFinal == Spec => []EofIsLast
<1>1. IInv => EofIsLast
  BY DEF IInv, EofIsLast, Ended
<1> QED
  BY <1>1, Invariance, PTL
=============================================================================
