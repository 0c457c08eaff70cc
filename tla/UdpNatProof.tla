---------------------------- MODULE UdpNatProof ----------------------------
(***************************************************************************)
(* Safety of the UDP NAT for any number of sessions, sources, outbounds,   *)
(* entries and ports.  The inductive invariant adds to the properties what *)
(* a task's local variables promise at each await.                         *)
(***************************************************************************)
EXTENDS UdpNat, TLAPS

\* e is an object in use, on a port opened for this source and its outbound.
Good(e, source) ==
  /\ e \in Entries
  /\ obj[e] \in NatEntry
  /\ OwnerOf(obj[e].t) = <<source, obj[e].tag>>

\* What the locals of a forward task hold, by the await it is in.
LocalsOK(s) ==
  /\ fwd[s].pc \notin {"off", "recv"} => fwd[s].d \in Dests
  /\ fwd[s].pc = "get_or_insert" =>
       fwd[s].t \in Transports /\ OwnerOf(fwd[s].t) = <<src[s], TagOf(s)>>
  /\ fwd[s].pc \in {"insert", "reverse", "source_map", "send"} =>
       Good(fwd[s].e, src[s])
  /\ fwd[s].pc \in {"insert", "reverse", "source_map"} => obj[fwd[s].e].age = 0
  /\ fwd[s].pc \in {"reverse", "source_map"} => entries[KeyOf(s)] = fwd[s].e

EntriesOK == \A k \in Keys : entries[k] # None => Good(entries[k], k[1])
SourcesOK == \A st \in SourceTags : source_map[st] # None => OwnerOf(source_map[st]) = st
RelaysOK == \A r \in relays : Good(r[2], src[r[1]])

\* A session that has not started has no cleanup task.
ClnOK == \A s \in Sessions : status[s] = "new" => cln[s].pc = "off"

IInv ==
  /\ TypeOK
  /\ ClnOK
  /\ \A s \in Sessions : LocalsOK(s)
  /\ EntriesOK
  /\ SourcesOK
  /\ RelaysOK
  /\ NoOrphanMappings

-----------------------------------------------------------------------------
\* Every handle a task or a map holds keeps its object in use (in the state a
\* step leads to): the objects Released blanks are the ones nothing refers to.
LEMMA LiveNext ==
  /\ \A k \in Keys : entries'[k] \in LiveEntries'
  /\ \A s \in Sessions : fwd'[s].e \in LiveEntries'
  /\ \A r \in relays' : r[2] \in LiveEntries'
BY DEF LiveEntries

\* The same in the state a step starts from: what is held is not free.
LEMMA LiveNow ==
  /\ \A k \in Keys : entries[k] \in LiveEntries
  /\ \A s \in Sessions : fwd[s].e \in LiveEntries
  /\ \A r \in relays : r[2] \in LiveEntries
BY DEF LiveEntries

\* Picking from a set that is not empty gives an element of it.
LEMMA PickIn == ASSUME NEW S, S # {} PROVE Pick(S) \in S
BY DEF Pick

\* The owner of a port is the client and the outbound it is named for.
LEMMA OwnerType == \A t \in Transports : OwnerOf(t) \in SourceTags
BY DEF OwnerOf, Transports, SourceTags

\* The flow and the outbound of a packet in hand have their types.
LEMMA PacketType ==
  ASSUME IInv, NEW s \in Sessions, fwd[s].pc \notin {"off", "recv"}
  PROVE  /\ fwd[s].d \in Dests
         /\ TagOf(s) \in Tags
         /\ KeyOf(s) \in Keys
         /\ <<src[s], TagOf(s)>> \in SourceTags
<1>1. fwd[s].d \in Dests
  BY DEF IInv, LocalsOK
<1>2. src[s] \in Sources /\ route[s] \in [Dests -> Tags]
  BY ConstantsAssumption DEF IInv, TypeOK
<1> QED
  BY <1>1, <1>2 DEF TagOf, KeyOf, Keys, SourceTags

\* A forward task that sets one of its locals and goes on is well typed.
LEMMA FwdType ==
  ASSUME TypeOK, NEW s \in Sessions, NEW f \in FwdTask, fwd' = [fwd EXCEPT ![s] = f]
  PROVE  fwd' \in [Sessions -> FwdTask]
BY DEF TypeOK

\* The record a forward task moves to has the type of a task.
LEMMA FwdMove ==
  ASSUME TypeOK, NEW s \in Sessions, NEW pc \in FwdPc,
         NEW t \in Transports \cup {None}, NEW e \in Entries \cup {None}
  PROVE  /\ [fwd[s] EXCEPT !.pc = pc] \in FwdTask
         /\ [fwd[s] EXCEPT !.pc = pc, !.t = t] \in FwdTask
         /\ [fwd[s] EXCEPT !.pc = pc, !.t = t, !.e = e] \in FwdTask
<1>1. fwd[s] \in FwdTask
  BY DEF TypeOK
<1> QED
  BY <1>1 DEF FwdTask

\* An entry object keeps its port and its outbound over a step.
Kept(e) ==
  /\ obj'[e].t = obj[e].t
  /\ obj'[e].tag = obj[e].tag
  /\ obj[e] \in NatEntry => obj'[e] \in NatEntry

\* A touch, and the release of the objects nothing refers to any more, keep
\* every object in use.
LEMMA TouchKeeps ==
  ASSUME TypeOK, NEW e \in Entries, obj[e] \in NatEntry
  PROVE  /\ Touched(e) \in [Entries -> NatEntry \cup {Blank}]
         /\ Touched(e)[e] = [obj[e] EXCEPT !.age = 0]
         /\ Touched(e)[e] \in NatEntry
         /\ \A x \in Entries : x # e => Touched(e)[x] = obj[x]
<1>1. [obj[e] EXCEPT !.age = 0] \in NatEntry
  BY ConstantsAssumption DEF NatEntry
<1> QED
  BY <1>1 DEF TypeOK, Touched

\* So over a step that only touches e, every object is kept and stays fresh.
LEMMA TouchedKept ==
  ASSUME TypeOK, NEW e \in Entries, obj[e] \in NatEntry, obj' = Touched(e)
  PROVE  /\ obj' \in [Entries -> NatEntry \cup {Blank}]
         /\ \A x \in Entries : Kept(x) /\ (obj[x].age = 0 => obj'[x].age = 0)
<1>1. obj[e] \in [t : Transports, tag : Tags, age : 0..(TTL + 1)]
  BY DEF NatEntry
<1>2. /\ obj'[e].t = obj[e].t
      /\ obj'[e].tag = obj[e].tag
      /\ obj'[e].age = 0
  BY TouchKeeps, <1>1
<1> QED
  BY TouchKeeps, <1>2 DEF Kept

\* A release keeps, unchanged, every object something still refers to.
LEMMA ReleasedKept ==
  ASSUME TypeOK, obj' = Released(obj)
  PROVE  /\ obj' \in [Entries -> NatEntry \cup {Blank}]
         /\ \A x \in Entries \cap LiveEntries' : Kept(x) /\ obj'[x] = obj[x]
BY DEF TypeOK, Released, Kept

\* A step that leaves the objects alone keeps them all.
LEMMA SameKept ==
  ASSUME TypeOK, obj' = obj
  PROVE  \A x \in Entries : Kept(x) /\ obj'[x] = obj[x]
BY DEF Kept

\* What a kept object was good for it stays good for.
LEMMA GoodKept ==
  ASSUME NEW e, NEW x, Good(e, x), Kept(e)
  PROVE  Good(e, x)'
BY DEF Good, Kept

\* A step that leaves the maps, the cleanups in progress and the outbound of
\* the tabled entries alone orphans nothing.
LEMMA OrphanFrame ==
  ASSUME IInv,
         UNCHANGED <<entries, reverse, source_map>>,
         \A q \in Sessions : cln[q].pc \in {"reverse", "sources"} => cln'[q] = cln[q],
         \A k \in Keys : entries[k] # None => Kept(entries[k])
  PROVE  NoOrphanMappings'
<1>1. \A st \in SourceTags : HasActive(st) => HasActive(st)'
  BY DEF HasActive, Kept
<1>2. \A st \in SourceTags : BackedSource(st) => BackedSource(st)'
  BY <1>1 DEF BackedSource
<1>3. \A x \in reverse : BackedReverse(x) => BackedReverse(x)'
  BY DEF BackedReverse
<1> QED
  BY <1>2, <1>3 DEF IInv, NoOrphanMappings

\* A step that leaves the maps and the relays alone and keeps the objects in
\* use keeps what the maps and the relays hold good.
LEMMA MapsFrame ==
  ASSUME IInv, UNCHANGED <<src, entries, source_map>>, relays' \subseteq relays,
         \A k \in Keys : entries[k] # None => Kept(entries[k]),
         \A r \in relays' : Kept(r[2])
  PROVE  (EntriesOK /\ SourcesOK /\ RelaysOK)'
<1>1. EntriesOK'
  BY GoodKept DEF IInv, EntriesOK
<1>2. SourcesOK'
  BY DEF IInv, SourcesOK
<1>3. RelaysOK'
  BY GoodKept DEF IInv, RelaysOK
<1> QED
  BY <1>1, <1>2, <1>3

\* The locals of a task that does not move stay as they were promised, when
\* its object is kept, still fresh, and still in the table where it was.
LEMMA LocalsFrame ==
  ASSUME IInv, UNCHANGED <<src, route>>, NEW q \in Sessions, fwd'[q] = fwd[q],
         fwd[q].pc \in {"insert", "reverse", "source_map", "send"} => Kept(fwd[q].e),
         fwd[q].pc \in {"insert", "reverse", "source_map"} =>
           (obj[fwd[q].e].age = 0 => obj'[fwd[q].e].age = 0),
         fwd[q].pc \in {"reverse", "source_map"} =>
           entries'[KeyOf(q)] = entries[KeyOf(q)]
  PROVE  LocalsOK(q)'
<1>1. LocalsOK(q)
  BY DEF IInv
<1>2. KeyOf(q)' = KeyOf(q) /\ TagOf(q)' = TagOf(q)
  BY DEF KeyOf, TagOf
<1>3. fwd[q].pc \in {"insert", "reverse", "source_map", "send"} =>
        Good(fwd[q].e, src[q])'
  BY <1>1, GoodKept DEF LocalsOK
<1> QED
  BY <1>1, <1>2, <1>3 DEF LocalsOK

\* Before the first session there is nothing that could break the invariant.
LEMMA InitIInv == Init => IInv
<1> SUFFICES ASSUME Init PROVE IInv
  OBVIOUS
<1> USE ConstantsAssumption
<1>1. TypeOK
  BY DEF Init, TypeOK, Idle, ClnIdle, FwdTask, ClnTask, FwdPc, ClnPc, Blank
<1>2. \A s \in Sessions : LocalsOK(s)
  BY DEF Init, LocalsOK, Idle
<1>3. EntriesOK /\ SourcesOK /\ RelaysOK
  BY DEF Init, EntriesOK, SourcesOK, RelaysOK
<1>4. NoOrphanMappings
  BY DEF Init, NoOrphanMappings
<1>5. ClnOK
  BY DEF Init, ClnOK, ClnIdle
<1> QED
  BY <1>1, <1>2, <1>3, <1>4, <1>5 DEF IInv
-----------------------------------------------------------------------------
(* One lemma per action: the step keeps the invariant.                     *)

\* The handles that maps, relays and forward tasks hold are entry names.
LEMMA HandleType ==
  ASSUME IInv
  PROVE  /\ TypeOK
         /\ \A k \in Keys : entries[k] # None => entries[k] \in Entries
         /\ \A q \in Sessions :
              fwd[q].pc \in {"insert", "reverse", "source_map", "send"} =>
                fwd[q].e \in Entries /\ fwd[q].e # None
         /\ \A r \in relays : r[1] \in Sessions /\ r[2] \in Entries
<1>1. TypeOK
  BY DEF IInv
<1>2. \A q \in Sessions :
        fwd[q].pc \in {"insert", "reverse", "source_map", "send"} =>
          fwd[q].e \in Entries /\ fwd[q].e # None
  BY ConstantsAssumption DEF IInv, LocalsOK, Good
<1> QED
  BY <1>1, <1>2 DEF TypeOK

\* A step that leaves the maps alone, may end tasks, and may release or touch
\* objects, keeps the invariant: what a task still holds is still in use.
LEMMA HandlesFrame ==
  ASSUME IInv, UNCHANGED <<src, route, entries, reverse, source_map>>,
         status' \in [Sessions -> {"new", "open", "closed"}],
         fwd' \in [Sessions -> FwdTask],
         cln' \in [Sessions -> ClnTask],
         obj' \in [Entries -> NatEntry \cup {Blank}],
         relays' \subseteq relays,
         \A x \in Entries \cap LiveEntries' : Kept(x),
         \A q \in Sessions :
           \/ fwd'[q].pc \in {"off", "recv"}
           \/ /\ fwd'[q] = fwd[q]
              /\ fwd[q].pc \in {"insert", "reverse", "source_map"} =>
                   (obj[fwd[q].e].age = 0 => obj'[fwd[q].e].age = 0),
         \A q \in Sessions : cln[q].pc \in {"reverse", "sources"} => cln'[q] = cln[q],
         ClnOK'
  PROVE  IInv'
<1>1. TypeOK'
  BY HandleType DEF TypeOK
<1>2. ASSUME NEW q \in Sessions PROVE LocalsOK(q)'
  <2>1. CASE fwd'[q].pc \in {"off", "recv"}
    BY <2>1 DEF LocalsOK
  <2>2. CASE ~(fwd'[q].pc \in {"off", "recv"})
    <3>1. fwd'[q] = fwd[q]
      BY <2>2
    <3>2. fwd[q].pc \in {"insert", "reverse", "source_map", "send"} => Kept(fwd[q].e)
      BY <3>1, HandleType, LiveNext
    <3> QED
      BY <2>2, <3>1, <3>2, LocalsFrame
  <2> QED
    BY <2>1, <2>2
<1>3. \A k \in Keys : entries[k] # None => Kept(entries[k])
  BY HandleType, LiveNext
<1>4. \A r \in relays' : Kept(r[2])
  BY HandleType, LiveNext
<1>5. (EntriesOK /\ SourcesOK /\ RelaysOK)'
  BY <1>3, <1>4, MapsFrame
<1>6. NoOrphanMappings'
  BY <1>3, OrphanFrame
<1> QED
  BY <1>1, <1>2, <1>5, <1>6 DEF IInv

\* A session starts: no task of it held anything before.
LEMMA OpenStep ==
  ASSUME IInv, NEW s \in Sessions, Open(s) PROVE IInv'
<1>0. TypeOK /\ \A x \in Entries : Kept(x) /\ obj'[x] = obj[x]
  BY HandleType, SameKept DEF Open
<1>u. UNCHANGED <<src, route, relays, entries, reverse, source_map, obj>>
  BY DEF Open
<1>1. status' \in [Sessions -> {"new", "open", "closed"}] /\ status'[s] = "open"
  BY <1>0 DEF Open, TypeOK
<1>2. /\ fwd' \in [Sessions -> FwdTask]
      /\ fwd'[s].pc = "recv"
      /\ \A q \in Sessions : q # s => fwd'[q] = fwd[q]
  BY <1>0 DEF Open, TypeOK, Idle, FwdTask, FwdPc
<1>3. /\ cln' \in [Sessions -> ClnTask]
      /\ \A q \in Sessions : q # s => cln'[q] = cln[q]
      /\ cln[s].pc = "off"
  BY <1>0 DEF Open, TypeOK, ClnIdle, ClnTask, ClnPc, IInv, ClnOK
<1>4. ClnOK'
  BY <1>0, <1>1, <1>3 DEF Open, TypeOK, IInv, ClnOK
<1>5. \A q \in Sessions : fwd[q].pc \in {"insert", "reverse", "source_map"} =>
        obj'[fwd[q].e] = obj[fwd[q].e]
  BY <1>u
<1> QED
  BY <1>0, <1>u, <1>1, <1>2, <1>3, <1>4, <1>5, HandlesFrame DEF TypeOK

\* A packet that cannot be sent on, and a session whose inbound fails, leave
\* a forward task without a packet.
LEMMA GiveUpStep ==
  ASSUME IInv, NEW s \in Sessions, ConnectFails(s) \/ RecvFails(s) PROVE IInv'
<1>0. TypeOK /\ \A x \in Entries : Kept(x) /\ obj'[x] = obj[x]
  BY HandleType, SameKept DEF ConnectFails, RecvFails
<1>u. UNCHANGED <<status, src, route, cln, relays, entries, reverse, source_map, obj>>
  BY DEF ConnectFails, RecvFails
<1>1. PICK p \in {"recv", "off"} : fwd' = [fwd EXCEPT ![s] = Idle(p)]
  BY DEF ConnectFails, RecvFails
<1>2. /\ fwd' \in [Sessions -> FwdTask]
      /\ fwd'[s].pc \in {"off", "recv"}
      /\ \A q \in Sessions : q # s => fwd'[q] = fwd[q]
  BY <1>0, <1>1 DEF TypeOK, Idle, FwdTask, FwdPc
<1>3. ClnOK'
  BY <1>u DEF IInv, ClnOK
<1>4. \A q \in Sessions : obj'[fwd[q].e] = obj[fwd[q].e]
  BY <1>u
<1> QED
  BY <1>0, <1>u, <1>2, <1>3, <1>4, HandlesFrame DEF TypeOK

\* A port taken from the source map belongs to the packet's source and outbound.
LEMMA GetTransportForSourceStep ==
  ASSUME IInv, NEW s \in Sessions, GetTransportForSource(s) PROVE IInv'
<1>0. TypeOK /\ obj' = obj /\ \A x \in Entries : Kept(x) /\ obj'[x] = obj[x]
  BY SameKept DEF IInv, GetTransportForSource
<1>a. \A k \in Keys : entries[k] # None => entries[k] \in Entries
  BY <1>0 DEF TypeOK
<1>p. /\ fwd[s].d \in Dests
      /\ <<src[s], TagOf(s)>> \in SourceTags
      /\ source_map[<<src[s], TagOf(s)>>] \in Transports \cup {None}
  BY <1>0, PacketType DEF GetTransportForSource, TypeOK
<1>q. LET t == source_map[<<src[s], TagOf(s)>>] IN
        t # None => OwnerOf(t) = <<src[s], TagOf(s)>>
  BY <1>p DEF IInv, SourcesOK
<1>f. fwd' \in [Sessions -> FwdTask]
  <2> DEFINE t == source_map[<<src[s], TagOf(s)>>]
             p == IF t = None THEN "connect" ELSE "get_or_insert"
  <2>1. p \in FwdPc /\ t \in Transports \cup {None}
    BY <1>p DEF FwdPc
  <2>2. fwd' = [fwd EXCEPT ![s] = [fwd[s] EXCEPT !.pc = p, !.t = t]]
    BY DEF GetTransportForSource
  <2> HIDE DEF p, t
  <2> QED
    BY <1>0, <2>1, <2>2, FwdMove, FwdType
<1>1. TypeOK'
  BY <1>0, <1>f, ConstantsAssumption DEF GetTransportForSource, TypeOK, ClnTask, ClnPc
<1>2. ASSUME NEW q \in Sessions PROVE LocalsOK(q)'
  <2>1. CASE q = s
    BY <1>0, <2>1, <1>p, <1>q DEF GetTransportForSource, TypeOK, LocalsOK, TagOf, IInv, SourcesOK
  <2>2. CASE q # s
    <3>1. fwd'[q] = fwd[q]
      BY <1>0, <2>2 DEF GetTransportForSource, TypeOK
    <3>2. fwd[q].pc \in {"insert", "reverse", "source_map", "send"} => fwd[q].e \in Entries
      BY DEF IInv, LocalsOK, Good
    <3> QED
      BY <1>0, <3>1, <3>2, LocalsFrame DEF GetTransportForSource
  <2> QED
    BY <2>1, <2>2
<1>3. (EntriesOK /\ SourcesOK /\ RelaysOK)'
  BY <1>0, <1>a, MapsFrame DEF GetTransportForSource, TypeOK
<1>4. NoOrphanMappings'
  BY <1>0, <1>a, OrphanFrame DEF GetTransportForSource, TypeOK
<1>5. ClnOK'
  BY <1>0 DEF GetTransportForSource, TypeOK, IInv, ClnOK, ClnIdle
<1> QED
  BY <1>1, <1>2, <1>3, <1>4, <1>5 DEF IInv

\* So does a port connect_udp has just opened.
LEMMA ConnectUdpStep ==
  ASSUME IInv, NEW s \in Sessions, ConnectUdp(s) PROVE IInv'
<1>0. TypeOK /\ obj' = obj /\ \A x \in Entries : Kept(x) /\ obj'[x] = obj[x]
  BY SameKept DEF IInv, ConnectUdp
<1>a. \A k \in Keys : entries[k] # None => entries[k] \in Entries
  BY <1>0 DEF TypeOK
<1> DEFINE F == FreeTransports(<<src[s], TagOf(s)>>)
<1>p. fwd[s].d \in Dests
  BY PacketType DEF ConnectUdp
<1>q. Pick(F) \in Transports /\ OwnerOf(Pick(F)) = <<src[s], TagOf(s)>>
  <2>1. F # {}
    BY DEF ConnectUdp
  <2>2. Pick(F) \in F
    BY <2>1, PickIn
  <2> QED
    BY <2>2 DEF FreeTransports
<1>r. fwd' = [fwd EXCEPT ![s] = [@ EXCEPT !.pc = "get_or_insert", !.t = Pick(F)]]
  BY DEF ConnectUdp
<1> HIDE DEF F
<1>f. fwd' \in [Sessions -> FwdTask]
  <2>1. "get_or_insert" \in FwdPc
    BY DEF FwdPc
  <2> QED
    BY <1>0, <1>q, <1>r, <2>1, FwdMove, FwdType
<1>1. TypeOK'
  BY <1>0, <1>f, ConstantsAssumption DEF ConnectUdp, TypeOK, ClnTask, ClnPc
<1>2. ASSUME NEW q \in Sessions PROVE LocalsOK(q)'
  <2>1. CASE q = s
    <3>1. fwd'[s].pc = "get_or_insert" /\ fwd'[s].d = fwd[s].d /\ fwd'[s].t = Pick(F)
      BY <1>0, <1>q, <1>r DEF TypeOK, FwdTask
    <3>2. src' = src /\ route' = route
      BY DEF ConnectUdp
    <3>3. TagOf(s)' = TagOf(s)
      BY <3>1, <3>2 DEF TagOf
    <3> QED
      BY <2>1, <1>p, <1>q, <3>1, <3>2, <3>3 DEF LocalsOK
  <2>2. CASE q # s
    <3>1. fwd'[q] = fwd[q]
      BY <1>0, <2>2 DEF ConnectUdp, TypeOK
    <3>2. fwd[q].pc \in {"insert", "reverse", "source_map", "send"} => fwd[q].e \in Entries
      BY DEF IInv, LocalsOK, Good
    <3> QED
      BY <1>0, <3>1, <3>2, LocalsFrame DEF ConnectUdp
  <2> QED
    BY <2>1, <2>2
<1>3. (EntriesOK /\ SourcesOK /\ RelaysOK)'
  BY <1>0, <1>a, MapsFrame DEF ConnectUdp, TypeOK
<1>4. NoOrphanMappings'
  BY <1>0, <1>a, OrphanFrame DEF ConnectUdp, TypeOK
<1>5. ClnOK'
  BY <1>0 DEF ConnectUdp, TypeOK, IInv, ClnOK, ClnIdle
<1> QED
  BY <1>1, <1>2, <1>3, <1>4, <1>5 DEF IInv

\* Tabling a new entry: the flow had none, so no other task's entry is displaced.
LEMMA InsertStep ==
  ASSUME IInv, NEW s \in Sessions, Insert(s) PROVE IInv'
<1>0. TypeOK /\ obj' = obj /\ \A x \in Entries : Kept(x) /\ obj'[x] = obj[x]
  BY SameKept DEF IInv, Insert
<1>k. /\ fwd[s].d \in Dests /\ KeyOf(s) \in Keys /\ KeyOf(s)[1] = src[s]
      /\ fwd[s].e \in Entries /\ fwd[s].e # None
      /\ Good(fwd[s].e, src[s]) /\ obj[fwd[s].e].age = 0
  BY PacketType, HandleType DEF Insert, KeyOf, IInv, LocalsOK
<1>u. UNCHANGED <<status, src, route, cln, relays, reverse, source_map, obj>>
  BY DEF Insert
<1>m. PICK p \in {"send", "reverse"} : fwd' = [fwd EXCEPT ![s].pc = p]
  BY DEF Insert
<1>n. /\ fwd'[s].pc = p /\ fwd'[s].d = fwd[s].d /\ fwd'[s].e = fwd[s].e
      /\ KeyOf(s)' = KeyOf(s)
      /\ \A q \in Sessions : q # s => fwd'[q] = fwd[q]
  BY <1>0, <1>m, <1>u DEF TypeOK, FwdTask, KeyOf
<1>e. /\ entries' \in [Keys -> Entries \cup {None}]
      /\ \A k \in Keys : entries[k] # None => entries'[k] = entries[k]
      /\ \A k \in Keys : entries'[k] # entries[k] => k = KeyOf(s) /\ entries'[k] = fwd[s].e
      /\ p = "reverse" => entries'[KeyOf(s)] = fwd[s].e
  <2>1. CASE entries[KeyOf(s)] # None
    <3>1. entries' = entries /\ fwd' = [fwd EXCEPT ![s].pc = "send"]
      BY <2>1 DEF Insert
    <3>2. p = "send"
      BY <3>1, <1>n, <1>0 DEF TypeOK, FwdTask
    <3> QED
      BY <3>1, <3>2, <1>0 DEF TypeOK
  <2>2. CASE entries[KeyOf(s)] = None
    <3>1. entries' = [entries EXCEPT ![KeyOf(s)] = fwd[s].e]
      BY <2>2 DEF Insert
    <3> QED
      BY <3>1, <2>2, <1>0, <1>k DEF TypeOK
  <2> QED
    BY <2>1, <2>2
<1>1. TypeOK'
  <2>1. fwd' \in [Sessions -> FwdTask]
    BY <1>0, <1>m DEF TypeOK, FwdTask, FwdPc
  <2> QED
    BY <1>0, <1>u, <1>e, <2>1 DEF TypeOK
<1>2. ASSUME NEW q \in Sessions PROVE LocalsOK(q)'
  <2>1. CASE q = s
    <3>1. Good(fwd[s].e, src[s])'
      BY <1>0, <1>k, <1>n, <1>u, GoodKept
    <3> QED
      BY <2>1, <3>1, <1>k, <1>n, <1>u, <1>e DEF LocalsOK
  <2>2. CASE q # s
    <3>1. fwd[q].pc \in {"reverse", "source_map"} =>
            entries'[KeyOf(q)] = entries[KeyOf(q)]
      BY <1>e, HandleType, PacketType DEF IInv, LocalsOK
    <3> QED
      BY <1>0, <1>u, <1>n, <2>2, <3>1, HandleType, LocalsFrame
  <2> QED
    BY <2>1, <2>2
<1>3. (EntriesOK /\ SourcesOK /\ RelaysOK)'
  <2>1. EntriesOK'
    <3> SUFFICES ASSUME NEW k \in Keys, entries'[k] # None PROVE Good(entries[k], k[1])'
      BY DEF EntriesOK
    <3>1. CASE entries'[k] = entries[k]
      BY <3>1, <1>0, HandleType, GoodKept DEF IInv, EntriesOK
    <3>2. CASE entries'[k] # entries[k]
      BY <3>2, <1>e, <1>k, <1>0, GoodKept
    <3> QED
      BY <3>1, <3>2
  <2>2. SourcesOK'
    BY <1>u DEF IInv, SourcesOK
  <2>3. RelaysOK'
    BY <1>u, <1>0, HandleType, GoodKept DEF IInv, RelaysOK
  <2> QED
    BY <2>1, <2>2, <2>3
<1>4. NoOrphanMappings'
  <2>1. \A st \in SourceTags : HasActive(st) => HasActive(st)'
    BY <1>e, <1>u DEF HasActive
  <2>2. \A st \in SourceTags : BackedSource(st) => BackedSource(st)'
    BY <2>1, <1>u DEF BackedSource
  <2>3. \A x \in reverse : BackedReverse(x) => BackedReverse(x)'
    BY <1>e, <1>u, <1>0 DEF BackedReverse, TypeOK
  <2> QED
    BY <2>2, <2>3, <1>u DEF IInv, NoOrphanMappings
<1>5. ClnOK'
  BY <1>u DEF IInv, ClnOK
<1> QED
  BY <1>1, <1>2, <1>3, <1>4, <1>5 DEF IInv

\* The reverse mapping it adds is backed by the entry tabled one step before.
LEMMA InsertReverseStep ==
  ASSUME IInv, NEW s \in Sessions, InsertReverse(s) PROVE IInv'
<1>0. TypeOK /\ obj' = obj /\ \A x \in Entries : Kept(x) /\ obj'[x] = obj[x]
  BY SameKept DEF IInv, InsertReverse
<1>k. /\ fwd[s].d \in Dests /\ KeyOf(s) \in Keys
      /\ fwd[s].e \in Entries /\ fwd[s].e # None
      /\ Good(fwd[s].e, src[s]) /\ obj[fwd[s].e].age = 0
      /\ obj[fwd[s].e].tag \in Tags
      /\ entries[KeyOf(s)] = fwd[s].e
  BY PacketType, HandleType DEF InsertReverse, IInv, LocalsOK, Good, NatEntry
<1>u. UNCHANGED <<status, src, route, cln, relays, entries, source_map, obj>>
  BY DEF InsertReverse
<1>n. /\ fwd'[s].pc = "source_map" /\ fwd'[s].d = fwd[s].d /\ fwd'[s].e = fwd[s].e
      /\ KeyOf(s)' = KeyOf(s)
      /\ \A q \in Sessions : q # s => fwd'[q] = fwd[q]
  BY <1>0, <1>u DEF InsertReverse, TypeOK, FwdTask, KeyOf
<1>1. TypeOK'
  <2>1. fwd' \in [Sessions -> FwdTask]
    BY <1>0, SMTT(30) DEF InsertReverse, TypeOK, FwdTask, FwdPc
  <2>2. reverse' \subseteq Tags \X Keys
    BY <1>0, <1>k DEF InsertReverse, TypeOK
  <2> QED
    BY <1>0, <1>u, <2>1, <2>2 DEF TypeOK
<1>2. ASSUME NEW q \in Sessions PROVE LocalsOK(q)'
  <2>1. CASE q = s
    <3>1. Good(fwd[s].e, src[s])'
      BY <1>0, <1>k, <1>n, <1>u, GoodKept
    <3> QED
      BY <2>1, <3>1, <1>k, <1>n, <1>u DEF LocalsOK
  <2>2. CASE q # s
    BY <1>0, <1>u, <1>n, <2>2, HandleType, LocalsFrame
  <2> QED
    BY <2>1, <2>2
<1>3. (EntriesOK /\ SourcesOK /\ RelaysOK)'
  BY <1>0, <1>u, HandleType, MapsFrame
<1>4. NoOrphanMappings'
  <2>1. \A st \in SourceTags : BackedSource(st) => BackedSource(st)'
    BY <1>u DEF BackedSource, HasActive
  <2>2. \A x \in reverse' : BackedReverse(x)'
    BY <1>k, <1>u DEF InsertReverse, BackedReverse, IInv, NoOrphanMappings
  <2> QED
    BY <2>1, <2>2, <1>u DEF IInv, NoOrphanMappings
<1>5. ClnOK'
  BY <1>u DEF IInv, ClnOK
<1> QED
  BY <1>1, <1>2, <1>3, <1>4, <1>5 DEF IInv

\* So is the source mapping; the relay it spawns reads a port of the session's source.
LEMMA InsertSourceStep ==
  ASSUME IInv, NEW s \in Sessions, InsertSource(s) PROVE IInv'
<1>0. TypeOK /\ obj' = obj /\ \A x \in Entries : Kept(x) /\ obj'[x] = obj[x]
  BY SameKept DEF IInv, InsertSource
<1> DEFINE e == fwd[s].e
           st0 == <<src[s], obj[e].tag>>
<1>k. /\ fwd[s].d \in Dests /\ KeyOf(s) \in Keys /\ KeyOf(s)[1] = src[s]
      /\ e \in Entries /\ e # None
      /\ Good(e, src[s])
      /\ obj[e].t \in Transports /\ OwnerOf(obj[e].t) = st0
      /\ st0 \in SourceTags
      /\ entries[KeyOf(s)] = e
  <2>1. fwd[s].pc = "source_map"
    BY DEF InsertSource
  <2>2. Good(e, src[s]) /\ entries[KeyOf(s)] = e /\ KeyOf(s) \in Keys
    BY <2>1, PacketType DEF IInv, LocalsOK
  <2>3. src[s] \in Sources /\ obj[e].tag \in Tags /\ obj[e].t \in Transports
    BY <1>0, <2>2 DEF TypeOK, Good, NatEntry
  <2> QED
    BY <2>1, <2>2, <2>3, PacketType, HandleType DEF Good, KeyOf, SourceTags
<1>u. UNCHANGED <<status, src, route, cln, entries, reverse, obj>>
  BY DEF InsertSource
<1>n. /\ fwd'[s].pc = "send" /\ fwd'[s].d = fwd[s].d /\ fwd'[s].e = e
      /\ \A q \in Sessions : q # s => fwd'[q] = fwd[q]
      /\ fwd' \in [Sessions -> FwdTask]
  BY <1>0, SMTT(30) DEF InsertSource, TypeOK, FwdTask, FwdPc
<1>p. /\ relays' = relays \cup {<<s, e>>}
      /\ source_map' = [source_map EXCEPT ![st0] = IF @ = None THEN obj[e].t ELSE @]
  BY DEF InsertSource
<1>q. /\ source_map' \in [SourceTags -> Transports \cup {None}]
      /\ \A st \in SourceTags : st # st0 => source_map'[st] = source_map[st]
      /\ source_map'[st0] = source_map[st0] \/ source_map'[st0] = obj[e].t
  BY <1>0, <1>k, <1>p DEF TypeOK
<1>1. TypeOK'
  BY <1>0, <1>u, <1>n, <1>p, <1>q, <1>k DEF TypeOK
<1>2. ASSUME NEW q \in Sessions PROVE LocalsOK(q)'
  <2>1. CASE q = s
    <3>1. Good(e, src[s])'
      BY <1>0, <1>k, <1>n, <1>u, GoodKept
    <3> QED
      BY <2>1, <3>1, <1>k, <1>n, <1>u DEF LocalsOK
  <2>2. CASE q # s
    BY <1>0, <1>u, <1>n, <2>2, HandleType, LocalsFrame
  <2> QED
    BY <2>1, <2>2
<1>3. (EntriesOK /\ SourcesOK /\ RelaysOK)'
  <2>1. EntriesOK'
    BY <1>u, <1>0, HandleType, GoodKept DEF IInv, EntriesOK
  <2>2. SourcesOK'
    BY <1>q, <1>k DEF IInv, SourcesOK
  <2>3. RelaysOK'
    <3> SUFFICES ASSUME NEW r \in relays' PROVE Good(r[2], src[r[1]])'
      BY DEF RelaysOK
    <3>1. CASE r \in relays
      BY <3>1, <1>u, <1>0, HandleType, GoodKept DEF IInv, RelaysOK
    <3>2. CASE r = <<s, e>>
      BY <3>2, <1>u, <1>0, <1>k, GoodKept
    <3> QED
      BY <3>1, <3>2, <1>p
  <2> QED
    BY <2>1, <2>2, <2>3
<1>4. NoOrphanMappings'
  <2>1. \A st \in SourceTags : BackedSource(st) => BackedSource(st)'
    BY <1>u DEF BackedSource, HasActive
  <2>2. \A st \in SourceTags : st = st0 => HasActive(st)'
    <3>1. entries'[KeyOf(s)] # None
          /\ <<KeyOf(s)[1], obj'[entries'[KeyOf(s)]].tag>> = st0
      BY <1>k, <1>u
    <3> QED
      BY <3>1, <1>k DEF HasActive
  <2>3. \A st \in SourceTags : source_map'[st] # None => BackedSource(st)'
    <3> SUFFICES ASSUME NEW st \in SourceTags, source_map'[st] # None
                 PROVE  BackedSource(st)'
      OBVIOUS
    <3>1. CASE st = st0
      BY <3>1, <2>2 DEF BackedSource
    <3>2. CASE st # st0
      BY <3>2, <2>1, <1>q DEF IInv, NoOrphanMappings
    <3> QED
      BY <3>1, <3>2
  <2>4. \A x \in reverse' : BackedReverse(x)'
    BY <1>u DEF BackedReverse, IInv, NoOrphanMappings
  <2> QED
    BY <2>3, <2>4 DEF NoOrphanMappings
<1>5. ClnOK'
  BY <1>u DEF IInv, ClnOK
<1> QED
  BY <1>1, <1>2, <1>3, <1>4, <1>5 DEF IInv

\* A step of a forward task that lands on an entry of its flow found in the
\* table, which it touches (the two lookups of a live entry).
LEMMA HitStep ==
  ASSUME IInv, NEW s \in Sessions, NEW d \in Dests,
         NEW e \in Entries, e = entries[<<src[s], d>>],
         obj' = Touched(e),
         fwd' \in [Sessions -> FwdTask],
         fwd'[s].pc = "send", fwd'[s].d = d, fwd'[s].e = e,
         \A q \in Sessions : q # s => fwd'[q] = fwd[q],
         UNCHANGED <<status, src, route, cln, relays, entries, reverse, source_map>>
  PROVE  IInv'
<1>0. TypeOK /\ <<src[s], d>> \in Keys /\ Good(e, src[s])
  <2>1. TypeOK /\ <<src[s], d>> \in Keys
    BY DEF IInv, TypeOK, Keys
  <2> QED
    BY <2>1, ConstantsAssumption DEF IInv, EntriesOK
<1>a. /\ obj' \in [Entries -> NatEntry \cup {Blank}]
      /\ \A x \in Entries : Kept(x) /\ (obj[x].age = 0 => obj'[x].age = 0)
  BY <1>0, TouchedKept DEF Good
<1>1. TypeOK'
  BY <1>0, <1>a DEF TypeOK
<1>2. ASSUME NEW q \in Sessions PROVE LocalsOK(q)'
  <2>1. CASE q = s
    <3>1. Good(e, src[s])'
      BY <1>0, <1>a, GoodKept
    <3> QED
      BY <2>1, <3>1 DEF LocalsOK
  <2>2. CASE q # s
    BY <1>a, <2>2, HandleType, LocalsFrame
  <2> QED
    BY <2>1, <2>2
<1>3. (EntriesOK /\ SourcesOK /\ RelaysOK)'
  BY <1>a, HandleType, MapsFrame
<1>4. NoOrphanMappings'
  BY <1>a, HandleType, OrphanFrame
<1>5. ClnOK'
  BY DEF IInv, ClnOK
<1> QED
  BY <1>1, <1>2, <1>3, <1>4, <1>5 DEF IInv

\* The first lookup of a packet: an entry of the flow, or none.
LEMMA RecvStep ==
  ASSUME IInv, NEW s \in Sessions, NEW d \in Dests, Recv(s, d) PROVE IInv'
<1> DEFINE e == entries[<<src[s], d>>]
<1>0. TypeOK /\ <<src[s], d>> \in Keys /\ e \in Entries \cup {None}
  BY DEF IInv, TypeOK, Keys
<1>u. UNCHANGED <<status, src, route, cln, relays, entries, reverse, source_map>>
  BY DEF Recv
<1>c. CASE Hit(e)
  <2>1. e \in Entries /\ obj' = Touched(e)
    BY <1>0, <1>c DEF Hit, Recv
  <2>2. fwd' = [fwd EXCEPT ![s] = [pc |-> "send", d |-> d, t |-> None, e |-> e]]
    BY <1>c DEF Recv
  <2>3. [pc |-> "send", d |-> d, t |-> None, e |-> e] \in FwdTask
    BY <2>1 DEF FwdTask, FwdPc
  <2> HIDE DEF e
  <2>4. /\ fwd' \in [Sessions -> FwdTask]
        /\ fwd'[s].pc = "send" /\ fwd'[s].d = d /\ fwd'[s].e = e
        /\ \A q \in Sessions : q # s => fwd'[q] = fwd[q]
    BY <1>0, <2>2, <2>3 DEF TypeOK
  <2> QED
    BY <1>u, <2>1, <2>4, HitStep DEF e
<1>d. CASE ~Hit(e)
  <2>1. /\ obj' = obj
        /\ fwd' = [fwd EXCEPT ![s] = [pc |-> "source", d |-> d, t |-> None, e |-> None]]
    BY <1>d DEF Recv
  <2>2. \A x \in Entries : Kept(x) /\ obj'[x] = obj[x]
    BY <1>0, <2>1, SameKept
  <2>3. [pc |-> "source", d |-> d, t |-> None, e |-> None] \in FwdTask
    BY DEF FwdTask, FwdPc
  <2>4. /\ fwd' \in [Sessions -> FwdTask]
        /\ fwd'[s].pc = "source" /\ fwd'[s].d = d
        /\ \A q \in Sessions : q # s => fwd'[q] = fwd[q]
    BY <1>0, <2>1, <2>3 DEF TypeOK
  <2>5. TypeOK'
    BY <1>0, <1>u, <2>1, <2>4 DEF TypeOK
  <2>6. ASSUME NEW q \in Sessions PROVE LocalsOK(q)'
    <3>1. CASE q = s
      BY <3>1, <2>4 DEF LocalsOK
    <3>2. CASE q # s
      BY <1>u, <2>2, <2>4, <3>2, HandleType, LocalsFrame
    <3> QED
      BY <3>1, <3>2
  <2>7. (EntriesOK /\ SourcesOK /\ RelaysOK)'
    BY <1>u, <2>2, HandleType, MapsFrame
  <2>8. NoOrphanMappings'
    BY <1>u, <2>2, HandleType, OrphanFrame
  <2>9. ClnOK'
    BY <1>u DEF IInv, ClnOK
  <2> QED
    BY <2>5, <2>6, <2>7, <2>8, <2>9 DEF IInv
<1> QED
  BY <1>c, <1>d

\* The second lookup: an entry of the flow, or a new object nothing else refers to.
LEMMA GetOrInsertStep ==
  ASSUME IInv, NEW s \in Sessions, GetOrInsert(s) PROVE IInv'
<1> DEFINE e == entries[KeyOf(s)]
<1>0. /\ TypeOK /\ fwd[s].pc = "get_or_insert" /\ fwd[s].d \in Dests
      /\ KeyOf(s) \in Keys /\ KeyOf(s) = <<src[s], fwd[s].d>> /\ TagOf(s) \in Tags
      /\ e \in Entries \cup {None}
  BY PacketType DEF IInv, TypeOK, GetOrInsert, KeyOf
<1>t. fwd[s].t \in Transports /\ OwnerOf(fwd[s].t) = <<src[s], TagOf(s)>>
  BY <1>0 DEF IInv, LocalsOK
<1>u. UNCHANGED <<status, src, route, cln, relays, entries, reverse, source_map>>
  BY DEF GetOrInsert
<1>c. CASE Hit(e)
  <2>1. e \in Entries /\ obj' = Touched(e)
    BY <1>0, <1>c DEF Hit, GetOrInsert
  <2>2. fwd' = [fwd EXCEPT ![s] = [fwd[s] EXCEPT !.pc = "send", !.t = None, !.e = e]]
    BY <1>c DEF GetOrInsert
  <2> HIDE DEF e
  <2>3. [fwd[s] EXCEPT !.pc = "send", !.t = None, !.e = e] \in FwdTask
    BY <1>0, <2>1, FwdMove DEF FwdPc
  <2>4. /\ fwd' \in [Sessions -> FwdTask]
        /\ fwd'[s].pc = "send" /\ fwd'[s].d = fwd[s].d /\ fwd'[s].e = e
        /\ \A q \in Sessions : q # s => fwd'[q] = fwd[q]
    BY <1>0, <2>2, <2>3 DEF TypeOK, FwdTask
  <2> QED
    BY <1>0, <1>u, <2>1, <2>4, HitStep DEF e
<1>d. CASE ~Hit(e)
  <2> DEFINE n == Pick(FreeEntries)
             new == [t |-> fwd[s].t, tag |-> TagOf(s), age |-> 0]
  <2>1. /\ FreeEntries # {}
        /\ obj' = [obj EXCEPT ![n] = new]
        /\ fwd' = [fwd EXCEPT ![s] = [fwd[s] EXCEPT !.pc = "insert", !.t = None, !.e = n]]
    BY <1>d DEF GetOrInsert
  <2>2. n \in Entries /\ n \notin LiveEntries
    BY <2>1, PickIn DEF FreeEntries
  <2>3. new \in NatEntry /\ OwnerOf(new.t) = <<src[s], new.tag>> /\ new.age = 0
    BY <1>0, <1>t, ConstantsAssumption DEF NatEntry
  <2> HIDE DEF n, new
  <2>4. /\ obj' \in [Entries -> NatEntry \cup {Blank}]
        /\ obj'[n] = new
        /\ \A x \in Entries : x # n => Kept(x) /\ obj'[x] = obj[x]
    BY <1>0, <2>1, <2>2, <2>3 DEF TypeOK, Kept
  <2>5. /\ \A k \in Keys : entries[k] # n
        /\ \A q \in Sessions : fwd[q].e # n
        /\ \A r \in relays : r[2] # n
    BY <2>2, LiveNow
  <2>6. [fwd[s] EXCEPT !.pc = "insert", !.t = None, !.e = n] \in FwdTask
    BY <1>0, <2>2, FwdMove DEF FwdPc
  <2>7. /\ fwd' \in [Sessions -> FwdTask]
        /\ fwd'[s].pc = "insert" /\ fwd'[s].d = fwd[s].d /\ fwd'[s].e = n
        /\ \A q \in Sessions : q # s => fwd'[q] = fwd[q]
    BY <1>0, <2>1, <2>6 DEF TypeOK, FwdTask
  <2>8. TypeOK'
    BY <1>0, <1>u, <2>4, <2>7 DEF TypeOK
  <2>9. ASSUME NEW q \in Sessions PROVE LocalsOK(q)'
    <3>1. CASE q = s
      BY <3>1, <1>0, <1>u, <2>2, <2>3, <2>4, <2>7 DEF LocalsOK, Good
    <3>2. CASE q # s
      BY <1>u, <2>4, <2>5, <2>7, <3>2, HandleType, LocalsFrame
    <3> QED
      BY <3>1, <3>2
  <2>10. (EntriesOK /\ SourcesOK /\ RelaysOK)'
    BY <1>u, <2>4, <2>5, HandleType, MapsFrame
  <2>11. NoOrphanMappings'
    BY <1>u, <2>4, <2>5, HandleType, OrphanFrame
  <2>12. ClnOK'
    BY <1>u DEF IInv, ClnOK
  <2> QED
    BY <2>8, <2>9, <2>10, <2>11, <2>12 DEF IInv
<1> QED
  BY <1>c, <1>d

\* An object a step neither releases nor touches keeps its age.
LEMMA ReleasedFrame ==
  ASSUME IInv, obj' = Released(obj),
         NEW q \in Sessions, fwd'[q] = fwd[q],
         fwd[q].pc \in {"insert", "reverse", "source_map"}
  PROVE  obj'[fwd[q].e] = obj[fwd[q].e]
BY HandleType, LiveNext, ReleasedKept

\* The end of a session drops the handles of its forward task only.
LEMMA CloseStep ==
  ASSUME IInv, NEW s \in Sessions, Close(s) PROVE IInv'
<1>0. TypeOK
  BY HandleType
<1>u. UNCHANGED <<src, route, relays, entries, reverse, source_map>> /\ obj' = Released(obj)
  BY DEF Close
<1>1. /\ status' \in [Sessions -> {"new", "open", "closed"}]
      /\ status'[s] = "closed"
      /\ \A q \in Sessions : q # s => status'[q] = status[q]
  BY <1>0 DEF Close, TypeOK
<1>2. /\ fwd' \in [Sessions -> FwdTask]
      /\ fwd'[s].pc = "off"
      /\ \A q \in Sessions : q # s => fwd'[q] = fwd[q]
  BY <1>0 DEF Close, TypeOK, Idle, FwdTask, FwdPc
<1>3. cln[s] \in [pc : ClnPc, keys : SUBSET Keys, srcs : SUBSET SourceTags]
  BY <1>0 DEF TypeOK, ClnTask
<1>4. /\ cln' \in [Sessions -> ClnTask]
      /\ cln[s].pc # "wait" => cln'[s] = cln[s]
      /\ \A q \in Sessions : q # s => cln'[q] = cln[q]
  BY <1>0, <1>3 DEF Close, TypeOK, ClnTask, ClnPc
<1>5. ClnOK'
  BY <1>1, <1>4 DEF IInv, ClnOK
<1>6. \A q \in Sessions : cln[q].pc \in {"reverse", "sources"} => cln'[q] = cln[q]
  BY <1>4
<1> QED
  BY <1>0, <1>u, <1>1, <1>2, <1>4, <1>5, <1>6, ReleasedKept, ReleasedFrame, HandlesFrame

\* A send drops the forward task's handle, after a touch when it succeeded.
LEMMA SendStep ==
  ASSUME IInv, NEW s \in Sessions, NEW ok \in BOOLEAN, Send(s, ok) PROVE IInv'
<1>0. TypeOK
  BY HandleType
<1>u. UNCHANGED <<status, src, route, cln, relays, entries, reverse, source_map>>
  BY DEF Send
<1>1. /\ fwd' \in [Sessions -> FwdTask]
      /\ fwd'[s].pc = "recv"
      /\ \A q \in Sessions : q # s => fwd'[q] = fwd[q]
  BY <1>0 DEF Send, TypeOK, Idle, FwdTask, FwdPc
<1>2. ClnOK'
  BY <1>u DEF IInv, ClnOK
<1>3. CASE ~ok
  <2>1. obj' = Released(obj)
    BY <1>3 DEF Send
  <2> QED
    BY <2>1, <1>0, <1>u, <1>1, <1>2, ReleasedKept, ReleasedFrame, HandlesFrame DEF TypeOK
<1>4. CASE ok
  <2> DEFINE e == fwd[s].e
  <2>1. obj' = Released(Touched(e)) /\ e \in Entries /\ obj[e] \in NatEntry
    BY <1>4, HandleType DEF Send, IInv, LocalsOK, Good
  <2> HIDE DEF e
  <2>2. /\ Touched(e) \in [Entries -> NatEntry \cup {Blank}]
        /\ Touched(e)[e] = [obj[e] EXCEPT !.age = 0]
        /\ Touched(e)[e] \in NatEntry
        /\ \A x \in Entries : x # e => Touched(e)[x] = obj[x]
    BY <1>0, <2>1, TouchKeeps
  <2>3. /\ obj' \in [Entries -> NatEntry \cup {Blank}]
        /\ \A x \in Entries \cap LiveEntries' : obj'[x] = Touched(e)[x]
    BY <2>1, <2>2 DEF Released
  <2>4. /\ Touched(e)[e].t = obj[e].t
        /\ Touched(e)[e].tag = obj[e].tag
        /\ Touched(e)[e].age = 0
    BY <2>1, <2>2 DEF NatEntry
  <2>5. \A x \in Entries \cap LiveEntries' :
          Kept(x) /\ (obj[x].age = 0 => obj'[x].age = 0)
    BY <2>1, <2>2, <2>3, <2>4 DEF Kept
  <2>6. \A q \in Sessions :
          fwd'[q] = fwd[q] /\ fwd[q].pc \in {"insert", "reverse", "source_map"} =>
            (obj[fwd[q].e].age = 0 => obj'[fwd[q].e].age = 0)
    BY <2>5, HandleType, LiveNext
  <2> QED
    BY <2>3, <2>5, <2>6, <1>0, <1>u, <1>1, <1>2, HandlesFrame DEF TypeOK
<1> QED
  BY <1>3, <1>4

\* A reply touches an entry in use.
LEMMA RelayReplyStep ==
  ASSUME IInv, NEW r \in Sessions \X Entries, RelayReply(r) PROVE IInv'
<1>0. TypeOK /\ r[2] \in Entries /\ obj[r[2]] \in NatEntry /\ obj' = Touched(r[2])
  BY HandleType DEF RelayReply, IInv, RelaysOK, Good
<1>u. UNCHANGED <<status, src, route, fwd, cln, relays, entries, reverse, source_map>>
  BY DEF RelayReply
<1>1. /\ obj' \in [Entries -> NatEntry \cup {Blank}]
      /\ \A x \in Entries : Kept(x) /\ (obj[x].age = 0 => obj'[x].age = 0)
  BY <1>0, TouchedKept
<1>2. ClnOK'
  BY <1>u DEF IInv, ClnOK
<1>3. \A q \in Sessions : fwd[q].pc \in {"insert", "reverse", "source_map"} =>
        (obj[fwd[q].e].age = 0 => obj'[fwd[q].e].age = 0)
  BY <1>1, HandleType
<1> QED
  BY <1>0, <1>u, <1>1, <1>2, <1>3, HandlesFrame DEF TypeOK

\* A relay that ends drops its handle.
LEMMA RelayEndStep ==
  ASSUME IInv, NEW r \in Sessions \X Entries, RelayFails(r) \/ RelayShutdown(r)
  PROVE  IInv'
<1>u. /\ UNCHANGED <<status, src, route, fwd, cln, entries, reverse, source_map>>
      /\ relays' \subseteq relays
      /\ obj' = Released(obj)
  BY DEF RelayFails, RelayShutdown
<1>0. TypeOK
  BY HandleType
<1>1. ClnOK'
  BY <1>u DEF IInv, ClnOK
<1>2. /\ obj' \in [Entries -> NatEntry \cup {Blank}]
      /\ \A x \in Entries \cap LiveEntries' : Kept(x)
  BY <1>0, <1>u, ReleasedKept
<1>3. \A q \in Sessions : fwd[q].pc \in {"insert", "reverse", "source_map"} =>
        obj'[fwd[q].e] = obj[fwd[q].e]
  BY <1>u, ReleasedFrame
<1> QED
  BY <1>0, <1>u, <1>1, <1>2, <1>3, HandlesFrame DEF TypeOK

\* Time passes only while no insert is under way, and ages nothing else.
LEMMA TickStep == ASSUME IInv, Tick PROVE IInv'
<1>0. TypeOK
  BY HandleType
<1>u. UNCHANGED <<status, src, route, fwd, cln, relays, entries, reverse, source_map>>
  BY DEF Tick
<1>1. /\ obj' \in [Entries -> NatEntry \cup {Blank}]
      /\ \A x \in Entries : Kept(x)
  <2>1. ASSUME NEW x \in Entries
        PROVE  obj'[x] \in NatEntry \cup {Blank} /\ Kept(x)
    <3>1. CASE obj[x] = Blank
      <4>1. obj'[x] = obj[x]
        BY <3>1 DEF Tick
      <4> QED
        BY <3>1, <4>1 DEF Kept
    <3> DEFINE a == IF obj[x].age > TTL THEN obj[x].age ELSE obj[x].age + 1
    <3>2. CASE obj[x] # Blank
      <4>0. obj[x] \in NatEntry
        BY <1>0, <3>2 DEF TypeOK
      <4>1. obj'[x] = [obj[x] EXCEPT !.age = a]
        BY <3>2 DEF Tick
      <4>2. a \in 0..(TTL + 1)
        BY <4>0, ConstantsAssumption DEF NatEntry
      <4> HIDE DEF a
      <4>3. /\ obj'[x] \in NatEntry
            /\ obj'[x].t = obj[x].t
            /\ obj'[x].tag = obj[x].tag
        BY <4>0, <4>1, <4>2 DEF NatEntry
      <4> QED
        BY <4>3 DEF Kept
    <3> QED
      BY <3>1, <3>2
  <2>2. DOMAIN obj' = Entries /\ obj' = [x \in DOMAIN obj' |-> obj'[x]]
    BY DEF Tick
  <2> QED
    BY <2>1, <2>2
<1>2. ClnOK'
  BY <1>u DEF IInv, ClnOK
<1>3. \A q \in Sessions : fwd[q].pc \notin {"insert", "reverse", "source_map"}
  BY DEF Tick
<1> QED
  BY <1>0, <1>u, <1>1, <1>2, <1>3, HandlesFrame DEF TypeOK

\* The first part of a cleanup: what it unbacks is on its own lists, and an
\* insert under way is safe because its object is fresh.
LEMMA CleanupEntriesStep ==
  ASSUME IInv, NEW s \in Sessions, CleanupEntries(s) PROVE IInv'
<1>0. TypeOK
  BY HandleType
<1>u. /\ UNCHANGED <<status, src, route, fwd, relays, reverse, source_map>>
      /\ obj' = Released(obj)
      /\ cln[s].pc = "wait"
  BY DEF CleanupEntries
<1> DEFINE K == ExpiredKeys
           S == {<<k[1], obj[entries[k]].tag>> : k \in K}
<1>e. /\ entries' \in [Keys -> Entries \cup {None}]
      /\ \A k \in Keys : k \in K => entries'[k] = None
      /\ \A k \in Keys : k \notin K => entries'[k] = entries[k]
  BY <1>0 DEF CleanupEntries, TypeOK
<1>t. K \subseteq Keys /\ S \subseteq SourceTags
  <2>1. ASSUME NEW k \in K PROVE <<k[1], obj[entries[k]].tag>> \in SourceTags
    BY DEF IInv, EntriesOK, Good, NatEntry, ExpiredKeys, Keys, SourceTags
  <2> QED
    BY <2>1 DEF ExpiredKeys
<1>c. cln' = [cln EXCEPT ![s] = [pc |-> "reverse", keys |-> K, srcs |-> S]]
  BY DEF CleanupEntries
<1>x. \A k \in Keys : entries[k] # None /\ obj[entries[k]].age = 0 => k \notin K
  BY ConstantsAssumption DEF ExpiredKeys, Expired
<1>a. \A st \in SourceTags, k \in K : <<k[1], obj[entries[k]].tag>> = st => st \in S
  OBVIOUS
<1> HIDE DEF K, S
<1>d. /\ cln' \in [Sessions -> ClnTask]
      /\ cln'[s].pc = "reverse" /\ cln'[s].keys = K /\ cln'[s].srcs = S
      /\ \A q \in Sessions : q # s => cln'[q] = cln[q]
  <2>1. [pc |-> "reverse", keys |-> K, srcs |-> S] \in ClnTask
    BY <1>t DEF ClnTask, ClnPc
  <2> QED
    BY <1>0, <1>c, <2>1 DEF TypeOK
<1>k. /\ obj' \in [Entries -> NatEntry \cup {Blank}]
      /\ \A x \in Entries \cap LiveEntries' : Kept(x) /\ obj'[x] = obj[x]
  BY <1>0, <1>u, ReleasedKept
<1>l. \A k \in Keys : entries'[k] # None =>
        entries'[k] = entries[k] /\ Kept(entries[k]) /\ obj'[entries[k]] = obj[entries[k]]
  BY <1>e, <1>k, LiveNext, HandleType
<1>1. TypeOK'
  BY <1>0, <1>u, <1>e, <1>d, <1>k DEF TypeOK
<1>2. ASSUME NEW q \in Sessions PROVE LocalsOK(q)'
  <2>1. fwd[q].pc \in {"insert", "reverse", "source_map", "send"} =>
          Kept(fwd[q].e) /\ obj'[fwd[q].e] = obj[fwd[q].e]
    BY <1>k, <1>u, LiveNext, HandleType
  <2>2. fwd[q].pc \in {"reverse", "source_map"} => entries'[KeyOf(q)] = entries[KeyOf(q)]
    BY <1>e, <1>x, HandleType, PacketType DEF IInv, LocalsOK
  <2> QED
    BY <1>u, <2>1, <2>2, LocalsFrame
<1>3. EntriesOK'
  BY <1>l, GoodKept DEF IInv, EntriesOK
<1>4. SourcesOK'
  BY <1>u DEF IInv, SourcesOK
<1>5. RelaysOK'
  BY <1>u, <1>k, LiveNext, HandleType, GoodKept DEF IInv, RelaysOK
<1>6. NoOrphanMappings'
  <2>1. ASSUME NEW st \in SourceTags, BackedSource(st) PROVE BackedSource(st)'
    <3>1. CASE HasActive(st)
      <4>1. PICK k \in Keys : entries[k] # None /\ <<k[1], obj[entries[k]].tag>> = st
        BY <3>1 DEF HasActive
      <4>2. CASE k \in K
        BY <4>1, <4>2, <1>a, <1>d DEF BackedSource
      <4>3. CASE k \notin K
        <5>1. entries'[k] # None /\ <<k[1], obj'[entries'[k]].tag>> = st
          BY <4>1, <4>3, <1>e, <1>l
        <5> QED
          BY <5>1 DEF BackedSource, HasActive
      <4> QED
        BY <4>2, <4>3
    <3>2. CASE \E q \in Sessions : cln[q].pc \in {"reverse", "sources"} /\ st \in cln[q].srcs
      BY <3>2, <1>u, <1>d DEF BackedSource
    <3> QED
      BY <2>1, <3>1, <3>2 DEF BackedSource
  <2>2. ASSUME NEW x \in reverse, BackedReverse(x) PROVE BackedReverse(x)'
    <3>1. x[2] \in Keys
      BY <1>0 DEF TypeOK
    <3>2. CASE entries[x[2]] # None
      BY <3>1, <3>2, <1>e, <1>d DEF BackedReverse
    <3>3. CASE \E q \in Sessions : cln[q].pc = "reverse" /\ x[2] \in cln[q].keys
      BY <3>3, <1>u, <1>d DEF BackedReverse
    <3> QED
      BY <2>2, <3>2, <3>3 DEF BackedReverse
  <2> QED
    BY <2>1, <2>2, <1>u DEF IInv, NoOrphanMappings
<1>7. ClnOK'
  BY <1>u, <1>d DEF IInv, ClnOK
<1> QED
  BY <1>1, <1>2, <1>3, <1>4, <1>5, <1>6, <1>7 DEF IInv

\* The second part: it drops the reverse mappings that only it backed.
LEMMA CleanupReverseStep ==
  ASSUME IInv, NEW s \in Sessions, CleanupReverse(s) PROVE IInv'
<1>0. TypeOK /\ \A x \in Entries : Kept(x) /\ obj'[x] = obj[x]
  BY HandleType, SameKept DEF CleanupReverse
<1>u. /\ UNCHANGED <<status, src, route, fwd, relays, entries, source_map, obj>>
      /\ reverse' = {x \in reverse : x[2] \notin cln[s].keys}
      /\ cln[s].pc = "reverse"
  BY DEF CleanupReverse
<1>c. cln[s] \in [pc : ClnPc, keys : SUBSET Keys, srcs : SUBSET SourceTags]
  BY <1>0 DEF TypeOK, ClnTask
<1>d. /\ cln' \in [Sessions -> ClnTask]
      /\ cln'[s].pc = "sources" /\ cln'[s].srcs = cln[s].srcs
      /\ \A q \in Sessions : q # s => cln'[q] = cln[q]
  BY <1>0, <1>c DEF CleanupReverse, TypeOK, ClnTask, ClnPc
<1>1. TypeOK'
  BY <1>0, <1>u, <1>d DEF TypeOK
<1>2. \A q \in Sessions : LocalsOK(q)'
  BY <1>0, <1>u, HandleType, LocalsFrame
<1>3. (EntriesOK /\ SourcesOK /\ RelaysOK)'
  BY <1>0, <1>u, HandleType, MapsFrame
<1>4. NoOrphanMappings'
  <2>1. \A st \in SourceTags : BackedSource(st) => BackedSource(st)'
    BY <1>u, <1>d DEF BackedSource, HasActive
  <2>2. \A x \in reverse' : BackedReverse(x)'
    BY <1>u, <1>d DEF IInv, NoOrphanMappings, BackedReverse
  <2> QED
    BY <2>1, <2>2, <1>u DEF IInv, NoOrphanMappings
<1>5. ClnOK'
  BY <1>u, <1>d DEF IInv, ClnOK
<1> QED
  BY <1>1, <1>2, <1>3, <1>4, <1>5 DEF IInv

\* The last part: it drops the source mappings that only it backed.
LEMMA CleanupSourcesStep ==
  ASSUME IInv, NEW s \in Sessions, CleanupSources(s) PROVE IInv'
<1>0. TypeOK /\ \A x \in Entries : Kept(x) /\ obj'[x] = obj[x]
  BY HandleType, SameKept DEF CleanupSources
<1>u. /\ UNCHANGED <<status, src, route, fwd, relays, entries, reverse, obj>>
      /\ cln[s].pc = "sources"
  BY DEF CleanupSources
<1>d. /\ cln' \in [Sessions -> ClnTask]
      /\ cln'[s].pc = IF status[s] = "open" THEN "wait" ELSE "off"
      /\ \A q \in Sessions : q # s => cln'[q] = cln[q]
  BY <1>0 DEF CleanupSources, TypeOK, ClnTask, ClnPc, ClnIdle
<1>m. /\ source_map' \in [SourceTags -> Transports \cup {None}]
      /\ \A st \in SourceTags : source_map'[st] # None =>
           /\ source_map'[st] = source_map[st]
           /\ st \in cln[s].srcs => HasActive(st)
  BY <1>0 DEF CleanupSources, TypeOK
<1>1. TypeOK'
  BY <1>0, <1>u, <1>d, <1>m DEF TypeOK
<1>2. \A q \in Sessions : LocalsOK(q)'
  BY <1>0, <1>u, HandleType, LocalsFrame
<1>3. EntriesOK' /\ RelaysOK'
  BY <1>0, <1>u, HandleType, GoodKept DEF IInv, EntriesOK, RelaysOK
<1>4. SourcesOK'
  BY <1>m DEF IInv, SourcesOK
<1>5. NoOrphanMappings'
  <2>1. ASSUME NEW st \in SourceTags, source_map'[st] # None PROVE BackedSource(st)'
    <3>1. HasActive(st)' <=> HasActive(st)
      BY <1>u DEF HasActive
    <3>2. BackedSource(st)
      BY <2>1, <1>m DEF IInv, NoOrphanMappings
    <3> QED
      BY <2>1, <3>1, <3>2, <1>m, <1>d DEF BackedSource
  <2>2. \A x \in reverse : BackedReverse(x) => BackedReverse(x)'
    BY <1>u, <1>d DEF BackedReverse
  <2> QED
    BY <2>1, <2>2, <1>u DEF IInv, NoOrphanMappings
<1>6. ClnOK'
  BY <1>u, <1>d DEF IInv, ClnOK
<1> QED
  BY <1>1, <1>2, <1>3, <1>4, <1>5, <1>6 DEF IInv

-----------------------------------------------------------------------------
\* A step in which nothing changes keeps the invariant.
LEMMA StutterStep == ASSUME IInv, UNCHANGED vars PROVE IInv'
<1>1. TypeOK' /\ ClnOK'
  BY DEF vars, IInv, TypeOK, ClnOK
<1>2. EntriesOK' /\ SourcesOK' /\ RelaysOK'
  BY DEF vars, IInv, EntriesOK, SourcesOK, RelaysOK, Good
<1>3. \A q \in Sessions : LocalsOK(q)'
  BY DEF vars, IInv, LocalsOK, Good, KeyOf, TagOf
<1>4. NoOrphanMappings'
  BY DEF vars, IInv, NoOrphanMappings, BackedSource, BackedReverse, HasActive
<1> QED
  BY <1>1, <1>2, <1>3, <1>4 DEF IInv

\* Every step of every task keeps the invariant.
LEMMA NextStep == ASSUME IInv, [Next]_vars PROVE IInv'
<1>1. ASSUME NEW s \in Sessions, Open(s) \/ Close(s) PROVE IInv'
  BY <1>1, OpenStep, CloseStep
<1>2. ASSUME NEW s \in Sessions, Forward(s) PROVE IInv'
  BY <1>2, RecvStep, GetTransportForSourceStep, ConnectUdpStep, GiveUpStep,
     GetOrInsertStep, InsertStep, InsertReverseStep, InsertSourceStep, SendStep DEF Forward
<1>3. ASSUME NEW s \in Sessions, Cleanup(s) PROVE IInv'
  BY <1>3, CleanupEntriesStep, CleanupReverseStep, CleanupSourcesStep DEF Cleanup
<1>4. ASSUME NEW r \in Sessions \X Entries, Relay(r) PROVE IInv'
  BY <1>4, RelayReplyStep, RelayEndStep DEF Relay
<1> QED
  BY <1>1, <1>2, <1>3, <1>4, TickStep, StutterStep DEF Next

\* The inductive invariant holds in every reachable state, for any number of
\* sessions, clients, outbounds, entries, ports and any routing tables.
THEOREM Invariance == Spec => []IInv
<1>1. Init => IInv
  BY InitIInv
<1>2. IInv /\ [Next]_vars => IInv'
  BY NextStep
<1> QED
  BY <1>1, <1>2, PTL DEF Spec

\* The table, the objects and the tasks' locals always have their types: no
\* forward task reaches get_or_insert, insert or send without a transport.
THEOREM TypeCorrect == Spec => []TypeOK
<1>1. IInv => TypeOK
  BY DEF IInv
<1> QED
  BY <1>1, Invariance, PTL

\* insert and cleanup, interleaved mutex by mutex and cut short by aborts,
\* never leave a source or a reverse mapping nobody will remove.
THEOREM NothingOrphaned == Spec => []NoOrphanMappings
<1>1. IInv => NoOrphanMappings
  BY DEF IInv
<1> QED
  BY <1>1, Invariance, PTL

\* A reverse relay only reads a port opened for its session's own client
\* address on the outbound its entry names.
THEOREM RepliesReachOwner == Spec => []ReplyToOwner
<1>1. IInv => ReplyToOwner
  BY DEF IInv, RelaysOK, Good, ReplyToOwner
<1> QED
  BY <1>1, Invariance, PTL
=============================================================================
