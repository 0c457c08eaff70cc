------------------------------- MODULE UdpNat -------------------------------
(***************************************************************************)
(* The Full Cone UDP NAT: the table of src/src/proxy/nat.rs and the tasks  *)
(* that Dispatcher::dispatch_udp (src/src/app/dispatcher.rs) runs on it.   *)
(*                                                                         *)
(* Every UDP session runs a forward task (client -> remote), a cleanup     *)
(* task, and one reverse relay per NAT entry it tabled.  The table outlives*)
(* the sessions: it belongs to the dispatcher.  It is three maps behind    *)
(* three mutexes, and insert and cleanup take the mutexes one after the    *)
(* other; each action below is what a task does under one mutex, or        *)
(* between two awaits.                                                     *)
(*                                                                         *)
(* NatEntry is a handle: the table, the forward task and the reverse relay *)
(* share the last_active cell.  An entry here is therefore an object name  *)
(* e with its fields in obj[e].  Time is an age per entry, the ticks since *)
(* its last touch, saturated one above the TTL.                            *)
(***************************************************************************)
EXTENDS Naturals, FiniteSets

CONSTANTS
  Sessions,    \* UDP sessions (SOCKS5 UDP ASSOCIATE, Shadowsocks UDP)
  Sources,     \* client addresses; two sessions may come from one address
  Dests,       \* packet destinations
  Tags,        \* outbound tags
  Routers,     \* routing tables in force over time: functions Dests -> Tags
  Entries,     \* names of NatEntry objects
  Ports,       \* numbers that tell the outbound ports of one client apart
  TTL,         \* entry TTL in ticks
  None         \* "no value": Option::None, or a local that is not in use

ASSUME ConstantsAssumption ==
  /\ Sources # {} /\ Tags # {} /\ Ports # {}
  /\ Routers \subseteq [Dests -> Tags]
  /\ TTL \in Nat
  /\ None \notin Dests \cup Entries \cup (Sources \X Tags \X Ports)

VARIABLES
  status,      \* session -> "new", "open" or "closed"
  src,         \* session -> its client address
  route,       \* session -> the Router snapshot its forward task took
  fwd,         \* session -> forward task: [pc, d, t, e], the local variables
  cln,         \* session -> cleanup task: [pc, keys, srcs]
  relays,      \* reverse relay tasks: <<session, entry>>
  entries,     \* NatTable.entries: key -> entry name or None
  reverse,     \* NatTable.reverse: the set of <<tag, key>> it lists
  source_map,  \* NatTable.source_map: <<source, tag>> -> transport or None
  obj          \* entry name -> [t, tag, age]

vars == <<status, src, route, fwd, cln, relays, entries, reverse, source_map,
          obj>>

Keys == Sources \X Dests                   \* NatKey
SourceTags == Sources \X Tags
Transports == Sources \X Tags \X Ports     \* named for whom connect_udp was called
OwnerOf(t) == <<t[1], t[2]>>
Expired(e) == obj[e].age > TTL             \* NatEntry::is_expired

Hit(e) == e # None /\ ~Expired(e)         \* NatTable::get finds it

NatEntry == [t : Transports, tag : Tags, age : 0..(TTL + 1)]
Blank == [t |-> None, tag |-> None, age |-> 0]  \* an object not in use

FwdPc == {"off", "recv", "source", "connect", "get_or_insert", "insert",
          "reverse", "source_map", "send"}
ClnPc == {"off", "wait", "reverse", "sources"}

FwdTask == [pc : FwdPc, d : Dests \cup {None}, t : Transports \cup {None},
            e : Entries \cup {None}]
ClnTask == [pc : ClnPc, keys : SUBSET Keys, srcs : SUBSET SourceTags]

Idle(pc) == [pc |-> pc, d |-> None, t |-> None, e |-> None]
ClnIdle(pc) == [pc |-> pc, keys |-> {}, srcs |-> {}]

KeyOf(s) == <<src[s], fwd[s].d>>
TagOf(s) == route[s][fwd[s].d]

TypeOK ==
  /\ status \in [Sessions -> {"new", "open", "closed"}]
  /\ src \in [Sessions -> Sources]
  /\ route \in [Sessions -> Routers]
  /\ fwd \in [Sessions -> FwdTask]
  /\ cln \in [Sessions -> ClnTask]
  /\ relays \subseteq Sessions \X Entries
  /\ entries \in [Keys -> Entries \cup {None}]
  /\ reverse \subseteq Tags \X Keys
  /\ source_map \in [SourceTags -> Transports \cup {None}]
  /\ obj \in [Entries -> NatEntry \cup {Blank}]

-----------------------------------------------------------------------------
(* Allocation: an Arc that nothing refers to any more is free for reuse.   *)

LiveEntries ==
  {entries[k] : k \in Keys} \cup {fwd[s].e : s \in Sessions}
    \cup {r[2] : r \in relays}

LiveTransports ==
  {source_map[k] : k \in SourceTags} \cup {fwd[s].t : s \in Sessions}
    \cup {obj[e].t : e \in LiveEntries \cap Entries}

FreeEntries == Entries \ LiveEntries
FreeTransports(st) == {t \in Transports \ LiveTransports : OwnerOf(t) = st}
Pick(S) == CHOOSE x \in S : TRUE

\* The objects after a step that may drop the last handle of one: conjoined
\* after the primed variables that hold handles have been given their values.
Released(f) == [e \in Entries |-> IF e \in LiveEntries' THEN f[e] ELSE Blank]

Touched(e) == [obj EXCEPT ![e].age = 0]       \* NatEntry::touch

-----------------------------------------------------------------------------
Init ==
  /\ status = [s \in Sessions |-> "new"]
  /\ src \in [Sessions -> Sources]
  /\ route \in [Sessions -> Routers]
  /\ fwd = [s \in Sessions |-> Idle("off")]
  /\ cln = [s \in Sessions |-> ClnIdle("off")]
  /\ relays = {}
  /\ entries = [k \in Keys |-> None]
  /\ reverse = {}
  /\ source_map = [k \in SourceTags |-> None]
  /\ obj = [e \in Entries |-> Blank]

\* dispatch_udp starts: the cleanup task and the forward task are spawned.
Open(s) ==
  /\ status[s] = "new"
  /\ status' = [status EXCEPT ![s] = "open"]
  /\ fwd' = [fwd EXCEPT ![s] = Idle("recv")]
  /\ cln' = [cln EXCEPT ![s] = ClnIdle("wait")]
  /\ UNCHANGED <<src, route, relays, entries, reverse, source_map, obj>>

\* The TCP control connection closes: cancel the cleanup task (it finishes a
\* cleanup it is in), broadcast the shutdown (the relays see it at their next
\* select), abort the forward task at whatever await it is in.
Close(s) ==
  /\ status[s] = "open"
  /\ status' = [status EXCEPT ![s] = "closed"]
  /\ fwd' = [fwd EXCEPT ![s] = Idle("off")]
  /\ cln' = [cln EXCEPT ![s].pc = IF @ = "wait" THEN "off" ELSE @]
  /\ UNCHANGED <<src, route, relays, entries, reverse, source_map>>
  /\ obj' = Released(obj)

-----------------------------------------------------------------------------
(* The forward task.                                                       *)

\* A packet for d arrives and nat_table.get is asked for its flow; a live
\* entry is touched and used as it is.
Recv(s, d) ==
  /\ fwd[s].pc = "recv"
  /\ LET e == entries[<<src[s], d>>] IN
     \/ /\ Hit(e)
        /\ obj' = Touched(e)
        /\ fwd' = [fwd EXCEPT ![s] = [pc |-> "send", d |-> d, t |-> None, e |-> e]]
     \/ /\ ~Hit(e)
        /\ fwd' = [fwd EXCEPT ![s] = [pc |-> "source", d |-> d, t |-> None, e |-> None]]
        /\ UNCHANGED obj
  /\ UNCHANGED <<status, src, route, cln, relays, entries, reverse, source_map>>

\* Slip: the source mapping is looked up by source alone.
GetTransportAnyTag(s) ==
  /\ fwd[s].pc = "source"
  /\ LET T == {source_map[<<src[s], g>>] : g \in Tags} \ {None} IN
     fwd' = [fwd EXCEPT ![s] =
       [@ EXCEPT !.pc = IF T = {} THEN "connect" ELSE "get_or_insert",
                 !.t = IF T = {} THEN None ELSE Pick(T)]]
  /\ UNCHANGED <<status, src, route, cln, relays, entries, reverse, source_map, obj>>

\* get_transport_for_source: reuse the port this source has on the outbound.
GetTransportForSource(s) ==
  /\ fwd[s].pc = "source"
  /\ LET t == source_map[<<src[s], TagOf(s)>>] IN
     fwd' = [fwd EXCEPT ![s] =
       [@ EXCEPT !.pc = IF t = None THEN "connect" ELSE "get_or_insert", !.t = t]]
  /\ UNCHANGED <<status, src, route, cln, relays, entries, reverse, source_map,
                 obj>>

ConnectUdp(s) ==
  /\ fwd[s].pc = "connect"
  /\ LET F == FreeTransports(<<src[s], TagOf(s)>>) IN
     /\ F # {}
     /\ fwd' = [fwd EXCEPT ![s] = [@ EXCEPT !.pc = "get_or_insert", !.t = Pick(F)]]
  /\ UNCHANGED <<status, src, route, cln, relays, entries, reverse, source_map, obj>>

\* Slip: the loop goes on without a transport.
ConnectFailsNoContinue(s) ==
  /\ fwd[s].pc = "connect"
  /\ fwd' = [fwd EXCEPT ![s].pc = "get_or_insert"]
  /\ UNCHANGED <<status, src, route, cln, relays, entries, reverse, source_map, obj>>

\* The outbound does not exist or connect_udp fails: the packet is dropped.
ConnectFails(s) ==
  /\ fwd[s].pc = "connect"
  /\ fwd' = [fwd EXCEPT ![s] = Idle("recv")]
  /\ UNCHANGED <<status, src, route, cln, relays, entries, reverse, source_map,
                 obj>>

\* get_or_insert: its own get, then a new NatEntry when there is none.
GetOrInsert(s) ==
  /\ fwd[s].pc = "get_or_insert"
  /\ LET e == entries[KeyOf(s)] IN
     \/ /\ Hit(e)
        /\ obj' = Touched(e)
        /\ fwd' = [fwd EXCEPT ![s] = [@ EXCEPT !.pc = "send", !.t = None, !.e = e]]
     \/ /\ ~Hit(e)
        /\ FreeEntries # {}
        /\ LET n == Pick(FreeEntries) IN
           /\ obj' = [obj EXCEPT ![n] = [t |-> fwd[s].t, tag |-> TagOf(s), age |-> 0]]
           /\ fwd' = [fwd EXCEPT ![s] = [@ EXCEPT !.pc = "insert", !.t = None, !.e = n]]
  /\ UNCHANGED <<status, src, route, cln, relays, entries, reverse, source_map>>

\* insert, under the entries mutex: an entry of the key, expired or not, wins,
\* and the new object is used without being tabled.
Insert(s) ==
  /\ fwd[s].pc = "insert"
  /\ \/ /\ entries[KeyOf(s)] # None
        /\ fwd' = [fwd EXCEPT ![s].pc = "send"]
        /\ UNCHANGED entries
     \/ /\ entries[KeyOf(s)] = None
        /\ entries' = [entries EXCEPT ![KeyOf(s)] = fwd[s].e]
        /\ fwd' = [fwd EXCEPT ![s].pc = "reverse"]
  /\ UNCHANGED <<status, src, route, cln, relays, reverse, source_map, obj>>

\* insert, under the reverse mutex.
InsertReverse(s) ==
  /\ fwd[s].pc = "reverse"
  /\ reverse' = reverse \cup {<<obj[fwd[s].e].tag, KeyOf(s)>>}
  /\ fwd' = [fwd EXCEPT ![s].pc = "source_map"]
  /\ UNCHANGED <<status, src, route, cln, relays, entries, source_map, obj>>

\* insert, under the source_map mutex: or_insert keeps a mapping that is there.
\* The caller gets is_new = true and spawns the reverse relay before it awaits.
InsertSource(s) ==
  /\ fwd[s].pc = "source_map"
  /\ LET k == <<src[s], obj[fwd[s].e].tag>> IN
     source_map' = [source_map EXCEPT ![k] = IF @ = None THEN obj[fwd[s].e].t ELSE @]
  /\ relays' = relays \cup {<<s, fwd[s].e>>}
  /\ fwd' = [fwd EXCEPT ![s].pc = "send"]
  /\ UNCHANGED <<status, src, route, cln, entries, reverse, obj>>

\* entry.transport.send: touched when it succeeds; the loop goes on either way.
Send(s, ok) ==
  /\ fwd[s].pc = "send"
  /\ fwd' = [fwd EXCEPT ![s] = Idle("recv")]
  /\ UNCHANGED <<status, src, route, cln, relays, entries, reverse, source_map>>
  /\ obj' = Released(IF ok THEN Touched(fwd[s].e) ELSE obj)

\* inbound_udp.recv fails: the forward task ends, the session stays open.
RecvFails(s) ==
  /\ fwd[s].pc = "recv"
  /\ fwd' = [fwd EXCEPT ![s] = Idle("off")]
  /\ UNCHANGED <<status, src, route, cln, relays, entries, reverse, source_map,
                 obj>>

-----------------------------------------------------------------------------
(* The reverse relays.                                                     *)

\* A reply arrives on the entry's transport and is sent to the client.
RelayReply(r) ==
  /\ r \in relays
  /\ obj' = Touched(r[2])
  /\ UNCHANGED <<status, src, route, fwd, cln, relays, entries, reverse,
                 source_map>>

\* The transport's recv or the client's send fails.
RelayFails(r) ==
  /\ r \in relays
  /\ relays' = relays \ {r}
  /\ UNCHANGED <<status, src, route, fwd, cln, entries, reverse, source_map>>
  /\ obj' = Released(obj)

\* The shutdown broadcast, or its channel closing, is seen.
RelayShutdown(r) ==
  /\ r \in relays
  /\ status[r[1]] = "closed"
  /\ relays' = relays \ {r}
  /\ UNCHANGED <<status, src, route, fwd, cln, entries, reverse, source_map>>
  /\ obj' = Released(obj)

-----------------------------------------------------------------------------
(* The cleanup task of a session.                                          *)

ExpiredKeys == {k \in Keys : entries[k] # None /\ Expired(entries[k])}

\* cleanup, under the entries mutex; it stops here when nothing has expired.
CleanupEntries(s) ==
  /\ cln[s].pc = "wait"
  /\ ExpiredKeys # {}
  /\ entries' = [k \in Keys |-> IF k \in ExpiredKeys THEN None ELSE entries[k]]
  /\ cln' = [cln EXCEPT ![s] =
       [pc |-> "reverse", keys |-> ExpiredKeys,
        srcs |-> {<<k[1], obj[entries[k]].tag>> : k \in ExpiredKeys}]]
  /\ UNCHANGED <<status, src, route, fwd, relays, reverse, source_map>>
  /\ obj' = Released(obj)

\* cleanup, under the reverse mutex.
CleanupReverse(s) ==
  /\ cln[s].pc = "reverse"
  /\ reverse' = {x \in reverse : x[2] \notin cln[s].keys}
  /\ cln' = [cln EXCEPT ![s] = [@ EXCEPT !.pc = "sources", !.keys = {}]]
  /\ UNCHANGED <<status, src, route, fwd, relays, entries, source_map, obj>>

HasActive(st) ==
  \E k \in Keys : entries[k] # None /\ <<k[1], obj[entries[k]].tag>> = st

\* Slip: a flow of the source through another outbound keeps the mapping.
CleanupSourcesAnyTag(s) ==
  /\ cln[s].pc = "sources"
  /\ source_map' = [st \in SourceTags |->
       IF st \in cln[s].srcs /\ \A k \in Keys : k[1] = st[1] => entries[k] = None
         THEN None ELSE source_map[st]]
  /\ cln' = [cln EXCEPT ![s] = ClnIdle(IF status[s] = "open" THEN "wait" ELSE "off")]
  /\ UNCHANGED <<status, src, route, fwd, relays, entries, reverse, obj>>

\* Slip: a cancel that came during the cleanup is not seen.
CleanupSourcesNoCancel(s) ==
  /\ cln[s].pc = "sources"
  /\ source_map' = [st \in SourceTags |->
       IF st \in cln[s].srcs /\ ~HasActive(st) THEN None ELSE source_map[st]]
  /\ cln' = [cln EXCEPT ![s] = ClnIdle("wait")]
  /\ UNCHANGED <<status, src, route, fwd, relays, entries, reverse, obj>>

\* Slip: the cleanup runs once.
CleanupSourcesOnce(s) ==
  /\ cln[s].pc = "sources"
  /\ source_map' = [st \in SourceTags |->
       IF st \in cln[s].srcs /\ ~HasActive(st) THEN None ELSE source_map[st]]
  /\ cln' = [cln EXCEPT ![s] = ClnIdle("off")]
  /\ UNCHANGED <<status, src, route, fwd, relays, entries, reverse, obj>>

\* cleanup, under the entries and source_map mutexes; then the task waits for
\* its next tick, or ends if the session was closed meanwhile.
CleanupSources(s) ==
  /\ cln[s].pc = "sources"
  /\ source_map' = [st \in SourceTags |->
       IF st \in cln[s].srcs /\ ~HasActive(st) THEN None ELSE source_map[st]]
  /\ cln' = [cln EXCEPT ![s] =
       ClnIdle(IF status[s] = "open" THEN "wait" ELSE "off")]
  /\ UNCHANGED <<status, src, route, fwd, relays, entries, reverse, obj>>

-----------------------------------------------------------------------------
\* Time passes.  Not while a task waits for a mutex of insert: the time
\* one hand-over of a mutex takes is negligible against the TTL (120 s).
Tick ==
  /\ \A s \in Sessions : fwd[s].pc \notin {"insert", "reverse", "source_map"}
  /\ obj' = [e \in Entries |->
       IF obj[e] = Blank THEN Blank
         ELSE [obj[e] EXCEPT !.age = IF @ > TTL THEN @ ELSE @ + 1]]
  /\ UNCHANGED <<status, src, route, fwd, cln, relays, entries, reverse,
                 source_map>>

Forward(s) ==
  \/ \E d \in Dests : Recv(s, d)
  \/ GetTransportForSource(s)
  \/ ConnectUdp(s)
  \/ ConnectFails(s)
  \/ GetOrInsert(s)
  \/ Insert(s)
  \/ InsertReverse(s)
  \/ InsertSource(s)
  \/ \E ok \in BOOLEAN : Send(s, ok)
  \/ RecvFails(s)

Cleanup(s) == CleanupEntries(s) \/ CleanupReverse(s) \/ CleanupSources(s)

Relay(r) == RelayReply(r) \/ RelayFails(r) \/ RelayShutdown(r)

Next ==
  \/ \E s \in Sessions : Open(s) \/ Close(s) \/ Forward(s) \/ Cleanup(s)
  \/ \E r \in Sessions \X Entries : Relay(r)
  \/ Tick

Spec == Init /\ [][Next]_vars

\* The cleanup interval keeps ticking, a cleanup that started finishes, and a
\* relay whose session is gone sees the broadcast: all are runnable tokio tasks.
Fairness ==
  /\ \A s \in Sessions : WF_vars(Cleanup(s))
  /\ \A r \in Sessions \X Entries : WF_vars(RelayShutdown(r))

FairSpec == Spec /\ Fairness

-----------------------------------------------------------------------------
(* Properties.                                                             *)

BackedSource(st) ==
  \/ HasActive(st)
  \/ \E s \in Sessions : cln[s].pc \in {"reverse", "sources"} /\ st \in cln[s].srcs

BackedReverse(x) ==
  \/ entries[x[2]] # None
  \/ \E s \in Sessions : cln[s].pc = "reverse" /\ x[2] \in cln[s].keys

\* NatTable::cleanup leaks nothing: whatever insert, cleanup and the abort of
\* a forward task between two mutexes do to one another, a source mapping
\* that no live flow uses is on the list of a cleanup that will still look at
\* it, and so is a reverse mapping of a key that has left the table.  (A
\* mapping left behind would pin an outbound port, and hand it to the next
\* flow of that source, for as long as the process runs.)
NoOrphanMappings ==
  /\ \A st \in SourceTags : source_map[st] # None => BackedSource(st)
  /\ \A x \in reverse : BackedReverse(x)

\* Full Cone isolation: a reverse relay only ever hands a session the replies
\* of a port that was opened for that session's own client address, on the
\* outbound the entry names, although ports are shared between flows, sessions
\* and routing tables and survive the session that opened them.
ReplyToOwner ==
  \A r \in relays : OwnerOf(obj[r[2]].t) = <<src[r[1]], obj[r[2]].tag>>

\* A session that closed leaves no reverse relay and no cleanup task behind,
\* even if it closed while a cleanup was running or a relay was being spawned.
ClosedSessionStops ==
  \A s \in Sessions :
    []<>(status[s] = "closed" => cln[s].pc = "off" /\ \A r \in relays : r[1] # s)

\* As long as some session is open, an entry that stays expired is removed:
\* the cleanup task of any session serves the table of all.
ExpiredCollected ==
  \A s \in Sessions, k \in Keys :
    []<>~(status[s] = "open" /\ k \in ExpiredKeys)
=============================================================================
