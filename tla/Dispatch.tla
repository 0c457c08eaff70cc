------------------------------ MODULE Dispatch ------------------------------
(***************************************************************************)
(* The life of a TCP connection: admission by the connection limiters      *)
(* (src/src/app/inbound_manager.rs, src/src/common/traffic.rs), dispatch   *)
(* (src/src/app/dispatcher.rs), the connection tracker with its traffic    *)
(* accounts (src/src/app/tracker.rs), the control calls on the tracker, and*)
(* the shutdown of the application (src/src/app/mod.rs).                   *)
(*                                                                         *)
(* Every connection is a task.  The tracker's table is behind an async     *)
(* RwLock; its totals are atomics and its per-outbound account is behind a *)
(* mutex of its own, so that reset_traffic, which does not take the        *)
(* table's lock, falls between the two halves of an archiving.             *)
(* How connecting fails (resolver, breaker, retries) makes no difference   *)
(* here; Resilience models it.  Upload and download are one account.  An   *)
(* inbound without a limiter is one with room for every connection.        *)
(***************************************************************************)
EXTENDS Integers, FiniteSets, FiniteSetsExt

CONSTANTS
  Conns,        \* client connections
  Inbound,      \* connection -> the inbound it comes in by
  Inbounds, Tags,
  GlobalMax,    \* max_connections of the instance
  InboundMax,   \* inbound -> its max_connections
  MaxBytes,     \* bound on what one connection relays
  None

ASSUME DispatchAssumption ==
  /\ Inbound \in [Conns -> Inbounds]
  /\ GlobalMax \in Nat /\ InboundMax \in [Inbounds -> Nat] /\ MaxBytes \in Nat
  /\ IsFiniteSet(Conns) /\ IsFiniteSet(Tags)
  /\ None \notin Conns \cup Tags \cup {"reader", "sweep"} \cup (Conns \X Nat)
  /\ Conns \cap {"reader", "sweep"} = {}

VARIABLES
  pc,           \* connection -> where its task is
  tag,          \* connection -> the outbound it was routed to
  bytes,        \* connection -> bytes relayed
  cell,         \* connection -> the guard's counter (upload, download)
  idle,         \* connections whose last_activity is older than max_idle
  global,       \* free permits of the global limiter
  permits,      \* inbound -> free permits of its limiter
  listening,    \* inbounds whose accept loop runs
  connections,  \* ConnectionTracker.connections
  lock,         \* its lock: None, a connection, "reader", "sweep"
  sweep,        \* the <<entry, bytes>> close_idle is archiving
  total,        \* total_upload, total_download
  outbound,     \* outbound_traffic: tag -> bytes
  resetting,    \* reset_traffic is between its two halves
  app           \* "running", "draining", "closing", "done"

limits == <<global, permits, listening>>
tracker == <<connections, lock, sweep>>
accounts == <<total, outbound, resetting>>
data == <<tag, bytes, cell, idle>>
vars == <<pc, data, limits, tracker, accounts, app>>

Pcs == {"new", "admit", "handle", "route", "insert", "connect", "relay", "drop",
        "archive", "release", "gone"}

Bytes(S) == MapThenSumSet(LAMBDA c : cell[c], S)

TypeOK ==
  /\ pc \in [Conns -> Pcs]
  /\ tag \in [Conns -> Tags \cup {None}]
  /\ bytes \in [Conns -> 0..MaxBytes] /\ cell \in [Conns -> 0..MaxBytes]
  /\ idle \subseteq Conns /\ connections \subseteq Conns /\ listening \subseteq Inbounds
  /\ global \in 0..GlobalMax
  /\ permits \in [Inbounds -> Nat] /\ \A i \in Inbounds : permits[i] <= InboundMax[i]
  /\ lock \in Conns \cup {None, "reader", "sweep"}
  /\ sweep \in (Conns \X Nat) \cup {None}
  /\ total \in Nat /\ outbound \in [Tags -> Nat] /\ resetting \in BOOLEAN
  /\ app \in {"running", "draining", "closing", "done"}

Init ==
  /\ pc = [c \in Conns |-> "new"]
  /\ tag = [c \in Conns |-> None]
  /\ bytes = [c \in Conns |-> 0]
  /\ cell = [c \in Conns |-> 0]
  /\ idle = {}
  /\ global = GlobalMax
  /\ permits = InboundMax
  /\ listening = Inbounds
  /\ connections = {} /\ lock = None /\ sweep = None
  /\ total = 0 /\ outbound = [g \in Tags |-> 0] /\ resetting = FALSE
  /\ app = "running"

Go(c, from, to) == pc[c] = from /\ pc' = [pc EXCEPT ![c] = to]

-----------------------------------------------------------------------------
(* Admission: the accept loop takes a global permit, then one of the       *)
(* inbound; without one of them the connection is dropped.                 *)

Accept(c) ==
  /\ Inbound[c] \in listening
  /\ \/ global > 0 /\ Go(c, "new", "admit") /\ global' = global - 1
     \/ global = 0 /\ Go(c, "new", "gone") /\ UNCHANGED global
  /\ UNCHANGED <<permits, listening, data, tracker, accounts, app>>

\* Slip: the global permit is not given back when the inbound is full.
AdmitLeaks(c) ==
  /\ LET i == Inbound[c] IN
     \/ permits[i] > 0 /\ Go(c, "admit", "handle") /\ permits' = [permits EXCEPT ![i] = @ - 1]
     \/ permits[i] = 0 /\ Go(c, "admit", "gone") /\ UNCHANGED permits
  /\ UNCHANGED <<global, listening, data, tracker, accounts, app>>

Admit(c) ==
  /\ LET i == Inbound[c] IN
     \/ /\ permits[i] > 0
        /\ Go(c, "admit", "handle")
        /\ permits' = [permits EXCEPT ![i] = @ - 1]
        /\ UNCHANGED global
     \/ /\ permits[i] = 0
        /\ Go(c, "admit", "gone")
        /\ global' = global + 1
        /\ UNCHANGED permits
  /\ UNCHANGED <<listening, data, tracker, accounts, app>>

\* Slip: the accept loop gives the global permit back, and so does its guard.
ReleaseTwice(c) ==
  /\ Go(c, "release", "gone")
  /\ global' = global + 2
  /\ permits' = [permits EXCEPT ![Inbound[c]] = @ + 1]
  /\ UNCHANGED <<listening, data, tracker, accounts, app>>

\* The task ends: both limiter guards are dropped.
Release(c) ==
  /\ Go(c, "release", "gone")
  /\ global' = global + 1
  /\ permits' = [permits EXCEPT ![Inbound[c]] = @ + 1]
  /\ UNCHANGED <<listening, data, tracker, accounts, app>>

-----------------------------------------------------------------------------
(* handle and dispatch.                                                    *)

\* The inbound protocol's handshake, or the choice of an outbound, fails.
Refuse(c) ==
  /\ Go(c, "handle", "release") \/ Go(c, "route", "release")
  /\ UNCHANGED <<data, limits, tracker, accounts, app>>

Handle(c) ==
  /\ Go(c, "handle", "route")
  /\ UNCHANGED <<data, limits, tracker, accounts, app>>

Route(c, g) ==
  /\ Go(c, "route", "insert")
  /\ tag' = [tag EXCEPT ![c] = g]
  /\ UNCHANGED <<bytes, cell, idle, limits, tracker, accounts, app>>

\* track: the entry is inserted once the write lock is free.
Track(c) ==
  /\ lock = None
  /\ Go(c, "insert", "connect")
  /\ connections' = connections \cup {c}
  /\ UNCHANGED <<lock, sweep, data, limits, accounts, app>>

ConnectFails(c) ==
  /\ Go(c, "connect", "drop")
  /\ UNCHANGED <<data, limits, tracker, accounts, app>>

ConnectOk(c) ==
  /\ Go(c, "connect", "relay")
  /\ UNCHANGED <<data, limits, tracker, accounts, app>>

Transfer(c) ==
  /\ pc[c] = "relay" /\ bytes[c] < MaxBytes
  /\ bytes' = [bytes EXCEPT ![c] = @ + 1]
  /\ UNCHANGED <<pc, tag, cell, idle, limits, tracker, accounts, app>>

\* The relay ends by end of file, idle timeout or cancellation: only now are
\* the bytes added to the guard, and the connection counts as active.
RelayEnds(c) ==
  /\ Go(c, "relay", "drop")
  /\ cell' = [cell EXCEPT ![c] = bytes[c]]
  /\ idle' = idle \ {c}
  /\ UNCHANGED <<tag, bytes, limits, tracker, accounts, app>>

\* The relay ends by a write error: its bytes are not added.
RelayFails(c) ==
  /\ Go(c, "relay", "drop")
  /\ UNCHANGED <<data, limits, tracker, accounts, app>>

-----------------------------------------------------------------------------
(* Dropping the tracker's guard.                                           *)

\* Slip: the guard archives whether or not the entry was still there.
DropAnyway(c) ==
  /\ lock = None
  /\ Go(c, "drop", "archive")
  /\ connections' = connections \ {c}
  /\ lock' = c
  /\ total' = total + cell[c]
  /\ UNCHANGED <<sweep, outbound, resetting, data, limits, app>>

\* try_write succeeds and the entry is there: it is removed and archived,
\* first in the totals.
Drop(c) ==
  /\ lock = None /\ c \in connections
  /\ Go(c, "drop", "archive")
  /\ connections' = connections \ {c}
  /\ lock' = c
  /\ total' = total + cell[c]
  /\ UNCHANGED <<sweep, outbound, resetting, data, limits, app>>

\* try_write succeeds and a control call has removed the entry.
DropRemoved(c) ==
  /\ lock = None /\ c \notin connections
  /\ Go(c, "drop", "release")
  /\ UNCHANGED <<data, limits, tracker, accounts, app>>

\* try_write fails: the entry stays.
DropBusy(c) ==
  /\ lock # None
  /\ Go(c, "drop", "release")
  /\ UNCHANGED <<data, limits, tracker, accounts, app>>

\* accumulate_outbound_traffic, then the lock is released.
Archive(c) ==
  /\ Go(c, "archive", "release")
  /\ outbound' = [outbound EXCEPT ![tag[c]] = @ + cell[c]]
  /\ lock' = None
  /\ UNCHANGED <<connections, sweep, total, resetting, data, limits, app>>

-----------------------------------------------------------------------------
(* Control calls: the REST API, the FFI, the shutdown loop's snapshots.    *)

\* list, snapshot_async: they hold the read lock for a while.
ReadLock ==
  /\ lock = None
  /\ lock' = "reader"
  /\ UNCHANGED <<pc, data, limits, connections, sweep, accounts, app>>

ReadUnlock ==
  /\ lock = "reader"
  /\ lock' = None
  /\ UNCHANGED <<pc, data, limits, connections, sweep, accounts, app>>

\* close and close_all forget entries; nothing is archived.
Close(c) ==
  /\ lock = None /\ c \in connections
  /\ connections' = connections \ {c}
  /\ UNCHANGED <<pc, data, limits, lock, sweep, accounts, app>>

CloseAll ==
  /\ lock = None /\ connections # {}
  /\ connections' = {}
  /\ UNCHANGED <<pc, data, limits, lock, sweep, accounts, app>>

\* max_idle passes since a connection was last touched.
Age(c) ==
  /\ c \in connections \ idle /\ lock # "sweep"
  /\ idle' = idle \cup {c}
  /\ UNCHANGED <<pc, tag, bytes, cell, limits, tracker, accounts, app>>

\* close_idle: one idle entry after the other is removed and archived.
SweepTake(c) ==
  /\ lock \in {None, "sweep"} /\ sweep = None
  /\ c \in connections \cap idle
  /\ lock' = "sweep"
  /\ sweep' = <<c, cell[c]>>
  /\ connections' = connections \ {c}
  /\ total' = total + cell[c]
  /\ UNCHANGED <<pc, data, limits, outbound, resetting, app>>

SweepPut ==
  /\ sweep # None
  /\ outbound' = [outbound EXCEPT ![tag[sweep[1]]] = @ + sweep[2]]
  /\ sweep' = None
  /\ UNCHANGED <<pc, data, limits, connections, lock, total, resetting, app>>

SweepEnd ==
  /\ lock = "sweep" /\ sweep = None /\ connections \cap idle = {}
  /\ lock' = None
  /\ UNCHANGED <<pc, data, limits, connections, sweep, accounts, app>>

\* reset_traffic, without the table's lock.
ResetTotal ==
  /\ ~resetting
  /\ resetting' = TRUE
  /\ total' = 0
  /\ UNCHANGED <<pc, data, limits, tracker, outbound, app>>

ResetOutbound ==
  /\ resetting
  /\ resetting' = FALSE
  /\ outbound' = [g \in Tags |-> 0]
  /\ UNCHANGED <<pc, data, limits, tracker, total, app>>

-----------------------------------------------------------------------------
(* Shutdown.                                                               *)

\* The signal: the token is cancelled, the application starts to wait.
Signal ==
  /\ app = "running"
  /\ app' = "draining"
  /\ UNCHANGED <<pc, data, limits, tracker, accounts>>

\* An accept loop sees the cancellation; until then it may accept.
StopListening(i) ==
  /\ app # "running" /\ i \in listening
  /\ listening' = listening \ {i}
  /\ UNCHANGED <<pc, data, global, permits, tracker, accounts, app>>

\* A snapshot shows no active connection.
Drained ==
  /\ app = "draining" /\ lock \in {None, "reader"} /\ connections = {}
  /\ app' = "closing"
  /\ UNCHANGED <<pc, data, limits, tracker, accounts>>

\* Slip: the grace period has no end.
DeadlineNever ==
  /\ FALSE
  /\ UNCHANGED vars

\* The 30 s have passed.
Deadline ==
  /\ app = "draining"
  /\ app' = "closing"
  /\ UNCHANGED <<pc, data, limits, tracker, accounts>>

\* The last close_all.
Finish ==
  /\ app = "closing" /\ lock = None
  /\ app' = "done"
  /\ connections' = {}
  /\ UNCHANGED <<pc, data, limits, lock, sweep, accounts>>

Task(c) ==
  \/ Accept(c) \/ Admit(c) \/ Handle(c) \/ Refuse(c)
  \/ \E g \in Tags : Route(c, g)
  \/ Track(c) \/ ConnectFails(c) \/ ConnectOk(c)
  \/ Transfer(c) \/ RelayEnds(c) \/ RelayFails(c)
  \/ Drop(c) \/ DropRemoved(c) \/ DropBusy(c) \/ Archive(c) \/ Release(c)

Control ==
  \/ ReadLock \/ ReadUnlock \/ CloseAll \/ SweepPut \/ SweepEnd
  \/ ResetTotal \/ ResetOutbound
  \/ \E c \in Conns : Close(c) \/ Age(c) \/ SweepTake(c)

Shutdown ==
  Signal \/ Drained \/ Deadline \/ Finish \/ \E i \in Inbounds : StopListening(i)

Next == (\E c \in Conns : Task(c)) \/ Control \/ Shutdown

Spec == Init /\ [][Next]_vars

\* The shutdown task runs and its deadline comes; the holders of the lock run
\* until they release it (none of them awaits); the table's lock is a fair
\* one, so that the last close_all gets it although others come and go.
Fairness ==
  /\ WF_vars(Drained \/ Deadline)
  /\ SF_vars(Finish)
  /\ WF_vars(ReadUnlock) /\ WF_vars(SweepPut) /\ WF_vars(SweepEnd)
  /\ \A c \in Conns : WF_vars(Archive(c)) /\ WF_vars(SweepTake(c) /\ lock = "sweep")

FairSpec == Spec /\ Fairness

-----------------------------------------------------------------------------
HoldsGlobal == {c \in Conns : pc[c] \notin {"new", "gone"}}
HoldsPermit(i) == {c \in HoldsGlobal : Inbound[c] = i /\ pc[c] # "admit"}

\* Neither limiter leaks or invents a permit: every way out of admission and
\* dispatch gives back exactly what the connection had taken, so the instance
\* cannot creep to its connection limit.
PermitsConserved ==
  /\ global + Cardinality(HoldsGlobal) = GlobalMax
  /\ \A i \in Inbounds : permits[i] + Cardinality(HoldsPermit(i)) = InboundMax[i]

\* A connection's traffic is archived at most once: what the totals and the
\* outbounds' accounts show never exceeds what the connections that have left
\* the table had counted, although close_idle and the guard's drop both
\* archive and reset_traffic cuts in between their halves.
ArchivedOnce ==
  /\ total <= Bytes(Conns \ connections)
  /\ MapThenSumSet(LAMBDA g : outbound[g], Tags) <= Bytes(Conns \ connections)

\* A shutdown that was asked for completes, whatever connections hang, and
\* whatever control calls compete for the table.
ShutdownCompletes == []<>(app \in {"running", "done"})

\* outbound_traffic holds the traffic of closed connections too: once every
\* connection has ended and none is left in the table for a later cleanup, and
\* nobody reset the account, all bytes are in it.
ClosedTrafficCounted ==
  (\A c \in Conns : pc[c] = "gone") /\ connections = {} =>
    MapThenSumSet(LAMBDA g : outbound[g], Tags)
      = MapThenSumSet(LAMBDA c : bytes[c], Conns)
=============================================================================
