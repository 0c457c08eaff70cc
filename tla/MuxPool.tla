------------------------------ MODULE MuxPool ------------------------------
(***************************************************************************)
(* The pool of multiplexed connections of an outbound: MuxManager and      *)
(* MuxConnection of src/src/proxy/mux/mod.rs.                              *)
(*                                                                         *)
(* An opener looks for a connection with capacity, else it counts the      *)
(* connections, connects, and adds its own; on the connection it reads the *)
(* count of active streams, increments it, and asks the session for a      *)
(* stream.  Each of these is a step of its own.  Connections are never     *)
(* taken out of the pool, dead or not.  The sing-mux session numbers its   *)
(* streams and opens MaxStreams of them in its life; other protocols fail  *)
(* to open when the session is dead.                                       *)
(***************************************************************************)
EXTENDS Naturals, FiniteSets

CONSTANTS
  Openers,         \* connections of clients that use the outbound
  MaxConnections, MaxStreams

PoolAssumption ==
  /\ IsFiniteSet(Openers)
  /\ MaxConnections \in Nat \ {0} /\ MaxStreams \in Nat \ {0}

\* At most one connection more for every opener that connects at the same time.
Conns == 1..(MaxConnections + Cardinality(Openers))

VARIABLES
  singMux,    \* the configured protocol is sing-mux
  size,       \* connections 1..size are in the pool
  alive,      \* connections whose session accepts frames
  active,     \* connection -> active_streams
  ids,        \* connection -> how many stream numbers are used
  lost,       \* connection -> openings that failed after they were counted
  pc,         \* opener -> where its open_stream is; "stream" holds a stream
  at          \* opener -> its connection, 0 if none

vars == <<singMux, size, alive, active, ids, lost, pc, at>>

TypeOK ==
  /\ singMux \in BOOLEAN /\ size \in Nat /\ alive \subseteq Conns
  /\ active \in [Conns -> Nat] /\ ids \in [Conns -> 0..MaxStreams]
  /\ lost \in [Conns -> Nat]
  /\ pc \in [Openers -> {"idle", "count", "connect", "check", "add", "open", "stream"}]
  /\ at \in [Openers -> Conns \cup {0}]

Init ==
  /\ singMux \in BOOLEAN
  /\ size = 0 /\ alive = {}
  /\ active = [c \in Conns |-> 0]
  /\ ids = [c \in Conns |-> 0]
  /\ lost = [c \in Conns |-> 0]
  /\ pc = [o \in Openers |-> "idle"]
  /\ at = [o \in Openers |-> 0]

HasCapacity(c) == active[c] < MaxStreams

Goto(o, from, to) == pc[o] = from /\ pc' = [pc EXCEPT ![o] = to]

\* The open_stream of o fails, its stream ends, or its caller drops it.
Leave(o, from) == Goto(o, from, "idle") /\ at' = [at EXCEPT ![o] = 0]

\* pick_connection: the first with capacity.
PickConnection(o) ==
  LET free == {c \in 1..size : HasCapacity(c)} IN
  /\ IF free # {}
     THEN /\ Goto(o, "idle", "check")
          /\ at' = [at EXCEPT ![o] = CHOOSE c \in free : \A d \in free : c <= d]
     ELSE Goto(o, "idle", "count") /\ UNCHANGED at
  /\ UNCHANGED <<singMux, size, alive, active, ids, lost>>

\* Slip: dead connections, which stay in the pool, are not counted.
CanCreateLiving(o) ==
  /\ Goto(o, "count", IF Cardinality(alive) < MaxConnections THEN "connect" ELSE "idle")
  /\ UNCHANGED <<singMux, size, alive, active, ids, lost, at>>

\* can_create; without it the pool is exhausted.
CanCreate(o) ==
  /\ Goto(o, "count", IF size < MaxConnections THEN "connect" ELSE "idle")
  /\ UNCHANGED <<singMux, size, alive, active, ids, lost, at>>

\* create_connection: the connector has answered, the connection is pushed.
CreateConnection(o) ==
  /\ Goto(o, "connect", "check")
  /\ size' = size + 1
  /\ alive' = alive \cup {size + 1}
  /\ at' = [at EXCEPT ![o] = size + 1]
  /\ UNCHANGED <<singMux, active, ids, lost>>

CreateFails(o) ==
  /\ Leave(o, "connect")
  /\ UNCHANGED <<singMux, size, alive, active, ids, lost>>

\* MuxConnection::open_stream reads the counter a second time ...
CheckCapacity(o) ==
  /\ pc[o] = "check"
  /\ \/ HasCapacity(at[o]) /\ Goto(o, "check", "add") /\ UNCHANGED at
     \/ ~HasCapacity(at[o]) /\ Leave(o, "check")
  /\ UNCHANGED <<singMux, size, alive, active, ids, lost>>

\* What was counted for o stays counted.
Lose(o) == Leave(o, pc[o]) /\ lost' = [lost EXCEPT ![at[o]] = @ + 1]

\* ... and increments it; sing-mux has a number for the stream or fails.
AddStream(o) ==
  /\ pc[o] = "add"
  /\ active' = [active EXCEPT ![at[o]] = @ + 1]
  /\ \/ /\ singMux /\ ids[at[o]] = MaxStreams
        /\ Lose(o) /\ UNCHANGED ids
     \/ /\ singMux => ids[at[o]] < MaxStreams
        /\ ids' = IF singMux THEN [ids EXCEPT ![at[o]] = @ + 1] ELSE ids
        /\ Goto(o, "add", "open") /\ UNCHANGED <<at, lost>>
  /\ UNCHANGED <<singMux, size, alive>>

SessionOpens(o) ==
  /\ Goto(o, "open", "stream")
  /\ at[o] \in alive
  /\ UNCHANGED <<singMux, size, alive, active, ids, lost, at>>

\* The session's frame queue is closed.
SessionFails(o) ==
  /\ pc[o] = "open" /\ at[o] \notin alive
  /\ Lose(o)
  /\ UNCHANGED <<singMux, size, alive, active, ids>>

\* Slip: a stream that ends is not discounted when its connection has died.
DropOfLivingOnly(o) ==
  /\ pc[o] = "stream"
  /\ active' = IF at[o] \in alive THEN [active EXCEPT ![at[o]] = @ - 1] ELSE active
  /\ Leave(o, "stream")
  /\ UNCHANGED <<singMux, size, alive, ids, lost>>

\* ManagedMuxStream::drop.
DropStream(o) ==
  /\ pc[o] = "stream"
  /\ active' = [active EXCEPT ![at[o]] = @ - 1]
  /\ Leave(o, "stream")
  /\ UNCHANGED <<singMux, size, alive, ids, lost>>

\* The caller of open_stream goes away while it waits for the session.
Cancel(o) ==
  /\ pc[o] = "open"
  /\ Lose(o)
  /\ UNCHANGED <<singMux, size, alive, active, ids>>

\* The underlying stream ends.
Dies(c) ==
  /\ c \in alive
  /\ alive' = alive \ {c}
  /\ UNCHANGED <<singMux, size, active, ids, lost, pc, at>>

Next ==
  \/ \E o \in Openers :
       \/ PickConnection(o) \/ CanCreate(o) \/ CreateConnection(o) \/ CreateFails(o)
       \/ CheckCapacity(o) \/ AddStream(o) \/ SessionOpens(o) \/ SessionFails(o)
       \/ DropStream(o) \/ Cancel(o)
  \/ \E c \in Conns : Dies(c)

Spec == Init /\ [][Next]_vars

-----------------------------------------------------------------------------
(* Properties.                                                             *)

Users(c) == {o \in Openers : at[o] = c /\ pc[o] \in {"open", "stream"}}

(* The limits are checked before awaits and acted on after them.  However  *)
(* many openings, failures and dying connections follow each other, each   *)
(* limit is exceeded by at most the number of openers that decide at the   *)
(* same time, less one: nothing accumulates.                               *)
OvershootBounded ==
  /\ size <= MaxConnections + Cardinality(Openers) - 1
  /\ \A c \in Conns : active[c] <= MaxStreams + Cardinality(Openers) - 1

(* The counter of a connection is exact: it counts the streams that use   *)
(* it, whatever ends in which order, and the openings that failed or were  *)
(* given up after the increment, which nothing takes back.                 *)
StreamsCounted == \A c \in Conns : active[c] = Cardinality(Users(c)) + lost[c]
=============================================================================
