---------------------------- MODULE PartsProof ----------------------------
(***************************************************************************)
(* The parts of the kernel that share no state, for every value of their   *)
(* constants.  An invariant of a part is one of the parts side by side, as *)
(* in ServicesProof; each part has its own below.                          *)
(*                                                                         *)
(* Host: who drops a runtime holds the mutex, and INSTANCE is empty        *)
(* meanwhile.  Mux pool: openers that have decided are counted with what   *)
(* there is.  Rule providers: the half file is the one being filled.  Mux  *)
(* session: a stream is tabled from before its syn to after the peer's     *)
(* fin.  Router: each trie node holds the first rule that ends there, so   *)
(* that the nodes on the way down a path hold the rules that match it.     *)
(***************************************************************************)
EXTENDS Parts, ResilienceProof, FiniteSetTheorems, SequenceTheorems, NaturalsInduction

\* The parts' modules count as FiniteSets does.
LEMMA Counting ==
  ASSUME NEW S
  PROVE  /\ Host!Cardinality(S) = Cardinality(S) /\ Pool!Cardinality(S) = Cardinality(S)
         /\ Provider!Cardinality(S) = Cardinality(S) /\ Pool!IsFiniteSet(S) = IsFiniteSet(S)
<1>1. Host!Cardinality(S) = Cardinality(S)
  BY DEF Host!Cardinality, Cardinality
<1>2. Pool!Cardinality(S) = Cardinality(S)
  BY DEF Pool!Cardinality, Cardinality
<1>3. Provider!Cardinality(S) = Cardinality(S)
  BY DEF Provider!Cardinality, Cardinality
<1>4. Pool!IsFiniteSet(S) = IsFiniteSet(S)
  BY DEF Pool!IsFiniteSet, IsFiniteSet
<1> QED
  BY <1>1, <1>2, <1>3, <1>4

\* A set of numbers that is not empty has a least one.
LEMMA LeastOf ==
  ASSUME NEW S, S \subseteq Nat, S # {}
  PROVE  \E m \in S : \A n \in S : m <= n
<1> DEFINE R == {ss \in Nat \X Nat : ss[1] < ss[2]}
<1>1. IsWellFoundedOn(R, Nat)
  BY NatLessThanWellFounded DEF OpToRel
<1>2. PICK m \in S : \A n \in S : <<n, m>> \notin R
  <2> HIDE DEF R
  <2> QED
    BY <1>1, WFMin
<1>3. ASSUME NEW n \in S PROVE m <= n
  <2>1. m \in Nat /\ n \in Nat /\ <<n, m>> \notin R
    BY <1>2
  <2> QED
    BY <2>1
<1> QED
  BY <1>3

-----------------------------------------------------------------------------
(* The kernel behind the C interface.                                      *)

\* Who drops a runtime holds the mutex, and nothing is in INSTANCE meanwhile.
HostHeld ==
  /\ \A t \in Threads : call[t] = "drop" => lock = t /\ victim # None
  /\ victim # None => instance = None /\ \E t \in Threads : call[t] = "drop"

HostLive == \A g \in Gens : app[g] \in {"boot", "serve"} => g \in {instance, victim}

\* A test that goes on belongs to the runtime that its token is kept with, or
\* to the one that is being dropped.
HostTests ==
  \A a \in Autos : task[a] \in {"sleep", "round"} /\ a \notin cancelled =>
    \/ a = token /\ home[a] = instance /\ instance # None
    \/ home[a] = victim /\ victim # None

HostInv == Host!TypeOK /\ HostHeld /\ HostLive /\ HostTests

\* None is no thread, no runtime and no test.
LEMMA HostNone == None \notin Threads /\ None \notin Gens /\ None \notin Autos
BY PartsAssumption DEF Host!FfiAssumption

\* A host that has not called anything.
LEMMA HostInit == Host!Init => HostInv
BY DEF Host!Init, HostInv, Host!TypeOK, Host!Calls, HostHeld, HostLive, HostTests

LEMMA PickIn == ASSUME NEW S, S # {} PROVE Host!Pick(S) \in S
BY DEF Host!Pick

\* Calls begin, wait for the mutex, take it and come back.
LEMMA HostCalls ==
  ASSUME HostInv, NEW t \in Threads, Host!Enter(t) \/ Host!Acquire(t) \/ Host!NetworkCall(t)
  PROVE  HostInv'
<1> USE HostNone DEF HostInv, Host!TypeOK, Host!Calls, HostHeld, HostLive, HostTests, Host!autos
<1>1. CASE Host!Enter(t)
  BY <1>1 DEF Host!Enter
<1>2. CASE Host!Acquire(t)
  BY <1>2 DEF Host!Acquire
<1>3. CASE Host!NetworkCall(t)
  BY <1>3 DEF Host!NetworkCall, Host!Return, Host!In
<1> QED
  BY <1>1, <1>2, <1>3

\* A start puts the only runtime that serves into INSTANCE.
LEMMA HostStart == ASSUME HostInv, NEW t \in Threads, Host!Start(t) PROVE HostInv'
<1> USE HostNone DEF HostInv, Host!TypeOK, Host!Calls, HostHeld, HostLive, HostTests, Host!autos
<1>1. CASE UNCHANGED <<instance, app>>
  BY <1>1 DEF Host!Start, Host!Return, Host!In
<1>2. CASE /\ instance = None /\ Host!UnusedGens # {}
           /\ app' = [app EXCEPT ![Host!Pick(Host!UnusedGens)] = "boot"]
           /\ instance' = Host!Pick(Host!UnusedGens)
  <2>1. Host!Pick(Host!UnusedGens) \in Gens
    BY <1>2, PickIn DEF Host!UnusedGens
  <2>2. victim = None
    BY DEF Host!Start, Host!In
  <2> QED
    BY <1>2, <2>1, <2>2 DEF Host!Start, Host!Return, Host!In
<1> QED
  BY <1>1, <1>2 DEF Host!Start

\* A stop takes the instance and its token, and drops the runtime.
LEMMA HostStop ==
  ASSUME HostInv, NEW t \in Threads, Host!Stop(t) \/ Host!DropRuntime(t)
  PROVE  HostInv'
<1> USE HostNone DEF HostInv, Host!TypeOK, Host!Calls, HostHeld, HostLive, HostTests, Host!autos
<1>1. CASE Host!Stop(t)
  BY <1>1 DEF Host!Stop, Host!Return, Host!In
<1>2. CASE Host!DropRuntime(t)
  BY <1>2 DEF Host!DropRuntime
<1> QED
  BY <1>1, <1>2

\* A start or a stop of the tests cancels the one whose token is kept.
LEMMA HostAutoTests ==
  ASSUME HostInv, NEW t \in Threads, Host!AutoTestStart(t) \/ Host!AutoTestStop(t)
  PROVE  HostInv'
<1> USE HostNone DEF HostInv, Host!TypeOK, Host!Calls, HostHeld, HostLive, HostTests, Host!autos
<1>1. CASE Host!AutoTestStart(t)
  <2>1. CASE instance = None \/ Host!UnusedAutos = {}
    BY <1>1, <2>1 DEF Host!AutoTestStart, Host!Return, Host!In
  <2>2. CASE instance # None /\ Host!UnusedAutos # {}
    <3>1. Host!Pick(Host!UnusedAutos) \in Autos
      BY <2>2, PickIn DEF Host!UnusedAutos
    <3> QED
      BY <1>1, <2>2, <3>1 DEF Host!AutoTestStart, Host!Return, Host!In
  <2> QED
    BY <2>1, <2>2
<1>2. CASE Host!AutoTestStop(t)
  BY <1>2 DEF Host!AutoTestStop, Host!Return, Host!In
<1> QED
  BY <1>1, <1>2

\* What happens inside a runtime.
LEMMA HostRuntime ==
  ASSUME HostInv,
         \/ \E g \in Gens : Host!AppStep(g)
         \/ \E a \in Autos : Host!AutoRound(a) \/ Host!AutoNext(a)
  PROVE  HostInv'
<1> USE HostNone DEF HostInv, Host!TypeOK, Host!Calls, HostHeld, HostLive, HostTests, Host!autos
<1>1. ASSUME NEW g \in Gens, Host!AppStep(g) PROVE HostInv'
  BY <1>1 DEF Host!AppStep
<1>2. ASSUME NEW a \in Autos, Host!AutoRound(a) PROVE HostInv'
  BY <1>2 DEF Host!AutoRound
<1>3. ASSUME NEW a \in Autos, Host!AutoNext(a) PROVE HostInv'
  BY <1>3 DEF Host!AutoNext
<1> QED
  BY <1>1, <1>2, <1>3

LEMMA HostKept == ASSUME HostInv, Host!Next PROVE HostInv'
BY HostCalls, HostStart, HostStop, HostAutoTests, HostRuntime DEF Host!Next, Host!Work

\* At most one runtime is in INSTANCE or being dropped.
LEMMA HostOne == HostInv => OneKernel
<1> SUFFICES ASSUME HostInv PROVE OneKernel
  OBVIOUS
<1> DEFINE L == {g \in Gens : app[g] \in {"boot", "serve"}}
<1>1. PICK x : L \subseteq {x}
  <2>1. CASE victim = None
    BY <2>1, HostNone DEF HostInv, HostLive
  <2>2. CASE victim # None
    BY <2>2, HostNone DEF HostInv, HostLive, HostHeld
  <2> QED
    BY <2>1, <2>2
<1>2. IsFiniteSet({x}) /\ Cardinality({x}) = 1
  BY FS_Singleton
<1>3. Cardinality(L) <= 1
  BY <1>1, <1>2, FS_Subset
<1>4. HostLive
  BY DEF HostInv
<1> QED
  BY <1>3, <1>4, Counting DEF HostLive, OneKernel, Host!OneKernel

-----------------------------------------------------------------------------
(* The pool of multiplexed connections.                                    *)

\* Openers between the count of connections, or of streams, and their own.
Connecting == {o \in Openers : pool_pc[o] = "connect"}
Adding(c) == {o \in Openers : at[o] = c /\ pool_pc[o] = "add"}

\* An opener that has a connection has one of the pool; the others cannot use one.
PoolPlaced ==
  /\ \A o \in Openers :
       pool_pc[o] \in {"check", "add", "open", "stream"} => at[o] \in Pool!Conns /\ at[o] <= size
  /\ \A c \in alive : c <= size

\* What openers have decided is counted with what there is: the limit is only
\* checked when there is room for the one that checks.
PoolRoom ==
  /\ size + Cardinality(Connecting) <= MaxConnections + Cardinality(Openers) - 1
  /\ \A c \in Pool!Conns :
       active[c] + Cardinality(Adding(c)) <= MaxStreams + Cardinality(Openers) - 1

PoolInv == Pool!TypeOK /\ PoolPlaced /\ PoolRoom /\ Pool!StreamsCounted

LEMMA PoolConstants ==
  /\ IsFiniteSet(Openers) /\ Cardinality(Openers) \in Nat
  /\ MaxConnections \in Nat \ {0} /\ MaxStreams \in Nat \ {0}
  /\ Pool!Conns = 1..(MaxConnections + Cardinality(Openers))
BY PartsAssumption, Counting, FS_CardinalityType DEF Pool!PoolAssumption, Pool!Conns

\* Sets of openers: how many, and one more or one less.
LEMMA OpenersCount ==
  ASSUME NEW S, S \subseteq Openers
  PROVE  IsFiniteSet(S) /\ Cardinality(S) \in Nat /\ Cardinality(S) <= Cardinality(Openers)
BY PoolConstants, FS_Subset, FS_CardinalityType

LEMMA OneMore ==
  ASSUME NEW S, S \subseteq Openers, NEW o \in Openers, o \notin S
  PROVE  Cardinality(S \cup {o}) = Cardinality(S) + 1
BY OpenersCount, FS_AddElement

LEMMA OneLess ==
  ASSUME NEW S, S \subseteq Openers, NEW o \in S
  PROVE  Cardinality(S \ {o}) = Cardinality(S) - 1 /\ Cardinality(S) >= 1
<1>1. S \ {o} \subseteq Openers /\ o \in Openers /\ o \notin S \ {o}
  OBVIOUS
<1>2. Cardinality((S \ {o}) \cup {o}) = Cardinality(S \ {o}) + 1
  BY <1>1, OneMore
<1>3. (S \ {o}) \cup {o} = S
  OBVIOUS
<1>4. Cardinality(S \ {o}) \in Nat /\ Cardinality(S) \in Nat
  BY <1>1, OpenersCount
<1> QED
  BY <1>2, <1>3, <1>4

\* An empty pool.
LEMMA PoolInit == Pool!Init => PoolInv
<1> SUFFICES ASSUME Pool!Init PROVE PoolInv
  OBVIOUS
<1> USE PoolConstants DEF Pool!Init
<1>1. Pool!TypeOK
  <2>1. singMux \in BOOLEAN
    BY Zenon
  <2> QED
    BY <2>1 DEF Pool!TypeOK
<1>2. Connecting = {} /\ \A c \in Pool!Conns : Adding(c) = {} /\ Pool!Users(c) = {}
  BY DEF Connecting, Adding, Pool!Users
<1>3. Cardinality({}) = 0
  BY FS_EmptySet
<1>4. \A c \in Pool!Conns : /\ active[c] = 0 /\ lost[c] = 0
                             /\ Cardinality(Adding(c)) = 0
                             /\ Pool!Cardinality(Pool!Users(c)) = 0
  BY <1>2, <1>3, Counting
<1>5. size = 0 /\ Cardinality(Connecting) = 0
  BY <1>2, <1>3
<1>6. PoolRoom
  BY <1>4, <1>5, PoolConstants DEF PoolRoom
<1>7. Pool!StreamsCounted
  BY <1>4 DEF Pool!StreamsCounted
<1> QED
  BY <1>1, <1>6, <1>7 DEF PoolInv, PoolPlaced

\* An opener that neither gets nor gives up a place.
LEMMA PoolMoves ==
  ASSUME PoolInv, NEW o \in Openers,
         UNCHANGED <<singMux, size, alive, active, ids, lost>>,
         pool_pc[o] \in {"idle", "count", "connect", "check"},
         NEW p \in {"idle", "count", "connect", "check"}, NEW a \in Pool!Conns \cup {0},
         pool_pc' = [pool_pc EXCEPT ![o] = p], at' = [at EXCEPT ![o] = a],
         p = "check" => a \in Pool!Conns /\ a <= size,
         p = "connect" => size < MaxConnections
  PROVE  PoolInv'
<1> USE PoolConstants DEF PoolInv
<1>1. Pool!TypeOK'
  <2>1. (singMux \in BOOLEAN)'
    BY Zenon DEF Pool!TypeOK
  <2> QED
    BY <2>1 DEF Pool!TypeOK
<1>2. PoolPlaced'
  BY DEF PoolPlaced, Pool!TypeOK
<1>3. \A c \in Pool!Conns : Adding(c)' = Adding(c) /\ Pool!Users(c)' = Pool!Users(c)
  BY DEF Adding, Pool!Users, Pool!TypeOK
<1>4. Pool!StreamsCounted'
  BY <1>3 DEF Pool!StreamsCounted
<1>5. size + Cardinality(Connecting') <= MaxConnections + Cardinality(Openers) - 1
  <2>1. Connecting \subseteq Openers /\ Connecting' \subseteq Openers
    BY DEF Connecting
  <2>2. /\ Cardinality(Connecting) \in Nat
        /\ Cardinality(Connecting') \in Nat /\ Cardinality(Connecting') <= Cardinality(Openers)
    BY <2>1, OpenersCount
  <2>3. size \in Nat
    BY DEF Pool!TypeOK
  <2>4. CASE p = "connect"
    BY <2>2, <2>3, <2>4
  <2>5. CASE p # "connect"
    <3>1. Connecting' \subseteq Connecting
      BY <2>5 DEF Connecting, Pool!TypeOK
    <3>2. Cardinality(Connecting') <= Cardinality(Connecting)
      BY <3>1, <2>1, OpenersCount, FS_Subset
    <3> QED
      BY <3>2, <2>2, <2>3 DEF PoolRoom
  <2> QED
    BY <2>4, <2>5
<1>6. PoolRoom'
  BY <1>3, <1>5 DEF PoolRoom
<1> QED
  BY <1>1, <1>2, <1>4, <1>6

\* An opener picks a connection, or decides to make one; the capacity of its
\* connection is checked a second time.
LEMMA PoolPicks ==
  ASSUME PoolInv, NEW o \in Openers,
         \/ Pool!PickConnection(o) \/ Pool!CanCreate(o) \/ Pool!CreateFails(o)
         \/ Pool!CheckCapacity(o) /\ ~Pool!HasCapacity(at[o])
  PROVE  PoolInv'
<1> USE PoolConstants
<1>t. /\ pool_pc \in [Openers -> {"idle", "count", "connect", "check", "add", "open", "stream"}]
      /\ at \in [Openers -> Pool!Conns \cup {0}] /\ size \in Nat
      /\ size <= MaxConnections + Cardinality(Openers)
  <2>1. Connecting \subseteq Openers
    BY DEF Connecting
  <2> QED
    BY <2>1, OpenersCount, SMTT(30) DEF PoolInv, Pool!TypeOK, PoolRoom
<1>1. CASE Pool!PickConnection(o)
  <2> DEFINE free == {c \in 1..size : Pool!HasCapacity(c)}
  <2>1. CASE free # {}
    <3> DEFINE a == CHOOSE c \in free : \A d \in free : c <= d
    <3>1. \E c \in free : \A d \in free : c <= d
      <4>1. free \subseteq Nat
        BY <1>t
      <4> QED
        BY <2>1, <4>1, LeastOf
    <3>2. a \in free
      BY <3>1
    <3>3. a \in Pool!Conns /\ a <= size
      BY <3>2, <1>t
    <3>4. /\ pool_pc[o] = "idle" /\ pool_pc' = [pool_pc EXCEPT ![o] = "check"]
          /\ at' = [at EXCEPT ![o] = a]
          /\ UNCHANGED <<singMux, size, alive, active, ids, lost>>
      BY <1>1, <2>1 DEF Pool!PickConnection, Pool!Goto
    <3> HIDE DEF a
    <3> QED
      BY <3>3, <3>4, PoolMoves
  <2>2. CASE free = {}
    <3>1. /\ pool_pc[o] = "idle" /\ pool_pc' = [pool_pc EXCEPT ![o] = "count"]
          /\ at' = [at EXCEPT ![o] = at[o]] /\ at[o] \in Pool!Conns \cup {0}
          /\ UNCHANGED <<singMux, size, alive, active, ids, lost>>
      BY <1>1, <2>2, <1>t DEF Pool!PickConnection, Pool!Goto
    <3> QED
      BY <3>1, PoolMoves
  <2> QED
    BY <2>1, <2>2
<1>2. CASE Pool!CanCreate(o)
  <2>1. /\ pool_pc[o] = "count" /\ at' = [at EXCEPT ![o] = at[o]]
        /\ at[o] \in Pool!Conns \cup {0}
        /\ UNCHANGED <<singMux, size, alive, active, ids, lost>>
    BY <1>2, <1>t DEF Pool!CanCreate, Pool!Goto
  <2>2. CASE size < MaxConnections
    <3>1. pool_pc' = [pool_pc EXCEPT ![o] = "connect"]
      BY <1>2, <2>2 DEF Pool!CanCreate, Pool!Goto
    <3> QED
      BY <2>1, <2>2, <3>1, PoolMoves
  <2>3. CASE ~(size < MaxConnections)
    <3>1. pool_pc' = [pool_pc EXCEPT ![o] = "idle"]
      BY <1>2, <2>3 DEF Pool!CanCreate, Pool!Goto
    <3> QED
      BY <2>1, <3>1, PoolMoves
  <2> QED
    BY <2>2, <2>3
<1>3. CASE Pool!CreateFails(o) \/ (Pool!CheckCapacity(o) /\ ~Pool!HasCapacity(at[o]))
  <2>1. /\ pool_pc[o] \in {"connect", "check"} /\ pool_pc' = [pool_pc EXCEPT ![o] = "idle"]
        /\ at' = [at EXCEPT ![o] = 0]
        /\ UNCHANGED <<singMux, size, alive, active, ids, lost>>
    BY <1>3 DEF Pool!CreateFails, Pool!CheckCapacity, Pool!Leave, Pool!Goto
  <2> QED
    BY <2>1, PoolMoves
<1> QED
  BY <1>1, <1>2, <1>3

\* A connection is made.
LEMMA PoolCreates ==
  ASSUME PoolInv, NEW o \in Openers, Pool!CreateConnection(o)
  PROVE  PoolInv'
<1> USE PoolConstants
<1>a. /\ pool_pc[o] = "connect" /\ pool_pc' = [pool_pc EXCEPT ![o] = "check"]
      /\ at' = [at EXCEPT ![o] = size + 1]
      /\ size' = size + 1 /\ alive' = alive \cup {size + 1}
      /\ UNCHANGED <<singMux, active, ids, lost>>
  BY DEF Pool!CreateConnection, Pool!Goto
<1>t. Pool!TypeOK /\ PoolPlaced /\ PoolRoom /\ Pool!StreamsCounted
  BY DEF PoolInv
<1>1. Connecting' = Connecting \ {o} /\ o \in Connecting /\ Connecting \subseteq Openers
  BY <1>a, <1>t DEF Connecting, Pool!TypeOK
<1>2. Cardinality(Connecting') = Cardinality(Connecting) - 1 /\ Cardinality(Connecting) >= 1
  BY <1>1, OneLess
<1>3. Cardinality(Connecting) \in Nat
  BY <1>1, OpenersCount
<1>4. size \in Nat /\ size + 1 \in Pool!Conns
  BY <1>2, <1>3, <1>t DEF PoolRoom, Pool!TypeOK
<1>5. Pool!TypeOK'
  <2>1. (singMux \in BOOLEAN)'
    BY <1>a, <1>t, Zenon DEF Pool!TypeOK
  <2>2. alive' \subseteq Pool!Conns
    BY <1>a, <1>t, <1>4 DEF Pool!TypeOK
  <2> QED
    BY <2>1, <2>2, <1>a, <1>t, <1>4 DEF Pool!TypeOK
<1>6. PoolPlaced'
  <2>1. \A c \in Pool!Conns : c \in Nat
    OBVIOUS
  <2> QED
    BY <2>1, <1>a, <1>t, <1>4 DEF PoolPlaced, Pool!TypeOK
<1>7. \A c \in Pool!Conns : Adding(c)' = Adding(c) /\ Pool!Users(c)' = Pool!Users(c)
  BY <1>a, <1>t DEF Adding, Pool!Users, Pool!TypeOK
<1>8. Pool!StreamsCounted'
  BY <1>7, <1>a, <1>t DEF Pool!StreamsCounted
<1>9. PoolRoom'
  <2>1. size' + Cardinality(Connecting') = size + Cardinality(Connecting)
    BY <1>2, <1>3, <1>4, <1>a
  <2> QED
    BY <2>1, <1>7, <1>a, <1>t DEF PoolRoom
<1> QED
  BY <1>5, <1>6, <1>8, <1>9 DEF PoolInv

\* There is room on the connection of o, which is about to take it.
LEMMA PoolChecks ==
  ASSUME PoolInv, NEW o \in Openers, Pool!CheckCapacity(o), Pool!HasCapacity(at[o])
  PROVE  PoolInv'
<1> USE PoolConstants
<1>a. /\ pool_pc[o] = "check" /\ pool_pc' = [pool_pc EXCEPT ![o] = "add"]
      /\ UNCHANGED <<singMux, size, alive, active, ids, lost, at>>
      /\ active[at[o]] < MaxStreams
  BY DEF Pool!CheckCapacity, Pool!Goto, Pool!HasCapacity
<1>t. Pool!TypeOK /\ PoolPlaced /\ PoolRoom /\ Pool!StreamsCounted
  BY DEF PoolInv
<1>1. Connecting' = Connecting /\ \A c \in Pool!Conns : Pool!Users(c)' = Pool!Users(c)
  BY <1>a, <1>t DEF Connecting, Pool!Users, Pool!TypeOK
<1>2. Pool!TypeOK'
  <2>1. (singMux \in BOOLEAN)'
    BY <1>a, <1>t, Zenon DEF Pool!TypeOK
  <2> QED
    BY <2>1, <1>a, <1>t DEF Pool!TypeOK
<1>3. PoolPlaced'
  BY <1>a, <1>t DEF PoolPlaced, Pool!TypeOK
<1>4. Pool!StreamsCounted'
  BY <1>1, <1>a, <1>t DEF Pool!StreamsCounted
<1>5. ASSUME NEW c \in Pool!Conns
      PROVE  active[c] + Cardinality(Adding(c)') <= MaxStreams + Cardinality(Openers) - 1
  <2>1. active[c] \in Nat
    BY <1>t DEF Pool!TypeOK
  <2>2. CASE c = at[o]
    <3>1. Adding(c)' \subseteq Openers
      BY DEF Adding
    <3>2. Cardinality(Adding(c)') \in Nat /\ Cardinality(Adding(c)') <= Cardinality(Openers)
      BY <3>1, OpenersCount
    <3> QED
      BY <3>2, <2>1, <2>2, <1>a
  <2>3. CASE c # at[o]
    <3>1. Adding(c)' = Adding(c)
      BY <2>3, <1>a, <1>t DEF Adding, Pool!TypeOK
    <3> QED
      BY <3>1, <1>t DEF PoolRoom
  <2> QED
    BY <2>2, <2>3
<1>6. PoolRoom'
  BY <1>1, <1>5, <1>a, <1>t DEF PoolRoom
<1> QED
  BY <1>2, <1>3, <1>4, <1>6 DEF PoolInv

\* The stream of o is counted; o uses it or what it counted is lost.
LEMMA PoolAdds ==
  ASSUME PoolInv, NEW o \in Openers, Pool!AddStream(o)
  PROVE  PoolInv'
<1> USE PoolConstants
<1>t. Pool!TypeOK /\ PoolPlaced /\ PoolRoom /\ Pool!StreamsCounted
  BY DEF PoolInv
<1>c. PICK c \in Pool!Conns : c = at[o] /\ c <= size
  BY <1>t DEF PoolPlaced, Pool!AddStream
<1>a. /\ pool_pc[o] = "add" /\ active' = [active EXCEPT ![c] = @ + 1]
      /\ UNCHANGED <<singMux, size, alive>>
  BY <1>c DEF Pool!AddStream
<1>d. c # 0
  BY <1>c
<1>b. \/ /\ pool_pc' = [pool_pc EXCEPT ![o] = "idle"] /\ at' = [at EXCEPT ![o] = 0]
         /\ lost' = [lost EXCEPT ![c] = @ + 1] /\ ids' = ids
      \/ /\ pool_pc' = [pool_pc EXCEPT ![o] = "open"] /\ at' = at
         /\ lost' = lost /\ ids' \in [Pool!Conns -> 0..MaxStreams]
  <2>1. CASE Pool!Lose(o) /\ UNCHANGED ids
    BY <2>1, <1>a, <1>c DEF Pool!Lose, Pool!Leave, Pool!Goto
  <2>2. CASE /\ singMux => ids[c] < MaxStreams
             /\ ids' = IF singMux THEN [ids EXCEPT ![c] = @ + 1] ELSE ids
             /\ Pool!Goto(o, "add", "open") /\ UNCHANGED <<at, lost>>
    <3>1. ids' \in [Pool!Conns -> 0..MaxStreams]
      <4>1. CASE singMux
        <5>1. ids[c] \in Nat /\ ids[c] < MaxStreams
          BY <4>1, <2>2, <1>c, <1>t DEF Pool!TypeOK
        <5> QED
          BY <4>1, <5>1, <2>2, <1>c, <1>t DEF Pool!TypeOK
      <4>2. CASE ~singMux
        BY <4>2, <2>2, <1>t DEF Pool!TypeOK
      <4> QED
        BY <4>1, <4>2
    <3> QED
      BY <3>1, <2>2 DEF Pool!Goto
  <2> QED
    BY <2>1, <2>2, <1>c DEF Pool!AddStream
<1>1. Pool!TypeOK'
  <2>1. (singMux \in BOOLEAN)'
    BY <1>a, <1>t, Zenon DEF Pool!TypeOK
  <2>2. active' \in [Pool!Conns -> Nat] /\ size' \in Nat /\ alive' \subseteq Pool!Conns
    BY <1>a, <1>c, <1>t DEF Pool!TypeOK
  <2>3. pool_pc' \in [Openers -> {"idle", "count", "connect", "check", "add", "open", "stream"}]
    BY <1>b, <1>t DEF Pool!TypeOK
  <2>4. at' \in [Openers -> Pool!Conns \cup {0}]
    BY <1>b, <1>t DEF Pool!TypeOK
  <2>5. ids' \in [Pool!Conns -> 0..MaxStreams]
    BY <1>b, <1>t DEF Pool!TypeOK
  <2>6. lost' \in [Pool!Conns -> Nat]
    <3>1. lost \in [Pool!Conns -> Nat] /\ lost[c] + 1 \in Nat
      BY <1>t DEF Pool!TypeOK
    <3>2. lost' = [lost EXCEPT ![c] = lost[c] + 1] \/ lost' = lost
      BY <1>b
    <3> QED
      BY <3>1, <3>2
  <2> QED
    BY <2>1, <2>2, <2>3, <2>4, <2>5, <2>6 DEF Pool!TypeOK
<1>2. PoolPlaced'
  BY <1>a, <1>b, <1>t, SMTT(30) DEF PoolPlaced, Pool!TypeOK
<1>3. Connecting' = Connecting
  BY <1>a, <1>b, <1>t DEF Connecting, Pool!TypeOK
<1>4. ASSUME NEW d \in Pool!Conns, d # c
      PROVE  /\ Adding(d)' = Adding(d) /\ Pool!Users(d)' = Pool!Users(d)
             /\ active'[d] = active[d] /\ lost'[d] = lost[d]
  <2>1. Adding(d)' = Adding(d) /\ Pool!Users(d)' = Pool!Users(d)
    BY <1>4, <1>a, <1>b, <1>c, <1>t DEF Adding, Pool!Users, Pool!TypeOK
  <2>2. active'[d] = active[d]
    BY <1>4, <1>a, <1>t DEF Pool!TypeOK
  <2>3. lost'[d] = lost[d]
    BY <1>4, <1>b, <1>t DEF Pool!TypeOK
  <2> QED
    BY <2>1, <2>2, <2>3
<1>5. Adding(c)' = Adding(c) \ {o} /\ o \in Adding(c) /\ Adding(c) \subseteq Openers
  BY <1>a, <1>b, <1>c, <1>d, <1>t DEF Adding, Pool!TypeOK
<1>6. /\ Cardinality(Adding(c)') = Cardinality(Adding(c)) - 1 /\ Cardinality(Adding(c)) \in Nat
      /\ active'[c] = active[c] + 1 /\ active[c] \in Nat
  BY <1>5, <1>a, <1>c, <1>t, OneLess, OpenersCount DEF Pool!TypeOK
<1>7. PoolRoom'
  <2>1. size' + Cardinality(Connecting') <= MaxConnections + Cardinality(Openers) - 1
    BY <1>3, <1>a, <1>t DEF PoolRoom
  <2>2. active'[c] + Cardinality(Adding(c)') <= MaxStreams + Cardinality(Openers) - 1
    <3>1. active[c] + Cardinality(Adding(c)) <= MaxStreams + Cardinality(Openers) - 1
      BY <1>c, <1>t DEF PoolRoom
    <3>2. active'[c] + Cardinality(Adding(c)') = active[c] + Cardinality(Adding(c))
      BY <1>6
    <3> QED
      BY <3>1, <3>2
  <2>3. ASSUME NEW d \in Pool!Conns, d # c
        PROVE  active'[d] + Cardinality(Adding(d)') <= MaxStreams + Cardinality(Openers) - 1
    <3>1. active[d] + Cardinality(Adding(d)) <= MaxStreams + Cardinality(Openers) - 1
      BY <1>t DEF PoolRoom
    <3> QED
      BY <3>1, <2>3, <1>4
  <2> QED
    BY <2>1, <2>2, <2>3 DEF PoolRoom
<1>8. active'[c] = Pool!Cardinality(Pool!Users(c)') + lost'[c]
  <2>1. active[c] = Cardinality(Pool!Users(c)) + lost[c] /\ lost[c] \in Nat
    BY <1>c, <1>t, Counting DEF Pool!StreamsCounted, Pool!TypeOK
  <2>2. Pool!Users(c) \subseteq Openers /\ o \notin Pool!Users(c)
    BY <1>a DEF Pool!Users
  <2>3. Cardinality(Pool!Users(c)) \in Nat
    BY <2>2, OpenersCount
  <2>4. CASE /\ pool_pc' = [pool_pc EXCEPT ![o] = "idle"]
             /\ lost' = [lost EXCEPT ![c] = @ + 1]
    <3>1. Pool!Users(c)' = Pool!Users(c)
      BY <2>4, <1>a, <1>b, <1>c, <1>d, <1>t DEF Pool!Users, Pool!TypeOK
    <3>2. lost'[c] = lost[c] + 1
      BY <2>4, <1>c, <1>t DEF Pool!TypeOK
    <3> QED
      BY <3>1, <3>2, <2>1, <2>3, <1>6, Counting
  <2>5. CASE pool_pc' = [pool_pc EXCEPT ![o] = "open"] /\ at' = at /\ lost' = lost
    <3>1. Pool!Users(c)' = Pool!Users(c) \cup {o}
      BY <2>5, <1>a, <1>c, <1>t DEF Pool!Users, Pool!TypeOK
    <3>2. Cardinality(Pool!Users(c)') = Cardinality(Pool!Users(c)) + 1
      BY <3>1, <2>2, OneMore
    <3> QED
      BY <3>2, <2>1, <2>3, <2>5, <1>6, Counting, SMTT(30)
  <2> QED
    BY <2>4, <2>5, <1>b
<1>9. Pool!StreamsCounted'
  BY <1>4, <1>8, <1>t DEF Pool!StreamsCounted
<1> QED
  BY <1>1, <1>2, <1>7, <1>9 DEF PoolInv

\* The stream of o ends, or what was counted for it is lost: o has no
\* connection any more, and the counter stays exact.
LEMMA PoolLeaves ==
  ASSUME PoolInv, NEW o \in Openers,
         Pool!SessionFails(o) \/ Pool!Cancel(o) \/ Pool!DropStream(o)
  PROVE  PoolInv'
<1> USE PoolConstants
<1>t. Pool!TypeOK /\ PoolPlaced /\ PoolRoom /\ Pool!StreamsCounted
  BY DEF PoolInv
<1>c. PICK c \in Pool!Conns : c = at[o] /\ c # 0
  BY <1>t DEF PoolPlaced, Pool!SessionFails, Pool!Cancel, Pool!DropStream
<1>a. /\ pool_pc[o] \in {"open", "stream"} /\ pool_pc' = [pool_pc EXCEPT ![o] = "idle"]
      /\ at' = [at EXCEPT ![o] = 0]
      /\ UNCHANGED <<singMux, size, alive, ids>>
  BY DEF Pool!SessionFails, Pool!Cancel, Pool!DropStream, Pool!Lose, Pool!Leave, Pool!Goto
<1>b. \/ lost' = [lost EXCEPT ![c] = @ + 1] /\ active' = active
      \/ lost' = lost /\ active' = [active EXCEPT ![c] = @ - 1]
  BY <1>c DEF Pool!SessionFails, Pool!Cancel, Pool!DropStream, Pool!Lose
<1>1. Connecting' = Connecting /\ \A d \in Pool!Conns : Adding(d)' = Adding(d)
  BY <1>a, <1>c, <1>t DEF Connecting, Adding, Pool!TypeOK
<1>2. ASSUME NEW d \in Pool!Conns, d # c
      PROVE  /\ Pool!Users(d)' = Pool!Users(d)
             /\ active'[d] = active[d] /\ lost'[d] = lost[d]
  <2>1. Pool!Users(d)' = Pool!Users(d)
    BY <1>2, <1>a, <1>c, <1>t DEF Pool!Users, Pool!TypeOK
  <2>2. active'[d] = active[d] /\ lost'[d] = lost[d]
    BY <1>2, <1>b, <1>t DEF Pool!TypeOK
  <2> QED
    BY <2>1, <2>2
<1>3. Pool!Users(c)' = Pool!Users(c) \ {o} /\ o \in Pool!Users(c) /\ Pool!Users(c) \subseteq Openers
  BY <1>a, <1>c, <1>t DEF Pool!Users, Pool!TypeOK
<1>4. /\ Cardinality(Pool!Users(c)') = Cardinality(Pool!Users(c)) - 1
      /\ Cardinality(Pool!Users(c)) \in Nat /\ Cardinality(Pool!Users(c)) >= 1
  BY <1>3, OneLess, OpenersCount
<1>5. active[c] = Cardinality(Pool!Users(c)) + lost[c] /\ lost[c] \in Nat /\ active[c] \in Nat
  BY <1>c, <1>t, Counting DEF Pool!StreamsCounted, Pool!TypeOK
<1>6. /\ active'[c] = Cardinality(Pool!Users(c)') + lost'[c]
      /\ active'[c] \in Nat /\ active'[c] <= active[c]
  <2>1. CASE lost' = [lost EXCEPT ![c] = @ + 1] /\ active' = active
    <3>1. lost'[c] = lost[c] + 1
      BY <2>1, <1>t DEF Pool!TypeOK
    <3> QED
      BY <3>1, <2>1, <1>4, <1>5
  <2>2. CASE lost' = lost /\ active' = [active EXCEPT ![c] = @ - 1]
    <3>1. active'[c] = active[c] - 1
      BY <2>2, <1>t DEF Pool!TypeOK
    <3> QED
      BY <3>1, <2>2, <1>4, <1>5
  <2> QED
    BY <2>1, <2>2, <1>b
<1>7. Pool!TypeOK'
  <2>1. (singMux \in BOOLEAN)'
    BY <1>a, <1>t, Zenon DEF Pool!TypeOK
  <2>2. /\ pool_pc' \in [Openers -> {"idle", "count", "connect", "check", "add", "open", "stream"}]
        /\ at' \in [Openers -> Pool!Conns \cup {0}]
    BY <1>a, <1>t DEF Pool!TypeOK
  <2>3. active' \in [Pool!Conns -> Nat]
    <3>1. CASE active' = active
      BY <3>1, <1>t DEF Pool!TypeOK
    <3>2. CASE active' = [active EXCEPT ![c] = @ - 1]
      <4>1. active[c] - 1 \in Nat
        BY <1>4, <1>5
      <4> QED
        BY <4>1, <3>2, <1>t DEF Pool!TypeOK
    <3> QED
      BY <3>1, <3>2, <1>b
  <2>4. lost' \in [Pool!Conns -> Nat]
    BY <1>b, <1>t DEF Pool!TypeOK
  <2> QED
    BY <2>1, <2>2, <2>3, <2>4, <1>a, <1>t DEF Pool!TypeOK
<1>8. PoolPlaced'
  BY <1>a, <1>t DEF PoolPlaced, Pool!TypeOK
<1>9. PoolRoom'
  <2>1. ASSUME NEW d \in Pool!Conns
        PROVE  active'[d] + Cardinality(Adding(d)') <= MaxStreams + Cardinality(Openers) - 1
    <3>1. Adding(d) \subseteq Openers /\ Adding(d)' = Adding(d)
      BY <1>1 DEF Adding
    <3>2. Cardinality(Adding(d)) \in Nat
      BY <3>1, OpenersCount
    <3>0. active[d] \in Nat
      BY <1>t DEF Pool!TypeOK
    <3>3. active'[d] <= active[d] /\ active'[d] \in Nat /\ active[d] \in Nat
      <4>1. CASE d = c
        BY <4>1, <3>0, <1>6
      <4>2. CASE d # c
        <5>1. active'[d] = active[d]
          BY <4>2, <1>2
        <5> QED
          BY <5>1, <3>0
      <4> QED
        BY <4>1, <4>2
    <3>4. active[d] + Cardinality(Adding(d)) <= MaxStreams + Cardinality(Openers) - 1
      BY <1>t DEF PoolRoom
    <3> QED
      BY <3>1, <3>2, <3>3, <3>4
  <2> QED
    BY <2>1, <1>1, <1>a, <1>t DEF PoolRoom
<1>10. Pool!StreamsCounted'
  BY <1>2, <1>6, <1>t, Counting DEF Pool!StreamsCounted
<1> QED
  BY <1>7, <1>8, <1>9, <1>10 DEF PoolInv

\* A stream that opens has been counted; a connection that dies stays.
LEMMA PoolOpens ==
  ASSUME PoolInv,
         (\E o \in Openers : Pool!SessionOpens(o)) \/ (\E c \in Pool!Conns : Pool!Dies(c))
  PROVE  PoolInv'
<1> USE PoolConstants
<1>t. Pool!TypeOK /\ PoolPlaced /\ PoolRoom /\ Pool!StreamsCounted
  BY DEF PoolInv
<1>1. CASE \E o \in Openers : Pool!SessionOpens(o)
  <2>1. PICK o \in Openers : Pool!SessionOpens(o)
    BY <1>1
  <2>2. /\ Connecting' = Connecting
        /\ \A c \in Pool!Conns : Adding(c)' = Adding(c) /\ Pool!Users(c)' = Pool!Users(c)
    BY <2>1, <1>t DEF Connecting, Adding, Pool!Users, Pool!TypeOK, Pool!SessionOpens, Pool!Goto
  <2>3. Pool!TypeOK'
    <3>1. (singMux \in BOOLEAN)'
      BY <2>1, <1>t, Zenon DEF Pool!TypeOK, Pool!SessionOpens
    <3> QED
      BY <3>1, <2>1, <1>t DEF Pool!TypeOK, Pool!SessionOpens, Pool!Goto
  <2>4. PoolPlaced'
    BY <2>1, <1>t DEF PoolPlaced, Pool!TypeOK, Pool!SessionOpens, Pool!Goto
  <2>5. PoolRoom' /\ Pool!StreamsCounted'
    BY <2>1, <2>2, <1>t DEF PoolRoom, Pool!StreamsCounted, Pool!SessionOpens
  <2> QED
    BY <2>3, <2>4, <2>5 DEF PoolInv
<1>2. CASE \E c \in Pool!Conns : Pool!Dies(c)
  <2>1. alive' \subseteq alive /\ UNCHANGED <<singMux, size, active, ids, lost, pool_pc, at>>
    BY <1>2 DEF Pool!Dies
  <2>2. /\ Connecting' = Connecting
        /\ \A c \in Pool!Conns : Adding(c)' = Adding(c) /\ Pool!Users(c)' = Pool!Users(c)
    BY <2>1 DEF Connecting, Adding, Pool!Users
  <2>3. Pool!TypeOK'
    BY <2>1, <1>t DEF Pool!TypeOK
  <2>4. PoolPlaced'
    BY <2>1, <1>t DEF PoolPlaced
  <2>5. PoolRoom' /\ Pool!StreamsCounted'
    BY <2>1, <2>2, <1>t DEF PoolRoom, Pool!StreamsCounted
  <2> QED
    BY <2>3, <2>4, <2>5 DEF PoolInv
<1> QED
  BY <1>1, <1>2

LEMMA PoolKept == ASSUME PoolInv, Pool!Next PROVE PoolInv'
<1>1. ASSUME NEW o \in Openers, Pool!CheckCapacity(o) PROVE PoolInv'
  BY <1>1, PoolChecks, PoolPicks
<1> QED
  BY <1>1, PoolPicks, PoolCreates, PoolAdds, PoolLeaves, PoolOpens DEF Pool!Next

\* Nobody who has not decided yet adds to what there is.
LEMMA PoolBounded == PoolInv => OvershootBounded
<1> SUFFICES ASSUME PoolInv PROVE OvershootBounded
  OBVIOUS
<1>t. Pool!TypeOK /\ PoolRoom
  BY DEF PoolInv
<1>1. Connecting \subseteq Openers /\ \A c \in Pool!Conns : Adding(c) \subseteq Openers
  BY DEF Connecting, Adding
<1>2. Cardinality(Connecting) \in Nat /\ \A c \in Pool!Conns : Cardinality(Adding(c)) \in Nat
  BY <1>1, OpenersCount
<1>3. size \in Nat /\ \A c \in Pool!Conns : active[c] \in Nat
  BY <1>t DEF Pool!TypeOK
<1>4. size <= MaxConnections + Cardinality(Openers) - 1
  BY <1>2, <1>3, <1>t, PoolConstants DEF PoolRoom
<1>5. \A c \in Pool!Conns : active[c] <= MaxStreams + Cardinality(Openers) - 1
  BY <1>2, <1>3, <1>t, PoolConstants DEF PoolRoom
<1> QED
  BY <1>4, <1>5, Counting DEF OvershootBounded, Pool!OvershootBounded

-----------------------------------------------------------------------------
(* Rule providers.                                                         *)

\* A matcher at work holds the lock; refreshes never load from the file.
ProviderHeld ==
  /\ \A t \in Matchers : load_pc[t] \notin {"idle", "lock"} => load_lock = t
  /\ \A t \in Refreshers : load_pc[t] \notin {"lock", "file"}

\* Unless a refresh has met something, one task is at work.
ProviderAlone == overlapped \/ \A t, u \in Provider!Busy : t = u

\* A body comes whole, and is good once it is parsed.
ProviderGot ==
  \A t \in Provider!Tasks :
    /\ got[t].st # "part"
    /\ load_pc[t] \in {"trunc", "fill", "parse", "stamp", "flag"} => got[t] # Provider!Nothing
    /\ load_pc[t] \in {"stamp", "flag"} => got[t].st = "good"

\* The stamp is of the rules in memory, but for the moment between the two; an
\* instance with a stamp is loaded or about to be, and a load is of one that is not.
ProviderStamped ==
  ~overlapped =>
    /\ last_modified # 0 =>
         /\ \/ \E t \in Provider!Tasks : load_pc[t] = "stamp"
            \/ provided = [v |-> last_modified, st |-> "good"]
         /\ loaded \/ \E t \in Provider!Tasks : load_pc[t] = "flag"
    /\ \A t \in Provider!Tasks :
         /\ load_pc[t] = "stamp" => provided = got[t]
         /\ load_pc[t] = "wait" => cond[t] = last_modified
         /\ t \in Matchers /\ load_pc[t] \notin {"idle", "lock", "flag"} => ~loaded

ProviderInv ==
  Provider!TypeOK /\ ProviderHeld /\ ProviderAlone /\ ProviderGot /\ ProviderStamped

LEMMA ProviderConstants ==
  /\ Matchers \cap Refreshers = {} /\ None \notin Provider!Tasks
  /\ MaxVersion \in Nat \ {0} /\ MaxRestarts \in Nat
  /\ Provider!Tasks = Matchers \cup Refreshers
BY PartsAssumption DEF Provider!ProviderAssumption, Provider!Tasks

\* The types of what is not a task's own.
ProviderType ==
  /\ server \in 1..MaxVersion
  /\ file \in Provider!Contents \cup {Provider!Nothing}
  /\ provided \in Provider!Contents \cup {Provider!Nothing}
  /\ last_modified \in 0..MaxVersion
  /\ restarts \in 0..MaxRestarts

\* The types of the flags.
ProviderFlags ==
  old \in BOOLEAN /\ strays \in BOOLEAN /\ loaded \in BOOLEAN /\ overlapped \in BOOLEAN

\* Where the tasks are and what they hold.
ProviderTasks ==
  /\ load_lock \in Matchers \cup {None}
  /\ load_pc \in [Provider!Tasks -> Provider!Pcs] /\ cond \in [Provider!Tasks -> 0..MaxVersion]
  /\ got \in [Provider!Tasks -> Provider!Contents \cup {Provider!Nothing}]
  /\ had \in [Provider!Tasks -> {"none", "good", "bad", "part"}]

LEMMA ProviderTypes == Provider!TypeOK <=> ProviderType /\ ProviderFlags /\ ProviderTasks
BY Zenon DEF Provider!TypeOK, ProviderType, ProviderFlags, ProviderTasks

LEMMA ProviderTypesNext ==
  (Provider!TypeOK <=> ProviderType /\ ProviderFlags /\ ProviderTasks)'
BY Zenon DEF Provider!TypeOK, ProviderType, ProviderFlags, ProviderTasks

LEMMA ProviderInit == Provider!Init => ProviderInv
<1> SUFFICES ASSUME Provider!Init PROVE ProviderInv
  OBVIOUS
<1> USE ProviderConstants DEF Provider!Init
<1>1. ProviderType /\ ProviderTasks
  BY DEF ProviderType, ProviderTasks, Provider!Pcs
<1>2. ProviderFlags
  BY Zenon DEF ProviderFlags
<1>3. ProviderHeld /\ ProviderAlone
  BY DEF ProviderHeld, ProviderAlone, Provider!Busy
<1>4. ProviderGot /\ ProviderStamped
  BY DEF ProviderGot, ProviderStamped, Provider!Nothing
<1> QED
  BY <1>1, <1>2, <1>3, <1>4, ProviderTypes DEF ProviderInv

\* Of two tasks at work one is a refresh that meets the other.
LEMMA ProviderMeeting ==
  ASSUME ProviderAlone, NEW t, NEW r \in Provider!Busy \cup {t}, r \in Refreshers,
         ~Provider!Meets(Provider!Busy \cup {t})
  PROVE  \A u \in Provider!Busy : u = t
<1> SUFFICES ASSUME NEW u \in Provider!Busy, u # t PROVE FALSE
  OBVIOUS
<1>1. ~overlapped
  BY DEF Provider!Meets
<1>2. Provider!Busy \cup {t} = {u, t}
  BY <1>1 DEF ProviderAlone
<1>3. Cardinality({u, t}) = 2
  <2>1. IsFiniteSet({u}) /\ Cardinality({u}) = 1
    BY FS_Singleton
  <2>a. t \notin {u}
    OBVIOUS
  <2>b. Cardinality({u} \cup {t}) = Cardinality({u}) + 1
    BY <2>1, <2>a, FS_AddElement
  <2>2. Cardinality({u} \cup {t}) = 2
    BY <2>1, <2>b
  <2>3. {u} \cup {t} = {u, t}
    OBVIOUS
  <2> QED
    BY <2>2, <2>3
<1> QED
  BY <1>1, <1>2, <1>3, Counting DEF Provider!Meets

\* While t is at work alone, what ProviderStamped says is about t.
LEMMA ProviderOnly ==
  ASSUME ProviderInv, NEW t \in Provider!Tasks, load_pc[t] \notin {"idle", "lock"}, ~overlapped
  PROVE  /\ \A u \in Provider!Tasks : u # t => load_pc[u] \in {"idle", "lock"}
         /\ last_modified # 0 =>
              /\ load_pc[t] = "stamp" \/ provided = [v |-> last_modified, st |-> "good"]
              /\ loaded \/ load_pc[t] = "flag"
         /\ load_pc[t] = "stamp" => provided = got[t]
         /\ load_pc[t] = "wait" => cond[t] = last_modified
         /\ t \in Matchers /\ load_pc[t] # "flag" => ~loaded
<1>1. \A u \in Provider!Tasks : u # t => load_pc[u] \in {"idle", "lock"}
  BY DEF ProviderInv, ProviderAlone, Provider!Busy
<1> QED
  BY <1>1 DEF ProviderInv, ProviderStamped

LEMMA ProviderOnlyNext ==
  ASSUME NEW t \in Provider!Tasks,
         ~overlapped' =>
           /\ \A u \in Provider!Tasks : u # t => load_pc'[u] \in {"idle", "lock"}
           /\ last_modified' # 0 =>
                /\ load_pc'[t] = "stamp" \/ provided' = [v |-> last_modified', st |-> "good"]
                /\ loaded' \/ load_pc'[t] = "flag"
           /\ load_pc'[t] = "stamp" => provided' = got'[t]
           /\ load_pc'[t] = "wait" => cond'[t] = last_modified'
           /\ t \in Matchers /\ load_pc'[t] \notin {"idle", "lock", "flag"} => ~loaded'
  PROVE  ProviderStamped'
BY DEF ProviderStamped

\* A task that is at work goes on, or is through and releases the lock.
LEMMA ProviderWorks ==
  ASSUME ProviderInv, NEW t \in Provider!Tasks, load_pc[t] \notin {"idle", "lock"},
         NEW p \in Provider!Pcs \ {"lock"}, load_pc' = [load_pc EXCEPT ![t] = p],
         p = "file" => t \in Matchers,
         \/ p # "idle" /\ load_lock' = load_lock
         \/ p = "idle" /\ load_lock' = IF load_lock = t THEN None ELSE load_lock,
         UNCHANGED overlapped
  PROVE  /\ ProviderHeld' /\ ProviderAlone'
         /\ load_pc' \in [Provider!Tasks -> Provider!Pcs] /\ load_lock' \in Matchers \cup {None}
         /\ load_pc'[t] = p
         /\ ~overlapped => \A u \in Provider!Tasks : u # t => load_pc'[u] \in {"idle", "lock"}
<1> USE ProviderConstants
<1>t. ProviderTasks /\ ProviderHeld /\ ProviderAlone
  BY ProviderTypes DEF ProviderInv
<1>1. load_pc' \in [Provider!Tasks -> Provider!Pcs] /\ load_lock' \in Matchers \cup {None}
  BY <1>t DEF ProviderTasks
<1>2. ProviderHeld'
  BY <1>t DEF ProviderHeld, ProviderTasks
<1>3. ProviderAlone'
  <2>1. Provider!Busy' \subseteq Provider!Busy
    BY <1>t DEF Provider!Busy, ProviderTasks
  <2> QED
    BY <2>1, <1>t DEF ProviderAlone
<1>4. load_pc'[t] = p /\ \A u \in Provider!Tasks : u # t => load_pc'[u] = load_pc[u]
  BY <1>t DEF ProviderTasks
<1> QED
  BY <1>1, <1>2, <1>3, <1>4, ProviderOnly

\* A task that is through, or falls back on the file.
LEMMA ProviderFinishes ==
  ASSUME ProviderInv, NEW t \in Provider!Tasks, load_pc[t] \notin {"idle", "lock"},
         Provider!Finish(t) \/ Provider!Fails(t), UNCHANGED overlapped
  PROVE  /\ ProviderHeld' /\ ProviderAlone' /\ ProviderGot' /\ ProviderTasks'
         /\ load_pc'[t] \in {"idle", "file"}
         /\ ~overlapped => \A u \in Provider!Tasks : u # t => load_pc'[u] \in {"idle", "lock"}
<1> USE ProviderConstants
<1>t. ProviderType /\ ProviderFlags /\ ProviderTasks /\ ProviderGot
  BY ProviderTypes DEF ProviderInv
<1>1. PICK p \in {"idle", "file"} :
        /\ load_pc' = [load_pc EXCEPT ![t] = p]
        /\ p = "file" => t \in Matchers
        /\ \/ p # "idle" /\ load_lock' = load_lock
           \/ p = "idle" /\ load_lock' = IF load_lock = t THEN None ELSE load_lock
        /\ cond' = [cond EXCEPT ![t] = 0]
        /\ got' = [got EXCEPT ![t] = Provider!Nothing]
        /\ had' = had \/ had' = [had EXCEPT ![t] = "none"]
  <2>1. CASE Provider!Finish(t)
    BY <2>1 DEF Provider!Finish
  <2>2. CASE Provider!Fails(t)
    BY <2>2 DEF Provider!Fails, Provider!Finish
  <2> QED
    BY <2>1, <2>2
<1>2. /\ ProviderHeld' /\ ProviderAlone'
      /\ load_pc' \in [Provider!Tasks -> Provider!Pcs] /\ load_lock' \in Matchers \cup {None}
      /\ load_pc'[t] = p
      /\ ~overlapped => \A u \in Provider!Tasks : u # t => load_pc'[u] \in {"idle", "lock"}
  <2>1. p \in Provider!Pcs \ {"lock"}
    BY DEF Provider!Pcs
  <2> QED
    BY <1>1, <2>1, ProviderWorks
<1>3. ProviderTasks'
  BY <1>1, <1>2, <1>t DEF ProviderTasks
<1>4. ProviderGot'
  BY <1>1, <1>t DEF ProviderGot, ProviderTasks, Provider!Nothing
<1> QED
  BY <1>2, <1>3, <1>4

\* Loads from the file, answers without a body, and failures.
LEMMA ProviderEnds ==
  ASSUME ProviderInv, NEW t \in Provider!Tasks,
         \/ Provider!LoadFile(t) \/ Provider!NotModified(t) \/ Provider!RequestFails(t)
         \/ Provider!WriteFails(t) \/ Provider!SetLoaded(t)
  PROVE  ProviderInv'
<1> USE ProviderConstants
<1>t. ProviderType /\ ProviderFlags /\ ProviderTasks
  BY ProviderTypes DEF ProviderInv
<1>a. /\ load_pc[t] \in {"file", "wait", "fill", "flag"}
      /\ Provider!Finish(t) \/ Provider!Fails(t)
      /\ UNCHANGED <<server, file, old, strays, last_modified, restarts, overlapped>>
      /\ provided' = provided \/ (provided' = file /\ load_pc[t] = "file")
  BY DEF Provider!LoadFile, Provider!NotModified, Provider!RequestFails, Provider!WriteFails,
         Provider!SetLoaded, Provider!disk, Provider!memory, Provider!world
<1>l. \/ loaded' = loaded /\ load_pc[t] # "flag"
      \/ loaded' = TRUE /\ load_pc'[t] = "idle"
  <2>1. CASE Provider!LoadFile(t)
    <3>1. load_pc[t] = "file" /\ load_pc' = [load_pc EXCEPT ![t] = "idle"]
      BY <2>1 DEF Provider!LoadFile, Provider!Finish
    <3>2. load_pc'[t] = "idle"
      BY <3>1, <1>t DEF ProviderTasks
    <3>3. loaded' = loaded \/ loaded' = TRUE
      BY <2>1 DEF Provider!LoadFile, Provider!memory
    <3> QED
      BY <3>1, <3>2, <3>3
  <2>2. CASE Provider!NotModified(t)
    <3>1. load_pc[t] = "wait" /\ load_pc' = [load_pc EXCEPT ![t] = "idle"]
          /\ loaded' = (loaded \/ t \in Matchers)
      BY <2>2 DEF Provider!NotModified, Provider!Finish
    <3>2. load_pc'[t] = "idle"
      BY <3>1, <1>t DEF ProviderTasks
    <3>3. loaded' = loaded \/ loaded' = TRUE
      BY <3>1, <1>t DEF ProviderFlags
    <3> QED
      BY <3>1, <3>2, <3>3
  <2>3. CASE Provider!RequestFails(t) \/ Provider!WriteFails(t)
    BY <2>3 DEF Provider!RequestFails, Provider!WriteFails, Provider!memory
  <2>4. CASE Provider!SetLoaded(t)
    <3>1. load_pc' = [load_pc EXCEPT ![t] = "idle"] /\ loaded' = TRUE
      BY <2>4 DEF Provider!SetLoaded, Provider!Finish
    <3> QED
      BY <3>1, <1>t DEF ProviderTasks
  <2> QED
    BY <2>1, <2>2, <2>3, <2>4
<1>1. /\ ProviderHeld' /\ ProviderAlone' /\ ProviderGot' /\ ProviderTasks'
      /\ load_pc'[t] \in {"idle", "file"}
      /\ ~overlapped => \A u \in Provider!Tasks : u # t => load_pc'[u] \in {"idle", "lock"}
  BY <1>a, ProviderFinishes
<1>2. ProviderType'
  BY <1>a, <1>t DEF ProviderType
<1>3. ProviderFlags'
  BY <1>l, <1>a, <1>t, Zenon DEF ProviderFlags
<1>4. ProviderStamped'
  <2> SUFFICES ASSUME ~overlapped
               PROVE  /\ last_modified # 0 =>
                           /\ provided' = [v |-> last_modified, st |-> "good"]
                           /\ loaded'
                      /\ t \in Matchers /\ load_pc'[t] = "file" => ~loaded'
    BY <1>1, <1>a, ProviderOnlyNext
  <2>1. /\ last_modified # 0 =>
             /\ provided = [v |-> last_modified, st |-> "good"]
             /\ loaded \/ load_pc[t] = "flag"
        /\ t \in Matchers /\ load_pc[t] # "flag" => ~loaded
    BY <1>a, ProviderOnly
  <2>2. load_pc[t] = "file" => t \in Matchers
    BY DEF ProviderInv, ProviderHeld
  <2> QED
    BY <2>1, <2>2, <1>a, <1>l
<1> QED
  BY <1>1, <1>2, <1>3, <1>4, ProviderTypesNext DEF ProviderInv

\* A request and the body of its answer.
LEMMA ProviderAsks ==
  ASSUME ProviderInv, NEW t \in Provider!Tasks,
         Provider!SendRequest(t) \/ \E st \in {"good", "bad"} : Provider!Body(t, st)
  PROVE  ProviderInv'
<1> USE ProviderConstants
<1>t. ProviderType /\ ProviderFlags /\ ProviderTasks /\ ProviderGot
  BY ProviderTypes DEF ProviderInv
<1>a. PICK p \in {"wait", "trunc"}, n \in 0..MaxVersion,
           b \in {x \in Provider!Contents : x.st # "part"} \cup {got[t]} :
        /\ load_pc[t] \in {"ask", "wait"} /\ load_pc' = [load_pc EXCEPT ![t] = p]
        /\ cond' = [cond EXCEPT ![t] = n] /\ got' = [got EXCEPT ![t] = b]
        /\ p = "trunc" => b \in Provider!Contents
        /\ p = "wait" => n = last_modified
        /\ UNCHANGED <<server, file, old, strays, provided, last_modified, loaded, load_lock,
                       had, restarts, overlapped>>
  <2> USE DEF Provider!disk, Provider!memory, Provider!world, Provider!Goto
  <2>1. CASE Provider!SendRequest(t)
    <3>1. got' = [got EXCEPT ![t] = got[t]] /\ last_modified \in 0..MaxVersion
      BY <2>1, <1>t DEF Provider!SendRequest, ProviderTasks, ProviderType
    <3> QED
      BY <2>1, <3>1 DEF Provider!SendRequest
  <2>2. ASSUME NEW st \in {"good", "bad"}, Provider!Body(t, st)
        PROVE  [v |-> server, st |-> st] \in {x \in Provider!Contents : x.st # "part"}
    BY <1>t DEF ProviderType, Provider!Contents
  <2>3. CASE \E st \in {"good", "bad"} : Provider!Body(t, st)
    <3>1. PICK st \in {"good", "bad"} : Provider!Body(t, st)
      BY <2>3
    <3>2. PICK b \in {x \in Provider!Contents : x.st # "part"} : b = [v |-> server, st |-> st]
      BY <2>2, <3>1
    <3>3. /\ load_pc[t] = "wait" /\ load_pc' = [load_pc EXCEPT ![t] = "trunc"]
          /\ cond' = [cond EXCEPT ![t] = 0] /\ got' = [got EXCEPT ![t] = b]
          /\ UNCHANGED <<server, file, old, strays, provided, last_modified, loaded, load_lock,
                         had, restarts, overlapped>>
      BY <3>1, <3>2 DEF Provider!Body
    <3>4. 0 \in 0..MaxVersion
      OBVIOUS
    <3> QED
      BY <3>3, <3>4
  <2> QED
    BY <2>1, <2>3
<1>1. /\ ProviderHeld' /\ ProviderAlone'
      /\ load_pc' \in [Provider!Tasks -> Provider!Pcs] /\ load_lock' \in Matchers \cup {None}
      /\ load_pc'[t] = p
      /\ ~overlapped => \A u \in Provider!Tasks : u # t => load_pc'[u] \in {"idle", "lock"}
  <2>1. p \in Provider!Pcs \ {"lock"} /\ p # "idle" /\ p # "file"
    BY DEF Provider!Pcs
  <2> QED
    BY <1>a, <2>1, ProviderWorks
<1>2. ProviderTasks'
  BY <1>1, <1>a, <1>t DEF ProviderTasks
<1>3. ProviderType'
  BY <1>a, <1>t DEF ProviderType
<1>4. ProviderFlags'
  BY <1>a, <1>t, Zenon DEF ProviderFlags
<1>5. ProviderGot'
  <2>1. b.st # "part"
    BY <1>t DEF ProviderGot
  <2>2. \A x \in Provider!Contents : x # Provider!Nothing
    BY DEF Provider!Contents, Provider!Nothing
  <2> QED
    BY <1>a, <1>t, <2>1, <2>2 DEF ProviderGot, ProviderTasks
<1>6. ProviderStamped'
  <2>1. ~overlapped =>
          /\ last_modified # 0 => provided = [v |-> last_modified, st |-> "good"] /\ loaded
          /\ t \in Matchers => ~loaded
    BY <1>a, ProviderOnly
  <2>2. cond'[t] = n
    BY <1>a, <1>t DEF ProviderTasks
  <2> QED
    BY <1>1, <1>a, <2>1, <2>2, ProviderOnlyNext
<1> QED
  BY <1>1, <1>2, <1>3, <1>4, <1>5, <1>6, ProviderTypesNext DEF ProviderInv

\* The file is emptied and filled.
LEMMA ProviderSaves ==
  ASSUME ProviderInv, NEW t \in Provider!Tasks, Provider!Truncate(t) \/ Provider!Fill(t)
  PROVE  ProviderInv'
<1> USE ProviderConstants
<1>t. ProviderType /\ ProviderFlags /\ ProviderTasks /\ ProviderGot
  BY ProviderTypes DEF ProviderInv
<1>g. load_pc[t] \in {"trunc", "fill"} /\ got[t] \in Provider!Contents
  BY <1>t DEF ProviderTasks, ProviderGot, Provider!Truncate, Provider!Fill, Provider!Goto
<1>f. \A st \in {"good", "bad", "part"} : [got[t] EXCEPT !.st = st] \in Provider!Contents
  BY <1>g DEF Provider!Contents
<1>a. PICK p \in {"fill", "parse"} :
        /\ load_pc' = [load_pc EXCEPT ![t] = p]
        /\ \E st \in {"good", "bad", "part"} : file' = [got[t] EXCEPT !.st = st]
        /\ old' = FALSE
        /\ UNCHANGED <<server, strays, provided, last_modified, loaded, load_lock, cond, got, had,
                       restarts, overlapped>>
  <2> USE DEF Provider!Goto, Provider!memory, Provider!world
  <2>1. CASE Provider!Truncate(t)
    BY <2>1 DEF Provider!Truncate, Provider!Cut
  <2>2. CASE Provider!Fill(t)
    <3>1. got[t].st \in {"good", "bad", "part"}
      BY <1>g DEF Provider!Contents
    <3> QED
      BY <2>2, <3>1 DEF Provider!Fill
  <2> QED
    BY <2>1, <2>2
<1>1. /\ ProviderHeld' /\ ProviderAlone'
      /\ load_pc' \in [Provider!Tasks -> Provider!Pcs] /\ load_lock' \in Matchers \cup {None}
      /\ load_pc'[t] = p
      /\ ~overlapped => \A u \in Provider!Tasks : u # t => load_pc'[u] \in {"idle", "lock"}
  <2>1. p \in Provider!Pcs \ {"lock"} /\ p # "idle" /\ p # "file"
    BY DEF Provider!Pcs
  <2> QED
    BY <1>a, <1>g, <2>1, ProviderWorks
<1>2. ProviderTasks'
  BY <1>1, <1>a, <1>t DEF ProviderTasks
<1>3. ProviderType'
  BY <1>a, <1>f, <1>t DEF ProviderType
<1>4. ProviderFlags'
  BY <1>a, <1>t, Zenon DEF ProviderFlags
<1>5. ProviderGot'
  BY <1>a, <1>g, <1>t DEF ProviderGot, ProviderTasks
<1>6. ProviderStamped'
  <2>1. ~overlapped =>
          /\ last_modified # 0 => provided = [v |-> last_modified, st |-> "good"] /\ loaded
          /\ t \in Matchers => ~loaded
    BY <1>g, ProviderOnly
  <2> QED
    BY <1>1, <1>a, <2>1, ProviderOnlyNext
<1> QED
  BY <1>1, <1>2, <1>3, <1>4, <1>5, <1>6, ProviderTypesNext DEF ProviderInv

\* The body is parsed, and its stamp kept.
LEMMA ProviderParses ==
  ASSUME ProviderInv, NEW t \in Provider!Tasks, Provider!Parse(t) \/ Provider!SetLastModified(t)
  PROVE  ProviderInv'
<1> USE ProviderConstants
<1>t. ProviderType /\ ProviderFlags /\ ProviderTasks /\ ProviderGot
  BY ProviderTypes DEF ProviderInv
<1>g. load_pc[t] \in {"parse", "stamp"} /\ got[t] \in Provider!Contents /\ got[t].st # "part"
  BY <1>t DEF ProviderTasks, ProviderGot, Provider!Parse, Provider!SetLastModified, Provider!Goto
<1>u. UNCHANGED <<server, file, old, strays, loaded, restarts, overlapped>>
  BY DEF Provider!Parse, Provider!SetLastModified, Provider!disk, Provider!world
<1>4. ProviderFlags'
  BY <1>u, <1>t, Zenon DEF ProviderFlags
<1>m. ProviderType'
  <2>1. provided' \in {provided, got[t]} /\ last_modified' \in {last_modified, got[t].v}
    BY DEF Provider!Parse, Provider!SetLastModified
  <2>2. got[t].v \in 0..MaxVersion
    BY <1>g DEF Provider!Contents
  <2> QED
    BY <2>1, <2>2, <1>g, <1>t, <1>u DEF ProviderType
<1>1. CASE Provider!Parse(t) /\ got[t].st = "bad"
  <2>1. Provider!Fails(t) /\ UNCHANGED <<provided, last_modified>> /\ load_pc[t] = "parse"
    BY <1>1 DEF Provider!Parse
  <2>2. /\ ProviderHeld' /\ ProviderAlone' /\ ProviderGot' /\ ProviderTasks'
        /\ load_pc'[t] \in {"idle", "file"}
        /\ ~overlapped => \A u \in Provider!Tasks : u # t => load_pc'[u] \in {"idle", "lock"}
    BY <2>1, <1>g, <1>u, ProviderFinishes
  <2>3. ~overlapped =>
          /\ last_modified # 0 => provided = [v |-> last_modified, st |-> "good"] /\ loaded
          /\ t \in Matchers => ~loaded
    BY <2>1, ProviderOnly
  <2>4. ProviderStamped'
    BY <2>1, <2>2, <2>3, <1>u, ProviderOnlyNext
  <2> QED
    BY <2>2, <2>4, <1>4, <1>m, ProviderTypesNext DEF ProviderInv
<1>2. CASE ~(Provider!Parse(t) /\ got[t].st = "bad")
  <2>1. \/ /\ load_pc[t] = "parse" /\ load_pc' = [load_pc EXCEPT ![t] = "stamp"]
           /\ got[t].st # "bad" /\ provided' = got[t] /\ last_modified' = last_modified
        \/ /\ load_pc[t] = "stamp" /\ load_pc' = [load_pc EXCEPT ![t] = "flag"]
           /\ provided' = provided /\ last_modified' = got[t].v
    BY <1>2 DEF Provider!Parse, Provider!SetLastModified, Provider!Goto
  <2>p. PICK p \in {"stamp", "flag"} : load_pc' = [load_pc EXCEPT ![t] = p]
    BY <2>1
  <2>2. UNCHANGED <<load_lock, cond, got, had>>
    BY <1>2 DEF Provider!Parse, Provider!SetLastModified
  <2>3. /\ ProviderHeld' /\ ProviderAlone'
        /\ load_pc' \in [Provider!Tasks -> Provider!Pcs] /\ load_lock' \in Matchers \cup {None}
        /\ load_pc'[t] = p
        /\ ~overlapped => \A u \in Provider!Tasks : u # t => load_pc'[u] \in {"idle", "lock"}
    <3>1. p \in Provider!Pcs \ {"lock"} /\ p # "idle" /\ p # "file"
      BY DEF Provider!Pcs
    <3> QED
      BY <2>p, <2>2, <3>1, <1>g, <1>u, ProviderWorks
  <2>4. ProviderTasks'
    BY <2>2, <2>3, <1>t DEF ProviderTasks
  <2>g. got[t].st = "good" /\ got[t] = [v |-> got[t].v, st |-> "good"]
    BY <2>1, <1>g, <1>t DEF ProviderGot, Provider!Contents
  <2>5. ProviderGot'
    BY <2>p, <2>2, <2>g, <1>g, <1>t DEF ProviderGot, ProviderTasks
  <2>6. ProviderStamped'
    <3> SUFFICES ASSUME ~overlapped
                 PROVE  /\ last_modified' # 0 =>
                             /\ \/ load_pc'[t] = "stamp"
                                \/ provided' = [v |-> last_modified', st |-> "good"]
                             /\ loaded \/ load_pc'[t] = "flag"
                        /\ load_pc'[t] = "stamp" => provided' = got[t]
                        /\ t \in Matchers /\ load_pc'[t] # "flag" => ~loaded
      BY <2>2, <2>3, <1>u, ProviderOnlyNext
    <3>1. /\ last_modified # 0 => loaded
          /\ load_pc[t] = "stamp" => provided = got[t]
          /\ t \in Matchers => ~loaded
      BY <1>g, ProviderOnly
    <3>2. load_pc[t] = "parse" => load_pc'[t] = "stamp"
      BY <2>1, <1>t DEF ProviderTasks
    <3>3. load_pc[t] = "stamp" => load_pc'[t] = "flag"
      BY <2>1, <1>t DEF ProviderTasks
    <3> QED
      BY <3>1, <3>2, <3>3, <2>1, <2>g
  <2> QED
    BY <2>3, <2>4, <2>5, <2>6, <1>4, <1>m, ProviderTypesNext DEF ProviderInv
<1> QED
  BY <1>1, <1>2

\* A matcher waits for the lock, or finds the rules loaded meanwhile.
LEMMA ProviderWaits ==
  ASSUME ProviderInv, NEW t \in Matchers, load_pc[t] \in {"idle", "lock"},
         NEW p \in {"idle", "lock"}, load_pc' = [load_pc EXCEPT ![t] = p],
         UNCHANGED <<server, file, old, strays, provided, last_modified, loaded, load_lock, cond,
                     got, had, restarts, overlapped>>
  PROVE  ProviderInv'
<1> USE ProviderConstants
<1>t. /\ ProviderType /\ ProviderFlags /\ ProviderTasks /\ ProviderGot /\ ProviderStamped
      /\ ProviderHeld /\ ProviderAlone
  BY ProviderTypes DEF ProviderInv
<1>1. ProviderFlags'
  BY <1>t, Zenon DEF ProviderFlags
<1>2. ProviderType'
  BY <1>t DEF ProviderType
<1>3. ProviderTasks'
  BY <1>t DEF ProviderTasks, Provider!Pcs
<1>4. ProviderHeld' /\ ProviderGot'
  BY <1>t DEF ProviderHeld, ProviderGot, ProviderTasks
<1>5. ProviderAlone'
  <2>1. Provider!Busy' = Provider!Busy
    BY <1>t DEF Provider!Busy, ProviderTasks
  <2> QED
    BY <2>1, <1>t DEF ProviderAlone
<1>6. ProviderStamped'
  <2>1. \A u \in Provider!Tasks :
          load_pc'[u] = load_pc[u] \/ {load_pc'[u], load_pc[u]} \subseteq {"idle", "lock"}
    BY <1>t DEF ProviderTasks
  <2>2. \A u \in Provider!Tasks : \A q \in Provider!Pcs \ {"idle", "lock"} :
          load_pc'[u] = q <=> load_pc[u] = q
    BY <2>1
  <2>3. {"stamp", "flag", "wait"} \subseteq Provider!Pcs \ {"idle", "lock"}
    BY DEF Provider!Pcs
  <2> QED
    BY <2>1, <2>2, <2>3, <1>t DEF ProviderStamped
<1> QED
  BY <1>1, <1>2, <1>3, <1>4, <1>5, <1>6, ProviderTypesNext DEF ProviderInv

\* A task begins to work: a refresh, or a matcher that takes the lock.
LEMMA ProviderBegins ==
  ASSUME ProviderInv, NEW t \in Provider!Tasks, load_pc[t] \in {"idle", "lock"},
         NEW p \in {"ask", "file"}, load_pc' = [load_pc EXCEPT ![t] = p],
         \/ t \in Refreshers /\ p = "ask" /\ load_lock' = load_lock /\ had' = had
         \/ /\ t \in Matchers /\ ~loaded /\ load_lock = None /\ load_lock' = t
            /\ had' = had \/ had' = [had EXCEPT ![t] = file.st],
         overlapped' = Provider!Meets(Provider!Busy \cup {t}),
         UNCHANGED <<server, file, old, strays, provided, last_modified, loaded, cond, got,
                     restarts>>
  PROVE  ProviderInv'
<1> USE ProviderConstants
<1>t. /\ ProviderType /\ ProviderFlags /\ ProviderTasks /\ ProviderGot /\ ProviderStamped
      /\ ProviderHeld /\ ProviderAlone
  BY ProviderTypes DEF ProviderInv
<1>o. overlapped => overlapped'
  BY DEF Provider!Meets
<1>1. ProviderFlags'
  <2>1. overlapped' \in BOOLEAN
    BY Zenon DEF Provider!Meets
  <2> QED
    BY <2>1, <1>t, Zenon DEF ProviderFlags
<1>2. ProviderType'
  BY <1>t DEF ProviderType
<1>3. ProviderTasks'
  <2>1. file.st \in {"none", "good", "bad", "part"}
    BY <1>t DEF ProviderType, Provider!Contents, Provider!Nothing
  <2> QED
    BY <2>1, <1>t DEF ProviderTasks, Provider!Pcs
<1>4. ProviderHeld'
  BY <1>t DEF ProviderHeld, ProviderTasks
<1>5. ProviderGot'
  BY <1>t DEF ProviderGot, ProviderTasks
<1>b. ~overlapped' => \A u \in Provider!Busy : u = t
  <2> SUFFICES ASSUME ~overlapped' PROVE \A u \in Provider!Busy : u = t
    OBVIOUS
  <2>1. CASE \E r \in Provider!Busy \cup {t} : r \in Refreshers
    BY <2>1, <1>t, ProviderMeeting
  <2>2. CASE \A r \in Provider!Busy \cup {t} : r \notin Refreshers
    <3>1. load_lock = None /\ t \in Matchers
      BY <2>2
    <3>2. ASSUME NEW u \in Provider!Busy PROVE FALSE
      BY <2>2, <3>1, <3>2, <1>t DEF Provider!Busy, ProviderHeld
    <3> QED
      BY <3>2
  <2> QED
    BY <2>1, <2>2
<1>6. ProviderAlone'
  <2>1. Provider!Busy' = Provider!Busy \cup {t}
    BY <1>t DEF Provider!Busy, ProviderTasks
  <2> QED
    BY <2>1, <1>b DEF ProviderAlone
<1>7. ProviderStamped'
  <2> SUFFICES ASSUME ~overlapped'
               PROVE  /\ \A u \in Provider!Tasks : u # t => load_pc'[u] \in {"idle", "lock"}
                      /\ last_modified # 0 =>
                           provided = [v |-> last_modified, st |-> "good"] /\ loaded
                      /\ t \in Matchers => ~loaded
    <3>1. load_pc'[t] = p
      BY <1>t DEF ProviderTasks
    <3> QED
      BY <3>1, ProviderOnlyNext
  <2>1. \A u \in Provider!Tasks : load_pc[u] \in {"idle", "lock"}
    BY <1>b DEF Provider!Busy
  <2>2. \A u \in Provider!Tasks : u # t => load_pc'[u] \in {"idle", "lock"}
    BY <2>1, <1>t DEF ProviderTasks
  <2>3. last_modified # 0 => provided = [v |-> last_modified, st |-> "good"] /\ loaded
    BY <2>1, <1>o, <1>t DEF ProviderStamped
  <2> QED
    BY <2>2, <2>3
<1> QED
  BY <1>1, <1>2, <1>3, <1>4, <1>5, <1>6, <1>7, ProviderTypesNext DEF ProviderInv

LEMMA ProviderEnters ==
  ASSUME ProviderInv, NEW t \in Provider!Tasks,
         \/ Provider!Match(t) \/ Provider!Lock(t)
         \/ Provider!PeriodicTick(t) \/ Provider!ApiRefresh(t)
  PROVE  ProviderInv'
<1> USE ProviderConstants DEF Provider!Goto, Provider!disk, Provider!memory, Provider!world
<1>1. CASE Provider!Match(t)
  <2>1. /\ t \in Matchers /\ load_pc[t] = "idle" /\ load_pc' = [load_pc EXCEPT ![t] = "lock"]
        /\ UNCHANGED <<server, file, old, strays, provided, last_modified, loaded, load_lock,
                       cond, got, had, restarts, overlapped>>
    BY <1>1 DEF Provider!Match
  <2> QED
    BY <2>1, ProviderWaits
<1>2. CASE Provider!Lock(t)
  <2>1. load_pc[t] = "lock" /\ t \in Matchers /\ load_lock = None
    BY <1>2 DEF Provider!Lock, ProviderInv, ProviderHeld
  <2>2. UNCHANGED <<server, file, old, strays, provided, last_modified, loaded, cond, got, restarts>>
    BY <1>2 DEF Provider!Lock
  <2>3. CASE loaded
    <3>1. load_pc' = [load_pc EXCEPT ![t] = "idle"] /\ UNCHANGED <<load_lock, had, overlapped>>
      BY <1>2, <2>3 DEF Provider!Lock
    <3> QED
      BY <2>1, <2>2, <3>1, ProviderWaits
  <2>4. CASE ~loaded
    <3>1. PICK p \in {"ask", "file"} : load_pc' = [load_pc EXCEPT ![t] = p]
      BY <1>2, <2>4 DEF Provider!Lock
    <3>2. /\ load_lock' = t /\ (had' = had \/ had' = [had EXCEPT ![t] = file.st])
          /\ overlapped' = Provider!Meets(Provider!Busy \cup {t})
      BY <1>2, <2>4 DEF Provider!Lock
    <3> QED
      BY <2>1, <2>2, <2>4, <3>1, <3>2, ProviderBegins
  <2> QED
    BY <2>3, <2>4
<1>3. CASE Provider!PeriodicTick(t) \/ Provider!ApiRefresh(t)
  <2>1. /\ t \in Refreshers /\ load_pc[t] = "idle" /\ load_pc' = [load_pc EXCEPT ![t] = "ask"]
        /\ overlapped' = Provider!Meets(Provider!Busy \cup {t})
        /\ UNCHANGED <<server, file, old, strays, provided, last_modified, loaded, load_lock,
                       cond, got, had, restarts>>
    BY <1>3 DEF Provider!PeriodicTick, Provider!ApiRefresh, Provider!Refresh
  <2> QED
    BY <2>1, ProviderBegins
<1> QED
  BY <1>1, <1>2, <1>3

\* The server publishes, the file grows old, strays write it and end; an instance
\* begins, after a crash or a reload.
LEMMA ProviderWorld ==
  ASSUME ProviderInv,
         \/ Provider!Publish \/ Provider!Age \/ Provider!StrayWrites \/ Provider!StraysEnd
         \/ Provider!Crash \/ Provider!Reload
  PROVE  ProviderInv'
<1> USE ProviderConstants DEF Provider!disk, Provider!memory, Provider!world, Provider!local
<1>t. /\ ProviderType /\ ProviderFlags /\ ProviderTasks /\ ProviderGot /\ ProviderStamped
      /\ ProviderHeld /\ ProviderAlone
  BY ProviderTypes DEF ProviderInv
<1>1. CASE Provider!Publish \/ Provider!Age \/ Provider!StrayWrites \/ Provider!StraysEnd
  <2> USE DEF Provider!Publish, Provider!Age, Provider!StrayWrites, Provider!StraysEnd
  <2>1. ProviderFlags'
    BY <1>1, <1>t, Zenon DEF ProviderFlags
  <2>2. ProviderType'
    <3>1. CASE Provider!StrayWrites
      <4>1. PICK v \in 1..server, st \in {"good", "bad", "part"} : file' = [v |-> v, st |-> st]
        BY <3>1
      <4>2. v \in 1..MaxVersion
        BY <1>t DEF ProviderType
      <4>3. file' \in Provider!Contents
        BY <4>1, <4>2 DEF Provider!Contents
      <4> QED
        BY <3>1, <4>3, <1>t DEF ProviderType
    <3>2. CASE Provider!Publish \/ Provider!Age \/ Provider!StraysEnd
      BY <3>2, <1>t DEF ProviderType
    <3> QED
      BY <1>1, <3>1, <3>2
  <2>3. UNCHANGED <<provided, last_modified, loaded, load_lock, load_pc, cond, got, had, overlapped>>
    BY <1>1
  <2>4. ProviderTasks' /\ ProviderHeld' /\ ProviderGot' /\ ProviderStamped' /\ ProviderAlone'
    BY <2>3, <1>t DEF ProviderTasks, ProviderHeld, ProviderGot, ProviderStamped, ProviderAlone,
                      Provider!Busy
  <2> QED
    BY <2>1, <2>2, <2>4, ProviderTypesNext DEF ProviderInv
<1>2. CASE Provider!Crash \/ Provider!Reload
  <2>1. Provider!NewInstance /\ UNCHANGED <<server, file, old>>
    BY <1>2 DEF Provider!Crash, Provider!Reload
  <2>2. ProviderFlags'
    <3>1. strays' \in BOOLEAN
      BY <1>2, Zenon DEF Provider!Crash, Provider!Reload
    <3> QED
      BY <2>1, <3>1, <1>t, Zenon DEF ProviderFlags, Provider!NewInstance
  <2>3. ProviderType'
    BY <2>1, <1>t DEF ProviderType, Provider!NewInstance
  <2>4. ProviderTasks' /\ ProviderHeld'
    BY <2>1 DEF ProviderTasks, ProviderHeld, Provider!NewInstance, Provider!Pcs
  <2>5. ProviderAlone'
    BY <2>1 DEF ProviderAlone, Provider!Busy, Provider!NewInstance
  <2>6. ProviderGot' /\ ProviderStamped'
    BY <2>1 DEF ProviderGot, ProviderStamped, Provider!NewInstance, Provider!Nothing
  <2> QED
    BY <2>2, <2>3, <2>4, <2>5, <2>6, ProviderTypesNext DEF ProviderInv
<1> QED
  BY <1>1, <1>2

LEMMA ProviderKept == ASSUME ProviderInv, Provider!Next PROVE ProviderInv'
<1>1. ASSUME NEW t \in Provider!Tasks, Provider!Step(t) PROVE ProviderInv'
  BY <1>1, ProviderEnters, ProviderEnds, ProviderAsks, ProviderSaves, ProviderParses
     DEF Provider!Step
<1> QED
  BY <1>1, ProviderEnters, ProviderWorld DEF Provider!Next

LEMMA ProviderClaims == ProviderInv => ClaimsHeld
<1> SUFFICES ASSUME ProviderInv, NEW t \in Provider!Tasks, load_pc[t] = "wait", cond[t] # 0,
                    ~overlapped
             PROVE  provided = [v |-> cond[t], st |-> "good"]
  BY DEF ClaimsHeld, Provider!ClaimsHeld
<1> QED
  BY ProviderOnly

-----------------------------------------------------------------------------
(* One multiplexed connection.                                             *)

\* The peer sends no syn, and channels are of what it sends.
MuxQueued ==
  /\ inq \in [Streams -> Seq({"psh", "fin"})] /\ \A s \in Streams : Len(inq[s]) <= InCap
  /\ \A i \in DOMAIN wire : wire[i].kind # "syn"
  /\ reading # <<>> => reading[1].kind # "syn"

\* A stream whose syn is not queued yet is unknown to the peer; it is tabled first.
MuxFresh ==
  \A s \in Streams :
    /\ mux_pc[s] \in {"new", "insert", "syn"} =>
         peer[s] = "none" /\ \A i \in DOMAIN out : out[i] # Mux!Frame("syn", s)
    /\ mux_pc[s] = "syn" => s \in table

\* A stream's syn is queued once, and the stream is tabled while the peer may
\* still send on it.
MuxTold ==
  /\ \A i \in DOMAIN out : out[i].kind = "syn" =>
       /\ peer[out[i].s] = "none" /\ out[i].s \in table
       /\ \A j \in DOMAIN out : out[j] = out[i] => i = j
  /\ \A s \in Streams : peer[s] = "open" => s \in table

\* What is under way is for tabled streams, and nothing follows a stream's fin.
MuxAnswers ==
  \A i \in DOMAIN wire :
    /\ wire[i].s \in table /\ peer[wire[i].s] # "none"
    /\ wire[i].kind = "fin" =>
         peer[wire[i].s] = "fin" /\ \A j \in DOMAIN wire : j > i => wire[j].s # wire[i].s

MuxInv == Mux!TypeOK /\ MuxQueued /\ MuxFresh /\ MuxTold /\ MuxAnswers

LEMMA MuxConstants == OutCap \in Nat \ {0} /\ InCap \in Nat \ {0} /\ WireCap \in Nat
BY PartsAssumption DEF Mux!SessionAssumption

\* The types, those of the flags and of the channels apart.
MuxTable ==
  /\ protocol \in {"smux", "yamux"}
  /\ table \subseteq Streams /\ half \subseteq Streams /\ eof \subseteq Streams
  /\ mux_pc \in [Streams -> {"new", "insert", "syn", "open", "blocked", "gone"}]
  /\ peer \in [Streams -> {"none", "open", "fin"}]
MuxFrames ==
  /\ out \in Seq(Mux!Frames) /\ Len(out) <= OutCap
  /\ wire \in Seq(Mux!Frames)
  /\ reading \in Seq(Mux!Frames) /\ Len(reading) <= 1
MuxTasks == writer \in BOOLEAN /\ reader \in BOOLEAN

LEMMA MuxTypes ==
  /\ Mux!TypeOK => MuxTable /\ MuxFrames /\ MuxTasks
  /\ MuxTable /\ MuxFrames /\ MuxTasks /\ MuxQueued => Mux!TypeOK
<1>1. Mux!TypeOK => MuxTable /\ MuxFrames /\ MuxTasks
  BY Zenon DEF Mux!TypeOK, MuxTable, MuxFrames, MuxTasks
<1>2. MuxQueued => \A s \in Streams : inq[s] \in Seq({"psh", "fin"}) /\ Len(inq[s]) <= InCap
  BY DEF MuxQueued
<1> QED
  BY <1>1, <1>2, Zenon DEF Mux!TypeOK, MuxTable, MuxFrames, MuxTasks

LEMMA MuxTypesNext == (MuxTable /\ MuxFrames /\ MuxTasks /\ MuxQueued => Mux!TypeOK)'
<1>1. MuxQueued' => \A s \in Streams : inq'[s] \in Seq({"psh", "fin"}) /\ Len(inq'[s]) <= InCap
  BY DEF MuxQueued
<1> QED
  BY <1>1, Zenon DEF Mux!TypeOK, MuxTable, MuxFrames, MuxTasks

\* Sequences with one element more at the end, or one less at the front.
LEMMA Appended ==
  ASSUME NEW X, NEW q \in Seq(X), NEW x \in X
  PROVE  /\ Append(q, x) \in Seq(X) /\ Len(Append(q, x)) = Len(q) + 1
         /\ DOMAIN q = 1..Len(q) /\ Len(q) \in Nat
         /\ DOMAIN Append(q, x) = 1..(Len(q) + 1)
         /\ \A i \in 1..Len(q) : Append(q, x)[i] = q[i]
         /\ Append(q, x)[Len(q) + 1] = x
OBVIOUS

LEMMA Tailed ==
  ASSUME NEW X, NEW q \in Seq(X), q # <<>>
  PROVE  /\ Tail(q) \in Seq(X) /\ Len(Tail(q)) = Len(q) - 1 /\ Head(q) = q[1] /\ q[1] \in X
         /\ DOMAIN q = 1..Len(q) /\ Len(q) \in Nat \ {0}
         /\ DOMAIN Tail(q) = 1..(Len(q) - 1)
         /\ \A i \in 1..(Len(q) - 1) : Tail(q)[i] = q[i + 1]
OBVIOUS

LEMMA MuxInit == Mux!Init => MuxInv
<1> SUFFICES ASSUME Mux!Init PROVE MuxInv
  OBVIOUS
<1> USE MuxConstants DEF Mux!Init
<1>1. MuxTable /\ MuxFrames /\ MuxQueued
  BY DEF MuxTable, MuxFrames, MuxQueued
<1>2. MuxTasks
  BY Zenon DEF MuxTasks
<1>3. MuxFresh /\ MuxTold /\ MuxAnswers
  BY DEF MuxFresh, MuxTold, MuxAnswers
<1> QED
  BY <1>1, <1>2, <1>3, MuxTypes DEF MuxInv

\* An opener begins, tables its channel or gives up; a relay reads or ends.
LEMMA MuxLocal ==
  ASSUME MuxInv, NEW s \in Streams,
         \/ Mux!OpenStream(s) \/ Mux!InsertStream(s) \/ Mux!SynFails(s) \/ Mux!GiveUp(s)
         \/ Mux!ReadData(s) \/ Mux!EndRelay(s)
  PROVE  MuxInv'
<1> USE MuxConstants DEF Mux!link, Mux!stream
<1>t. /\ MuxTable /\ MuxFrames /\ MuxTasks
      /\ MuxQueued /\ MuxFresh /\ MuxTold /\ MuxAnswers
  BY MuxTypes DEF MuxInv
<1>u. UNCHANGED <<protocol, half, out, wire, peer, writer, reader, reading>>
  BY DEF Mux!OpenStream, Mux!InsertStream, Mux!SynFails, Mux!GiveUp, Mux!ReadData,
         Mux!EndRelay
<1>a. /\ table' = table \/ (table' = table \cup {s} /\ mux_pc[s] = "insert")
      /\ eof' = eof \/ eof' = eof \cup {s}
      /\ \/ mux_pc' = mux_pc
         \/ mux_pc[s] = "new" /\ mux_pc' = [mux_pc EXCEPT ![s] = "insert"]
         \/ /\ mux_pc[s] = "insert" /\ mux_pc' = [mux_pc EXCEPT ![s] = "syn"]
            /\ table' = table \cup {s}
         \/ mux_pc' = [mux_pc EXCEPT ![s] = "gone"]
  BY DEF Mux!OpenStream, Mux!InsertStream, Mux!SynFails, Mux!GiveUp, Mux!ReadData,
         Mux!EndRelay
<1>1. MuxTable'
  BY <1>a, <1>u, <1>t DEF MuxTable
<1>2. MuxFrames'
  BY <1>u, <1>t DEF MuxFrames
<1>3. MuxTasks'
  BY <1>u, <1>t, Zenon DEF MuxTasks
<1>4. MuxFresh'
  BY <1>a, <1>u, <1>t DEF MuxFresh, MuxTable
<1>5. table \subseteq table'
  BY <1>a
<1>6. MuxTold' /\ MuxAnswers'
  BY <1>5, <1>u, <1>t DEF MuxTold, MuxAnswers
<1>7. MuxQueued'
  <2>1. CASE inq' = inq
    BY <2>1, <1>u, <1>t DEF MuxQueued
  <2>2. CASE inq[s] # <<>> /\ inq' = [inq EXCEPT ![s] = Tail(@)]
    <3>1. inq[s] \in Seq({"psh", "fin"}) /\ Len(inq[s]) <= InCap
      BY <1>t DEF MuxQueued
    <3>2. Tail(inq[s]) \in Seq({"psh", "fin"}) /\ Len(Tail(inq[s])) <= InCap
      BY <2>2, <3>1, Tailed
    <3> QED
      BY <2>2, <3>2, <1>u, <1>t DEF MuxQueued
  <2>3. CASE inq' = [inq EXCEPT ![s] = <<>>]
    BY <2>3, <1>u, <1>t DEF MuxQueued
  <2> QED
    BY <2>1, <2>2, <2>3
       DEF Mux!OpenStream, Mux!InsertStream, Mux!SynFails, Mux!GiveUp, Mux!ReadData,
         Mux!EndRelay
<1> QED
  BY <1>1, <1>2, <1>3, <1>4, <1>6, <1>7, MuxTypesNext DEF MuxInv

\* The syn of a stream, which is tabled already.
LEMMA MuxSyn == ASSUME MuxInv, NEW s \in Streams, Mux!SendSyn(s) PROVE MuxInv'
<1> USE MuxConstants
<1>t. /\ MuxTable /\ MuxFrames /\ MuxTasks
      /\ MuxQueued /\ MuxFresh /\ MuxTold /\ MuxAnswers
  BY MuxTypes DEF MuxInv
<1>u. UNCHANGED <<protocol, table, half, eof, inq, wire, peer, writer, reader, reading>>
  BY DEF Mux!SendSyn
<1> DEFINE f == Mux!Frame("syn", s)
<1>a. /\ mux_pc[s] = "syn" /\ mux_pc' = [mux_pc EXCEPT ![s] = "open"]
      /\ Len(out) < OutCap /\ out' = Append(out, f)
  BY DEF Mux!SendSyn, Mux!Room
<1>f. f \in Mux!Frames /\ f.kind = "syn" /\ f.s = s /\ out \in Seq(Mux!Frames)
  BY <1>t DEF Mux!Frame, Mux!Frames, Mux!Kinds, MuxFrames
<1>g. \A x \in Streams : Mux!Frame("syn", x) = f => x = s
  BY DEF Mux!Frame
<1> HIDE DEF f
<1>o. /\ out' \in Seq(Mux!Frames) /\ Len(out') = Len(out) + 1 /\ Len(out) \in Nat
      /\ DOMAIN out = 1..Len(out) /\ DOMAIN out' = 1..(Len(out) + 1)
      /\ \A i \in 1..Len(out) : out'[i] = out[i]
      /\ out'[Len(out) + 1] = f
  BY <1>a, <1>f, Appended
<1>n. \A i \in DOMAIN out : out[i] # f
  BY <1>a, <1>t DEF MuxFresh, f
<1>1. MuxTable'
  BY <1>a, <1>u, <1>t DEF MuxTable
<1>2. MuxFrames'
  BY <1>o, <1>a, <1>u, <1>t DEF MuxFrames
<1>3. MuxTasks'
  BY <1>u, <1>t, Zenon DEF MuxTasks
<1>4. MuxFresh'
  <2> SUFFICES ASSUME NEW x \in Streams
               PROVE  /\ mux_pc'[x] \in {"new", "insert", "syn"} =>
                           /\ peer[x] = "none"
                           /\ \A i \in DOMAIN out' : out'[i] # Mux!Frame("syn", x)
                      /\ mux_pc'[x] = "syn" => x \in table
    BY <1>u DEF MuxFresh
  <2>1. CASE x = s
    BY <2>1, <1>a, <1>t DEF MuxTable
  <2>2. CASE x # s
    <3>1. mux_pc'[x] = mux_pc[x] /\ Mux!Frame("syn", x) # f
      BY <2>2, <1>a, <1>g, <1>t DEF MuxTable
    <3>2. ASSUME NEW i \in DOMAIN out', mux_pc[x] \in {"new", "insert", "syn"}
          PROVE  out'[i] # Mux!Frame("syn", x)
      <4>1. i \in DOMAIN out \/ i = Len(out) + 1
        BY <3>2, <1>o
      <4> QED
        BY <4>1, <3>1, <3>2, <1>o, <1>t DEF MuxFresh
    <3> QED
      BY <3>1, <3>2, <1>t DEF MuxFresh
  <2> QED
    BY <2>1, <2>2
<1>5. MuxTold'
  <2>1. s \in table /\ peer[s] = "none"
    BY <1>a, <1>t DEF MuxFresh
  <2>2. ASSUME NEW i \in DOMAIN out', out'[i].kind = "syn"
        PROVE  /\ peer[out'[i].s] = "none" /\ out'[i].s \in table
               /\ \A j \in DOMAIN out' : out'[j] = out'[i] => i = j
    <3>1. \A j \in DOMAIN out' : j \in DOMAIN out \/ j = Len(out) + 1
      BY <1>o
    <3>2. CASE i = Len(out) + 1
      BY <3>1, <3>2, <2>1, <1>f, <1>n, <1>o
    <3>3. CASE i \in DOMAIN out
      BY <3>1, <3>3, <2>2, <1>n, <1>o, <1>t DEF MuxTold
    <3> QED
      BY <3>1, <3>2, <3>3
  <2> QED
    BY <2>2, <1>u, <1>t DEF MuxTold
<1>6. MuxAnswers' /\ MuxQueued'
  BY <1>u, <1>t DEF MuxAnswers, MuxQueued
<1> QED
  BY <1>1, <1>2, <1>3, <1>4, <1>5, <1>6, MuxTypesNext DEF MuxInv

\* Data and the end of a stream: queued, given up or blocked.
LEMMA MuxWrites ==
  ASSUME MuxInv, NEW s \in Streams, Mux!WriteData(s) \/ Mux!Shutdown(s)
  PROVE  MuxInv'
<1> USE MuxConstants
<1>t. /\ MuxTable /\ MuxFrames /\ MuxTasks
      /\ MuxQueued /\ MuxFresh /\ MuxTold /\ MuxAnswers
  BY MuxTypes DEF MuxInv
<1>u. UNCHANGED <<protocol, table, eof, inq, wire, peer, writer, reader, reading>>
  BY DEF Mux!WriteData, Mux!Shutdown
<1>a. /\ half' = half \/ half' = half \cup {s}
      /\ mux_pc[s] \in {"open", "blocked"}
      /\ \/ mux_pc' = mux_pc
         \/ \E p \in {"gone", "open", "blocked"} : mux_pc' = [mux_pc EXCEPT ![s] = p]
  BY DEF Mux!WriteData, Mux!Shutdown
<1>1. MuxTable'
  BY <1>a, <1>u, <1>t DEF MuxTable
<1>3. MuxTasks'
  BY <1>u, <1>t, Zenon DEF MuxTasks
<1>b. \A x \in Streams : mux_pc'[x] \in {"new", "insert", "syn"} => mux_pc'[x] = mux_pc[x]
  BY <1>a, <1>t DEF MuxTable
<1>6. MuxAnswers' /\ MuxQueued'
  BY <1>u, <1>t DEF MuxAnswers, MuxQueued
<1>2. MuxFrames' /\ MuxFresh' /\ MuxTold'
  <2>1. CASE out' = out
    BY <2>1, <1>b, <1>u, <1>t DEF MuxFrames, MuxFresh, MuxTold
  <2>2. CASE Len(out) < OutCap /\ \E k \in {"psh", "fin"} : out' = Append(out, Mux!Frame(k, s))
    <3>1. PICK f \in Mux!Frames : out' = Append(out, f) /\ f.kind # "syn"
      BY <2>2 DEF Mux!Frame, Mux!Frames, Mux!Kinds
    <3>2. \A x \in Streams : Mux!Frame("syn", x) # f
      BY <3>1 DEF Mux!Frame
    <3>3. out \in Seq(Mux!Frames)
      BY <1>t DEF MuxFrames
    <3>4. /\ out' \in Seq(Mux!Frames) /\ Len(out') = Len(out) + 1 /\ Len(out) \in Nat
          /\ DOMAIN out = 1..Len(out) /\ DOMAIN out' = 1..(Len(out) + 1)
          /\ \A i \in 1..Len(out) : out'[i] = out[i]
          /\ out'[Len(out) + 1] = f
      BY <3>1, <3>3, Appended
    <3>5. \A i \in DOMAIN out' : (i \in DOMAIN out /\ out'[i] = out[i]) \/ out'[i] = f
      BY <3>4
    <3>6. MuxFrames'
      BY <3>4, <2>2, <1>u, <1>t DEF MuxFrames
    <3>7. MuxFresh'
      BY <3>2, <3>5, <1>b, <1>u, <1>t DEF MuxFresh
    <3>8. MuxTold'
      BY <3>1, <3>5, <1>u, <1>t DEF MuxTold
    <3> QED
      BY <3>6, <3>7, <3>8
  <2> QED
    BY <2>1, <2>2 DEF Mux!WriteData, Mux!Shutdown, Mux!Room
<1> QED
  BY <1>1, <1>2, <1>3, <1>6, MuxTypesNext DEF MuxInv

\* A frame goes out; with a syn the peer comes to know a stream that is tabled.
LEMMA MuxWriteFrame == ASSUME MuxInv, Mux!WriteFrame PROVE MuxInv'
<1> USE MuxConstants
<1>t. /\ MuxTable /\ MuxFrames /\ MuxTasks
      /\ MuxQueued /\ MuxFresh /\ MuxTold /\ MuxAnswers
  BY MuxTypes DEF MuxInv
<1>u. UNCHANGED <<protocol, table, mux_pc, half, eof, inq, wire, writer, reader, reading>>
  BY DEF Mux!WriteFrame, Mux!stream
<1>o. /\ out' = Tail(out) /\ out' \in Seq(Mux!Frames) /\ Len(out') = Len(out) - 1
      /\ Head(out) = out[1] /\ out[1] \in Mux!Frames
      /\ DOMAIN out = 1..Len(out) /\ Len(out) \in Nat \ {0} /\ DOMAIN out' = 1..(Len(out) - 1)
      /\ \A i \in 1..(Len(out) - 1) : out'[i] = out[i + 1]
  BY <1>t, Tailed DEF Mux!WriteFrame, MuxFrames
<1>p. \/ out[1].kind # "syn" /\ peer' = peer
      \/ out[1].kind = "syn" /\ peer' = [peer EXCEPT ![out[1].s] = "open"]
  BY <1>o DEF Mux!WriteFrame
<1>s. out[1].s \in Streams /\ 1 \in DOMAIN out
  BY <1>o DEF Mux!Frames
<1>d. \A i \in DOMAIN out' : i + 1 \in DOMAIN out /\ i + 1 # 1 /\ out'[i] = out[i + 1]
  BY <1>o
<1>1. MuxTable'
  BY <1>p, <1>s, <1>u, <1>t DEF MuxTable
<1>2. MuxFrames'
  BY <1>o, <1>u, <1>t DEF MuxFrames
<1>3. MuxTasks'
  BY <1>u, <1>t, Zenon DEF MuxTasks
<1>4. MuxQueued'
  BY <1>u, <1>t DEF MuxQueued
<1>e. out[1].kind = "syn" => out[1] = Mux!Frame("syn", out[1].s)
  BY <1>o DEF Mux!Frame, Mux!Frames
<1>5. MuxFresh'
  <2>1. ASSUME NEW x \in Streams, mux_pc[x] \in {"new", "insert", "syn"}
        PROVE  peer'[x] = "none" /\ \A i \in DOMAIN out' : out'[i] # Mux!Frame("syn", x)
    <3>1. peer[x] = "none" /\ \A i \in DOMAIN out : out[i] # Mux!Frame("syn", x)
      BY <2>1, <1>t DEF MuxFresh
    <3>2. out[1].kind = "syn" => out[1].s # x
      BY <3>1, <1>s, <1>e
    <3> QED
      BY <3>1, <3>2, <1>d, <1>p, <1>t DEF MuxTable
  <2> QED
    BY <2>1, <1>u, <1>t DEF MuxFresh
<1>6. MuxTold'
  <2>1. ASSUME NEW i \in DOMAIN out', out'[i].kind = "syn"
        PROVE  /\ peer'[out'[i].s] = "none" /\ out'[i].s \in table
               /\ \A j \in DOMAIN out' : out'[j] = out'[i] => i = j
    <3>1. /\ peer[out'[i].s] = "none" /\ out'[i].s \in table
          /\ \A j \in DOMAIN out : out[j] = out'[i] => i + 1 = j
      BY <2>1, <1>d, <1>t DEF MuxTold
    <3>2. \A j \in DOMAIN out' : out'[j] = out'[i] => i = j
      <4>1. \A j \in DOMAIN out' : out'[j] = out'[i] => i + 1 = j + 1
        BY <3>1, <1>d
      <4>2. \A j \in DOMAIN out' : j \in Int
        BY <1>o
      <4> QED
        BY <4>1, <4>2
    <3>3. out'[i] # out[1] /\ out'[i] \in Mux!Frames
      BY <3>1, <1>s, <1>d, <1>o
    <3>4. out[1].kind = "syn" => out[1].s # out'[i].s
      BY <3>3, <2>1, <1>o DEF Mux!Frames
    <3> QED
      BY <3>1, <3>2, <3>4, <1>p, <1>s, <1>t DEF MuxTable
  <2>2. ASSUME NEW x \in Streams, peer'[x] = "open" PROVE x \in table
    BY <2>2, <1>p, <1>s, <1>t DEF MuxTold, MuxTable
  <2> QED
    BY <2>1, <2>2, <1>u DEF MuxTold
<1>7. MuxAnswers'
  <2>1. ASSUME NEW i \in DOMAIN wire PROVE peer'[wire[i].s] = peer[wire[i].s]
    <3>1. /\ peer[wire[i].s] # "none" /\ wire[i].s \in Streams
          /\ out[1].kind = "syn" => peer[out[1].s] = "none"
      BY <2>1, <1>s, <1>t DEF MuxAnswers, MuxTold, MuxTable
    <3> QED
      BY <3>1, <1>p, <1>t DEF MuxTable
  <2> QED
    BY <2>1, <1>u, <1>t DEF MuxAnswers
<1> QED
  BY <1>1, <1>2, <1>3, <1>4, <1>5, <1>6, <1>7, MuxTypesNext DEF MuxInv

\* A frame of the peer is taken; its fin takes the stream out of the table.
LEMMA MuxReadFrame == ASSUME MuxInv, Mux!ReadFrame PROVE MuxInv'
<1> USE MuxConstants
<1>t. /\ MuxTable /\ MuxFrames /\ MuxTasks
      /\ MuxQueued /\ MuxFresh /\ MuxTold /\ MuxAnswers
  BY MuxTypes DEF MuxInv
<1>u. UNCHANGED <<protocol, mux_pc, half, eof, inq, out, peer, writer, reader>>
  BY DEF Mux!ReadFrame, Mux!stream
<1>o. /\ wire' = Tail(wire) /\ wire' \in Seq(Mux!Frames) /\ Len(wire') = Len(wire) - 1
      /\ Head(wire) = wire[1] /\ wire[1] \in Mux!Frames
      /\ DOMAIN wire = 1..Len(wire) /\ Len(wire) \in Nat \ {0}
      /\ DOMAIN wire' = 1..(Len(wire) - 1)
      /\ \A i \in 1..(Len(wire) - 1) : wire'[i] = wire[i + 1]
  BY <1>t, Tailed DEF Mux!ReadFrame, MuxFrames
<1>p. /\ table' = table \/ (wire[1].kind = "fin" /\ table' = table \ {wire[1].s})
      /\ reading' = <<>> \/ reading' = <<wire[1]>>
  BY <1>o DEF Mux!ReadFrame
<1>s. 1 \in DOMAIN wire
  BY <1>o
<1>d. \A i \in DOMAIN wire' : i + 1 \in DOMAIN wire /\ i + 1 > 1 /\ wire'[i] = wire[i + 1]
  BY <1>o
<1>r. \A x : x \in table /\ x \notin table' => peer[x] = "fin"
  BY <1>p, <1>s, <1>t DEF MuxAnswers
<1>1. MuxTable'
  BY <1>p, <1>u, <1>t DEF MuxTable
<1>2. MuxFrames'
  <2>1. reading' \in Seq(Mux!Frames) /\ Len(reading') <= 1
    <3>1. CASE reading' = <<>>
      BY <3>1
    <3>2. CASE reading' = <<wire[1]>>
      <4>1. wire[1] \in Mux!Frames
        BY <1>o
      <4> QED
        BY <3>2, <4>1
    <3> QED
      BY <3>1, <3>2, <1>p
  <2> QED
    BY <2>1, <1>o, <1>u, <1>t DEF MuxFrames
<1>3. MuxTasks'
  BY <1>u, <1>t, Zenon DEF MuxTasks
<1>4. MuxQueued'
  <2>1. reading' # <<>> => reading'[1].kind # "syn"
    BY <1>p, <1>s, <1>t DEF MuxQueued
  <2>2. \A i \in DOMAIN wire' : wire'[i].kind # "syn"
    BY <1>d, <1>t DEF MuxQueued
  <2> QED
    BY <2>1, <2>2, <1>u, <1>t DEF MuxQueued
<1>5. MuxFresh'
  BY <1>r, <1>u, <1>t DEF MuxFresh
<1>6. MuxTold'
  BY <1>r, <1>u, <1>t DEF MuxTold
<1>7. MuxAnswers'
  <2> SUFFICES ASSUME NEW i \in DOMAIN wire'
               PROVE  /\ wire'[i].s \in table' /\ peer[wire'[i].s] # "none"
                      /\ wire'[i].kind = "fin" =>
                           /\ peer[wire'[i].s] = "fin"
                           /\ \A j \in DOMAIN wire' : j > i => wire'[j].s # wire'[i].s
    BY <1>u DEF MuxAnswers
  <2>1. wire'[i].s \in table /\ peer[wire'[i].s] # "none"
    BY <1>d, <1>t DEF MuxAnswers
  <2>2. wire[1].kind = "fin" => wire'[i].s # wire[1].s
    BY <1>d, <1>s, <1>t DEF MuxAnswers
  <2>3. ASSUME wire'[i].kind = "fin", NEW j \in DOMAIN wire', j > i
        PROVE  wire'[j].s # wire'[i].s
    <3>1. i + 1 \in DOMAIN wire /\ j + 1 \in DOMAIN wire /\ j + 1 > i + 1
      BY <2>3, <1>d, <1>o
    <3> QED
      BY <3>1, <2>3, <1>d, <1>t DEF MuxAnswers
  <2>4. wire'[i].kind = "fin" => peer[wire'[i].s] = "fin"
    BY <1>d, <1>t DEF MuxAnswers
  <2> QED
    BY <2>1, <2>2, <2>3, <2>4, <1>p
<1> QED
  BY <1>1, <1>2, <1>3, <1>4, <1>5, <1>6, <1>7, MuxTypesNext DEF MuxInv

\* What was read goes to its channel; a task of the connection ends.
LEMMA MuxServes ==
  ASSUME MuxInv, Mux!Deliver \/ Mux!WriterEnds \/ Mux!ReaderEnds
  PROVE  MuxInv'
<1> USE MuxConstants
<1>t. /\ MuxTable /\ MuxFrames /\ MuxTasks
      /\ MuxQueued /\ MuxFresh /\ MuxTold /\ MuxAnswers
  BY MuxTypes DEF MuxInv
<1>u. UNCHANGED <<protocol, table, mux_pc, half, eof, wire, peer>>
  BY DEF Mux!Deliver, Mux!WriterEnds, Mux!ReaderEnds, Mux!stream, Mux!link
<1>a. /\ out' = out \/ out' = <<>>
      /\ reading' = reading \/ reading' = <<>>
  BY DEF Mux!Deliver, Mux!WriterEnds, Mux!ReaderEnds, Mux!link
<1>1. MuxTable' /\ MuxAnswers'
  BY <1>u, <1>t DEF MuxTable, MuxAnswers
<1>2. MuxFrames'
  <2>1. out' \in Seq(Mux!Frames) /\ Len(out') <= OutCap
    <3>1. CASE out' = <<>>
      BY <3>1
    <3>2. CASE out' = out
      BY <3>2, <1>t DEF MuxFrames
    <3> QED
      BY <3>1, <3>2, <1>a
  <2>2. reading' \in Seq(Mux!Frames) /\ Len(reading') <= 1
    <3>1. CASE reading' = <<>>
      BY <3>1
    <3>2. CASE reading' = reading
      BY <3>2, <1>t DEF MuxFrames
    <3> QED
      BY <3>1, <3>2, <1>a
  <2> QED
    BY <2>1, <2>2, <1>u, <1>t DEF MuxFrames
<1>3. MuxTasks'
  BY <1>t, Zenon DEF MuxTasks, Mux!Deliver, Mux!WriterEnds, Mux!ReaderEnds, Mux!link
<1>4. MuxFresh' /\ MuxTold'
  <2>1. CASE out' = out
    BY <2>1, <1>u, <1>t DEF MuxFresh, MuxTold
  <2>2. CASE out' = <<>>
    <3>1. DOMAIN out' = {}
      BY <2>2
    <3> QED
      BY <3>1, <1>u, <1>t DEF MuxFresh, MuxTold
  <2> QED
    BY <2>1, <2>2, <1>a
<1>5. MuxQueued'
  <2>1. CASE inq' = inq
    BY <2>1, <1>a, <1>u, <1>t DEF MuxQueued
  <2>2. CASE /\ reading # <<>> /\ reading' = <<>> /\ Len(inq[reading[1].s]) < InCap
             /\ inq' = [inq EXCEPT ![reading[1].s] = Append(@, reading[1].kind)]
    <3>1. reading[1].s \in Streams /\ reading[1].kind \in {"psh", "fin"}
      <4>1. reading[1] \in Mux!Frames
        BY <2>2, <1>t, Tailed DEF MuxFrames
      <4> QED
        BY <4>1, <2>2, <1>t DEF Mux!Frames, Mux!Kinds, MuxQueued
    <3>2. inq[reading[1].s] \in Seq({"psh", "fin"})
      BY <3>1, <1>t DEF MuxQueued
    <3>3. /\ Append(inq[reading[1].s], reading[1].kind) \in Seq({"psh", "fin"})
          /\ Len(Append(inq[reading[1].s], reading[1].kind)) <= InCap
      BY <3>1, <3>2, <2>2, Appended
    <3> QED
      BY <2>2, <3>1, <3>3, <1>u, <1>t DEF MuxQueued
  <2> QED
    BY <2>1, <2>2 DEF Mux!Deliver, Mux!WriterEnds, Mux!ReaderEnds
<1> QED
  BY <1>1, <1>2, <1>3, <1>4, <1>5, MuxTypesNext DEF MuxInv

\* The peer sends on a stream it knows and has not ended.
LEMMA MuxPeer == ASSUME MuxInv, NEW s \in Streams, Mux!PeerSends(s) PROVE MuxInv'
<1> USE MuxConstants
<1>t. /\ MuxTable /\ MuxFrames /\ MuxTasks
      /\ MuxQueued /\ MuxFresh /\ MuxTold /\ MuxAnswers
  BY MuxTypes DEF MuxInv
<1>u. UNCHANGED <<protocol, table, mux_pc, half, eof, inq, out, writer, reader, reading>>
  BY DEF Mux!PeerSends, Mux!stream
<1>a. PICK k \in {"psh", "fin"} :
        /\ wire' = Append(wire, Mux!Frame(k, s))
        /\ peer' = IF k = "fin" THEN [peer EXCEPT ![s] = "fin"] ELSE peer
  BY DEF Mux!PeerSends
<1>b. peer[s] = "open" /\ s \in table
  BY <1>t DEF Mux!PeerSends, MuxTold
<1>f. PICK f \in Mux!Frames : f = Mux!Frame(k, s) /\ f.kind = k /\ f.s = s
  <2>1. Mux!Frame(k, s) \in Mux!Frames /\ Mux!Frame(k, s).kind = k /\ Mux!Frame(k, s).s = s
    BY DEF Mux!Frame, Mux!Frames, Mux!Kinds
  <2> QED
    BY <2>1
<1>o. /\ wire' \in Seq(Mux!Frames) /\ Len(wire) \in Nat
      /\ DOMAIN wire = 1..Len(wire) /\ DOMAIN wire' = 1..(Len(wire) + 1)
      /\ \A i \in 1..Len(wire) : wire'[i] = wire[i]
      /\ wire'[Len(wire) + 1] = f
  BY <1>a, <1>f, <1>t, Appended DEF MuxFrames
<1>d. \A i \in DOMAIN wire' :
        (i \in DOMAIN wire /\ wire'[i] = wire[i]) \/ (i = Len(wire) + 1 /\ wire'[i] = f)
  BY <1>o
<1>p. /\ peer' \in [Streams -> {"none", "open", "fin"}]
      /\ \A x \in Streams : x # s => peer'[x] = peer[x]
      /\ peer'[s] \in {"open", "fin"}
      /\ k = "fin" => peer'[s] = "fin"
  BY <1>a, <1>b, <1>t DEF MuxTable
<1>1. MuxTable'
  BY <1>p, <1>u, <1>t DEF MuxTable
<1>2. MuxFrames'
  BY <1>o, <1>u, <1>t DEF MuxFrames
<1>3. MuxTasks'
  BY <1>u, <1>t, Zenon DEF MuxTasks
<1>4. MuxQueued'
  BY <1>d, <1>f, <1>u, <1>t DEF MuxQueued
<1>5. MuxFresh'
  BY <1>b, <1>p, <1>u, <1>t DEF MuxFresh
<1>6. MuxTold'
  <2>1. \A i \in DOMAIN out : out[i].kind = "syn" => peer'[out[i].s] = "none"
    <3>1. \A i \in DOMAIN out : out[i].kind = "syn" => out[i].s \in Streams
      BY <1>t DEF MuxTold, MuxTable
    <3> QED
      BY <3>1, <1>b, <1>p, <1>t DEF MuxTold
  <2> QED
    BY <2>1, <1>b, <1>p, <1>u, <1>t DEF MuxTold
<1>7. MuxAnswers'
  <2> SUFFICES ASSUME NEW i \in DOMAIN wire'
               PROVE  /\ wire'[i].s \in table /\ peer'[wire'[i].s] # "none"
                      /\ wire'[i].kind = "fin" =>
                           /\ peer'[wire'[i].s] = "fin"
                           /\ \A j \in DOMAIN wire' : j > i => wire'[j].s # wire'[i].s
    BY <1>u DEF MuxAnswers
  <2>1. CASE i = Len(wire) + 1 /\ wire'[i] = f
    <3>1. \A j \in DOMAIN wire' : ~(j > i)
      BY <2>1, <1>o
    <3> QED
      BY <2>1, <3>1, <1>b, <1>f, <1>p
  <2>2. CASE i \in DOMAIN wire /\ wire'[i] = wire[i]
    <3>1. wire[i].s \in Streams
      BY <2>2, <1>t DEF MuxAnswers, MuxTable
    <3>2. wire[i].s \in table /\ peer'[wire[i].s] # "none"
      BY <2>2, <3>1, <1>p, <1>t DEF MuxAnswers
    <3>3. ASSUME wire[i].kind = "fin"
          PROVE  /\ peer'[wire[i].s] = "fin"
                 /\ \A j \in DOMAIN wire' : j > i => wire'[j].s # wire[i].s
      <4>1. peer[wire[i].s] = "fin" /\ wire[i].s # s
        BY <2>2, <3>3, <1>b, <1>t DEF MuxAnswers
      <4>2. peer'[wire[i].s] = "fin"
        BY <4>1, <3>1, <1>p
      <4>3. \A j \in DOMAIN wire' : j > i => wire'[j].s # wire[i].s
        BY <2>2, <3>3, <4>1, <1>d, <1>f, <1>t DEF MuxAnswers
      <4> QED
        BY <4>2, <4>3
    <3> QED
      BY <2>2, <3>2, <3>3
  <2> QED
    BY <2>1, <2>2, <1>d
<1> QED
  BY <1>1, <1>2, <1>3, <1>4, <1>5, <1>6, <1>7, MuxTypesNext DEF MuxInv

LEMMA MuxKept == ASSUME MuxInv, Mux!Next PROVE MuxInv'
BY MuxLocal, MuxSyn, MuxWrites, MuxWriteFrame, MuxReadFrame, MuxServes, MuxPeer DEF Mux!Next

-----------------------------------------------------------------------------
(* Proxy groups.                                                           *)

\* A connection that is about to write an index has one.
GroupInv == Group!TypeOK /\ \A t \in Clients : group_pc[t] = "write" => choice[t] # 0

LEMMA GroupConstants ==
  GroupSize \in Nat \ {0} /\ MaxLatency \in Nat \ {0} /\ MaxChanges \in Nat
BY PartsAssumption DEF Group!GroupAssumption

\* Of proxies that answer one is the fastest, and the first of those.
LEMMA GroupBest ==
  ASSUME NEW l \in Group!Latencies, Group!Healthy(l) # {}
  PROVE  Group!Best(l) \in Group!Proxies
<1> USE GroupConstants
<1> DEFINE H == Group!Healthy(l)
<1>h. H \subseteq Group!Proxies /\ Group!Proxies \subseteq Nat /\ \A p \in H : l[p] \in Nat
  BY DEF Group!Healthy, Group!Latencies, Group!Proxies
<1>1. PICK m \in {l[p] : p \in H} : \A n \in {l[p] : p \in H} : m <= n
  <2>1. {l[p] : p \in H} \subseteq Nat /\ {l[p] : p \in H} # {}
    BY <1>h
  <2> HIDE DEF H
  <2> QED
    BY <2>1, LeastOf
<1>2. PICK p \in {q \in H : l[q] = m} : \A q \in {q \in H : l[q] = m} : p <= q
  <2>1. {q \in H : l[q] = m} \subseteq Nat /\ {q \in H : l[q] = m} # {}
    BY <1>h, <1>1
  <2> HIDE DEF H
  <2> QED
    BY <2>1, LeastOf
<1>3. \A q \in H : l[p] < l[q] \/ (l[p] = l[q] /\ p <= q)
  <2> SUFFICES ASSUME NEW q \in H PROVE l[p] < l[q] \/ (l[p] = l[q] /\ p <= q)
    OBVIOUS
  <2>1. m <= l[q] /\ l[p] = m /\ m \in Nat /\ l[q] \in Nat
    BY <1>1, <1>2, <1>h
  <2>2. l[q] = m => p <= q
    BY <1>2
  <2> HIDE DEF H
  <2> QED
    BY <2>1, <2>2
<1>4. \E x \in Group!Healthy(l) :
        \A q \in Group!Healthy(l) : l[x] < l[q] \/ (l[x] = l[q] /\ x <= q)
  BY <1>2, <1>3
<1>5. Group!Best(l) \in Group!Healthy(l)
  BY <1>4 DEF Group!Best
<1> QED
  BY <1>5, <1>h

LEMMA GroupFirst ==
  ASSUME NEW S, S \subseteq Group!Proxies, S # {}
  PROVE  Group!First(S) \in S
<1>1. S \subseteq Nat
  BY GroupConstants DEF Group!Proxies
<1> QED
  BY <1>1, LeastOf DEF Group!First

LEMMA GroupInit == Group!Init => GroupInv
<1> SUFFICES ASSUME Group!Init PROVE GroupInv
  OBVIOUS
<1>1. Group!Unknown \in Group!Latencies
  BY GroupConstants DEF Group!Unknown, Group!Latencies
<1>2. real \in Group!Latencies
  BY GroupConstants DEF Group!Init, Group!Latencies
<1>3. 1 \in Group!Proxies
  BY GroupConstants DEF Group!Proxies
<1>4. 0 \in 0..GroupSize /\ 0 \in 0..MaxChanges
  BY GroupConstants
<1> QED
  BY <1>1, <1>2, <1>3, <1>4 DEF Group!Init, GroupInv, Group!TypeOK

LEMMA GroupKept == ASSUME GroupInv, Group!Next PROVE GroupInv'
<1> USE GroupConstants DEF GroupInv, Group!TypeOK, Group!world, Group!checker, Group!tasks
<1>z. Group!Unknown \in Group!Latencies
  BY DEF Group!Unknown, Group!Latencies
<1>p. Group!Proxies \subseteq 0..GroupSize /\ 0 \notin Group!Proxies /\ 1 \in Group!Proxies
  BY DEF Group!Proxies
<1>1. CASE Group!TestProxy
  <2>1. tested + 1 \in Group!Proxies /\ tested + 1 \in 0..GroupSize
    BY <1>1 DEF Group!TestProxy, Group!Proxies
  <2> QED
    BY <1>1, <2>1 DEF Group!TestProxy, Group!Latencies
<1>2. CASE Group!Publish
  BY <1>2, <1>z DEF Group!Publish
<1>3. ASSUME NEW t \in Clients, Group!Connect(t) PROVE GroupInv'
  <2>1. CASE Group!Snapshot(t)
    BY <2>1 DEF Group!Snapshot
  <2>2. CASE Group!Compare(t)
    <3>1. CASE Group!ShouldSwitch(snap[t], selected)
      <4>1. Group!Best(snap[t]) \in Group!Proxies
        BY <3>1, GroupBest DEF Group!ShouldSwitch
      <4> QED
        BY <2>2, <3>1, <4>1, <1>p, <1>z DEF Group!Compare
    <3>2. CASE ~Group!ShouldSwitch(snap[t], selected)
      BY <2>2, <3>2, <1>z DEF Group!Compare
    <3> QED
      BY <3>1, <3>2
  <2>3. CASE Group!WriteSelected(t)
    <3>1. choice[t] \in Group!Proxies
      BY <2>3 DEF Group!WriteSelected, Group!Proxies
    <3> QED
      BY <2>3, <3>1 DEF Group!WriteSelected
  <2>4. CASE Group!UseSelected(t)
    BY <2>4, <1>p DEF Group!UseSelected
  <2>5. CASE Group!FirstAvailable(t)
    <3>1. PICK q \in Group!Proxies : choice' = [choice EXCEPT ![t] = q]
      <4>1. CASE Group!Healthy(latencies) = {}
        BY <2>5, <4>1, <1>p DEF Group!FirstAvailable
      <4>2. CASE Group!Healthy(latencies) # {}
        <5>1. Group!First(Group!Healthy(latencies)) \in Group!Proxies
          BY <4>2, GroupFirst DEF Group!Healthy
        <5> QED
          BY <2>5, <4>2, <5>1 DEF Group!FirstAvailable
      <4> QED
        BY <4>1, <4>2
    <3> QED
      BY <2>5, <3>1, <1>p DEF Group!FirstAvailable
  <2>6. CASE Group!SelectWeighted(t)
    <3>1. PICK q \in Group!Proxies : choice' = [choice EXCEPT ![t] = q]
      BY <2>6 DEF Group!SelectWeighted, Group!Healthy
    <3> QED
      BY <2>6, <3>1, <1>p DEF Group!SelectWeighted
  <2>7. CASE Group!Connected(t)
    BY <2>7 DEF Group!Connected
  <2> QED
    BY <1>3, <2>1, <2>2, <2>3, <2>4, <2>5, <2>6, <2>7 DEF Group!Connect
<1>4. ASSUME NEW p \in Group!Proxies, Group!Select(p) PROVE GroupInv'
  BY <1>4 DEF Group!Select
<1>5. ASSUME NEW p \in Group!Proxies, NEW l \in 0..MaxLatency, Group!ProxyChanges(p, l)
      PROVE  GroupInv'
  BY <1>5 DEF Group!ProxyChanges, Group!Latencies
<1> QED
  BY <1>1, <1>2, <1>3, <1>4, <1>5 DEF Group!Next

-----------------------------------------------------------------------------
(* The routing table.                                                      *)

\* What the tries are made of.
Steps == Labels \cup {0, 1}

\* The paths that rule i has entered, none if it is of another kind.
DomainPaths ==
  [i \in DOMAIN rules |-> IF rules[i].kind = "suffix"
                          THEN {Table!NamePath(n) : n \in rules[i].values} ELSE {}]
IpPaths ==
  [i \in DOMAIN rules |-> IF rules[i].kind = "cidr"
                          THEN {Table!NetPath(n) : n \in rules[i].values} ELSE {}]

\* A trie of paths has every beginning of a path, and at each node the first
\* rule that ends there.
TrieOf(trie, paths) ==
  /\ <<>> \in DOMAIN trie
  /\ \A q \in DOMAIN trie : q \in Seq(Steps) /\ Table!Prefixes(q) \subseteq DOMAIN trie
  /\ \A i \in DOMAIN paths : paths[i] \subseteq DOMAIN trie
  /\ \A q \in DOMAIN trie : trie[q] = Table!Least({i \in DOMAIN paths : q \in paths[i]})

RouterInv ==
  /\ rules \in Seq(Table!Rules)
  /\ TrieOf(domain_trie, DomainPaths)
  /\ TrieOf(ip_trie, IpPaths)

\* Least: of the empty set, and of a set with a least element.
LEMMA LeastNone == Table!Least({}) = 0
BY DEF Table!Least

LEMMA LeastIs ==
  ASSUME NEW S, S \subseteq Nat, NEW m \in S, \A n \in S : m <= n
  PROVE  Table!Least(S) = m
<1> DEFINE c == CHOOSE i \in S : \A j \in S : i <= j
<1>1. c \in S /\ \A j \in S : c <= j
  OBVIOUS
<1>2. Table!Least(S) = c
  BY DEF Table!Least
<1> HIDE DEF c
<1>3. c <= m /\ m <= c /\ c \in Nat /\ m \in Nat
  BY <1>1
<1> QED
  BY <1>2, <1>3

LEMMA LeastIn ==
  ASSUME NEW S, S \subseteq Nat, S # {}
  PROVE  Table!Least(S) \in S /\ \A n \in S : Table!Least(S) <= n
<1>1. PICK m \in S : \A n \in S : m <= n
  BY LeastOf
<1>2. Table!Least(S) = m
  BY <1>1, LeastIs
<1> QED
  BY <1>1, <1>2

\* The least of two sets of rules is the least of what each has.
LEMMA LeastOfBoth ==
  ASSUME NEW A, A \subseteq Nat \ {0}, NEW B, B \subseteq Nat \ {0}
  PROVE  Table!Least({Table!Least(A), Table!Least(B)} \ {0}) = Table!Least(A \cup B)
<1> DEFINE a == Table!Least(A)
           b == Table!Least(B)
<1>a. \/ A = {} /\ a = 0
      \/ a \in A /\ a # 0 /\ a \in Nat /\ \A n \in A : a <= n
  BY LeastNone, LeastIn
<1>b. \/ B = {} /\ b = 0
      \/ b \in B /\ b # 0 /\ b \in Nat /\ \A n \in B : b <= n
  BY LeastNone, LeastIn
<1> HIDE DEF a, b
<1>s. A \cup B \subseteq Nat
  OBVIOUS
<1>1. CASE A = {} /\ B = {}
  <2>1. {a, b} \ {0} = {} /\ A \cup B = {}
    BY <1>1, <1>a, <1>b
  <2> QED
    BY <2>1 DEF a, b
<1>2. CASE A # {} \/ B # {}
  <2>1. PICK m \in {a, b} \ {0} :
          m \in A \cup B /\ (\A n \in A \cup B : m <= n) /\ (\A n \in {a, b} \ {0} : m <= n)
    <3>1. CASE A = {}
      BY <3>1, <1>2, <1>a, <1>b
    <3>2. CASE B = {}
      BY <3>2, <1>2, <1>a, <1>b
    <3>3. CASE A # {} /\ B # {} /\ a <= b
      <4>1. a \in {a, b} \ {0} /\ a \in A \cup B
        BY <3>3, <1>a
      <4>2. \A n \in A \cup B : a <= n
        BY <3>3, <1>a, <1>b
      <4>3. \A n \in {a, b} \ {0} : a <= n
        BY <3>3, <1>a, <1>b
      <4> QED
        BY <4>1, <4>2, <4>3
    <3>4. CASE A # {} /\ B # {} /\ ~(a <= b)
      <4>0. b <= a
        BY <3>4, <1>a, <1>b
      <4>1. b \in {a, b} \ {0} /\ b \in A \cup B
        BY <3>4, <1>b
      <4>2. \A n \in A \cup B : b <= n
        BY <3>4, <4>0, <1>a, <1>b
      <4>3. \A n \in {a, b} \ {0} : b <= n
        BY <3>4, <4>0, <1>a, <1>b
      <4> QED
        BY <4>1, <4>2, <4>3
    <3> QED
      BY <3>1, <3>2, <3>3, <3>4
  <2>2. {a, b} \ {0} \subseteq Nat
    BY <1>a, <1>b
  <2>3. Table!Least({a, b} \ {0}) = m
    BY <2>1, <2>2, LeastIs
  <2>4. Table!Least(A \cup B) = m
    BY <2>1, <1>s, LeastIs
  <2> QED
    BY <2>3, <2>4 DEF a, b
<1> QED
  BY <1>1, <1>2

\* The beginnings of a sequence: of all lengths up to its own.
LEMMA PrefixFacts ==
  ASSUME NEW X, NEW q \in Seq(X)
  PROVE  /\ \A p \in Table!Prefixes(q) :
              p \in Seq(X) /\ Len(p) <= Len(q) /\ p = SubSeq(q, 1, Len(p))
         /\ \A p \in Seq(X) :
              Len(p) <= Len(q) /\ p = SubSeq(q, 1, Len(p)) => p \in Table!Prefixes(q)
         /\ q \in Table!Prefixes(q) /\ <<>> \in Table!Prefixes(q)
<1>1. ASSUME NEW p \in Table!Prefixes(q)
      PROVE  p \in Seq(X) /\ Len(p) <= Len(q) /\ p = SubSeq(q, 1, Len(p))
  <2>1. PICK l \in 0..Len(q) : p = SubSeq(q, 1, l)
    BY DEF Table!Prefixes
  <2>2. SubSeq(q, 1, l) \in Seq(X) /\ Len(SubSeq(q, 1, l)) = l
    OBVIOUS
  <2> QED
    BY <2>1, <2>2
<1>2. ASSUME NEW p \in Seq(X), Len(p) <= Len(q), p = SubSeq(q, 1, Len(p))
      PROVE  p \in Table!Prefixes(q)
  <2>1. Len(p) \in 0..Len(q)
    BY <1>2
  <2> QED
    BY <1>2, <2>1 DEF Table!Prefixes
<1>3. q = SubSeq(q, 1, Len(q)) /\ Len(q) \in 0..Len(q)
  OBVIOUS
<1>4. <<>> = SubSeq(q, 1, 0) /\ 0 \in 0..Len(q)
  OBVIOUS
<1> QED
  BY <1>1, <1>2, <1>3, <1>4 DEF Table!Prefixes

\* A beginning of a beginning is one.
LEMMA PrefixOfPrefix ==
  ASSUME NEW X, NEW q \in Seq(X), NEW p \in Table!Prefixes(q), NEW r \in Table!Prefixes(p)
  PROVE  r \in Table!Prefixes(q)
<1>1. p \in Seq(X) /\ Len(p) <= Len(q) /\ p = SubSeq(q, 1, Len(p))
  BY PrefixFacts
<1>2. r \in Seq(X) /\ Len(r) <= Len(p) /\ r = SubSeq(p, 1, Len(r))
  BY <1>1, PrefixFacts
<1>3. Len(r) <= Len(q)
  BY <1>1, <1>2
<1>4. r = SubSeq(q, 1, Len(r))
  <2>1. Len(SubSeq(q, 1, Len(r))) = Len(r) /\ SubSeq(q, 1, Len(r)) \in Seq(X)
    BY <1>2, <1>3
  <2>2. ASSUME NEW i \in 1..Len(r) PROVE r[i] = SubSeq(q, 1, Len(r))[i]
    <3>1. SubSeq(q, 1, Len(r))[i] = q[i]
      BY <1>2, <1>3
    <3>2. SubSeq(p, 1, Len(r))[i] = p[i]
      BY <1>1, <1>2
    <3>3. SubSeq(q, 1, Len(p))[i] = q[i]
      BY <1>1, <1>2
    <3> QED
      BY <3>1, <3>2, <3>3, <1>1, <1>2
  <2> QED
    BY <2>1, <2>2, <1>2, SeqEqual
<1> QED
  BY <1>2, <1>3, <1>4, PrefixFacts

\* A rule of another kind leaves a trie as it is.
LEMMA TrieSame ==
  ASSUME NEW trie, NEW n \in Nat, NEW paths, DOMAIN paths = 1..n, TrieOf(trie, paths),
         NEW more, DOMAIN more = 1..(n + 1), \A i \in 1..n : more[i] = paths[i], more[n + 1] = {}
  PROVE  TrieOf(trie, more)
<1>1. \A q : {i \in DOMAIN more : q \in more[i]} = {i \in DOMAIN paths : q \in paths[i]}
  OBVIOUS
<1>2. \A i \in DOMAIN more : more[i] \subseteq DOMAIN trie
  BY DEF TrieOf
<1> QED
  BY <1>1, <1>2 DEF TrieOf

\* insert: the values of one rule more.
LEMMA TrieInsert ==
  ASSUME NEW trie, NEW n \in Nat, NEW paths, DOMAIN paths = 1..n, TrieOf(trie, paths),
         NEW S, S \subseteq Seq(Steps),
         NEW more, DOMAIN more = 1..(n + 1), \A i \in 1..n : more[i] = paths[i], more[n + 1] = S
  PROVE  TrieOf(Table!Insert(trie, S, n + 1), more)
<1> DEFINE new == Table!Insert(trie, S, n + 1)
           ends == UNION {Table!Prefixes(p) : p \in S}
<1>d. DOMAIN new = DOMAIN trie \cup ends
  BY DEF Table!Insert, Table!Nodes
<1>v. \A q \in DOMAIN new :
        new[q] = IF q \in S /\ Table!Value(trie, q) = 0 THEN n + 1 ELSE Table!Value(trie, q)
  BY DEF Table!Insert, Table!Nodes
<1> HIDE DEF new
<1>1. <<>> \in DOMAIN new
  BY <1>d DEF TrieOf
<1>2. ASSUME NEW q \in DOMAIN new
      PROVE  q \in Seq(Steps) /\ Table!Prefixes(q) \subseteq DOMAIN new
  <2>1. CASE q \in DOMAIN trie
    BY <2>1, <1>d DEF TrieOf
  <2>2. CASE q \in ends
    <3>1. PICK p \in S : q \in Table!Prefixes(p)
      BY <2>2
    <3>2. q \in Seq(Steps)
      BY <3>1, PrefixFacts
    <3>3. \A r \in Table!Prefixes(q) : r \in Table!Prefixes(p)
      BY <3>1, PrefixOfPrefix
    <3> QED
      BY <3>1, <3>2, <3>3, <1>d
  <2> QED
    BY <2>1, <2>2, <1>d
<1>3. ASSUME NEW i \in DOMAIN more PROVE more[i] \subseteq DOMAIN new
  <2>1. CASE i \in 1..n
    BY <2>1, <1>d DEF TrieOf
  <2>2. CASE i = n + 1
    <3>1. \A p \in S : p \in Table!Prefixes(p)
      BY PrefixFacts
    <3> QED
      BY <2>2, <3>1, <1>d
  <2> QED
    BY <2>1, <2>2
<1>4. ASSUME NEW q \in DOMAIN new
      PROVE  new[q] = Table!Least({i \in DOMAIN more : q \in more[i]})
  <2> DEFINE A == {i \in DOMAIN paths : q \in paths[i]}
             B == {i \in DOMAIN more : q \in more[i]}
  <2>1. Table!Value(trie, q) = Table!Least(A)
    <3>1. CASE q \in DOMAIN trie
      BY <3>1 DEF TrieOf, Table!Value, Table!Nodes
    <3>2. CASE q \notin DOMAIN trie
      <4>1. A = {}
        BY <3>2 DEF TrieOf
      <4>2. Table!Least(A) = 0
        BY <4>1, LeastNone
      <4> QED
        BY <4>2, <3>2 DEF Table!Value, Table!Nodes
    <3> QED
      BY <3>1, <3>2
  <2>2. A \subseteq Nat /\ 0 \notin A /\ B \subseteq Nat
    OBVIOUS
  <2>3. B = IF q \in S THEN A \cup {n + 1} ELSE A
    OBVIOUS
  <2>4. \A i \in A : i <= n
    OBVIOUS
  <2> HIDE DEF A, B
  <2>5. CASE A = {}
    <3>1. Table!Least(A) = 0
      BY <2>5, LeastNone
    <3>2. CASE q \in S
      <4>1. B = {n + 1}
        BY <2>3, <2>5, <3>2
      <4>2. Table!Least(B) = n + 1
        BY <4>1, <2>2, LeastIs
      <4> QED
        BY <4>2, <3>1, <3>2, <2>1, <1>v DEF B
    <3>3. CASE q \notin S
      BY <3>1, <3>3, <2>1, <2>3, <1>v DEF B
    <3> QED
      BY <3>2, <3>3
  <2>6. CASE A # {}
    <3>1. Table!Least(A) \in A /\ \A i \in A : Table!Least(A) <= i
      BY <2>2, <2>6, LeastIn
    <3>2. Table!Least(A) # 0 /\ Table!Least(A) \in Nat /\ Table!Least(A) <= n
      BY <3>1, <2>2, <2>4
    <3>3. Table!Least(A) \in B /\ \A i \in B : Table!Least(A) <= i
      BY <3>1, <3>2, <2>3
    <3>4. Table!Least(B) = Table!Least(A)
      BY <3>3, <2>2, LeastIs
    <3> QED
      BY <3>2, <3>4, <2>1, <1>v DEF B
  <2> QED
    BY <2>5, <2>6
<1>5. TrieOf(new, more)
  BY <1>1, <1>2, <1>3, <1>4 DEF TrieOf
<1> QED
  BY <1>5 DEF new

\* find_first_match: the first rule that has entered a beginning of the path.
LEMMA TrieFinds ==
  ASSUME NEW trie, NEW n \in Nat, NEW paths, DOMAIN paths = 1..n, TrieOf(trie, paths),
         NEW path \in Seq(Steps)
  PROVE  Table!FirstMatch(trie, path) =
           Table!Least({i \in 1..n : \E q \in Table!Prefixes(path) : q \in paths[i]})
<1> DEFINE M == {i \in 1..n : \E q \in Table!Prefixes(path) : q \in paths[i]}
           W == Table!Walk(trie, path)
           F == {trie[q] : q \in W} \ {0}
           At(q) == {i \in DOMAIN paths : q \in paths[i]}
<1>w. W = {q \in Table!Prefixes(path) : q \in DOMAIN trie}
  <2>1. \A q \in Table!Prefixes(path) : q \in Table!Prefixes(q)
    BY PrefixFacts
  <2>2. \A q \in DOMAIN trie : Table!Prefixes(q) \subseteq DOMAIN trie
    BY DEF TrieOf
  <2> QED
    BY <2>1, <2>2 DEF Table!Walk, Table!Nodes
<1>m. M \subseteq Nat /\ 0 \notin M
  OBVIOUS
<1>f. Table!FirstMatch(trie, path) = Table!Least(F)
  BY DEF Table!FirstMatch
<1>a. ASSUME NEW q \in W
      PROVE  \/ trie[q] = 0 /\ At(q) = {}
             \/ trie[q] \in At(q) /\ trie[q] \in M /\ \A i \in At(q) : trie[q] <= i
  <2>1. trie[q] = Table!Least(At(q)) /\ At(q) \subseteq Nat
    BY <1>w DEF TrieOf
  <2>2. At(q) \subseteq M
    BY <1>w
  <2>3. CASE At(q) = {}
    BY <2>1, <2>3, LeastNone
  <2>4. CASE At(q) # {}
    <3> HIDE DEF At
    <3>1. trie[q] \in At(q) /\ \A i \in At(q) : trie[q] <= i
      BY <2>1, <2>4, LeastIn
    <3> QED
      BY <3>1, <2>2
  <2> QED
    BY <2>3, <2>4
<1>b. F \subseteq M
  BY <1>a
<1>c. \A i \in M : \E q \in W : i \in At(q)
  BY <1>w DEF TrieOf
<1> HIDE DEF M, W, At
<1>1. CASE M = {}
  <2>1. F = {}
    BY <1>1, <1>b
  <2> QED
    BY <1>1, <2>1, <1>f DEF M
<1>2. CASE M # {}
  <2>1. PICK m \in M : \A i \in M : m <= i
    BY <1>2, <1>m, LeastOf
  <2>2. PICK q \in W : m \in At(q)
    BY <1>c
  <2>3. trie[q] \in M /\ trie[q] <= m
    BY <2>2, <1>a
  <2>4. trie[q] = m
    <3>1. m <= trie[q] /\ m \in Nat /\ trie[q] \in Nat
      BY <2>1, <2>3, <1>m
    <3> QED
      BY <3>1, <2>3
  <2>5. m \in F
    BY <2>4, <1>m
  <2>6. F \subseteq Nat /\ \A i \in F : m <= i
    BY <2>1, <1>b, <1>m
  <2> HIDE DEF F
  <2>7. Table!Least(F) = m
    BY <2>5, <2>6, LeastIs
  <2>8. Table!Least(M) = m
    BY <2>1, <1>m, LeastIs
  <2> QED
    BY <2>7, <2>8, <1>f DEF M
<1> QED
  BY <1>1, <1>2

\* The powers of two up to n.
Doubles(f, n) == f = [i \in 0..n |-> IF i = 0 THEN 1 ELSE 2 * f[i - 1]]

LEMMA DoublesExist == ASSUME NEW m \in Nat PROVE \E f : Doubles(f, m)
<1> DEFINE T == {n \in Nat : ~ \E f : Doubles(f, n)}
<1>1. SUFFICES ASSUME T # {} PROVE FALSE
  OBVIOUS
<1>2. PICK n \in T : \A k \in T : n <= k
  <2> T \subseteq Nat
    OBVIOUS
  <2> HIDE DEF T
  <2> QED
    BY <1>1, LeastOf
<1>3. n \in Nat /\ ~ \E f : Doubles(f, n)
  OBVIOUS
<1>4. CASE n = 0
  <2> DEFINE f == [i \in 0..0 |-> 1]
  <2>1. Doubles(f, 0)
    BY DEF Doubles
  <2> QED
    BY <1>3, <1>4, <2>1
<1>5. CASE n # 0
  <2>1. n - 1 \in Nat /\ ~(n <= n - 1)
    BY <1>3, <1>5
  <2>2. PICK f : Doubles(f, n - 1)
    BY <1>2, <2>1
  <2> DEFINE g == [i \in 0..n |-> IF i = 0 THEN 1 ELSE 2 * f[i - 1]]
  <2>3. \A i \in 0..(n - 1) : f[i] = IF i = 0 THEN 1 ELSE 2 * f[i - 1]
    BY <2>2 DEF Doubles
  <2>4. \A i \in 0..n : i # 0 => i - 1 \in 0..(n - 1) /\ i - 1 \in 0..n
    BY <2>1
  <2>5. \A i \in 0..(n - 1) : i \in 0..n
    BY <2>1
  <2>6. \A i \in 0..(n - 1) : g[i] = f[i]
    BY <2>3, <2>5
  <2>7. g = [i \in 0..n |-> IF i = 0 THEN 1 ELSE 2 * g[i - 1]]
    <3>1. \A i \in 0..n : g[i] = IF i = 0 THEN 1 ELSE 2 * g[i - 1]
      BY <2>4, <2>6
    <3> QED
      BY <3>1
  <2>8. Doubles(g, n)
    <3> HIDE DEF g
    <3> QED
      BY <2>7 DEF Doubles
  <2> QED
    BY <1>3, <2>8
<1> QED
  BY <1>4, <1>5

LEMMA RouterConstants == MaxLabels \in Nat /\ Bits \in Nat /\ MaxRules \in Nat
BY PartsAssumption DEF Table!RouterAssumption

LEMMA PowStep ==
  ASSUME NEW i \in 0..Bits
  PROVE  Table!Pow2[i] = IF i = 0 THEN 1 ELSE 2 * Table!Pow2[i - 1]
<1> DEFINE p == CHOOSE f : Doubles(f, Bits)
<1>1. Doubles(p, Bits)
  BY DoublesExist, RouterConstants
<1>2. Table!Pow2 = p
  BY DEF Table!Pow2, Doubles
<1> HIDE DEF p
<1>3. p[i] = IF i = 0 THEN 1 ELSE 2 * p[i - 1]
  BY <1>1 DEF Doubles
<1> QED
  BY <1>2, <1>3

\* They are numbers, and none is zero.
LEMMA PowNat == ASSUME NEW n \in 0..Bits PROVE Table!Pow2[n] \in Nat \ {0}
<1> USE RouterConstants
<1> DEFINE T == {i \in 0..Bits : Table!Pow2[i] \notin Nat \ {0}}
<1>1. SUFFICES ASSUME T # {} PROVE FALSE
  OBVIOUS
<1>2. PICK i \in T : \A k \in T : i <= k
  <2> T \subseteq Nat
    OBVIOUS
  <2> HIDE DEF T
  <2> QED
    BY <1>1, LeastOf
<1>3. CASE i = 0
  BY <1>3, PowStep
<1>4. CASE i # 0
  <2>1. i - 1 \in 0..Bits /\ ~(i <= i - 1)
    BY <1>4
  <2>2. Table!Pow2[i - 1] \in Nat \ {0}
    BY <1>2, <2>1
  <2>3. Table!Pow2[i] = 2 * Table!Pow2[i - 1]
    BY <1>4, PowStep
  <2> QED
    BY <2>2, <2>3
<1> QED
  BY <1>3, <1>4

\* One bit less of an address is half of it.
LEMMA Halves ==
  ASSUME NEW a \in Nat, NEW k \in 0..Bits, k # Bits
  PROVE  /\ a \div Table!Pow2[k + 1] = (a \div Table!Pow2[k]) \div 2
         /\ a \div Table!Pow2[k] =
              2 * (a \div Table!Pow2[k + 1]) + ((a \div Table!Pow2[k]) % 2)
         /\ a \div Table!Pow2[k] \in Nat /\ a \div Table!Pow2[k + 1] \in Nat
<1> USE RouterConstants
<1>1. k + 1 \in 0..Bits /\ k \in 0..Bits
  OBVIOUS
<1>2. PICK m \in Nat : m > 0 /\ m = Table!Pow2[k] /\ Table!Pow2[k + 1] = 2 * m
  <2>1. Table!Pow2[k] \in Nat \ {0}
    BY <1>1, PowNat
  <2>2. Table!Pow2[k + 1] = 2 * Table!Pow2[k]
    <3>1. k + 1 # 0 /\ (k + 1) - 1 = k
      OBVIOUS
    <3> QED
      BY <1>1, <3>1, PowStep
  <2> QED
    BY <2>1, <2>2
<1>3. a \div (2 * m) = (a \div m) \div 2
  BY <1>2
<1>4. a \div m \in Nat /\ a \div (2 * m) \in Nat
  BY <1>2
<1>5. \A x \in Nat : x = 2 * (x \div 2) + (x % 2)
  OBVIOUS
<1> QED
  BY <1>2, <1>3, <1>4, <1>5

LEMMA BitPathType ==
  ASSUME NEW a \in Table!Addresses
  PROVE  /\ a \in Nat /\ a < Table!Pow2[Bits]
         /\ Table!BitPath(a) \in Seq({0, 1}) /\ Len(Table!BitPath(a)) = Bits
         /\ \A i \in 1..Bits : Table!BitPath(a)[i] = (a \div Table!Pow2[Bits - i]) % 2
<1> USE RouterConstants
<1>1. Table!Pow2[Bits] \in Nat \ {0}
  BY PowNat
<1>2. a \in Nat /\ a < Table!Pow2[Bits]
  BY <1>1 DEF Table!Addresses
<1>3. ASSUME NEW i \in 1..Bits PROVE (a \div Table!Pow2[Bits - i]) % 2 \in {0, 1}
  <2>1. Bits - i \in 0..Bits
    OBVIOUS
  <2>2. PICK m \in Nat : m > 0 /\ m = Table!Pow2[Bits - i]
    BY <2>1, PowNat
  <2>3. a \div m \in Nat
    BY <1>2, <2>2
  <2>4. \A x \in Nat : x % 2 \in {0, 1}
    OBVIOUS
  <2> QED
    BY <2>2, <2>3, <2>4
<1>4. Table!BitPath(a) \in [1..Bits -> {0, 1}]
  BY <1>3 DEF Table!BitPath
<1>5. Table!BitPath(a) \in Seq({0, 1}) /\ Len(Table!BitPath(a)) = Bits
  BY <1>4
<1> QED
  BY <1>2, <1>5 DEF Table!BitPath

\* Addresses agree in their first bits if they agree without the others.
LEMMA SameBits ==
  ASSUME NEW a \in Table!Addresses, NEW b \in Table!Addresses, NEW len \in 0..Bits
  PROVE  (\A i \in 1..len : Table!BitPath(a)[i] = Table!BitPath(b)[i])
           <=> a \div Table!Pow2[Bits - len] = b \div Table!Pow2[Bits - len]
<1> USE RouterConstants
<1> DEFINE Bit(x, i) == Table!BitPath(x)[i]
           Part(x, l) == x \div Table!Pow2[Bits - l]
           Same(l) == (\A i \in 1..l : Bit(a, i) = Bit(b, i)) <=> Part(a, l) = Part(b, l)
           T == {l \in 0..Bits : ~Same(l)}
<1>1. SUFFICES ASSUME T # {} PROVE FALSE
  OBVIOUS
<1>2. PICK l \in T : \A k \in T : l <= k
  <2> T \subseteq Nat
    OBVIOUS
  <2> HIDE DEF T
  <2> QED
    BY <1>1, LeastOf
<1>3. l \in 0..Bits /\ ~Same(l)
  OBVIOUS
<1>4. CASE l = 0
  <2>1. \A x \in Table!Addresses : x \div Table!Pow2[Bits] = 0
    <3> SUFFICES ASSUME NEW x \in Table!Addresses PROVE x \div Table!Pow2[Bits] = 0
      OBVIOUS
    <3>1. PICK m \in Nat : m > 0 /\ m = Table!Pow2[Bits]
      BY PowNat
    <3>2. x \in Nat /\ x < m
      BY <3>1, BitPathType
    <3>3. x \div m = 0
      BY <3>1, <3>2
    <3> QED
      BY <3>1, <3>3
  <2>2. Bits - 0 = Bits
    OBVIOUS
  <2>3. Part(a, 0) = 0 /\ Part(b, 0) = 0
    BY <2>1, <2>2
  <2>4. 1..0 = {}
    OBVIOUS
  <2> QED
    BY <1>3, <1>4, <2>3, <2>4
<1>5. CASE l # 0
  <2>1. l - 1 \in 0..Bits /\ ~(l <= l - 1) /\ l \in 1..Bits
    BY <1>3, <1>5
  <2>2. Same(l - 1)
    BY <1>2, <2>1
  <2>3. /\ Bits - l \in 0..Bits /\ Bits - l # Bits /\ (Bits - l) + 1 = Bits - (l - 1)
    BY <2>1
  <2>4. ASSUME NEW x \in Table!Addresses
        PROVE  /\ Part(x, l) = 2 * Part(x, l - 1) + Bit(x, l)
               /\ Part(x, l - 1) = Part(x, l) \div 2 /\ Bit(x, l) = Part(x, l) % 2
               /\ Part(x, l) \in Nat /\ Part(x, l - 1) \in Nat
    <3>1. x \in Nat /\ Bit(x, l) = Part(x, l) % 2
      BY <2>1, BitPathType
    <3> QED
      BY <2>3, <3>1, Halves
  <2>5. Part(a, l) = Part(b, l) <=> Part(a, l - 1) = Part(b, l - 1) /\ Bit(a, l) = Bit(b, l)
    <3> HIDE DEF Part, Bit
    <3> QED
      BY <2>4
  <2>6. (\A i \in 1..l : Bit(a, i) = Bit(b, i)) <=>
          (\A i \in 1..(l - 1) : Bit(a, i) = Bit(b, i)) /\ Bit(a, l) = Bit(b, l)
    <3>1. \A i \in 1..l : i \in 1..(l - 1) \/ i = l
      BY <2>1
    <3>2. \A i \in 1..(l - 1) : i \in 1..l
      BY <2>1
    <3>3. l \in 1..l
      BY <2>1
    <3> HIDE DEF Bit
    <3> QED
      BY <3>1, <3>2, <3>3
  <2> HIDE DEF Part, Bit
  <2> QED
    BY <1>3, <2>2, <2>5, <2>6
<1> QED
  BY <1>4, <1>5

\* A path is a beginning of another one: of the nets of an address, and of the
\* suffixes of a name.
LEMMA NetOnPath ==
  ASSUME NEW net \in Table!Nets, NEW a \in Table!Addresses
  PROVE  /\ Table!NetPath(net) \in Seq(Steps) /\ Table!BitPath(a) \in Seq(Steps)
         /\ Table!NetPath(net) \in Table!Prefixes(Table!BitPath(a)) <=> Table!InNet(net, a)
<1> USE RouterConstants
<1>n. net.addr \in Table!Addresses /\ net.len \in 0..Bits
  BY DEF Table!Nets
<1> DEFINE p == Table!BitPath(net.addr)
           q == Table!BitPath(a)
           r == SubSeq(p, 1, net.len)
<1>p. p \in Seq({0, 1}) /\ Len(p) = Bits /\ q \in Seq({0, 1}) /\ Len(q) = Bits
  BY <1>n, BitPathType
<1>s. p \in Seq(Steps) /\ q \in Seq(Steps)
  <2>1. \A i \in 1..Bits : p[i] \in {0, 1} /\ q[i] \in {0, 1}
    BY <1>p
  <2>2. p \in [1..Bits -> Steps] /\ q \in [1..Bits -> Steps]
    BY <1>p, <2>1 DEF Steps
  <2> QED
    BY <2>2
<1>b. (\A i \in 1..net.len : p[i] = q[i]) <=> Table!InNet(net, a)
  BY <1>n, SameBits DEF Table!InNet
<1>e. Table!NetPath(net) = r
  BY DEF Table!NetPath
<1> HIDE DEF p, q
<1>r. /\ r \in Seq(Steps) /\ Len(r) = net.len /\ Len(r) <= Len(q)
      /\ \A i \in 1..net.len : r[i] = p[i]
  BY <1>n, <1>p, <1>s
<1>t. /\ SubSeq(q, 1, net.len) \in Seq(Steps) /\ Len(SubSeq(q, 1, net.len)) = net.len
      /\ \A i \in 1..net.len : SubSeq(q, 1, net.len)[i] = q[i]
  BY <1>n, <1>p, <1>s
<1> HIDE DEF r
<1>1. r = SubSeq(q, 1, net.len) <=> \A i \in 1..net.len : p[i] = q[i]
  <2>1. ASSUME r = SubSeq(q, 1, net.len), NEW i \in 1..net.len PROVE p[i] = q[i]
    BY <2>1, <1>r, <1>t
  <2>2. ASSUME \A i \in 1..net.len : p[i] = q[i] PROVE r = SubSeq(q, 1, net.len)
    <3>1. \A i \in 1..Len(r) : r[i] = SubSeq(q, 1, net.len)[i]
      BY <2>2, <1>r, <1>t
    <3> QED
      BY <3>1, <1>r, <1>t, SeqEqual
  <2> QED
    BY <2>1, <2>2
<1>2. r \in Table!Prefixes(q) <=> r = SubSeq(q, 1, net.len)
  BY <1>r, <1>s, PrefixFacts
<1> QED
  BY <1>1, <1>2, <1>b, <1>e, <1>r, <1>s DEF q

LEMMA NamePathType ==
  ASSUME NEW n \in Table!Names PROVE Table!NamePath(n) \in Seq(Steps)
<1>1. PICK k \in 1..MaxLabels : n \in [1..k -> Labels]
  BY DEF Table!Names
<1>2. k \in Nat /\ Len(n) = k
  BY <1>1, RouterConstants
<1>3. Table!NamePath(n) = [i \in 1..k |-> n[(k - i) + 1]]
  BY <1>2 DEF Table!NamePath, Table!Reverse
<1>4. \A i \in 1..k : (k - i) + 1 \in 1..k
  BY <1>2
<1>5. Table!NamePath(n) \in [1..k -> Steps]
  BY <1>1, <1>3, <1>4 DEF Steps
<1> QED
  BY <1>2, <1>5

LEMMA SuffixOnPath ==
  ASSUME NEW m \in Table!Names, NEW n \in Table!Names
  PROVE  Table!NamePath(m) \in Table!Prefixes(Table!NamePath(n)) <=> Table!HasSuffix(n, m)
<1> DEFINE p == Table!NamePath(m)
           q == Table!NamePath(n)
<1>1. p \in Seq(Steps) /\ q \in Seq(Steps)
  BY NamePathType
<1>2. Table!HasSuffix(n, m) <=> Len(p) <= Len(q) /\ SubSeq(p, 1, Len(p)) = SubSeq(q, 1, Len(p))
  BY DEF Table!HasSuffix, Table!IsSuffix, Table!IsPrefix, Table!NamePath
<1> HIDE DEF p, q
<1>3. SubSeq(p, 1, Len(p)) = p
  BY <1>1
<1>4. p \in Table!Prefixes(q) <=> Len(p) <= Len(q) /\ p = SubSeq(q, 1, Len(p))
  BY <1>1, PrefixFacts
<1> QED
  BY <1>2, <1>3, <1>4 DEF p, q

\* No rules, and tries of a root.
LEMMA RouterInit == Table!Init => RouterInv
<1> SUFFICES ASSUME Table!Init PROVE RouterInv
  OBVIOUS
<1>1. rules = <<>> /\ DOMAIN DomainPaths = {} /\ DOMAIN IpPaths = {}
  BY DEF Table!Init, DomainPaths, IpPaths
<1>2. DOMAIN Table!NewTrie = {<<>>} /\ Table!NewTrie[<<>>] = 0
  BY DEF Table!NewTrie
<1>3. Table!Prefixes(<<>>) \subseteq {<<>>}
  <2>1. <<>> \in Seq(Steps) /\ Len(<<>>) = 0
    OBVIOUS
  <2>2. \A p \in Table!Prefixes(<<>>) : p \in Seq(Steps) /\ Len(p) <= 0
    BY <2>1, PrefixFacts
  <2>3. \A p \in Seq(Steps) : Len(p) <= 0 => p = <<>>
    OBVIOUS
  <2> QED
    BY <2>2, <2>3
<1>4. ASSUME NEW paths, DOMAIN paths = {} PROVE TrieOf(Table!NewTrie, paths)
  <2>1. \A q : {i \in DOMAIN paths : q \in paths[i]} = {}
    BY <1>4
  <2>2. <<>> \in Seq(Steps)
    OBVIOUS
  <2> QED
    BY <1>2, <1>3, <1>4, <2>1, <2>2, LeastNone DEF TrieOf
<1>5. domain_trie = Table!NewTrie /\ ip_trie = Table!NewTrie /\ rules \in Seq(Table!Rules)
  BY DEF Table!Init
<1> QED
  BY <1>1, <1>4, <1>5 DEF RouterInv

\* One rule more: which paths it has.
LEMMA RouterAppends ==
  ASSUME RouterInv, NEW r \in Table!Rules, rules' = Append(rules, r)
  PROVE  /\ rules' \in Seq(Table!Rules) /\ Len(rules) \in Nat
         /\ DOMAIN DomainPaths = 1..Len(rules) /\ DOMAIN DomainPaths' = 1..(Len(rules) + 1)
         /\ DOMAIN IpPaths = 1..Len(rules) /\ DOMAIN IpPaths' = 1..(Len(rules) + 1)
         /\ \A i \in 1..Len(rules) : DomainPaths'[i] = DomainPaths[i] /\ IpPaths'[i] = IpPaths[i]
         /\ DomainPaths'[Len(rules) + 1] =
              IF r.kind = "suffix" THEN {Table!NamePath(n) : n \in r.values} ELSE {}
         /\ IpPaths'[Len(rules) + 1] =
              IF r.kind = "cidr" THEN {Table!NetPath(n) : n \in r.values} ELSE {}
<1>1. rules \in Seq(Table!Rules)
  BY DEF RouterInv
<1>2. /\ rules' \in Seq(Table!Rules) /\ Len(rules) \in Nat
      /\ DOMAIN rules = 1..Len(rules) /\ DOMAIN rules' = 1..(Len(rules) + 1)
      /\ \A i \in 1..Len(rules) : rules'[i] = rules[i]
      /\ rules'[Len(rules) + 1] = r
  BY <1>1
<1>3. /\ \A i \in 1..Len(rules) : i \in 1..(Len(rules) + 1)
      /\ Len(rules) + 1 \in 1..(Len(rules) + 1)
  BY <1>2
<1>4. /\ DOMAIN DomainPaths = 1..Len(rules) /\ DOMAIN DomainPaths' = 1..(Len(rules) + 1)
      /\ DOMAIN IpPaths = 1..Len(rules) /\ DOMAIN IpPaths' = 1..(Len(rules) + 1)
  BY <1>2 DEF DomainPaths, IpPaths
<1>5. \A i \in 1..Len(rules) : DomainPaths'[i] = DomainPaths[i] /\ IpPaths'[i] = IpPaths[i]
  BY <1>2, <1>3 DEF DomainPaths, IpPaths
<1>6. /\ DomainPaths'[Len(rules) + 1] =
           IF r.kind = "suffix" THEN {Table!NamePath(n) : n \in r.values} ELSE {}
      /\ IpPaths'[Len(rules) + 1] =
           IF r.kind = "cidr" THEN {Table!NetPath(n) : n \in r.values} ELSE {}
  BY <1>2, <1>3 DEF DomainPaths, IpPaths
<1> QED
  BY <1>2, <1>4, <1>5, <1>6

\* Router::new keeps the tries in step with the rules.
LEMMA RouterKept == ASSUME RouterInv, Table!Next PROVE RouterInv'
<1> PICK n, dt, it, dp, ip, dq, iq :
      /\ n = Len(rules) /\ dt = domain_trie /\ it = ip_trie
      /\ dp = DomainPaths /\ ip = IpPaths /\ dq = DomainPaths' /\ iq = IpPaths'
  OBVIOUS
<1>t. TrieOf(dt, dp) /\ TrieOf(it, ip)
  BY DEF RouterInv
<1>s. ASSUME NEW r \in Table!Rules, rules' = Append(rules, r)
      PROVE  /\ rules' \in Seq(Table!Rules) /\ n \in Nat
             /\ DOMAIN dp = 1..n /\ DOMAIN dq = 1..(n + 1) /\ \A i \in 1..n : dq[i] = dp[i]
             /\ DOMAIN ip = 1..n /\ DOMAIN iq = 1..(n + 1) /\ \A i \in 1..n : iq[i] = ip[i]
             /\ dq[n + 1] = IF r.kind = "suffix" THEN {Table!NamePath(v) : v \in r.values} ELSE {}
             /\ iq[n + 1] = IF r.kind = "cidr" THEN {Table!NetPath(v) : v \in r.values} ELSE {}
  BY <1>s, RouterAppends
<1>q. ASSUME rules' \in Seq(Table!Rules), TrieOf(domain_trie', dq), TrieOf(ip_trie', iq)
      PROVE  RouterInv'
  BY <1>q DEF RouterInv
<1>1. ASSUME NEW S \in SUBSET Table!Names, Table!AddDomainSuffix(S) PROVE RouterInv'
  <2> DEFINE r == [kind |-> "suffix", values |-> S]
             P == {Table!NamePath(v) : v \in S}
  <2>1. /\ rules' = Append(rules, r) /\ ip_trie' = it
        /\ domain_trie' = Table!Insert(dt, P, n + 1)
    BY <1>1 DEF Table!AddDomainSuffix, Table!Add
  <2>2. r \in Table!Rules /\ r.kind = "suffix" /\ r.values = S
    BY DEF Table!Rules
  <2>3. P \subseteq Seq(Steps)
    BY NamePathType
  <2> HIDE DEF r
  <2>4. dq[n + 1] = P /\ iq[n + 1] = {}
    BY <2>1, <2>2, <1>s
  <2> HIDE DEF P
  <2>5. TrieOf(Table!Insert(dt, P, n + 1), dq)
    BY <2>1, <2>2, <2>3, <2>4, <1>s, <1>t, TrieInsert
  <2>i. n \in Nat /\ DOMAIN ip = 1..n /\ DOMAIN iq = 1..(n + 1) /\ \A i \in 1..n : iq[i] = ip[i]
    BY <2>1, <2>2, <1>s
  <2>e. iq[n + 1] = {} /\ TrieOf(it, ip)
    BY <2>4, <1>t
  <2>6. TrieOf(it, iq)
    BY <2>e, <2>i, TrieSame
  <2> QED
    BY <2>1, <2>2, <2>5, <2>6, <1>s, <1>q
<1>2. ASSUME NEW S \in SUBSET Table!Nets, Table!AddIpCidr(S) PROVE RouterInv'
  <2> DEFINE r == [kind |-> "cidr", values |-> S]
             P == {Table!NetPath(v) : v \in S}
  <2>1. /\ rules' = Append(rules, r) /\ domain_trie' = dt
        /\ ip_trie' = Table!Insert(it, P, n + 1)
    BY <1>2 DEF Table!AddIpCidr, Table!Add
  <2>2. r \in Table!Rules /\ r.kind = "cidr" /\ r.values = S
    BY DEF Table!Rules
  <2>3. P \subseteq Seq(Steps)
    <3>1. \A v \in Table!Nets : v.addr \in Table!Addresses
      BY DEF Table!Nets
    <3> QED
      BY <3>1, NetOnPath
  <2> HIDE DEF r
  <2>4. iq[n + 1] = P /\ dq[n + 1] = {}
    BY <2>1, <2>2, <1>s
  <2> HIDE DEF P
  <2>5. TrieOf(Table!Insert(it, P, n + 1), iq)
    BY <2>1, <2>2, <2>3, <2>4, <1>s, <1>t, TrieInsert
  <2>6. TrieOf(dt, dq)
    BY <2>1, <2>2, <2>4, <1>s, <1>t, TrieSame
  <2> QED
    BY <2>1, <2>2, <2>5, <2>6, <1>s, <1>q
<1>3. ASSUME NEW S \in SUBSET Table!Targets, Table!AddOther(S) PROVE RouterInv'
  <2> DEFINE r == [kind |-> "other", values |-> S]
  <2>1. rules' = Append(rules, r) /\ domain_trie' = dt /\ ip_trie' = it
    BY <1>3 DEF Table!AddOther, Table!Add
  <2>2. r \in Table!Rules /\ r.kind = "other"
    BY DEF Table!Rules
  <2> HIDE DEF r
  <2>3. dq[n + 1] = {} /\ iq[n + 1] = {}
    BY <2>1, <2>2, <1>s
  <2>d. n \in Nat /\ DOMAIN dp = 1..n /\ DOMAIN dq = 1..(n + 1) /\ \A i \in 1..n : dq[i] = dp[i]
    BY <2>1, <2>2, <1>s
  <2>i. DOMAIN ip = 1..n /\ DOMAIN iq = 1..(n + 1) /\ \A i \in 1..n : iq[i] = ip[i]
    BY <2>1, <2>2, <1>s
  <2>4. TrieOf(dt, dq)
    BY <2>3, <2>d, <1>t, TrieSame
  <2>5. TrieOf(it, iq)
    BY <2>3, <2>d, <2>i, <1>t, TrieSame
  <2> QED
    BY <2>1, <2>2, <2>4, <2>5, <1>s, <1>q
<1>4. /\ \A l, m \in Table!Names : {l, m} \in SUBSET Table!Names
      /\ \A l, m \in Table!Nets : {l, m} \in SUBSET Table!Nets
      /\ \A t \in Table!Targets : {t} \in SUBSET Table!Targets
      /\ Table!Targets \in SUBSET Table!Targets
  OBVIOUS
<1> QED
  BY <1>1, <1>2, <1>3, <1>4 DEF Table!Next

\* The types of the table.
LEMMA RouterTypes == RouterInv => Table!TypeOK
<1> SUFFICES ASSUME RouterInv PROVE Table!TypeOK
  OBVIOUS
<1>1. rules \in Seq(Table!Rules) /\ Len(rules) \in Nat /\ DOMAIN rules = 1..Len(rules)
  BY DEF RouterInv
<1>2. ASSUME NEW trie, NEW paths, DOMAIN paths = 1..Len(rules), TrieOf(trie, paths)
      PROVE  Table!IsTrie(trie)
  <2> SUFFICES ASSUME NEW q \in DOMAIN trie
               PROVE  trie[q] \in 0..Len(rules) /\ (q # <<>> => Table!Front(q) \in DOMAIN trie)
    BY DEF Table!IsTrie, Table!Nodes
  <2> DEFINE A == {i \in DOMAIN paths : q \in paths[i]}
  <2>1. trie[q] = Table!Least(A)
    BY <1>2 DEF TrieOf
  <2>2. A \subseteq 1..Len(rules) /\ A \subseteq Nat
    BY <1>2, <1>1
  <2> HIDE DEF A
  <2>3. Table!Least(A) \in 0..Len(rules)
    <3>1. CASE A = {}
      BY <3>1, <1>1, LeastNone
    <3>2. CASE A # {}
      <4>1. Table!Least(A) \in 1..Len(rules)
        BY <3>2, <2>2, LeastIn
      <4>2. \A i \in 1..Len(rules) : i \in 0..Len(rules)
        BY <1>1
      <4> QED
        BY <4>1, <4>2
    <3> QED
      BY <3>1, <3>2
  <2>4. ASSUME q # <<>> PROVE Table!Front(q) \in DOMAIN trie
    <3>1. q \in Seq(Steps) /\ Table!Prefixes(q) \subseteq DOMAIN trie
      BY <1>2 DEF TrieOf
    <3>2. Len(q) - 1 \in 0..Len(q)
      BY <3>1, <2>4
    <3>3. Table!Front(q) \in Table!Prefixes(q)
      BY <3>2 DEF Table!Front, Table!Prefixes
    <3> QED
      BY <3>1, <3>3
  <2> QED
    BY <2>1, <2>3, <2>4
<1>3. DOMAIN DomainPaths = 1..Len(rules) /\ DOMAIN IpPaths = 1..Len(rules)
  BY <1>1 DEF DomainPaths, IpPaths
<1>4. Table!IsTrie(domain_trie) /\ Table!IsTrie(ip_trie)
  BY <1>2, <1>3 DEF RouterInv
<1> QED
  BY <1>1, <1>4 DEF Table!TypeOK

\* What the tries find and what the scan finds is what matches.
LEMMA RouterRoutes == RouterInv => RoutesFirstMatch
<1> SUFFICES ASSUME RouterInv, NEW t \in Table!Targets
             PROVE  Table!Selected(t) =
                      Table!Least({i \in DOMAIN rules : Table!Matches(rules[i], t)})
  BY DEF RoutesFirstMatch, Table!RoutesFirstMatch
<1>1. rules \in Seq(Table!Rules) /\ Len(rules) \in Nat /\ DOMAIN rules = 1..Len(rules)
  BY DEF RouterInv
<1>2. /\ DOMAIN DomainPaths = 1..Len(rules) /\ DOMAIN IpPaths = 1..Len(rules)
      /\ TrieOf(domain_trie, DomainPaths) /\ TrieOf(ip_trie, IpPaths)
  BY <1>1 DEF DomainPaths, IpPaths, RouterInv
<1> DEFINE B == {i \in DOMAIN rules : rules[i].kind = "other" /\ t \in rules[i].values}
<1>b. Table!Scan(t) = Table!Least(B) /\ B \subseteq Nat \ {0}
  BY <1>1 DEF Table!Scan
<1>r. ASSUME NEW i \in DOMAIN rules
      PROVE  /\ rules[i].kind \in {"suffix", "cidr", "other"}
             /\ rules[i].kind = "suffix" => rules[i].values \subseteq Table!Names
             /\ rules[i].kind = "cidr" => rules[i].values \subseteq Table!Nets
  <2>1. rules[i] \in Table!Rules
    BY <1>1
  <2> QED
    BY <2>1 DEF Table!Rules
<1>3. CASE t.kind = "name"
  <2>1. t.of \in Table!Names
    BY <1>3 DEF Table!Targets
  <2> DEFINE path == Table!NamePath(t.of)
             A == {i \in 1..Len(rules) : \E q \in Table!Prefixes(path) : q \in DomainPaths[i]}
  <2>2. Table!FirstMatch(domain_trie, path) = Table!Least(A)
    <3>1. path \in Seq(Steps)
      BY <2>1, NamePathType
    <3> HIDE DEF path
    <3>2. PICK n, trie, paths : n = Len(rules) /\ trie = domain_trie /\ paths = DomainPaths
      OBVIOUS
    <3>3. n \in Nat /\ DOMAIN paths = 1..n /\ TrieOf(trie, paths)
      BY <1>1, <1>2, <3>2
    <3>4. Table!FirstMatch(trie, path) =
            Table!Least({i \in 1..n : \E q \in Table!Prefixes(path) : q \in paths[i]})
      BY <3>1, <3>3, TrieFinds
    <3> QED
      BY <3>2, <3>4
  <2>3. A \subseteq Nat \ {0}
    BY <1>1
  <2>4. Table!Selected(t) = Table!Least({Table!Least(A), Table!Least(B)} \ {0})
    BY <1>3, <1>b, <2>2 DEF Table!Selected
  <2>5. ASSUME NEW i \in DOMAIN rules PROVE i \in A \cup B <=> Table!Matches(rules[i], t)
    <3>1. CASE rules[i].kind = "suffix"
      <4>1. DomainPaths[i] = {Table!NamePath(n) : n \in rules[i].values}
        BY <3>1 DEF DomainPaths
      <4>2. i \in A <=> \E n \in rules[i].values : Table!NamePath(n) \in Table!Prefixes(path)
        BY <4>1, <1>1
      <4>3. \A n \in rules[i].values :
              Table!NamePath(n) \in Table!Prefixes(path) <=> Table!HasSuffix(t.of, n)
        BY <3>1, <1>r, <2>1, SuffixOnPath
      <4>4. Table!Matches(rules[i], t) <=> \E n \in rules[i].values : Table!HasSuffix(t.of, n)
        BY <3>1, <1>3 DEF Table!Matches
      <4>5. i \notin B
        BY <3>1
      <4> QED
        BY <4>2, <4>3, <4>4, <4>5
    <3>2. CASE rules[i].kind = "cidr"
      <4>1. i \notin A /\ i \notin B
        BY <3>2 DEF DomainPaths
      <4> QED
        BY <4>1, <3>2, <1>3 DEF Table!Matches
    <3>3. CASE rules[i].kind = "other"
      <4>1. i \notin A
        BY <3>3 DEF DomainPaths
      <4> QED
        BY <4>1, <3>3 DEF Table!Matches
    <3> QED
      BY <3>1, <3>2, <3>3, <1>r
  <2>6. A \cup B = {i \in DOMAIN rules : Table!Matches(rules[i], t)}
    BY <2>5, <1>1
  <2> HIDE DEF A, B
  <2>7. Table!Least({Table!Least(A), Table!Least(B)} \ {0}) = Table!Least(A \cup B)
    BY <2>3, <1>b, LeastOfBoth
  <2> QED
    BY <2>4, <2>6, <2>7
<1>4. CASE t.kind = "ip"
  <2>1. t.of \in Table!Addresses
    BY <1>4 DEF Table!Targets
  <2> DEFINE path == Table!BitPath(t.of)
             A == {i \in 1..Len(rules) : \E q \in Table!Prefixes(path) : q \in IpPaths[i]}
  <2>0. path \in Seq(Steps)
    <3>1. PICK net \in Table!Nets : TRUE
      <4>1. [addr |-> t.of, len |-> 0] \in Table!Nets
        BY <2>1, RouterConstants DEF Table!Nets
      <4> QED
        BY <4>1
    <3> QED
      BY <2>1, <3>1, NetOnPath
  <2>2. Table!FirstMatch(ip_trie, path) = Table!Least(A)
    <3> HIDE DEF path
    <3>2. PICK n, trie, paths : n = Len(rules) /\ trie = ip_trie /\ paths = IpPaths
      OBVIOUS
    <3>3. n \in Nat /\ DOMAIN paths = 1..n /\ TrieOf(trie, paths)
      BY <1>1, <1>2, <3>2
    <3>4. Table!FirstMatch(trie, path) =
            Table!Least({i \in 1..n : \E q \in Table!Prefixes(path) : q \in paths[i]})
      BY <2>0, <3>3, TrieFinds
    <3> QED
      BY <3>2, <3>4
  <2>3. A \subseteq Nat \ {0}
    BY <1>1
  <2>4. Table!Selected(t) = Table!Least({Table!Least(A), Table!Least(B)} \ {0})
    BY <1>4, <1>b, <2>2 DEF Table!Selected
  <2>5. ASSUME NEW i \in DOMAIN rules PROVE i \in A \cup B <=> Table!Matches(rules[i], t)
    <3>1. CASE rules[i].kind = "cidr"
      <4>1. IpPaths[i] = {Table!NetPath(n) : n \in rules[i].values}
        BY <3>1 DEF IpPaths
      <4>2. i \in A <=> \E n \in rules[i].values : Table!NetPath(n) \in Table!Prefixes(path)
        BY <4>1, <1>1
      <4>3. \A n \in rules[i].values :
              Table!NetPath(n) \in Table!Prefixes(path) <=> Table!InNet(n, t.of)
        BY <3>1, <1>r, <2>1, NetOnPath
      <4>4. Table!Matches(rules[i], t) <=> \E n \in rules[i].values : Table!InNet(n, t.of)
        BY <3>1, <1>4 DEF Table!Matches
      <4>5. i \notin B
        BY <3>1
      <4> QED
        BY <4>2, <4>3, <4>4, <4>5
    <3>2. CASE rules[i].kind = "suffix"
      <4>1. i \notin A /\ i \notin B
        BY <3>2 DEF IpPaths
      <4> QED
        BY <4>1, <3>2, <1>4 DEF Table!Matches
    <3>3. CASE rules[i].kind = "other"
      <4>1. i \notin A
        BY <3>3 DEF IpPaths
      <4> QED
        BY <4>1, <3>3 DEF Table!Matches
    <3> QED
      BY <3>1, <3>2, <3>3, <1>r
  <2>6. A \cup B = {i \in DOMAIN rules : Table!Matches(rules[i], t)}
    BY <2>5, <1>1
  <2> HIDE DEF A, B
  <2>7. Table!Least({Table!Least(A), Table!Least(B)} \ {0}) = Table!Least(A \cup B)
    BY <2>3, <1>b, LeastOfBoth
  <2> QED
    BY <2>4, <2>6, <2>7
<1>5. t.kind \in {"name", "ip"}
  BY DEF Table!Targets
<1> QED
  BY <1>3, <1>4, <1>5

-----------------------------------------------------------------------------
(* The parts side by side.                                                 *)

\* A step of the parts is a step of a part, or leaves it alone.
LEMMA PartsSteps ==
  ASSUME PartsNext \/ UNCHANGED partsVars
  PROVE  /\ Next \/ UNCHANGED vars
         /\ Mux!Next \/ UNCHANGED muxVars
         /\ Pool!Next \/ UNCHANGED poolVars
         /\ Group!Next \/ UNCHANGED groupVars
         /\ Provider!Next \/ UNCHANGED providerVars
         /\ Host!Next \/ UNCHANGED hostVars
         /\ Table!Next \/ UNCHANGED routerVars
BY DEF PartsNext, BreakerStep, MuxStep, PoolStep, GroupStep, ProviderStep, HostStep, RouterStep,
       Only, partsVars

\* The kernel behind the C interface, for any number of threads, runtimes and
\* automatic tests.
THEOREM HostInvariance == PartsSpec => []HostInv
<1>1. PartsInit => HostInv
  BY HostInit DEF PartsInit
<1>2. HostInv /\ [PartsNext]_partsVars => HostInv'
  <2> SUFFICES ASSUME HostInv, [PartsNext]_partsVars PROVE HostInv'
    OBVIOUS
  <2>1. CASE Host!Next
    BY <2>1, HostKept
  <2>2. CASE UNCHANGED hostVars
    BY <2>2 DEF hostVars, HostInv, Host!TypeOK, HostHeld, HostLive, HostTests
  <2> QED
    BY <2>1, <2>2, PartsSteps
<1> QED
  BY <1>1, <1>2, PTL DEF PartsSpec

\* However openworld_start, openworld_stop and the failures of a runtime follow
\* each other, at most one kernel runs and openworld_stop can reach it.
THEOREM KernelAlone == PartsSpec => []OneKernel
<1>1. HostInv => OneKernel
  BY HostOne
<1> QED
  BY <1>1, HostInvariance, PTL

\* Every automatic test that goes on is the one the token stops, or dies with
\* the runtime that is being dropped.
THEOREM TestsReached == PartsSpec => []OneAutoTest
<1>1. HostInv => OneAutoTest
  BY DEF HostInv, HostTests, OneAutoTest, Host!OneAutoTest
<1> QED
  BY <1>1, HostInvariance, PTL

\* The pool of multiplexed connections, for any number of openers and any
\* limits.
THEOREM PoolInvariance == PartsSpec => []PoolInv
<1>1. PartsInit => PoolInv
  BY PoolInit DEF PartsInit
<1>2. PoolInv /\ [PartsNext]_partsVars => PoolInv'
  <2> SUFFICES ASSUME PoolInv, [PartsNext]_partsVars PROVE PoolInv'
    OBVIOUS
  <2>1. CASE Pool!Next
    BY <2>1, PoolKept
  <2>2. CASE UNCHANGED poolVars
    BY <2>2 DEF poolVars, PoolInv, Pool!TypeOK, PoolPlaced, PoolRoom, Connecting, Adding, Pool!StreamsCounted,
                Pool!Users
  <2> QED
    BY <2>1, <2>2, PartsSteps
<1> QED
  BY <1>1, <1>2, PTL DEF PartsSpec

\* Limits that are checked before an await and used after it are exceeded by
\* fewer than the openers, whatever they interleave.
THEOREM PoolLimits == PartsSpec => []OvershootBounded
<1>1. PoolInv => OvershootBounded
  BY PoolBounded
<1> QED
  BY <1>1, PoolInvariance, PTL

\* active_streams is the streams in use and those lost with a failed open, on
\* every connection.
THEOREM PoolCounts == PartsSpec => []StreamsCounted
<1>1. PoolInv => StreamsCounted
  BY DEF PoolInv, StreamsCounted
<1> QED
  BY <1>1, PoolInvariance, PTL

\* Rule providers, for any number of matchers and refreshers, of versions, and
\* of crashes and reloads.
THEOREM ProviderInvariance == PartsSpec => []ProviderInv
<1>1. PartsInit => ProviderInv
  BY ProviderInit DEF PartsInit
<1>2. ProviderInv /\ [PartsNext]_partsVars => ProviderInv'
  <2> SUFFICES ASSUME ProviderInv, [PartsNext]_partsVars PROVE ProviderInv'
    OBVIOUS
  <2>1. CASE Provider!Next
    BY <2>1, ProviderKept
  <2>2. CASE UNCHANGED providerVars
    BY <2>2 DEF providerVars, ProviderInv, Provider!TypeOK, ProviderHeld, ProviderAlone, ProviderGot,
                ProviderStamped, Provider!Busy
  <2> QED
    BY <2>1, <2>2, PartsSteps
<1> QED
  BY <1>1, <1>2, PTL DEF PartsSpec

\* If-Modified-Since names the version of the rules in memory, whole and parsed, after
\* any failed write, crash or reload and whatever another instance wrote, unless two
\* tasks of the instance met.
THEOREM ClaimsTrue == PartsSpec => []ClaimsHeld
<1>1. ProviderInv => ClaimsHeld
  BY ProviderClaims
<1> QED
  BY <1>1, ProviderInvariance, PTL

\* A multiplexed connection, for any number of streams and any capacities.
THEOREM MuxInvariance == PartsSpec => []MuxInv
<1>1. PartsInit => MuxInv
  BY MuxInit DEF PartsInit
<1>2. MuxInv /\ [PartsNext]_partsVars => MuxInv'
  <2> SUFFICES ASSUME MuxInv, [PartsNext]_partsVars PROVE MuxInv'
    OBVIOUS
  <2>1. CASE Mux!Next
    BY <2>1, MuxKept
  <2>2. CASE UNCHANGED muxVars
    BY <2>2 DEF muxVars, MuxInv, Mux!TypeOK, MuxQueued, MuxFresh, MuxTold, MuxAnswers
  <2> QED
    BY <2>1, <2>2, PartsSteps
<1> QED
  BY <1>1, <1>2, PTL DEF PartsSpec

\* Whatever the peer sends finds its stream in the table: neither the order of
\* insert and syn nor that of fin and removal loses a frame.
THEOREM AnswersFound == PartsSpec => []AnswersFindStream
<1>1. MuxInv => AnswersFindStream
  BY DEF MuxInv, MuxAnswers, AnswersFindStream, Mux!AnswersFindStream
<1> QED
  BY <1>1, MuxInvariance, PTL

\* Proxy groups, for any number of proxies and connections and any latencies:
\* a chosen index is one of a proxy.
THEOREM GroupInvariance == PartsSpec => []GroupInv
<1>1. PartsInit => GroupInv
  BY GroupInit DEF PartsInit
<1>2. GroupInv /\ [PartsNext]_partsVars => GroupInv'
  <2> SUFFICES ASSUME GroupInv, [PartsNext]_partsVars PROVE GroupInv'
    OBVIOUS
  <2>1. CASE Group!Next
    BY <2>1, GroupKept
  <2>2. CASE UNCHANGED groupVars
    BY <2>2 DEF groupVars, GroupInv, Group!TypeOK
  <2> QED
    BY <2>1, <2>2, PartsSteps
<1> QED
  BY <1>1, <1>2, PTL DEF PartsSpec

\* The routing table, for any labels, widths of addresses and numbers of rules:
\* each node of a trie has the first rule that ends there.
THEOREM RouterInvariance == PartsSpec => []RouterInv
<1>1. PartsInit => RouterInv
  BY RouterInit DEF PartsInit
<1>2. RouterInv /\ [PartsNext]_partsVars => RouterInv'
  <2> SUFFICES ASSUME RouterInv, [PartsNext]_partsVars PROVE RouterInv'
    OBVIOUS
  <2>1. CASE Table!Next
    BY <2>1, RouterKept
  <2>2. CASE UNCHANGED routerVars
    BY <2>2 DEF routerVars, RouterInv, DomainPaths, IpPaths
  <2> QED
    BY <2>1, <2>2, PartsSteps
<1> QED
  BY <1>1, <1>2, PTL DEF PartsSpec

\* A session takes the first rule of the configuration that matches it by
\* itself: the tries change nothing but the speed.
THEOREM RoutesFirst == PartsSpec => []RoutesFirstMatch
<1>1. RouterInv => RoutesFirstMatch
  BY RouterRoutes
<1> QED
  BY <1>1, RouterInvariance, PTL

\* The circuit breaker among the other parts.
THEOREM BreakerInvariance == PartsSpec => []IInv
<1>1. PartsInit => IInv
  BY InitIInv DEF PartsInit
<1>2. IInv /\ [PartsNext]_partsVars => IInv'
  BY PartsSteps, NextStep
<1> QED
  BY <1>1, <1>2, PTL DEF PartsSpec

\* The state of every part keeps its types.
THEOREM PartsTypes == PartsSpec => []TypesOK
<1>1. IInv /\ MuxInv /\ PoolInv /\ GroupInv /\ ProviderInv /\ HostInv /\ RouterInv => TypesOK
  BY RouterTypes
     DEF IInv, MuxInv, PoolInv, GroupInv, ProviderInv, HostInv, TypesOK
<1> QED
  BY <1>1, BreakerInvariance, MuxInvariance, PoolInvariance, GroupInvariance, ProviderInvariance,
     HostInvariance, RouterInvariance, PTL
=============================================================================
