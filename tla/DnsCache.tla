------------------------------ MODULE DnsCache ------------------------------
(***************************************************************************)
(* The resolver's cache (src/src/dns/cache.rs), the outermost layer of     *)
(* build_resolver.  The prefetch task of src/src/app/dispatcher.rs calls   *)
(* resolve like everybody else.                                            *)
(*                                                                         *)
(* A call of resolve is a task.  The cache is behind an RwLock, the LRU    *)
(* order and the in-flight table behind mutexes of their own, so that a    *)
(* call is a chain of short critical sections, each one action here, and   *)
(* flush_cache (clear) is three.  A leader resolves upstream for all; its  *)
(* followers wait on its Notify for at most INFLIGHT_WAIT_TIMEOUT.  A      *)
(* Notify is named after the leader that made it.  A call may be dropped   *)
(* at any await.                                                           *)
(*                                                                         *)
(* An entry is live, then expired.  What it answers is left out: a negative*)
(* entry differs from a positive one in whether it is written at all.      *)
(***************************************************************************)
EXTENDS Integers, Sequences, FiniteSets, SequencesExt, Lists

CONSTANTS
  Tasks,         \* calls of resolve
  Hosts,
  Wants,         \* task -> the hosts it may ask for
  MaxEntries,    \* max_entries
  NegativeTtl,   \* negative_ttl > 0
  MaxFlush,      \* bound on the number of flushes
  None

ASSUME DnsAssumption ==
  /\ Wants \in [Tasks -> SUBSET Hosts]
  /\ MaxEntries \in Nat /\ MaxFlush \in Nat /\ NegativeTtl \in BOOLEAN
  /\ IsFiniteSet(Tasks) /\ IsFiniteSet(Hosts)
  /\ None \notin Tasks \cup Hosts \cup {"live", "expired"}

VARIABLES
  cache,      \* host -> "live", "expired", or None
  order,      \* hosts, the oldest first
  inflight,   \* host -> the leader whose Notify is tabled, or None
  pc,         \* task -> where its call is
  host,       \* task -> the host it asks for
  lead,       \* task -> the leader whose Notify it waits on
  late,       \* tasks whose wait timed out
  ans,        \* task -> the upstream answer it is about to write
  flush,      \* where clear is: "off", "order", "inflight"
  flushes,    \* how many flushes have begun
  orphaned    \* a flush took a host out of the order that is in the cache

calls == <<pc, host, lead, late, ans>>
flushing == <<flush, flushes, orphaned>>
vars == <<cache, order, inflight, calls, flushing>>

Answers == {"pos", "neg"}
Pcs == {"new", "join", "clone", "wait", "reread", "unhook", "direct", "touch",
        "inner", "write", "list", "expire", "evict", "remove", "notify", "done", "dropped",
        "lost"}

Cached == {h \in Hosts : cache[h] # None}
Leading == {t \in Tasks : pc[t] = "inner"}
\* Leaders that have written their entry and not (or, dropped, never) evicted others.
Inserting == {t \in Tasks : pc[t] \in {"list", "expire", "evict", "lost"}}

TypeOK ==
  /\ cache \in [Hosts -> {"live", "expired", None}]
  /\ order \in Seq(Hosts) /\ IsInjective(order)
  /\ inflight \in [Hosts -> Tasks \cup {None}]
  /\ pc \in [Tasks -> Pcs]
  /\ host \in [Tasks -> Hosts \cup {None}]
  /\ lead \in [Tasks -> Tasks \cup {None}]
  /\ late \subseteq Tasks
  /\ ans \in [Tasks -> Answers \cup {None}]
  /\ flush \in {"off", "order", "inflight"} /\ flushes \in 0..MaxFlush
  /\ orphaned \in BOOLEAN

Init ==
  /\ cache = [h \in Hosts |-> None]
  /\ order = <<>>
  /\ inflight = [h \in Hosts |-> None]
  /\ pc = [t \in Tasks |-> "new"]
  /\ host = [t \in Tasks |-> None]
  /\ lead = [t \in Tasks |-> None]
  /\ late = {}
  /\ ans = [t \in Tasks |-> None]
  /\ flush = "off" /\ flushes = 0 /\ orphaned = FALSE

Go(t, from, to) == pc[t] = from /\ pc' = [pc EXCEPT ![t] = to]

-----------------------------------------------------------------------------
(* A call of resolve.                                                      *)

Hit(h) == cache[h] = "live"

\* read_cache under the read lock; a hit is touched afterwards.
ReadCache(t, h, from, miss) ==
  Go(t, from, IF Hit(h) THEN "touch" ELSE miss)

Resolve(t, h) ==
  /\ h \in Wants[t]
  /\ host' = [host EXCEPT ![t] = h]
  /\ ReadCache(t, h, "new", "join")
  /\ UNCHANGED <<cache, order, inflight, lead, late, ans, flushing>>

\* Slip: a host that is listed already is listed again.
TouchedAgain(h) == Append(order, h)

Touched(h) == Append(Keep(order, Hosts \ {h}), h)

TouchOrder(t) ==
  /\ Go(t, "touch", "done")
  /\ order' = Touched(host[t])
  /\ lead' = [lead EXCEPT ![t] = None]
  /\ UNCHANGED <<cache, inflight, host, late, ans, flushing>>

\* Slip: a call that finds the in-flight entry takes it over.
JoinTakesOver(t) ==
  /\ Go(t, "join", "inner")
  /\ inflight' = [inflight EXCEPT ![host[t]] = t]
  /\ UNCHANGED <<cache, order, host, lead, late, ans, flushing>>

Join(t) ==
  /\ pc[t] = "join"
  /\ LET n == inflight[host[t]] IN
     \/ /\ n = None
        /\ Go(t, "join", "inner")
        /\ inflight' = [inflight EXCEPT ![host[t]] = t]
        /\ UNCHANGED lead
     \/ /\ n # None
        /\ Go(t, "join", "clone")
        /\ lead' = [lead EXCEPT ![t] = n]
        /\ UNCHANGED inflight
  /\ UNCHANGED <<cache, order, host, late, ans, flushing>>

-----------------------------------------------------------------------------
(* A follower.                                                             *)

\* notified() is called after the mutex is released: notify_waiters may come first.
Notified(t) ==
  /\ Go(t, "clone", "wait")
  /\ UNCHANGED <<cache, order, inflight, host, lead, late, ans, flushing>>

\* Slip: notified() is awaited without a timeout.
NoTimeout(t) == FALSE /\ UNCHANGED vars

Timeout(t) ==
  /\ Go(t, "wait", "reread")
  /\ late' = late \cup {t}
  /\ UNCHANGED <<cache, order, inflight, host, lead, ans, flushing>>

Reread(t) ==
  /\ pc[t] = "reread"
  /\ ReadCache(t, host[t], "reread", IF t \in late THEN "unhook" ELSE "direct")
  /\ UNCHANGED <<cache, order, inflight, host, lead, late, ans, flushing>>

\* Only the entry waited for is removed (Arc::ptr_eq).
Unhook(t) ==
  /\ Go(t, "unhook", "direct")
  /\ inflight' = IF inflight[host[t]] = lead[t] THEN [inflight EXCEPT ![host[t]] = None]
                 ELSE inflight
  /\ UNCHANGED <<cache, order, host, lead, late, ans, flushing>>

\* What is resolved directly is not cached.
Direct(t) ==
  /\ Go(t, "direct", "done")
  /\ lead' = [lead EXCEPT ![t] = None]
  /\ UNCHANGED <<cache, order, inflight, host, late, ans, flushing>>

-----------------------------------------------------------------------------
(* A leader.                                                               *)

InnerResolve(t) ==
  /\ Go(t, "inner", "write")
  /\ ans' \in {[ans EXCEPT ![t] = v] : v \in Answers}
  /\ UNCHANGED <<cache, order, inflight, host, lead, late, flushing>>

WriteCache(t) ==
  /\ Go(t, "write", "list")
  /\ cache' = IF ans[t] = "pos" \/ NegativeTtl
              THEN [cache EXCEPT ![host[t]] = "live"]
              ELSE cache
  /\ ans' = [ans EXCEPT ![t] = None]
  /\ UNCHANGED <<order, inflight, host, lead, late, flushing>>

\* Slip: only a hit is entered into the order, an insertion is not.
ListOnHitOnly(t) ==
  /\ Go(t, "list", "expire")
  /\ UNCHANGED <<cache, order, inflight, host, lead, late, ans, flushing>>

List(t) ==
  /\ Go(t, "list", "expire")
  /\ order' = Touched(host[t])
  /\ UNCHANGED <<cache, inflight, host, lead, late, ans, flushing>>

\* evict_if_needed, first half: expired entries go.
EvictExpired(t) ==
  /\ Go(t, "expire", "evict")
  /\ cache' = [h \in Hosts |-> IF Hit(h) THEN "live" ELSE None]
  /\ UNCHANGED <<order, inflight, host, lead, late, ans, flushing>>

\* How many of the listed hosts q must go for the rest to fit.
Excess(q) ==
  LET over == Cardinality(Cached) - MaxEntries IN
  IF over <= 0 THEN 0 ELSE IF over < Len(q) THEN over ELSE Len(q)

\* Second half, under both locks: the oldest go while there are too many.
EvictOldest(t) ==
  /\ Go(t, "evict", "remove")
  /\ LET kept == Keep(order, Cached)
         n == Excess(kept)
         gone == ToSet(SubSeq(kept, 1, n)) IN
     /\ order' = SubSeq(kept, n + 1, Len(kept))
     /\ cache' = [h \in Hosts |-> IF h \in gone THEN None ELSE cache[h]]
  /\ UNCHANGED <<inflight, host, lead, late, ans, flushing>>

\* The leader removes the entry of its host, whosever it is by now.
RemoveInflight(t) ==
  /\ Go(t, "remove", "notify")
  /\ inflight' = [inflight EXCEPT ![host[t]] = None]
  /\ UNCHANGED <<cache, order, host, lead, late, ans, flushing>>

\* Those that wait already wake; one that is about to wait does not.
NotifyWaiters(t) ==
  /\ pc[t] = "notify"
  /\ pc' = [u \in Tasks |-> IF u = t THEN "done"
                            ELSE IF pc[u] = "wait" /\ lead[u] = t THEN "reread"
                            ELSE pc[u]]
  /\ UNCHANGED <<cache, order, inflight, host, lead, late, ans, flushing>>

\* The caller drops the call: at whatever await it is, nothing is undone.
\* "lost" tells apart a leader whose entry is written and whose eviction is skipped.
Cancel(t) ==
  /\ pc[t] \notin {"new", "clone", "notify", "done", "dropped", "lost"}
  /\ pc' = [pc EXCEPT ![t] = IF t \in Inserting THEN "lost" ELSE "dropped"]
  /\ lead' = [lead EXCEPT ![t] = None]
  /\ ans' = [ans EXCEPT ![t] = None]
  /\ UNCHANGED <<cache, order, inflight, host, late, flushing>>

-----------------------------------------------------------------------------
(* Flushing and time.                                                      *)

ClearCache ==
  /\ flush = "off" /\ flushes < MaxFlush
  /\ flush' = "order" /\ flushes' = flushes + 1
  /\ cache' = [h \in Hosts |-> None]
  /\ UNCHANGED <<order, inflight, calls, orphaned>>

ClearOrder ==
  /\ flush = "order" /\ flush' = "inflight"
  /\ order' = <<>>
  /\ orphaned' = (orphaned \/ \E h \in ToSet(order) : cache[h] # None)
  /\ UNCHANGED <<cache, inflight, calls, flushes>>

ClearInflight ==
  /\ flush = "inflight" /\ flush' = "off"
  /\ inflight' = [h \in Hosts |-> None]
  /\ UNCHANGED <<cache, order, calls, flushes, orphaned>>

Expire(h) ==
  /\ cache[h] = "live"
  /\ cache' = [cache EXCEPT ![h] = "expired"]
  /\ UNCHANGED <<order, inflight, calls, flushing>>

\* What the call does next, without its caller.
Step(t) ==
  \/ TouchOrder(t) \/ Join(t) \/ Notified(t) \/ Timeout(t) \/ Reread(t) \/ Unhook(t)
  \/ Direct(t) \/ InnerResolve(t) \/ WriteCache(t) \/ List(t) \/ EvictExpired(t)
  \/ EvictOldest(t) \/ RemoveInflight(t) \/ NotifyWaiters(t)

Next ==
  \/ \E t \in Tasks : \/ \E h \in Hosts : Resolve(t, h)
                      \/ Step(t) \/ Cancel(t)
  \/ ClearCache \/ ClearOrder \/ ClearInflight
  \/ \E h \in Hosts : Expire(h)

Spec == Init /\ [][Next]_vars

(* Upstream resolvers answer or fail (the library's own time-outs), no     *)
(* mutex is held for ever, the timer fires.                                *)
Fairness == \A t \in Tasks : WF_vars(Step(t))
FairSpec == Spec /\ Fairness

-----------------------------------------------------------------------------
(* Properties.                                                             *)

(* The cache holds at most max_entries, and one entry for each leader that *)
(* has written and has not come to evict_if_needed, because it is still on *)
(* its way or was dropped there.  What readers, followers and expiry do to *)
(* cache and order in between changes nothing; only a flush that empties   *)
(* the order after a leader has entered its host there (clear takes its    *)
(* locks one by one) leaves entries that no eviction sees.                 *)
CacheBounded ==
  orphaned \/ Cardinality(Cached) <= MaxEntries + Cardinality(Inserting)

(* Only one call resolves a host upstream for all (the in-flight table),   *)
(* unless a follower lost patience with the leader of that host or a flush *)
(* emptied the table: cancelled leaders, late notifications and            *)
(* interleavings of joining and finishing make no second leader.           *)
SingleFlight ==
  \A t, u \in Leading :
    t # u /\ host[t] = host[u] =>
      flushes > 0 \/ \E f \in late : host[f] = host[t]

(* Every call of resolve returns, or was dropped by its caller: also a     *)
(* follower whose leader is cancelled or whose notification went out       *)
(* before it waited.                                                       *)
EveryCallReturns ==
  \A t \in Tasks : []<>(pc[t] \in {"new", "done", "dropped", "lost"})
=============================================================================
