----------------------------- MODULE ProxyGroup -----------------------------
(***************************************************************************)
(* A proxy group and its health checks (src/src/proxy/group): selector,    *)
(* url-test, fallback and latency-weighted.                                *)
(*                                                                         *)
(* check_all measures one proxy after the other, as they are at that       *)
(* moment, and replaces the published map when all are done.  A connection *)
(* of a url-test group copies the map, reads the selected index, may write *)
(* it, and reads it again: four short critical sections, with other        *)
(* connections in between, so that it may write what an old round said.    *)
(*                                                                         *)
(* A latency is a number, 0 for a proxy that does not answer (None, or no  *)
(* entry in the map).                                                      *)
(***************************************************************************)
EXTENDS Naturals, FiniteSets

CONSTANTS
  N,            \* proxies 1..N, in the order of the configuration
  MaxLatency,
  Tolerance,
  Tasks,        \* connections through the group
  MaxChanges    \* bound on how often proxies and users change their minds

GroupAssumption ==
  /\ N \in Nat \ {0} /\ MaxLatency \in Nat \ {0} /\ Tolerance \in Nat
  /\ MaxChanges \in Nat

Proxies == 1..N
Latencies == [Proxies -> 0..MaxLatency]
Kinds == {"selector", "url-test", "fallback", "latency-weighted"}
Unknown == [p \in Proxies |-> 0]

VARIABLES
  kind,         \* the group's type
  real,         \* the proxies as they are
  wish,         \* the user's last choice
  changes,      \* how many changes there have been
  latencies,    \* HealthChecker.latencies
  results,      \* what the round under way has measured
  tested,       \* the proxies it has measured
  selected,     \* the selected index
  pc,           \* task -> where its connect is
  snap,         \* task -> its copy of latencies
  choice        \* task -> the proxy it writes or uses, 0 if none

world == <<real, wish, changes>>
checker == <<latencies, results, tested>>
tasks == <<pc, snap, choice>>
vars == <<kind, world, checker, selected, tasks>>

TypeOK ==
  /\ kind \in Kinds /\ real \in Latencies /\ wish \in Proxies
  /\ changes \in 0..MaxChanges
  /\ latencies \in Latencies /\ results \in Latencies /\ tested \in 0..N
  /\ selected \in Proxies
  /\ pc \in [Tasks -> {"idle", "snap", "write", "use", "connect"}]
  /\ snap \in [Tasks -> Latencies]
  /\ choice \in [Tasks -> 0..N]

Init ==
  /\ kind \in Kinds
  /\ real \in [Proxies -> {0, 1}]
  /\ wish = 1 /\ changes = 0
  /\ latencies = Unknown /\ results = Unknown /\ tested = 0
  /\ selected = 1
  /\ pc = [t \in Tasks |-> "idle"]
  /\ snap = [t \in Tasks |-> Unknown]
  /\ choice = [t \in Tasks |-> 0]

-----------------------------------------------------------------------------
(* Health checks: one round after the other (run_loop).                    *)

HasChecker == kind # "selector"

\* test_proxy: the latency, or None on an error or a timeout.
TestProxy ==
  /\ HasChecker /\ tested < N
  /\ tested' = tested + 1
  /\ results' = [results EXCEPT ![tested + 1] = real[tested + 1]]
  /\ UNCHANGED <<kind, world, latencies, selected, tasks>>

\* Slip: a round adds what it could measure to what was known.
PublishMerged ==
  /\ tested = N
  /\ latencies' = [p \in Proxies |-> IF results[p] # 0 THEN results[p] ELSE latencies[p]]
  /\ results' = Unknown /\ tested' = 0
  /\ UNCHANGED <<kind, world, selected, tasks>>

Publish ==
  /\ tested = N
  /\ latencies' = results
  /\ results' = Unknown /\ tested' = 0
  /\ UNCHANGED <<kind, world, selected, tasks>>

-----------------------------------------------------------------------------
(* Connections.                                                            *)

Healthy(l) == {p \in Proxies : l[p] # 0}

\* The first of the fastest.
Best(l) ==
  CHOOSE p \in Healthy(l) :
    \A q \in Healthy(l) : l[p] < l[q] \/ (l[p] = l[q] /\ p <= q)

First(S) == CHOOSE p \in S : \A q \in S : p <= q

\* should_switch.
ShouldSwitch(l, cur) ==
  /\ Healthy(l) # {}
  /\ l[cur] = 0 \/ l[cur] > l[Best(l)] + Tolerance
  /\ Best(l) # cur

\* update_selection begins: the copy of the map.
Snapshot(t) ==
  /\ kind = "url-test" /\ pc[t] = "idle"
  /\ pc' = [pc EXCEPT ![t] = "snap"]
  /\ snap' = [snap EXCEPT ![t] = latencies]
  /\ UNCHANGED <<kind, world, checker, selected, choice>>

\* The selected index is read and compared with the best of the copy.
Compare(t) ==
  /\ pc[t] = "snap"
  /\ IF ShouldSwitch(snap[t], selected)
     THEN /\ pc' = [pc EXCEPT ![t] = "write"]
          /\ choice' = [choice EXCEPT ![t] = Best(snap[t])]
     ELSE /\ pc' = [pc EXCEPT ![t] = "use"]
          /\ UNCHANGED choice
  /\ snap' = [snap EXCEPT ![t] = Unknown]
  /\ UNCHANGED <<kind, world, checker, selected>>

WriteSelected(t) ==
  /\ pc[t] = "write"
  /\ selected' = choice[t]
  /\ pc' = [pc EXCEPT ![t] = "use"]
  /\ choice' = [choice EXCEPT ![t] = 0]
  /\ UNCHANGED <<kind, world, checker, snap>>

UseSelected(t) ==
  /\ pc[t] = "use" \/ (kind = "selector" /\ pc[t] = "idle")
  /\ pc' = [pc EXCEPT ![t] = "connect"]
  /\ choice' = [choice EXCEPT ![t] = selected]
  /\ UNCHANGED <<kind, world, checker, selected, snap>>

\* first_available; with none the first.
FirstAvailable(t) ==
  /\ kind = "fallback" /\ pc[t] = "idle"
  /\ pc' = [pc EXCEPT ![t] = "connect"]
  /\ choice' = [choice EXCEPT ![t] =
                  IF Healthy(latencies) = {} THEN 1 ELSE First(Healthy(latencies))]
  /\ UNCHANGED <<kind, world, checker, selected, snap>>

\* select_proxy of latency-weighted: one of those with a weight, else any.
SelectWeighted(t) ==
  /\ kind = "latency-weighted" /\ pc[t] = "idle"
  /\ pc' = [pc EXCEPT ![t] = "connect"]
  /\ \E p \in IF Healthy(latencies) = {} THEN Proxies ELSE Healthy(latencies) :
       choice' = [choice EXCEPT ![t] = p]
  /\ UNCHANGED <<kind, world, checker, selected, snap>>

\* The connection is made, or fails; the task is free for another one.
Connected(t) ==
  /\ pc[t] = "connect"
  /\ pc' = [pc EXCEPT ![t] = "idle"]
  /\ choice' = [choice EXCEPT ![t] = 0]
  /\ UNCHANGED <<kind, world, checker, selected, snap>>

-----------------------------------------------------------------------------
(* The world.                                                              *)

\* SelectorGroup::select; other kinds refuse.
Select(p) ==
  /\ kind = "selector" /\ changes < MaxChanges
  /\ wish' = p /\ selected' = p
  /\ changes' = changes + 1
  /\ UNCHANGED <<kind, real, checker, tasks>>

ProxyChanges(p, l) ==
  /\ changes < MaxChanges /\ l # real[p]
  /\ real' = [real EXCEPT ![p] = l]
  /\ changes' = changes + 1
  /\ UNCHANGED <<kind, wish, checker, selected, tasks>>

Connect(t) ==
  \/ Snapshot(t) \/ Compare(t) \/ WriteSelected(t) \/ UseSelected(t)
  \/ FirstAvailable(t) \/ SelectWeighted(t) \/ Connected(t)

Next ==
  \/ TestProxy \/ Publish
  \/ \E t \in Tasks : Connect(t)
  \/ \E p \in Proxies : Select(p) \/ \E l \in 0..MaxLatency : ProxyChanges(p, l)

Spec == Init /\ [][Next]_vars

\* Rounds go on (every test is under a timeout), connections keep coming.
Fairness ==
  /\ WF_vars(TestProxy) /\ WF_vars(Publish)
  /\ \A t \in Tasks : WF_vars(Connect(t))

FairSpec == Spec /\ Fairness

-----------------------------------------------------------------------------
(* Properties.                                                             *)

\* p is what the group promises, as things are.
Suitable(p) ==
  CASE kind = "selector" -> p = wish
    [] Healthy(real) = {} -> TRUE
    [] kind = "url-test" -> real[p] # 0 /\ real[p] <= real[Best(real)] + Tolerance
    [] kind = "fallback" -> p = First(Healthy(real))
    [] kind = "latency-weighted" -> real[p] # 0

(* Once proxies and users stop changing, every connection takes a proxy    *)
(* the group's type promises: the user's choice, one that answers within   *)
(* tolerance of the fastest, the first that answers, one that answers.     *)
(* Rounds that were under way during a change, and connections that still  *)
(* write what they computed from an old round, only delay that.            *)
Settles == <>[](\A t \in Tasks : pc[t] = "connect" => Suitable(choice[t]))
=============================================================================
