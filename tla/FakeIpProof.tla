---------------------------- MODULE FakeIpProof ----------------------------
(***************************************************************************)
(* The FakeIP pool, for any number of callers and names, any range, any    *)
(* counter width and any IPv6 prefix: the maps stay inverse, addresses stay*)
(* in range, and the pool implements the atomic map.                       *)
(***************************************************************************)
EXTENDS FakeIp, TLAPS

\* The address an allocation holds is of the family asked for, and fake.
TasksOK ==
  \A t \in Tasks : caller[t].pc = "write" =>
    caller[t].ip[1] = caller[t].key[1] /\ IsFakeIp(caller[t].ip)

IInv == PoolTypeOK /\ TasksOK /\ Bijection /\ AllocatedIsFake

-----------------------------------------------------------------------------
\* Wherever the counter stands, the address it gives lies in the pool.
LEMMA AddrOfIn ==
  ASSUME NEW f \in Families, NEW n \in 0..(Wrap - 1)
  PROVE  AddrOf(f, n) \in Addrs /\ AddrOf(f, n)[1] = f /\ IsFakeIp(AddrOf(f, n))
<1>1. n \in Nat /\ Wrap \in Nat /\ Base \in Nat /\ Size \in Nat /\ Size > 0
      /\ Base + Size < Wrap
  BY PoolAssumption
<1>2. n % Size \in 0..(Size - 1)
  BY <1>1
<1>3. (Base + (n % Size)) % Wrap = Base + (n % Size)
  <2> DEFINE m == n % Size
  <2>1. m \in Nat /\ m < Size
    BY <1>2, <1>1
  <2> HIDE DEF m
  <2>2. Base + m \in Nat /\ Base + m < Wrap
    BY <1>1, <2>1
  <2> QED
    BY <2>2, <1>1 DEF m
<1>4. CASE f = "v4"
  BY <1>1, <1>2, <1>3, <1>4 DEF AddrOf, Addrs, Families, IsFakeIp
<1>5. CASE f = "v6"
  BY <1>5, PoolAssumption DEF AddrOf, Addrs, Families, IsFakeIp
<1> QED
  BY <1>4, <1>5 DEF Families

\* Nothing is neither a name nor an address.
LEMMA NoneApart == Nothing \notin Keys /\ Nothing \notin Addrs
BY PoolAssumption DEF Keys, Addrs, Families

\* A new pool has empty maps.
LEMMA InitIInv == PoolInit => IInv
<1> SUFFICES ASSUME PoolInit PROVE IInv
  OBVIOUS
<1>1. PoolTypeOK
  BY PoolAssumption DEF PoolInit, PoolTypeOK, IdleTask, Pcs
<1>2. TasksOK /\ Bijection /\ AllocatedIsFake
  BY DEF PoolInit, TasksOK, IdleTask, Bijection, AllocatedIsFake
<1> QED
  BY <1>1, <1>2 DEF IInv

\* A step that leaves the maps alone keeps them inverse and in range.
LEMMA MapsFrame ==
  ASSUME IInv, UNCHANGED <<domain_to_ip, ip_to_domain>>
  PROVE  Bijection' /\ AllocatedIsFake'
BY DEF IInv, Bijection, AllocatedIsFake

\* The first look: an answer, or an allocation of a name begins.
LEMMA AllocateStep ==
  ASSUME IInv, NEW t \in Tasks, NEW k \in Keys, Allocate(t, k) PROVE IInv'
<1>0. UNCHANGED <<offset, domain_to_ip, ip_to_domain>> /\ PoolTypeOK
  BY DEF Allocate, IInv
<1>1. CASE domain_to_ip[k] # Nothing
  <2>1. UNCHANGED caller /\ ans' = <<t, k, domain_to_ip[k]>>
    BY <1>1 DEF Allocate
  <2> QED
    BY <1>0, <2>1, MapsFrame DEF IInv, PoolTypeOK, TasksOK
<1>2. CASE domain_to_ip[k] = Nothing
  <2>1. /\ UNCHANGED ans
        /\ caller' = [caller EXCEPT ![t] = [pc |-> "fetch_add", key |-> k, ip |-> Nothing]]
    BY <1>2 DEF Allocate
  <2>2. PoolTypeOK'
    BY <1>0, <2>1 DEF PoolTypeOK, Pcs
  <2>3. TasksOK'
    BY <1>0, <2>1 DEF IInv, PoolTypeOK, TasksOK
  <2> QED
    BY <1>0, <2>2, <2>3, MapsFrame DEF IInv
<1> QED
  BY <1>1, <1>2

\* The counter hands out an address of the family, inside the range.
LEMMA FetchAddStep ==
  ASSUME IInv, NEW t \in Tasks, FetchAdd(t) PROVE IInv'
<1> DEFINE k == caller[t].key
           f == k[1]
           ip == AddrOf(f, offset[f])
<1>0. UNCHANGED <<domain_to_ip, ip_to_domain, ans>> /\ PoolTypeOK /\ k \in Keys /\ f \in Families
  BY DEF FetchAdd, IInv, PoolTypeOK, Keys
<1>1. ip \in Addrs /\ ip[1] = f /\ IsFakeIp(ip)
  BY <1>0, AddrOfIn DEF PoolTypeOK
<1>2. /\ caller' = [caller EXCEPT ![t] = [pc |-> "write", key |-> k, ip |-> ip]]
      /\ offset' = [offset EXCEPT ![f] = (@ + 1) % Wrap]
  BY DEF FetchAdd
<1> HIDE DEF ip
<1>3. (offset[f] + 1) % Wrap \in 0..(Wrap - 1)
  <2>1. offset[f] \in Nat /\ Wrap \in Nat /\ Wrap > 0
    BY <1>0, PoolAssumption DEF PoolTypeOK
  <2> QED
    BY <2>1
<1>4. PoolTypeOK'
  BY <1>0, <1>1, <1>2, <1>3 DEF PoolTypeOK, Pcs
<1>5. TasksOK'
  BY <1>0, <1>1, <1>2 DEF IInv, PoolTypeOK, TasksOK
<1> QED
  BY <1>0, <1>4, <1>5, MapsFrame DEF IInv

\* Taking an address from another name leaves the maps inverse: the two names
\* and the two addresses concerned are the only ones that change.
LEMMA ReassignedKeeps ==
  ASSUME IInv, NEW k \in Keys, NEW ip \in Addrs, ip[1] = k[1], IsFakeIp(ip),
         domain_to_ip[k] = Nothing, Reassigned(k, ip)
  PROVE  /\ domain_to_ip' \in [Keys -> Addrs \cup {Nothing}]
         /\ ip_to_domain' \in [Addrs -> Keys \cup {Nothing}]
         /\ Bijection'
         /\ AllocatedIsFake'
<1>0. PoolTypeOK /\ Bijection /\ AllocatedIsFake
  BY DEF IInv
<1>1. /\ domain_to_ip' \in [Keys -> Addrs \cup {Nothing}]
      /\ ip_to_domain' \in [Addrs -> Keys \cup {Nothing}]
  BY <1>0 DEF Reassigned, PoolTypeOK
<1>2. /\ domain_to_ip'[k] = ip
      /\ \A x \in Keys : x # k /\ x = ip_to_domain[ip] => domain_to_ip'[x] = Nothing
      /\ \A x \in Keys : x # k /\ x # ip_to_domain[ip] => domain_to_ip'[x] = domain_to_ip[x]
      /\ ip_to_domain'[ip] = k
      /\ \A a \in Addrs : a # ip => ip_to_domain'[a] = ip_to_domain[a]
  BY <1>0 DEF Reassigned, PoolTypeOK
<1>3. ASSUME NEW x \in Keys, domain_to_ip'[x] # Nothing
      PROVE  ip_to_domain'[domain_to_ip'[x]] = x /\ domain_to_ip'[x][1] = x[1]
  <2>1. CASE x = k
    BY <2>1, <1>2
  <2>2. CASE x # k
    <3>1. domain_to_ip'[x] = domain_to_ip[x] /\ x # ip_to_domain[ip]
      BY <1>2, <1>3, <2>2
    <3>2. ip_to_domain[domain_to_ip[x]] = x /\ domain_to_ip[x][1] = x[1]
          /\ domain_to_ip[x] \in Addrs
      BY <1>0, <1>3, <3>1 DEF Bijection, PoolTypeOK
    <3>3. domain_to_ip[x] # ip
      BY <3>1, <3>2
    <3> QED
      BY <3>1, <3>2, <3>3, <1>2
  <2> QED
    BY <2>1, <2>2
<1>4. ASSUME NEW a \in Addrs, ip_to_domain'[a] # Nothing
      PROVE  domain_to_ip'[ip_to_domain'[a]] = a /\ IsFakeIp(a)
  <2>1. CASE a = ip
    BY <2>1, <1>2
  <2>2. CASE a # ip
    <3>1. ip_to_domain'[a] = ip_to_domain[a] /\ ip_to_domain[a] \in Keys
      BY <1>0, <1>2, <1>4, <2>2 DEF PoolTypeOK
    <3>2. domain_to_ip[ip_to_domain[a]] = a /\ IsFakeIp(a)
      BY <1>0, <1>4, <3>1 DEF Bijection, AllocatedIsFake
    <3>3. ip_to_domain[a] # k
      BY <3>2, NoneApart
    <3>4. ip_to_domain[a] # ip_to_domain[ip]
      <4>1. ip_to_domain[ip] # Nothing => domain_to_ip[ip_to_domain[ip]] = ip
        BY <1>0 DEF Bijection
      <4> QED
        BY <4>1, <3>1, <3>2, <2>2, NoneApart
    <3> QED
      BY <3>1, <3>2, <3>3, <3>4, <1>2
  <2> QED
    BY <2>1, <2>2
<1> QED
  BY <1>1, <1>3, <1>4 DEF Bijection, AllocatedIsFake

\* The write: the name's address of meanwhile, or the one in hand.
LEMMA CommitStep ==
  ASSUME IInv, NEW t \in Tasks, Commit(t) PROVE IInv'
<1> DEFINE k == caller[t].key
           ip == caller[t].ip
<1>0. /\ PoolTypeOK /\ k \in Keys /\ ip \in Addrs /\ ip[1] = k[1] /\ IsFakeIp(ip)
      /\ UNCHANGED offset
      /\ caller' = [caller EXCEPT ![t] = IdleTask]
  BY DEF Commit, IInv, PoolTypeOK, TasksOK
<1>1. TasksOK'
  BY <1>0 DEF IInv, PoolTypeOK, TasksOK, IdleTask
<1>t. /\ caller' \in [Tasks -> [pc : Pcs, key : Keys \cup {Nothing}, ip : Addrs \cup {Nothing}]]
      /\ \A u \in Tasks : caller'[u].pc # "idle" => caller'[u].key \in Keys
      /\ \A u \in Tasks : caller'[u].pc = "write" => caller'[u].ip \in Addrs
  BY <1>0 DEF PoolTypeOK, IdleTask, Pcs
<1>2. CASE domain_to_ip[k] # Nothing
  <2>1. UNCHANGED <<domain_to_ip, ip_to_domain>> /\ ans' = <<t, k, domain_to_ip[k]>>
    BY <1>2 DEF Commit
  <2>2. PoolTypeOK'
    BY <1>0, <1>t, <2>1 DEF PoolTypeOK
  <2> QED
    BY <1>1, <2>1, <2>2, MapsFrame DEF IInv
<1>3. CASE domain_to_ip[k] = Nothing
  <2>1. Reassigned(k, ip) /\ ans' = <<t, k, ip>>
    BY <1>3 DEF Commit
  <2>2. /\ domain_to_ip' \in [Keys -> Addrs \cup {Nothing}]
        /\ ip_to_domain' \in [Addrs -> Keys \cup {Nothing}]
        /\ Bijection' /\ AllocatedIsFake'
    BY <1>0, <1>3, <2>1, ReassignedKeeps
  <2>3. PoolTypeOK'
    BY <1>0, <1>t, <2>1, <2>2 DEF PoolTypeOK
  <2> QED
    BY <1>1, <2>2, <2>3 DEF IInv
<1> QED
  BY <1>2, <1>3

\* A dropped allocation leaves the maps as they are.
LEMMA CancelStep ==
  ASSUME IInv, NEW t \in Tasks, Cancel(t) PROVE IInv'
<1>0. /\ PoolTypeOK /\ UNCHANGED <<offset, domain_to_ip, ip_to_domain, ans>>
      /\ caller' = [caller EXCEPT ![t] = IdleTask]
  BY DEF Cancel, IInv
<1>1. PoolTypeOK' /\ TasksOK'
  BY <1>0 DEF IInv, PoolTypeOK, TasksOK, IdleTask, Pcs
<1> QED
  BY <1>0, <1>1, MapsFrame DEF IInv

\* A lookup changes nothing but its answer.
LEMMA LookupStep ==
  ASSUME IInv, NEW t \in Tasks, NEW a \in Addrs, Lookup(t, a) PROVE IInv'
<1>0. /\ PoolTypeOK /\ UNCHANGED <<offset, domain_to_ip, ip_to_domain, caller>>
      /\ ans' = <<t, ip_to_domain[a], a>>
  BY DEF Lookup, IInv
<1>1. PoolTypeOK' /\ TasksOK'
  BY <1>0 DEF IInv, PoolTypeOK, TasksOK
<1> QED
  BY <1>0, <1>1, MapsFrame DEF IInv

\* Every step keeps the invariant.
LEMMA NextStep == ASSUME IInv, [PoolNext]_poolVars PROVE IInv'
<1>1. CASE PoolNext
  BY <1>1, AllocateStep, FetchAddStep, CommitStep, CancelStep, LookupStep DEF PoolNext
<1>2. CASE UNCHANGED poolVars
  BY <1>2 DEF poolVars, IInv, PoolTypeOK, TasksOK, Bijection, AllocatedIsFake
<1> QED
  BY <1>1, <1>2

\* The inductive invariant holds in every reachable state.
THEOREM Invariance == PoolSpec => []IInv
<1>1. PoolInit => IInv
  BY InitIInv
<1>2. IInv /\ [PoolNext]_poolVars => IInv'
  BY NextStep
<1> QED
  BY <1>1, <1>2, PTL DEF PoolSpec

\* Counters, maps, allocations in progress and answers keep their types,
\* however far the counters run.
THEOREM TypeCorrect == PoolSpec => []PoolTypeOK
<1>1. IInv => PoolTypeOK
  BY DEF IInv
<1> QED
  BY <1>1, Invariance, PTL

\* domain_to_ip and ip_to_domain are inverse, whatever allocations race.
THEOREM MapsInverse == PoolSpec => []Bijection
<1>1. IInv => Bijection
  BY DEF IInv
<1> QED
  BY <1>1, Invariance, PTL

\* is_fake_ip recognises every address the pool has given out and not taken back.
THEOREM AllocatedRecognised == PoolSpec => []AllocatedIsFake
<1>1. IInv => AllocatedIsFake
  BY DEF IInv
<1> QED
  BY <1>1, Invariance, PTL

-----------------------------------------------------------------------------
(* The refinement.                                                         *)

\* Taking an address is one assignment of the abstract map: by Bijection the name
\* that ip_to_domain gives is the only one that had the address.
LEMMA ReassignedAssigns ==
  ASSUME IInv, NEW k \in Keys, NEW ip \in Addrs, domain_to_ip[k] = Nothing,
         Reassigned(k, ip)
  PROVE  domain_to_ip' = [x \in Keys |-> IF x = k THEN ip
                            ELSE IF domain_to_ip[x] = ip THEN Nothing ELSE domain_to_ip[x]]
<1>0. PoolTypeOK /\ Bijection
  BY DEF IInv
<1>1. \A x \in Keys : domain_to_ip[x] = ip <=> x = ip_to_domain[ip]
  BY <1>0, NoneApart DEF Bijection, PoolTypeOK
<1> QED
  BY <1>1 DEF Reassigned

\* What the abstract map needs of an answer to be one of its steps.
LEMMA AnswerSteps ==
  ASSUME NEW t \in Tasks, NEW a \in Addrs,
         \/ \E k \in Keys : Map!Known(t, k, a) \/ Map!Assign(t, k, a)
         \/ Map!Unknown(t, a)
  PROVE  Map!Next
<1>1. ASSUME NEW k \in Keys, Map!Known(t, k, a) \/ Map!Assign(t, k, a) PROVE Map!Next
  <2>1. ans' = <<t, k, a>>
    BY <1>1 DEF Map!Known, Map!Assign
  <2>2. ans'[1] = t /\ ans'[2] = k /\ ans'[3] = a
    BY <2>1
  <2> QED
    BY <1>1, <2>2 DEF Map!Next
<1>2. ASSUME Map!Unknown(t, a) PROVE Map!Next
  <2>1. ans' = <<t, Nothing, a>>
    BY <1>2 DEF Map!Unknown
  <2>2. ans'[1] = t /\ ans'[2] = Nothing /\ ans'[3] = a
    BY <2>1
  <2> QED
    BY <1>2, <2>2 DEF Map!Next
<1> QED
  BY <1>1, <1>2

\* Every step of the pool is a step of the map, or invisible to it.
LEMMA StepRefines ==
  ASSUME IInv, [PoolNext]_poolVars PROVE [Map!Next]_<<domain_to_ip, ans>>
<1>0. PoolTypeOK /\ Bijection
  BY DEF IInv
<1>1. ASSUME NEW t \in Tasks, NEW k \in Keys, domain_to_ip[k] # Nothing,
             UNCHANGED domain_to_ip, ans' = <<t, k, domain_to_ip[k]>>
      PROVE  Map!Next
  <2>1. domain_to_ip[k] \in Addrs
    BY <1>0, <1>1 DEF PoolTypeOK
  <2>2. Map!Known(t, k, domain_to_ip[k])
    BY <1>1 DEF Map!Known
  <2> QED
    BY <2>1, <2>2, AnswerSteps
<1>2. ASSUME NEW t \in Tasks, NEW k \in Keys, Allocate(t, k)
      PROVE  Map!Next \/ UNCHANGED <<domain_to_ip, ans>>
  BY <1>2, <1>1 DEF Allocate
<1>3. ASSUME NEW t \in Tasks, FetchAdd(t) \/ Cancel(t) PROVE UNCHANGED <<domain_to_ip, ans>>
  BY <1>3 DEF FetchAdd, Cancel
<1>4. ASSUME NEW t \in Tasks, Commit(t) PROVE Map!Next
  <2> DEFINE k == caller[t].key
             ip == caller[t].ip
  <2>1. k \in Keys /\ ip \in Addrs
    BY <1>0, <1>4 DEF Commit, PoolTypeOK
  <2>2. CASE domain_to_ip[k] # Nothing
    BY <1>4, <1>1, <2>1, <2>2 DEF Commit
  <2>3. CASE domain_to_ip[k] = Nothing
    <3>1. Reassigned(k, ip) /\ ans' = <<t, k, ip>>
      BY <1>4, <2>3 DEF Commit
    <3>2. Map!Assign(t, k, ip)
      BY <2>1, <2>3, <3>1, ReassignedAssigns DEF Map!Assign
    <3> QED
      BY <2>1, <3>2, AnswerSteps
  <2> QED
    BY <2>2, <2>3
<1>5. ASSUME NEW t \in Tasks, NEW a \in Addrs, Lookup(t, a) PROVE Map!Next
  <2>0. UNCHANGED domain_to_ip /\ ans' = <<t, ip_to_domain[a], a>>
    BY <1>5 DEF Lookup
  <2>1. CASE ip_to_domain[a] # Nothing
    <3>1. ip_to_domain[a] \in Keys /\ domain_to_ip[ip_to_domain[a]] = a
      BY <1>0, <2>1 DEF PoolTypeOK, Bijection
    <3> QED
      BY <1>1, <2>0, <3>1, NoneApart
  <2>2. CASE ip_to_domain[a] = Nothing
    <3>1. \A k \in Keys : domain_to_ip[k] # a
      BY <1>0, <2>2, NoneApart DEF Bijection, PoolTypeOK
    <3>2. Map!Unknown(t, a)
      BY <2>0, <2>2, <3>1 DEF Map!Unknown
    <3> QED
      BY <3>2, AnswerSteps
  <2> QED
    BY <2>1, <2>2
<1>6. CASE UNCHANGED poolVars
  BY <1>6 DEF poolVars
<1> QED
  BY <1>2, <1>3, <1>4, <1>5, <1>6 DEF PoolNext

\* The pool implements the atomic one-to-one map, for all callers and names.
THEOREM Refinement == PoolSpec => Atomic
<1>1. PoolInit => Map!Init
  BY DEF PoolInit, Map!Init
<1>2. IInv /\ [PoolNext]_poolVars => [Map!Next]_<<domain_to_ip, ans>>
  BY StepRefines
<1> QED
  BY <1>1, <1>2, Invariance, PTL DEF PoolSpec, Atomic, Map!Spec
=============================================================================
