------------------------------- MODULE FakeIp -------------------------------
(***************************************************************************)
(* The FakeIP pool of src/src/dns/fakeip.rs: fake addresses for domain     *)
(* names, and the two maps between them, each behind a lock of its own.    *)
(* An allocation looks under the read lock, takes a number from an atomic  *)
(* counter under no lock at all, and writes under both write locks; the    *)
(* actions are these three.                                                *)
(***************************************************************************)
EXTENDS Integers

CONSTANTS
  Tasks,       \* concurrent callers of the pool
  Domains,     \* lower-cased domain names
  Base, Size,  \* the IPv4 range: ipv4_base and ipv4_size
  Wrap,        \* modulus of u32 arithmetic, 2^32 in the code
  V6Of,        \* n -> the low word of ipv6_prefix | n
  Nothing      \* no name, no address

ASSUME PoolAssumption ==
  /\ Wrap \in Nat /\ Base \in Nat /\ Size \in Nat \ {0}
  /\ Base + Size < Wrap
  /\ V6Of \in [0..(Wrap - 1) -> 0..(Wrap - 1)]
  /\ Nothing \notin ({"v4", "v6"} \X Domains) \cup ({"v4", "v6"} \X Nat)

VARIABLES
  offset,        \* family -> ipv4_offset, ipv6_offset
  domain_to_ip,  \* key -> address or Nothing
  ip_to_domain,  \* address -> key or Nothing
  caller,        \* task -> [pc, key, ip]: an allocation in progress
  ans            \* the last call to return: <<task, key, address>>

poolVars == <<offset, domain_to_ip, ip_to_domain, caller, ans>>

Families == {"v4", "v6"}
Keys == Families \X Domains              \* "domain", or "v6:domain"
Addrs == Families \X (0..(Wrap - 1))
Pcs == {"idle", "fetch_add", "write"}

PoolTypeOK ==
  /\ offset \in [Families -> 0..(Wrap - 1)]
  /\ domain_to_ip \in [Keys -> Addrs \cup {Nothing}]
  /\ ip_to_domain \in [Addrs -> Keys \cup {Nothing}]
  /\ caller \in [Tasks -> [pc : Pcs, key : Keys \cup {Nothing}, ip : Addrs \cup {Nothing}]]
  /\ \A t \in Tasks : caller[t].pc # "idle" => caller[t].key \in Keys
  /\ \A t \in Tasks : caller[t].pc = "write" => caller[t].ip \in Addrs
  /\ ans \in (Tasks \cup {Nothing}) \X (Keys \cup {Nothing}) \X (Addrs \cup {Nothing})

IdleTask == [pc |-> "idle", key |-> Nothing, ip |-> Nothing]

\* The address for the n-th allocation of a family.
AddrOf(f, n) == IF f = "v4" THEN <<f, (Base + (n % Size)) % Wrap>> ELSE <<f, V6Of[n]>>

IsFakeIp(a) == a[1] = "v4" => Base <= a[2] /\ a[2] < Base + Size

-----------------------------------------------------------------------------
PoolInit ==
  /\ offset = [f \in Families |-> 1]
  /\ domain_to_ip = [k \in Keys |-> Nothing]
  /\ ip_to_domain = [a \in Addrs |-> Nothing]
  /\ caller = [t \in Tasks |-> IdleTask]
  /\ ans = <<Nothing, Nothing, Nothing>>

\* allocate, allocate_v6: under the read lock of domain_to_ip.
Allocate(t, k) ==
  /\ caller[t].pc = "idle"
  /\ \/ /\ domain_to_ip[k] # Nothing
        /\ ans' = <<t, k, domain_to_ip[k]>>
        /\ UNCHANGED caller
     \/ /\ domain_to_ip[k] = Nothing
        /\ caller' = [caller EXCEPT ![t] = [pc |-> "fetch_add", key |-> k, ip |-> Nothing]]
        /\ UNCHANGED ans
  /\ UNCHANGED <<offset, domain_to_ip, ip_to_domain>>

\* Slip: the IPv4 offset is not reduced to the size of the range.
FetchAddNoModulo(t) ==
  /\ caller[t].pc = "fetch_add"
  /\ LET k == caller[t].key
         f == k[1] IN
     /\ caller' = [caller EXCEPT ![t] =
          [pc |-> "write", key |-> k, ip |-> <<f, (Base + offset[f]) % Wrap>>]]
     /\ offset' = [offset EXCEPT ![f] = (@ + 1) % Wrap]
  /\ UNCHANGED <<domain_to_ip, ip_to_domain, ans>>

\* Slip: the counter does not wrap.
FetchAddNoWrap(t) ==
  /\ caller[t].pc = "fetch_add"
  /\ LET k == caller[t].key
         f == k[1] IN
     /\ caller' = [caller EXCEPT ![t] =
          [pc |-> "write", key |-> k, ip |-> AddrOf(f, offset[f])]]
     /\ offset' = [offset EXCEPT ![f] = @ + 1]
  /\ UNCHANGED <<domain_to_ip, ip_to_domain, ans>>

\* The counter's fetch_add and the address it stands for.
FetchAdd(t) ==
  /\ caller[t].pc = "fetch_add"
  /\ LET k == caller[t].key
         f == k[1] IN
     /\ caller' = [caller EXCEPT ![t] =
          [pc |-> "write", key |-> k, ip |-> AddrOf(f, offset[f])]]
     /\ offset' = [offset EXCEPT ![f] = (@ + 1) % Wrap]
  /\ UNCHANGED <<domain_to_ip, ip_to_domain, ans>>

\* The maps once k has taken ip from whoever had it.
Reassigned(k, ip) ==
  /\ domain_to_ip' = [x \in Keys |->
       IF x = k THEN ip ELSE IF x = ip_to_domain[ip] THEN Nothing ELSE domain_to_ip[x]]
  /\ ip_to_domain' = [ip_to_domain EXCEPT ![ip] = k]

\* Slip: the name that had the address keeps it.
CommitNoEvict(t) ==
  /\ caller[t].pc = "write"
  /\ caller' = [caller EXCEPT ![t] = IdleTask]
  /\ LET k == caller[t].key
         ip == caller[t].ip IN
     \/ /\ domain_to_ip[k] # Nothing
        /\ ans' = <<t, k, domain_to_ip[k]>>
        /\ UNCHANGED <<domain_to_ip, ip_to_domain>>
     \/ /\ domain_to_ip[k] = Nothing
        /\ ans' = <<t, k, ip>>
        /\ domain_to_ip' = [domain_to_ip EXCEPT ![k] = ip]
        /\ ip_to_domain' = [ip_to_domain EXCEPT ![ip] = k]
  /\ UNCHANGED offset

\* Slip: no second look under the write locks.
CommitNoDoubleCheck(t) ==
  /\ caller[t].pc = "write"
  /\ caller' = [caller EXCEPT ![t] = IdleTask]
  /\ ans' = <<t, caller[t].key, caller[t].ip>>
  /\ Reassigned(caller[t].key, caller[t].ip)
  /\ UNCHANGED offset

\* Under both write locks: the name may have got an address meanwhile; else it
\* takes this one.
Commit(t) ==
  /\ caller[t].pc = "write"
  /\ caller' = [caller EXCEPT ![t] = IdleTask]
  /\ LET k == caller[t].key
         ip == caller[t].ip IN
     \/ /\ domain_to_ip[k] # Nothing
        /\ ans' = <<t, k, domain_to_ip[k]>>
        /\ UNCHANGED <<domain_to_ip, ip_to_domain>>
     \/ /\ domain_to_ip[k] = Nothing
        /\ ans' = <<t, k, ip>>
        /\ Reassigned(k, ip)
  /\ UNCHANGED offset

\* The caller is dropped while it waits for the write locks.
Cancel(t) ==
  /\ caller[t].pc = "write"
  /\ caller' = [caller EXCEPT ![t] = IdleTask]
  /\ UNCHANGED <<offset, domain_to_ip, ip_to_domain, ans>>

\* lookup: under the read lock of ip_to_domain.
Lookup(t, a) ==
  /\ caller[t].pc = "idle"
  /\ ans' = <<t, ip_to_domain[a], a>>
  /\ UNCHANGED <<offset, domain_to_ip, ip_to_domain, caller>>

PoolNext ==
  \E t \in Tasks :
    \/ \E k \in Keys : Allocate(t, k)
    \/ FetchAdd(t)
    \/ Commit(t)
    \/ Cancel(t)
    \/ \E a \in Addrs : Lookup(t, a)

PoolSpec == PoolInit /\ [][PoolNext]_poolVars

-----------------------------------------------------------------------------
\* The two maps are inverse to one another whatever allocations race and
\* however often the counter wraps: no address answers for two names, no name
\* keeps an address that has been given away.
Bijection ==
  /\ \A k \in Keys :
       domain_to_ip[k] # Nothing =>
         ip_to_domain[domain_to_ip[k]] = k /\ domain_to_ip[k][1] = k[1]
  /\ \A a \in Addrs : ip_to_domain[a] # Nothing => domain_to_ip[ip_to_domain[a]] = a

\* Every address the pool knows is one is_fake_ip recognises, so dispatch will
\* look it up: offsets past the end of the range come back into it.
AllocatedIsFake == \A a \in Addrs : ip_to_domain[a] # Nothing => IsFakeIp(a)

\* The pool behaves as the atomic one-to-one assignment of FakeIpMap: each
\* call's answer is the one the map gives at one moment during the call.
Map == INSTANCE FakeIpMap WITH map <- domain_to_ip, None <- Nothing
Atomic == Map!Spec
=============================================================================
