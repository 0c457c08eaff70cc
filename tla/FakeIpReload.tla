---------------------------- MODULE FakeIpReload ----------------------------
(***************************************************************************)
(* A configuration reload under FakeIP: do_reload_config                   *)
(* (src/src/app/mod.rs) builds a resolver with a pool of its own and hands *)
(* the dispatcher the resolver, while Dispatcher::dispatch keeps looking   *)
(* addresses up in the pool it was created with.                           *)
(***************************************************************************)
EXTENDS Integers

CONSTANTS Tasks, Domains, Base, Size, Wrap, V6Of, Nothing

VARIABLES
  offset, domain_to_ip, ip_to_domain, caller, ans,        \* Dispatcher.fakeip_pool
  offset2, domain_to_ip2, ip_to_domain2, caller2, ans2,   \* the reloaded resolver's
  reloaded                                              \* Dispatcher.resolver is the new one

first == <<offset, domain_to_ip, ip_to_domain, caller, ans>>
second == <<offset2, domain_to_ip2, ip_to_domain2, caller2, ans2>>
vars == <<first, second, reloaded>>

Pool == INSTANCE FakeIp
Pool2 == INSTANCE FakeIp WITH offset <- offset2, domain_to_ip <- domain_to_ip2,
           ip_to_domain <- ip_to_domain2, caller <- caller2, ans <- ans2

Init == Pool!PoolInit /\ Pool2!PoolInit /\ reloaded = FALSE

\* A query to the resolver in force begins an allocation in its pool.
Resolve(t, k) ==
  \/ ~reloaded /\ Pool!Allocate(t, k) /\ UNCHANGED <<second, reloaded>>
  \/ reloaded /\ Pool2!Allocate(t, k) /\ UNCHANGED <<first, reloaded>>

\* Allocations in progress go on in the pool they began in.
Finish(t) ==
  \/ /\ Pool!FetchAdd(t) \/ Pool!Commit(t) \/ Pool!Cancel(t)
     /\ UNCHANGED <<second, reloaded>>
  \/ /\ Pool2!FetchAdd(t) \/ Pool2!Commit(t) \/ Pool2!Cancel(t)
     /\ UNCHANGED <<first, reloaded>>

\* dispatch: the address of a connection is looked up in the dispatcher's pool.
Dispatch(t, a) == Pool!Lookup(t, a) /\ UNCHANGED <<second, reloaded>>

\* update_resolver: only the resolver is replaced (one reload is enough).
Reload == ~reloaded /\ reloaded' = TRUE /\ UNCHANGED <<first, second>>

Next ==
  \/ \E t \in Tasks :
       \/ \E k \in Pool!Keys : Resolve(t, k)
       \/ Finish(t)
       \/ \E a \in Pool!Addrs : Dispatch(t, a)
  \/ Reload

Spec == Init /\ [][Next]_vars

\* dispatch restores the name behind a fake address: an address that the
\* resolver in force has given out, and not taken back, is known to the pool
\* dispatch looks in, under the same name.
DispatchRestores ==
  \A a \in Pool!Addrs :
    LET k == IF reloaded THEN ip_to_domain2[a] ELSE ip_to_domain[a] IN
    k # Nothing => ip_to_domain[a] = k
=============================================================================
