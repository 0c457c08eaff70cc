# OpenWorld: TLA+ verification project

OpenWorld is a proxy kernel in Rust: inbounds accept connections and datagrams,
a router picks an outbound, the dispatcher connects and relays. This directory
holds TLA+ specifications of the kernel's stateful core (`src/src/`), TLC
configurations that check them on small instances, and TLAPS proofs for every
instance. `PROJECT.json` maps every definition to the lines it models, and lists
runs, theorems, hazards and findings.

Run `tlc -config X.cfg M` for a run and `tlapm MProof.tla` for a proof.

## 1. Inventory

| Component (source) | State | Operations | Talks to |
|---|---|---|---|
| UDP NAT table (`proxy/nat.rs`) | `entries`, `reverse`, `source_map`, each behind its own mutex; `last_active` per entry | `get`, `get_or_insert`, `insert`, `get_transport_for_source`, `cleanup` | UDP dispatch |
| UDP dispatch (`app/dispatcher.rs`) | per session: forward task, cleanup task, one reverse relay per entry; a Router snapshot | receive, route, connect, table, send; session end aborts and signals | NAT table, router, outbounds |
| FakeIP pool (`dns/fakeip.rs`) | two maps behind two RwLocks, two atomic counters | `allocate`, `allocate_v6`, `lookup`, `is_fake_ip` | resolver (allocates), dispatcher (looks up) |
| Reload (`app/mod.rs`, `api/handlers.rs`) | the dispatcher's router, outbound manager and resolver, a lock each; the watcher's debounce | `do_reload_config` (file watcher, SIGHUP), `PATCH /configs`, provider refresh, subscription rebuild | all dispatch |
| Circuit breaker, retries (`app/resilience.rs`) | state, counters, time of last failure | `allow_request`, `record_success`, `record_failure`, `retry_with_backoff` | TCP dispatch |
| Inbound manager, limits (`app/inbound_manager.rs`, `common/traffic.rs`) | accept loops, permits | accept, acquire, refuse, stop | TCP dispatch, shutdown |
| TCP dispatch (`app/dispatcher.rs`) | one task per connection | sniff, restore FakeIP, route, track, connect, relay | tracker, breaker, relay |
| Tracker (`app/tracker.rs`) | table behind an RwLock, totals (atomics), per-outbound account (mutex) | `track`, guard drop, `close`, `close_all`, `close_idle`, `reset_traffic`, `list`, `snapshot_async` | dispatch, REST API, FFI, shutdown |
| Shutdown (`app/mod.rs`) | cancellation token, 30 s grace period | signal, drain, force close | inbounds, relays, tracker |
| TUN TCP stack (`proxy/inbound/tun_stack.rs`) | `tcp_connections`, `active_tcp`, sequence numbers under a lock per connection, two bounded channels per stream | `handle_tcp_packet`; writer and dispatch tasks | TUN device, TCP dispatch |
| Relay (`proxy/relay.rs`) | half-close flags, byte counts | `relay_with_options` | streams of both sides |
| DNS cache (`dns/cache.rs`) | entries behind an RwLock, LRU order and in-flight table behind a mutex each | `resolve` (leader, follower), eviction, `clear`, prefetch | resolvers, dispatcher, REST API |
| DNS resolvers (`dns/resolver.rs`, `dns/hosts.rs`) | the layers built from a configuration | split, race, fallback, hosts, FakeIP, preferred family | DNS cache, upstream servers |
| DERP relay (`derp/server.rs`) | clients by key behind an RwLock, a bounded channel per client | register, replace, relay, broadcast, clean up | clients |
| QUIC outbounds (`proxy/outbound/tuic`, `hysteria2`) | one connection and its flag behind a mutex; a counter of sessions | get connection, authenticate, open stream, UDP session | dispatch, server |
| Multiplexer (`proxy/mux`) | streams table, frame queue, a channel per stream; reader and writer task | `open_stream`, `dispatch_frame`, `poll_read`, `poll_write`, `poll_shutdown` | relay, peer |
| Pool of multiplexed connections (`proxy/mux/mod.rs`) | connections, `active_streams` of each | `open_stream`, drop of a stream | outbounds |
| Proxy groups (`proxy/group`) | selected index, published latencies | `select`, `update_selection`, `first_available`, `check_all` | outbounds, REST API, FFI |
| Rule provider (`router/provider.rs`) | rules, `loaded`, `last_modified`, `load_lock`; a file | lazy load, fallback, periodic and requested refresh | router, server, file system |
| Router (`router/mod.rs`, `trie.rs`, `rules.rs`) | rules, two tries | build, `route_with_rule` | dispatch |
| FFI (`app/ffi.rs`) | INSTANCE behind one mutex; a runtime; the auto-test token | start, stop, network calls, auto test | host application |
| Configuration, protocols, sniffing, REST, Android | mostly pure functions or I/O | | |

What is hard here: NAT and FakeIP updates span several locks or awaits; tasks
are aborted at whatever await they are in; a reload leaves long-lived sessions
with old snapshots; results reach the breaker late; three different paths
remove a connection from the tracker; a DNS call may be dropped at any await
while others wait for it; a provider's file and its rules in memory change
without a common lock, a write may fail half way, the process may end in between,
and a reload makes a second provider on the same file; the parts of a
configuration are swapped one by one, by whoever comes; the QUIC connection of an
outbound is set up by callers that may give up half way; the TUN handler handles
packets one by one and waits, with a lock held, for tasks that need that lock;
counters are plain atomics decremented from several places.

What makes each part correct:

* **NAT**: no mapping outlives its flow; a reply goes only to the client the
  port was opened for; a client keeps its port; closed sessions leave no task.
* **FakeIP**: the two maps are inverse; every address given out is recognised;
  the pool acts as one atomic map; dispatch restores the name behind an address.
* **Breaker**: never wedged open, half-open is the only way back, it recovers.
* **Admission, dispatch, tracker**: permits are conserved; traffic is archived
  at most once, and not lost; shutdown completes.
* **TUN**: no acknowledgement runs ahead of the stream, the stream has no holes;
  nothing follows end of file; the connection counter is right; nobody waits for
  ever.
* **DNS cache**: bounded; one upstream query per host; every call returns.
* **Multiplexer**: answers find their stream; opening hangs for no other reason
  than a relay that does not read or a peer that takes nothing; counters and limits
  do not drift.
* **Groups**: connections settle on a suitable proxy. **Rule providers**: a
  version is claimed only of the whole rules in memory, cut rules do not stay, the
  rules become the server's, the cached version is used.
* **Router**: the first matching rule. **FFI**: one kernel, always in reach.
* **Resolvers**: the right server answers, an error means that all failed.
  **DERP**: no entry outlives its connection, whoever is replaced is told to stop.
  **QUIC**: nothing before
  authentication, no answer to the wrong session. **Reload**: one configuration at
  a time, never half of one; what is saved comes into service.

## 2. Modules

| Module | Models | Checked by | Proved in |
|---|---|---|---|
| `UdpNat` | NAT table and `dispatch_udp` | `MCUdpNat`, `MCUdpNatPort` | `UdpNatProof` |
| `FakeIpMap` | abstract: one atomic one-to-one map | | |
| `FakeIp` | the pool, implements `FakeIpMap` | `MCTunFakeIp` | `FakeIpProof` |
| `FakeIpReload` | two instances of `FakeIp` around a reload | `MCFakeIpReload` | |
| `Resilience` | breaker, retries, overlapping requests | `MCParts` | `ResilienceProof` |
| `Dispatch` | admission, dispatch, tracker, control calls, shutdown | `MCDispatch`, `MCDispatchTraffic` | `DispatchProof` |
| `TunTcp` | TUN handler, writer, stream, relay | `MCTunFakeIp`, `MCTunTcp` | `TunTcpProof` |
| `HotReload` | who replaces router, outbounds and resolver | `MCServices` | `ServicesProof` |
| `DnsCache` | the caching resolver | `MCServices` | `DnsCacheProof` |
| `Resolvers` | the layers under the cache, one call | `MCServices` | `ServicesProof` |
| `Derp` | the relay: connections, table, channels | `MCServices` | `ServicesProof` |
| `QuicClient` | the shared connection of TUIC and Hysteria2 | `MCServices` | `ServicesProof` |
| `MuxSession` | one multiplexed connection, four protocols | `MCParts` | `PartsProof` |
| `MuxPool` | the connections of an outbound and their stream counters | `MCParts` | `PartsProof` |
| `ProxyGroup` | four kinds of group, health checks | `MCParts` | `PartsProof` |
| `RuleProvider` | an http rule provider, its file and its server | `MCParts`, `MCRuleProvider` | `PartsProof` |
| `Router` | rules, tries, routing | `MCParts` | `PartsProof` |
| `Ffi` | the kernel's life cycle under calls of the host | `MCParts` | `PartsProof` |
| `Lists` | `retain` and `filter` on lists of the DNS code | | `DnsCacheProof`, `ServicesProof` |
| `Services` | cache, resolvers, DERP, QUIC and reload side by side | `MCServices` | `ServicesProof` |
| `Parts` | breaker, multiplexer, pool, group, provider, host and router side by side | `MCParts` | `PartsProof` |

Each definition marked *Slip* is a plausible mistake in the operation that
follows it; a property of the runs is kept only if such a slip violates it.

**UdpNat.** One action per critical section or stretch between two awaits. A
packet is `Recv` (look-up), `GetTransportForSource`, `ConnectUdp`,
`GetOrInsert`, `Insert`, `InsertReverse`, `InsertSource`, `Send`; a cleanup is
`CleanupEntries`, `CleanupReverse`, `CleanupSources`. `Close` is the end of a
session: the forward task is aborted wherever it is, relays and cleanup are told
and stop by steps of their own. `NatEntry` is an `Arc`, so entries and ports are
named objects, reused when nothing refers to them; a port is named after the
client and outbound it was opened for, which is what lets a property say to whom
it belongs. Time is an age per entry. `Tick` may happen at any time except while
`insert` waits for its own second and third mutex: a wait of a whole TTL (60 s
and more) for a mutex nobody holds across an await is not considered.

**FakeIp.** `Allocate` (read lock), `FetchAdd` (no lock), `Commit` (both write
locks, with the second look), `Cancel` (the future is dropped), `Lookup`. The
IPv4 arithmetic is modulo `Wrap` (2^32); `V6Of` is `prefix | n`. `PoolAssumption`
says that the range ends below the last address, as the default 198.18.0.0/15
does. In `FakeIpReload` the resolver in force allocates in its own pool, and
dispatch looks in the pool it was created with.

**Resilience.** The breaker's methods run under its mutex and are one step.
Requests are let through, retry, and record one result whatever the breaker has
become. Time is whether `open_duration` has passed since the last failure.

**Dispatch.** A connection goes through `Accept`, `Admit`, `Handle`, `Route`,
`Track`, `ConnectOk`, `Transfer`, `RelayEnds`, `Drop`, `Archive`, `Release`, with
a refusal or failure where the code has one. Archiving has two halves (atomics,
then the account's mutex) because `reset_traffic` takes no table lock. `lock` is
the table's RwLock where somebody holds it across a step.

**TunTcp.** The handler `h` is the one `run` task; writer and dispatch task run
per connection. The state lock is a FIFO one: it is handed to the first waiter.
`ReadData` takes any segment of the client, in any order, with holes, repeated, and
after the FIN: the handler compares no number with the one it expects. The FIN may be
repeated, or lost (`LoseFin`). Numbers are modulo `SeqMod` (2^32) and `Width` (usize).

**DnsCache.** A call is a chain of critical sections: `Resolve` (read lock),
`Join` (in-flight mutex), then a leader's `InnerResolve`, `WriteCache`, `List`,
`EvictExpired`, `EvictOldest`, `RemoveInflight`, `NotifyWaiters`, or a follower's
`Notified`, `Timeout`, `Reread`, `Unhook`, `Direct`. A Notify is named after the
leader that made it. `Cancel` drops the call at any await; `clear` is three
steps. Entries are live or expired; their addresses are left out.

**MuxSession.** Opening is `OpenStream`, `InsertStream`, `SendSyn`; the reader's
`ReadFrame` and `Deliver` are apart, and with smux and sing-mux the table is
locked in between. An opener may be dropped at either await (`GiveUp`). A relay
whose write met a full queue is `blocked`: `poll_write` keeps no waker, so that it
may be polled again, by a waker an earlier poll left elsewhere, or never. A relay may
also stop reading for ever, stuck in a write to its client (`relay.rs:339`, no
timeout). Frames are a kind and a stream; a yamux or HTTP/2 frame with data and an end is two.

**MuxPool.** Look for capacity, count, connect, check, add, open: one step each,
as in the code, which holds no lock over them. `lost` is a history variable, the
openings that failed after the increment.

**ProxyGroup.** A health check round measures one proxy at a time and then
replaces the map; a url-test connection is `Snapshot`, `Compare`,
`WriteSelected`, `UseSelected`. The weights of latency-weighted are abstracted
to who has one; `record_latency` has no caller, so there is no history.

**RuleProvider.** A content is a version and a state: good, bad (it does not
parse), part (what there is of it parses). `fs::write` is `Truncate` and `Fill`, or
`Truncate` and `WriteFails`: the file stays cut off, and young, and a load falls back
on it. Loads hold `load_lock`, refreshes do not. Rules, stamp, flag and lock belong to
an instance. `Crash` starts a new process on the same file, `Reload` makes a new
instance on it while tasks of the old one go on: these are `strays`, of which the file
is all that the new instance notices, so they are one flag and `StrayWrites`, which
leaves any content in the file, whole or in part. `had` and `overlapped` are history
variables.

**Router.** A behaviour builds a configuration rule by rule; the property
compares the routing through the tries with each rule's own `matches_session`,
for every target. Rule kinds without a trie are the set of targets they match.

**Ffi.** A call holds INSTANCE from beginning to end, through the drop of the
runtime (`DropRuntime`) and through network waits. The App inside a runtime may
fail or end by itself; the auto-test task sees its token between rounds.

**HotReload.** A configuration is its version, which builds or not, with or
without a DNS section. `PATCH /configs` loads the watched file or, with a `path` in
its body, another one, whose configuration is `Elsewhere`. `Load` (read, parse, build,
all synchronous) is one step
and nothing is swapped unless it succeeds; the swaps are one step each.
`Poll` is the watcher's look every 500 ms, `Debounced` the end of its 2 s. Saving
the file is `Truncate` and `WriteFile`, as editors and `fs::write` do it. A
provider's refresh is `ReadRouter` and `WriteRouter`, a subscription
`RebuildOutbounds` (from the outbounds of the start) and `SwapRebuilt`. `missed`
and `raced` are history variables.

**Resolvers.** One call under one configuration. `Chain` is who a list of servers
asks in turn (`build_nameserver_resolver` and `SplitResolver`); `Resolve` goes
through the layers down to the servers, which then answer and fail in any order
(`RaceWon`, `RaceLost`, `ChainAnswers`, `ChainFails`). Rules are the hosts they
match. `AnswersRight` compares with a declarative reading of the configuration
(`Responsible`, `Eligible`), not with `Chain`.

**Derp.** A connection goes through `Upgrade`, `Handshake`, `Register`, `Replace`,
`BroadcastPeerPresent`, its loop, `Cleanup`, `BroadcastPeerGone`. The table's lock
is a variable only where it is held over an await (`Replace`). A loop that handles
a frame (`forward`, `note`) takes nothing from its channel. `ousted` is a history
variable: connections that a registration has taken out of the table.

**QuicClient.** The manager's mutex is held from `NoReuse` or `Reuse` through
`Create` to `Admit` or `GiveUp`; the dispatcher's time-out may drop the call at any
of these. A UDP session is the how-manieth draw from the counter, of which the
wire carries the residue (`Number`); answers on a connection are read by any
session of it, and dropped unless the number is the reader's.

**Parts, Services.** The parts put together here share no state, so they are a sum:
`which` picks the part, a step is a step of that part, the others stay in an initial
state. Every behaviour of each part is a behaviour of the sum, with the part's own
fairness. `MCParts` and `MCServices` only give the constants their small values.
`MCTunFakeIp` puts `TunTcp` and `FakeIp` side by side in the same way; it extends
both, so the specification of the pool is named apart (`PoolInit`, `PoolNext`,
`PoolSpec`, `PoolTypeOK`).

Where the code recurses or loops over data the modules use recursive functions
(`Keep` of `Lists`, `Pow2` of `Router`), which TLC evaluates and the proofs can
unfold.

## 3. Runs

| Run | Instance | Shows |
|---|---|---|
| `udp_nat` | 2 sessions of 1 client on two routing tables, 2 outbounds, 1 destination, 2 entries, TTL 0, with fairness | `NoOrphanMappings`, `ReplyToOwner`, `ClosedSessionStops`, `ExpiredCollected` |
| `udp_stable_port` (violated) | 1 session, TTL 1, a history of the last port | `StablePort` |
| `tun_fake_ip`: tun | 2 connections on one port after another, 2 segments in any order with losses, 1 chunk down with the first of them only (`FewChunks`), channels of 1 | `AckEndsQueued`, `EofIsLast` |
| `tun_fake_ip`: pool | 2 tasks, 2 names in both families, 2 IPv4 addresses, counter wraps at 4 | `Bijection`, `AllocatedIsFake`, `Atomic` (refinement) |
| `fake_ip_reload` (violated) | 1 task, 2 names, one reload | `DispatchRestores` |
| `dispatch` | 3 connections, global limit 2, inbound limits 2 and 0, with fairness | `PermitsConserved`, `ArchivedOnce`, `ShutdownCompletes` |
| `dispatch_traffic` (violated) | 1 connection, no reset | `ClosedTrafficCounted` |
| `tun_reassembly` (violated) | 1 connection, 2 segments | `Reassembled` |
| `tun_active_count` (violated) | 1 connection | `ActiveCounts` |
| `tun_idle_close` (violated) | 1 connection, 2 segments, 3 chunks down, channels of 1, with fairness | `IdleCloses` |
| `services`: cache | 3 calls, 2 hosts, 1 entry, 1 flush, no negative caching, with fairness | `CacheBounded`, `SingleFlight`, `EveryCallReturns` |
| `services`: resolvers | 94 configurations of up to 2 main and 2 fallback servers, 2 hosts, answers of up to 2 addresses | `AnswersRight` |
| `services`: derp | 3 connections, two of one key, channels of 1 | `TableSound` |
| `services`: quic | 2 callers, 2 connections, 3 draws, 2 numbers (TUIC) or 4 (Hysteria2) | `AuthenticatedBeforeUse`, `AnswersToOwner` |
| `services`: reload | 1 edit of the file, another file, 3 reloaders, refreshes, subscriptions, with fairness | `MixedOnlyByRace`, `EditsLoaded` |
| `parts`: breaker | 3 requests, thresholds 3 and 2, 1 retry | `BreakerSound`, `BreakerCycle`, `Recovers` |
| `parts`: mux | 2 streams, queue, channels and wire of 1, both kinds of protocol | `AnswersFindStream`, `OpensFinish` |
| `parts`: pool | 2 openers, 1 connection, 2 streams, with and without sing-mux | `OvershootBounded`, `StreamsCounted` |
| `parts`: group | 2 proxies, latencies 0 to 3, tolerance 1, 2 connections, 2 changes, 4 kinds | `Settles` |
| `parts`: provider | 1 matching thread, 1 refresh, 2 versions, failed writes, 1 crash or reload with strays | `ClaimsHeld`, `EventuallyFresh` |
| `parts`: host | 2 threads, 2 starts, 2 auto tests | `OneKernel`, `OneAutoTest` |
| `parts`: router | 2 rules, names of up to 2 labels of 2, addresses of 2 bits | `RoutesFirstMatch` |
| `provider_cache` (violated) | 1 matching thread, a restart, no strays (`MCSpec`) | `CachedVersionUsed` |

Why the bounds are enough. NAT: two sessions race on one key and one source
mapping, the smallest case for every interference in the code; TTL 0 lets every
entry expire after one tick; more destinations only add keys that behave alike,
and the proofs cover them. FakeIP: two addresses for two names in a counter of
four force reassignment and wrap. Breaker: three requests cross a threshold of
three with late results left over. Dispatch: with a global limit of two the
third connection meets both kinds of refusal. TUN: capacity one fills every
channel; a second connection on the same key meets the remains of the first; two
segments make a hole, and one segment against one chunk down the race for the lock
(both at once: the proof). The run's numbers start at 0 and do not wrap; that the
properties survive the wrap is left to the proof.
DNS: three calls are a leader, a follower and one that comes in between; one
entry for two hosts makes every insertion evict. Mux: capacity one fills queue,
channels and wire; the second stream waits behind the first. Pool: two openers
overshoot every limit by one. Group: four latencies are down, best, within and
beyond tolerance. Provider: a load and a refresh meet, each with failed writes, and
an instance follows another whose tasks go on; that several loads exclude each other
is left to the proof, which has any number of matchers. FFI: the second thread calls in the middle of the first's call. Router:
two rules of two values nest, repeat and shadow each other. DERP: two connections
of a key replace each other in both orders of registration and cleanup, a third
one fills a channel of one. QUIC: a second connection follows a first one that was
or was not authenticated; three draws wrap the two short numbers and not the four
long ones. Reload: one edit gives two configurations to mix, with all three
reloaders, another file, a refresh and a subscription at work at once. Resolvers: two servers
give every shape of default and rule that `build_nameserver_resolver` tells apart.
Bounds that cut off behaviour are constants: `MaxBytes`, `Segs`, `MaxDown`,
`Entries`, `Ports`, `Conns`, `MaxFlush`, `WireCap`, `MaxChanges`, `MaxVersion`,
`MaxRestarts`, `Gens`, `Autos`, `MaxRules`, `MaxAddrs`, `MaxConns`, `MaxIds`.

`CHECK_DEADLOCK FALSE` stands where the system may stop: all sessions closed
(`UdpNat`), all connections done (`TunTcp`), all calls answered or connections
gone (`MCServices`), a configuration complete or a connection dead (`MCParts`). The
lock-up of the TUN handler is found as a violation of `IdleCloses`.

### Fairness

* `UdpNat`: weak fairness of each cleanup task (a tokio interval) and of each
  relay whose shutdown token is set. None for clients, remotes or time.
* `Resilience`: new connections keep coming, an attempt in progress ends (the
  outbound's connect has time-outs), time passes. None for the remote end: that
  it stays up is the hypothesis of `Recovers`.
* `Dispatch`: weak fairness of the drain loop with its deadline and of whoever
  holds the table's lock (no holder awaits); strong fairness of the last
  `close_all`, because tokio's RwLock serves its waiters in order. None for
  connections: they may hang for ever.
* `TunTcp`: weak fairness of handler, writer and dispatch task. None for the
  client or the remote end.
* `DnsCache`: weak fairness of every call's next step: upstream resolvers have
  time-outs, the timer of a follower fires, no lock is held for ever. Callers may
  drop a call at any time.
* `HotReload`: weak fairness of the watcher's two timers, of the swaps and the
  write-backs that have begun (no lock is held for ever), and of the end of a save.
  `EditsLoaded` says that a saved version comes into service, not that it stays.
  None for edits, signals, API calls, refreshes or subscriptions.
* `MuxSession`: weak fairness of the reader task and of failing opens; strong
  fairness of opening, because tokio's mutex and channel serve waiters in order. None
  for the peer, for the writer task (the underlying stream may take nothing), or for
  relays: one that is stuck in a write reads no more. `OpensFinish` therefore names
  these two reasons to hang and shows that there is no third.
* `ProxyGroup`: rounds go on (every test is under a timeout), connections come.
  The number of changes is bounded: `Settles` is about what follows the last.
* `RuleProvider`: tasks go on, connections match, the interval ticks, files grow
  old, tasks of a replaced instance end; of infinitely many chances for a good answer,
  and for a write of one that succeeds, one is taken (strong fairness). Failures, bad
  bodies and failed writes may repeat any number of times before. Restarts are
  bounded: `EventuallyFresh` is about what follows the last.

### Findings

1. **A client's port changes within the TTL** (`udp_stable_port`). `insert`
   refuses a key whose entry has expired but is still tabled, and
   `get_or_insert` returns the untabled entry. The next cleanup removes key and
   source mapping, and the following packet gets another port; `nat.rs:88` says
   "Ensures same source always maps to the same outbound port".
2. **FakeIP is lost after a reload** (`fake_ip_reload`). The reloaded resolver
   allocates in a new pool; the dispatcher keeps the old one, so its reverse
   look-up (`dispatcher.rs:218`) misses or restores another name.
3. **Traffic of closed connections is lost** (`dispatch_traffic`). A connection
   closed by a control call leaves the table unarchived; `tracker.rs:55` says the
   account includes closed connections.
4. **`active_tcp` is decremented twice** (`tun_active_count`). After a client's
   FIN, handler and dispatch task both subtract; the counter wraps and the limit
   check refuses every further SYN.
5. **TUN lock-up** (`tun_idle_close`). The handler sends into a full channel with
   the state lock held, the relay writes to the other full channel, the writer
   that would empty it waits for the lock. The relay's idle timeout
   (`relay.rs:192`) guards only reads.
6. **The cached version is destroyed by the refresh that fails**
   (`provider_cache`). The download is written over the file before it is parsed;
   when it does not parse, the fallback that announces "using cached version"
   (`provider.rs:267`) reads the same bad content.

7. **The TUN stream has holes** (`tun_reassembly`). A segment that arrives ahead of
   a lost one is put into the stream, and both are acknowledged
   (`tun_stack.rs:433`-`447`): the client never sends the lost one again.
   `tun_stack.rs:7` says "Reassemble TCP segments into ordered byte streams".

### Observations without a run

Met while modelling; each is plain from the lines named.

* `reject`, `reject-drop` and `hijack-dns` rules have no outbound tag
  (`rules.rs:229`), and `route_with_rule` then takes the default outbound
  (`router/mod.rs:164`): such sessions are proxied, not rejected. `sniff`,
  `resolve` and `route-options` end the search in the same way.
* A multiplexed stream whose write meets a full frame queue continues only by chance
  (`smux.rs:166` and its three siblings: no waker is kept); the repository's README promises
  "SingMux with backpressure". A FIN that meets a full queue is dropped, a dropped
  stream sends none, and the end of the reader task is told to no stream.
* Sing-mux numbers streams over the life of a connection (`singmux.rs:317`); with
  the numbers used up, every open fails and leaves a count behind
  (`mux/mod.rs:123`), until the pool is exhausted for good. Dead connections stay
  in the pool in any case.
* Two refreshes that overlap may leave the rules of one with the Last-Modified of
  the other; the server then answers 304 for ever (the `overlapped` of
  `EventuallyFresh`).
* Rules that are cut off may be in service for an interval: `fs::write` fails half way
  or the process ends in it (`provider.rs:181`), or a provider made by a reload
  (`app/mod.rs:781`) reads the file that one of the replaced router is writing; the
  file is young, what there is of it parses, and it is loaded as complete. It does not
  stay so (`ClaimsHeld`, `EventuallyFresh`).
* DNS prefetch resolves through the cache, whose entry is still valid at that
  point: nothing is refreshed (`dispatcher.rs:154`). The cache also keeps FakeIP
  answers while the pool may give the address to another name.
* With smux and sing-mux one relay that does not read (stuck in `write_all`,
  `relay.rs:339`) keeps every other stream from being opened (`smux.rs:221`), for as
  long as it is stuck: the first reason `OpensFinish` names.
* The comparison of sequence numbers ignores their wrap (`tun_stack.rs:433`): past it
  `client_seq_next`, and with it the acknowledgement, stays where it is.
* Repeated segments enter the TUN stream again (`tun_stack.rs:432`), and the end of
  a connection removes whatever connection has its key by then
  (`tun_stack.rs:557`).
* DERP: the cleanup of a connection removes the entry of its key without looking
  whose it is (`server.rs:212`). When a client reconnects, the old connection's
  cleanup comes after the new one's registration: the new connection serves, nobody
  can reach it, and the next one of the key does not close it, although
  `server.rs:190` says "如果同一公钥已连接，关闭旧连接" (if the key is already
  connected, close the old connection). While a registration waits for room in the
  old connection's channel it holds the table's lock (`server.rs:192`); if the old
  connection is handling a frame that needs this lock, the whole relay stands still.
* DERP: `read_frame` inside `select!` (`server.rs:238`) is dropped when a message
  comes in the middle of a frame: what it had read is lost, and so is the framing.
* Reload: reloads that overlap, a refresh's write-back and a subscription's rebuild
  from the outbounds of the start mix configurations (the `raced` of
  `MixedOnlyByRace`); `PATCH /configs` with a path (`handlers.rs:652`) puts another
  file into service until the watched one is saved again; a reload drops the nodes of subscriptions; `PATCH /configs`
  leaves the resolver as it was; a change within 2 s of a reload is forgotten, the
  second half of a save included (the `missed` of `EditsLoaded`).
* FakeIP is above the hosts map: a host in the map that is not excluded from FakeIP
  gets a fake address (`resolver.rs:354`-`384`).
* QUIC: a datagram read by a session that it is not for is dropped, not handed on
  (`tuic/mod.rs:504`, `hysteria2/mod.rs:158`): with two UDP sessions on a connection
  answers are lost to the other's reader.
* The health check loop of a replaced group never ends (`health.rs:129`); a reload
  resets selections.
* The FFI's `outbound_manager` and `tracker` are not those of the App it starts
  (`ffi.rs:144`-`155`); an App that fails to start leaves the instance "running";
  calls that wait for the network hold INSTANCE, so that a stop waits for them;
  `openworld_provider_remove` removes nothing, `openworld_reload_config` closes
  connections and reloads nothing.
* The last address of a FakeIP range that ends at 255.255.255.255 is
  allocated and not recognised (`fakeip.rs:133`); `PoolAssumption` excludes it.

## 4. Proofs

All theorems hold for every value of the constants that satisfies the module's
named assumption.

**`UdpNatProof`** (`TypeCorrect`, `NothingOrphaned`, `RepliesReachOwner`; any
number of sessions, sources, destinations, outbounds, entries, ports; from
`ConstantsAssumption`). `NoOrphanMappings` and `ReplyToOwner` are not inductive:
what a step tables comes from a task's local variables, fetched some awaits ago.
`IInv` adds

* `LocalsOK`: between connect and insert the port belongs to the session's client
  and the packet's outbound; from insert on, the entry in hand is in use; between
  insert's mutexes it is fresh and is what the table holds for the key. That last
  clause is why a source mapping is always written for a live flow, although a
  cleanup may run between the mutexes;
* `EntriesOK`, `SourcesOK`, `RelaysOK`: tabled entries, source mappings and
  relays belong to the client they are kept under;
* `ClnOK`: a session that has not begun has no cleanup task, so opening it
  takes no pending list away.

There is one lemma per action; frame lemmas (`HandlesFrame`, `OrphanFrame`,
`LocalsFrame`, ...) say what survives a step that only drops or touches handles.

**`FakeIpProof`** (`TypeCorrect`, `MapsInverse`, `AllocatedRecognised`,
`Refinement`; from `PoolAssumption`). `IInv` adds `TasksOK`: the address an
allocation holds is of its family and in range (`AddrOfIn`, the arithmetic).
`ReassignedKeeps` shows that taking an address from its old name keeps the maps
inverse. `Refinement` takes `domain_to_ip` for the map of
`FakeIpMap`; `Commit` and a look-up are its steps, `FetchAdd` and `Cancel`
stutter, and `Bijection` makes "evict the name found in `ip_to_domain`" the same
as "take the address from every name that has it" (`ReassignedAssigns`).

**`ResilienceProof`** (`TypeCorrect`, `Sound`, `Cycle`; from
`ThresholdAssumption`: thresholds are positive). `TypeOK /\ BreakerSound` is
inductive; `Cycle` follows step by step.

**`DispatchProof`** (`TypeCorrect`, `Permits`, `Archived`; any number of
connections, inbounds and outbounds, any limits; from `DispatchAssumption`).
`ArchivedOnce` bounds the accounts by what connections outside the table counted; it
is not inductive, because archiving has two halves. `IInv` adds

* `LockHeld`: who archives holds the table's lock, so between the two halves of an
  account there is one connection whose bytes are in the first and not in the second
  (`Pending`);
* `Tracked`: an entry has its outbound and is of a connection that has counted
  nothing before its relay ended;
* `Accounted`: each account plus what is pending is at most the sum of the counters
  of the connections outside the table. Closing by a control call moves a connection
  out of the table and so only raises that sum.

The sums are over finite sets; `SumSplit` and its companions say what a sum does when
one member changes, joins or leaves.

**`DnsCacheProof`** (`TypeCorrect`, `Bounded`, `OneLeader`; any number of calls,
hosts, entries and flushes; from `DnsAssumption`). `Findable`: whatever is cached is
in the LRU order, or its writer has not come to list it; without it, an eviction could
find nothing to remove in a full cache. `Tabled`: a leader on its way is the one in
the in-flight table unless one of the two things `SingleFlight` excepts has happened.

**`TunTcpProof`** (`TypeCorrect`, `Acks`, `EofFinal`; any number of connections, keys
and segments, any channel capacity, sequence and counter width; from
`TunAssumption`; segments arrive in any order and are lost). `Acks` is
`AckEndsQueued`: the segment an acknowledgement ends at is in the stream's channel
before it. `Covered`: the number to be acknowledged is that of a queued segment, or of
the one being queued under the lock. `Tabled`: a client that may still send finds its
own connection under its key or none. `Locked`: the numbers are raised and the segment queued under one hold of
the lock, so no writer sends the raised number in between. `Ended`: a connection with
an end of file before it is out of the table before the next packet is read.
`AckCounts` is the arithmetic across the wrap.

**`ServicesProof`** (from `DnsAssumption` and `ServicesAssumption`). `ServicesSteps`
turns a step of the sum into a step of one part; each part then has its own
invariant.

* `ResolversRight`. `AnswersRight` compares with `Responsible`, a declarative reading
  of the configuration. `ChainAsks` shows that `Chain` asks exactly those who are
  responsible, none twice; `ResPhases` keeps track of who of them is left and who has
  failed; `PreferFacts` says that the preferred family comes first and nothing is
  lost. The proof needs what `ResolversAssumption` says: an entry of a server list is
  its own server, with an identity no other entry has, as each entry of the
  configuration is built into a resolver object of its own.
* `DerpTable`. `DerpLocked`: who replaces a connection holds the table's lock, with the key
  free, until the old one has its order to stop. `DerpReached`: who was taken out of
  the table by a registration is about to be told, has been told, or has ended, and
  will not serve again. Of a connection that an older one's cleanup takes out the
  theorem says nothing.
* `QuicAuthenticated`, `QuicOwners`. `QuicHeld`: who makes or authenticates the
  connection holds the mutex, so the flag is about the manager's connection.
  `QuicDrawn`: numbers in use were drawn, and two of them are equal only after the
  counter went round.
* `ReloadMixes`. `ReloadAlone`: unless something raced, one reload is at work and the
  router in service is the one it built. `ReloadBuilds`: whatever is in service, being
  put there or held back, builds as a whole.
* `ServicesTypes`: the type invariants of all five.

**`PartsProof`** (from `ThresholdAssumption` and `PartsAssumption`), with
`PartsSteps` for the sum.

* `KernelAlone`, `TestsReached`. `HostHeld`: who drops a runtime holds the mutex, and
  INSTANCE is empty meanwhile. `HostTests`: a test that goes on belongs to the runtime
  that keeps its token, or to the one being dropped.
* `PoolLimits`, `PoolCounts`. `PoolRoom`: openers that have decided and not yet
  counted are counted with what there is, so that the overshoot is at most the number
  of openers less one.
* `ClaimsTrue` (`ClaimsHeld`). Nothing is assumed of the file: it may hold anything.
  `ProviderHeld`: a load holds the instance's `load_lock`. `ProviderAlone`: unless a
  refresh has met something, one task of the instance is at work. `ProviderGot`: a
  body comes whole and is good once it is parsed. `ProviderStamped` is the
  strengthening: the stamp is of the rules in memory, but for the moment between
  `Parse` and `SetLastModified`, and an instance with a stamp is loaded or about to
  be, so that no load from the file can put other rules under the stamp.
* `AnswersFound`. `MuxFresh`, `MuxTold`, `MuxAnswers`: a stream is in the table from
  before its SYN is queued until after the peer's FIN is read, and nothing on the wire
  follows a stream's FIN.
* `RoutesFirst`. `TrieOf`: a trie has every beginning of the paths entered, and each
  node holds the first rule that ends there (`TrieInsert`). The nodes on the way down
  a path are then the rules that match (`TrieFinds`); `SuffixOnPath` and `NetOnPath`
  say that a name ends in a suffix, or an address lies in a network, exactly when the
  rule's path is on the way, the latter with `Pow2` and division for the mask.
* `PartsTypes`: the type invariants of all seven; `BreakerInvariance` carries the
  breaker's over from `ResilienceProof`.

**Induction over data.** The library's induction theorems take an operator as a
parameter, which the installed provers cannot instantiate. Where a fact needs
induction (`Keep`, `Pow2`, sums, tries) it is proved by a least counterexample
(`Least`, `LeastOf`, from `NatLessThanWellFounded` and `WFMin`), and the values of a
recursive function by the existence and uniqueness of its partial solutions
(`Keeping`, `Doubles`).

**Only model-checked.** Every invariant of a passing run is a theorem, and so are
`BreakerCycle` and the refinement `Atomic`. With TLC stay the nine temporal
properties `ClosedSessionStops`, `ExpiredCollected`, `ShutdownCompletes`, `Recovers`,
`OpensFinish`, `Settles`, `EventuallyFresh`, `EveryCallReturns` and `EditsLoaded`:
they rest on fairness, hence on ENABLED, which is out of the prover's reach. The
violated properties are refuted by the runs' counterexamples. `FakeIpReload`,
`MCUdpNatPort`, `MCDispatchTraffic` and `MCRuleProvider` exist for such a run only.

## 5. Not modelled

The modules cover the parts of the kernel that keep state several tasks share;
these are a small share of its lines. Most of the rest is parsing and conversion of
configurations and subscriptions (`config/`), byte formats and cryptography of some
twenty protocols (`proxy/inbound`, `proxy/outbound`, `proxy/transport`), platform
glue (`tun_device.rs`, `android.rs`, `platform.rs`), functions that wrap one value
in JSON or C types (`ffi.rs`, `api/handlers.rs`), and the tests that stand in the
same files. Such code is sequential and stateless; a model of it would restate it
line by line, or leave out everything it does. A map that covered a third of all
lines is therefore not to be had without unfaithful definitions.

* Geo databases, rule file formats, sniffing, configuration parsing: pure
  functions over large data. Rule kinds other than suffix and CIDR are sets of
  targets in `Router`; `route_with_rule` reads no state that changes.
* `load-balance` and `sticky` groups: a counter and a hash, without regard to
  health. `GroupPersistence`, `proxy/connection_pool.rs` and
  `proxy/outbound/pool.rs`: nothing calls them (a direct outbound holds a pool and
  neither takes from it nor puts into it).
* The unused state machines of `yamux.rs` and `h2mux.rs`, `xudp.rs`, frame formats.
* Inbound and outbound protocols, cryptography, transports: byte formats; they
  succeed or fail. Of TUIC and Hysteria2 the connection is modelled (`QuicClient`),
  of DERP everything but frames and boxes. 0-RTT is not told apart: TUIC makes a new
  TLS configuration, hence no ticket, for each connection, and Hysteria2 waits for
  the server's answer before it uses one.
* DNS: upstream queries, server addresses, the text of domain rules, DHCP discovery.
* Route, error and latency statistics of the tracker; the backpressure pause of
  the accept loop, which only delays; the rate limiters, which dispatch never
  configures; the relay's path without statistics, which dispatch never takes.
* REST: its calls that change state are actions of `Dispatch`, `RuleProvider`,
  `ProxyGroup`, `DnsCache` and `HotReload`; the rest reads. FFI: profiles, custom rules, TUN
  descriptors and platform calls are values that are stored and read back.
  Android: user interface.
* TUN: the UDP path, ICMP, packet formats.

## 6. Plan

What several tasks share is modelled, and every safety invariant is proved. What is
left:

1. An abstract specification of the DNS cache, the multiplexer or the tracker that
   the module implements, with its refinement proved as `FakeIp`'s is.
2. Action properties where a step must never undo something: a NAT entry's port and
   owner do not change, a reload never goes back to an older configuration without a
   race, `active_streams` changes only by its owner's step.
3. The safety halves of the liveness properties: that whoever waits is in a queue
   somebody will serve (`EveryCallReturns`, `OpensFinish`).
