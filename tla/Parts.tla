------------------------------- MODULE Parts -------------------------------
(***************************************************************************)
(* Parts of the kernel that share no state, side by side: a behaviour is   *)
(* one of the part that the constant variable which names, while the       *)
(* others stay in an initial state.  Every behaviour of every part is      *)
(* among them.                                                             *)
(***************************************************************************)
EXTENDS Resilience

CONSTANTS
  None,
  Streams, OutCap, InCap, WireCap,              \* MuxSession
  Openers, MaxConnections, MaxStreams,          \* MuxPool
  GroupSize, MaxLatency, Tolerance, Clients, MaxChanges,   \* ProxyGroup: N, ..., Tasks
  Matchers, Refreshers, MaxVersion, MaxRestarts,   \* RuleProvider
  Threads, Gens, Autos,                         \* Ffi
  Labels, MaxLabels, Bits, MaxRules             \* Router

VARIABLES
  which,
  protocol, table, mux_pc, half, eof, inq, out, wire, peer, reading, writer, reader,
  singMux, size, alive, active, ids, lost, pool_pc, at,
  kind, real, wish, changes, latencies, results, tested, selected, group_pc, snap, choice,
  server, file, old, strays, provided, last_modified, loaded, load_lock, load_pc, cond, got,
  had, restarts, overlapped,
  lock, instance, call, victim, app, task, home, cancelled, token,
  rules, domain_trie, ip_trie

muxVars == <<protocol, table, mux_pc, half, eof, inq, out, wire, peer, reading,
             writer, reader>>
poolVars == <<singMux, size, alive, active, ids, lost, pool_pc, at>>
groupVars == <<kind, real, wish, changes, latencies, results, tested, selected,
              group_pc, snap, choice>>
providerVars == <<server, file, old, strays, provided, last_modified, loaded, load_lock,
                  load_pc, cond, got, had, restarts, overlapped>>
hostVars == <<lock, instance, call, victim, app, task, home, cancelled, token>>
routerVars == <<rules, domain_trie, ip_trie>>

Mux == INSTANCE MuxSession WITH pc <- mux_pc
Pool == INSTANCE MuxPool WITH pc <- pool_pc
Group == INSTANCE ProxyGroup WITH pc <- group_pc, N <- GroupSize, Tasks <- Clients
Provider == INSTANCE RuleProvider WITH pc <- load_pc, rules <- provided
Host == INSTANCE Ffi
Table == INSTANCE Router

ASSUME PartsAssumption ==
  /\ Mux!SessionAssumption /\ Pool!PoolAssumption /\ Group!GroupAssumption
  /\ Provider!ProviderAssumption /\ Host!FfiAssumption /\ Table!RouterAssumption

PartNames == {"breaker", "mux", "pool", "group", "provider", "host", "router"}

PartsInit ==
  /\ which \in PartNames
  /\ Init /\ (which # "breaker" => up)
  /\ Mux!Init /\ (which # "mux" => protocol = "smux")
  /\ Pool!Init /\ (which # "pool" => singMux)
  /\ Group!Init /\ (which # "group" => kind = "selector" /\ real = Group!Unknown)
  /\ Provider!Init /\ Host!Init /\ Table!Init

Only(p) ==
  /\ which = p /\ UNCHANGED which
  /\ p # "breaker" => UNCHANGED vars
  /\ p # "mux" => UNCHANGED muxVars
  /\ p # "pool" => UNCHANGED poolVars
  /\ p # "group" => UNCHANGED groupVars
  /\ p # "provider" => UNCHANGED providerVars
  /\ p # "host" => UNCHANGED hostVars
  /\ p # "router" => UNCHANGED routerVars

BreakerStep == Only("breaker") /\ Next
MuxStep == Only("mux") /\ Mux!Next
PoolStep == Only("pool") /\ Pool!Next
GroupStep == Only("group") /\ Group!Next
ProviderStep == Only("provider") /\ Provider!Next
HostStep == Only("host") /\ Host!Next
RouterStep == Only("router") /\ Table!Next

PartsNext ==
  \/ BreakerStep \/ MuxStep \/ PoolStep \/ GroupStep
  \/ ProviderStep \/ HostStep \/ RouterStep

partsVars ==
  <<which, vars, muxVars, poolVars, groupVars, providerVars, hostVars, routerVars>>

(* The fairness of the part that runs, as its module states it.            *)
PartsFairness ==
  /\ \A r \in Requests :
       /\ WF_vars(which = "breaker" /\ Begin(r))
       /\ WF_vars(which = "breaker" /\ (ConnectOk(r) \/ Retry(r) \/ ConnectFails(r)))
  /\ WF_vars(which = "breaker" /\ Elapse)
  /\ SF_muxVars(which = "mux" /\ Mux!OpenerGoesOn)
  /\ \A s \in Streams : WF_muxVars(which = "mux" /\ Mux!SynFails(s))
  /\ WF_muxVars(which = "mux" /\ Mux!ReadFrame)
  /\ WF_muxVars(which = "mux" /\ Mux!Deliver)
  /\ WF_groupVars(which = "group" /\ Group!TestProxy)
  /\ WF_groupVars(which = "group" /\ Group!Publish)
  /\ \A t \in Clients : WF_groupVars(which = "group" /\ Group!Connect(t))
  /\ WF_providerVars(which = "provider" /\ Provider!Age)
  /\ WF_providerVars(which = "provider" /\ Provider!StraysEnd)
  /\ SF_providerVars(which = "provider" /\ Provider!GoodAnswer)
  /\ SF_providerVars(which = "provider" /\ Provider!GoodWrite)
  /\ \A t \in Provider!Tasks : WF_providerVars(which = "provider" /\ Provider!Step(t))
  /\ \A t \in Matchers : WF_providerVars(which = "provider" /\ Provider!Match(t))
  /\ \A t \in Refreshers :
       WF_providerVars(which = "provider" /\ Provider!PeriodicTick(t))

PartsSpec == PartsInit /\ [][PartsNext]_partsVars /\ PartsFairness

-----------------------------------------------------------------------------
(* What the modules state, of the part that runs.                          *)

(* The state of every part keeps its types.                                *)
TypesOK ==
  /\ TypeOK /\ Mux!TypeOK /\ Pool!TypeOK /\ Group!TypeOK /\ Provider!TypeOK
  /\ Host!TypeOK /\ Table!TypeOK

(* mux: what the peer answers finds the channel of its stream.             *)
AnswersFindStream == Mux!AnswersFindStream

(* mux: opening a stream hangs only for a relay that does not read or a    *)
(* peer that takes nothing.                                                *)
OpensFinish == Mux!OpensFinish

(* mux pool: limits checked before an await are not exceeded by more than  *)
(* the openers that decide together.                                       *)
OvershootBounded == Pool!OvershootBounded

(* mux pool: active_streams counts the streams in use and the lost ones.   *)
StreamsCounted == Pool!StreamsCounted

(* proxy groups: connections settle on a proxy the group promises.         *)
Settles == Group!Settles

(* rule providers: a request claims no version but that of its rules.      *)
ClaimsHeld == Provider!ClaimsHeld

(* rule providers: the rules become the server's last version.             *)
EventuallyFresh == <>[](which = "provider" => Provider!Fresh)

(* FFI: one kernel at a time, in reach of openworld_stop.                  *)
OneKernel == Host!OneKernel

(* FFI: one automatic test at a time, in reach of its stop.                *)
OneAutoTest == Host!OneAutoTest

(* router: a session takes the first rule of the configuration it matches. *)
RoutesFirstMatch == Table!RoutesFirstMatch

=============================================================================
