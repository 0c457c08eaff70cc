------------------------------ MODULE Services ------------------------------
(***************************************************************************)
(* Services around the path of a connection, side by side as in Parts:     *)
(* the DNS cache and the resolvers under it, the DERP relay, the QUIC      *)
(* outbounds, and the reload of the configuration.  A behaviour is one of  *)
(* the service that the constant variable which names.                     *)
(***************************************************************************)
EXTENDS DnsCache

CONSTANTS
  Configs, Queries, MaxAddrs,                    \* resolvers
  DerpConns, DerpKey, DerpCap,                   \* DERP
  Callers, MaxConns, MaxIds, ShortIds, LongIds,  \* QUIC
  MaxVersion, Refreshing                         \* reload

VARIABLES
  which,
  conf, asked, query, stage, queue, racing, failed, refused, source, raw, answer,
  clients, writer, replaced, chan, derp_pc, dst, ousted,
  tuic, connection, authenticated, made, alive, admitted, lock, quic_pc, at, drawn, nth,
  inbox, misread,
  valid, dns, file, torn, changed, recent, missed, router, outbounds, resolver,
  reload_pc, built, refreshed, held, rebuilt, raced

resolverVars == <<conf, asked, query, stage, queue, racing, failed, refused, source,
                  raw, answer>>
derpVars == <<clients, writer, replaced, chan, derp_pc, dst, ousted>>
quicVars == <<tuic, connection, authenticated, made, alive, admitted, lock, quic_pc, at,
              drawn, nth, inbox, misread>>
reloadVars == <<valid, dns, file, torn, changed, recent, missed, router, outbounds, resolver,
                reload_pc, built, refreshed, held, rebuilt, raced>>

-----------------------------------------------------------------------------
Res == INSTANCE Resolvers WITH host <- query, pc <- asked, Hosts <- Queries

Relay == INSTANCE Derp WITH
  pc <- derp_pc, old <- replaced, Conns <- DerpConns, KeyOf <- DerpKey, Cap <- DerpCap

Quic == INSTANCE QuicClient WITH pc <- quic_pc

Config == INSTANCE HotReload WITH pc <- reload_pc

ASSUME ServicesAssumption ==
  /\ Res!ResolversAssumption /\ Relay!DerpAssumption /\ Quic!QuicAssumption
  /\ Config!ReloadAssumption

Kinds == {"cache", "resolvers", "derp", "quic", "reload"}

\* Those that do not run stay in one initial state.
ServicesInit ==
  /\ which \in Kinds
  /\ Init /\ Relay!Init
  /\ Res!Init /\ (which # "resolvers" => /\ query = CHOOSE q \in Queries : TRUE
                                        /\ conf = CHOOSE c \in Configs : TRUE)
  /\ Quic!Init /\ (which # "quic" => tuic)
  /\ Config!Init /\ (which # "reload" => valid = {0} /\ dns = {0})

Only(s) ==
  /\ which = s /\ UNCHANGED which
  /\ s # "cache" => UNCHANGED vars
  /\ s # "resolvers" => UNCHANGED resolverVars
  /\ s # "derp" => UNCHANGED derpVars
  /\ s # "quic" => UNCHANGED quicVars
  /\ s # "reload" => UNCHANGED reloadVars

CacheStep == Only("cache") /\ Next
ResolversStep == Only("resolvers") /\ Res!Next
DerpStep == Only("derp") /\ Relay!Next
QuicStep == Only("quic") /\ Quic!Next
ReloadStep == Only("reload") /\ Config!Next

ServicesNext == CacheStep \/ ResolversStep \/ DerpStep \/ QuicStep \/ ReloadStep

servicesVars == <<which, vars, resolverVars, derpVars, quicVars, reloadVars>>

(* The fairness of the service that runs, as its module states it.         *)
ServicesFairness ==
  /\ \A t \in Tasks : WF_vars(which = "cache" /\ Step(t))
  /\ WF_reloadVars(which = "reload" /\ Config!WriteFile)
  /\ WF_reloadVars(which = "reload" /\ Config!Poll)
  /\ WF_reloadVars(which = "reload" /\ Config!Debounced)
  /\ \A r \in {"watch", "hup", "api"} : WF_reloadVars(which = "reload" /\ Config!SwapStep(r))
  /\ WF_reloadVars(which = "reload" /\ Config!WriteRouter)
  /\ WF_reloadVars(which = "reload" /\ Config!SwapRebuilt)

ServicesSpec == ServicesInit /\ [][ServicesNext]_servicesVars /\ ServicesFairness

-----------------------------------------------------------------------------
(* What the modules state, of the service that runs.                       *)

(* The state of every service keeps its types.                             *)
TypesOK == TypeOK /\ Res!TypeOK /\ Relay!TypeOK /\ Quic!TypeOK /\ Config!TypeOK

(* resolvers: whoever answers or fails first, the answer is right for the  *)
(* configuration.                                                          *)
AnswersRight == Res!AnswersRight

(* DERP: no entry outlives its connection, and one that a newer connection *)
(* of its key takes out of the table is told to stop.                      *)
TableSound == Relay!TableSound

(* QUIC: nothing is opened on a connection that was not authenticated.     *)
AuthenticatedBeforeUse == Quic!AuthenticatedBeforeUse

(* QUIC: a UDP session takes no answer to another one for its own.         *)
AnswersToOwner == Quic!AnswersToOwner

(* reload: the router and the outbounds in service are of one              *)
(* configuration, races excepted.                                          *)
MixedOnlyByRace == Config!MixedOnlyByRace

(* reload: a configuration that is saved comes into service.               *)
EditsLoaded == Config!EditsLoaded

=============================================================================
