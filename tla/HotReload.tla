----------------------------- MODULE HotReload -----------------------------
(***************************************************************************)
(* Replacing the configuration of a running kernel: do_reload_config, the  *)
(* file watcher, SIGHUP, the refresh of rule providers and the             *)
(* subscription task of src/src/app/mod.rs, PATCH /configs and PUT         *)
(* /providers/rules of src/src/api/handlers.rs, and the three parts of the *)
(* dispatcher (src/src/app/dispatcher.rs) that they swap.                  *)
(*                                                                         *)
(* Reading the file and building router, outbound manager and resolver is  *)
(* synchronous, hence one step; each swap waits for a lock of its own.  A  *)
(* configuration is its version.  Saving the file truncates and then       *)
(* writes it, and the watcher is told of both.  PATCH /configs may name    *)
(* another file than the one watched: its configuration is Elsewhere.      *)
(***************************************************************************)
EXTENDS Naturals

CONSTANTS
  MaxVersion,    \* bound on the edits of the file; version 0 is the one at start
  Refreshing     \* there are http rule providers and subscriptions

ReloadAssumption == MaxVersion \in Nat /\ Refreshing \in BOOLEAN

Elsewhere == MaxVersion + 1
Versions == 0..Elsewhere
Reloaders == {"watch", "hup", "api"}

VARIABLES
  valid,      \* versions whose router and outbound manager build
  dns,        \* versions of the file with a DNS section that builds
  file,       \* version of the file
  torn,       \* the file is being saved
  changed,    \* the watcher has an event to look at
  recent,     \* debounce: the watcher's last reload is at most 2 s ago
  missed,     \* the watcher has dropped an event since its last reload
  router, outbounds, resolver,   \* versions in service
  pc,         \* reloader -> which part it swaps next, or "idle"
  built,      \* reloader -> the version it has built
  refreshed,  \* a refresh has read the router and will write it back
  held,       \* the router it has read
  rebuilt,    \* the subscription task has built an outbound manager
  raced       \* what is in service was interfered with since the last reload began

edits == <<valid, dns, file, torn>>
watching == <<changed, recent, missed>>
parts == <<router, outbounds, resolver>>
others == <<refreshed, held, rebuilt>>
vars == <<edits, watching, parts, pc, built, others, raced>>

TypeOK ==
  /\ valid \subseteq Versions /\ dns \subseteq 0..MaxVersion
  /\ file \in 0..MaxVersion /\ torn \in BOOLEAN
  /\ changed \in BOOLEAN /\ recent \in BOOLEAN /\ missed \in BOOLEAN
  /\ router \in Versions /\ outbounds \in Versions /\ resolver \in Versions
  /\ pc \in [Reloaders -> {"idle", "resolver", "router", "outbounds"}]
  /\ built \in [Reloaders -> Versions]
  /\ refreshed \in BOOLEAN /\ held \in Versions
  /\ rebuilt \in BOOLEAN /\ raced \in BOOLEAN

Init ==
  /\ valid \in {v \in SUBSET Versions : 0 \in v}
  /\ dns \in {v \in SUBSET (0..MaxVersion) : 0 \in v}
  /\ file = 0 /\ torn = FALSE
  /\ changed = FALSE /\ recent = TRUE /\ missed = FALSE
  /\ router = 0 /\ outbounds = 0 /\ resolver = 0
  /\ pc = [r \in Reloaders |-> "idle"]
  /\ built = [r \in Reloaders |-> 0]
  /\ refreshed = FALSE /\ held = 0 /\ rebuilt = FALSE /\ raced = FALSE

Quiet == \A r \in Reloaders : pc[r] = "idle"

-----------------------------------------------------------------------------
(* The file.                                                               *)

Truncate ==
  /\ ~torn /\ file < MaxVersion
  /\ torn' = TRUE /\ changed' = TRUE
  /\ UNCHANGED <<valid, dns, file, recent, missed, parts, pc, built, others, raced>>

WriteFile ==
  /\ torn
  /\ torn' = FALSE /\ file' = file + 1 /\ changed' = TRUE
  /\ UNCHANGED <<valid, dns, recent, missed, parts, pc, built, others, raced>>

-----------------------------------------------------------------------------
(* A reload.                                                               *)

\* PATCH /configs leaves the resolver alone, and so does a file without a DNS section.
FirstPart(r, v) == IF r # "api" /\ v \in dns THEN "resolver" ELSE "router"

\* What is saved is cut off in the middle of a save.
Readable(v) == torn => v # file

Build(r, v) ==
  /\ pc' = [pc EXCEPT ![r] = FirstPart(r, v)]
  /\ built' = [built EXCEPT ![r] = v]
  /\ raced' = (~Quiet \/ refreshed \/ rebuilt)

\* Slip: a resolver that does not build ends the reload.
LoadNeedsDns(r, v) ==
  /\ pc[r] = "idle"
  /\ IF Readable(v) /\ v \in valid \cap dns
     THEN Build(r, v) ELSE UNCHANGED <<pc, built, raced>>

\* Slip: the router is in service before the outbound manager is known to build.
LoadUnchecked(r, v) ==
  /\ pc[r] = "idle"
  /\ IF Readable(v) THEN Build(r, v) ELSE UNCHANGED <<pc, built, raced>>

\* load_config, Router::new, OutboundManager::new: nothing is swapped unless all succeed.
Load(r, v) ==
  /\ pc[r] = "idle"
  /\ IF Readable(v) /\ v \in valid
     THEN Build(r, v) ELSE UNCHANGED <<pc, built, raced>>

Sighup ==
  /\ Load("hup", file)
  /\ UNCHANGED <<edits, watching, parts, others>>

\* The path is that of the request's body, or else that of the kernel's own file.
PatchConfigs ==
  /\ \E v \in {file, Elsewhere} : Load("api", v)
  /\ UNCHANGED <<edits, watching, parts, others>>

\* The watcher looks every 500 ms.  Within 2 s of a reload it forgets what it has seen.
Poll ==
  /\ pc["watch"] = "idle" /\ changed
  /\ changed' = FALSE
  /\ IF recent
     THEN missed' = TRUE /\ UNCHANGED <<recent, pc, built, raced>>
     ELSE recent' = TRUE /\ missed' = FALSE /\ Load("watch", file)
  /\ UNCHANGED <<edits, parts, others>>

Debounced ==
  /\ recent /\ recent' = FALSE
  /\ UNCHANGED <<edits, changed, missed, parts, pc, built, others, raced>>

Swap(r, part, next) == pc[r] = part /\ pc' = [pc EXCEPT ![r] = next]

UpdateResolver(r) ==
  /\ Swap(r, "resolver", "router")
  /\ resolver' = built[r]
  /\ UNCHANGED <<edits, watching, router, outbounds, built, others, raced>>

UpdateRouter(r) ==
  /\ Swap(r, "router", "outbounds")
  /\ router' = built[r]
  /\ UNCHANGED <<edits, watching, outbounds, resolver, built, others, raced>>

UpdateOutboundManager(r) ==
  /\ Swap(r, "outbounds", "idle")
  /\ outbounds' = built[r]
  /\ built' = [built EXCEPT ![r] = 0]
  /\ UNCHANGED <<edits, watching, router, resolver, others, raced>>

-----------------------------------------------------------------------------
(* Who else swaps.                                                         *)

\* A rule provider has been refreshed, by its task or by PUT /providers/rules: the
\* router is read ...
ReadRouter ==
  /\ Refreshing /\ ~refreshed
  /\ refreshed' = TRUE /\ held' = router
  /\ UNCHANGED <<edits, watching, parts, pc, built, rebuilt, raced>>

\* ... and written back, over whatever has been swapped in meanwhile.
WriteRouter ==
  /\ refreshed /\ refreshed' = FALSE
  /\ router' = held /\ held' = 0
  /\ raced' = (raced \/ held # router)
  /\ UNCHANGED <<edits, watching, outbounds, resolver, pc, built, rebuilt>>

\* A subscription is updated: the outbounds of the start and all nodes are built ...
RebuildOutbounds ==
  /\ Refreshing /\ ~rebuilt
  /\ rebuilt' = TRUE
  /\ UNCHANGED <<edits, watching, parts, pc, built, refreshed, held, raced>>

\* ... and put into service, whatever has been reloaded.
SwapRebuilt ==
  /\ rebuilt /\ rebuilt' = FALSE
  /\ outbounds' = 0
  /\ raced' = (raced \/ router # 0)
  /\ UNCHANGED <<edits, watching, router, resolver, pc, built, refreshed, held>>

-----------------------------------------------------------------------------
SwapStep(r) == UpdateResolver(r) \/ UpdateRouter(r) \/ UpdateOutboundManager(r)

Next ==
  \/ Truncate \/ WriteFile \/ Poll \/ Debounced \/ Sighup \/ PatchConfigs
  \/ \E r \in Reloaders : SwapStep(r)
  \/ ReadRouter \/ WriteRouter \/ RebuildOutbounds \/ SwapRebuilt

Spec == Init /\ [][Next]_vars

(* A save that was begun ends; the timers fire; no lock is held for ever.  *)
Fairness ==
  /\ WF_vars(WriteFile) /\ WF_vars(Poll) /\ WF_vars(Debounced)
  /\ \A r \in Reloaders : WF_vars(SwapStep(r))
  /\ WF_vars(WriteRouter) /\ WF_vars(SwapRebuilt)
FairSpec == Spec /\ Fairness

-----------------------------------------------------------------------------
(* Properties.                                                             *)

(* Connections are routed by the router of one configuration into the      *)
(* outbounds of the same one whenever no reload is at work, however files  *)
(* that do not parse or build follow on one another, and whichever of      *)
(* watcher, signal and API reloads.  Only interference mixes them for      *)
(* longer: two reloads at a time, a refresh that writes back a router that *)
(* has been replaced, a subscription that brings back the outbounds of the *)
(* start.  A configuration that did not build as a whole is never served.  *)
MixedOnlyByRace ==
  /\ {router, outbounds} \subseteq valid
  /\ resolver \in valid \cap dns
  /\ Quiet /\ router # outbounds => raced

(* A configuration that is saved and builds, with or without its DNS       *)
(* section, comes into service, and nobody needs to ask for it: whatever   *)
(* signals, API calls and refreshes are at work, the watcher swaps its     *)
(* router in, unless it has dropped an event within its 2 s or the file is *)
(* saved again first.  How long it stays is not promised: a PATCH /configs *)
(* with a path, or a refresh that was under way, may replace it.           *)
EditsLoaded ==
  \A v \in 1..MaxVersion :
    (changed /\ file = v /\ ~torn /\ v \in valid) ~> (router = v \/ file # v \/ missed)
=============================================================================
