---------------------------- MODULE RuleProvider ----------------------------
(***************************************************************************)
(* A rule provider of type http (src/src/router/provider.rs): its rules in *)
(* memory, its file, and the server they come from.                        *)
(*                                                                         *)
(* A connection that meets an unloaded provider loads it, one at a time    *)
(* under load_lock: from the file, when that is younger than the interval, *)
(* else from the server with the file to fall back on.  The periodic task  *)
(* of App and the REST call refresh it without that lock.  Start-up loads  *)
(* in the same way as a first match.  Rules, stamp, flag and lock belong   *)
(* to an instance, and a reload makes another one on the same file.  The   *)
(* state is that of the instance in service; tasks still at work on those  *)
(* before it are strays, and matter by what they write into the file.      *)
(*                                                                         *)
(* A content is the version of the rules and its state: good, bad (it does *)
(* not parse), or part: what there is of it parses.  Last-Modified is the  *)
(* version.  fs::write empties the file and then fills it.                 *)
(***************************************************************************)
EXTENDS Naturals, FiniteSets

CONSTANTS
  Matchers,      \* threads that match a session against the provider
  Refreshers,    \* threads of the periodic task and of the REST call
  MaxVersion, MaxRestarts,   \* bounds: restarts are crashes and reloads
  None

ProviderAssumption ==
  /\ Matchers \cap Refreshers = {} /\ None \notin Matchers \cup Refreshers
  /\ MaxVersion \in Nat \ {0} /\ MaxRestarts \in Nat

Tasks == Matchers \cup Refreshers
Contents == [v : 1..MaxVersion, st : {"good", "bad", "part"}]
Nothing == [v |-> 0, st |-> "none"]
Cut(c) == [c EXCEPT !.st = "part"]

VARIABLES
  server,      \* the version the server has
  file,        \* the file's content
  old,         \* the file is older than the interval
  strays,      \* tasks of earlier instances are at work
  rules, last_modified, loaded, load_lock,
  pc,          \* task -> where it is
  cond,        \* task -> the If-Modified-Since of its request
  got,         \* task -> the body it received
  had,         \* task -> the state of the file before its download (has_cache)
  restarts,    \* crashes and reloads
  overlapped   \* a refresh of the instance has met another refresh or a load

memory == <<rules, last_modified, loaded>>
disk == <<file, old>>
local == <<pc, cond, got, had>>
world == <<strays, restarts>>
vars == <<server, disk, memory, load_lock, local, world, overlapped>>

Pcs == {"idle", "lock", "ask", "wait", "trunc", "fill", "parse", "stamp", "flag", "file"}

TypeOK ==
  /\ server \in 1..MaxVersion
  /\ file \in Contents \cup {Nothing} /\ rules \in Contents \cup {Nothing}
  /\ old \in BOOLEAN /\ strays \in BOOLEAN /\ loaded \in BOOLEAN
  /\ last_modified \in 0..MaxVersion
  /\ load_lock \in Matchers \cup {None}
  /\ pc \in [Tasks -> Pcs] /\ cond \in [Tasks -> 0..MaxVersion]
  /\ got \in [Tasks -> Contents \cup {Nothing}]
  /\ had \in [Tasks -> {"none", "good", "bad", "part"}]
  /\ restarts \in 0..MaxRestarts /\ overlapped \in BOOLEAN

Init ==
  /\ server = 1
  /\ file = Nothing /\ old = FALSE /\ strays = FALSE
  /\ rules = Nothing /\ last_modified = 0 /\ loaded = FALSE /\ load_lock = None
  /\ pc = [t \in Tasks |-> "idle"]
  /\ cond = [t \in Tasks |-> 0]
  /\ got = [t \in Tasks |-> Nothing] /\ had = [t \in Tasks |-> "none"]
  /\ restarts = 0 /\ overlapped = FALSE

\* Tasks at work on file and rules, not only waiting for the lock.
Busy == {t \in Tasks : pc[t] \notin {"idle", "lock"}}

Goto(t, from, to) == pc[t] = from /\ pc' = [pc EXCEPT ![t] = to]

\* Tasks W are now at work: does a refresh meet anybody?
Meets(W) == overlapped \/ (W \cap Refreshers # {} /\ Cardinality(W) > 1)

\* t is through; a matcher releases the lock.
Finish(t) ==
  /\ pc' = [pc EXCEPT ![t] = "idle"]
  /\ cond' = [cond EXCEPT ![t] = 0]
  /\ got' = [got EXCEPT ![t] = Nothing]
  /\ had' = [had EXCEPT ![t] = "none"]
  /\ load_lock' = IF load_lock = t THEN None ELSE load_lock

-----------------------------------------------------------------------------
(* Loading.                                                                *)

\* ensure_loaded_for_match: not loaded.
Match(t) ==
  /\ t \in Matchers /\ ~loaded
  /\ Goto(t, "idle", "lock")
  /\ UNCHANGED <<server, disk, memory, load_lock, cond, got, had, world, overlapped>>

ShouldUpdate == file = Nothing \/ old

\* load_once looks again under the lock.
Lock(t) ==
  /\ pc[t] = "lock" /\ load_lock = None
  /\ \/ /\ loaded
        /\ Goto(t, "lock", "idle")
        /\ UNCHANGED <<load_lock, had, overlapped>>
     \/ /\ ~loaded
        /\ load_lock' = t
        /\ \/ /\ ShouldUpdate /\ Goto(t, "lock", "ask")
              /\ had' = [had EXCEPT ![t] = file.st]
           \/ /\ ~ShouldUpdate /\ Goto(t, "lock", "file")
              /\ UNCHANGED had
        /\ overlapped' = Meets(Busy \cup {t})
  /\ UNCHANGED <<server, disk, memory, cond, got, world>>

\* Slip: the file is taken for the version it is part of.
LoadFileStamped(t) ==
  /\ pc[t] = "file"
  /\ Finish(t)
  /\ IF file = Nothing \/ file.st = "bad"
     THEN UNCHANGED memory
     ELSE rules' = file /\ loaded' = TRUE /\ last_modified' = file.v
  /\ UNCHANGED <<server, disk, world, overlapped>>

\* load_from_local_file and loaded.store.
LoadFile(t) ==
  /\ pc[t] = "file"
  /\ Finish(t)
  /\ IF file = Nothing \/ file.st = "bad"
     THEN UNCHANGED memory
     ELSE /\ rules' = file
          /\ loaded' = TRUE
          /\ UNCHANGED last_modified
  /\ UNCHANGED <<server, disk, world, overlapped>>

-----------------------------------------------------------------------------
(* refresh_http_provider.                                                  *)

Refresh(t) ==
  /\ t \in Refreshers
  /\ Goto(t, "idle", "ask")
  /\ overlapped' = Meets(Busy \cup {t})
  /\ UNCHANGED <<server, disk, memory, load_lock, cond, got, had, world>>

\* The periodic task leaves a provider alone that nobody has matched yet.
PeriodicTick(t) == loaded /\ Refresh(t)

\* PUT /providers/rules/:name, loaded or not.
ApiRefresh(t) == Refresh(t)

SendRequest(t) ==
  /\ Goto(t, "ask", "wait")
  /\ cond' = [cond EXCEPT ![t] = last_modified]
  /\ UNCHANGED <<server, disk, memory, load_lock, got, had, world, overlapped>>

\* 304: nothing to do; a load is done with the rules there are.
NotModified(t) ==
  /\ pc[t] = "wait" /\ cond[t] = server
  /\ Finish(t)
  /\ loaded' = (loaded \/ t \in Matchers)
  /\ UNCHANGED <<server, disk, rules, last_modified, world, overlapped>>

\* A load falls back on the file if there was one.
Fails(t) ==
  IF t \in Matchers /\ had[t] # "none"
  THEN /\ pc' = [pc EXCEPT ![t] = "file"]
       /\ cond' = [cond EXCEPT ![t] = 0]
       /\ got' = [got EXCEPT ![t] = Nothing]
       /\ UNCHANGED <<had, load_lock>>
  ELSE Finish(t)

\* No answer, an error status, or a file that cannot be opened for writing.
RequestFails(t) ==
  /\ pc[t] = "wait"
  /\ Fails(t)
  /\ UNCHANGED <<server, disk, memory, world, overlapped>>

Body(t, st) ==
  /\ cond[t] # server
  /\ Goto(t, "wait", "trunc")
  /\ got' = [got EXCEPT ![t] = [v |-> server, st |-> st]]
  /\ cond' = [cond EXCEPT ![t] = 0]
  /\ UNCHANGED <<server, disk, memory, load_lock, had, world, overlapped>>

\* fs::write, before the content is parsed.
Truncate(t) ==
  /\ Goto(t, "trunc", "fill")
  /\ file' = Cut(got[t]) /\ old' = FALSE
  /\ UNCHANGED <<server, memory, load_lock, cond, got, had, world, overlapped>>

\* Where two tasks write, one content may end in the tail of the other.
Fill(t) ==
  /\ Goto(t, "fill", "parse")
  /\ \E st \in {got[t].st} \cup (IF file = Cut(got[t]) THEN {} ELSE {"part", "bad"}) :
       file' = [got[t] EXCEPT !.st = st]
  /\ old' = FALSE
  /\ UNCHANGED <<server, memory, load_lock, cond, got, had, world, overlapped>>

\* The write ends half way: the file stays as it is, and young.
WriteFails(t) ==
  /\ pc[t] = "fill"
  /\ Fails(t)
  /\ UNCHANGED <<server, disk, memory, world, overlapped>>

\* Slip: the stamp is taken before the rules are parsed.
ParseStamped(t) ==
  /\ pc[t] = "parse"
  /\ last_modified' = got[t].v
  /\ IF got[t].st = "bad"
     THEN Fails(t) /\ UNCHANGED rules
     ELSE /\ Goto(t, "parse", "stamp")
          /\ rules' = got[t]
          /\ UNCHANGED <<cond, got, had, load_lock>>
  /\ UNCHANGED <<server, disk, loaded, world, overlapped>>

\* parse_content and replace_rules.
Parse(t) ==
  /\ pc[t] = "parse"
  /\ IF got[t].st = "bad"
     THEN Fails(t) /\ UNCHANGED rules
     ELSE /\ Goto(t, "parse", "stamp")
          /\ rules' = got[t]
          /\ UNCHANGED <<cond, got, had, load_lock>>
  /\ UNCHANGED <<server, disk, last_modified, loaded, world, overlapped>>

SetLastModified(t) ==
  /\ Goto(t, "stamp", "flag")
  /\ last_modified' = got[t].v
  /\ UNCHANGED <<server, disk, rules, loaded, load_lock, cond, got, had, world, overlapped>>

SetLoaded(t) ==
  /\ pc[t] = "flag"
  /\ loaded' = TRUE
  /\ Finish(t)
  /\ UNCHANGED <<server, disk, rules, last_modified, world, overlapped>>

-----------------------------------------------------------------------------
(* The world.                                                              *)

Publish ==
  /\ server < MaxVersion
  /\ server' = server + 1
  /\ UNCHANGED <<disk, memory, load_lock, local, world, overlapped>>

Age ==
  /\ file # Nothing /\ ~old
  /\ old' = TRUE
  /\ UNCHANGED <<server, file, memory, load_lock, local, world, overlapped>>

NewInstance ==
  /\ restarts < MaxRestarts /\ restarts' = restarts + 1
  /\ rules' = Nothing /\ last_modified' = 0 /\ loaded' = FALSE /\ load_lock' = None
  /\ pc' = [t \in Tasks |-> "idle"]
  /\ cond' = [t \in Tasks |-> 0]
  /\ got' = [t \in Tasks |-> Nothing] /\ had' = [t \in Tasks |-> "none"]
  /\ overlapped' = FALSE

\* The process ends at any point and starts again.
Crash ==
  /\ NewInstance /\ strays' = FALSE
  /\ UNCHANGED <<server, disk>>

\* A reload puts a router with a new instance into service; whoever is at work, or
\* waits for the lock, goes on with the old one.
Reload ==
  /\ NewInstance
  /\ strays' = (strays \/ \E t \in Tasks : pc[t] # "idle")
  /\ UNCHANGED <<server, disk>>

\* What a stray received, from the server there is or from the one before it, it
\* writes, whole or in part.
StrayWrites ==
  /\ strays
  /\ \E v \in 1..server, st \in {"good", "bad", "part"} : file' = [v |-> v, st |-> st]
  /\ old' = FALSE
  /\ UNCHANGED <<server, memory, load_lock, local, world, overlapped>>

StraysEnd ==
  /\ strays /\ strays' = FALSE
  /\ UNCHANGED <<server, disk, memory, load_lock, local, restarts, overlapped>>

Step(t) ==
  \/ Lock(t) \/ LoadFile(t) \/ SendRequest(t) \/ NotModified(t) \/ RequestFails(t)
  \/ \E st \in {"good", "bad"} : Body(t, st)
  \/ Truncate(t) \/ Fill(t) \/ WriteFails(t) \/ Parse(t) \/ SetLastModified(t) \/ SetLoaded(t)

Next ==
  \/ \E t \in Tasks : Match(t) \/ PeriodicTick(t) \/ ApiRefresh(t) \/ Step(t)
  \/ Publish \/ Age \/ Crash \/ Reload \/ StrayWrites \/ StraysEnd

Spec == Init /\ [][Next]_vars

(* Threads go on, the periodic task ticks, connections match the provider, *)
(* files grow old, and of the answers and of their writes some are good.   *)
GoodAnswer == \E t \in Tasks : Body(t, "good")
GoodWrite == \E t \in Tasks : got[t].st = "good" /\ Fill(t)

Fairness ==
  /\ WF_vars(Age) /\ WF_vars(StraysEnd) /\ SF_vars(GoodAnswer) /\ SF_vars(GoodWrite)
  /\ \A t \in Tasks : WF_vars(Step(t))
  /\ \A t \in Matchers : WF_vars(Match(t))
  /\ \A t \in Refreshers : WF_vars(PeriodicTick(t))

FairSpec == Spec /\ Fairness

-----------------------------------------------------------------------------
(* Properties.                                                             *)

(* What a request claims to have is what the instance has, whole and       *)
(* parsed: If-Modified-Since is only ever sent for the version of the      *)
(* rules in memory, so that a 304 is never an answer to cut, bad or older  *)
(* rules, whatever was loaded from a file cut by a crash, by a write that  *)
(* failed or by another instance.  Two refreshes of one instance that meet *)
(* may break it (one sets the rules, the other the stamp).                 *)
ClaimsHeld ==
  \A t \in Tasks :
    pc[t] = "wait" /\ cond[t] # 0 /\ ~overlapped => rules = [v |-> cond[t], st |-> "good"]

Fresh == overlapped \/ rules = [v |-> server, st |-> "good"]

(* When the server has its last version and no more reloads come, the      *)
(* rules in service become that version and stay so: a body that does not  *)
(* parse, a failed request, a failed write, a crash or an unparsable or    *)
(* cut file never leave a Last-Modified behind that makes the server       *)
(* answer 304 for ever.  Refreshes that meet each other may, so they are   *)
(* excluded here.                                                          *)
EventuallyFresh == <>[]Fresh

(* "rule-provider refresh failed, using cached version": a load that had a *)
(* good file to fall back on succeeds.                                     *)
CachedVersionUsed ==
  [][\A t \in Matchers :
       load_lock = t /\ load_lock' = None /\ restarts' = restarts /\ ~loaded' =>
         had[t] # "good"]_vars
=============================================================================
