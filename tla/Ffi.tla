-------------------------------- MODULE Ffi --------------------------------
(***************************************************************************)
(* The life cycle of the kernel behind the C interface (src/src/app/ffi.rs)*)
(* under calls from several threads of the host application.               *)
(*                                                                         *)
(* One process-wide mutex, INSTANCE, is held from the beginning to the end *)
(* of every call: also while openworld_stop waits for the runtime to shut  *)
(* down, and while a call waits for the network (block_on).  A start makes *)
(* a runtime (a generation here) and spawns the App in it; nobody tells    *)
(* the instance when the App fails or ends.  The auto-test task looks at   *)
(* its token between rounds only.                                          *)
(***************************************************************************)
EXTENDS Naturals, FiniteSets

CONSTANTS
  Threads,      \* threads of the host application
  Gens,         \* runtimes: bounds the number of starts
  Autos,        \* auto-test tasks: bounds the number of auto_test_start
  None

FfiAssumption == None \notin Threads \cup Gens \cup Autos

VARIABLES
  lock,         \* who holds INSTANCE
  instance,     \* the generation in INSTANCE, or None
  call,         \* thread -> what it is doing in a call
  victim,       \* the runtime that is being dropped
  app,          \* generation -> "unborn", "boot", "serve", "over", "torn"
  task,         \* auto test -> "unborn", "sleep", "round", "gone"
  home,         \* auto test -> its generation
  cancelled,    \* auto tests whose token is cancelled
  token         \* the token in auto_test_cancel: an auto test, or None

autos == <<task, home, cancelled, token>>
vars == <<lock, instance, call, victim, app, autos>>

Calls == {"idle", "start", "stop", "drop", "net", "autoStart", "autoStop"}

TypeOK ==
  /\ lock \in Threads \cup {None}
  /\ instance \in Gens \cup {None} /\ victim \in Gens \cup {None}
  /\ call \in [Threads -> Calls]
  /\ app \in [Gens -> {"unborn", "boot", "serve", "over", "torn"}]
  /\ task \in [Autos -> {"unborn", "sleep", "round", "gone"}]
  /\ home \in [Autos -> Gens \cup {None}]
  /\ cancelled \subseteq Autos /\ token \in Autos \cup {None}

Init ==
  /\ lock = None /\ instance = None /\ victim = None /\ token = None
  /\ call = [t \in Threads |-> "idle"]
  /\ app = [g \in Gens |-> "unborn"]
  /\ task = [a \in Autos |-> "unborn"]
  /\ home = [a \in Autos |-> None]
  /\ cancelled = {}

\* A call begins; it waits for the mutex.
Enter(t) ==
  /\ call[t] = "idle"
  /\ \E op \in {"start", "stop", "net", "autoStart", "autoStop"} :
       call' = [call EXCEPT ![t] = op]
  /\ UNCHANGED <<lock, instance, victim, app, autos>>

\* instance_lock().lock().
Acquire(t) ==
  /\ call[t] \in Calls \ {"idle", "drop"} /\ lock = None
  /\ lock' = t
  /\ UNCHANGED <<instance, call, victim, app, autos>>

Return(t) == call' = [call EXCEPT ![t] = "idle"] /\ lock' = None

In(t, op) == lock = t /\ call[t] = op

-----------------------------------------------------------------------------
(* The calls, with the mutex held.                                         *)

\* Runtimes and auto tests that were not made yet: bounds.  Their names mean nothing.
UnusedGens == {g \in Gens : app[g] = "unborn"}
UnusedAutos == {a \in Autos : task[a] = "unborn"}
Pick(S) == CHOOSE x \in S : TRUE

\* openworld_start: -2 when there is an instance; a configuration or
\* outbounds that are not accepted leave nothing behind.
Start(t) ==
  /\ In(t, "start")
  /\ Return(t)
  /\ \/ UNCHANGED <<instance, app>>
     \/ /\ instance = None
        /\ UnusedGens # {}
        /\ LET g == Pick(UnusedGens) IN
           app' = [app EXCEPT ![g] = "boot"] /\ instance' = g
  /\ UNCHANGED <<victim, autos>>

\* Slip: the mutex is released before the runtime is dropped.
StopUnlocked(t) ==
  /\ In(t, "stop")
  /\ IF instance = None
     THEN Return(t) /\ UNCHANGED victim
     ELSE /\ call' = [call EXCEPT ![t] = "drop"] /\ lock' = None
          /\ victim' = instance
  /\ instance' = None /\ token' = None
  /\ UNCHANGED <<app, task, home, cancelled>>

\* openworld_stop takes the instance ...
Stop(t) ==
  /\ In(t, "stop")
  /\ IF instance = None
     THEN Return(t) /\ UNCHANGED victim
     ELSE /\ call' = [call EXCEPT ![t] = "drop"] /\ UNCHANGED lock
          /\ victim' = instance
  /\ instance' = None /\ token' = None
  /\ UNCHANGED <<app, task, home, cancelled>>

\* ... and drops its runtime: every task of it is gone.
DropRuntime(t) ==
  /\ call[t] = "drop"
  /\ call' = [call EXCEPT ![t] = "idle"]
  /\ lock' = IF lock = t THEN None ELSE lock
  /\ app' = [app EXCEPT ![victim] = "torn"]
  /\ task' = [a \in Autos |-> IF home[a] = victim THEN "gone" ELSE task[a]]
  /\ victim' = None
  /\ UNCHANGED <<instance, home, cancelled, token>>

\* A call that waits for the network: url_test, import_subscription, ...
NetworkCall(t) ==
  /\ In(t, "net")
  /\ Return(t)
  /\ UNCHANGED <<instance, victim, app, autos>>

\* Slip: the earlier task is forgotten, not cancelled.
AutoStartForgets(t) ==
  /\ In(t, "autoStart")
  /\ Return(t)
  /\ IF instance = None \/ UnusedAutos = {}
     THEN UNCHANGED autos
     ELSE LET a == Pick(UnusedAutos) IN
            /\ task' = [task EXCEPT ![a] = "sleep"]
            /\ home' = [home EXCEPT ![a] = instance]
            /\ token' = a
            /\ UNCHANGED cancelled
  /\ UNCHANGED <<instance, victim, app>>

\* openworld_auto_test_start cancels the earlier task.
AutoTestStart(t) ==
  /\ In(t, "autoStart")
  /\ Return(t)
  /\ IF instance = None \/ UnusedAutos = {}
     THEN UNCHANGED autos
     ELSE LET a == Pick(UnusedAutos) IN
            /\ task' = [task EXCEPT ![a] = "sleep"]
            /\ home' = [home EXCEPT ![a] = instance]
            /\ cancelled' = cancelled \cup ({token} \ {None})
            /\ token' = a
  /\ UNCHANGED <<instance, victim, app>>

AutoTestStop(t) ==
  /\ In(t, "autoStop")
  /\ Return(t)
  /\ cancelled' = cancelled \cup ({token} \ {None})
  /\ token' = None
  /\ UNCHANGED <<instance, victim, app, task, home>>

-----------------------------------------------------------------------------
(* Inside a runtime.                                                       *)

\* App::new and run: it serves, fails to start, or ends by itself.
AppStep(g) ==
  /\ \/ app[g] = "boot" /\ \E s \in {"serve", "over"} : app' = [app EXCEPT ![g] = s]
     \/ app[g] = "serve" /\ app' = [app EXCEPT ![g] = "over"]
  /\ UNCHANGED <<lock, instance, call, victim, autos>>

AutoRound(a) ==
  /\ task[a] = "sleep"
  /\ task' = [task EXCEPT ![a] = "round"]
  /\ UNCHANGED <<lock, instance, call, victim, app, home, cancelled, token>>

\* The round is over; the loop's select sees a cancelled token first.
AutoNext(a) ==
  /\ task[a] = "round" \/ (task[a] = "sleep" /\ a \in cancelled)
  /\ task' = [task EXCEPT ![a] = IF a \in cancelled THEN "gone" ELSE "sleep"]
  /\ UNCHANGED <<lock, instance, call, victim, app, home, cancelled, token>>

Work(t) ==
  \/ Start(t) \/ Stop(t) \/ DropRuntime(t) \/ NetworkCall(t) \/ AutoTestStart(t)
  \/ AutoTestStop(t)

Next ==
  \/ \E t \in Threads : Enter(t) \/ Acquire(t) \/ Work(t)
  \/ \E g \in Gens : AppStep(g)
  \/ \E a \in Autos : AutoRound(a) \/ AutoNext(a)

Spec == Init /\ [][Next]_vars

-----------------------------------------------------------------------------
(* Properties.                                                             *)

(* At most one kernel serves at any time, and it is the one in INSTANCE or *)
(* the one a stop is just dropping: two would fight for the same ports,    *)
(* and one outside INSTANCE could never be stopped.                        *)
OneKernel ==
  /\ Cardinality({g \in Gens : app[g] \in {"boot", "serve"}}) <= 1
  /\ \A g \in Gens : app[g] \in {"boot", "serve"} => g \in {instance, victim}

(* At most one automatic test is not cancelled, and a stop of the tests    *)
(* can reach it: repeated starts and stops leave no test running on.       *)
OneAutoTest ==
  \A a \in Autos : task[a] \in {"sleep", "round"} /\ a \notin cancelled =>
                     a = token \/ home[a] = victim
=============================================================================
