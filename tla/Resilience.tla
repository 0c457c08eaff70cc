----------------------------- MODULE Resilience -----------------------------
(***************************************************************************)
(* The circuit breaker of one outbound and the retries behind it           *)
(* (src/src/app/resilience.rs), as Dispatcher::dispatch uses them: ask the *)
(* breaker, connect with up to max_retries retries, record one result.     *)
(*                                                                         *)
(* Requests overlap.  One that was let through keeps retrying, and records *)
(* its result, whatever the breaker has become meanwhile.  The breaker's   *)
(* methods hold its mutex from beginning to end, so each is one step.      *)
(* Time is what the breaker asks of it: how long ago the last recorded     *)
(* failure was, against open_duration.                                     *)
(***************************************************************************)
EXTENDS Naturals

CONSTANTS
  Requests,           \* connections being dispatched to the outbound
  FailureThreshold, SuccessThreshold, MaxRetries

ASSUME ThresholdAssumption ==
  /\ FailureThreshold \in Nat \ {0}
  /\ SuccessThreshold \in Nat \ {0}
  /\ MaxRetries \in Nat

VARIABLES
  state,              \* CircuitState
  failure_count, success_count,
  last_failure,       \* "none", "recent", or "elapsed": open_duration ago or more
  req,                \* request -> [pc, attempt]
  up                  \* the remote end accepts connections

breaker == <<state, failure_count, success_count, last_failure>>
vars == <<breaker, req, up>>

States == {"Closed", "Open", "HalfOpen"}

TypeOK ==
  /\ state \in States
  /\ failure_count \in Nat
  /\ success_count \in Nat
  /\ last_failure \in {"none", "recent", "elapsed"}
  /\ req \in [Requests -> [pc : {"idle", "connect"}, attempt : 0..MaxRetries]]
  /\ up \in BOOLEAN

Idle == [pc |-> "idle", attempt |-> 0]

Init ==
  /\ state = "Closed"
  /\ failure_count = 0
  /\ success_count = 0
  /\ last_failure = "none"
  /\ req = [r \in Requests |-> Idle]
  /\ up \in BOOLEAN

-----------------------------------------------------------------------------
(* The breaker's methods.                                                  *)

Allowed == state # "Open" \/ last_failure = "elapsed"

\* allow_request, when it lets the request through.
AllowRequest ==
  /\ Allowed
  /\ state' = IF state = "Open" THEN "HalfOpen" ELSE state
  /\ success_count' = IF state = "Open" THEN 0 ELSE success_count
  /\ UNCHANGED <<failure_count, last_failure>>

\* Slip: a success in the half-open state is not counted.
RecordSuccessUncounted ==
  /\ failure_count' = IF state = "Closed" THEN 0 ELSE failure_count
  /\ UNCHANGED <<state, success_count, last_failure>>

\* Slip: a late success closes the breaker from any state.
RecordSuccessCloses ==
  /\ state' = "Closed"
  /\ failure_count' = 0
  /\ success_count' = 0
  /\ UNCHANGED last_failure

RecordSuccess ==
  \/ /\ state = "HalfOpen"
     /\ success_count + 1 >= SuccessThreshold
     /\ state' = "Closed"
     /\ failure_count' = 0
     /\ success_count' = 0
     /\ UNCHANGED last_failure
  \/ /\ state = "HalfOpen"
     /\ success_count + 1 < SuccessThreshold
     /\ success_count' = success_count + 1
     /\ UNCHANGED <<state, failure_count, last_failure>>
  \/ /\ state = "Closed"
     /\ failure_count' = 0
     /\ UNCHANGED <<state, success_count, last_failure>>
  \/ /\ state = "Open"
     /\ UNCHANGED breaker

\* Slip: opening does not set the time of the failure.
RecordFailureNoTime ==
  \/ /\ state = "Closed"
     /\ failure_count' = failure_count + 1
     /\ state' = IF failure_count + 1 >= FailureThreshold THEN "Open" ELSE state
     /\ UNCHANGED <<success_count, last_failure>>
  \/ /\ state = "HalfOpen"
     /\ state' = "Open"
     /\ success_count' = 0
     /\ last_failure' = "recent"
     /\ UNCHANGED failure_count
  \/ /\ state = "Open"
     /\ UNCHANGED breaker

RecordFailure ==
  \/ /\ state = "Closed"
     /\ failure_count + 1 >= FailureThreshold
     /\ state' = "Open"
     /\ failure_count' = failure_count + 1
     /\ last_failure' = "recent"
     /\ UNCHANGED success_count
  \/ /\ state = "Closed"
     /\ failure_count + 1 < FailureThreshold
     /\ failure_count' = failure_count + 1
     /\ UNCHANGED <<state, success_count, last_failure>>
  \/ /\ state = "HalfOpen"
     /\ state' = "Open"
     /\ success_count' = 0
     /\ last_failure' = "recent"
     /\ UNCHANGED failure_count
  \/ /\ state = "Open"
     /\ UNCHANGED breaker

-----------------------------------------------------------------------------
(* dispatch: one connection attempt after another, one result.             *)

Begin(r) ==
  /\ req[r].pc = "idle"
  /\ AllowRequest
  /\ req' = [req EXCEPT ![r] = [pc |-> "connect", attempt |-> 0]]
  /\ UNCHANGED up

\* OUTBOUND_CIRCUIT_OPEN: the connection is given up.
Reject(r) ==
  /\ req[r].pc = "idle"
  /\ ~Allowed
  /\ UNCHANGED vars

ConnectOk(r) ==
  /\ req[r].pc = "connect"
  /\ up
  /\ RecordSuccess
  /\ req' = [req EXCEPT ![r] = Idle]
  /\ UNCHANGED up

\* Slip: one attempt too many.
RetryOnceMore(r) ==
  /\ req[r].pc = "connect"
  /\ ~up
  /\ req[r].attempt <= MaxRetries
  /\ req' = [req EXCEPT ![r].attempt = @ + 1]
  /\ UNCHANGED <<breaker, up>>

\* An attempt fails and is repeated after the backoff.
Retry(r) ==
  /\ req[r].pc = "connect"
  /\ ~up
  /\ req[r].attempt < MaxRetries
  /\ req' = [req EXCEPT ![r].attempt = @ + 1]
  /\ UNCHANGED <<breaker, up>>

\* The last attempt fails.
ConnectFails(r) ==
  /\ req[r].pc = "connect"
  /\ ~up
  /\ req[r].attempt = MaxRetries
  /\ RecordFailure
  /\ req' = [req EXCEPT ![r] = Idle]
  /\ UNCHANGED up

\* open_duration has passed since the last recorded failure.
Elapse ==
  /\ last_failure = "recent"
  /\ last_failure' = "elapsed"
  /\ UNCHANGED <<state, failure_count, success_count, req, up>>

\* The remote end goes down or comes back.
Toggle == up' = ~up /\ UNCHANGED <<breaker, req>>

Next ==
  \/ \E r \in Requests :
       Begin(r) \/ Reject(r) \/ ConnectOk(r) \/ Retry(r) \/ ConnectFails(r)
  \/ Elapse
  \/ Toggle

Spec == Init /\ [][Next]_vars

\* New connections keep coming, an attempt in progress ends, time passes.
\* Nothing is assumed of the remote end.
Fairness ==
  /\ \A r \in Requests : WF_vars(Begin(r))
  /\ \A r \in Requests : WF_vars(ConnectOk(r) \/ Retry(r) \/ ConnectFails(r))
  /\ WF_vars(Elapse)

FairSpec == Spec /\ Fairness

-----------------------------------------------------------------------------
\* The breaker never wedges and its counters mean what they say: an open
\* breaker knows when it opened (without that allow_request would refuse for
\* ever), a closed one has not seen its threshold of failures, and whatever
\* late results of earlier requests it is told, it never starts to probe with
\* successes already counted.
BreakerSound ==
  /\ state = "Open" => last_failure # "none" /\ success_count = 0
  /\ state = "Closed" => failure_count < FailureThreshold /\ success_count = 0
  /\ state = "HalfOpen" => success_count < SuccessThreshold

\* Half open is the only way back from open, and a breaker closes with a clean
\* record: results of requests that were let through before it opened cannot
\* close it, nor make it open again the moment it has closed.
BreakerCycle ==
  [][/\ state = "Open" /\ state' # "Open" => state' = "HalfOpen"
     /\ state # "Closed" /\ state' = "Closed" => state = "HalfOpen" /\ failure_count' = 0
    ]_vars

\* Once the remote end stays up, the breaker closes and stays closed, however
\* many failures are still under way when it comes back.
Recovers == (<>[]up) => <>[](state = "Closed")
=============================================================================
