-------------------------- MODULE ResilienceProof --------------------------
(***************************************************************************)
(* Safety of the circuit breaker for all thresholds, all numbers of        *)
(* retries and all numbers of overlapping requests.  TypeOK and            *)
(* BreakerSound together are inductive.                                    *)
(***************************************************************************)
EXTENDS Resilience, TLAPS

IInv == TypeOK /\ BreakerSound

\* The types of the breaker's cells, apart from those of the requests.
BreakerType ==
  /\ state \in States
  /\ failure_count \in Nat
  /\ success_count \in Nat
  /\ last_failure \in {"none", "recent", "elapsed"}

-----------------------------------------------------------------------------
\* A breaker starts closed, with nothing counted.
LEMMA InitIInv == Init => IInv
BY ThresholdAssumption DEF Init, IInv, TypeOK, BreakerSound, States, Idle

\* Letting a request through keeps the breaker sound: probing starts at zero.
LEMMA AllowStep ==
  ASSUME IInv, AllowRequest PROVE BreakerType' /\ BreakerSound'
BY ThresholdAssumption
   DEF IInv, TypeOK, BreakerSound, AllowRequest, Allowed, BreakerType, States

\* So does a success, in whichever state it arrives.
LEMMA SuccessStep ==
  ASSUME IInv, RecordSuccess PROVE BreakerType' /\ BreakerSound'
BY ThresholdAssumption
   DEF IInv, TypeOK, BreakerSound, RecordSuccess, BreakerType, States, breaker

\* And a failure: a breaker that opens knows when.
LEMMA FailureStep ==
  ASSUME IInv, RecordFailure PROVE BreakerType' /\ BreakerSound'
BY ThresholdAssumption
   DEF IInv, TypeOK, BreakerSound, RecordFailure, BreakerType, States, breaker

\* A request that moves keeps its type.
LEMMA RequestType ==
  ASSUME IInv, NEW r \in Requests, NEW q \in [pc : {"idle", "connect"}, attempt : 0..MaxRetries],
         req' = [req EXCEPT ![r] = q]
  PROVE  req' \in [Requests -> [pc : {"idle", "connect"}, attempt : 0..MaxRetries]]
BY DEF IInv, TypeOK

\* Every step keeps the invariant.
LEMMA NextStep == ASSUME IInv, [Next]_vars PROVE IInv'
<1> USE DEF IInv
<1>i. Idle \in [pc : {"idle", "connect"}, attempt : 0..MaxRetries]
  BY ThresholdAssumption DEF Idle
<1>1. ASSUME NEW r \in Requests, Begin(r) PROVE IInv'
  <2>1. BreakerType' /\ BreakerSound'
    BY <1>1, AllowStep DEF Begin
  <2>2. req' \in [Requests -> [pc : {"idle", "connect"}, attempt : 0..MaxRetries]]
    <3>1. [pc |-> "connect", attempt |-> 0] \in
            [pc : {"idle", "connect"}, attempt : 0..MaxRetries]
      BY ThresholdAssumption
    <3> QED
      BY <1>1, <3>1, RequestType DEF Begin
  <2> QED
    BY <1>1, <2>1, <2>2 DEF Begin, BreakerType, TypeOK
<1>2. ASSUME NEW r \in Requests, ConnectOk(r) PROVE IInv'
  <2>1. BreakerType' /\ BreakerSound'
    BY <1>2, SuccessStep DEF ConnectOk
  <2> QED
    BY <1>2, <2>1, <1>i, RequestType DEF ConnectOk, BreakerType, TypeOK
<1>3. ASSUME NEW r \in Requests, ConnectFails(r) PROVE IInv'
  <2>1. BreakerType' /\ BreakerSound'
    BY <1>3, FailureStep DEF ConnectFails
  <2> QED
    BY <1>3, <2>1, <1>i, RequestType DEF ConnectFails, BreakerType, TypeOK
<1>4. ASSUME NEW r \in Requests, Retry(r) PROVE IInv'
  <2>1. UNCHANGED breaker /\ UNCHANGED up
    BY <1>4 DEF Retry
  <2>2. req' \in [Requests -> [pc : {"idle", "connect"}, attempt : 0..MaxRetries]]
    BY <1>4, ThresholdAssumption DEF Retry, TypeOK
  <2> QED
    BY <2>1, <2>2 DEF breaker, TypeOK, BreakerSound
<1>5. CASE Elapse
  BY <1>5 DEF Elapse, TypeOK, BreakerSound
<1>6. CASE Toggle
  BY <1>6 DEF Toggle, breaker, TypeOK, BreakerSound
<1>7. CASE UNCHANGED vars
  BY <1>7 DEF vars, breaker, TypeOK, BreakerSound
<1> QED
  BY <1>1, <1>2, <1>3, <1>4, <1>5, <1>6, <1>7 DEF Next, Reject

\* The invariant holds in every reachable state.
THEOREM Invariance == Spec => []IInv
<1>1. Init => IInv
  BY InitIInv
<1>2. IInv /\ [Next]_vars => IInv'
  BY NextStep
<1> QED
  BY <1>1, <1>2, PTL DEF Spec

\* The breaker never wedges open and never starts to probe or to close with
\* results counted that do not belong there, for all thresholds.
THEOREM Sound == Spec => []BreakerSound
<1>1. IInv => BreakerSound
  BY DEF IInv
<1> QED
  BY <1>1, Invariance, PTL

\* No request makes more than 1 + max_retries attempts; the rest of the types.
THEOREM TypeCorrect == Spec => []TypeOK
<1>1. IInv => TypeOK
  BY DEF IInv
<1> QED
  BY <1>1, Invariance, PTL

\* Open goes to half open only, and only half open goes to closed, whatever
\* late results are recorded.
THEOREM Cycle == Spec => BreakerCycle
<1> DEFINE A == /\ state = "Open" /\ state' # "Open" => state' = "HalfOpen"
                /\ state # "Closed" /\ state' = "Closed" =>
                     state = "HalfOpen" /\ failure_count' = 0
<1>1. IInv /\ [Next]_vars => [A]_vars
  <2> SUFFICES ASSUME IInv, Next PROVE A
    OBVIOUS
  <2>1. ASSUME AllowRequest PROVE A
    BY <2>1 DEF AllowRequest, IInv, TypeOK, States
  <2>2. ASSUME RecordSuccess PROVE A
    BY <2>2 DEF RecordSuccess, breaker
  <2>3. ASSUME RecordFailure PROVE A
    BY <2>3 DEF RecordFailure, breaker
  <2>4. ASSUME UNCHANGED state PROVE A
    BY <2>4
  <2> HIDE DEF A
  <2> QED
    BY <2>1, <2>2, <2>3, <2>4
    DEF Next, Begin, Reject, ConnectOk, Retry, ConnectFails, Elapse, Toggle, vars, breaker
<1> QED
  BY <1>1, Invariance, PTL DEF Spec, BreakerCycle
=============================================================================
