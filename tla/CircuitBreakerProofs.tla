----------------------- MODULE CircuitBreakerProofs -----------------------
(***************************************************************************)
(* Theorems about the circuit breaker, for any set of callers, any         *)
(* threshold, cool-off and number of retries.                              *)
(***************************************************************************)
EXTENDS CircuitBreaker, TLAPS

USE ThresholdAssumption, ResetAssumption, MaxAttemptsAssumption

(* The state and the count of the breaker, which are inductive by           *)
(* themselves: no step of a caller ties them to what the caller does.       *)
BreakerInv ==
    /\ state \in {"closed", "open", "half_open"}
    /\ failures \in 0 .. Threshold
    /\ age \in 0 .. ResetTimeout
    /\ ClosedBelowThreshold

(* The callers, and the provider they call. *)
CallerInv ==
    /\ health \in Conditions
    /\ pc \in [Callers -> {"idle", "waiting", "backoff"}]
    /\ attempt \in [Callers -> 0 .. MaxAttempts]
    /\ sentTo \in [Callers -> Conditions]
    /\ \A c \in Callers : pc[c] = "backoff" => attempt[c] < MaxAttempts

(* The invariant holds initially. *)
LEMMA InitInv == Init => BreakerInv /\ CallerInv
  BY DEF Init, BreakerInv, CallerInv, ClosedBelowThreshold, Conditions

(* Every step keeps the state and the count of the breaker in accord. *)
LEMMA NextBreaker ==
  ASSUME BreakerInv, [Next]_vars
  PROVE  BreakerInv'
<1>1. CASE OnSuccess
  BY <1>1 DEF OnSuccess, BreakerInv, ClosedBelowThreshold
<1>2. CASE OnFailure
  BY <1>2 DEF OnFailure, BreakerInv, ClosedBelowThreshold
<1>3. ASSUME NEW c \in Callers, BeforeCall(c) PROVE BreakerInv'
  BY <1>3 DEF BeforeCall, BreakerInv, ClosedBelowThreshold
<1>4. CASE Tick
  BY <1>4 DEF Tick, Rejecting, BreakerInv, ClosedBelowThreshold
<1>5. CASE UNCHANGED breaker
  BY <1>5 DEF breaker, BreakerInv, ClosedBelowThreshold
<1>6. ASSUME NEW c \in Callers, Step(c) \/ Cancelled(c)
      PROVE  OnSuccess \/ OnFailure \/ UNCHANGED breaker
  BY <1>6
  DEF Step, Succeeds, Declined, Unexpected, BacksOff, Retries, Exhausted, Cancelled
<1>7. ProviderChanges \/ UNCHANGED vars => UNCHANGED breaker
  BY DEF ProviderChanges, vars, breaker
<1> QED
  BY <1>1, <1>2, <1>3, <1>4, <1>5, <1>6, <1>7 DEF Next

(* Every step keeps the callers in their types, and no call makes more      *)
(* attempts than the policy allows.                                         *)
LEMMA NextCaller ==
  ASSUME CallerInv, [Next]_vars
  PROVE  CallerInv'
<1>1. ASSUME NEW c \in Callers, BeforeCall(c) PROVE CallerInv'
  BY <1>1 DEF BeforeCall, CallerInv
<1>2. ASSUME NEW c \in Callers, Finish(c), UNCHANGED health PROVE CallerInv'
  BY <1>2 DEF Finish, CallerInv, Conditions
<1>3. ASSUME NEW c \in Callers, BacksOff(c) PROVE CallerInv'
  BY <1>3 DEF BacksOff, CallerInv
<1>4. ASSUME NEW c \in Callers, Retries(c) PROVE CallerInv'
  BY <1>4 DEF Retries, CallerInv
<1>5. CASE ProviderChanges
  BY <1>5 DEF ProviderChanges, CallerInv
<1>6. CASE UNCHANGED <<health, pc, attempt, sentTo>>
  BY <1>6 DEF CallerInv
<1>7. ASSUME NEW c \in Callers, Step(c) \/ Cancelled(c)
      PROVE  BacksOff(c) \/ Retries(c) \/ (Finish(c) /\ UNCHANGED health)
  BY <1>7
  DEF Step, Succeeds, Declined, Unexpected, Exhausted, Cancelled
<1>8. Tick \/ UNCHANGED vars => UNCHANGED <<health, pc, attempt, sentTo>>
  BY DEF Tick, vars
<1> QED
  BY <1>1, <1>2, <1>3, <1>4, <1>5, <1>6, <1>7, <1>8 DEF Next

(* Every variable of the breaker and of its callers always has its type; in *)
(* particular no call exceeds MaxAttempts attempts.                         *)
THEOREM BreakerTypeCorrect == Spec => []TypeOK
<1>1. BreakerInv /\ CallerInv => TypeOK
  BY DEF BreakerInv, CallerInv, TypeOK
<1> QED
  BY <1>1, InitInv, NextBreaker, NextCaller, PTL DEF Spec

(* However late outcomes arrive, the circuit is closed exactly while fewer  *)
(* than Threshold calls failed since the last success.                      *)
THEOREM ClosedExactlyBelowThreshold == Spec => []ClosedBelowThreshold
<1>1. BreakerInv => ClosedBelowThreshold
  BY DEF BreakerInv
<1> QED
  BY <1>1, InitInv, NextBreaker, PTL DEF Spec

(* While the circuit is open and cooling off, no step of any caller adds an *)
(* attempt that the provider may still see; those of calls let through      *)
(* before run out.                                                          *)
THEOREM CoolingIsQuiet == Spec => CoolingStopsCalls
<1>1. ASSUME CallerInv, [Next]_vars, Rejecting
      PROVE  AttemptsLeft' \subseteq AttemptsLeft
  <2>1. ASSUME NEW c \in Callers, Finish(c)
        PROVE  AttemptsLeft' \subseteq AttemptsLeft
    BY <1>1, <2>1 DEF Finish, AttemptsLeft, CallerInv
  <2>2. ASSUME NEW c \in Callers, BacksOff(c)
        PROVE  AttemptsLeft' \subseteq AttemptsLeft
    BY <1>1, <2>2 DEF BacksOff, Gets, AttemptsLeft, CallerInv
  <2>3. ASSUME NEW c \in Callers, Retries(c)
        PROVE  AttemptsLeft' \subseteq AttemptsLeft
    BY <1>1, <2>3 DEF Retries, AttemptsLeft, CallerInv
  <2>4. CASE UNCHANGED <<pc, attempt>>
    BY <2>4 DEF AttemptsLeft
  <2>5. ASSUME NEW c \in Callers, Step(c) \/ Cancelled(c)
        PROVE  BacksOff(c) \/ Retries(c) \/ Finish(c)
    BY <2>5 DEF Step, Succeeds, Declined, Unexpected, Exhausted, Cancelled
  <2>6. ASSUME NEW c \in Callers PROVE ~BeforeCall(c)
    BY <1>1 DEF BeforeCall
  <2>7. Tick \/ ProviderChanges \/ UNCHANGED vars => UNCHANGED <<pc, attempt>>
    BY DEF Tick, ProviderChanges, vars
  <2> QED
    BY <1>1, <2>1, <2>2, <2>3, <2>4, <2>5, <2>6, <2>7 DEF Next
<1> QED
  BY <1>1, InitInv, NextCaller, PTL DEF Spec, CoolingStopsCalls

(* Over a provider that works, every attempt was sent while it worked. *)
HealthyInv == state = "closed" /\ \A c \in Callers : sentTo[c] = "up"

(* A provider that works and goes on working fails no attempt, so no step   *)
(* opens the circuit.                                                       *)
LEMMA NextHealthy ==
  ASSUME CallerInv, HealthyInv, [Next]_vars, health = "up"
  PROVE  HealthyInv'
<1>1. ASSUME NEW c \in Callers, BeforeCall(c) PROVE HealthyInv'
  BY <1>1 DEF BeforeCall, HealthyInv, CallerInv
<1>2. ASSUME NEW c \in Callers, Gets(c, "unavailable") \/ Gets(c, "unexpected")
      PROVE  FALSE
  BY <1>2 DEF Gets, Outcomes, HealthyInv
<1>3. ASSUME NEW c \in Callers, Finish(c), OnSuccess \/ UNCHANGED breaker
      PROVE  HealthyInv'
  BY <1>3 DEF Finish, OnSuccess, breaker, HealthyInv, CallerInv
<1>4. ASSUME NEW c \in Callers, Retries(c) PROVE HealthyInv'
  BY <1>4 DEF Retries, breaker, HealthyInv, CallerInv
<1>5. ASSUME NEW c \in Callers, Succeeds(c) \/ Declined(c) \/ Cancelled(c)
      PROVE  Finish(c) /\ (OnSuccess \/ UNCHANGED breaker)
  BY <1>5 DEF Succeeds, Declined, Cancelled
<1>6. ASSUME NEW c \in Callers, Unexpected(c) \/ BacksOff(c) \/ Exhausted(c)
      PROVE  Gets(c, "unavailable") \/ Gets(c, "unexpected")
  BY <1>6 DEF Unexpected, BacksOff, Exhausted
<1>7. CASE Tick \/ ProviderChanges \/ UNCHANGED vars
  BY <1>7 DEF Tick, ProviderChanges, breaker, vars, HealthyInv
<1> QED
  BY <1>1, <1>2, <1>3, <1>4, <1>5, <1>6, <1>7 DEF Next, Step

(* Declined cards never trip the circuit: while the provider works it stays *)
(* closed, for any number of callers and any threshold.                     *)
THEOREM HealthyStaysClosed == Spec => HealthyNeverTrips
<1>1. Init => HealthyInv
  BY DEF Init, HealthyInv
<1>2. HealthyInv => state = "closed"
  BY DEF HealthyInv
<1> QED
  BY <1>1, <1>2, InitInv, NextCaller, NextHealthy, PTL DEF Spec, HealthyNeverTrips
=============================================================================
