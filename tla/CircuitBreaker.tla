-------------------------- MODULE CircuitBreaker --------------------------
(***************************************************************************)
(* GatewayManager.execute for one provider: the circuit breaker that all   *)
(* requests to the provider share, around the retry loop that each of them *)
(* runs, with the calls of many requests in flight at once.                *)
(*                                                                         *)
(* _before_call, _on_success and _on_failure each run under the breaker's  *)
(* lock and are one step; between them the call awaits the provider, so    *)
(* the breaker may have changed state when its outcome is booked. The      *)
(* clock is the time since the circuit last opened, counted up to          *)
(* ResetTimeout, beyond which the code does not tell times apart.          *)
(***************************************************************************)
EXTENDS Naturals

CONSTANTS
    Callers,        \* concurrent uses of execute, each one call after another
    Threshold,      \* settings.circuit_breaker_failure_threshold
    ResetTimeout,   \* settings.circuit_breaker_reset_seconds, in ticks
    MaxAttempts     \* settings.provider_max_retries

ASSUME ThresholdAssumption == Threshold \in Nat \ {0}
ASSUME ResetAssumption == ResetTimeout \in Nat
ASSUME MaxAttemptsAssumption == MaxAttempts \in Nat \ {0}

VARIABLES
    state,      \* _state
    failures,   \* _failures, up to Threshold
    age,        \* now() - _opened_at, up to ResetTimeout
    health,     \* the condition of the provider
    pc,         \* where each caller is
    attempt,    \* attempts its call has made
    sentTo      \* the provider's condition when the last one was sent

breaker == <<state, failures, age>>
vars == <<state, failures, age, health, pc, attempt, sentTo>>

(* The provider works, cannot be reached, or answers with HTTP 5xx or 429. *)
Conditions == {"up", "unreachable", "erroring"}

Init ==
    /\ state = "closed"
    /\ failures = 0
    /\ age = 0
    /\ health = "up"
    /\ pc = [c \in Callers |-> "idle"]
    /\ attempt = [c \in Callers |-> 0]
    /\ sentTo = [c \in Callers |-> "up"]

-----------------------------------------------------------------------------
(* CircuitBreaker *)

(* _before_call raises CircuitOpenError, which changes nothing. *)
Rejecting == state = "open" /\ age < ResetTimeout

(* Mutant of BeforeCall: an open circuit lets calls through at once. *)
BeforeCallUnchecked(c) ==
    /\ pc[c] = "idle"
    /\ pc' = [pc EXCEPT ![c] = "waiting"]
    /\ attempt' = [attempt EXCEPT ![c] = 1]
    /\ sentTo' = [sentTo EXCEPT ![c] = health]
    /\ UNCHANGED <<breaker, health>>

(* _before_call lets the call through: the first attempt is sent. *)
BeforeCall(c) ==
    /\ pc[c] = "idle"
    /\ ~Rejecting
    /\ state' = IF state = "open" THEN "half_open" ELSE state
    /\ pc' = [pc EXCEPT ![c] = "waiting"]
    /\ attempt' = [attempt EXCEPT ![c] = 1]
    /\ sentTo' = [sentTo EXCEPT ![c] = health]
    /\ UNCHANGED <<failures, age, health>>

(* Mutant of OnSuccess: the count is not reset. *)
OnSuccessKeepsCount ==
    /\ state' = "closed"
    /\ UNCHANGED <<failures, age>>

OnSuccess ==
    /\ failures' = 0
    /\ state' = "closed"
    /\ UNCHANGED age

OnFailure ==
    /\ failures' = IF failures < Threshold THEN failures + 1 ELSE failures
    /\ IF state = "half_open" \/ failures + 1 >= Threshold
       THEN state' = "open" /\ age' = 0
       ELSE UNCHANGED <<state, age>>

(* The call of c is over. *)
Finish(c) ==
    /\ pc' = [pc EXCEPT ![c] = "idle"]
    /\ attempt' = [attempt EXCEPT ![c] = 0]
    /\ sentTo' = [sentTo EXCEPT ![c] = "up"]

-----------------------------------------------------------------------------
(* guarded: what an attempt comes to. A transport fault is Unavailable; the *)
(* Stripe adapter turns every status of 400 and above into ProviderError,   *)
(* a decline like any other, unless the body is not JSON.                   *)
Outcomes(condition) ==
    [up |-> {"ok", "declined"},
     unreachable |-> {"unavailable"},
     erroring |-> {"declined", "unexpected"}][condition]

Gets(c, outcome) == pc[c] = "waiting" /\ outcome \in Outcomes(sentTo[c])

Succeeds(c) == Gets(c, "ok") /\ OnSuccess /\ Finish(c) /\ UNCHANGED health

(* Mutant of Declined: ProviderError is not ignored. *)
DeclinedCounts(c) == Gets(c, "declined") /\ OnFailure /\ Finish(c) /\ UNCHANGED health

(* ProviderError is one of ignored_exceptions. *)
Declined(c) ==
    /\ Gets(c, "declined")
    /\ Finish(c)
    /\ UNCHANGED <<breaker, health>>

Unexpected(c) == Gets(c, "unexpected") /\ OnFailure /\ Finish(c) /\ UNCHANGED health

(* Mutant of BacksOff: one attempt more than provider_max_retries. *)
BacksOffOnceMore(c) ==
    /\ Gets(c, "unavailable")
    /\ attempt[c] =< MaxAttempts
    /\ pc' = [pc EXCEPT ![c] = "backoff"]
    /\ UNCHANGED <<breaker, health, attempt, sentTo>>

(* retry_async: the attempt is repeated after a pause, the last one counts. *)
BacksOff(c) ==
    /\ Gets(c, "unavailable")
    /\ attempt[c] < MaxAttempts
    /\ pc' = [pc EXCEPT ![c] = "backoff"]
    /\ UNCHANGED <<breaker, health, attempt, sentTo>>

(* Mutant of Retries: attempts are not counted. *)
RetriesUncounted(c) ==
    /\ pc[c] = "backoff"
    /\ pc' = [pc EXCEPT ![c] = "waiting"]
    /\ sentTo' = [sentTo EXCEPT ![c] = health]
    /\ UNCHANGED <<breaker, health, attempt>>

Retries(c) ==
    /\ pc[c] = "backoff"
    /\ pc' = [pc EXCEPT ![c] = "waiting"]
    /\ attempt' = [attempt EXCEPT ![c] = @ + 1]
    /\ sentTo' = [sentTo EXCEPT ![c] = health]
    /\ UNCHANGED <<breaker, health>>

Exhausted(c) ==
    /\ Gets(c, "unavailable")
    /\ attempt[c] >= MaxAttempts
    /\ OnFailure
    /\ Finish(c)
    /\ UNCHANGED health

(* Mutant of Cancelled: a cancelled call counts as a failure. *)
CancelledCounts(c) == pc[c] # "idle" /\ OnFailure /\ Finish(c) /\ UNCHANGED health

(* The request's task is cancelled: CancelledError is no Exception, so the  *)
(* breaker does not hear of it.                                             *)
Cancelled(c) ==
    /\ pc[c] # "idle"
    /\ Finish(c)
    /\ UNCHANGED <<breaker, health>>

-----------------------------------------------------------------------------
(* The environment: time passes, the provider fails and recovers *)

Tick ==
    /\ Rejecting
    /\ age' = age + 1
    /\ UNCHANGED <<state, failures, health, pc, attempt, sentTo>>

ProviderChanges ==
    /\ health' \in Conditions \ {health}
    /\ UNCHANGED <<breaker, pc, attempt, sentTo>>

Step(c) == \/ Succeeds(c) \/ Declined(c) \/ Unexpected(c)
           \/ BacksOff(c) \/ Retries(c) \/ Exhausted(c)

Next ==
    \/ \E c \in Callers : BeforeCall(c) \/ Step(c) \/ Cancelled(c)
    \/ Tick
    \/ ProviderChanges

(***************************************************************************)
(* Fairness: the clock runs, and a call in flight goes on, because httpx   *)
(* ends every attempt at its timeout and asyncio.sleep ends every pause.   *)
(* Nothing obliges a client to call or the provider to change.             *)
(***************************************************************************)
Spec == /\ Init /\ [][Next]_vars
        /\ WF_vars(Tick)
        /\ \A c \in Callers : WF_vars(Step(c))

-----------------------------------------------------------------------------
(* Properties *)

(* Every variable of the breaker and of its callers has its type. *)
TypeOK ==
    /\ state \in {"closed", "open", "half_open"}
    /\ failures \in 0 .. Threshold
    /\ age \in 0 .. ResetTimeout
    /\ health \in Conditions
    /\ pc \in [Callers -> {"idle", "waiting", "backoff"}]
    /\ attempt \in [Callers -> 0 .. MaxAttempts]
    /\ sentTo \in [Callers -> Conditions]

(* The circuit is closed exactly while fewer than Threshold calls failed    *)
(* since the last success, however late outcomes arrive: a stale failure    *)
(* never leaves it open with a reset count, nor a stale success closed with *)
(* a full one. So _on_failure would reopen a half-open circuit even without *)
(* its test for that state.                                                 *)
ClosedBelowThreshold == state = "closed" <=> failures < Threshold

(* The attempts that calls already let through may still make. *)
AttemptsLeft ==
    {a \in Callers \X (1 .. MaxAttempts) : pc[a[1]] # "idle" /\ a[2] > attempt[a[1]]}

(* While the circuit cools off, the provider sees no attempt but the        *)
(* remaining ones of calls let through before: they run out, and none is    *)
(* added, by any caller.                                                    *)
CoolingStopsCalls == [][Rejecting => AttemptsLeft' \subseteq AttemptsLeft]_vars

(* Declined cards never trip the circuit: over a provider that works it     *)
(* stays closed, whatever is declined or cancelled.                         *)
HealthyNeverTrips == [](health = "up") => [](state = "closed")

(* Once the provider is back for good, requests are in the end never turned *)
(* away again, although attempts sent during the outage still fail late and *)
(* a probe may be declined or cancelled.                                    *)
Recovers == <>[](health = "up") => <>[]~Rejecting

(* Every call that is let through ends. *)
CallsEnd == \A c \in Callers : pc[c] # "idle" ~> pc[c] = "idle"

(* An outage in which the provider answers every call with an error trips   *)
(* the circuit, if calls keep running to their end.                         *)
OutageTrips ==
    /\ <>[](health = "erroring")
    /\ []<><<\E c \in Callers : Step(c) /\ pc'[c] = "idle">>_vars
    => <>(state = "open")
=============================================================================
