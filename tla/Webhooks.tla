----------------------------- MODULE Webhooks -----------------------------
(***************************************************************************)
(* The webhook endpoint and WebhookService.handle for one provider:        *)
(* deliveries that are repeated, delayed, reordered, lost or signed with   *)
(* the wrong secret are verified, deduplicated and persisted by concurrent *)
(* handlers, each with a database session of its own.                      *)
(*                                                                         *)
(* A handler is cut at its database calls and at its answer: the lookup,   *)
(* the flush of the INSERT, the commit of get_session and the response.    *)
(* The commit is the exit code of a dependency with yield, which releases  *)
(* of FastAPI before 0.118 run before the response is sent and later ones  *)
(* after it; pyproject.toml allows both, and so does this module.          *)
(*                                                                         *)
(* The row of provider_configs that holds the secret is read first, and    *)
(* the signature is verified as soon as the row is there. Nothing in this  *)
(* module writes that table and a delivery that is refused writes nothing, *)
(* so the read and the verification are one step, and a delivery that has  *)
(* no secret or fails verification takes none.                             *)
(***************************************************************************)
EXTENDS Integers

CONSTANTS
    Events,         \* event ids of the provider
    NoEvent,        \* no event
    Owners,         \* accounts with an active row in provider_configs
    NoOwner,        \* no header X-UPGI-Account, or one of another account
    Sandbox,        \* _MOCK_SANDBOX_SECRET; the secret of an owner is the owner
    Route,          \* the header and the secret that the provider uses, per event
    Handlers,       \* concurrent executions of receive_webhook
    Tolerance,      \* tolerance_seconds of signatures.verify
    MaxTime,        \* bound: the clock stops here
    MaxFaults       \* bound: failed handlers and lost acknowledgements

Headers == Owners \cup {NoOwner}
Secrets == Owners \cup {Sandbox}

ASSUME NoEventAssumption == NoEvent \notin Events
ASSUME OwnersAssumption == NoOwner \notin Owners /\ Sandbox \notin Owners
ASSUME RouteAssumption == Route \in [Events -> [to : Headers, key : Secrets]]
ASSUME ToleranceAssumption == Tolerance \in Nat
ASSUME TimeAssumption == MaxTime \in Nat
ASSUME FaultsAssumption == MaxFaults \in Nat

VARIABLES
    provider,   \* the provider in the URL
    order,      \* which of commit and response the installed FastAPI runs first
    now,        \* the clock
    emitted,    \* deliveries the provider has signed and sent
    acked,      \* events whose acknowledgement the provider got
    dropped,    \* events whose handler failed after its response, before its commit
    faults,     \* faults so far
    pc,         \* where each handler is
    event,      \* the event it handles
    rows,       \* committed rows of webhook_events, per event
    audit       \* committed webhook.received entries of the audit log

deployment == <<provider, order>>
vars == <<deployment, now, emitted, acked, dropped, faults, pc, event, rows, audit>>

Times == 0 .. MaxTime

(* What arrives: to is the account in its header, key the secret its digest *)
(* was made with.                                                           *)
Delivery == [event : Events, ts : Times, to : Headers, key : Secrets]

Init ==
    /\ provider \in {"stripe", "mock"}
    /\ order \in {"commit_first", "response_first"}
    /\ now = 0
    /\ emitted = {}
    /\ acked = {}
    /\ dropped = {}
    /\ faults = 0
    /\ pc = [h \in Handlers |-> "idle"]
    /\ event = [h \in Handlers |-> NoEvent]
    /\ rows = [e \in Events |-> 0]
    /\ audit = [e \in Events |-> 0]

-----------------------------------------------------------------------------
(* The provider and the network *)

(* The delivery that the provider makes of e at time t. *)
Signed(e, t) == [event |-> e, ts |-> t, to |-> Route[e].to, key |-> Route[e].key]

(* The provider sends an event, again and freshly signed until it is        *)
(* acknowledged.                                                            *)
Emit(e) ==
    /\ e \notin acked
    /\ emitted' = emitted \cup {Signed(e, now)}
    /\ UNCHANGED <<deployment, now, acked, dropped, faults, pc, event, rows, audit>>

Tick ==
    /\ now < MaxTime
    /\ now' = now + 1
    /\ UNCHANGED <<deployment, emitted, acked, dropped, faults, pc, event, rows, audit>>

(* Anything the provider sent may arrive, at any time and again and again,  *)
(* and so may what anybody signs with the published sandbox secret.         *)
Arrives(m) == m \in emitted \/ m.key = Sandbox

-----------------------------------------------------------------------------
(* receive_webhook and WebhookService.handle *)

(* The digest of m was made with the secret that get_provider finds for its *)
(* header: the owner's own, and without an active row the sandbox secret,   *)
(* which only the mock provider falls back to. A delivery without the       *)
(* header is looked up under a random uuid, which nobody has.               *)
DigestMatches(m) ==
    \/ m.to \in Owners /\ m.key = m.to
    \/ m.to \notin Owners /\ provider = "mock" /\ m.key = Sandbox

(* signatures.verify: the timestamp within the tolerance on either side,    *)
(* then the digest.                                                         *)
Verified(m) ==
    /\ now - m.ts =< Tolerance
    /\ m.ts - now =< Tolerance
    /\ DigestMatches(m)

Receive(h) ==
    /\ pc[h] = "idle"
    /\ \E m \in Delivery :
          /\ Arrives(m)
          /\ Verified(m)
          /\ event' = [event EXCEPT ![h] = m.event]
    /\ pc' = [pc EXCEPT ![h] = "verified"]
    /\ UNCHANGED <<deployment, now, emitted, acked, dropped, faults, rows, audit>>

(* The handler of h is over. *)
Finish(h) ==
    /\ pc' = [pc EXCEPT ![h] = "idle"]
    /\ event' = [event EXCEPT ![h] = NoEvent]

(* The response reaches the provider, or its connection is gone. *)
Acknowledge(h) ==
    \/ acked' = acked \cup {event[h]} /\ UNCHANGED faults
    \/ faults < MaxFaults /\ faults' = faults + 1 /\ UNCHANGED acked

(* Mutant of Duplicate: a duplicate is answered with an error. *)
DuplicateRefused(h) ==
    /\ pc[h] = "verified"
    /\ rows[event[h]] > 0
    /\ Finish(h)
    /\ UNCHANGED <<deployment, now, emitted, acked, dropped, faults, rows, audit>>

(* get_by_event finds the event: the answer says duplicate. The session has *)
(* nothing to commit.                                                       *)
Duplicate(h) ==
    /\ pc[h] = "verified"
    /\ rows[event[h]] > 0
    /\ Finish(h)
    /\ Acknowledge(h)
    /\ UNCHANGED <<deployment, now, emitted, dropped, rows, audit>>

NotFound(h) ==
    /\ pc[h] = "verified"
    /\ rows[event[h]] = 0
    /\ pc' = [pc EXCEPT ![h] = "absent"]
    /\ UNCHANGED <<deployment, now, emitted, acked, dropped, faults, event, rows, audit>>

(* Mutant of Taken: no unique constraint on events. *)
NeverTaken(h) == FALSE

(* The session of g has inserted an event and not committed it. *)
Holding(g) == pc[g] \in {"inserted", "answered"}

(* The unique constraint (provider, event_id) makes an INSERT wait while    *)
(* another transaction has inserted the same event, and fail once that one  *)
(* is committed.                                                            *)
Blocked(h) == \E g \in Handlers : Holding(g) /\ event[g] = event[h]
Taken(h) == rows[event[h]] > 0

Insert(h) ==
    /\ pc[h] = "absent"
    /\ ~Blocked(h)
    /\ ~Taken(h)
    /\ pc' = [pc EXCEPT ![h] = "inserted"]
    /\ UNCHANGED <<deployment, now, emitted, acked, dropped, faults, event, rows, audit>>

(* Mutant of InsertFails: the conflict is answered as a duplicate, without  *)
(* waiting for the other transaction to end.                                *)
ConflictAcknowledged(h) ==
    /\ pc[h] = "absent"
    /\ Blocked(h) \/ Taken(h)
    /\ Finish(h)
    /\ Acknowledge(h)
    /\ UNCHANGED <<deployment, now, emitted, dropped, rows, audit>>

(* IntegrityError is not handled: a rollback and an answer of 500. *)
InsertFails(h) ==
    /\ pc[h] = "absent"
    /\ ~Blocked(h)
    /\ Taken(h)
    /\ Finish(h)
    /\ UNCHANGED <<deployment, now, emitted, acked, dropped, faults, rows, audit>>

(* audit.record, committed with the transaction it is part of. *)
Record(e) == audit' = [audit EXCEPT ![e] = @ + 1]

(* get_session after its yield: the event and its audit entry are one       *)
(* transaction.                                                             *)
Commit(h) ==
    /\ \/ /\ order = "commit_first"
          /\ pc[h] = "inserted"
          /\ pc' = [pc EXCEPT ![h] = "committed"]
          /\ UNCHANGED event
       \/ pc[h] = "answered" /\ Finish(h)
    /\ rows' = [rows EXCEPT ![event[h]] = @ + 1]
    /\ Record(event[h])
    /\ UNCHANGED <<deployment, now, emitted, acked, dropped, faults>>

(* receive_webhook has returned and the response is sent. *)
Answer(h) ==
    /\ \/ /\ order = "response_first"
          /\ pc[h] = "inserted"
          /\ pc' = [pc EXCEPT ![h] = "answered"]
          /\ UNCHANGED event
       \/ pc[h] = "committed" /\ Finish(h)
    /\ Acknowledge(h)
    /\ UNCHANGED <<deployment, now, emitted, dropped, rows, audit>>

(* The process dies or the database fails: what is not committed is rolled  *)
(* back, an event that was answered for included.                           *)
Fails(h) ==
    /\ pc[h] # "idle"
    /\ faults < MaxFaults
    /\ faults' = faults + 1
    /\ dropped' = IF pc[h] = "answered" THEN dropped \cup {event[h]} ELSE dropped
    /\ Finish(h)
    /\ UNCHANGED <<deployment, now, emitted, acked, rows, audit>>

-----------------------------------------------------------------------------
Step(h) == \/ Duplicate(h) \/ NotFound(h) \/ Insert(h) \/ InsertFails(h)
           \/ Commit(h) \/ Answer(h)

Next ==
    \/ \E e \in Events : Emit(e)
    \/ Tick
    \/ \E h \in Handlers : Receive(h) \/ Step(h) \/ Fails(h)

Spec == Init /\ [][Next]_vars

(***************************************************************************)
(* Fairness: a handler that can go on does, time passes, and the provider  *)
(* delivers an event it has no acknowledgement for again and again (its    *)
(* contract, and not a guarantee of this code): a fresh delivery that      *)
(* finds an idle handler infinitely often gets one.                        *)
(***************************************************************************)
ReceiveOf(e) == \E h \in Handlers : Receive(h) /\ event'[h] = e /\ e \notin acked

Fairness ==
    /\ WF_vars(Tick)
    /\ \A h \in Handlers : WF_vars(Step(h))
    /\ \A e \in Events : WF_vars(Emit(e)) /\ SF_vars(ReceiveOf(e))

FairSpec == Spec /\ Fairness

-----------------------------------------------------------------------------
(* Properties *)

(* Every variable of the webhook endpoint has its type. *)
TypeOK ==
    /\ provider \in {"stripe", "mock"}
    /\ order \in {"commit_first", "response_first"}
    /\ now \in Times
    /\ emitted \subseteq Delivery
    /\ acked \subseteq Events
    /\ dropped \subseteq Events
    /\ faults \in 0 .. MaxFaults
    /\ pc \in [Handlers -> {"idle", "verified", "absent", "inserted", "committed", "answered"}]
    /\ event \in [Handlers -> Events \cup {NoEvent}]
    /\ rows \in [Events -> Nat]
    /\ audit \in [Events -> Nat]

(* However often and concurrently an event is delivered, it is processed    *)
(* at most once: one row, and one audit entry exactly when there is a row.  *)
ProcessedOnce == \A e \in Events : rows[e] =< 1 /\ audit[e] = rows[e]

(* An event the provider stops sending, because it was acknowledged, is     *)
(* stored, the acknowledgement of a duplicate included. Where the response  *)
(* comes before the commit there is one exception: the commit is still to   *)
(* come, or a fault came before it and the event is lost.                   *)
AckedIsStored ==
    \A e \in acked :
        \/ rows[e] = 1
        \/ /\ order = "response_first"
           /\ e \in dropped \/ \E h \in Handlers : pc[h] = "answered" /\ event[h] = e

(* The provider's deliveries of e carry a header under which get_provider   *)
(* finds the secret they are signed with.                                   *)
WellRouted(e) == DigestMatches(Signed(e, now))

(* Every event that is sent and well routed is in the end acknowledged, and *)
(* stored unless it was answered for and then dropped, although deliveries  *)
(* expire, handlers fail, two of them race for one event and                *)
(* acknowledgements are lost.                                               *)
EventuallyAcked ==
    \A e \in Events :
        (WellRouted(e) /\ \E m \in emitted : m.event = e)
            ~> (e \in acked /\ (rows[e] = 1 \/ e \in dropped))
=============================================================================
