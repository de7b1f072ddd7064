--------------------------- MODULE PaymentEngine ---------------------------
(***************************************************************************)
(* The payment engine: the create, capture, cancel and refund handlers of  *)
(* app/api/v1 with the services they call, running concurrently against    *)
(* one database and one payment provider.                                  *)
(*                                                                         *)
(* A request is cut where its coroutine can be suspended:                  *)
(*   Receive   the Idempotency-Key lookup;                                 *)
(*   Start*    the read of the payment row (for a create, its INSERT), the *)
(*             checks on it and the call sent to the provider;             *)
(*   Provider* the provider executes the call and answers;                 *)
(*   Timeout   the transport fault that GatewayManager.execute retries;    *)
(*   Commit*   the writes computed from the row READ BY Start and their    *)
(*             commit by get_session.                                      *)
(* The session runs at READ COMMITTED without row locks or version         *)
(* columns, and an UPDATE carries only the columns whose value changed, so *)
(* a commit overwrites those columns whatever other commits came between.  *)
(***************************************************************************)
EXTENDS PaymentStates, Naturals, FiniteSets

CONSTANTS
    Requests,       \* HTTP requests, each handled once; also payment ids
    Keys,           \* Idempotency-Key header values
    NoKey,          \* the header is absent
    NoRef,          \* provider_reference IS NULL
    MaxAmount,      \* bound: the largest amount_minor of a request
    MaxPayments,    \* bound: the create requests received
    MaxAttempts,    \* settings.provider_max_retries, the calls of one execute
    Provider        \* the adapter in use, "stripe" or "mock"

ASSUME NoKeyAssumption == NoKey \notin Keys
ASSUME NoRefAssumption == NoRef \notin Requests \X (1 .. MaxAttempts)
ASSUME AmountAssumption == MaxAmount \in Nat \ {0}
ASSUME PaymentsAssumption == MaxPayments \in Nat
ASSUME AttemptsAssumption == MaxAttempts \in Nat \ {0}
ASSUME ProviderAssumption == Provider \in {"stripe", "mock"}

VARIABLES
    payments,   \* the committed rows of table payments, by primary key
    pc,         \* how far each request got
    req,        \* what each request asks for
    snap,       \* the payment row as the request's session holds it
    units,      \* the minor units the request moves
    attempt,    \* calls the request has sent to the provider
    wire,       \* calls sent and not yet executed by the provider
    executed,   \* calls the provider has accepted and carried out
    reply,      \* the provider's answer to a create
    ledger,     \* the provider's own record of each charge
    answer      \* the request whose response the client was given

vars == <<payments, pc, req, snap, units, attempt, wire, executed, reply,
          ledger, answer>>

-----------------------------------------------------------------------------
(* Data *)

Calls == Requests \X (1 .. MaxAttempts)
Amounts == 1 .. MaxAmount

(* A charge is named at the provider by the create call that made it. *)
Refs == Calls

Operations == {"create", "capture", "cancel", "refund"}

Row == [status : PaymentStatus \cup {"absent"}, amount : Nat,
        captured : Nat, refunded : Nat, ref : Refs \cup {NoRef}]

NoRow == [status |-> "absent", amount |-> 0, captured |-> 0, refunded |-> 0,
          ref |-> NoRef]

(* Amount 0 is an omitted amount_minor; manual is capture_method = MANUAL.  *)
(* The payment a create inserts takes the request's own name as its fresh   *)
(* primary key.                                                             *)
Request == [op : Operations \cup {"none"}, key : Keys \cup {NoKey},
            payment : Requests, amount : 0 .. MaxAmount, manual : BOOLEAN]

NoRequest(r) == [op |-> "none", key |-> NoKey, payment |-> r, amount |-> 0,
                 manual |-> FALSE]

CreatesReceived == {r \in Requests : req[r].op = "create"}

Charge == [status : {"none", "pending", "failed", "authorized", "captured",
                     "canceled"},
           amount : Nat, captured : Nat, refunded : Nat]

NoCharge == [status |-> "none", amount |-> 0, captured |-> 0, refunded |-> 0]

Reply == [ref : Refs \cup {NoRef},
          status : {"none", "pending", "failed", "authorized", "captured"}]

NoReply == [ref |-> NoRef, status |-> "none"]

PCs == {"new", "accepted", "calling", "replied", "committed", "replayed",
        "failed"}

(* Payment.amount_refundable *)
Refundable(row) ==
    IF row.captured > row.refunded THEN row.captured - row.refunded ELSE 0

(* The canonical body that _hash_body digests. *)
Body(q) == IF q.op = "create" THEN <<q.amount, q.manual>>
                              ELSE <<q.payment, q.amount>>

(* Who stored the (endpoint, key) row that request q would look up: none or *)
(* one request, by the unique constraint the commits below respect.         *)
StoredBy(q) ==
    {s \in Requests : /\ pc[s] = "committed"
                      /\ q.key # NoKey
                      /\ req[s].key = q.key
                      /\ req[s].op = q.op}

Fail(r) == pc' = [pc EXCEPT ![r] = "failed"]

Init ==
    /\ payments = [p \in Requests |-> NoRow]
    /\ pc = [r \in Requests |-> "new"]
    /\ req = [r \in Requests |-> NoRequest(r)]
    /\ snap = [r \in Requests |-> NoRow]
    /\ units = [r \in Requests |-> 0]
    /\ attempt = [r \in Requests |-> 0]
    /\ wire = {}
    /\ executed = {}
    /\ reply = [r \in Requests |-> NoReply]
    /\ ledger = [c \in Refs |-> NoCharge]
    /\ answer = [r \in Requests |-> r]

-----------------------------------------------------------------------------
(* The endpoint: validation by the schema, then IdempotencyService.lookup *)

(* What the schemas accept. Capture and cancel do not read the key header,  *)
(* and a path names a payment id only after it was generated.               *)
WellFormed(r, q) ==
    /\ q.op \in Operations
    /\ q.op = "create" => q.payment = r /\ q.amount > 0
    /\ q.op # "create" => pc[q.payment] # "new" /\ ~q.manual
    /\ q.op \in {"capture", "cancel"} => q.key = NoKey
    /\ q.op = "cancel" => q.amount = 0

Receive(r) ==
    /\ pc[r] = "new"
    /\ \E q \in Request :
          /\ WellFormed(r, q)
          /\ q.op = "create" => Cardinality(CreatesReceived) < MaxPayments
          /\ \/ /\ StoredBy(q) = {}
                /\ pc' = [pc EXCEPT ![r] = "accepted"]
                /\ req' = [req EXCEPT ![r] = q]
                /\ UNCHANGED answer
             \/ \E s \in StoredBy(q) :
                   /\ Body(req[s]) = Body(q)
                   /\ pc' = [pc EXCEPT ![r] = "replayed"]
                   /\ req' = [req EXCEPT ![r] = q]
                   /\ answer' = [answer EXCEPT ![r] = s]
             \/ \E s \in StoredBy(q) :
                   /\ Body(req[s]) # Body(q)
                   /\ Fail(r)
                   /\ UNCHANGED <<req, answer>>
    /\ UNCHANGED <<payments, snap, units, attempt, wire, executed, reply, ledger>>

-----------------------------------------------------------------------------
(* The services, up to and including the call of the provider *)

(* GatewayManager.execute sends the first call of r. *)
Send(r) ==
    /\ pc' = [pc EXCEPT ![r] = "calling"]
    /\ attempt' = [attempt EXCEPT ![r] = 1]
    /\ wire' = wire \cup {<<r, 1>>}
    /\ UNCHANGED <<payments, executed, reply, ledger, answer>>

InsertedRow(n) == [status |-> "requires_confirmation", amount |-> n,
                   captured |-> 0, refunded |-> 0, ref |-> NoRef]

(* PaymentService.create_payment: the INSERT is flushed, not committed, so  *)
(* only the session of r sees the row, under a fresh primary key.           *)
StartCreate(r) ==
    /\ pc[r] = "accepted"
    /\ req[r].op = "create"
    /\ snap' = [snap EXCEPT ![r] = InsertedRow(req[r].amount)]
    /\ units' = [units EXCEPT ![r] = req[r].amount]
    /\ Send(r)
    /\ UNCHANGED req

(* PaymentService.capture_payment: only an authorized payment, for at most  *)
(* the authorized amount.                                                   *)
CaptureUnits(r, row) == IF req[r].amount = 0 THEN row.amount ELSE req[r].amount

CaptureAllowed(r, row) ==
    /\ row.status = "authorized"
    /\ CaptureUnits(r, row) =< row.amount

StartCapture(r) ==
    LET row == payments[req[r].payment]
    IN  /\ pc[r] = "accepted"
        /\ req[r].op = "capture"
        /\ CaptureAllowed(r, row)
        /\ snap' = [snap EXCEPT ![r] = row]
        /\ units' = [units EXCEPT ![r] = CaptureUnits(r, row)]
        /\ Send(r)
        /\ UNCHANGED req

(* Mutant of CancelAllowed: the transition is not asserted. *)
CancelUnchecked(row) == row.status # "absent"

(* PaymentService.cancel_payment asserts the transition before the call. *)
CancelAllowed(row) == CanTransition(row.status, "canceled")

StartCancel(r) ==
    LET row == payments[req[r].payment]
    IN  /\ pc[r] = "accepted"
        /\ req[r].op = "cancel"
        /\ CancelAllowed(row)
        /\ snap' = [snap EXCEPT ![r] = row]
        /\ Send(r)
        /\ UNCHANGED <<req, units>>

(* RefundService.create_refund: an omitted amount refunds the balance. *)
RefundUnits(r, row) == IF req[r].amount = 0 THEN Refundable(row) ELSE req[r].amount

RefundAllowed(r, row) ==
    /\ row.status \in RefundableStates
    /\ RefundUnits(r, row) > 0
    /\ RefundUnits(r, row) =< Refundable(row)

StartRefund(r) ==
    LET row == payments[req[r].payment]
    IN  /\ pc[r] = "accepted"
        /\ req[r].op = "refund"
        /\ RefundAllowed(r, row)
        /\ snap' = [snap EXCEPT ![r] = row]
        /\ units' = [units EXCEPT ![r] = RefundUnits(r, row)]
        /\ Send(r)
        /\ UNCHANGED req

(* A check fails on the row the handler reads (an absent row included):     *)
(* 404, 409 or 422 and a rollback of a session that wrote nothing, so       *)
(* nothing of the request is left.                                          *)
Reject(r) ==
    LET row == payments[req[r].payment]
    IN  /\ pc[r] = "accepted"
        /\ \/ req[r].op = "capture" /\ ~CaptureAllowed(r, row)
           \/ req[r].op = "cancel" /\ ~CancelAllowed(row)
           \/ req[r].op = "refund" /\ ~RefundAllowed(r, row)
        /\ Fail(r)
        /\ req' = [req EXCEPT ![r] = NoRequest(r)]
        /\ UNCHANGED <<payments, snap, units, attempt, wire, executed, reply,
                       ledger, answer>>

-----------------------------------------------------------------------------
(* The provider, and the network between it and GatewayManager.execute *)

(* The call the coroutine of c[1] is waiting for. *)
Awaited(c) == pc[c[1]] = "calling" /\ attempt[c[1]] = c[2]

(* Stripe is remote, so an answer can be lost or come after the client      *)
(* timeout; the mock adapter answers inside the call.                       *)
Lossy == Provider = "stripe"

(* The answer to call c reaches the request that waits for it, or nobody. *)
Deliver(c, outcome, response) ==
    \/ /\ Awaited(c)
       /\ pc' = [pc EXCEPT ![c[1]] = outcome]
       /\ reply' = [reply EXCEPT ![c[1]] = response]
    \/ /\ Lossy \/ ~Awaited(c)
       /\ UNCHANGED <<pc, reply>>

Take(c) ==
    /\ c \in wire
    /\ wire' = wire \ {c}
    /\ UNCHANGED <<payments, req, snap, units, attempt, answer>>

(* Mutant of MadeUnderKey: the adapter does not forward the key. *)
KeyNotForwarded(c) == {d \in Refs : FALSE}

(* The charge that Stripe already made under the Idempotency-Key of call c. *)
(* The adapter forwards the key of a create only; the mock ignores it.      *)
MadeUnderKey(c) ==
    {d \in Refs : /\ Provider = "stripe"
                  /\ req[c[1]].key # NoKey
                  /\ ledger[d].status # "none"
                  /\ req[d[1]].key = req[c[1]].key}

(* The status first reported for charge d, which a keyed replay repeats. *)
FirstStatus(d) ==
    IF ledger[d].status \in {"pending", "failed"} THEN ledger[d].status
    ELSE IF req[d[1]].manual THEN "authorized" ELSE "captured"

Verdicts(r) ==
    {"failed", IF req[r].manual THEN "authorized" ELSE "captured"}
    \cup (IF Provider = "stripe" THEN {"pending"} ELSE {})

NewCharge(v, n) == [status |-> v, amount |-> n, refunded |-> 0,
                    captured |-> IF v = "captured" THEN n ELSE 0]

(* adapter.create_payment for a key, or no key, the provider has not seen. *)
ProviderCreate(c) ==
    /\ Take(c)
    /\ req[c[1]].op = "create"
    /\ MadeUnderKey(c) = {}
    /\ \E v \in Verdicts(c[1]) :
          /\ ledger' = [ledger EXCEPT ![c] = NewCharge(v, units[c[1]])]
          /\ Deliver(c, "replied", [ref |-> c, status |-> v])
    /\ executed' = executed \cup {c}

(* adapter.create_payment under a key Stripe knows: its first answer again. *)
ProviderReplay(c) ==
    /\ Take(c)
    /\ req[c[1]].op = "create"
    /\ \E d \in MadeUnderKey(c) :
          /\ Body(req[d[1]]) = Body(req[c[1]])
          /\ Deliver(c, "replied", [ref |-> d, status |-> FirstStatus(d)])
    /\ UNCHANGED <<executed, ledger>>

(* adapter.capture, adapter.cancel and adapter.refund. Stripe refuses what  *)
(* its charge does not allow; the mock adapter keeps no state and accepts   *)
(* everything, so for it the ledger only counts what it accepted.           *)
Accepts(c) ==
    LET charge == ledger[snap[c[1]].ref]
        op == req[c[1]].op
    IN  \/ Provider = "mock"
        \/ op \in {"capture", "cancel"} /\ charge.status = "authorized"
        \/ /\ op = "refund"
           /\ charge.status = "captured"
           /\ charge.refunded + units[c[1]] =< charge.captured

ProviderUpdate(c, charge) ==
    /\ Take(c)
    /\ Accepts(c)
    /\ ledger' = [ledger EXCEPT ![snap[c[1]].ref] = charge]
    /\ executed' = executed \cup {c}
    /\ Deliver(c, "replied", NoReply)

ProviderCapture(c) ==
    /\ req[c[1]].op = "capture"
    /\ ProviderUpdate(c, [ledger[snap[c[1]].ref] EXCEPT !.status = "captured",
                                                        !.captured = units[c[1]]])

ProviderCancel(c) ==
    /\ req[c[1]].op = "cancel"
    /\ ProviderUpdate(c, [ledger[snap[c[1]].ref] EXCEPT !.status = "canceled"])

ProviderRefund(c) ==
    /\ req[c[1]].op = "refund"
    /\ ProviderUpdate(c, [ledger[snap[c[1]].ref] EXCEPT !.refunded = @ + units[c[1]]])

(* Mutant of ProviderRefuse: _post does not look at the status code. *)
RefusalIgnored(c) ==
    /\ Take(c)
    /\ req[c[1]].op # "create" /\ ~Accepts(c)
    /\ Deliver(c, "replied", NoReply)
    /\ UNCHANGED <<executed, ledger>>

(* A 4xx answer: ProviderError, never retried, and the session rolls back. *)
ProviderRefuse(c) ==
    /\ Take(c)
    /\ \/ /\ req[c[1]].op = "create"
          /\ \E d \in MadeUnderKey(c) : Body(req[d[1]]) # Body(req[c[1]])
       \/ req[c[1]].op # "create" /\ ~Accepts(c)
    /\ Deliver(c, "failed", NoReply)
    /\ UNCHANGED <<executed, ledger>>

(* Mutant of Timeout: one attempt more than provider_max_retries. *)
OneTimeoutMore(r) ==
    /\ Lossy
    /\ pc[r] = "calling"
    /\ \/ /\ attempt[r] =< MaxAttempts
          /\ attempt' = [attempt EXCEPT ![r] = @ + 1]
          /\ wire' = wire \cup {<<r, attempt[r] + 1>>}
          /\ UNCHANGED pc
       \/ /\ attempt[r] > MaxAttempts
          /\ Fail(r)
          /\ UNCHANGED <<attempt, wire>>
    /\ UNCHANGED <<payments, req, snap, units, executed, reply, ledger, answer>>

(* Mutant of Timeout: the last error is not raised. *)
TimeoutWithoutEnd(r) ==
    /\ Lossy
    /\ pc[r] = "calling"
    /\ attempt[r] < MaxAttempts
    /\ attempt' = [attempt EXCEPT ![r] = @ + 1]
    /\ wire' = wire \cup {<<r, attempt[r] + 1>>}
    /\ UNCHANGED <<payments, pc, req, snap, units, executed, reply, ledger, answer>>

(* Mutant of Timeout: the last fault is taken for an answer. *)
TimeoutTakenAsDone(r) ==
    /\ Lossy
    /\ pc[r] = "calling"
    /\ \/ /\ attempt[r] < MaxAttempts
          /\ attempt' = [attempt EXCEPT ![r] = @ + 1]
          /\ wire' = wire \cup {<<r, attempt[r] + 1>>}
          /\ UNCHANGED pc
       \/ /\ attempt[r] = MaxAttempts
          /\ pc' = [pc EXCEPT ![r] = "replied"]
          /\ UNCHANGED <<attempt, wire>>
    /\ UNCHANGED <<payments, req, snap, units, executed, reply, ledger, answer>>

(* A transport fault of the awaited call: guarded raises                    *)
(* ProviderUnavailableError and retry_async calls again, or gives up. The   *)
(* abandoned call may still be on its way.                                  *)
Timeout(r) ==
    /\ Lossy
    /\ pc[r] = "calling"
    /\ \/ /\ attempt[r] < MaxAttempts
          /\ attempt' = [attempt EXCEPT ![r] = @ + 1]
          /\ wire' = wire \cup {<<r, attempt[r] + 1>>}
          /\ UNCHANGED pc
       \/ /\ attempt[r] = MaxAttempts
          /\ Fail(r)
          /\ UNCHANGED <<attempt, wire>>
    /\ UNCHANGED <<payments, req, snap, units, executed, reply, ledger, answer>>

(* The process dies, the circuit is open, the provider is not configured,   *)
(* the card is declined with a 4xx, the answer is not understood or the     *)
(* database fails: get_session rolls back, and what the provider did stays  *)
(* done.                                                                    *)
Abort(r) ==
    /\ pc[r] \in {"accepted", "calling", "replied"}
    /\ Fail(r)
    /\ req' = [req EXCEPT ![r] = IF pc[r] = "accepted" THEN NoRequest(r) ELSE @]
    /\ UNCHANGED <<payments, snap, units, attempt, wire, executed, reply,
                   ledger, answer>>

-----------------------------------------------------------------------------
(* The rest of the services and the commit of get_session *)

(* Mutant of KeyFree: no unique constraint on idempotency keys. *)
KeyUnconstrained(r) == TRUE

(* The unique constraints (owner, endpoint, key) and (provider, reference). *)
KeyFree(r) == StoredBy(req[r]) = {}
RefFree(ref) == \A p \in Requests : payments[p].ref # ref

(* Row p after the UPDATE of the session of r, and the response to r: one   *)
(* step here, although newer releases of FastAPI send the response first.   *)
Write(r, row) ==
    /\ payments' = [payments EXCEPT ![req[r].payment] = row]
    /\ pc' = [pc EXCEPT ![r] = "committed"]
    /\ UNCHANGED <<req, snap, units, attempt, wire, executed, reply, ledger, answer>>

(* _STATUS_MAP: Stripe's processing, requires_action... are not final. *)
UnifiedStatus(s) == IF s = "pending" THEN "requires_confirmation" ELSE s

(* Mutant of CreateLegal: the transition is not asserted. *)
CreateUnchecked(r) == reply[r].status # "none"

CreateLegal(r) == CanTransition(snap[r].status, UnifiedStatus(reply[r].status))

(* Mutant of CommitCreate: tables without unique constraints. *)
CommitCreateUnconstrained(r) ==
    /\ pc[r] = "replied"
    /\ req[r].op = "create"
    /\ CreateLegal(r)
    /\ Write(r, [snap[r] EXCEPT
                   !.status = UnifiedStatus(reply[r].status),
                   !.ref = reply[r].ref,
                   !.captured = IF reply[r].status = "captured" THEN units[r] ELSE 0])

CommitCreate(r) ==
    /\ pc[r] = "replied"
    /\ req[r].op = "create"
    /\ CreateLegal(r)
    /\ KeyFree(r)
    /\ RefFree(reply[r].ref)
    /\ Write(r, [snap[r] EXCEPT
                   !.status = UnifiedStatus(reply[r].status),
                   !.ref = reply[r].ref,
                   !.captured = IF reply[r].status = "captured" THEN units[r] ELSE 0])

(* Mutant of CommitCapture: a partial capture is booked as a full one. *)
CommitFullCapture(r) ==
    /\ pc[r] = "replied"
    /\ req[r].op = "capture"
    /\ CanTransition(snap[r].status, "captured")
    /\ Write(r, [payments[req[r].payment] EXCEPT !.status = "captured",
                                                 !.captured = snap[r].amount])

CommitCapture(r) ==
    /\ pc[r] = "replied"
    /\ req[r].op = "capture"
    /\ CanTransition(snap[r].status, "captured")
    /\ Write(r, [payments[req[r].payment] EXCEPT !.status = "captured",
                                                 !.captured = units[r]])

CommitCancel(r) ==
    /\ pc[r] = "replied"
    /\ req[r].op = "cancel"
    /\ Write(r, [payments[req[r].payment] EXCEPT !.status = "canceled"])

(* Mutant of RefundTarget: refunded one unit too early. *)
RefundTargetEarly(r) ==
    IF snap[r].refunded + units[r] + 1 >= snap[r].captured THEN "refunded"
                                                          ELSE "partially_refunded"

(* amount_refunded += and the target status come from the row Start read;   *)
(* a status equal to the one read is not part of the UPDATE.                *)
RefundTarget(r) ==
    IF snap[r].refunded + units[r] >= snap[r].captured THEN "refunded"
                                                      ELSE "partially_refunded"

CommitRefund(r) ==
    /\ pc[r] = "replied"
    /\ req[r].op = "refund"
    /\ CanTransition(snap[r].status, RefundTarget(r))
    /\ KeyFree(r)
    /\ Write(r, [payments[req[r].payment] EXCEPT
                   !.refunded = snap[r].refunded + units[r],
                   !.status = IF RefundTarget(r) = snap[r].status THEN @
                                                        ELSE RefundTarget(r)])

(* A create whose verdict is not final, or a unique constraint that another *)
(* request was first to satisfy: an error and a rollback.                   *)
CommitFails(r) ==
    /\ pc[r] = "replied"
    /\ \/ req[r].op = "create" /\ ~CreateLegal(r)
       \/ req[r].op = "create" /\ ~RefFree(reply[r].ref)
       \/ req[r].op \in {"create", "refund"} /\ ~KeyFree(r)
    /\ Fail(r)
    /\ UNCHANGED <<payments, req, snap, units, attempt, wire, executed, reply,
                   ledger, answer>>

-----------------------------------------------------------------------------
Start(r) == StartCreate(r) \/ StartCapture(r) \/ StartCancel(r) \/ StartRefund(r)

Commit(r) == \/ CommitCreate(r) \/ CommitCapture(r) \/ CommitCancel(r)
             \/ CommitRefund(r) \/ CommitFails(r)

ProviderStep(c) == \/ ProviderCreate(c) \/ ProviderReplay(c)
                   \/ ProviderCapture(c) \/ ProviderCancel(c)
                   \/ ProviderRefund(c) \/ ProviderRefuse(c)

Next ==
    \/ \E r \in Requests : \/ Receive(r) \/ Start(r) \/ Reject(r) \/ Timeout(r)
                            \/ Abort(r) \/ Commit(r)
    \/ \E c \in Calls : ProviderStep(c)

Spec == Init /\ [][Next]_vars

(***************************************************************************)
(* Fairness. The event loop keeps running a request that can go on, and    *)
(* httpx bounds every call of the provider by a timeout, so a request      *)
(* waiting for Stripe gets an answer or a transport fault. Nothing forces  *)
(* a client to send, Stripe to execute a call, or a fault to happen. The   *)
(* mock adapter runs inside the process and does execute.                  *)
(***************************************************************************)
Fairness ==
    /\ \A r \in Requests : WF_vars(Start(r) \/ Reject(r) \/ Timeout(r) \/ Commit(r))
    /\ Provider = "mock" => \A c \in Calls : WF_vars(ProviderStep(c))

FairSpec == Spec /\ Fairness

-----------------------------------------------------------------------------
(* Properties *)

(* Every variable of the engine has its type; no call exceeds MaxAttempts. *)
TypeOK ==
    /\ payments \in [Requests -> Row]
    /\ pc \in [Requests -> PCs]
    /\ req \in [Requests -> Request]
    /\ snap \in [Requests -> Row]
    /\ units \in [Requests -> Nat]
    /\ attempt \in [Requests -> 0 .. MaxAttempts]
    /\ wire \subseteq Calls
    /\ executed \subseteq Calls
    /\ reply \in [Requests -> Reply]
    /\ ledger \in [Refs -> Charge]
    /\ answer \in [Requests -> Requests]

(* A row of table refunds belongs to each committed refund. *)
RefundRows(p) ==
    {r \in Requests : pc[r] = "committed" /\ req[r].op = "refund" /\ req[r].payment = p}

(* The sum of their amounts, counted one minor unit after the other. *)
UnitsOf(rows) == UNION {{r} \X (1 .. units[r]) : r \in rows}
Total(rows) == Cardinality(UnitsOf(rows))

(* However requests interleave, a committed status changes only along       *)
(* _ALLOWED, and a row first appears with a status that a                   *)
(* requires_confirmation payment may move to.                               *)
LegalTransitions ==
    [][\A p \in Requests :
          LET old == payments[p].status
              new == payments'[p].status
          IN  old # new =>
                CanTransition(IF old = "absent" THEN "requires_confirmation" ELSE old,
                              new)]_vars

(* The refunds recorded against a payment never add up to more than was     *)
(* captured: the hard invariant of the refund service.                      *)
RefundsWithinCapture ==
    \A p \in Requests : Total(RefundRows(p)) =< payments[p].captured

(* The books never claim money the provider did not move: what a row says   *)
(* was captured is what the provider holds, and what it says was refunded   *)
(* the provider did refund.                                                 *)
BooksBackedByProvider ==
    \A p \in Requests :
        LET row == payments[p]
        IN  row.captured > 0 =>
                /\ row.captured = ledger[row.ref].captured
                /\ row.refunded =< ledger[row.ref].refunded

(* A final status is the provider's final status: a canceled payment is     *)
(* voided there, a refunded one fully refunded, one in the captured states  *)
(* still holds funds to refund or has none left.                            *)
FinalStatusIsTrue ==
    \A p \in Requests :
        LET row == payments[p]
            charge == ledger[row.ref]
        IN  /\ row.status = "canceled" => charge.status = "canceled"
            /\ row.status = "refunded" => /\ charge.refunded = charge.captured
                                          /\ row.refunded = row.captured
            /\ row.status \in RefundableStates => charge.status = "captured"

(* No charge is booked on two payments, keyed replays of Stripe included. *)
ChargeBookedOnce ==
    \A p, q \in Requests :
        payments[p].ref # NoRef /\ payments[p].ref = payments[q].ref => p = q

(* All clients that send one key to one endpoint and get a success get the  *)
(* response of one and the same committed request, for the body they sent.  *)
KeyedAnswersAgree ==
    \A r, s \in Requests :
        /\ pc[r] \in {"committed", "replayed"}
        /\ pc[s] \in {"committed", "replayed"}
        /\ req[r].key # NoKey
        /\ req[r].key = req[s].key
        /\ req[r].op = req[s].op
        => /\ answer[r] = answer[s]
           /\ pc[answer[r]] = "committed"
           /\ Body(req[r]) = Body(req[s])

(* One Idempotency-Key charges the card at most once, whatever is retried,  *)
(* timed out or rolled back.                                                *)
KeyedChargeOnce ==
    \A c, d \in Refs :
        /\ ledger[c].status # "none"
        /\ ledger[d].status # "none"
        /\ req[c[1]].key # NoKey
        /\ req[c[1]].key = req[d[1]].key
        => c = d

(* A client that repeats a keyed create until it succeeds has every charge  *)
(* made under the key in the books, those of the attempts that were rolled  *)
(* back or lost their answer included.                                      *)
KeyedMoneyAccounted ==
    \A r \in Requests, c \in Refs :
        /\ pc[r] = "committed" /\ req[r].op = "create" /\ req[r].key # NoKey
        /\ ledger[c].status # "none" /\ req[c[1]].key = req[r].key
        => ~RefFree(c)

(* Every request that is accepted is answered: a success or an error. *)
EveryRequestEnds ==
    \A r \in Requests :
        pc[r] \in {"accepted", "calling", "replied"} ~> pc[r] \in {"committed", "failed"}

(* One Idempotency-Key refunds at most once at the provider. *)
KeyedRefundOnce ==
    \A c, d \in executed :
        /\ req[c[1]].op = "refund"
        /\ req[d[1]].op = "refund"
        /\ req[c[1]].key # NoKey
        /\ req[c[1]].key = req[d[1]].key
        => c = d
=============================================================================
