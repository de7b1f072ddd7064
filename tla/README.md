# A TLA+ verification of the Universal Payment Gateway Integration (UPGI)

UPGI is a FastAPI service that puts one API in front of several payment
providers. These modules model the parts of it that carry state between
requests, check them with TLC on small instances and prove the central results
with TLAPS for every instance. File names below are relative to `app/` unless
they start with `docs/`, `scripts/` or `alembic/`.

## 1. Inventory

| Component | State it keeps | Operations | Interacts with |
|---|---|---|---|
| Payment service (`services/payments.py`, `api/v1/payments.py`) | rows of `payments` | create, capture, cancel, queries | gateway manager, state machine, idempotency, unit of work |
| Refund service (`services/refunds.py`, `api/v1/refunds.py`) | rows of `refunds`, `amount_refunded` of a payment | create refund | the same |
| Idempotency (`services/idempotency.py`) | rows of `idempotency_keys` | lookup, store | create and refund endpoints, Stripe (for creates) |
| State machine (`domain/state_machine.py`) | none | `can_transition`, `assert_transition` | payment and refund services |
| Gateway manager and retry (`services/gateway_manager.py`, `core/resilience.py`) | one breaker per provider | `get_provider`, `execute` | adapters, breaker |
| Circuit breaker (`core/resilience.py`) | state, failure count, opening time | `_before_call`, `_on_success`, `_on_failure`, `call` | gateway manager |
| Adapters (`providers/stripe.py`, `providers/mock.py`) | none (Stripe keeps the charges) | create, capture, cancel, refund, verify webhook | httpx, signatures |
| Webhook engine (`services/webhooks.py`, `api/v1/webhooks.py`) | rows of `webhook_events`, audit entries | handle | adapters, unit of work |
| Signatures (`security/signatures.py`) | none | sign, verify | webhook engine |
| Rate limiter (`core/rate_limit.py`, `middleware/rate_limit.py`) | one bucket per identity | hit | every request |
| Unit of work (`api/deps.py`, `db/session.py`) | the session of a request | commit, rollback | every service |
| Accounts and roles (`services/auth.py`, `security/tokens.py`, `security/api_keys.py`, `domain/rbac.py`, `scripts/seed.py`) | `users`, `api_keys` | register, seed, log in, refresh, issue and revoke keys, `require_scope` | every authenticated request |
| Provider credentials (`security/crypto.py`, `providers/registry.py`, `services/gateway_manager.py`) | rows of `provider_configs`, a secret box per process | encrypt, decrypt, `get_provider` | configuration, adapters |
| Configuration and startup (`core/config.py`, `main.py`) | the settings of a process | `assert_production_ready`, `create_app`, `lifespan` | everything |
| Listing and statistics (`repositories/payments.py`, `api/v1/admin.py`) | none of their own | list payments, payment statistics | rows of `payments`, money |
| Money (`core/money.py`) | none | conversion from and to decimals | schemas, services |
| SSRF guard, password hashing | none | pure functions | services |
| Audit, health, metrics, logging, headers, CLI | log rows | writes and read-only queries | all |

What makes the system hard:

* A handler reads a row, awaits the provider for seconds, and writes the row
  from what it read. There is no row lock and no version column, so any number
  of other handlers may commit in between.
* The provider is remote. A call may be executed although its answer is lost,
  it is repeated after a timeout while the first one is still under way, and a
  rollback of the database does not undo it.
* Idempotency is a lookup at the start and an INSERT at the end, with the whole
  handler in between.
* The breaker books outcomes of calls that were sent in another of its states,
  and its retry loop runs inside it.
* Webhooks are delivered more than once, late, out of order and concurrently,
  and the answer to one may leave before its transaction is committed.
* Addresses are compared in lower case and stored by two writers, one of which
  does not lower them.
* A request is authenticated against rows that another request may revoke or
  deactivate before it commits.
* The limiter mixes a fractional clock with whole seconds.
* Provider secrets outlive the processes that open them: rows are sealed,
  copied and disabled while processes start with other keys.
* A list is read by limit and offset, and statistics by two statements, while
  the rows change.

What makes each part correct: committed statuses follow the state machine; the
books never claim money the provider did not move; refunds stay within the
capture; one key gives one charge and one answer; every request ends. The
breaker is closed exactly while few calls failed, stops new calls while it
cools off, ignores declines and recovers. An event is processed once, an
acknowledged event is stored or its loss is accounted for, and a provider that
signs with the secret its header leads to and keeps delivering gets its
acknowledgement. The limiter bounds bursts, refuses only what exceeds the
limit, and tells clients a time at which they are served. The
credentials for an address are all of one account; a revoked key stays revoked and, like a deactivated account, admits no
further request; a change of role takes effect at once; and access by token
ends with the access token's lifetime unless it is refreshed. A tenant's
provider secret serves that tenant only, the published default key never serves
production, and a withdrawn secret is not taken up again. A list read page by
page misses no payment, the halves of a statistics answer fit together, and
amounts are displayed and rounded exactly.

## 2. Modules

| Module | What it is |
|---|---|
| `PaymentStates` | the statuses and the transition relation `Allowed` |
| `PaymentEngine` | create, capture, cancel, refund, idempotency, retry, database and provider composed; its properties |
| `PaymentEngineInvariant` | the inductive invariant `IInv`, the cover of refunds `CoverInv` and the answer invariant `AnswerInv` |
| `PaymentLedger` | the abstract specification: a payment changes in single steps |
| `LedgerRefinement`, `LedgerRefinementProofs` | the refinement mapping, and the proof that the engine over Stripe implements the ledger |
| `MCPaymentEngine` | the engine and the refinement with symmetry, for TLC |
| `PaymentEngineProofs` | types; `IInv` is inductive over Stripe and what follows from it; keyed answers and keyed charges; refunds against captures |
| `CircuitBreaker`, `CircuitBreakerProofs` | the breaker around the retry loop, many callers |
| `Webhooks`, `MCWebhooks`, `WebhooksProofs` | the webhook endpoint with concurrent handlers |
| `RateLimiter`, `RateLimiterProofs` | the fixed-window limiter |
| `Accounts`, `MCAccounts`, `AccountsProofs` | registration, tokens, API keys, roles and scopes |
| `Credentials`, `MCCredentials`, `CredentialsProofs` | provider secrets at rest, the secret box and the processes that use it |
| `Money` | minor units, decimals and rounding, as operators |
| `Reporting`, `MCReporting`, `ReportingProofs` | the listing and the statistics while payments change; the proofs include those about `Money` |

### How the engine corresponds to the code

A request is a coroutine and is cut where it can be suspended.

| Code | Action |
|---|---|
| schema validation, `IdempotencyService.lookup` | `Receive`: accepted, replayed with the stored response, or a conflict |
| the service up to `GatewayManager.execute` | `StartCreate`, `StartCapture`, `StartCancel`, `StartRefund`; a failed check is `Reject` |
| the provider executing a call | `ProviderCreate`, `ProviderReplay`, `ProviderCapture`, `ProviderCancel`, `ProviderRefund`, `ProviderRefuse` |
| `httpx.TransportError` in `guarded`, the loop of `retry_async` | `Timeout` |
| any other failure and a crash | `Abort` |
| the rest of the service, `IdempotencyService.store`, the commit of `get_session` | `CommitCreate`, `CommitCapture`, `CommitCancel`, `CommitRefund`; an assertion or a unique constraint that fails is `CommitFails` |

`payments` holds the committed rows, `snap[r]` the copy in the session of
request `r`, `wire` the calls that were sent and not yet executed (a call that
timed out stays there and may still be executed, or never), and `ledger` the
provider's own record. `executed` and `answer` are history: which calls the
provider carried out and whose response a client was given.

Decisions worth knowing:

* PostgreSQL runs at READ COMMITTED and SQLAlchemy updates only the columns
  that changed. A commit therefore overwrites `status`, `amount_captured` or
  `amount_refunded` with values computed from the old copy and leaves the other
  columns to whoever wrote them. A refund that finds its target equal to the
  status it read leaves the status alone.
* `capture_payment` reads the row twice, once in the endpoint and once in the
  service. The second read returns the object that the session already holds,
  so there is one read.
* The commit and the response are one step. Their order is FastAPI's: releases
  before 0.118 run the code after the `yield` of `get_session` before the
  response is sent, later ones after it, and `pyproject.toml` asks for 0.115 or
  later. With the later ones a client may be told of a payment whose commit then
  fails; to the database and the provider that is the same as a rollback with
  the answer lost, which the model has. What the module does not show is that
  such a client was told of a success. `KeyedAnswersAgree` compares the answers
  of requests that committed or were replayed; the other properties do not
  speak of responses.
* Stripe is external and modelled from how the adapter uses it: it refuses to
  capture or cancel what is not authorized and to refund more than it captured,
  it repeats the first answer for a known Idempotency-Key with the same
  parameters and refuses other parameters. A verdict `pending` stands for the
  statuses `processing`, `requires_action` and `requires_confirmation`; such a
  charge does not settle later in the model, because nothing in the code would
  learn of it.
* The mock adapter keeps no state, accepts everything and answers inside the
  call; its `ledger` only counts what it accepted.
* One owner and one provider: payments, keys and references are all scoped to
  an owner or a provider, and handlers of different owners share no row.
* `create_app` hands the adapters an `httpx` client without a base URL, which
  `StripeProvider._client` prefers to its own. The model assumes a client that
  reaches Stripe.

### The ledger

`PaymentLedger` is what a merchant is promised. Each payment has an entry
(status, amount, captured) and a sum given back. It is booked, captured, voided,
refunded, and shown as refunded, in single steps that look at the entry as it is
at that moment: money goes back only out of what the entry shows as captured,
and the entry says `refunded` only when all of it went back. There are no
requests, copies, calls or answers in it. The refinement mapping takes the entry
from the committed row, and what was given back from the provider's record of
the charge that the row names.

Two things the ledger allows because the code does them. A refund shows later
than it happens, or never if its answer is lost. And a payment may stay
`partially_refunded` although all of it was given back, since two overlapping
refunds compute the total from the same copy.

### The other modules

`CircuitBreaker`: `_before_call`, `_on_success` and `_on_failure` each hold the
breaker's lock and are `BeforeCall`, `OnSuccess` and `OnFailure`; between them
the call is in flight. `sentTo` remembers the provider's condition when an
attempt was sent, so that its outcome can arrive after the provider has failed
or recovered. `failures` is counted up to the threshold and `age` up to the
cool-off, because the code compares them with nothing beyond.

`Webhooks`: a handler is `Receive` (the secret, the signature and the
timestamp), `Duplicate` or `NotFound` (the lookup), `Insert` or `InsertFails`
(the flush, where the unique constraint makes a second INSERT wait), `Commit`
and `Answer`. `Fails` is a crash or a database error.

* The secret is chosen by the sender's header `X-UPGI-Account`. `DigestMatches`
  is `get_provider` followed by the comparison of the digest: an account with an
  active row gives its own secret; without one (another account, or no header
  and hence a random uuid) the mock provider gives the published sandbox secret
  and any other provider an answer of 404. `provider_configs` is read before the
  signature is verified; as nothing is written until then, the read and the
  verification are one step, and a delivery that is refused takes none. The rows
  of `provider_configs` do not change in this module: changing them is the
  subject of `Credentials`.
* `Route` is how the endpoint was registered with the provider: the header and
  the secret of each event. The provider signs an event afresh each time it
  sends it; anything it has sent may arrive at any time and any number of times,
  and so may anything signed with the sandbox secret, by whomever and with
  whatever timestamp.
* `order` is the order of commit and response, which is FastAPI's: before
  release 0.118 the commit comes first, from then on the response does. It is
  fixed initially, like the provider, so that one run and one theorem cover
  both. With the response first, a handler that fails in between leaves an event
  that the provider will not send again and that is stored nowhere; `dropped`
  records it.

`RateLimiter`: `hit` has no suspension point and is one action, `Hit`. A second
has `PerSecond` ticks, because the window is compared with a fractional clock
and `Retry-After` is whole seconds. `served` and `retryAt` are history: the
requests let through, each by the tick and its number within the tick, and the
time a refused client was told.

`Accounts`: a request that writes rows is cut between its reads and its commit.
Registration is `RegisterCheck`, then `RegisterCommit` or, when the unique
constraint refuses it, `RegisterFails`. `Emails` are spellings, and an account is
named by the one that is stored. `Lower` and `Strip` are the conversions of
`str`, parameters of which only what lower-casing and stripping have in common
is assumed (idempotent, and the order does not matter); a run gives them as
functions. `register` looks up and stores the `Normalised` address,
`authenticate` looks it up, and `email_exists` lowers what it is given. Any other request is authenticated by
`WithToken` or `WithKey` and then creates a key (`CreateKey`), revokes one
(`FindKey`, `RevokeKey`) or does something of another module (`CommitUse`); all
three commit `last_used_at` of the key that authenticated it, from the copy
read at the start and that column only. `Login` and `Refresh` change no row and
are one step. A wrong password raises an exception after it has counted the
attempt, `get_session` rolls the count back, and so it takes no step here:
`failed_login_attempts` is always 0 in the database and the lockout branch of
`authenticate` is reached through `is_active` only. `Deactivate` stands for an
operator, since no endpoint clears `is_active`. `revoked` is both `is_active`
and `revoked_at` of a key, which are only written together. `seen` is history:
when an account last logged in or refreshed. Tokens are those the service
signed; each records the account, its type and its expiry. `require_scope` is
part of `WithToken` and `WithKey`: it looks at the role in the row that was just
read. The scopes that an access token carries are read by nobody and are left
out. `SetRole` stands for an operator. `scripts/seed.py` checks and inserts like
a registration, with another role (`SeedCheck`, `SeedCommit`), but stores the
address as it was given; if a merchant registered the address first, it reports
that the administrator exists and leaves the account as it is.

`Credentials`: `StartProcess` is `create_app` with `assert_production_ready`,
`StopProcess` the end of `lifespan` or a crash. `GetProvider` and `Fallback` are
the two ways out of `get_provider`; its errors (no row, two active rows, a token
that does not open) leave nothing behind and take no step. A token records the
key it was sealed with, the additional data and the secret; `Decrypts` is true
when the tag would verify. Nothing in the repository writes
`provider_configs`, so rows come from an operator, who seals a tenant's secret
for that tenant and may copy a row to any owner.

`Reporting`: `Insert` and `Appear` are the two ends of the transaction of a
create, since `created_at` is the time a transaction began and the row is seen
when it ends. `Update` is a capture, cancel or refund. The client's walk is
`BeginWalk` and then `CountRows` and `ReadPage` per request; the statistics are
`CountByStatus` and `SumCaptured`. A page is the set of payments whose
`Position`, the number of matching rows ordered before it, lies between the
offset and the offset plus the limit; each item is paired with its position.
Distinct payments have distinct `created_at`;
with equal ones the query leaves their order open and a page may repeat one and
miss another.

`Money`: a decimal is a number of units and a number of places; `TenTo` lists
the powers of ten that the currencies need. `RoundHalfEven`
is `quantize` and is compared with `NearestEven`, which is stated by distance.

## 3. Runs

Every configuration but that of `Credentials` says `CHECK_DEADLOCK FALSE`:
requests are finite in number in the engine, and elsewhere the clock or the
callers may stop.

| Run | Instance | What it shows |
|---|---|---|
| `EngineStripe` | 4 requests, 1 payment of up to 3 units, Stripe | with three concurrent captures, cancels and refunds of one payment, `LegalTransitions`, `RefundsWithinCapture`, `BooksBackedByProvider`, `FinalStatusIsTrue`, the inductive invariant `IInv`, and the refinement `ImplementsLedger` |
| `EngineKeys` | 3 requests, 1 key, up to 3 payments, Stripe | `ChargeBookedOnce`, `KeyedAnswersAgree`: creates and refunds race under one key, Stripe replays |
| `EngineRetry` | 2 requests, 1 key, 2 attempts, Stripe, fairness | `KeyedChargeOnce`, `KeyedMoneyAccounted`, `EveryRequestEnds`: calls time out, are sent again, and the abandoned ones still arrive |
| `MockRefunds` | 3 requests, mock | violated: two refunds exceed the capture |
| `KeyedRefund` | 3 requests, 1 key, Stripe | violated: one key refunds twice |
| `Breaker` | 2 callers, threshold 2, cool-off 2, 2 attempts, fairness | `ClosedBelowThreshold`, `CoolingStopsCalls`, `HealthyNeverTrips`, `Recovers`, `CallsEnd` |
| `BreakerOutage` | the same | violated: an outage of HTTP errors does not trip the breaker |
| `RateLimiter` | 2 identities, limit 2, window 2 s of 2 ticks, 6 times | `BurstBound`, `RetryAfterHonest`, `RefusalsEarned` |
| `Webhooks` | 2 events, one to an account and one without a header, 2 handlers, Stripe and mock, both orders of commit and response, tolerance 1, 3 times, 2 faults, fairness | `ProcessedOnce`, `AckedIsStored`, `EventuallyAcked` |
| `Accounts` | 2 spellings of one address, 2 keys, 2 requests, 2 scopes, lifetimes 1 and 2, 2 times | `OneAccountPerAddress`, `IdleSessionEnds`, `RevokedForGood`, `AccessRunsOut`, `DemotionRunsOut` |
| `Credentials` | 2 tenants with 2 secrets each, 2 master keys, 2 rows, 2 processes, 2 requests | `SecretsStayWithOwner`, `ProductionNeverDefault`, `WithdrawnRunsOut` |
| `Reporting` | 3 payments in 2 currencies, pages of 1, 4 time stamps | `WalkMissesNothing`, `StatsCoverCaptured`, `DisplayReadsBack`, `RoundsHalfEven` |

Why the bounds are enough to be interesting. Four requests are one create and
three operations on its payment, the smallest number at which a third request
acts on a row that two others are about to overwrite; three units allow two
partial refunds and a remainder. Three requests with one key are two that race
and one that comes after. Two attempts are the least with an abandoned call.
Two callers and a threshold of two reach every state of the breaker with one
call late; the cool-off of two ticks distinguishes opened, cooling and elapsed.
Six times are one and a half windows, so every interval of a window's length
that straddles a boundary occurs, and three hits exceed the limit. Two
handlers race for an event while a second event passes through; with two faults
an acknowledgement is lost and the repeated delivery is then dropped between its
response and its commit. Two spellings are a registered account and one seeded
beside it; more addresses are left to the theorems, which hold for any number.
Two requests are the least with one that revokes a key the other is using, and the clock
outlasts the access token while the refresh token still lives; one scope that a
merchant has and one that only an administrator has are enough to lose either.
Two rows are a secret and its copy or its successor, two processes one for
production and one for development, and two keys the default and another. Three
payments on pages of one let a row that moves be passed over twice; four stamps
are three creations and a change. Bounds are the constants `MaxAmount`, `MaxPayments`, `MaxTime`, `MaxHits` and `MaxFaults`; the
other constants are settings of the program, or the identities in play.
Requests, tenants, rows and the like are interchangeable, so the runs without
liveness properties use symmetry; those with liveness do not.

### What the violated runs say

Each of them checks a sentence of the documentation against the code.

* `services/refunds.py` calls the bound on refunds a hard invariant. The check
  looks at a copy of the row made before the provider was awaited. Over Stripe
  the property holds nevertheless, because Stripe refuses the second operation.
  Over the mock adapter, which refuses nothing, it does not.
* `services/idempotency.py` promises at-most-once semantics. A create forwards
  its key to Stripe and has it (`KeyedChargeOnce`); a refund does not, and a
  retry after a lost answer refunds again while the balance lasts.
* `docs/ARCHITECTURE.md` says that the breaker opens after N consecutive
  infrastructure failures. A JSON answer with an HTTP status of 500 or 429 is
  reported as a `ProviderError`, which counts as a decline.

Other places where the code and its documents differ, met while modelling, each
visible in a module without a run of its own:

* `docs/ARCHITECTURE.md` says that illegal jumps are impossible because
  `assert_transition` is called before persisting. It is called on the old copy
  too: over the mock adapter a capture that overlaps a cancel turns `canceled`
  into `captured`. Over Stripe `LegalTransitions` is a theorem, and its proof
  shows that it is Stripe it rests on.
* `core/resilience.py` speaks of a single probe; `_before_call` rejects only in
  state open, so a half-open circuit lets every call through until an outcome
  is booked.
* `security/crypto.py` and `docs/SECURITY.md` announce key rotation with old
  data staying readable. `SecretBox` supports it; `create_app` builds a box of
  one key whose id is always `primary`, so after a change of the key no row that
  was sealed before opens.
* `core/config.py` says that an ephemeral key is generated per process when none
  is set; the default is a fixed key of zero bytes. What protects production is
  `assert_production_ready` (`ProductionNeverDefault`).
* The additional data of a token is the tenant's id alone, so a token moved to
  another provider of the same tenant still opens.
* The fallback secret of the mock adapter applies in production as well.
* `docs/API.md` gives the URL of the webhook endpoint and does not mention
  `X-UPGI-Account`. A Stripe delivery without that header is answered with 404
  each time and never acknowledged; `EventuallyAcked` therefore has the premise
  `WellRouted`.
* `db/models/webhook_event.py` says that a received webhook is persisted first.
  With FastAPI 0.118 or later it is acknowledged first: a crash or a failed
  commit after the response loses the event (`dropped`), and the provider does
  not send it again. `AckedIsStored` is what remains true, and says that this is
  the only way.
* `scripts/seed.py` calls itself idempotent. An administrator seeded under an
  address with capital letters gets a row that no lookup finds: it cannot log
  in, the address can be registered a second time, and seeding again fails on
  the unique constraint. `OneAccountPerAddress` is what remains true.
* Two active rows of one tenant and provider are not excluded by a constraint,
  and make `get_active` raise.
* A walk with a status filter may miss a payment: rows that leave the filter
  shift the rest towards the front. So may a client that stops at `meta.total`,
  which is counted before the page is read. `WalkMissesNothing` is about walks
  without a filter that stop at the first page that is not full.
* `captured_minor_units` adds up units of different currencies.
* A failed login is counted in the session that its exception rolls back, so
  the lockout threshold is never reached.

## 4. Fairness

* Engine: weak fairness of every request's own steps. The event loop runs a
  coroutine that is ready, and the `httpx` timeout turns a missing answer into
  a transport fault, which is why `Timeout` is part of the fair action. Nothing
  is assumed of clients, of Stripe or of crashes.
* Breaker: the clock runs, and a call in flight goes on for the same reason.
  Nobody is obliged to call. `Recovers` assumes in its premise that the
  provider stays up from some time on.
* Webhooks: handlers go on, the clock runs, and the provider delivers an event
  it has no acknowledgement for again and again. The last is the provider's
  contract, an assumption about the environment; it is strong fairness because
  a free handler must be found at the time of a delivery. It helps only where
  the header leads to the secret (`WellRouted`).

## 5. Proofs

The theorems hold for every set of requests, keys, callers, events, addresses,
handlers and identities, every amount, threshold, cool-off, tolerance, limit,
window, page size and number of attempts that satisfies the modules' `ASSUME`s
(a sentinel is no key or reference, the numbers are naturals, positive where the
code needs it, a page has the size the endpoint accepts, the currencies are
supported ones, and the table of payments is finite).

| Theorem | Statement | Assumes |
|---|---|---|
| `TypeCorrect` | `Spec => []TypeOK` | |
| `EngineInvariant` | `Spec => []IInv` | Stripe |
| `BooksBacked` | `Spec => []BooksBackedByProvider` | Stripe |
| `ChargeBooked` | `Spec => []ChargeBookedOnce` | Stripe |
| `EngineImplementsLedger` | `Spec => ImplementsLedger` | Stripe |
| `FinalStatusTrue` | `Spec => []FinalStatusIsTrue` | Stripe |
| `TransitionsLegal` | `Spec => LegalTransitions` | Stripe |
| `RefundsBounded` | `Spec => []RefundsWithinCapture` | Stripe |
| `AnswerInvariant`, `KeyedAnswers` | `Spec => []AnswerInv`, `Spec => []KeyedAnswersAgree` | |
| `KeyedCharge`, `KeyedMoney` | `Spec => []KeyedChargeOnce`, `Spec => []KeyedMoneyAccounted` | Stripe |
| `BreakerTypeCorrect`, `ClosedExactlyBelowThreshold` | `Spec => []TypeOK`, `Spec => []ClosedBelowThreshold` | |
| `CoolingIsQuiet`, `HealthyStaysClosed` | `Spec => CoolingStopsCalls`, `Spec => HealthyNeverTrips` | |
| `LimiterInvariant`, `LimiterTypeCorrect`, `BurstsBounded` | `Spec => []LimiterInv`, `Spec => []TypeOK`, `Spec => []BurstBound` | |
| `RetryAfterIsHonest`, `OnlyEarnedRefusals` | `Spec => []RetryAfterHonest`, `Spec => RefusalsEarned` | |
| `WebhookInvariant`, `EventProcessedOnce`, `AcknowledgedIsStored` | `Spec => []WebhookInv`, `Spec => []ProcessedOnce`, `Spec => []AckedIsStored` | |
| `AccountsInvariant`, `OneAccount`, `SessionsEnd` | `Spec => []AccountsInv`, `Spec => []OneAccountPerAddress`, `Spec => []IdleSessionEnds` | |
| `RevocationIsFinal`, `AccessIsFinite`, `DemotionIsFinal` | `Spec => RevokedForGood`, `Spec => AccessRunsOut`, `Spec => DemotionRunsOut` | |
| `CredentialsInvariant`, `SecretsStay`, `DefaultKeyUseless` | `Spec => []CredentialsInv`, `Spec => []SecretsStayWithOwner`, `Spec => []ProductionNeverDefault` | |
| `WithdrawalIsFinal` | `Spec => WithdrawnRunsOut` | |
| `ReportInvariant`, `WalksComplete`, `StatisticsFit` | `Spec => []ReportInv`, `Spec => []WalkMissesNothing`, `Spec => []StatsCoverCaptured` | |
| `DisplaysReadBack`, `RoundingIsHalfEven` | `Spec => []DisplayReadsBack`, `Spec => []RoundsHalfEven` | |

The engine's invariant. `BooksBackedByProvider` is not inductive: a request
about to commit will write values computed from an old copy, and nothing in the
row says that they are still right. What makes them right is what the provider
has already done for that request, so `IInv` relates each pending answer to
the charge behind it:

* `VoidOrCaptureInv`: a capture or cancel that has its answer is the only one,
  because the provider left `authorized` when it accepted it; its row is still
  `authorized`, because only such an answer can move it.
* `RefundInv`: the provider's refunded total covers the row's total plus any
  pending refund, any copy's total plus any other pending refund, and any two
  pending refunds on top of either's copy. The last part is what a lost update
  needs: when one refund commits, its stale total plus the other's units is
  still within what the provider refunded. If the total computed from a stale
  copy reaches the capture, the provider's total has reached it, so no other
  answered refund can be pending and the status `refunded` is not overwritten.
* `CreateInv`, `UnbookedInv`, `RowInv`: a pending create, its charge and every
  booked row agree, and no charge is booked twice.
* `ControlInv`, `LedgerInv`, `UpdateInv`: calls, attempts and copies.

The proof has one lemma per kind of step. `Quiet` disposes of the steps that
touch neither rows nor charges nor add a pending answer. `TransitionsLegal`
follows because the invariant gives the status of the row at the moment of the
write.

Refunds against captures. Sums over a set are written as the number of single
units in it (`UnitsOf`, and `UnitsIn` in `Reporting`), so that the theorems about
finite sets apply where a fold would need induction. `RefundsWithinCapture` does
not follow from `IInv`, which speaks of at most two refunds at a time. `CoverInv`
adds that the provider's total of a charge covers all refunds it has answered,
committed or about to be. Only `ProviderRefund` adds an answered refund, and it
raises the provider's total by as much (`RefundCovered`); a lost answer raises
the total alone, a commit moves a refund from answered to recorded, and a
rollback drops it. The provider's total stays within its capture and the row's
capture is the provider's. The sum in `amount_refunded`, which overlapping
refunds compute from one copy, plays no part in the argument.

`KeyedCharge` needs no invariant of rows: a call whose key has a charge makes
none, so two charges under one key cannot both be the second. `KeyedMoney` adds
`KeyedRefInv`: the charge that a keyed create was answered with, and later
commits to its row, was made under its own key. As there is only one such charge,
it is the one in the books.

The refinement uses `IInv` and one more invariant, `AmountInv` (no row shows
more captured than its amount, no capture that was sent asks for more).
`ProviderMoves` and `CommitMoves` take the engine's steps one by one and name
the ledger's step: only a refund at the provider gives money back, and then the
row already shows the capture; only a commit moves an entry, and `IInv` says
what the row still is at that moment, whatever the copy said. All other steps
leave every payment alone.

The breaker: `state = "closed"` exactly when `failures < Threshold` is
inductive with the types alone, since the only steps that write one of the two
write both. `CoolingIsQuiet` looks at the attempts each caller has left, as a set
of pairs of a caller and an attempt: while the circuit rejects, every step only
takes pairs away. `HealthyStaysClosed` holds because only a transport failure
or an unexpected error is counted, and an attempt sent to a provider that is up
ends in neither.

The limiter: `HistoryInv` says that what was let through lies in the past and
before the end of the present window, `CountInv` that the present window let
through exactly the smaller of its count and the limit, and that at most the
limit was let through in the window's length before it. The second half keeps
what is known of the earlier window after its bucket has been overwritten. An
interval of a window's length meets at most these two, which gives `BurstBound`;
a refusal finds the present window full, which gives `RefusalsEarned`. `RetryInv`
relates the time a client was told to the start of the window that refused it;
it rests on what a division rounded down says of the remaining time.

Webhooks: the invariant adds that at most one handler has an event
inserted and not committed, that then no row is committed, that a handler
answers before its commit only in the order that has it so, and that a handler
past its commit finds its row. An answer therefore comes from a handler that
has committed, from one that found the row, or from the one that holds the
event. When the last one commits, its event is stored, and when it fails,
`dropped` has it.

Accounts: `NormalInv` says that tokens, keys and the requests under way are of
accounts stored under a normalised address. A login finds no other, and whoever
refreshes a token or creates a key has a credential already. Two accounts with
credentials and the same normalised address are thus stored under the same
spelling. `TokenInv` says that an access token expires within `AccessTTL` of
the account's last login or refresh, which is what `WithToken` needs to keep
`IdleSessionEnds`; `SessionInv` ties a request to the owner of the key it uses
or revokes. `KeysStep`, an action formula, holds of every step: owners never
change, revocation is never undone and never precedes creation. For
`AccessRunsOut` the proof looks at the requests that a step adds and shows that
only `WithToken` and `WithKey` add one, with the account active and the key
unrevoked in the state they read. `DemotionRunsOut` is proved the same way, from
the role in the row that was read.

Credentials: `SealedInv` says that a token holds a secret of the tenant it was
sealed for, which copying a row does not change; `ReadyInv`, that no production
process runs on the default key; `AdapterInv`, that a request's process is
running and its key opened the token for the request's owner. The first gives
`SecretsStayWithOwner` with the third, the second `ProductionNeverDefault`.

Reporting: a walk is correct for two reasons. The position of a payment in the
unfiltered list only moves back, because no row is removed and `created_at` never
changes; so `WalkInv`, that whatever the walk began with is seen or still lies at
or behind the offset, survives every commit between two statements
(`ReadersUndisturbed`). And positions have no gaps (`NoGaps`: of the payments at
or behind a position take the first; the one just before it in the order is in
front of that position), so a page with a payment behind it is full (`FullPage`)
and a walk that stops has nothing left. For the statistics, a row that had money
captured keeps it, so what the counts found is among the rows with money when
the sum is taken, and a sum of positive amounts is at least their number
(`SumCovers`).

Money: `RoundsToNearest` shows that `RoundHalfEven` and `NearestEven` agree for
every integer and every positive divisor. The two theorems about displayed
amounts add that shifting the decimal point on both sides of the quotient changes
nothing, for the places of each currency in the table.

Only model-checked: what must eventually happen (`EveryRequestEnds`, `CallsEnd`,
`Recovers`, `EventuallyAcked`). These rest on fairness and on which actions are
enabled, which is out of the prover's reach. Every other property that a passing
run checks is stated by a theorem.

## 6. Not modelled

* Password hashing, the cipher and the HMAC: library functions.
* The SSRF guard: a pure check that no code calls.
* The arithmetic and comparisons of `Money`: used by no code outside the tests.
* Health, metrics, logging, security headers: no state that a property is
  about. The audit log outside the webhook engine: written in the transaction
  it belongs to and read by nobody.
* Error codes and envelopes: that an error ends the request with a rollback is
  modelled, what it looks like is not.
* The assembly of routers and middleware, CLI, demo script, migrations and
  deployment files: run once, or not part of the program. The tables and their
  unique constraints are part of the modules that use them.
* An adapter's 2xx answer whose status is not the one asked for, and
  `provider_max_retries` of 0, which the settings do not refuse.
* Asynchronous changes at the provider (an intent that settles later, a refund
  that fails later): the code stores such events and applies none of them.

## 7. Plan

Done: the engine over both providers with its invariants, proofs and the
refinement of the ledger; breaker; webhooks; rate limiter; accounts and roles;
credentials; listing, statistics and money. Every safety and action property of a
passing run is proved.

Worth adding if the code comes to apply webhook events to payments: charges that
settle and refunds that fail later, in the engine and in the ledger.
