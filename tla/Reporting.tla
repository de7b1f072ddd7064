----------------------------- MODULE Reporting -----------------------------
(***************************************************************************)
(* The read side: the listing of an owner's payments and the statistics of *)
(* the administrators, while payments are created and change.              *)
(*                                                                         *)
(* Each answer is built from two statements of a session at READ COMMITTED *)
(* (the count and the page; the counts by status and the sum), so another  *)
(* commit may come between them. created_at is now() of the transaction    *)
(* that inserts, which is when it began, so a payment can become visible   *)
(* after payments with a later created_at. Stamps are taken to be          *)
(* distinct. Rows of other owners match no statement of a listing and are  *)
(* left out; readers do not affect each other, so there is one.            *)
(***************************************************************************)
EXTENDS Money, PaymentStates

CONSTANTS
    Payments,       \* payment ids
    Amounts,        \* amounts in minor units, positive
    Currencies,     \* the currencies in use
    Limit,          \* the page size a client asks for
    MaxTime         \* bound: transactions begun and updates made

ASSUME PaymentsAssumption == IsFiniteSet(Payments)
ASSUME AmountsAssumption == Amounts \subseteq Nat \ {0}
ASSUME CurrenciesAssumption == \A c \in Currencies : IsSupportedCurrency(c)
ASSUME LimitAssumption == Limit \in 1 .. 200
ASSUME TimeAssumption == MaxTime \in Nat

VARIABLES
    clock,      \* the last time stamp given
    rows,       \* table payments, with the rows of open transactions
    walk,       \* a client reading the list page by page, and its request
    page,       \* the last page it was given: pairs of a position and an item
    stats       \* a request for the statistics, and its answer

vars == <<clock, rows, walk, page, stats>>

HeldStatuses == {"captured", "partially_refunded", "refunded"}
AnyStatus == "any"  \* no status filter

NoRow == [visible |-> FALSE, created |-> 0, updated |-> 0, status |-> "none",
          amount |-> 0, captured |-> 0, currency |-> "USD"]

Init ==
    /\ clock = 0
    /\ rows = [p \in Payments |-> NoRow]
    /\ walk = [pc |-> "idle", filter |-> AnyStatus, offset |-> 0, total |-> 0,
               start |-> {}, seen |-> {}]
    /\ page = {}
    /\ stats = [pc |-> "idle", held |-> 0, captured |-> 0]

-----------------------------------------------------------------------------
(* The engine, as far as the rows show it *)

Stamp == clock < MaxTime /\ clock' = clock + 1

(* A create begins its transaction and inserts. *)
Insert(p) ==
    /\ rows[p] = NoRow
    /\ Stamp
    /\ \E n \in Amounts, c \in Currencies :
          rows' = [rows EXCEPT ![p] = [NoRow EXCEPT !.created = clock + 1,
                                                    !.updated = clock + 1,
                                                    !.status = "authorized",
                                                    !.amount = n,
                                                    !.currency = c]]
    /\ UNCHANGED <<walk, page, stats>>

(* It commits the payment with the provider's verdict. *)
Appear(p) ==
    /\ rows[p] # NoRow
    /\ ~rows[p].visible
    /\ \E s \in {"authorized", "captured", "failed"} :
          rows' = [rows EXCEPT ![p].visible = TRUE,
                               ![p].status = s,
                               ![p].captured = IF s = "captured" THEN rows[p].amount ELSE 0]
    /\ UNCHANGED <<clock, walk, page, stats>>

(* The statuses that capture, cancel and refund write. *)
Operated == {"captured", "canceled", "partially_refunded", "refunded"}

(* A capture, a cancel or a refund; onupdate moves updated_at. *)
Update(p, s) ==
    /\ rows[p].visible
    /\ CanTransition(rows[p].status, s)
    /\ Stamp
    /\ \E n \in Amounts :
          /\ n =< rows[p].amount
          /\ rows' = [rows EXCEPT ![p].status = s,
                                  ![p].updated = clock + 1,
                                  ![p].captured = IF s = "captured" THEN n ELSE @]
    /\ UNCHANGED <<walk, page, stats>>

-----------------------------------------------------------------------------
(* The listing *)

Visible == {p \in Payments : rows[p].visible}
Matching == {p \in Visible : walk.filter \in {AnyStatus, rows[p].status}}

(* Mutant of Before: the list shows what changed last first. *)
ChangedAfter(p, q) == rows[p].updated > rows[q].updated

(* ORDER BY created_at DESC *)
Before(p, q) == rows[p].created > rows[q].created

(* Where the order puts p among the rows that match, from 0. *)
Position(p) == Cardinality({q \in Matching : Before(q, p)})

MoneyOut(n, code) == [minor_units |-> n, currency |-> code,
                      display |-> ToDecimal(MoneyOf(n, code))]

PaymentResponse(p) == [id |-> p, status |-> rows[p].status,
                       amount |-> MoneyOut(rows[p].amount, rows[p].currency),
                       amount_captured |-> MoneyOut(rows[p].captured, rows[p].currency)]

(* A client begins to read the list from offset 0. *)
BeginWalk(f) ==
    /\ walk.pc = "idle" /\ stats.pc = "idle"
    /\ walk' = [walk EXCEPT !.pc = "counting", !.filter = f,
                            !.start = {p \in Visible : f \in {AnyStatus, rows[p].status}}]
    /\ UNCHANGED <<clock, rows, page, stats>>

CountRows ==
    /\ walk.pc = "counting"
    /\ walk' = [walk EXCEPT !.pc = "paging", !.total = Cardinality(Matching)]
    /\ UNCHANGED <<clock, rows, page, stats>>

(* LIMIT and OFFSET; the client goes on while it gets full pages. *)
ReadPage ==
    /\ walk.pc = "paging"
    /\ LET items == {p \in Matching :
                        Position(p) \in walk.offset .. walk.offset + Limit - 1}
       IN  /\ page' = {<<Position(p), PaymentResponse(p)>> : p \in items}
           /\ walk' = [walk EXCEPT
                          !.pc = IF Cardinality(items) < Limit THEN "done" ELSE "counting",
                          !.offset = @ + Limit,
                          !.seen = @ \cup items]
    /\ UNCHANGED <<clock, rows, stats>>

-----------------------------------------------------------------------------
(* The statistics *)

(* The captured units of a set of payments, one by one. *)
UnitsIn(S) == UNION {{p} \X (1 .. rows[p].captured) : p \in S}

(* Mutant of CapturedTotal: only payments that are still captured count. *)
CapturedNow == Cardinality(UnitsIn({p \in Visible : rows[p].status = "captured"}))

(* SUM(amount_captured), whatever the currency. *)
CapturedTotal == Cardinality(UnitsIn(Visible))

(* COUNT by status, of which the answer's captured, partially_refunded and  *)
(* refunded counts are kept.                                                *)
CountByStatus ==
    /\ stats.pc = "idle" /\ walk.pc = "idle"
    /\ stats' = [stats EXCEPT !.pc = "summing",
                    !.held = Cardinality({p \in Visible : rows[p].status \in HeldStatuses})]
    /\ UNCHANGED <<clock, rows, walk, page>>

SumCaptured ==
    /\ stats.pc = "summing"
    /\ stats' = [stats EXCEPT !.pc = "done", !.captured = CapturedTotal]
    /\ UNCHANGED <<clock, rows, walk, page>>

Next ==
    \/ \E p \in Payments : Insert(p) \/ Appear(p) \/ \E s \in Operated : Update(p, s)
    \/ \E f \in {AnyStatus, "authorized"} : BeginWalk(f)
    \/ CountRows \/ ReadPage \/ CountByStatus \/ SumCaptured

Spec == Init /\ [][Next]_vars

-----------------------------------------------------------------------------
(* Properties *)

(* A client that reads the whole list without a filter, page by page, sees  *)
(* every payment that was there when it began, although payments are        *)
(* created, appear late and change between its requests, and between the    *)
(* two statements of one.                                                   *)
WalkMissesNothing ==
    walk.pc = "done" /\ walk.filter = AnyStatus => walk.start \subseteq walk.seen

(* The two halves of one statistics answer fit together: the sum covers at  *)
(* least one unit of each payment that the counts call captured, partially  *)
(* refunded or refunded.                                                    *)
StatsCoverCaptured == stats.pc = "done" => stats.captured >= stats.held

(* The decimal a client is shown stands for the minor units of the payment: *)
(* read back with from_decimal it is the same amount, in currencies with    *)
(* and without decimal places.                                              *)
DisplayReadsBack ==
    \A item \in page :
        \A m \in {item[2].amount, item[2].amount_captured} :
            FromDecimal(m.display, m.currency).minor_units = m.minor_units

(* A decimal with one more place than the currency has, above or below an   *)
(* amount shown, is rounded by from_decimal to the nearest minor unit, and  *)
(* half way between two to the even one.                                    *)
RoundsHalfEven ==
    \A item \in page, k \in {-5, -4, 0, 4, 5, 6} :
        \A m \in {item[2].amount, item[2].amount_captured} :
            LET n == 10 * m.display.units + k
            IN  FromDecimal([units |-> n, places |-> m.display.places + 1],
                            m.currency).minor_units = NearestEven(n, 10)
=============================================================================
