-------------------------- MODULE ReportingProofs --------------------------
(***************************************************************************)
(* Theorems about the read side, for any number of payments, any page size *)
(* and any amounts: a walk through the list misses nothing, the two halves *)
(* of the statistics fit together, and what a client is shown reads back.  *)
(*                                                                         *)
(* The walk rests on two facts. The position of a payment in the list only *)
(* moves back, because rows are never removed and created_at never         *)
(* changes; so a payment that is not yet seen stays behind the offset.     *)
(* And positions have no gaps, so a page that is not full is the last one. *)
(***************************************************************************)
EXTENDS Reporting, FiniteSetTheorems, WellFoundedInduction, TLAPS

USE PaymentsAssumption, AmountsAssumption, CurrenciesAssumption, LimitAssumption,
    TimeAssumption

-----------------------------------------------------------------------------
(* The inductive invariant *)

Codes == DOMAIN CurrencyExponents
Statuses == PaymentStatus \cup {"none"}

PaymentRow == [visible : BOOLEAN, created : Nat, updated : Nat, status : Statuses,
               amount : Nat, captured : Nat, currency : Codes]

WalkRecord == [pc : {"idle", "counting", "paging", "done"},
               filter : Statuses \cup {AnyStatus}, offset : Nat, total : Nat,
               start : SUBSET Payments, seen : SUBSET Payments]

StatsRecord == [pc : {"idle", "summing", "done"}, held : Nat, captured : Nat]

(* Money as a response shows it. *)
Shown == {MoneyOut(n, code) : n \in Nat, code \in Codes}

TypeInv ==
    /\ clock \in Nat
    /\ rows \in [Payments -> PaymentRow]
    /\ walk \in WalkRecord
    /\ stats \in StatsRecord
    /\ \A item \in page : item[2].amount \in Shown /\ item[2].amount_captured \in Shown

(* Stamps are given once, and every row has one and a positive amount. *)
StampInv ==
    /\ \A p \in Payments :
          /\ rows[p].created =< clock
          /\ rows[p] = NoRow \/ (rows[p].created > 0 /\ rows[p].amount > 0)
    /\ \A p, q \in Payments :
          rows[p].created > 0 /\ rows[p].created = rows[q].created => p = q

(* A status that says money was captured has an amount behind it. *)
HeldInv ==
    \A p \in Visible : rows[p].status \in HeldStatuses => rows[p].captured > 0

Paid == {p \in Visible : rows[p].captured > 0}

(* What the counts found is still there when the sum is taken. *)
StatsInv ==
    /\ stats.pc = "summing" => stats.held =< Cardinality(Paid)
    /\ stats.pc = "done" => stats.captured >= stats.held

(* What an unfiltered walk began with is seen, or still lies ahead of it. *)
WalkInv ==
    /\ walk.pc = "idle" => walk.offset = 0
    /\ walk.pc # "idle" /\ walk.filter = AnyStatus =>
          \A p \in walk.start :
              /\ p \in Visible
              /\ \/ p \in walk.seen
                 \/ walk.pc # "done" /\ Position(p) >= walk.offset

ReportInv == TypeInv /\ StampInv /\ HeldInv /\ StatsInv /\ WalkInv

-----------------------------------------------------------------------------
(* Counting *)

(* A set of natural numbers that is not empty has a least element. *)
LEMMA LeastNumber ==
  ASSUME NEW T \in SUBSET Nat, T # {}
  PROVE  \E x \in T : \A y \in T : x =< y
<1> DEFINE R == OpToRel(<, Nat)
<1>1. R = {ss \in Nat \X Nat : ss[1] < ss[2]}
  BY DEF OpToRel
<1>2. IsWellFoundedOn(R, Nat)
  BY NatLessThanWellFounded, Zenon
<1> HIDE DEF R
<1>3. PICK x \in T : \A y \in T : <<y, x>> \notin R
  BY <1>2, WFMin
<1>4. \A y \in T : ~(y < x)
  BY <1>1, <1>3
<1> QED
  BY <1>4

(* The rows that match, and any part of them, are finitely many. *)
LEMMA FiniteRows ==
  ASSUME NEW S, S \subseteq Payments
  PROVE  IsFiniteSet(S) /\ Cardinality(S) \in Nat
BY FS_Subset, FS_CardinalityType

LEMMA PositionType ==
  ASSUME NEW p \in Payments
  PROVE  Position(p) \in Nat
<1>1. {q \in Matching : Before(q, p)} \subseteq Payments
  BY DEF Matching, Visible
<1> QED
  BY <1>1, FiniteRows DEF Position

(* Positions have no gaps. *)
LEMMA NoGaps ==
  ASSUME TypeInv, StampInv, NEW p \in Matching, NEW i \in Nat, i =< Position(p)
  PROVE  \E q \in Matching : Position(q) = i
<1> DEFINE T == {Position(q) : q \in {m \in Matching : Position(m) >= i}}
<1>0. /\ Matching \subseteq Payments
      /\ \A q \in Matching : q \in Payments /\ rows[q].created \in Nat \ {0}
  <2>1. Matching \subseteq Payments /\ \A q \in Matching : rows[q].visible
    BY DEF Matching, Visible
  <2>2. \A q \in Payments : rows[q] \in PaymentRow
    BY DEF TypeInv
  <2> QED
    BY <2>1, <2>2 DEF StampInv, PaymentRow, NoRow
<1>1. T \in SUBSET Nat /\ T # {}
  BY <1>0, PositionType
<1>2. PICK n \in T : \A m \in T : n =< m
  BY <1>1, LeastNumber
<1>3. PICK q \in Matching : Position(q) = n /\ n >= i
  BY <1>2
<1>4. n \in Nat
  BY <1>1
<1>5. CASE n = i
  BY <1>3, <1>5
<1>6. CASE n > i
  <2> DEFINE B == {m \in Matching : Before(m, q)}
             C == {rows[m].created : m \in B}
  <2>1. B \subseteq Payments /\ IsFiniteSet(B) /\ Cardinality(B) = n
    BY <1>0, <1>3, FiniteRows DEF Position
  <2>2. B # {}
    BY <1>4, <1>6, <2>1, FS_EmptySet
  <2>3. C \in SUBSET Nat /\ C # {}
    BY <1>0, <2>2
  <2>4. PICK s \in C : \A t \in C : s =< t
    BY <2>3, LeastNumber
  <2>5. PICK b \in B : rows[b].created = s
    BY <2>4
  <2> DEFINE D == {m \in Matching : Before(m, b)}
  <2>6. B = D \cup {b}
    <3>1. ASSUME NEW m \in B, m # b PROVE m \in D
      <4>1. s =< rows[m].created /\ rows[m].created # s
        BY <1>0, <2>1, <2>4, <2>5, <3>1 DEF StampInv
      <4> QED
        BY <1>0, <2>1, <2>3, <2>5, <4>1 DEF Before
    <3>2. ASSUME NEW m \in D PROVE m \in B
      BY <1>0, <2>1, <2>5 DEF Before
    <3> QED
      BY <3>1, <3>2
  <2>7. b \notin D
    BY <1>0, <2>1 DEF Before
  <2>8. D \subseteq Payments /\ IsFiniteSet(D) /\ Cardinality(D) \in Nat
    BY <1>0, FiniteRows
  <2>9. n = Position(b) + 1 /\ Position(b) \in Nat
    <3> HIDE DEF D
    <3>1. Cardinality(D \cup {b}) = Cardinality(D) + 1
      BY <2>7, <2>8, FS_AddElement
    <3>2. Cardinality(D) = Position(b)
      BY DEF D, Position
    <3> QED
      BY <2>1, <2>6, <2>8, <3>1, <3>2
  <2>10. Position(b) \notin T
    BY <1>2, <2>9, <1>4
  <2>11. b \in Matching
    OBVIOUS
  <2> QED
    BY <1>4, <1>6, <2>9, <2>10, <2>11
<1> QED
  BY <1>3, <1>4, <1>5, <1>6

(* A page with a payment behind it is full. *)
LEMMA FullPage ==
  ASSUME TypeInv, StampInv, NEW k \in Nat, NEW p \in Matching, Position(p) >= k + Limit
  PROVE  Cardinality({q \in Matching : Position(q) \in k .. k + Limit - 1}) >= Limit
<1> DEFINE items == {q \in Matching : Position(q) \in k .. k + Limit - 1}
           span == k .. k + Limit - 1
           f == [q \in items |-> Position(q)]
<1>0. Matching \subseteq Payments
  BY DEF Matching, Visible
<1>1. IsFiniteSet(items) /\ Cardinality(items) \in Nat
  BY <1>0, FiniteRows
<1>2. Position(p) \in Nat
  BY <1>0, PositionType
<1>3. \A i \in span : \E q \in items : f[q] = i
  <2> SUFFICES ASSUME NEW i \in span PROVE \E q \in items : f[q] = i
    OBVIOUS
  <2>1. i \in Nat /\ i =< Position(p)
    BY <1>2
  <2>2. PICK q \in Matching : Position(q) = i
    BY <2>1, NoGaps
  <2> QED
    BY <2>2
<1>4. f \in Surjection(items, span)
  BY <1>3 DEF Surjection
<1>5. Cardinality(span) = Limit
  <2>1. k \in Int /\ k + Limit - 1 \in Int /\ ~(k > k + Limit - 1)
    BY LimitAssumption
  <2>2. Cardinality(span) = (k + Limit - 1) - k + 1
    BY <2>1, FS_Interval
  <2> QED
    BY <2>2
<1> HIDE DEF items, span, f
<1>6. Cardinality(span) =< Cardinality(items)
  BY <1>1, <1>4, FS_Surjection
<1> QED
  BY <1>5, <1>6 DEF items

-----------------------------------------------------------------------------
(* What the engine does to the rows *)

(* No row is removed, none gets another created_at, and money once captured *)
(* stays in the row.                                                        *)
RowsGrow ==
    \A p \in Payments : rows[p].visible =>
        /\ rows'[p].visible
        /\ rows'[p].created = rows[p].created
        /\ rows[p].captured > 0 => rows'[p].captured > 0

(* A create that begins keeps the parts of the invariant about the rows.    *)
LEMMA Inserted ==
  ASSUME ReportInv, NEW p \in Payments, Insert(p)
  PROVE  TypeInv' /\ StampInv' /\ HeldInv' /\ RowsGrow
<1>0. TypeInv /\ StampInv /\ HeldInv
  BY DEF ReportInv
<1>1. PICK n \in Amounts, c \in Currencies :
         rows' = [rows EXCEPT ![p] = [NoRow EXCEPT !.created = clock + 1,
                                                   !.updated = clock + 1,
                                                   !.status = "authorized",
                                                   !.amount = n,
                                                   !.currency = c]]
  BY DEF Insert
<1>2. rows[p] = NoRow /\ clock' = clock + 1 /\ UNCHANGED <<walk, page, stats>>
  BY DEF Insert, Stamp
<1>3. rows'[p] = [visible |-> FALSE, created |-> clock + 1, updated |-> clock + 1,
                  status |-> "authorized", amount |-> n, captured |-> 0, currency |-> c]
  BY <1>0, <1>1 DEF TypeInv, NoRow
<1>4. \A q \in Payments \ {p} : rows'[q] = rows[q]
  BY <1>0, <1>1 DEF TypeInv
<1>5. n \in Nat \ {0} /\ c \in Codes /\ clock \in Nat
  BY <1>0 DEF Codes, IsSupportedCurrency, TypeInv
<1>6. TypeInv'
  <2>1. rows'[p] \in PaymentRow
    BY <1>3, <1>5 DEF PaymentRow, Statuses, PaymentStatus
  <2>2. rows' \in [Payments -> PaymentRow]
    BY <1>0, <1>1, <1>4, <2>1 DEF TypeInv
  <2> QED
    BY <1>0, <1>2, <1>5, <2>2 DEF TypeInv
<1>7. \A q \in Payments : rows[q].created \in Nat /\ rows[q].created =< clock
  BY <1>0 DEF TypeInv, PaymentRow, StampInv
<1>8. StampInv'
  BY <1>0, <1>2, <1>3, <1>4, <1>5, <1>7 DEF StampInv
<1>9. HeldInv'
  BY <1>0, <1>3, <1>4 DEF HeldInv, Visible
<1>10. RowsGrow
  BY <1>2, <1>4 DEF RowsGrow, NoRow
<1> QED
  BY <1>6, <1>8, <1>9, <1>10

(* So does its commit. *)
LEMMA Appeared ==
  ASSUME ReportInv, NEW p \in Payments, Appear(p)
  PROVE  TypeInv' /\ StampInv' /\ HeldInv' /\ RowsGrow
<1>0. TypeInv /\ StampInv /\ HeldInv
  BY DEF ReportInv
<1>1. PICK s \in {"authorized", "captured", "failed"} :
         rows' = [rows EXCEPT ![p].visible = TRUE, ![p].status = s,
                              ![p].captured = IF s = "captured" THEN rows[p].amount ELSE 0]
  BY DEF Appear
<1>2. rows[p] # NoRow /\ ~rows[p].visible /\ UNCHANGED <<clock, walk, page, stats>>
  BY DEF Appear
<1> DEFINE n == IF s = "captured" THEN rows[p].amount ELSE 0
           new == [rows[p] EXCEPT !.visible = TRUE, !.status = s, !.captured = n]
<1>3. rows[p] \in PaymentRow /\ n \in Nat
  BY <1>0 DEF TypeInv, PaymentRow
<1>4. rows' = [rows EXCEPT ![p] = new]
  BY <1>0, <1>1, <1>3 DEF TypeInv, PaymentRow
<1> HIDE DEF n
<1>5. /\ new \in PaymentRow
      /\ new.created = rows[p].created /\ new.amount = rows[p].amount
      /\ new.status = s /\ new.captured = n
  BY <1>3 DEF PaymentRow, Statuses, PaymentStatus
<1> HIDE DEF new
<1>6. rows'[p] = new /\ \A q \in Payments \ {p} : rows'[q] = rows[q]
  BY <1>0, <1>4 DEF TypeInv
<1>7. TypeInv'
  <2>1. rows' \in [Payments -> PaymentRow]
    BY <1>0, <1>4, <1>5 DEF TypeInv
  <2> QED
    BY <1>0, <1>2, <2>1 DEF TypeInv
<1>8. StampInv'
  BY <1>0, <1>2, <1>5, <1>6 DEF StampInv
<1>9. HeldInv'
  <2>1. s \in HeldStatuses => n > 0
    BY <1>0, <1>2 DEF n, HeldStatuses, StampInv
  <2> QED
    BY <1>0, <1>5, <1>6, <2>1 DEF HeldInv, Visible
<1>10. RowsGrow
  BY <1>2, <1>6 DEF RowsGrow
<1> QED
  BY <1>7, <1>8, <1>9, <1>10

(* So does a capture, a cancel or a refund: only what was authorized is     *)
(* captured, and what a refund finds was captured before.                   *)
LEMMA Changed ==
  ASSUME ReportInv, NEW p \in Payments, NEW s \in Operated, Update(p, s)
  PROVE  TypeInv' /\ StampInv' /\ HeldInv' /\ RowsGrow
<1>0. TypeInv /\ StampInv /\ HeldInv
  BY DEF ReportInv
<1>1. PICK n \in Amounts :
         rows' = [rows EXCEPT ![p].status = s, ![p].updated = clock + 1,
                              ![p].captured = IF s = "captured" THEN n ELSE @]
  BY DEF Update
<1>2. /\ rows[p].visible /\ CanTransition(rows[p].status, s)
      /\ clock' = clock + 1 /\ UNCHANGED <<walk, page, stats>>
  BY DEF Update, Stamp
<1> DEFINE m == IF s = "captured" THEN n ELSE rows[p].captured
           new == [rows[p] EXCEPT !.status = s, !.updated = clock + 1, !.captured = m]
<1>3. rows[p] \in PaymentRow /\ m \in Nat /\ n > 0 /\ clock \in Nat
  BY <1>0 DEF TypeInv, PaymentRow
<1>4. rows' = [rows EXCEPT ![p] = new]
  BY <1>0, <1>1, <1>3 DEF TypeInv, PaymentRow
<1> HIDE DEF m
<1>5. /\ new \in PaymentRow
      /\ new.created = rows[p].created /\ new.amount = rows[p].amount
      /\ new.status = s /\ new.captured = m
  <2>1. s \in Statuses /\ clock + 1 \in Nat
    BY <1>3 DEF Statuses, PaymentStatus, Operated
  <2> QED
    BY <1>3, <2>1 DEF PaymentRow
<1>5a. new.visible
  <2>1. new.visible = rows[p].visible
    BY <1>3 DEF PaymentRow
  <2> QED
    BY <1>2, <2>1
<1> HIDE DEF new
<1>6. rows'[p] = new /\ \A q \in Payments \ {p} : rows'[q] = rows[q]
  BY <1>0, <1>4 DEF TypeInv
<1>7. TypeInv'
  <2>1. rows' \in [Payments -> PaymentRow]
    BY <1>0, <1>4, <1>5 DEF TypeInv
  <2> QED
    BY <1>0, <1>2, <1>3, <2>1 DEF TypeInv
<1>8. StampInv'
  <2>1. \A q \in Payments : rows[q].created \in Nat
    BY <1>0 DEF TypeInv, PaymentRow
  <2>2. rows[p] # NoRow
    BY <1>2 DEF NoRow
  <2> QED
    BY <1>0, <1>2, <1>3, <1>5, <1>6, <2>1, <2>2 DEF StampInv
<1>9. rows[p].captured > 0 => m > 0
  BY <1>3 DEF m
<1>10. HeldInv'
  <2>1. s \in HeldStatuses => m > 0
    <3>1. CASE s = "captured"
      BY <1>3, <3>1 DEF m
    <3>2. CASE s \in {"partially_refunded", "refunded"}
      <4>1. rows[p].status \in HeldStatuses
        BY <1>2, <3>2 DEF CanTransition, Allowed, HeldStatuses
      <4> QED
        BY <1>0, <1>2, <1>9, <4>1 DEF HeldInv, Visible
    <3> QED
      BY <3>1, <3>2 DEF HeldStatuses
  <2> QED
    BY <1>0, <1>5, <1>6, <2>1 DEF HeldInv, Visible
<1>11. RowsGrow
  BY <1>2, <1>5, <1>5a, <1>6, <1>9 DEF RowsGrow
<1> QED
  BY <1>7, <1>8, <1>10, <1>11

(* A step of the engine between two statements takes nothing from a walk    *)
(* that has begun, nor from counts that were taken.                         *)
LEMMA ReadersUndisturbed ==
  ASSUME ReportInv, TypeInv', RowsGrow, UNCHANGED <<walk, stats>>
  PROVE  StatsInv' /\ WalkInv'
<1>0. StatsInv /\ WalkInv /\ TypeInv
  BY DEF ReportInv
<1>1. Visible \subseteq Visible'
  BY DEF RowsGrow, Visible
<1>2. StatsInv'
  <2>1. Paid \subseteq Paid' /\ Paid' \subseteq Payments
    BY DEF RowsGrow, Paid, Visible
  <2>2. Cardinality(Paid) =< Cardinality(Paid') /\ Cardinality(Paid) \in Nat
        /\ Cardinality(Paid') \in Nat
    BY <2>1, FiniteRows, FS_Subset
  <2>3. stats.held \in Nat
    BY <1>0 DEF TypeInv, StatsRecord
  <2> QED
    BY <1>0, <2>2, <2>3 DEF StatsInv
<1>3. WalkInv'
  <2>1. ASSUME walk.filter = AnyStatus, NEW p \in Visible
        PROVE  Position(p) =< Position(p)' /\ Position(p) \in Nat /\ Position(p)' \in Nat
    <3> DEFINE A == {q \in Matching : Before(q, p)}
    <3>1. p \in Payments
      BY <2>1 DEF Visible
    <3>2. Matching = Visible /\ Matching' = Visible'
      BY <2>1 DEF Matching
    <3>3. A \subseteq A' /\ A' \subseteq Payments
      BY <2>1, <3>1, <3>2 DEF RowsGrow, Visible, Before
    <3>4. Cardinality(A) =< Cardinality(A') /\ Cardinality(A) \in Nat
          /\ Cardinality(A') \in Nat
      BY <3>3, FiniteRows, FS_Subset
    <3> QED
      BY <3>4 DEF Position
  <2>2. walk.offset \in Nat
    BY <1>0 DEF TypeInv, WalkRecord
  <2> QED
    BY <1>0, <1>1, <2>1, <2>2 DEF WalkInv
<1> QED
  BY <1>2, <1>3

-----------------------------------------------------------------------------
(* The listing and the statistics *)

(* A page shows the amounts of rows. *)
LEMMA PageShown ==
  ASSUME TypeInv, NEW p \in Payments
  PROVE  /\ PaymentResponse(p).amount \in Shown
         /\ PaymentResponse(p).amount_captured \in Shown
<1>1. rows[p].amount \in Nat /\ rows[p].captured \in Nat /\ rows[p].currency \in Codes
  BY DEF TypeInv, PaymentRow
<1>2. /\ PaymentResponse(p).amount = MoneyOut(rows[p].amount, rows[p].currency)
      /\ PaymentResponse(p).amount_captured = MoneyOut(rows[p].captured, rows[p].currency)
  BY DEF PaymentResponse
<1> QED
  BY <1>1, <1>2 DEF Shown

(* The first request of a walk has everything ahead of it. *)
LEMMA WalkBegun ==
  ASSUME ReportInv, NEW f \in {AnyStatus, "authorized"}, BeginWalk(f)
  PROVE  ReportInv'
<1>0. TypeInv /\ StampInv /\ HeldInv /\ StatsInv /\ WalkInv
  BY DEF ReportInv
<1> DEFINE S == {p \in Visible : f \in {AnyStatus, rows[p].status}}
<1>1. /\ walk' = [walk EXCEPT !.pc = "counting", !.filter = f, !.start = S]
      /\ walk.pc = "idle" /\ UNCHANGED <<clock, rows, page, stats>>
  BY DEF BeginWalk
<1>2. S \in SUBSET Payments /\ S \subseteq Visible
  BY DEF Visible
<1> HIDE DEF S
<1>3. /\ walk' \in WalkRecord /\ walk'.offset = 0 /\ walk'.start = S
      /\ walk'.pc = "counting"
  BY <1>0, <1>1, <1>2 DEF TypeInv, WalkRecord, WalkInv, Statuses, PaymentStatus
<1>4. TypeInv' /\ StampInv' /\ HeldInv' /\ StatsInv'
  BY <1>0, <1>1, <1>3
  DEF TypeInv, StampInv, HeldInv, StatsInv, Visible, Paid
<1>5. WalkInv'
  <2>1. \A p \in Payments : Position(p)' \in Nat
    <3> SUFFICES ASSUME NEW p \in Payments PROVE Position(p)' \in Nat
      OBVIOUS
    <3>1. {q \in Matching : Before(q, p)}' \subseteq Payments
      BY DEF Matching, Visible
    <3> QED
      BY <3>1, FiniteRows DEF Position
  <2>2. Visible' = Visible
    BY <1>1 DEF Visible
  <2> QED
    BY <1>2, <1>3, <2>1, <2>2 DEF WalkInv
<1> QED
  BY <1>4, <1>5 DEF ReportInv

(* The count of a request changes nothing that the page depends on. *)
LEMMA RowsCounted ==
  ASSUME ReportInv, CountRows PROVE ReportInv'
<1>0. TypeInv /\ StampInv /\ HeldInv /\ StatsInv /\ WalkInv
  BY DEF ReportInv
<1>1. Cardinality(Matching) \in Nat
  BY FiniteRows DEF Matching, Visible
<1> DEFINE n == Cardinality(Matching)
<1>2. /\ walk' = [walk EXCEPT !.pc = "paging", !.total = n]
      /\ walk.pc = "counting" /\ UNCHANGED <<clock, rows, page, stats>>
  BY DEF CountRows
<1> HIDE DEF n
<1>3. /\ walk' \in WalkRecord /\ walk'.offset = walk.offset /\ walk'.start = walk.start
      /\ walk'.filter = walk.filter /\ walk'.seen = walk.seen /\ walk'.pc = "paging"
  BY <1>0, <1>1, <1>2 DEF TypeInv, WalkRecord, n
<1>4. TypeInv' /\ StampInv' /\ HeldInv' /\ StatsInv'
  BY <1>0, <1>2, <1>3
  DEF TypeInv, StampInv, HeldInv, StatsInv, Visible, Paid
<1>5. Visible' = Visible /\ Matching' = Matching
  BY <1>2, <1>3 DEF Visible, Matching
<1>6. \A p \in Payments : Position(p)' = Position(p)
  BY <1>2, <1>5 DEF Position, Before
<1>7. WalkInv'
  <2>1. \A p \in Visible : p \in Payments
    BY DEF Visible
  <2> QED
    BY <1>0, <1>2, <1>3, <1>5, <1>6, <2>1 DEF WalkInv
<1> QED
  BY <1>4, <1>7 DEF ReportInv

(* A page takes all that lies between two offsets, and a short page leaves  *)
(* nothing behind.                                                          *)
LEMMA PageRead ==
  ASSUME ReportInv, ReadPage PROVE ReportInv'
<1>0. TypeInv /\ StampInv /\ HeldInv /\ StatsInv /\ WalkInv
  BY DEF ReportInv
<1> DEFINE items == {p \in Matching :
                        Position(p) \in walk.offset .. walk.offset + Limit - 1}
           next == IF Cardinality(items) < Limit THEN "done" ELSE "counting"
<1>1. /\ page' = {<<Position(p), PaymentResponse(p)>> : p \in items}
      /\ walk' = [walk EXCEPT !.pc = next, !.offset = @ + Limit, !.seen = @ \cup items]
      /\ walk.pc = "paging" /\ UNCHANGED <<clock, rows, stats>>
  BY DEF ReadPage
<1>2. Matching \subseteq Visible /\ Visible \subseteq Payments
  BY DEF Matching, Visible
<1>3. items \subseteq Payments /\ walk.offset \in Nat
  BY <1>0, <1>2 DEF TypeInv, WalkRecord
<1>4. \A item \in page' : item[2].amount \in Shown /\ item[2].amount_captured \in Shown
  BY <1>0, <1>1, <1>3, PageShown
<1>5. /\ walk.offset + Limit \in Nat
      /\ next \in {"done", "counting"}
      /\ next = "done" => Cardinality(items) < Limit
      /\ Cardinality(items) \in Nat
  BY <1>3, FiniteRows
<1> HIDE DEF items, next
<1>6. /\ walk' \in WalkRecord /\ walk'.offset = walk.offset + Limit
      /\ walk'.start = walk.start /\ walk'.filter = walk.filter
      /\ walk'.seen = walk.seen \cup items /\ walk'.pc = next
  BY <1>0, <1>1, <1>3, <1>5 DEF TypeInv, WalkRecord
<1>7. TypeInv' /\ StampInv' /\ HeldInv' /\ StatsInv'
  <2>1. TypeInv'
    BY <1>0, <1>1, <1>4, <1>6 DEF TypeInv
  <2>2. StampInv' /\ HeldInv' /\ StatsInv'
    BY <1>0, <1>1 DEF StampInv, HeldInv, StatsInv, Visible, Paid
  <2> QED
    BY <2>1, <2>2
<1>8. WalkInv'
  <2>1. Visible' = Visible /\ Matching' = Matching
    BY <1>1, <1>6 DEF Visible, Matching
  <2>2. \A p \in Payments : Position(p)' = Position(p) /\ Position(p) \in Nat
    BY <1>1, <2>1, PositionType DEF Position, Before
  <2> SUFFICES ASSUME walk'.filter = AnyStatus, NEW p \in walk'.start
               PROVE  /\ p \in Visible'
                      /\ \/ p \in walk'.seen
                         \/ walk'.pc # "done" /\ Position(p)' >= walk'.offset
    BY <1>5, <1>6 DEF WalkInv
  <2>3. p \in Visible /\ (p \in walk.seen \/ Position(p) >= walk.offset)
    BY <1>0, <1>1, <1>6 DEF WalkInv
  <2>4. p \in Payments /\ p \in Matching
    BY <1>2, <1>6, <2>3 DEF Matching
  <2>5. CASE p \in walk.seen
    BY <1>6, <2>1, <2>3, <2>5
  <2>6. CASE Position(p) \in walk.offset .. walk.offset + Limit - 1
    <3>1. p \in items
      BY <2>4, <2>6 DEF items
    <3> QED
      BY <1>6, <2>1, <2>3, <3>1
  <2>7. CASE Position(p) >= walk.offset + Limit
    <3>1. Cardinality(items) >= Limit
      BY <1>0, <1>3, <2>4, <2>7, FullPage DEF items
    <3>2. next # "done"
      BY <1>5, <3>1
    <3> QED
      BY <1>6, <2>1, <2>2, <2>3, <2>4, <2>7, <3>2
  <2>8. \/ p \in walk.seen
        \/ Position(p) \in walk.offset .. walk.offset + Limit - 1
        \/ Position(p) >= walk.offset + Limit
    BY <1>3, <2>2, <2>3, <2>4
  <2> QED
    BY <2>5, <2>6, <2>7, <2>8
<1> QED
  BY <1>7, <1>8 DEF ReportInv

(* Every payment that the counts call captured has a unit of its own. *)
LEMMA StatusCounted ==
  ASSUME ReportInv, CountByStatus PROVE ReportInv'
<1>0. TypeInv /\ StampInv /\ HeldInv /\ StatsInv /\ WalkInv
  BY DEF ReportInv
<1> DEFINE H == {p \in Visible : rows[p].status \in HeldStatuses}
           n == Cardinality(H)
<1>1. /\ stats' = [stats EXCEPT !.pc = "summing", !.held = n]
      /\ UNCHANGED <<clock, rows, walk, page>>
  BY DEF CountByStatus
<1>2. H \subseteq Paid /\ Paid \subseteq Payments
  BY <1>0 DEF HeldInv, Paid, Visible
<1>3. n =< Cardinality(Paid) /\ n \in Nat
  BY <1>2, FiniteRows, FS_Subset
<1> HIDE DEF n
<1>4. stats' \in StatsRecord /\ stats'.pc = "summing" /\ stats'.held = n
  BY <1>0, <1>1, <1>3 DEF TypeInv, StatsRecord
<1>5. TypeInv' /\ StampInv' /\ HeldInv' /\ WalkInv'
  BY <1>0, <1>1, <1>4
  DEF TypeInv, StampInv, HeldInv, WalkInv, Visible, Matching, Position, Before
<1>6. StatsInv'
  <2>1. Paid' = Paid
    BY <1>1 DEF Paid, Visible
  <2> QED
    BY <1>3, <1>4, <2>1 DEF StatsInv
<1> QED
  BY <1>5, <1>6 DEF ReportInv

(* A sum of finitely many amounts is at least their number. *)
LEMMA SumCovers ==
  ASSUME TypeInv
  PROVE  Cardinality(Paid) =< CapturedTotal /\ CapturedTotal \in Nat
         /\ Cardinality(Paid) \in Nat
<1> DEFINE U(p) == {p} \X (1 .. rows[p].captured)
           parts == {U(p) : p \in Visible}
           whole == UnitsIn(Visible)
<1>0. Visible \subseteq Payments /\ Paid \subseteq Visible
  BY DEF Visible, Paid
<1>1. \A p \in Visible : rows[p].captured \in Nat
  BY <1>0 DEF TypeInv, PaymentRow
<1>2. \A part \in parts : IsFiniteSet(part)
  <2> SUFFICES ASSUME NEW p \in Visible PROVE IsFiniteSet(U(p))
    OBVIOUS
  <2> DEFINE amount == 1 .. rows[p].captured
  <2>1. IsFiniteSet({p})
    BY FS_Singleton
  <2>2. IsFiniteSet(amount)
    BY <1>1, FS_Interval
  <2> HIDE DEF amount
  <2>3. IsFiniteSet({p} \X amount)
    BY <2>1, <2>2, FS_Product
  <2> QED
    BY <2>3 DEF amount
<1>3. IsFiniteSet(parts)
  <2> DEFINE f == [p \in Visible |-> U(p)]
  <2>1. f \in Surjection(Visible, parts)
    BY DEF Surjection
  <2>2. IsFiniteSet(Visible)
    BY <1>0, FiniteRows
  <2> HIDE DEF f, parts
  <2> QED
    BY <2>1, <2>2, FS_Surjection
<1>4. IsFiniteSet(whole)
  <2>1. whole = UNION parts
    BY DEF UnitsIn
  <2> QED
    BY <1>2, <1>3, <2>1, FS_UNION
<1> DEFINE g == [p \in Paid |-> <<p, 1>>]
<1>5. g \in Injection(Paid, whole)
  <2>1. \A p \in Paid : p \in Visible /\ 1 \in 1 .. rows[p].captured
    BY <1>0, <1>1 DEF Paid
  <2>2. \A p \in Paid : <<p, 1>> \in whole
    BY <2>1 DEF UnitsIn
  <2> QED
    BY <2>2 DEF Injection, IsInjective
<1> HIDE DEF g, whole
<1>6. Cardinality(Paid) =< Cardinality(whole)
  BY <1>4, <1>5, FS_Injection
<1> QED
  BY <1>0, <1>4, <1>6, FiniteRows, FS_CardinalityType DEF CapturedTotal, whole

(* The sum therefore covers what the counts found. *)
LEMMA CapturedSummed ==
  ASSUME ReportInv, SumCaptured PROVE ReportInv'
<1>0. TypeInv /\ StampInv /\ HeldInv /\ StatsInv /\ WalkInv
  BY DEF ReportInv
<1>1. /\ stats' = [stats EXCEPT !.pc = "done", !.captured = CapturedTotal]
      /\ stats.pc = "summing" /\ UNCHANGED <<clock, rows, walk, page>>
  BY DEF SumCaptured
<1>2. Cardinality(Paid) =< CapturedTotal /\ CapturedTotal \in Nat /\ Cardinality(Paid) \in Nat
  BY <1>0, SumCovers
<1>3. stats.held \in Nat /\ stats.held =< Cardinality(Paid)
  BY <1>0, <1>1 DEF TypeInv, StatsRecord, StatsInv
<1>4. /\ stats' \in StatsRecord /\ stats'.pc = "done" /\ stats'.held = stats.held
      /\ stats'.captured = CapturedTotal
  BY <1>0, <1>1, <1>2 DEF TypeInv, StatsRecord
<1>5. TypeInv' /\ StampInv' /\ HeldInv' /\ WalkInv'
  BY <1>0, <1>1, <1>4
  DEF TypeInv, StampInv, HeldInv, WalkInv, Visible, Matching, Position, Before
<1>6. StatsInv'
  BY <1>2, <1>3, <1>4 DEF StatsInv
<1> QED
  BY <1>5, <1>6 DEF ReportInv

(* The read side keeps its invariant, whatever is committed between its     *)
(* statements.                                                              *)
THEOREM ReportInvariant == Spec => []ReportInv
<1>1. Init => ReportInv
  <2> SUFFICES ASSUME Init PROVE ReportInv
    OBVIOUS
  <2>1. NoRow \in PaymentRow
    BY DEF NoRow, PaymentRow, Statuses, Codes, CurrencyExponents
  <2>2. TypeInv
    BY <2>1 DEF Init, TypeInv, WalkRecord, StatsRecord
  <2>3. \A p \in Payments : rows[p] = NoRow /\ ~rows[p].visible /\ rows[p].created = 0
    BY DEF Init, NoRow
  <2>4. StampInv /\ HeldInv
    BY <2>3 DEF Init, StampInv, HeldInv, Visible
  <2>5. StatsInv /\ WalkInv
    BY DEF Init, StatsInv, WalkInv
  <2> QED
    BY <2>2, <2>4, <2>5 DEF ReportInv
<1>2. ReportInv /\ [Next]_vars => ReportInv'
  <2> SUFFICES ASSUME ReportInv, [Next]_vars PROVE ReportInv'
    OBVIOUS
  <2>1. ASSUME NEW p \in Payments,
               Insert(p) \/ Appear(p) \/ \E s \in Operated : Update(p, s)
        PROVE  ReportInv'
    <3>1. TypeInv' /\ StampInv' /\ HeldInv' /\ RowsGrow
      BY <2>1, Inserted, Appeared, Changed
    <3>2. UNCHANGED <<walk, stats>>
      BY <2>1 DEF Insert, Appear, Update
    <3>3. StatsInv' /\ WalkInv'
      BY <3>1, <3>2, ReadersUndisturbed
    <3> QED
      BY <3>1, <3>3 DEF ReportInv
  <2>2. CASE UNCHANGED vars
    BY <2>2
    DEF vars, ReportInv, TypeInv, StampInv, HeldInv, StatsInv, WalkInv, Visible, Paid,
        Matching, Position, Before
  <2> QED
    BY <2>1, <2>2, WalkBegun, RowsCounted, PageRead, StatusCounted, CapturedSummed DEF Next
<1> QED
  BY <1>1, <1>2, PTL DEF Spec

(* A client that pages through the unfiltered list sees every payment that  *)
(* was there when it began, for any number of payments and any page size.   *)
THEOREM WalksComplete == Spec => []WalkMissesNothing
<1>1. ReportInv => WalkMissesNothing
  BY DEF ReportInv, WalkInv, WalkMissesNothing
<1> QED
  BY <1>1, ReportInvariant, PTL

(* The sum of the statistics covers the payments its counts call captured,  *)
(* although commits come between the two statements.                        *)
THEOREM StatisticsFit == Spec => []StatsCoverCaptured
<1>1. ReportInv => StatsCoverCaptured
  BY DEF ReportInv, StatsInv, StatsCoverCaptured
<1> QED
  BY <1>1, ReportInvariant, PTL

-----------------------------------------------------------------------------
(* Money *)

(* quantize with ROUND_HALF_EVEN computes what rounding means, for every    *)
(* quotient.                                                                *)
LEMMA RoundsToNearest ==
  ASSUME NEW n \in Int, NEW d \in Nat \ {0}
  PROVE  RoundHalfEven(n, d) = NearestEven(n, d)
<1> DEFINE q == n \div d
           r == n % d
           around == q - 1 .. q + 2
           D(k) == Distance(k, n, d)
           nearest == {k \in around : \A j \in around : D(k) =< D(j)}
           P(k) == Cardinality(nearest) > 1 => k % 2 = 0
<1>1. q \in Int /\ r \in Nat /\ r < d /\ n = d * q + r
  OBVIOUS
<1>2. NearestEven(n, d) = CHOOSE k \in nearest : P(k)
  BY DEF NearestEven
<1>3. RoundHalfEven(n, d) = IF 2 * r < d \/ (2 * r = d /\ q % 2 = 0) THEN q ELSE q + 1
  BY DEF RoundHalfEven
<1> HIDE DEF q, r
<1>4. D(q - 1) = d + r /\ D(q) = r /\ D(q + 1) = d - r /\ D(q + 2) = 2 * d - r
  <2> DEFINE x == d * q
  <2>1. x \in Int /\ n = x + r
    BY <1>1
  <2>2. (q - 1) * d = x - d /\ q * d = x /\ (q + 1) * d = x + d /\ (q + 2) * d = x + 2 * d
    BY <1>1
  <2> HIDE DEF x
  <2> QED
    BY <1>1, <2>1, <2>2 DEF Distance
<1>5. around = {q - 1, q, q + 1, q + 2}
  BY <1>1
<1> HIDE DEF D, around
<1>6. nearest = {k \in {q - 1, q, q + 1, q + 2} :
                    D(k) =< D(q - 1) /\ D(k) =< D(q) /\ D(k) =< D(q + 1) /\ D(k) =< D(q + 2)}
  BY <1>5
<1>7. CASE 2 * r < d
  <2>1. nearest = {q}
    BY <1>1, <1>4, <1>6, <1>7
  <2>2. P(q)
    <3>1. Cardinality({q}) = 1
      BY FS_Singleton
    <3>2. ~(Cardinality(nearest) > 1)
      BY <2>1, <3>1
    <3> QED
      BY <3>2
  <2> HIDE DEF P, nearest
  <2> QED
    BY <1>2, <1>3, <1>7, <2>1, <2>2
<1>8. CASE 2 * r > d
  <2>1. nearest = {q + 1}
    BY <1>1, <1>4, <1>6, <1>8
  <2>2. P(q + 1)
    <3>1. Cardinality({q + 1}) = 1
      BY FS_Singleton
    <3>2. ~(Cardinality(nearest) > 1)
      BY <2>1, <3>1
    <3> QED
      BY <3>2
  <2>3. RoundHalfEven(n, d) = q + 1
    BY <1>1, <1>3, <1>8
  <2> HIDE DEF P, nearest
  <2> QED
    BY <1>2, <2>1, <2>2, <2>3
<1>9. CASE 2 * r = d
  <2>1. nearest = {q, q + 1}
    BY <1>1, <1>4, <1>6, <1>9
  <2>2. Cardinality(nearest) = 2
    <3>1. {q, q + 1} = {q} \cup {q + 1} /\ q + 1 \notin {q}
      BY <1>1
    <3>2. IsFiniteSet({q}) /\ Cardinality({q}) = 1
      BY FS_Singleton
    <3>3. Cardinality({q} \cup {q + 1}) = 1 + 1
      BY <3>1, <3>2, FS_AddElement
    <3> QED
      BY <2>1, <3>1, <3>3
  <2>3. \A k \in nearest : P(k) <=> k % 2 = 0
    BY <2>2
  <2> HIDE DEF P, nearest
  <2>4. CASE q % 2 = 0
    <3>1. (q + 1) % 2 # 0
      BY <1>1, <2>4
    <3> QED
      BY <1>2, <1>3, <1>9, <2>1, <2>3, <2>4, <3>1
  <2>5. CASE q % 2 # 0
    <3>1. (q + 1) % 2 = 0
      BY <1>1, <2>5
    <3>2. RoundHalfEven(n, d) = q + 1
      BY <1>1, <1>3, <1>9, <2>5
    <3> QED
      BY <1>2, <2>1, <2>3, <2>5, <3>1, <3>2
  <2> QED
    BY <2>4, <2>5
<1> QED
  BY <1>1, <1>7, <1>8, <1>9

(* The places of the currencies the gateway knows, and one place more. *)
LEMMA Places ==
  ASSUME NEW code \in Codes
  PROVE  LET e == CurrencyExponents[code]
             t == TenTo(e)
         IN  /\ e \in Nat
             /\ t \in {1, 100, 1000000, 100000000}
             /\ TenTo(e + 1) = 10 * t
<1>1. CurrencyExponents[code] \in {0, 2, 6, 8}
  BY DEF Codes, CurrencyExponents
<1> DEFINE e == CurrencyExponents[code]
<1> HIDE DEF e
<1>2. e \in {0, 2, 6, 8}
  BY <1>1 DEF e
<1>3. /\ e \in Nat
      /\ TenTo(e) \in {1, 100, 1000000, 100000000}
      /\ TenTo(e + 1) = 10 * TenTo(e)
  BY <1>2 DEF TenTo
<1> QED
  BY <1>3 DEF e

(* Shifting the decimal point of both sides of a quotient rounds the same.  *)
LEMMA RoundsScaled ==
  ASSUME NEW n \in Int, NEW t \in {1, 100, 1000000, 100000000}
  PROVE  /\ RoundHalfEven(n * t, t) = n
         /\ RoundHalfEven(n * t, 10 * t) = RoundHalfEven(n, 10)
<1>1. (n * t) \div t = n /\ (n * t) % t = 0
  OBVIOUS
<1>2. (n * t) \div (10 * t) = n \div 10 /\ (n * t) % (10 * t) = t * (n % 10)
  OBVIOUS
<1>3. RoundHalfEven(n * t, t) = n
  BY <1>1 DEF RoundHalfEven
<1>4. RoundHalfEven(n * t, 10 * t) = RoundHalfEven(n, 10)
  BY <1>2 DEF RoundHalfEven
<1> QED
  BY <1>3, <1>4

(* The decimal of every amount shown, in every currency, reads back as the  *)
(* amount.                                                                  *)
THEOREM DisplaysReadBack == Spec => []DisplayReadsBack
<1>1. ASSUME NEW m \in Shown
      PROVE  FromDecimal(m.display, m.currency).minor_units = m.minor_units
  <2>1. PICK n \in Nat, code \in Codes : m = MoneyOut(n, code)
    BY DEF Shown
  <2>2. /\ m.currency = code /\ m.minor_units = n
        /\ m.display.units = n /\ m.display.places = CurrencyExponents[code]
    BY <2>1 DEF MoneyOut, ToDecimal, MoneyOf
  <2> DEFINE t == TenTo(CurrencyExponents[code])
  <2>3. t \in {1, 100, 1000000, 100000000}
    BY Places
  <2>4. FromDecimal(m.display, m.currency).minor_units = RoundHalfEven(n * t, t)
    BY <2>2 DEF FromDecimal, MoneyOf
  <2> HIDE DEF t
  <2>5. RoundHalfEven(n * t, t) = n
    <3>1. n \in Int
      OBVIOUS
    <3> QED
      BY <2>3, <3>1, RoundsScaled
  <2> QED
    BY <2>2, <2>4, <2>5
<1>2. ReportInv => DisplayReadsBack
  BY <1>1 DEF ReportInv, TypeInv, DisplayReadsBack
<1> QED
  BY <1>2, ReportInvariant, PTL

(* A decimal with one place too many, about any amount shown and in every   *)
(* currency, is rounded to the nearest minor unit, and a half to the even   *)
(* one.                                                                     *)
THEOREM RoundingIsHalfEven == Spec => []RoundsHalfEven
<1>1. ASSUME NEW m \in Shown, NEW k \in Int
      PROVE  LET n == 10 * m.display.units + k
             IN  FromDecimal([units |-> n, places |-> m.display.places + 1],
                             m.currency).minor_units = NearestEven(n, 10)
  <2>1. PICK u \in Nat, code \in Codes : m = MoneyOut(u, code)
    BY DEF Shown
  <2>2. /\ m.currency = code /\ m.display.units = u
        /\ m.display.places = CurrencyExponents[code]
    BY <2>1 DEF MoneyOut, ToDecimal, MoneyOf
  <2> DEFINE t == TenTo(CurrencyExponents[code])
             n == 10 * m.display.units + k
             x == [units |-> n, places |-> m.display.places + 1]
  <2>3. t \in {1, 100, 1000000, 100000000} /\ TenTo(CurrencyExponents[code] + 1) = 10 * t
    BY Places
  <2>4. n \in Int
    BY <2>2
  <2>5. FromDecimal(x, m.currency).minor_units = RoundHalfEven(n * t, 10 * t)
    <3> HIDE DEF n
    <3>1. x.units = n /\ TenTo(x.places) = 10 * t
      BY <2>2, <2>3
    <3> HIDE DEF x, t
    <3> QED
      BY <2>2, <3>1 DEF FromDecimal, MoneyOf, t
  <2> HIDE DEF n, t
  <2>6. RoundHalfEven(n * t, 10 * t) = NearestEven(n, 10)
    BY <2>3, <2>4, RoundsScaled, RoundsToNearest
  <2> QED
    BY <2>5, <2>6 DEF n
<1>2. ReportInv => RoundsHalfEven
  BY <1>1 DEF ReportInv, TypeInv, RoundsHalfEven
<1> QED
  BY <1>2, ReportInvariant, PTL
=============================================================================
