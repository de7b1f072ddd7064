------------------------- MODULE LedgerRefinement --------------------------
(***************************************************************************)
(* The payment engine as an implementation of PaymentLedger: the entry of  *)
(* a payment is its committed row, and what was given back is what the     *)
(* provider refunded out of the charge the row names.                      *)
(***************************************************************************)
EXTENDS PaymentEngineInvariant

Entry(row) == [status |-> row.status, amount |-> row.amount,
               captured |-> row.captured]

GivenBack(row) == IF row.ref = NoRef THEN 0 ELSE ledger[row.ref].refunded

Ledger == INSTANCE PaymentLedger WITH
              Payments <- Requests,
              entry <- [p \in Requests |-> Entry(payments[p])],
              returned <- [p \in Requests |-> GivenBack(payments[p])]

(* Amounts stay within what was asked for: no row shows more captured than  *)
(* its amount, and no capture that was sent asks for more.                  *)
AmountInv ==
    /\ \A p \in Requests : /\ payments[p].captured =< payments[p].amount
                           /\ payments[p].amount =< MaxAmount
    /\ \A r \in Requests : req[r].op = "capture" /\ Sent(r) =>
                              units[r] =< RowOf(r).amount

(* Over Stripe the handlers, which decide from a row read before the        *)
(* provider call and write after it, behave as if each operation were one   *)
(* step on the current row: money goes back only out of what the row        *)
(* already shows as captured, a row shows a refund only after the money     *)
(* went back, and refunded only when all of it did.                         *)
ImplementsLedger == Ledger!LedgerSpec
=============================================================================
