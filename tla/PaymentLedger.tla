--------------------------- MODULE PaymentLedger ---------------------------
(***************************************************************************)
(* What the payment engine promises a merchant, without requests, sessions *)
(* or lost answers: a payment changes in single steps, each decided on the *)
(* payment as it is at that moment, and money is given back only out of    *)
(* what it shows as captured. A refund shows after the money went back,    *)
(* never before it; it may show late, and a payment may stay               *)
(* partially_refunded although all was given back.                         *)
(***************************************************************************)
EXTENDS PaymentStates, Naturals

CONSTANTS
    Payments,   \* payment ids
    Amounts     \* the amounts a request can name

VARIABLES
    entry,      \* status, amount_minor and amount_captured_minor of a payment
    returned    \* minor units of it given back to the customer so far

NoEntry == [status |-> "absent", amount |-> 0, captured |-> 0]

LedgerInit ==
    /\ entry = [p \in Payments |-> NoEntry]
    /\ returned = [p \in Payments |-> 0]

(* The steps of one payment. *)
Rest(p) == entry'[p] = entry[p] /\ returned'[p] = returned[p]

Book(p) ==
    /\ entry[p].status = "absent"
    /\ \E s \in {"authorized", "captured", "failed"}, n \in Amounts :
          entry'[p] = [status |-> s, amount |-> n,
                       captured |-> IF s = "captured" THEN n ELSE 0]
    /\ returned'[p] = returned[p]

Capture(p) ==
    /\ entry[p].status = "authorized"
    /\ \E n \in Amounts :
          /\ n =< entry[p].amount
          /\ entry'[p] = [status |-> "captured", amount |-> entry[p].amount,
                       captured |-> n]
    /\ returned'[p] = returned[p]

Void(p) ==
    /\ entry[p].status = "authorized"
    /\ entry'[p] = [entry[p] EXCEPT !.status = "canceled"]
    /\ returned'[p] = returned[p]

GiveBack(p) ==
    /\ entry[p].status \in RefundableStates
    /\ \E n \in Amounts :
          /\ returned[p] + n =< entry[p].captured
          /\ returned'[p] = returned[p] + n
    /\ entry'[p] = entry[p]

ShowRefund(p) ==
    /\ entry[p].status \in RefundableStates
    /\ returned[p] > 0
    /\ \E s \in {"partially_refunded", "refunded"} :
          /\ s = "refunded" => returned[p] = entry[p].captured
          /\ entry'[p] = [entry[p] EXCEPT !.status = s]
    /\ returned'[p] = returned[p]

LedgerNext ==
    \A p \in Payments : \/ Rest(p) \/ Book(p) \/ Capture(p) \/ Void(p)
                        \/ GiveBack(p) \/ ShowRefund(p)

LedgerSpec == LedgerInit /\ [][LedgerNext]_<<entry, returned>>
=============================================================================
