---------------------- MODULE PaymentEngineInvariant ----------------------
(***************************************************************************)
(* The inductive invariant of the payment engine over a provider that      *)
(* checks its own charges (Stripe). The services decide from a row read    *)
(* before the provider call and write after it, so no row says by itself   *)
(* that a pending write is still legal: what protects a row is what the    *)
(* provider has already done on behalf of the requests about to write. The *)
(* parts below relate rows, charges, calls and pending answers.            *)
(***************************************************************************)
EXTENDS PaymentEngine

CapturedStates == RefundableStates \cup {"refunded"}

IsUpdate(r) == req[r].op \in {"capture", "cancel", "refund"}
Sent(r) == attempt[r] > 0
Pending(r) == pc[r] = "replied"

(* The row a request is about, and the provider's charge behind it. *)
RowOf(r) == payments[req[r].payment]
ChargeOf(r) == ledger[RowOf(r).ref]

(* Control: a call was sent exactly by the requests that got past Start, a  *)
(* create names its own payment, and an unsent call has done nothing.       *)
ControlInv ==
    /\ \A r \in Requests :
          /\ pc[r] \in {"new", "accepted", "replayed"} => ~Sent(r)
          /\ pc[r] \in {"calling", "replied", "committed"} => Sent(r)
          /\ pc[r] \notin {"new", "failed"} => req[r].op # "none"
          /\ Sent(r) => req[r].op # "none"
          /\ req[r].op = "create" => req[r].payment = r /\ req[r].amount > 0
    /\ \A c \in wire : c[2] =< attempt[c[1]]
    /\ \A c \in Refs : ledger[c].status # "none" =>
          c[2] =< attempt[c[1]] /\ c \notin wire /\ req[c[1]].op = "create"

(* The provider's arithmetic. *)
LedgerInv ==
    \A c \in Refs :
        /\ ledger[c].refunded =< ledger[c].captured
        /\ ledger[c].status = "captured" <=> ledger[c].captured > 0

(* A charge no row books is as its create left it. *)
UnbookedInv ==
    \A c \in Refs :
        ledger[c].status # "none" /\ RefFree(c) =>
            /\ ledger[c].status = FirstStatus(c)
            /\ ledger[c].amount = req[c[1]].amount
            /\ ledger[c].captured = (IF ledger[c].status = "captured"
                                     THEN req[c[1]].amount ELSE 0)
            /\ ledger[c].refunded = 0

(* A create still holds the row it inserted, and its answer is the first    *)
(* status of the charge it names.                                           *)
CreateInv ==
    \A r \in Requests : req[r].op = "create" /\ Sent(r) =>
        /\ snap[r] = InsertedRow(req[r].amount)
        /\ units[r] = req[r].amount
        /\ Pending(r) =>
              /\ reply[r].ref \in Refs
              /\ ledger[reply[r].ref].status # "none"
              /\ reply[r].status = FirstStatus(reply[r].ref)
              /\ req[reply[r].ref[1]].amount = req[r].amount

(* What a committed row says of its charge. *)
RowMatches(row, charge) ==
    /\ row.status = "authorized" =>
          /\ row.captured = 0
          /\ row.refunded = 0
          /\ charge.status \in {"authorized", "captured", "canceled"}
    /\ row.status \in CapturedStates =>
          /\ charge.status = "captured"
          /\ row.captured = charge.captured
          /\ row.refunded =< charge.refunded
    /\ row.status = "refunded" => row.refunded = row.captured
    /\ row.status = "canceled" =>
          /\ charge.status = "canceled"
          /\ row.captured = 0
    /\ row.status = "failed" =>
          /\ charge.status = "failed"
          /\ row.captured = 0

RowInv ==
    /\ \A p \in Requests :
          /\ payments[p].status = "absent" => payments[p] = NoRow
          /\ payments[p].status # "absent" =>
                /\ pc[p] = "committed"
                /\ req[p].op = "create"
                /\ payments[p].status # "requires_confirmation"
                /\ payments[p].amount > 0
                /\ payments[p].ref \in Refs
                /\ ledger[payments[p].ref].status # "none"
                /\ RowMatches(payments[p], ledger[payments[p].ref])
    /\ ChargeBookedOnce

(* A request that called the provider about a row still finds the same row  *)
(* there, perhaps further along its life cycle than the copy it holds.      *)
UpdateInv ==
    \A r \in Requests : IsUpdate(r) /\ Sent(r) =>
        /\ RowOf(r).status # "absent"
        /\ snap[r].ref = RowOf(r).ref
        /\ req[r].op \in {"capture", "refund"} => units[r] > 0
        /\ req[r].op \in {"capture", "cancel"} => snap[r].status = "authorized"
        /\ req[r].op = "refund" =>
              /\ snap[r].status \in RefundableStates
              /\ RowOf(r).status \in CapturedStates
              /\ snap[r].captured = RowOf(r).captured
              /\ snap[r].refunded =< ChargeOf(r).refunded

(* A capture or a cancel that has its answer is the only one, its row is    *)
(* still authorized, and its charge shows what it did.                      *)
VoidOrCaptureInv ==
    /\ \A r \in Requests :
          /\ Pending(r) /\ req[r].op = "capture" =>
                /\ RowOf(r).status = "authorized"
                /\ ChargeOf(r).status = "captured"
                /\ ChargeOf(r).captured = units[r]
          /\ Pending(r) /\ req[r].op = "cancel" =>
                /\ RowOf(r).status = "authorized"
                /\ ChargeOf(r).status = "canceled"
    /\ \A r, s \in Requests :
          /\ Pending(r) /\ req[r].op \in {"capture", "cancel"}
          /\ Pending(s) /\ req[s].op \in {"capture", "cancel"}
          /\ req[r].payment = req[s].payment
          => r = s

(* A refund that has its answer is covered by the provider's total on top   *)
(* of what the row, and every other request's copy of the row, accounts     *)
(* for.                                                                     *)
RefundInv ==
    /\ \A s \in Requests : Pending(s) /\ req[s].op = "refund" =>
          /\ RowOf(s).status \in RefundableStates
          /\ RowOf(s).refunded + units[s] =< ChargeOf(s).refunded
          /\ snap[s].refunded + units[s] =< ChargeOf(s).refunded
    /\ \A r, s \in Requests :
          /\ r # s
          /\ req[r].op = "refund" /\ Sent(r)
          /\ req[s].op = "refund" /\ Pending(s)
          /\ req[r].payment = req[s].payment
          => /\ snap[r].refunded + units[s] =< ChargeOf(s).refunded
             /\ Pending(r) =>
                   snap[r].refunded + units[r] + units[s] =< ChargeOf(s).refunded

(* Refunds of payment p that the provider has answered, and how much it has *)
(* refunded of the charge behind p.                                         *)
Answered(p) ==
    {r \in Requests : /\ req[r].op = "refund"
                      /\ req[r].payment = p
                      /\ pc[r] \in {"replied", "committed"}}
Given(p) == ledger[payments[p].ref].refunded

(* The provider's own total covers every refund it has answered, committed  *)
(* or about to be.                                                          *)
CoverInv ==
    \A p \in Requests :
        /\ IsFiniteSet(UnitsOf(Answered(p)))
        /\ Answered(p) # {} => Total(Answered(p)) =< Given(p)

(* A request that is not a replay answers for itself; capture and cancel    *)
(* carry no key.                                                            *)
OwnAnswerInv ==
    \A r \in Requests :
        /\ pc[r] # "replayed" => answer[r] = r
        /\ req[r].op \in {"capture", "cancel"} => req[r].key = NoKey

(* A replay answers with a committed request of the same key and body. *)
ReplayInv ==
    \A r \in Requests : pc[r] = "replayed" =>
        /\ pc[answer[r]] = "committed"
        /\ req[answer[r]].key = req[r].key
        /\ req[answer[r]].op = req[r].op
        /\ Body(req[answer[r]]) = Body(req[r])

(* One request stores a key at an endpoint. *)
StoredOnceInv ==
    \A r, s \in Requests :
        /\ pc[r] = "committed" /\ pc[s] = "committed"
        /\ req[r].key # NoKey /\ req[r].key = req[s].key
        /\ req[r].op = req[s].op
        => r = s

(* Every keyed success is the response of the one request that stored it,   *)
(* with either provider.                                                    *)
AnswerInv == OwnAnswerInv /\ ReplayInv /\ StoredOnceInv

(* What the requests, the rows and the charges say of each other. *)
MoneyInv ==
    /\ LedgerInv
    /\ UnbookedInv
    /\ CreateInv
    /\ RowInv
    /\ UpdateInv
    /\ VoidOrCaptureInv
    /\ RefundInv

(* Over Stripe, every row, charge, call and pending answer of the engine    *)
(* agree: whatever a request is about to write is still true and legal.     *)
IInv == TypeOK /\ ControlInv /\ MoneyInv
=============================================================================
