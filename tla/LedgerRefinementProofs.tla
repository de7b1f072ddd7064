---------------------- MODULE LedgerRefinementProofs -----------------------
(***************************************************************************)
(* Over Stripe the payment engine implements PaymentLedger. The inductive  *)
(* invariant of the engine says which rows are still as a pending request  *)
(* read them and what the provider has done for it; a second, smaller one  *)
(* bounds the amounts. Every step then is a step of each payment or leaves *)
(* it alone.                                                               *)
(***************************************************************************)
EXTENDS PaymentEngineProofs, LedgerRefinement

USE NoRefAssumption, AmountAssumption, AttemptsAssumption

(* The sending of a call changes no row and bounds what a capture asks for. *)
LEMMA StartAmounts ==
  ASSUME IInv, AmountInv, NEW r \in Requests, Start(r)
  PROVE  AmountInv'
<1>0. TypeOK /\ ControlInv
  BY DEF IInv
<1>1. /\ payments' = payments /\ req' = req
      /\ \A s \in Requests \ {r} : attempt'[s] = attempt[s] /\ units'[s] = units[s]
  BY <1>0 DEF Start, StartCreate, StartCapture, StartCancel, StartRefund, Send, TypeOK
<1>2. req[r].op = "capture" => units'[r] =< payments[req[r].payment].amount
  BY <1>0 DEF Start, StartCreate, StartCapture, StartCancel, StartRefund,
              CaptureAllowed, TypeOK
<1> QED
  BY <1>1, <1>2 DEF AmountInv, Sent, RowOf

(* A commit keeps the amount of a row, and books at most that amount. *)
LEMMA CommitAmounts ==
  ASSUME IInv, TypeOK', AmountInv, NEW r \in Requests, Commit(r)
  PROVE  AmountInv'
<1>0. TypeOK /\ ControlInv /\ RowInv /\ CreateInv /\ UpdateInv
  BY DEF IInv, MoneyInv
<1>1. UNCHANGED <<req, units, attempt>>
  BY DEF Commit, CommitCreate, CommitCapture, CommitCancel, CommitRefund,
         CommitFails, Write
<1>2. PICK p \in Requests : p = req[r].payment
  BY <1>0 DEF TypeOK, Request
<1>3. /\ payments[p] \in Row
      /\ snap[r] \in Row
      /\ \A s \in Requests : req[s].payment \in Requests /\ units[s] \in Nat
      /\ \A q \in Requests : payments[q] \in Row /\ payments'[q] \in Row
  BY <1>0 DEF TypeOK, Request
<1>4. CASE CommitCreate(r)
  <2>1. Sent(r) /\ req[r].op = "create" /\ p = r
    BY <1>0, <1>2, <1>4 DEF ControlInv, CommitCreate
  <2>2. snap[r] = InsertedRow(req[r].amount) /\ units[r] = req[r].amount
    BY <1>0, <2>1 DEF CreateInv
  <2>3. /\ payments'[r].amount = req[r].amount
        /\ payments'[r].captured \in {0, req[r].amount}
        /\ \A q \in Requests \ {r} : payments'[q] = payments[q]
    BY <1>0, <1>2, <1>4, <2>1, <2>2 DEF CommitCreate, Write, InsertedRow, TypeOK
  <2>4. req[r].amount \in 0 .. MaxAmount
    BY <1>0 DEF TypeOK, Request
  <2>5. payments[r].status = "absent"
    BY <1>0, <1>4 DEF RowInv, CommitCreate
  <2>6. ASSUME NEW s \in Requests, req[s].op = "capture", Sent(s)
        PROVE  req[s].payment # r
    BY <1>0, <2>5, <2>6 DEF UpdateInv, IsUpdate, RowOf
  <2>7. \A s \in Requests : req[s].op = "capture" /\ Sent(s) =>
           units[s] =< payments'[req[s].payment].amount
    BY <1>3, <2>3, <2>6 DEF AmountInv, RowOf
  <2>8. \A q \in Requests : /\ payments'[q].captured =< payments'[q].amount
                            /\ payments'[q].amount =< MaxAmount
    BY <1>3, <2>3, <2>4 DEF AmountInv
  <2> QED
    BY <1>1, <2>7, <2>8 DEF AmountInv, Sent, RowOf
<1>5. CASE ~CommitCreate(r)
  <2>1. /\ payments'[p].amount = payments[p].amount
        /\ payments'[p].captured =< payments'[p].amount
        /\ \A q \in Requests \ {p} : payments'[q] = payments[q]
    <3>1. CASE CommitCapture(r)
      <4>1. units[r] =< payments[p].amount
        BY <1>0, <1>2, <3>1 DEF AmountInv, CommitCapture, ControlInv, RowOf
      <4> QED
        BY <1>0, <1>2, <1>3, <3>1, <4>1 DEF CommitCapture, Write, TypeOK, Row
    <3>2. CASE CommitCancel(r)
      BY <1>0, <1>2, <1>3, <3>2 DEF CommitCancel, Write, TypeOK, Row, AmountInv
    <3>3. CASE CommitRefund(r)
      <4>1. /\ payments'[p].amount = payments[p].amount
            /\ payments'[p].captured = payments[p].captured
            /\ \A q \in Requests \ {p} : payments'[q] = payments[q]
        <5> DEFINE row == [payments[p] EXCEPT
                             !.refunded = snap[r].refunded + units[r],
                             !.status = IF RefundTarget(r) = snap[r].status
                                          THEN @ ELSE RefundTarget(r)]
        <5>1. payments' = [payments EXCEPT ![p] = row]
          BY <1>2, <3>3 DEF CommitRefund, Write
        <5>2. row.amount = payments[p].amount /\ row.captured = payments[p].captured
          BY <1>2, <1>3 DEF Row
        <5> HIDE DEF row
        <5> QED
          BY <1>0, <1>2, <5>1, <5>2 DEF TypeOK
      <4>2. payments[p].captured =< payments[p].amount
        BY <1>2 DEF AmountInv
      <4> QED
        BY <4>1, <4>2
    <3>4. CASE CommitFails(r)
      BY <1>3, <3>4 DEF CommitFails, AmountInv
    <3> QED
      BY <1>5, <3>1, <3>2, <3>3, <3>4 DEF Commit
  <2> QED
    BY <1>1, <1>3, <2>1 DEF AmountInv, Sent, RowOf
<1> QED
  BY <1>4, <1>5

(* The bounds on amounts are inductive, given the engine's invariant. *)
LEMMA NextAmounts ==
  ASSUME Provider = "stripe", IInv, AmountInv, [Next]_vars
  PROVE  AmountInv'
<1>0. TypeOK /\ TypeOK' /\ ControlInv
  BY NextTypeOK DEF IInv
<1>1. CASE UNCHANGED vars
  BY <1>1 DEF vars, AmountInv, Sent, RowOf
<1>2. ASSUME NEW r \in Requests, Receive(r) \/ Reject(r) \/ Timeout(r) \/ Abort(r)
      PROVE  AmountInv'
  <2>1. /\ payments' = payments /\ units' = units
        /\ \A s \in Requests \ {r} : req'[s] = req[s] /\ attempt'[s] = attempt[s]
    BY <1>0, <1>2 DEF Receive, Reject, Timeout, Abort, TypeOK
  <2>2. Sent(r)' => Sent(r) /\ req'[r] = req[r]
    BY <1>0, <1>2 DEF Receive, Reject, Timeout, Abort, TypeOK, ControlInv, Sent
  <2> QED
    BY <2>1, <2>2 DEF AmountInv, Sent, RowOf
<1>3. ASSUME NEW c \in Calls, ProviderStep(c) PROVE AmountInv'
  <2>1. UNCHANGED <<payments, req, units, attempt>>
    BY <1>3
    DEF ProviderStep, ProviderCreate, ProviderReplay, ProviderCapture,
        ProviderCancel, ProviderRefund, ProviderUpdate, ProviderRefuse, Take
  <2> QED
    BY <2>1 DEF AmountInv, Sent, RowOf
<1> QED
  BY <1>0, <1>1, <1>2, <1>3, StartAmounts, CommitAmounts DEF Next

-----------------------------------------------------------------------------
(* The entry of payment p and what was given back of it. *)
E(p) == Entry(payments[p])
G(p) == GivenBack(payments[p])

(* What a step of the engine may do to payment p, in the engine's terms. *)
Rests(p) == E(p)' = E(p) /\ G(p)' = G(p)

IsBooked(p) ==
    /\ E(p).status = "absent"
    /\ \E s \in {"authorized", "captured", "failed"}, n \in Amounts :
          E(p)' = [status |-> s, amount |-> n,
                   captured |-> IF s = "captured" THEN n ELSE 0]
    /\ G(p)' = G(p)

IsCaptured(p) ==
    /\ E(p).status = "authorized"
    /\ \E n \in Amounts :
          /\ n =< E(p).amount
          /\ E(p)' = [status |-> "captured", amount |-> E(p).amount, captured |-> n]
    /\ G(p)' = G(p)

IsVoided(p) ==
    /\ E(p).status = "authorized"
    /\ E(p)' = [E(p) EXCEPT !.status = "canceled"]
    /\ G(p)' = G(p)

GivesBack(p) ==
    /\ E(p).status \in RefundableStates
    /\ \E n \in Amounts : G(p) + n =< E(p).captured /\ G(p)' = G(p) + n
    /\ E(p)' = E(p)

ShowsRefund(p) ==
    /\ E(p).status \in RefundableStates
    /\ G(p) > 0
    /\ \E s \in {"partially_refunded", "refunded"} :
          /\ s = "refunded" => G(p) = E(p).captured
          /\ E(p)' = [E(p) EXCEPT !.status = s]
    /\ G(p)' = G(p)

Moves(p) == \/ Rests(p) \/ IsBooked(p) \/ IsCaptured(p) \/ IsVoided(p)
            \/ GivesBack(p) \/ ShowsRefund(p)

(* A row that is there names a charge the provider has made. *)
LEMMA BookedCharge ==
  ASSUME IInv, NEW p \in Requests
  PROVE  /\ payments[p].status = "absent" => payments[p] = NoRow
         /\ payments[p].status # "absent" => /\ payments[p].ref \in Refs
                                             /\ payments[p].ref # NoRef
                                             /\ ledger[payments[p].ref].status # "none"
         /\ payments[p] \in Row
  BY DEF IInv, MoneyInv, RowInv, TypeOK, Refs, Calls

(* A step that leaves the rows, and the refunds of booked charges, alone. *)
LEMMA Resting ==
  ASSUME IInv, NEW p \in Requests, payments' = payments,
         payments[p].ref # NoRef =>
            ledger'[payments[p].ref].refunded = ledger[payments[p].ref].refunded
  PROVE  Moves(p)
  BY DEF Moves, Rests, E, G, Entry, GivenBack

(* What the provider does is a refund of a booked charge, which gives money *)
(* back, or is not seen in the ledger.                                      *)
LEMMA ProviderMoves ==
  ASSUME IInv, AmountInv, Provider = "stripe", NEW c \in Calls, ProviderStep(c),
         NEW p \in Requests
  PROVE  Moves(p)
<1>0. TypeOK /\ ControlInv /\ LedgerInv /\ RowInv /\ UpdateInv
  BY DEF IInv, MoneyInv
<1>1. payments' = payments
  BY DEF ProviderStep, ProviderCreate, ProviderReplay, ProviderCapture,
         ProviderCancel, ProviderRefund, ProviderUpdate, ProviderRefuse, Take
<1>2. CASE ProviderReplay(c) \/ ProviderRefuse(c)
  BY <1>1, <1>2, Resting DEF ProviderReplay, ProviderRefuse
<1>3. CASE ProviderCreate(c)
  <2>1. ledger[c].status = "none"
    BY <1>0, <1>3 DEF ControlInv, ProviderCreate, Take, Refs
  <2>2. \A d \in Refs \ {c} : ledger'[d] = ledger[d]
    BY <1>0, <1>3 DEF ProviderCreate, TypeOK
  <2> QED
    BY <1>1, <2>1, <2>2, BookedCharge, Resting DEF NoRow
<1>4. CASE ProviderCapture(c) \/ ProviderCancel(c) \/ ProviderRefund(c)
  <2>1. PICK r \in Requests : r = c[1]
    BY DEF Calls
  <2>2. c \in wire /\ c[2] =< attempt[r] /\ c[2] \in Nat \ {0} /\ attempt[r] \in Nat
    BY <1>0, <1>4, <2>1
    DEF ProviderCapture, ProviderCancel, ProviderRefund, ProviderUpdate, Take,
        ControlInv, TypeOK, Calls
  <2>3. Sent(r) /\ IsUpdate(r)
    BY <1>4, <2>1, <2>2
    DEF Sent, IsUpdate, ProviderCapture, ProviderCancel, ProviderRefund
  <2>4. PICK q \in Requests : q = req[r].payment
    BY <1>0 DEF TypeOK, Request
  <2>5. PICK d \in Refs : d = payments[q].ref
    BY <1>0, <2>3, <2>4, BookedCharge DEF UpdateInv, RowOf
  <2>6. d # NoRef /\ snap[r].ref = d /\ payments[q].status # "absent"
    BY <1>0, <2>3, <2>4, <2>5 DEF UpdateInv, RowOf, Refs, Calls
  <2>7. ledger[d] \in Charge /\ units[r] \in Nat
    BY <1>0 DEF TypeOK
  <2>8. \A e \in Refs \ {d} : ledger'[e] = ledger[e]
    BY <1>0, <1>4, <2>1, <2>6
    DEF ProviderCapture, ProviderCancel, ProviderRefund, ProviderUpdate, TypeOK
  <2>9. CASE p # q
    <3>1. payments[p].ref # d
      BY <1>0, <2>5, <2>6, <2>9 DEF RowInv, ChargeBookedOnce
    <3> QED
      BY <1>1, <2>8, <3>1, BookedCharge, Resting DEF NoRow
  <2>10. CASE p = q /\ ~ProviderRefund(c)
    <3>1. ledger'[d].refunded = ledger[d].refunded
      <4>1. CASE ProviderCapture(c)
        BY <1>0, <2>1, <2>5, <2>6, <2>7, <4>1
        DEF ProviderCapture, ProviderUpdate, TypeOK, Charge
      <4>2. CASE ProviderCancel(c)
        BY <1>0, <2>1, <2>5, <2>6, <2>7, <4>2
        DEF ProviderCancel, ProviderUpdate, TypeOK, Charge
      <4> QED
        BY <1>4, <2>10, <4>1, <4>2
    <3> QED
      BY <1>1, <2>5, <2>10, <3>1, Resting
  <2>11. CASE p = q /\ ProviderRefund(c)
    <3>1. req[r].op = "refund" /\ Accepts(c)
      BY <2>1, <2>11 DEF ProviderRefund, ProviderUpdate
    <3>2. ledger'[d].refunded = ledger[d].refunded + units[r]
      BY <1>0, <2>1, <2>5, <2>6, <2>7, <2>11
      DEF ProviderRefund, ProviderUpdate, TypeOK, Charge
    <3>3. ledger[d].refunded + units[r] =< ledger[d].captured
      BY <2>1, <2>6, <3>1 DEF Accepts
    <3>4. payments[q].status \in CapturedStates /\ units[r] > 0
      BY <1>0, <2>3, <2>4, <3>1 DEF UpdateInv, RowOf
    <3>5. /\ payments[q].captured = ledger[d].captured
          /\ payments[q].refunded =< ledger[d].refunded
          /\ payments[q].status = "refunded" =>
                payments[q].refunded = payments[q].captured
      BY <1>0, <2>5, <2>6, <3>4 DEF RowInv, RowMatches
    <3>6. payments[q] \in Row /\ payments[q].captured =< MaxAmount
      BY <1>0 DEF TypeOK, Row, AmountInv
    <3>7. payments[q].status # "refunded"
      BY <2>7, <3>3, <3>4, <3>5, <3>6 DEF Charge, Row
    <3>8. units[r] \in Amounts
      BY <2>7, <3>3, <3>4, <3>5, <3>6 DEF Charge, Row, Amounts
    <3>9. G(p) = ledger[d].refunded /\ G(p)' = ledger'[d].refunded
      BY <1>1, <2>5, <2>6, <2>11 DEF G, GivenBack
    <3>10. E(p).status \in RefundableStates /\ E(p).captured = payments[q].captured
           /\ E(p)' = E(p)
      BY <1>1, <2>11, <3>4, <3>7 DEF E, Entry, CapturedStates
    <3> QED
      BY <3>2, <3>3, <3>5, <3>8, <3>9, <3>10 DEF Moves, GivesBack
  <2> QED
    BY <2>9, <2>10, <2>11
<1> QED
  BY <1>2, <1>3, <1>4 DEF ProviderStep

(* What a handler writes after its provider call is a booking, a capture, a *)
(* void or the showing of a refund, decided as on the current row.          *)
LEMMA CommitMoves ==
  ASSUME IInv, AmountInv, NEW r \in Requests, Commit(r), NEW q \in Requests
  PROVE  Moves(q)
<1>0. TypeOK /\ ControlInv /\ LedgerInv /\ UnbookedInv /\ CreateInv /\ RowInv
      /\ UpdateInv /\ VoidOrCaptureInv /\ RefundInv
  BY DEF IInv, MoneyInv
<1>1. PICK p \in Requests : p = req[r].payment
  BY <1>0 DEF TypeOK, Request
<1>2. CASE CommitFails(r)
  BY <1>2, Resting DEF CommitFails
<1>3. CASE ~CommitFails(r)
  <2>0. ledger' = ledger /\ Sent(r) /\ Pending(r)
    BY <1>0, <1>3 DEF Commit, CommitCreate, CommitCapture, CommitCancel, CommitRefund,
                      Write, ControlInv, Pending
  <2>1. CASE q # p
    <3>1. payments'[q] = payments[q]
      BY <1>0, <1>1, <1>3, <2>1
      DEF Commit, CommitCreate, CommitCapture, CommitCancel, CommitRefund, Write, TypeOK
    <3> QED
      BY <2>0, <3>1 DEF Moves, Rests, E, G, Entry, GivenBack
  <2>2. CASE CommitCreate(r) /\ q = p
    <3>1. p = r /\ req[r].op = "create" /\ payments[r].status = "absent"
      BY <1>0, <1>1, <2>2 DEF ControlInv, CommitCreate, RowInv, Pending
    <3>2. PICK d \in Refs : d = reply[r].ref
      BY <1>0, <2>0, <3>1 DEF CreateInv
    <3>3. /\ snap[r] = InsertedRow(req[r].amount) /\ units[r] = req[r].amount
          /\ ledger[d].status # "none" /\ RefFree(d) /\ d # NoRef
      BY <1>0, <2>0, <2>2, <3>1, <3>2 DEF CreateInv, CommitCreate, Refs, Calls
    <3>4. ledger[d].refunded = 0
      BY <1>0, <3>2, <3>3 DEF UnbookedInv
    <3>5. /\ payments'[r].ref = d
          /\ payments'[r].status = UnifiedStatus(reply[r].status)
          /\ payments'[r].amount = req[r].amount
          /\ payments'[r].captured = IF reply[r].status = "captured" THEN req[r].amount ELSE 0
      BY <1>0, <1>1, <2>2, <3>1, <3>2, <3>3 DEF CommitCreate, Write, InsertedRow, TypeOK
    <3>6. /\ UnifiedStatus(reply[r].status) \in {"authorized", "captured", "failed"}
          /\ UnifiedStatus(reply[r].status) = "captured" <=> reply[r].status = "captured"
      <4>1. CanTransition("requires_confirmation", UnifiedStatus(reply[r].status))
        BY <2>2, <3>3 DEF CommitCreate, CreateLegal, InsertedRow
      <4>2. reply[r].status \in {"none", "pending", "failed", "authorized", "captured"}
        BY <1>0 DEF TypeOK, Reply
      <4> QED
        BY <4>1, <4>2 DEF CanTransition, Allowed, UnifiedStatus
    <3>7. req[r].amount \in Amounts
      BY <1>0, <3>1 DEF ControlInv, TypeOK, Request, Amounts
    <3>8. E(q)' = [status |-> UnifiedStatus(reply[r].status), amount |-> req[r].amount,
                   captured |-> IF UnifiedStatus(reply[r].status) = "captured"
                                THEN req[r].amount ELSE 0]
      BY <2>2, <3>1, <3>5, <3>6 DEF E, Entry
    <3>9. G(q) = 0 /\ G(q)' = 0 /\ E(q).status = "absent"
      BY <1>0, <2>0, <2>2, <3>1, <3>3, <3>4, <3>5, BookedCharge
      DEF G, GivenBack, E, Entry, NoRow
    <3> QED
      BY <3>6, <3>7, <3>8, <3>9 DEF Moves, IsBooked
  <2>3. CASE ~CommitCreate(r) /\ q = p
    <3>0. /\ payments[p] \in Row /\ units[r] \in Nat /\ snap[r] \in Row
          /\ IsUpdate(r) /\ payments[p].status # "absent"
      BY <1>0, <1>1, <1>3, <2>0, <2>3
      DEF TypeOK, Commit, CommitCapture, CommitCancel, CommitRefund, IsUpdate,
          UpdateInv, RowOf
    <3>1. PICK d \in Refs : d = payments[p].ref /\ d # NoRef
      BY <3>0, BookedCharge
    <3>2. /\ payments'[p].ref = d
          /\ payments'[p].amount = payments[p].amount
      <4>1. CASE CommitCapture(r)
        BY <1>0, <1>1, <3>0, <3>1, <4>1 DEF CommitCapture, Write, TypeOK, Row
      <4>2. CASE CommitCancel(r)
        BY <1>0, <1>1, <3>0, <3>1, <4>2 DEF CommitCancel, Write, TypeOK, Row
      <4>3. CASE CommitRefund(r)
        BY <1>0, <1>1, <3>0, <3>1, <4>3 DEF CommitRefund, Write, TypeOK, Row
      <4> QED
        BY <1>3, <2>3, <4>1, <4>2, <4>3 DEF Commit
    <3>3. G(q)' = G(q) /\ G(q) = ledger[d].refunded
      BY <2>0, <2>3, <3>1, <3>2 DEF G, GivenBack
    <3>4. CASE CommitCapture(r)
      <4>1. payments[p].status = "authorized" /\ units[r] =< payments[p].amount
            /\ units[r] > 0
        BY <1>0, <1>1, <2>0, <3>0, <3>4
        DEF VoidOrCaptureInv, RowOf, CommitCapture, AmountInv, UpdateInv
      <4>2. payments'[p].status = "captured" /\ payments'[p].captured = units[r]
        BY <1>0, <1>1, <3>0, <3>4 DEF CommitCapture, Write, TypeOK, Row
      <4>3. units[r] \in Amounts
        BY <3>0, <4>1 DEF AmountInv, Amounts, Row
      <4>4. E(q)' = [status |-> "captured", amount |-> E(q).amount,
                     captured |-> units[r]]
        BY <2>3, <3>2, <4>2 DEF E, Entry
      <4>5. E(q).status = "authorized" /\ units[r] =< E(q).amount
        BY <2>3, <4>1 DEF E, Entry
      <4> QED
        BY <3>3, <4>3, <4>4, <4>5 DEF Moves, IsCaptured
    <3>5. CASE CommitCancel(r)
      <4>1. payments[p].status = "authorized"
        BY <1>0, <1>1, <2>0, <3>5 DEF VoidOrCaptureInv, RowOf, CommitCancel
      <4>2. payments'[p].status = "canceled" /\ payments'[p].captured = payments[p].captured
        BY <1>0, <1>1, <3>0, <3>5 DEF CommitCancel, Write, TypeOK, Row
      <4>3. E(q)' = [E(q) EXCEPT !.status = "canceled"]
        BY <2>3, <3>2, <4>2 DEF E, Entry
      <4> QED
        BY <2>3, <3>3, <4>1, <4>3 DEF Moves, IsVoided, E, Entry
    <3>6. CASE CommitRefund(r)
      <4>1. /\ payments[p].status \in RefundableStates
            /\ payments[p].refunded + units[r] =< ledger[d].refunded
            /\ snap[r].refunded + units[r] =< ledger[d].refunded
            /\ snap[r].captured = payments[p].captured
            /\ snap[r].status \in RefundableStates
            /\ units[r] > 0
        BY <1>0, <1>1, <2>0, <3>0, <3>1, <3>6
        DEF RefundInv, UpdateInv, RowOf, ChargeOf, CommitRefund
      <4>2. /\ ledger[d] \in Charge
            /\ payments[p].captured = ledger[d].captured
            /\ ledger[d].refunded =< ledger[d].captured
        BY <1>0, <3>0, <3>1, <4>1
        DEF TypeOK, RowInv, RowMatches, LedgerInv, CapturedStates
      <4>3. /\ payments'[p].captured = payments[p].captured
            /\ payments'[p].status = IF RefundTarget(r) = snap[r].status
                                     THEN payments[p].status ELSE RefundTarget(r)
        BY <1>0, <1>1, <3>0, <3>6 DEF CommitRefund, Write, TypeOK, Row
      <4>4. RefundTarget(r) = "refunded" => ledger[d].refunded = payments[p].captured
        BY <3>0, <4>1, <4>2 DEF RefundTarget, Charge, Row
      <4>5. ledger[d].refunded > 0
        BY <3>0, <4>1, <4>2 DEF Charge, Row
      <4>6. CASE payments'[p].status = payments[p].status
        BY <2>3, <3>2, <3>3, <4>3, <4>6 DEF Moves, Rests, E, Entry
      <4>7. CASE payments'[p].status # payments[p].status
        <5>1. payments'[p].status = RefundTarget(r)
          BY <4>3, <4>7
        <5>2. RefundTarget(r) \in {"partially_refunded", "refunded"}
          BY DEF RefundTarget
        <5>3. E(q)' = [E(q) EXCEPT !.status = RefundTarget(r)]
          BY <2>3, <3>2, <4>3, <5>1 DEF E, Entry
        <5>4. E(q).status \in RefundableStates /\ E(q).captured = payments[p].captured
          BY <2>3, <4>1 DEF E, Entry
        <5> QED
          BY <3>3, <4>4, <4>5, <5>2, <5>3, <5>4 DEF Moves, ShowsRefund
      <4> QED
        BY <4>6, <4>7
    <3> QED
      BY <1>3, <2>3, <3>4, <3>5, <3>6 DEF Commit
  <2> QED
    BY <2>1, <2>2, <2>3
<1> QED
  BY <1>2, <1>3

(* Every step of the engine is a step of each payment, or leaves it alone. *)
LEMMA StepMoves ==
  ASSUME Provider = "stripe", IInv, AmountInv, [Next]_vars, NEW p \in Requests
  PROVE  Moves(p)
<1>1. ASSUME NEW r \in Requests,
             Receive(r) \/ Start(r) \/ Reject(r) \/ Timeout(r) \/ Abort(r)
      PROVE  payments' = payments /\ ledger' = ledger
  BY <1>1
  DEF Receive, Start, StartCreate, StartCapture, StartCancel, StartRefund, Send,
      Reject, Timeout, Abort
<1>2. CASE UNCHANGED vars
  BY <1>2, Resting DEF vars
<1> QED
  BY <1>1, <1>2, Resting, ProviderMoves, CommitMoves DEF Next

(* The engine over Stripe, with all its interleavings, retries and lost     *)
(* answers, is an implementation of the ledger the merchant is promised.    *)
THEOREM EngineImplementsLedger ==
  ASSUME Provider = "stripe" PROVE Spec => ImplementsLedger
<1>1. Init => Ledger!LedgerInit
  BY DEF Init, Ledger!LedgerInit, Ledger!NoEntry, Entry, GivenBack, NoRow
<1>2. Init => AmountInv
  <2> SUFFICES ASSUME Init PROVE AmountInv
    OBVIOUS
  <2>1. \A p \in Requests : payments[p].captured = 0 /\ payments[p].amount = 0
    BY DEF Init, NoRow
  <2>2. \A r \in Requests : req[r].op = "none"
    BY DEF Init, NoRequest
  <2> QED
    BY <2>1, <2>2 DEF AmountInv
<1>3. ASSUME IInv, AmountInv, [Next]_vars
      PROVE  [Ledger!LedgerNext]_<<[p \in Requests |-> Entry(payments[p])],
                                   [p \in Requests |-> GivenBack(payments[p])]>>
  <2> SUFFICES ASSUME NEW p \in Requests
               PROVE  \/ Ledger!Rest(p) \/ Ledger!Book(p) \/ Ledger!Capture(p)
                      \/ Ledger!Void(p) \/ Ledger!GiveBack(p) \/ Ledger!ShowRefund(p)
    BY DEF Ledger!LedgerNext
  <2>1. Moves(p)
    BY <1>3, StepMoves
  <2>2. /\ [q \in Requests |-> Entry(payments[q])][p] = E(p)
        /\ [q \in Requests |-> Entry(payments[q])]'[p] = E(p)'
        /\ [q \in Requests |-> GivenBack(payments[q])][p] = G(p)
        /\ [q \in Requests |-> GivenBack(payments[q])]'[p] = G(p)'
    BY DEF E, G
  <2>3. Rests(p) => Ledger!Rest(p)
    BY <2>2 DEF Rests, Ledger!Rest
  <2>4. IsBooked(p) => Ledger!Book(p)
    BY <2>2 DEF IsBooked, Ledger!Book
  <2>5. IsCaptured(p) => Ledger!Capture(p)
    BY <2>2 DEF IsCaptured, Ledger!Capture
  <2>6. IsVoided(p) => Ledger!Void(p)
    BY <2>2 DEF IsVoided, Ledger!Void
  <2>7. GivesBack(p) => Ledger!GiveBack(p)
    BY <2>2 DEF GivesBack, Ledger!GiveBack, RefundableStates, Ledger!RefundableStates
  <2>8. ShowsRefund(p) => Ledger!ShowRefund(p)
    BY <2>2 DEF ShowsRefund, Ledger!ShowRefund, RefundableStates, Ledger!RefundableStates
  <2> QED
    BY <2>1, <2>3, <2>4, <2>5, <2>6, <2>7, <2>8 DEF Moves
<1>4. IInv /\ AmountInv /\ [Next]_vars => AmountInv'
  BY NextAmounts
<1> QED
  BY <1>1, <1>2, <1>3, <1>4, EngineInvariant, PTL
  DEF Spec, ImplementsLedger, Ledger!LedgerSpec
=============================================================================
