------------------------ MODULE PaymentEngineProofs ------------------------
(***************************************************************************)
(* Theorems about the payment engine, for any set of requests and keys,    *)
(* any amounts and any number of retries:                                  *)
(*   types, with either provider;                                          *)
(*   the invariant of PaymentEngineInvariant, which is inductive over      *)
(*   Stripe, and what it gives: the books agree with the provider and      *)
(*   every committed status change is legal;                               *)
(*   refunds, which never add up to more than was captured;                *)
(*   what an Idempotency-Key guarantees: all its successes are one         *)
(*   response, and over Stripe it charges the card at most once.           *)
(***************************************************************************)
EXTENDS PaymentEngineInvariant, FiniteSetTheorems, TLAPS

USE NoKeyAssumption, NoRefAssumption, AmountAssumption, AttemptsAssumption,
    ProviderAssumption

-----------------------------------------------------------------------------
(* Types *)

(* The empty database and the idle provider have their types. *)
LEMMA InitTypeOK == Init => TypeOK
  BY DEF Init, TypeOK, Row, NoRow, PCs, Request, NoRequest, Calls, Refs, Reply,
         NoReply, Charge, NoCharge

(* A row whose status and amounts are rewritten by a capture or a refund is *)
(* a row.                                                                   *)
LEMMA RowUpdate ==
  ASSUME NEW row \in Row, NEW s \in PaymentStatus \cup {"absent"}, NEW n \in Nat
  PROVE  /\ [row EXCEPT !.status = s] \in Row
         /\ [row EXCEPT !.status = s, !.captured = n] \in Row
         /\ [row EXCEPT !.refunded = n, !.status = s] \in Row
  BY DEF Row

(* So is the row of a create after the answer of the provider is filled in. *)
LEMMA RowFirstUpdate ==
  ASSUME NEW row \in Row, NEW s \in PaymentStatus, NEW n \in Nat,
         NEW d \in Refs \cup {NoRef}
  PROVE  [row EXCEPT !.status = s, !.ref = d, !.captured = n] \in Row
  BY DEF Row

(* A charge that a capture, a cancel or a refund rewrites is a charge. *)
LEMMA ChargeUpdate ==
  ASSUME NEW charge \in Charge, NEW n \in Nat
  PROVE  /\ [charge EXCEPT !.status = "canceled"] \in Charge
         /\ [charge EXCEPT !.status = "captured", !.captured = n] \in Charge
         /\ [charge EXCEPT !.refunded = @ + n] \in Charge
<1>1. [charge EXCEPT !.status = "canceled"] \in Charge
  BY DEF Charge
<1>2. [charge EXCEPT !.status = "captured", !.captured = n] \in Charge
  BY DEF Charge
<1>3. [charge EXCEPT !.refunded = @ + n] \in Charge
  BY DEF Charge
<1> QED
  BY <1>1, <1>2, <1>3

(* Every step of the engine keeps every variable in its type. *)
LEMMA NextTypeOK == TypeOK /\ [Next]_vars => TypeOK'
<1> SUFFICES ASSUME TypeOK, [Next]_vars PROVE TypeOK'
  OBVIOUS
<1>1. ASSUME NEW r \in Requests, Receive(r) PROVE TypeOK'
  <2>1. (pc \in [Requests -> PCs])'
    BY <1>1 DEF Receive, Fail, PCs, TypeOK
  <2>2. (req \in [Requests -> Request])'
    BY <1>1 DEF Receive, Fail, TypeOK
  <2>3. (answer \in [Requests -> Requests])'
    BY <1>1 DEF Receive, Fail, StoredBy, TypeOK
  <2>4. UNCHANGED <<payments, snap, units, attempt, wire, executed, reply, ledger>>
    BY <1>1 DEF Receive, Fail
  <2> QED
    BY <2>1, <2>2, <2>3, <2>4 DEF TypeOK
<1>2. ASSUME NEW r \in Requests, StartCreate(r) PROVE TypeOK'
  <2>1. (snap \in [Requests -> Row])'
    <3>1. \A n \in Nat : InsertedRow(n) \in Row
      BY DEF InsertedRow, Row, PaymentStatus
    <3>2. req[r].amount \in Nat
      BY DEF TypeOK, Request
    <3> QED
      BY <1>2, <3>1, <3>2 DEF StartCreate, TypeOK
  <2>2. (units \in [Requests -> Nat])'
    BY <1>2 DEF StartCreate, Send, Request, TypeOK
  <2>3. (pc \in [Requests -> PCs])'
    BY <1>2 DEF StartCreate, Send, PCs, TypeOK
  <2>4. (attempt \in [Requests -> 0 .. MaxAttempts])'
    BY <1>2 DEF StartCreate, Send, TypeOK
  <2>5. (wire \subseteq Calls)'
    BY <1>2 DEF StartCreate, Send, TypeOK, Calls
  <2>6. UNCHANGED <<payments, req, executed, reply, ledger, answer>>
    BY <1>2 DEF StartCreate, Send
  <2> QED
    BY <2>1, <2>2, <2>3, <2>4, <2>5, <2>6 DEF TypeOK
<1>3. ASSUME NEW r \in Requests, StartCapture(r) PROVE TypeOK'
  <2>1. (snap \in [Requests -> Row])'
    BY <1>3 DEF StartCapture, Send, Request, TypeOK
  <2>2. (units \in [Requests -> Nat])'
    BY <1>3 DEF StartCapture, Send, CaptureUnits, Row, Request, TypeOK
  <2>3. (pc \in [Requests -> PCs])'
    BY <1>3 DEF StartCapture, Send, PCs, TypeOK
  <2>4. (attempt \in [Requests -> 0 .. MaxAttempts])'
    BY <1>3 DEF StartCapture, Send, TypeOK
  <2>5. (wire \subseteq Calls)'
    BY <1>3 DEF StartCapture, Send, TypeOK, Calls
  <2>6. UNCHANGED <<payments, req, executed, reply, ledger, answer>>
    BY <1>3 DEF StartCapture, Send
  <2> QED
    BY <2>1, <2>2, <2>3, <2>4, <2>5, <2>6 DEF TypeOK
<1>4. ASSUME NEW r \in Requests, StartCancel(r) PROVE TypeOK'
  <2>1. (snap \in [Requests -> Row])'
    BY <1>4 DEF StartCancel, Send, Request, TypeOK
  <2>2. (pc \in [Requests -> PCs])'
    BY <1>4 DEF StartCancel, Send, PCs, TypeOK
  <2>3. (attempt \in [Requests -> 0 .. MaxAttempts])'
    BY <1>4 DEF StartCancel, Send, TypeOK
  <2>4. (wire \subseteq Calls)'
    BY <1>4 DEF StartCancel, Send, TypeOK, Calls
  <2>5. UNCHANGED <<payments, req, units, executed, reply, ledger, answer>>
    BY <1>4 DEF StartCancel, Send
  <2> QED
    BY <2>1, <2>2, <2>3, <2>4, <2>5 DEF TypeOK
<1>5. ASSUME NEW r \in Requests, StartRefund(r) PROVE TypeOK'
  <2>1. (snap \in [Requests -> Row])'
    BY <1>5 DEF StartRefund, Send, Request, TypeOK
  <2>2. (units \in [Requests -> Nat])'
    BY <1>5
     DEF StartRefund, Send, RefundUnits, Refundable, Row, Request, TypeOK
  <2>3. (pc \in [Requests -> PCs])'
    BY <1>5 DEF StartRefund, Send, PCs, TypeOK
  <2>4. (attempt \in [Requests -> 0 .. MaxAttempts])'
    BY <1>5 DEF StartRefund, Send, TypeOK
  <2>5. (wire \subseteq Calls)'
    BY <1>5 DEF StartRefund, Send, TypeOK, Calls
  <2>6. UNCHANGED <<payments, req, executed, reply, ledger, answer>>
    BY <1>5 DEF StartRefund, Send
  <2> QED
    BY <2>1, <2>2, <2>3, <2>4, <2>5, <2>6 DEF TypeOK
<1>6. ASSUME NEW r \in Requests, Reject(r) PROVE TypeOK'
  <2>1. (pc \in [Requests -> PCs])'
    BY <1>6 DEF Reject, Fail, PCs, TypeOK
  <2>2. (req \in [Requests -> Request])'
    BY <1>6 DEF Reject, Fail, Request, NoRequest, TypeOK
  <2>3. UNCHANGED <<payments, snap, units, attempt, wire, executed, reply, ledger, answer>>
    BY <1>6 DEF Reject, Fail
  <2> QED
    BY <2>1, <2>2, <2>3 DEF TypeOK
<1>7. ASSUME NEW r \in Requests, Timeout(r) PROVE TypeOK'
  <2>1. (pc \in [Requests -> PCs])'
    BY <1>7 DEF Timeout, Fail, PCs, TypeOK
  <2>2. (attempt \in [Requests -> 0 .. MaxAttempts])'
    BY <1>7 DEF Timeout, Fail, TypeOK
  <2>3. (wire \subseteq Calls)'
    BY <1>7 DEF Timeout, Fail, TypeOK, Calls
  <2>4. UNCHANGED <<payments, req, snap, units, executed, reply, ledger, answer>>
    BY <1>7 DEF Timeout, Fail
  <2> QED
    BY <2>1, <2>2, <2>3, <2>4 DEF TypeOK
<1>8. ASSUME NEW r \in Requests, Abort(r) PROVE TypeOK'
  <2>1. (pc \in [Requests -> PCs])'
    BY <1>8 DEF Abort, Fail, PCs, TypeOK
  <2>2. (req \in [Requests -> Request])'
    BY <1>8 DEF Abort, Fail, Request, NoRequest, TypeOK
  <2>3. UNCHANGED <<payments, snap, units, attempt, wire, executed, reply, ledger, answer>>
    BY <1>8 DEF Abort, Fail
  <2> QED
    BY <2>1, <2>2, <2>3 DEF TypeOK
<1>9. ASSUME NEW c \in Calls, ProviderStep(c) PROVE TypeOK'
  <2>0. c[1] \in Requests
    BY DEF Calls
  <2>1. CASE ProviderCreate(c)
    <3>1. (pc \in [Requests -> PCs])'
      BY <2>0, <2>1 DEF ProviderCreate, Take, Deliver, PCs, TypeOK
    <3>2. (wire \subseteq Calls)'
      BY <2>0, <2>1 DEF ProviderCreate, Take, Deliver, TypeOK, Calls
    <3>3. (reply \in [Requests -> Reply])'
      <4>1. \A v \in Verdicts(c[1]) : [ref |-> c, status |-> v] \in Reply
        BY DEF Verdicts, Reply, Refs
      <4> QED
        BY <2>0, <2>1, <4>1 DEF ProviderCreate, Take, Deliver, TypeOK
    <3>4. (executed \subseteq Calls)'
      BY <2>0, <2>1 DEF ProviderCreate, Take, Deliver, TypeOK, Calls
    <3>5. (ledger \in [Refs -> Charge])'
      <4>1. \A v \in Verdicts(c[1]), n \in Nat : NewCharge(v, n) \in Charge
        BY DEF Verdicts, NewCharge, Charge
      <4>2. ledger \in [Refs -> Charge] /\ units[c[1]] \in Nat
        BY <2>0 DEF TypeOK
      <4>3. PICK v \in Verdicts(c[1]) : ledger' = [ledger EXCEPT ![c] = NewCharge(v, units[c[1]])]
        BY <2>1 DEF ProviderCreate
      <4>4. NewCharge(v, units[c[1]]) \in Charge
        BY <4>1, <4>2
      <4> QED
        BY <4>2, <4>3, <4>4
    <3>6. UNCHANGED <<payments, req, snap, units, attempt, answer>>
      BY <2>0, <2>1 DEF ProviderCreate, Take, Deliver
    <3> QED
      BY <3>1, <3>2, <3>3, <3>4, <3>5, <3>6 DEF TypeOK
  <2>2. CASE ProviderReplay(c)
    <3>1. (pc \in [Requests -> PCs])'
      BY <2>0, <2>2 DEF ProviderReplay, Take, Deliver, PCs, TypeOK
    <3>2. (wire \subseteq Calls)'
      BY <2>0, <2>2 DEF ProviderReplay, Take, Deliver, TypeOK, Calls
    <3>3. (reply \in [Requests -> Reply])'
      BY <2>0, <2>2
       DEF ProviderReplay, Take, Deliver, MadeUnderKey, FirstStatus, Reply,
           TypeOK, Calls, Refs, Calls
    <3>4. UNCHANGED <<payments, req, snap, units, attempt, executed, ledger, answer>>
      BY <2>0, <2>2 DEF ProviderReplay, Take, Deliver
    <3> QED
      BY <3>1, <3>2, <3>3, <3>4 DEF TypeOK
  <2>3. CASE ProviderCapture(c)
    <3>1. (pc \in [Requests -> PCs])'
      BY <2>0, <2>3
       DEF ProviderCapture, ProviderUpdate, Take, Deliver, PCs, TypeOK
    <3>2. (wire \subseteq Calls)'
      BY <2>0, <2>3
       DEF ProviderCapture, ProviderUpdate, Take, Deliver, TypeOK, Calls
    <3>3. (reply \in [Requests -> Reply])'
      <4>1. NoReply \in Reply
        BY DEF NoReply, Reply
      <4> QED
        BY <2>0, <2>3, <4>1
         DEF ProviderCapture, ProviderUpdate, Take, Deliver, TypeOK
    <3>4. (executed \subseteq Calls)'
      BY <2>0, <2>3
       DEF ProviderCapture, ProviderUpdate, Take, Deliver, TypeOK, Calls
    <3>5. (ledger \in [Refs -> Charge])'
      <4>1. ledger \in [Refs -> Charge] /\ units[c[1]] \in Nat
        BY <2>0 DEF TypeOK
      <4>2. CASE snap[c[1]].ref \in Refs
        BY <2>0, <2>3, <4>1, <4>2, ChargeUpdate
         DEF ProviderCapture, ProviderUpdate
      <4>3. CASE snap[c[1]].ref \notin Refs
        BY <2>0, <2>3, <4>1, <4>3 DEF ProviderCapture, ProviderUpdate
      <4> QED
        BY <4>2, <4>3
    <3>6. UNCHANGED <<payments, req, snap, units, attempt, answer>>
      BY <2>0, <2>3 DEF ProviderCapture, ProviderUpdate, Take, Deliver
    <3> QED
      BY <3>1, <3>2, <3>3, <3>4, <3>5, <3>6 DEF TypeOK
  <2>4. CASE ProviderCancel(c)
    <3>1. (pc \in [Requests -> PCs])'
      BY <2>0, <2>4
       DEF ProviderCancel, ProviderUpdate, Take, Deliver, PCs, TypeOK
    <3>2. (wire \subseteq Calls)'
      BY <2>0, <2>4
       DEF ProviderCancel, ProviderUpdate, Take, Deliver, TypeOK, Calls
    <3>3. (reply \in [Requests -> Reply])'
      <4>1. NoReply \in Reply
        BY DEF NoReply, Reply
      <4> QED
        BY <2>0, <2>4, <4>1
         DEF ProviderCancel, ProviderUpdate, Take, Deliver, TypeOK
    <3>4. (executed \subseteq Calls)'
      BY <2>0, <2>4
       DEF ProviderCancel, ProviderUpdate, Take, Deliver, TypeOK, Calls
    <3>5. (ledger \in [Refs -> Charge])'
      <4>1. ledger \in [Refs -> Charge] /\ units[c[1]] \in Nat
        BY <2>0 DEF TypeOK
      <4>2. CASE snap[c[1]].ref \in Refs
        BY <2>0, <2>4, <4>1, <4>2, ChargeUpdate
         DEF ProviderCancel, ProviderUpdate
      <4>3. CASE snap[c[1]].ref \notin Refs
        BY <2>0, <2>4, <4>1, <4>3 DEF ProviderCancel, ProviderUpdate
      <4> QED
        BY <4>2, <4>3
    <3>6. UNCHANGED <<payments, req, snap, units, attempt, answer>>
      BY <2>0, <2>4 DEF ProviderCancel, ProviderUpdate, Take, Deliver
    <3> QED
      BY <3>1, <3>2, <3>3, <3>4, <3>5, <3>6 DEF TypeOK
  <2>5. CASE ProviderRefund(c)
    <3>1. (pc \in [Requests -> PCs])'
      BY <2>0, <2>5
       DEF ProviderRefund, ProviderUpdate, Take, Deliver, PCs, TypeOK
    <3>2. (wire \subseteq Calls)'
      BY <2>0, <2>5
       DEF ProviderRefund, ProviderUpdate, Take, Deliver, TypeOK, Calls
    <3>3. (reply \in [Requests -> Reply])'
      <4>1. NoReply \in Reply
        BY DEF NoReply, Reply
      <4> QED
        BY <2>0, <2>5, <4>1
         DEF ProviderRefund, ProviderUpdate, Take, Deliver, TypeOK
    <3>4. (executed \subseteq Calls)'
      BY <2>0, <2>5
       DEF ProviderRefund, ProviderUpdate, Take, Deliver, TypeOK, Calls
    <3>5. (ledger \in [Refs -> Charge])'
      <4>1. ledger \in [Refs -> Charge] /\ units[c[1]] \in Nat
        BY <2>0 DEF TypeOK
      <4>2. CASE snap[c[1]].ref \in Refs
        BY <2>0, <2>5, <4>1, <4>2, ChargeUpdate
         DEF ProviderRefund, ProviderUpdate
      <4>3. CASE snap[c[1]].ref \notin Refs
        BY <2>0, <2>5, <4>1, <4>3 DEF ProviderRefund, ProviderUpdate
      <4> QED
        BY <4>2, <4>3
    <3>6. UNCHANGED <<payments, req, snap, units, attempt, answer>>
      BY <2>0, <2>5 DEF ProviderRefund, ProviderUpdate, Take, Deliver
    <3> QED
      BY <3>1, <3>2, <3>3, <3>4, <3>5, <3>6 DEF TypeOK
  <2>6. CASE ProviderRefuse(c)
    <3>1. (pc \in [Requests -> PCs])'
      BY <2>0, <2>6 DEF ProviderRefuse, Take, Deliver, PCs, TypeOK
    <3>2. (wire \subseteq Calls)'
      BY <2>0, <2>6 DEF ProviderRefuse, Take, Deliver, TypeOK, Calls
    <3>3. (reply \in [Requests -> Reply])'
      <4>1. NoReply \in Reply
        BY DEF NoReply, Reply
      <4> QED
        BY <2>0, <2>6, <4>1 DEF ProviderRefuse, Take, Deliver, TypeOK
    <3>4. UNCHANGED <<payments, req, snap, units, attempt, executed, ledger, answer>>
      BY <2>0, <2>6 DEF ProviderRefuse, Take, Deliver
    <3> QED
      BY <3>1, <3>2, <3>3, <3>4 DEF TypeOK
  <2> QED
    BY <1>9, <2>1, <2>2, <2>3, <2>4, <2>5, <2>6 DEF ProviderStep
<1>10. ASSUME NEW r \in Requests, Commit(r) PROVE TypeOK'
  <2>0. req[r].payment \in Requests
    BY DEF TypeOK, Request
  <2>1. CASE CommitCreate(r)
    <3>1. (pc \in [Requests -> PCs])'
      BY <2>0, <2>1 DEF CommitCreate, Write, PCs, TypeOK
    <3>2. (payments \in [Requests -> Row])'
      <4>1. /\ payments \in [Requests -> Row]
            /\ payments[req[r].payment] \in Row
            /\ snap[r] \in Row
            /\ units[r] \in Nat
        BY <2>0 DEF TypeOK
      <4>2. reply[r].ref \in Refs \cup {NoRef}
        BY <2>0, <2>1, <4>1 DEF TypeOK, Reply
      <4>3. UnifiedStatus(reply[r].status) \in PaymentStatus
        BY <2>0, <2>1, <4>1
         DEF CommitCreate, CreateLegal, CanTransition, Allowed, PaymentStatus
      <4> QED
        BY <2>0, <2>1, <4>1, <4>2, <4>3, RowFirstUpdate DEF CommitCreate, Write
    <3>3. UNCHANGED <<req, snap, units, attempt, wire, executed, reply, ledger, answer>>
      BY <2>0, <2>1 DEF CommitCreate, Write
    <3> QED
      BY <3>1, <3>2, <3>3 DEF TypeOK
  <2>2. CASE CommitCapture(r)
    <3>1. (pc \in [Requests -> PCs])'
      BY <2>0, <2>2 DEF CommitCapture, Write, PCs, TypeOK
    <3>2. (payments \in [Requests -> Row])'
      <4>1. /\ payments \in [Requests -> Row]
            /\ payments[req[r].payment] \in Row
            /\ snap[r] \in Row
            /\ units[r] \in Nat
        BY <2>0 DEF TypeOK
      <4> QED
        BY <2>0, <2>2, <4>1, RowUpdate DEF CommitCapture, Write, PaymentStatus
    <3>3. UNCHANGED <<req, snap, units, attempt, wire, executed, reply, ledger, answer>>
      BY <2>0, <2>2 DEF CommitCapture, Write
    <3> QED
      BY <3>1, <3>2, <3>3 DEF TypeOK
  <2>3. CASE CommitCancel(r)
    <3>1. (pc \in [Requests -> PCs])'
      BY <2>0, <2>3 DEF CommitCancel, Write, PCs, TypeOK
    <3>2. (payments \in [Requests -> Row])'
      <4>1. /\ payments \in [Requests -> Row]
            /\ payments[req[r].payment] \in Row
            /\ snap[r] \in Row
            /\ units[r] \in Nat
        BY <2>0 DEF TypeOK
      <4> QED
        BY <2>0, <2>3, <4>1, RowUpdate DEF CommitCancel, Write, PaymentStatus
    <3>3. UNCHANGED <<req, snap, units, attempt, wire, executed, reply, ledger, answer>>
      BY <2>0, <2>3 DEF CommitCancel, Write
    <3> QED
      BY <3>1, <3>2, <3>3 DEF TypeOK
  <2>4. CASE CommitRefund(r)
    <3>1. (pc \in [Requests -> PCs])'
      BY <2>0, <2>4 DEF CommitRefund, Write, PCs, TypeOK
    <3>2. (payments \in [Requests -> Row])'
      <4>1. /\ payments \in [Requests -> Row]
            /\ payments[req[r].payment] \in Row
            /\ snap[r] \in Row
            /\ units[r] \in Nat
        BY <2>0 DEF TypeOK
      <4>2. snap[r].refunded + units[r] \in Nat
        BY <2>0, <2>4, <4>1 DEF Row
      <4>3. (IF RefundTarget(r) = snap[r].status
             THEN payments[req[r].payment].status ELSE RefundTarget(r))
            \in PaymentStatus \cup {"absent"}
        BY <2>0, <2>4, <4>1 DEF Row, RefundTarget, PaymentStatus
      <4> QED
        BY <2>0, <2>4, <4>1, <4>2, <4>3, RowUpdate DEF CommitRefund, Write
    <3>3. UNCHANGED <<req, snap, units, attempt, wire, executed, reply, ledger, answer>>
      BY <2>0, <2>4 DEF CommitRefund, Write
    <3> QED
      BY <3>1, <3>2, <3>3 DEF TypeOK
  <2>5. CASE CommitFails(r)
    <3>1. (pc \in [Requests -> PCs])'
      BY <2>0, <2>5 DEF CommitFails, Fail, PCs, TypeOK
    <3>2. UNCHANGED <<payments, req, snap, units, attempt, wire, executed, reply, ledger, answer>>
      BY <2>0, <2>5 DEF CommitFails, Fail
    <3> QED
      BY <3>1, <3>2 DEF TypeOK
  <2> QED
    BY <1>10, <2>1, <2>2, <2>3, <2>4, <2>5 DEF Commit
<1>11. CASE UNCHANGED vars
  BY <1>11 DEF vars, TypeOK
<1> QED
  BY <1>1, <1>2, <1>3, <1>4, <1>5, <1>6, <1>7, <1>8, <1>9, <1>10, <1>11
  DEF Next, Start

(* Every variable of the engine always has its type, with either provider. *)
THEOREM TypeCorrect == Spec => []TypeOK
  BY InitTypeOK, NextTypeOK, PTL DEF Spec

-----------------------------------------------------------------------------
(* The invariant of the engine over Stripe *)

(* A step that moves no money and sends no call keeps the money invariant:  *)
(* what a request holds, and what its answer says, is as true as before.    *)
LEMMA Quiet ==
  ASSUME IInv,
         payments' = payments,
         ledger' = ledger,
         \A s \in Requests :
            /\ Sent(s)' => Sent(s)
            /\ Sent(s) => /\ req'[s] = req[s]
                          /\ snap'[s] = snap[s]
                          /\ units'[s] = units[s]
            /\ Pending(s)' => Pending(s) /\ reply'[s] = reply[s]
            /\ pc[s] = "committed" => pc'[s] = "committed"
  PROVE  MoneyInv'
<1>0. \A s \in Requests : /\ Pending(s) => Sent(s)
                          /\ pc[s] = "committed" => Sent(s)
  BY DEF IInv, MoneyInv, ControlInv, Pending
<1>01. \A c \in Refs : c[1] \in Requests
  BY DEF Refs, Calls
<1>02. \A c \in Refs : ledger[c].status # "none" => Sent(c[1])
  BY DEF IInv, MoneyInv, ControlInv, TypeOK, Refs, Calls, Sent
<1>1. LedgerInv'
  BY DEF IInv, MoneyInv, LedgerInv
<1>2. UnbookedInv'
  BY <1>01, <1>02 DEF IInv, MoneyInv, UnbookedInv, RefFree, FirstStatus
<1>3. CreateInv'
  <2> SUFFICES ASSUME NEW r \in Requests, (req[r].op = "create" /\ Sent(r))'
               PROVE  (/\ snap[r] = InsertedRow(req[r].amount)
                       /\ units[r] = req[r].amount
                       /\ Pending(r) =>
                            /\ reply[r].ref \in Refs
                            /\ ledger[reply[r].ref].status # "none"
                            /\ reply[r].status = FirstStatus(reply[r].ref)
                            /\ req[reply[r].ref[1]].amount = req[r].amount)'
    BY DEF CreateInv
  <2>1. Sent(r) /\ req'[r] = req[r]
    OBVIOUS
  <2>2. (snap[r] = InsertedRow(req[r].amount) /\ units[r] = req[r].amount)'
    BY <2>1 DEF IInv, MoneyInv, CreateInv, InsertedRow
  <2> DEFINE d == reply[r].ref
  <2>3. ASSUME Pending(r)'
        PROVE  (/\ d \in Refs
                /\ ledger[d].status # "none"
                /\ reply[r].status = FirstStatus(d)
                /\ req[d[1]].amount = req[r].amount)'
    <3>1. /\ d \in Refs
          /\ ledger[d].status # "none"
          /\ reply[r].status = FirstStatus(d)
          /\ req[d[1]].amount = req[r].amount
      BY <2>1, <2>3 DEF IInv, MoneyInv, CreateInv
    <3>2. reply'[r] = reply[r]
      BY <2>3
    <3>3. req'[d[1]] = req[d[1]]
      BY <3>1, <1>01, <1>02
    <3> QED
      BY <2>1, <3>1, <3>2, <3>3 DEF FirstStatus
  <2> QED
    BY <2>2, <2>3
<1>4. RowInv'
  BY <1>0 DEF IInv, MoneyInv, RowInv, ChargeBookedOnce
<1>5. UpdateInv'
  BY DEF IInv, MoneyInv, UpdateInv, IsUpdate, RowOf, ChargeOf
<1>6. VoidOrCaptureInv'
  BY <1>0 DEF IInv, MoneyInv, VoidOrCaptureInv, RowOf, ChargeOf
<1>7. RefundInv'
  BY <1>0 DEF IInv, MoneyInv, RefundInv, RowOf, ChargeOf
<1> QED BY <1>1, <1>2, <1>3, <1>4, <1>5, <1>6, <1>7 DEF MoneyInv

(* Every step keeps the control part of the invariant.                      *)
LEMMA NextControl ==
  ASSUME IInv, TypeOK', Provider = "stripe", Next PROVE ControlInv'
<1>0. TypeOK /\ ControlInv
  BY DEF IInv
<1>1. ASSUME NEW r \in Requests, Receive(r) PROVE ControlInv'
  <2>1. PICK q \in Request : /\ WellFormed(r, q)
                             /\ req'[r] = q \/ (req' = req /\ pc'[r] = "failed")
                             /\ \A s \in Requests \ {r} : req'[s] = req[s]
    BY <1>0, <1>1 DEF Receive, TypeOK, Fail
  <2>2. /\ pc[r] = "new"
        /\ pc'[r] \in {"accepted", "replayed", "failed"}
        /\ \A s \in Requests \ {r} : pc'[s] = pc[s]
        /\ UNCHANGED <<attempt, wire, ledger>>
    BY <1>0, <1>1 DEF Receive, TypeOK, Fail
  <2>3. q.op # "none" /\ (q.op = "create" => q.payment = r /\ q.amount > 0)
    BY <2>1 DEF WellFormed, Operations
  <2>4. \A c \in Refs : ledger[c].status # "none" => c[1] # r /\ c[1] \in Requests
    BY <1>0, <2>2 DEF ControlInv, Sent, Refs, Calls, TypeOK
  <2> QED
    BY <1>0, <2>1, <2>2, <2>3, <2>4 DEF ControlInv, Sent
<1>2. ASSUME NEW r \in Requests, Start(r) PROVE ControlInv'
  <2>1. /\ pc[r] = "accepted"
        /\ Send(r)
        /\ req' = req
    BY <1>2 DEF Start, StartCreate, StartCapture, StartCancel, StartRefund
  <2>2. attempt[r] = 0 /\ attempt'[r] = 1 /\ pc'[r] = "calling"
    BY <1>0, <2>1 DEF Send, TypeOK, ControlInv, Sent
  <2>3. /\ \A s \in Requests \ {r} : pc'[s] = pc[s] /\ attempt'[s] = attempt[s]
        /\ wire' = wire \cup {<<r, 1>>}
        /\ ledger' = ledger
    BY <1>0, <2>1 DEF Send, TypeOK
  <2>4. \A c \in Refs : ledger[c].status # "none" => c # <<r, 1>> /\ c[1] # r /\ c[1] \in Requests
    BY <1>0, <2>2 DEF ControlInv, Refs, Calls
  <2>5. \A c \in wire : c[1] \in Requests /\ c[1] # r
    BY <1>0, <2>2 DEF ControlInv, TypeOK, Calls
  <2> QED
    BY <1>0, <2>1, <2>2, <2>3, <2>4, <2>5 DEF ControlInv, Sent
<1>3. ASSUME NEW r \in Requests, Timeout(r) PROVE ControlInv'
  <2>1. CASE attempt' = attempt
    BY <1>0, <1>3, <2>1 DEF Timeout, Fail, ControlInv, Sent, TypeOK
  <2>2. CASE attempt' # attempt
    <3>1. /\ pc' = pc /\ req' = req /\ ledger' = ledger
          /\ attempt'[r] = attempt[r] + 1
          /\ \A s \in Requests \ {r} : attempt'[s] = attempt[s]
          /\ wire' = wire \cup {<<r, attempt[r] + 1>>}
          /\ pc[r] = "calling"
      BY <1>0, <1>3, <2>2 DEF Timeout, TypeOK
    <3>2. attempt \in [Requests -> Nat]
      BY <1>0 DEF TypeOK
    <3>3. \A c \in Refs : c \in Requests \X Nat /\ c[1] \in Requests /\ c[2] \in Nat
      BY DEF Refs, Calls
    <3>4. \A c \in Refs : ledger[c].status # "none" => c # <<r, attempt[r] + 1>> /\ c[2] =< attempt'[c[1]]
      BY <1>0, <3>1, <3>2, <3>3 DEF ControlInv
    <3>5. \A c \in wire' : c[2] =< attempt'[c[1]]
      BY <1>0, <3>1, <3>2 DEF ControlInv, TypeOK, Calls
    <3> QED
      BY <1>0, <3>1, <3>2, <3>4, <3>5 DEF ControlInv, Sent
  <2> QED
    BY <2>1, <2>2
<1>4. ASSUME NEW r \in Requests, Reject(r) \/ Abort(r) \/ CommitFails(r) PROVE ControlInv'
  <2>1. /\ pc[r] \in {"accepted", "calling", "replied"}
        /\ pc'[r] = "failed"
        /\ \A s \in Requests \ {r} : pc'[s] = pc[s] /\ req'[s] = req[s]
        /\ req'[r] = req[r] \/ (pc[r] = "accepted" /\ req'[r] = NoRequest(r))
        /\ UNCHANGED <<attempt, wire, ledger>>
    BY <1>0, <1>4 DEF Reject, Abort, CommitFails, Fail, TypeOK
  <2>2. \A c \in Refs : ledger[c].status # "none" => c[1] \in Requests /\ Sent(c[1])
    BY <1>0 DEF ControlInv, Sent, Refs, Calls, TypeOK
  <2> QED
    BY <1>0, <2>1, <2>2 DEF ControlInv, Sent, NoRequest
<1>5. ASSUME NEW r \in Requests, CommitCreate(r) \/ CommitCapture(r) \/ CommitCancel(r) \/ CommitRefund(r)
      PROVE ControlInv'
  <2>1. /\ pc[r] = "replied"
        /\ pc'[r] = "committed"
        /\ \A s \in Requests \ {r} : pc'[s] = pc[s]
        /\ UNCHANGED <<req, attempt, wire, ledger>>
    BY <1>0, <1>5 DEF CommitCreate, CommitCapture, CommitCancel, CommitRefund,
           Write, TypeOK
  <2> QED
    BY <1>0, <2>1 DEF ControlInv, Sent
<1>6. ASSUME NEW c \in Calls, ProviderStep(c) PROVE ControlInv'
  <2>0. c[1] \in Requests
    BY DEF Calls
  <2>1. /\ c \in wire
        /\ wire' = wire \ {c}
        /\ UNCHANGED <<attempt, req>>
    BY <1>6 DEF ProviderStep, ProviderCreate, ProviderReplay, ProviderCapture,
       ProviderCancel, ProviderRefund, ProviderUpdate, ProviderRefuse, Take
  <2>2. \/ pc' = pc
        \/ /\ pc[c[1]] = "calling"
           /\ pc' = [pc EXCEPT ![c[1]] = "replied"]
        \/ /\ pc[c[1]] = "calling"
           /\ pc' = [pc EXCEPT ![c[1]] = "failed"]
    BY <1>6 DEF ProviderStep, ProviderCreate, ProviderReplay, ProviderCapture,
       ProviderCancel, ProviderRefund, ProviderUpdate, ProviderRefuse, Deliver, Awaited
  <2>3. \A d \in Refs : ledger'[d].status # "none" =>
           \/ ledger[d].status # "none"
           \/ d = c /\ req[c[1]].op = "create"
    <3>1. CASE ProviderCreate(c)
      BY <1>0, <3>1 DEF ProviderCreate, TypeOK
    <3>2. CASE ProviderReplay(c) \/ ProviderRefuse(c)
      BY <3>2 DEF ProviderReplay, ProviderRefuse
    <3>3. CASE ProviderCapture(c) \/ ProviderCancel(c) \/ ProviderRefund(c)
      <4>1. ledger[snap[c[1]].ref].status # "none"
        BY <3>3 DEF ProviderCapture, ProviderCancel, ProviderRefund,
               ProviderUpdate, Accepts
      <4>2. PICK charge : ledger' = [ledger EXCEPT ![snap[c[1]].ref] = charge]
        BY <3>3 DEF ProviderCapture, ProviderCancel, ProviderRefund,
               ProviderUpdate
      <4> QED
        BY <1>0, <4>1, <4>2 DEF TypeOK
    <3> QED
      BY <1>6, <3>1, <3>2, <3>3 DEF ProviderStep
  <2>4. \A d \in Refs : ledger'[d].status # "none" =>
           d[2] =< attempt[d[1]] /\ d \notin wire' /\ req[d[1]].op = "create"
    BY <1>0, <2>1, <2>3 DEF ControlInv
  <2>5. \A s \in Requests :
           \/ pc'[s] = pc[s]
           \/ pc[s] = "calling" /\ pc'[s] \in {"replied", "failed"}
    BY <1>0, <2>0, <2>2 DEF TypeOK
  <2> QED
    BY <1>0, <2>1, <2>4, <2>5 DEF ControlInv, Sent
<1> QED
  BY <1>1, <1>2, <1>3, <1>4, <1>5, <1>6 DEF Next, Commit

(* Reading a row and sending the call keeps the money invariant (Start of   *)
(* create, capture, cancel, refund).                                        *)
LEMMA Started ==
  ASSUME IInv, TypeOK', NEW r \in Requests, Start(r)
  PROVE  MoneyInv'
<1>0. TypeOK /\ ControlInv /\ LedgerInv /\ UnbookedInv /\ CreateInv /\ RowInv
      /\ UpdateInv /\ VoidOrCaptureInv /\ RefundInv
  BY DEF IInv, MoneyInv
<1> DEFINE row == payments[req[r].payment]
<1>1. /\ pc[r] = "accepted"
      /\ Send(r)
      /\ req' = req
      /\ payments' = payments /\ ledger' = ledger /\ reply' = reply
  BY DEF Start, StartCreate, StartCapture, StartCancel, StartRefund, Send
<1>2. /\ pc'[r] = "calling" /\ attempt[r] = 0 /\ attempt'[r] = 1
      /\ \A s \in Requests \ {r} : pc'[s] = pc[s] /\ attempt'[s] = attempt[s]
  BY <1>0, <1>1 DEF Send, TypeOK, ControlInv, Sent
<1>3. \A s \in Requests \ {r} : snap'[s] = snap[s] /\ units'[s] = units[s]
  BY <1>0 DEF Start, StartCreate, StartCapture, StartCancel, StartRefund, TypeOK
<1>4. req[r].op = "create" =>
        snap'[r] = InsertedRow(req[r].amount) /\ units'[r] = req[r].amount
  BY <1>0 DEF Start, StartCreate, StartCapture, StartCancel, StartRefund, TypeOK
<1>5. IsUpdate(r) =>
        /\ row \in Row
        /\ row.status # "absent"
        /\ snap'[r] = row
        /\ req[r].op \in {"capture", "refund"} => units'[r] > 0
        /\ req[r].op \in {"capture", "cancel"} => row.status = "authorized"
        /\ req[r].op = "refund" => row.status \in RefundableStates
  <2>0. req[r].payment \in Requests /\ row \in Row /\ req[r].amount \in Nat
    BY <1>0 DEF TypeOK, Request
  <2>1. CASE StartCreate(r)
    BY <2>1 DEF StartCreate, IsUpdate
  <2>2. CASE StartCapture(r)
    <3>1. row.status = "authorized" /\ snap'[r] = row /\ units'[r] = CaptureUnits(r, row)
      BY <1>0, <2>2 DEF StartCapture, CaptureAllowed, TypeOK
    <3>2. row.amount > 0
      BY <1>0, <2>0, <3>1 DEF RowInv
    <3> QED
      BY <2>0, <2>2, <3>1, <3>2 DEF StartCapture, CaptureUnits
  <2>3. CASE StartCancel(r)
    <3>1. row.status \in {"requires_confirmation", "authorized"} /\ snap'[r] = row /\ req[r].op = "cancel"
      BY <1>0, <2>3 DEF StartCancel, CancelAllowed, CanTransition, Allowed,
             TypeOK
    <3> QED
      BY <1>0, <2>0, <3>1 DEF RowInv
  <2>4. CASE StartRefund(r)
    BY <1>0, <2>0, <2>4 DEF StartRefund, RefundAllowed, RefundableStates, TypeOK
  <2> QED
    BY <2>1, <2>2, <2>3, <2>4 DEF Start
<1>6. LedgerInv' /\ UnbookedInv'
  BY <1>0, <1>1 DEF LedgerInv, UnbookedInv, RefFree, FirstStatus
<1>7. CreateInv'
  BY <1>0, <1>1, <1>2, <1>3, <1>4 DEF CreateInv, Pending, Sent, FirstStatus
<1>8. RowInv'
  BY <1>0, <1>1, <1>2 DEF RowInv, ChargeBookedOnce
<1>9. UpdateInv'
  <2>1. IsUpdate(r) => row.ref \in Refs /\ RowMatches(row, ledger[row.ref])
    BY <1>0, <1>5 DEF RowInv, TypeOK, Request
  <2>2. IsUpdate(r) /\ req[r].op = "refund" => row.status \in CapturedStates
                                 /\ row.refunded =< ledger[row.ref].refunded
    BY <1>5, <2>1 DEF RowMatches, CapturedStates
  <2> QED
    BY <1>0, <1>1, <1>2, <1>3, <1>5, <2>1, <2>2
    DEF UpdateInv, IsUpdate, Sent, RowOf, ChargeOf
<1>10. VoidOrCaptureInv'
  BY <1>0, <1>1, <1>2, <1>3 DEF VoidOrCaptureInv, Pending, RowOf, ChargeOf
<1>11. RefundInv'
  BY <1>0, <1>1, <1>2, <1>3, <1>5
     DEF RefundInv, IsUpdate, Pending, Sent, RowOf, ChargeOf
<1> QED BY <1>6, <1>7, <1>8, <1>9, <1>10, <1>11 DEF MoneyInv

(* The provider making a new charge keeps the money invariant.              *)
LEMMA Created ==
  ASSUME IInv, TypeOK', NEW c \in Calls, ProviderCreate(c)
  PROVE  MoneyInv'
<1>0. TypeOK /\ ControlInv /\ LedgerInv /\ UnbookedInv /\ CreateInv /\ RowInv
      /\ UpdateInv /\ VoidOrCaptureInv /\ RefundInv
  BY DEF IInv, MoneyInv
<1> DEFINE r == c[1]
<1> HIDE DEF r
<1>1. r = c[1] /\ r \in Requests /\ c \in Refs /\ req[r].op = "create"
  BY DEF r, Calls, Refs, ProviderCreate
<1>2. UNCHANGED <<payments, req, snap, units, attempt>>
  BY DEF ProviderCreate, Take
<1>3. Sent(r) /\ ledger[c].status = "none"
  BY <1>0, <1>1 DEF ProviderCreate, Take, ControlInv, Calls, TypeOK, Sent
<1>4. units[r] = req[r].amount /\ req[r].amount > 0 /\ req[r].amount \in Nat
  BY <1>0, <1>1, <1>3 DEF CreateInv, ControlInv, TypeOK, Request
<1>5. PICK v \in Verdicts(r) :
        /\ ledger' = [ledger EXCEPT ![c] = NewCharge(v, req[r].amount)]
        /\ \/ pc' = pc /\ reply' = reply
           \/ /\ pc[r] = "calling"
              /\ pc' = [pc EXCEPT ![r] = "replied"]
              /\ reply' = [reply EXCEPT ![r] = [ref |-> c, status |-> v]]
  BY <1>1, <1>4 DEF ProviderCreate, Deliver, Awaited
<1>6. v \in {"failed", "pending", IF req[r].manual THEN "authorized" ELSE "captured"}
  BY DEF Verdicts
<1>7. /\ ledger'[c].status = v
      /\ ledger'[c].amount = req[r].amount
      /\ ledger'[c].captured = (IF v = "captured" THEN req[r].amount ELSE 0)
      /\ ledger'[c].refunded = 0
      /\ \A d \in Refs \ {c} : ledger'[d] = ledger[d]
  BY <1>0, <1>1, <1>5 DEF TypeOK, NewCharge
<1>8. \A d \in Refs : ledger[d].status # "none" => ledger'[d] = ledger[d] /\ d # c
  BY <1>3, <1>7
<1>9. FirstStatus(c)' = v
  BY <1>1, <1>2, <1>6, <1>7 DEF FirstStatus
<1>10. \A s \in Requests : pc'[s] = pc[s] \/ (s = r /\ pc'[s] = "replied" /\ pc[s] = "calling")
  BY <1>0, <1>5 DEF TypeOK
<1>11. \A s \in Requests : payments[s].status # "absent" => payments[s].ref \in Refs /\ payments[s].ref # c
                            /\ ledger'[payments[s].ref] = ledger[payments[s].ref]
  BY <1>0, <1>8 DEF RowInv
<1>12. LedgerInv'
  BY <1>0, <1>4, <1>6, <1>7 DEF LedgerInv
<1>13. UnbookedInv'
  <2>1. \A d \in Refs \ {c} : FirstStatus(d)' = FirstStatus(d)
    BY <1>2, <1>7 DEF FirstStatus
  <2> QED
    BY <1>0, <1>1, <1>2, <1>7, <1>9, <2>1 DEF UnbookedInv, RefFree
<1>14. CreateInv'
  <2> SUFFICES ASSUME NEW s \in Requests, (req[s].op = "create" /\ Sent(s) /\ Pending(s))'
               PROVE  (/\ reply[s].ref \in Refs
                       /\ ledger[reply[s].ref].status # "none"
                       /\ reply[s].status = FirstStatus(reply[s].ref)
                       /\ req[reply[s].ref[1]].amount = req[s].amount)'
    BY <1>0, <1>2 DEF CreateInv, Sent
  <2>1. CASE pc'[s] = pc[s] /\ reply'[s] = reply[s]
    <3>1. /\ reply[s].ref \in Refs
          /\ ledger[reply[s].ref].status # "none"
          /\ reply[s].status = FirstStatus(reply[s].ref)
          /\ req[reply[s].ref[1]].amount = req[s].amount
      BY <1>0, <1>2, <2>1 DEF CreateInv, Sent, Pending
    <3> QED
      BY <1>2, <1>8, <2>1, <3>1 DEF FirstStatus
  <2>2. CASE s = r /\ reply'[r] = [ref |-> c, status |-> v]
    BY <1>1, <1>2, <1>6, <1>7, <1>9, <2>2
  <2> QED
    BY <1>0, <1>5, <2>1, <2>2 DEF TypeOK
<1>15. RowInv'
  BY <1>0, <1>1, <1>2, <1>8, <1>10 DEF RowInv, ChargeBookedOnce
<1>16. UpdateInv'
  BY <1>0, <1>2, <1>11
     DEF UpdateInv, IsUpdate, Sent, RowOf, ChargeOf, TypeOK, Request
<1>17. VoidOrCaptureInv'
  <2>1. \A s \in Requests : Pending(s)' /\ req[s].op # "create" => Pending(s) /\ Sent(s)
    BY <1>0, <1>1, <1>10 DEF Pending, ControlInv
  <2>2. \A s \in Requests : IsUpdate(s) /\ Sent(s) => ChargeOf(s)' = ChargeOf(s)
    BY <1>0, <1>2, <1>11 DEF UpdateInv, RowOf, ChargeOf, TypeOK, Request
  <2> QED
    BY <1>0, <1>2, <2>1, <2>2 DEF VoidOrCaptureInv, RowOf, IsUpdate
<1>18. RefundInv'
  <2>1. \A s \in Requests : Pending(s)' /\ req[s].op # "create" => Pending(s) /\ Sent(s)
    BY <1>0, <1>1, <1>10 DEF Pending, ControlInv
  <2>2. \A s \in Requests : IsUpdate(s) /\ Sent(s) => ChargeOf(s)' = ChargeOf(s)
    BY <1>0, <1>2, <1>11 DEF UpdateInv, RowOf, ChargeOf, TypeOK, Request
  <2> QED
    BY <1>0, <1>2, <2>1, <2>2 DEF RefundInv, RowOf, IsUpdate, Sent
<1> QED BY <1>12, <1>13, <1>14, <1>15, <1>16, <1>17, <1>18 DEF MoneyInv

(* Stripe repeating its first answer under a known key keeps the money      *)
(* invariant.                                                               *)
LEMMA Replayed ==
  ASSUME IInv, TypeOK', NEW c \in Calls, ProviderReplay(c)
  PROVE  MoneyInv'
<1>0. TypeOK /\ ControlInv /\ LedgerInv /\ UnbookedInv /\ CreateInv /\ RowInv
      /\ UpdateInv /\ VoidOrCaptureInv /\ RefundInv
  BY DEF IInv, MoneyInv
<1> DEFINE r == c[1]
<1> HIDE DEF r
<1>1. r = c[1] /\ r \in Requests /\ req[r].op = "create"
  BY DEF r, Calls, ProviderReplay
<1>2. UNCHANGED <<payments, req, snap, units, attempt, ledger>>
  BY DEF ProviderReplay, Take
<1>3. PICK d \in MadeUnderKey(c) :
        /\ Body(req[d[1]]) = Body(req[r])
        /\ \/ pc' = pc /\ reply' = reply
           \/ /\ pc[r] = "calling"
              /\ pc' = [pc EXCEPT ![r] = "replied"]
              /\ reply' = [reply EXCEPT ![r] = [ref |-> d, status |-> FirstStatus(d)]]
  BY <1>1 DEF ProviderReplay, Deliver, Awaited
<1>4. d \in Refs /\ ledger[d].status # "none"
  BY <1>3 DEF MadeUnderKey
<1>5. req[d[1]].amount = req[r].amount
  BY <1>0, <1>1, <1>3, <1>4 DEF ControlInv, Body
<1>6. \A s \in Requests : pc'[s] = pc[s] \/ (s = r /\ pc'[s] = "replied" /\ pc[s] = "calling")
  BY <1>0, <1>3 DEF TypeOK
<1>7. \A s \in Requests : Pending(s)' /\ req[s].op # "create" => Pending(s)
  BY <1>1, <1>6 DEF Pending
<1>8. LedgerInv' /\ UnbookedInv' /\ UpdateInv'
  BY <1>0, <1>2 DEF LedgerInv, UnbookedInv, RefFree, FirstStatus, UpdateInv,
         IsUpdate,
                    Sent, RowOf, ChargeOf
<1>9. CreateInv'
  <2> SUFFICES ASSUME NEW s \in Requests, (req[s].op = "create" /\ Sent(s) /\ Pending(s))'
               PROVE  (/\ reply[s].ref \in Refs
                       /\ ledger[reply[s].ref].status # "none"
                       /\ reply[s].status = FirstStatus(reply[s].ref)
                       /\ req[reply[s].ref[1]].amount = req[s].amount)'
    BY <1>0, <1>2 DEF CreateInv, Sent
  <2>1. CASE pc'[s] = pc[s] /\ reply'[s] = reply[s]
    BY <1>0, <1>2, <2>1 DEF CreateInv, Sent, Pending, FirstStatus
  <2>2. CASE s = r /\ reply'[r] = [ref |-> d, status |-> FirstStatus(d)]
    BY <1>2, <1>4, <1>5, <2>2 DEF FirstStatus
  <2> QED
    BY <1>0, <1>3, <2>1, <2>2 DEF TypeOK
<1>10. RowInv'
  BY <1>0, <1>2, <1>6 DEF RowInv, ChargeBookedOnce
<1>11. VoidOrCaptureInv'
  BY <1>0, <1>2, <1>7 DEF VoidOrCaptureInv, RowOf, ChargeOf
<1>12. RefundInv'
  BY <1>0, <1>2, <1>7 DEF RefundInv, RowOf, ChargeOf, Sent
<1> QED BY <1>8, <1>9, <1>10, <1>11, <1>12 DEF MoneyInv

(* The provider capturing or voiding a charge keeps the money invariant: it *)
(* accepts only while the charge is authorized, so no other capture or      *)
(* cancel of the payment has its answer.                                    *)
LEMMA Updated ==
  ASSUME IInv, TypeOK', Provider = "stripe", NEW c \in Calls,
         ProviderCapture(c) \/ ProviderCancel(c)
  PROVE  MoneyInv'
<1>0. TypeOK /\ ControlInv /\ LedgerInv /\ UnbookedInv /\ CreateInv /\ RowInv
      /\ UpdateInv /\ VoidOrCaptureInv /\ RefundInv
  BY DEF IInv, MoneyInv
<1>01. PICK r \in Requests : r = c[1]
  BY DEF Calls
<1>02. PICK p \in Requests : p = req[r].payment
  BY <1>0 DEF TypeOK, Request
<1>03. PICK d : d = payments[p].ref
  OBVIOUS
<1>1. /\ r = c[1] /\ r \in Requests
      /\ p = req[r].payment /\ p \in Requests
      /\ d = payments[p].ref
      /\ req[r].op \in {"capture", "cancel"}
  BY <1>01, <1>02, <1>03 DEF ProviderCapture, ProviderCancel
<1>2. UNCHANGED <<payments, req, snap, units, attempt>>
  BY DEF ProviderCapture, ProviderCancel, ProviderUpdate, Take
<1>3. Sent(r) /\ IsUpdate(r)
  BY <1>0, <1>1 DEF ProviderCapture, ProviderCancel, ProviderUpdate, Take,
         ControlInv,
                    Calls, TypeOK, Sent, IsUpdate
<1>4. /\ payments[p].status # "absent"
      /\ snap[r].ref = d /\ d \in Refs
      /\ req[r].op = "capture" => units[r] > 0
      /\ units[r] \in Nat
  BY <1>0, <1>1, <1>3 DEF UpdateInv, RowInv, RowOf, TypeOK
<1>5. ledger[d].status = "authorized"
  BY <1>1, <1>4 DEF ProviderCapture, ProviderCancel, ProviderUpdate, Accepts
<1>6. payments[p].status = "authorized" /\ ledger[d].captured = 0 /\ ledger[d].refunded = 0
  <2>1. RowMatches(payments[p], ledger[d]) /\ payments[p] \in Row
        /\ payments[p].status # "requires_confirmation"
    BY <1>0, <1>1, <1>4 DEF RowInv, TypeOK
  <2>2. ledger[d].captured = 0 /\ ledger[d].refunded = 0
    BY <1>0, <1>4, <1>5 DEF LedgerInv, TypeOK, Charge
  <2> QED
    BY <1>4, <1>5, <2>1, <2>2
       DEF RowMatches, CapturedStates, RefundableStates, Row, PaymentStatus
<1>7. /\ \A e \in Refs \ {d} : ledger'[e] = ledger[e]
      /\ ledger'[d].amount = ledger[d].amount
      /\ ledger'[d].refunded = 0
      /\ req[r].op = "capture" => ledger'[d].status = "captured" /\ ledger'[d].captured = units[r]
      /\ req[r].op = "cancel" => ledger'[d].status = "canceled" /\ ledger'[d].captured = 0
  <2>1. ledger[d] \in Charge /\ ledger \in [Refs -> Charge]
    BY <1>0, <1>4 DEF TypeOK
  <2>2. CASE ProviderCapture(c)
    BY <1>1, <1>4, <1>6, <2>1, <2>2 DEF ProviderCapture, ProviderUpdate, Charge
  <2>3. CASE ProviderCancel(c)
    BY <1>1, <1>4, <1>6, <2>1, <2>3 DEF ProviderCancel, ProviderUpdate, Charge
  <2> QED
    BY <2>2, <2>3
<1>8. \/ pc' = pc /\ reply' = reply
      \/ /\ pc[r] = "calling"
         /\ pc' = [pc EXCEPT ![r] = "replied"]
         /\ \A s \in Requests \ {r} : reply'[s] = reply[s]
  BY <1>0, <1>1 DEF ProviderCapture, ProviderCancel, ProviderUpdate, Deliver,
         Awaited, TypeOK
<1>9. \A s \in Requests : \/ pc'[s] = pc[s]
                          \/ s = r /\ pc'[s] = "replied" /\ pc[s] = "calling"
  BY <1>0, <1>8 DEF TypeOK
<1>10. \A q \in Requests \ {p} : payments[q].status # "absent" =>
          payments[q].ref # d /\ payments[q].ref \in Refs
  <2>1. d # NoRef
    BY <1>4 DEF Refs, Calls
  <2> QED
    BY <1>0, <1>1, <1>4, <2>1 DEF RowInv, ChargeBookedOnce
<1>11. \A e \in Refs : /\ FirstStatus(e)' = FirstStatus(e)
                       /\ ledger'[e].status = "none" <=> ledger[e].status = "none"
  <2> SUFFICES ASSUME NEW e \in Refs
               PROVE  /\ FirstStatus(e)' = FirstStatus(e)
                      /\ ledger'[e].status = "none" <=> ledger[e].status = "none"
    OBVIOUS
  <2>1. req' = req
    BY <1>2
  <2>2. CASE e = d
    <3>1. ledger'[d].status \in {"captured", "canceled"}
      BY <1>1, <1>7
    <3> QED
      BY <1>5, <2>1, <2>2, <3>1 DEF FirstStatus
  <2>3. CASE e # d
    <3>1. ledger'[e] = ledger[e]
      BY <1>7, <2>3
    <3> QED
      BY <2>1, <3>1 DEF FirstStatus
  <2> QED
    BY <2>2, <2>3
<1>12. \A s \in Requests : /\ req[s].payment \in Requests
                           /\ req[s].op \in {"create", "capture", "cancel", "refund", "none"}
  BY <1>0 DEF TypeOK, Request, Operations
<1>13. \A s \in Requests \ {r} : Pending(s)' =>
          /\ Pending(s)
          /\ Sent(s)
          /\ req[s].op # "create" => req[s].payment # p
  <2> SUFFICES ASSUME NEW s \in Requests \ {r}, Pending(s)'
               PROVE  Pending(s) /\ Sent(s) /\ (req[s].op # "create" => req[s].payment # p)
    OBVIOUS
  <2>1. Pending(s) /\ Sent(s) /\ req[s].op # "none"
    BY <1>0, <1>9 DEF Pending, ControlInv
  <2>2. CASE req[s].op \in {"capture", "cancel"}
    BY <1>0, <1>1, <1>5, <2>1, <2>2 DEF VoidOrCaptureInv, RowOf, ChargeOf
  <2>3. CASE req[s].op = "refund"
    BY <1>0, <1>6, <2>1, <2>3 DEF RefundInv, RowOf, RefundableStates
  <2> QED
    BY <1>12, <2>1, <2>2, <2>3
<1>14. \A s \in Requests : IsUpdate(s) /\ Sent(s) /\ req[s].payment # p =>
          ChargeOf(s)' = ChargeOf(s)
  <2> SUFFICES ASSUME NEW s \in Requests, IsUpdate(s), Sent(s), req[s].payment # p
               PROVE  ChargeOf(s)' = ChargeOf(s)
    OBVIOUS
  <2>1. RowOf(s)' = RowOf(s)
    BY <1>2 DEF RowOf
  <2>2. RowOf(s).ref # d /\ RowOf(s).ref \in Refs
    BY <1>0, <1>10, <1>12 DEF UpdateInv, RowOf
  <2> QED
    BY <1>7, <2>1, <2>2 DEF ChargeOf
<1>15. \A s \in Requests : Sent(s) /\ req[s].op = "refund" =>
          IsUpdate(s) /\ req[s].payment # p
  BY <1>0, <1>6 DEF UpdateInv, IsUpdate, RowOf, CapturedStates, RefundableStates
<1>16. LedgerInv'
  <2> SUFFICES ASSUME NEW e \in Refs
               PROVE  /\ ledger'[e].refunded =< ledger'[e].captured
                      /\ ledger'[e].status = "captured" <=> ledger'[e].captured > 0
    BY DEF LedgerInv
  <2>1. CASE e = d
    <3>1. CASE req[r].op = "capture"
      BY <1>4, <1>7, <2>1, <3>1
    <3>2. CASE req[r].op = "cancel"
      BY <1>7, <2>1, <3>2
    <3> QED
      BY <1>1, <3>1, <3>2
  <2>2. CASE e # d
    <3>1. ledger'[e] = ledger[e]
      BY <1>7, <2>2
    <3> QED
      BY <1>0, <3>1 DEF LedgerInv
  <2> QED
    BY <2>1, <2>2
<1>17. UnbookedInv'
  <2>1. \A e \in Refs : RefFree(e)' => RefFree(e) /\ e # d
    BY <1>1, <1>2 DEF RefFree
  <2> QED
    BY <1>0, <1>2, <1>7, <1>11, <2>1 DEF UnbookedInv
<1>18. CreateInv'
  BY <1>0, <1>1, <1>2, <1>8, <1>9, <1>11 DEF CreateInv, Sent, Pending, TypeOK
<1>19. RowInv'
  <2>1. RowMatches(payments[p], ledger'[d])
    BY <1>0, <1>1, <1>4, <1>6, <1>7
       DEF RowInv, RowMatches, CapturedStates, RefundableStates
  <2>2. \A q \in Requests : pc[q] = "committed" => pc'[q] = "committed"
    BY <1>9
  <2>3. \A q \in Requests : payments[q].status # "absent" =>
           RowMatches(payments[q], ledger'[payments[q].ref])
    <3> SUFFICES ASSUME NEW q \in Requests, payments[q].status # "absent"
                 PROVE  RowMatches(payments[q], ledger'[payments[q].ref])
      OBVIOUS
    <3>1. CASE q = p
      BY <1>1, <2>1, <3>1
    <3>2. CASE q # p
      <4>1. ledger'[payments[q].ref] = ledger[payments[q].ref]
        BY <1>7, <1>10, <3>2
      <4>2. RowMatches(payments[q], ledger[payments[q].ref])
        BY <1>0 DEF RowInv
      <4> QED
        BY <4>1, <4>2 DEF RowMatches
    <3> QED
      BY <3>1, <3>2
  <2> QED
    BY <1>0, <1>2, <1>11, <2>2, <2>3 DEF RowInv, ChargeBookedOnce
<1>20. UpdateInv'
  BY <1>0, <1>2, <1>14, <1>15 DEF UpdateInv, IsUpdate, Sent, RowOf
<1>21. VoidOrCaptureInv'
  <2>1. \A s \in Requests \ {r} : Pending(s)' /\ req[s].op \in {"capture", "cancel"} =>
           Pending(s) /\ req[s].payment # p /\ ChargeOf(s)' = ChargeOf(s)
    BY <1>13, <1>14 DEF IsUpdate
  <2>2. RowOf(r)' = payments[p] /\ ChargeOf(r)' = ledger'[d]
    BY <1>1, <1>2 DEF RowOf, ChargeOf
  <2>3. \A s \in Requests \ {r} :
           /\ (Pending(s) /\ req[s].op = "capture")' =>
                 (/\ RowOf(s).status = "authorized"
                  /\ ChargeOf(s).status = "captured"
                  /\ ChargeOf(s).captured = units[s])'
           /\ (Pending(s) /\ req[s].op = "cancel")' =>
                 (/\ RowOf(s).status = "authorized"
                  /\ ChargeOf(s).status = "canceled")'
    BY <1>0, <1>2, <2>1 DEF VoidOrCaptureInv, RowOf
  <2>4. \A s, t \in Requests :
           /\ (Pending(s) /\ req[s].op \in {"capture", "cancel"})'
           /\ (Pending(t) /\ req[t].op \in {"capture", "cancel"})'
           /\ (req[s].payment = req[t].payment)'
           => s = t
    BY <1>0, <1>1, <1>2, <2>1 DEF VoidOrCaptureInv
  <2>5. /\ (Pending(r) /\ req[r].op = "capture")' =>
              (/\ RowOf(r).status = "authorized"
               /\ ChargeOf(r).status = "captured"
               /\ ChargeOf(r).captured = units[r])'
        /\ (Pending(r) /\ req[r].op = "cancel")' =>
              (/\ RowOf(r).status = "authorized"
               /\ ChargeOf(r).status = "canceled")'
    BY <1>1, <1>2, <1>6, <1>7, <2>2
  <2> QED
    BY <2>3, <2>4, <2>5 DEF VoidOrCaptureInv
<1>22. RefundInv'
  <2>1. \A s \in Requests : Pending(s)' /\ req[s].op = "refund" =>
           Pending(s) /\ Sent(s) /\ ChargeOf(s)' = ChargeOf(s)
    BY <1>1, <1>13, <1>14, <1>15
  <2> QED
    BY <1>0, <1>1, <1>2, <1>13, <2>1 DEF RefundInv, RowOf, Sent
<1> QED BY <1>16, <1>17, <1>18, <1>19, <1>20, <1>21, <1>22 DEF MoneyInv

(* The provider refunding keeps the money invariant: its own total is what  *)
(* covers every refund that has its answer.                                 *)
LEMMA RefundExecuted ==
  ASSUME IInv, TypeOK', Provider = "stripe", NEW c \in Calls,
         ProviderRefund(c)
  PROVE  MoneyInv'
<1>0. TypeOK /\ ControlInv /\ LedgerInv /\ UnbookedInv /\ CreateInv /\ RowInv
      /\ UpdateInv /\ VoidOrCaptureInv /\ RefundInv
  BY DEF IInv, MoneyInv
<1>01. PICK r \in Requests : r = c[1]
  BY DEF Calls
<1>02. PICK p \in Requests : p = req[r].payment
  BY <1>0 DEF TypeOK, Request
<1>03. PICK d : d = payments[p].ref
  OBVIOUS
<1>1. /\ r = c[1] /\ r \in Requests
      /\ p = req[r].payment /\ p \in Requests
      /\ d = payments[p].ref
      /\ req[r].op = "refund"
  BY <1>01, <1>02, <1>03 DEF ProviderRefund
<1>2. UNCHANGED <<payments, req, snap, units, attempt>>
  BY DEF ProviderRefund, ProviderUpdate, Take
<1>3. Sent(r) /\ IsUpdate(r)
  BY <1>0, <1>1 DEF ProviderRefund, ProviderUpdate, Take, ControlInv,
                    Calls, TypeOK, Sent, IsUpdate
<1>4. /\ payments[p].status \in CapturedStates
      /\ snap[r].ref = d /\ d \in Refs
      /\ units[r] > 0 /\ units[r] \in Nat
      /\ snap[r].refunded =< ledger[d].refunded
      /\ snap[r].refunded \in Nat
      /\ payments[p].refunded \in Nat
      /\ ledger[d].refunded \in Nat
  <2>1. /\ payments[p].status \in CapturedStates
        /\ payments[p].status # "absent"
        /\ snap[r].ref = d
        /\ units[r] > 0
        /\ snap[r].refunded =< ledger[d].refunded
    BY <1>0, <1>1, <1>3 DEF UpdateInv, RowOf, ChargeOf
  <2>2. d \in Refs
    BY <1>0, <1>1, <2>1 DEF RowInv
  <2> QED
    BY <1>0, <2>1, <2>2 DEF TypeOK, Row, Charge
<1>5. /\ ledger[d].status = "captured"
      /\ ledger[d].refunded + units[r] =< ledger[d].captured
  BY <1>1, <1>4 DEF ProviderRefund, ProviderUpdate, Accepts
<1>6. /\ payments[p].status \in RefundableStates
      /\ payments[p].refunded =< ledger[d].refunded
  <2>1. RowMatches(payments[p], ledger[d])
    BY <1>0, <1>1, <1>4 DEF RowInv, CapturedStates, RefundableStates
  <2>2. /\ payments[p].captured = ledger[d].captured
        /\ payments[p].refunded =< ledger[d].refunded
        /\ payments[p].status = "refunded" => payments[p].refunded = payments[p].captured
    BY <1>4, <2>1 DEF RowMatches
  <2>3. ledger[d].captured \in Nat
    BY <1>0, <1>4 DEF TypeOK, Charge
  <2> QED
    BY <1>4, <1>5, <2>2, <2>3 DEF CapturedStates
<1>7. /\ \A e \in Refs \ {d} : ledger'[e] = ledger[e]
      /\ ledger'[d].amount = ledger[d].amount
      /\ ledger'[d].status = "captured"
      /\ ledger'[d].captured = ledger[d].captured
      /\ ledger'[d].refunded = ledger[d].refunded + units[r]
  <2>1. ledger[d] \in Charge /\ ledger \in [Refs -> Charge]
    BY <1>0, <1>4 DEF TypeOK
  <2> QED
    BY <1>1, <1>4, <1>5, <2>1 DEF ProviderRefund, ProviderUpdate, Charge
<1>8. \/ pc' = pc /\ reply' = reply
      \/ /\ pc[r] = "calling"
         /\ pc' = [pc EXCEPT ![r] = "replied"]
         /\ \A s \in Requests \ {r} : reply'[s] = reply[s]
  BY <1>0, <1>1 DEF ProviderRefund, ProviderUpdate, Deliver, Awaited, TypeOK
<1>9. \A s \in Requests : \/ pc'[s] = pc[s]
                          \/ s = r /\ pc'[s] = "replied" /\ pc[s] = "calling"
  BY <1>0, <1>8 DEF TypeOK
<1>10. \A q \in Requests \ {p} : payments[q].status # "absent" =>
          payments[q].ref # d /\ payments[q].ref \in Refs
  <2>1. d # NoRef
    BY <1>4 DEF Refs, Calls
  <2> QED
    BY <1>0, <1>1, <1>4, <2>1 DEF RowInv, ChargeBookedOnce
<1>11. \A e \in Refs : /\ FirstStatus(e)' = FirstStatus(e)
                       /\ ledger'[e].status = "none" <=> ledger[e].status = "none"
  <2> SUFFICES ASSUME NEW e \in Refs
               PROVE  /\ FirstStatus(e)' = FirstStatus(e)
                      /\ ledger'[e].status = "none" <=> ledger[e].status = "none"
    OBVIOUS
  <2>1. req' = req
    BY <1>2
  <2>2. CASE e = d
    <3>1. ledger'[d].status \in {"captured", "canceled"}
      BY <1>1, <1>7
    <3> QED
      BY <1>5, <2>1, <2>2, <3>1 DEF FirstStatus
  <2>3. CASE e # d
    <3>1. ledger'[e] = ledger[e]
      BY <1>7, <2>3
    <3> QED
      BY <2>1, <3>1 DEF FirstStatus
  <2> QED
    BY <2>2, <2>3
<1>12. \A s \in Requests : /\ req[s].payment \in Requests
                           /\ req[s].op \in {"create", "capture", "cancel", "refund", "none"}
  BY <1>0 DEF TypeOK, Request, Operations
<1>13. \A s \in Requests \ {r} : Pending(s)' => Pending(s) /\ Sent(s)
  BY <1>0, <1>9 DEF Pending, ControlInv
<1>14. \A s \in Requests : IsUpdate(s) /\ Sent(s) =>
          \/ req[s].payment # p /\ ChargeOf(s)' = ChargeOf(s)
          \/ req[s].payment = p /\ ChargeOf(s) = ledger[d] /\ ChargeOf(s)' = ledger'[d]
  <2> SUFFICES ASSUME NEW s \in Requests, IsUpdate(s), Sent(s)
               PROVE  \/ req[s].payment # p /\ ChargeOf(s)' = ChargeOf(s)
                      \/ /\ req[s].payment = p
                         /\ ChargeOf(s) = ledger[d]
                         /\ ChargeOf(s)' = ledger'[d]
    OBVIOUS
  <2>1. CASE req[s].payment = p
    BY <1>1, <1>2, <2>1 DEF RowOf, ChargeOf
  <2>2. CASE req[s].payment # p
    <3>1. RowOf(s).status # "absent"
      BY <1>0 DEF UpdateInv
    <3>2. RowOf(s).ref \in Refs \ {d}
      BY <1>10, <1>12, <2>2, <3>1 DEF RowOf
    <3> QED
      BY <1>2, <1>7, <2>2, <3>2 DEF RowOf, ChargeOf
  <2> QED
    BY <2>1, <2>2
<1>15. \A s \in Requests : IsUpdate(s) /\ Sent(s) =>
          /\ ChargeOf(s).refunded \in Nat
          /\ ChargeOf(s)'.status = ChargeOf(s).status
          /\ ChargeOf(s)'.captured = ChargeOf(s).captured
          /\ ChargeOf(s)'.refunded >= ChargeOf(s).refunded
  <2>1. \A s \in Requests : IsUpdate(s) /\ Sent(s) => RowOf(s).ref \in Refs
    BY <1>0, <1>12 DEF UpdateInv, RowInv, RowOf
  <2>2. \A s \in Requests : IsUpdate(s) /\ Sent(s) => ChargeOf(s).refunded \in Nat
    BY <1>0, <2>1 DEF TypeOK, Charge, ChargeOf
  <2> QED
    BY <1>4, <1>5, <1>7, <1>14, <2>2
<1>16. LedgerInv'
  BY <1>0, <1>4, <1>5, <1>7 DEF LedgerInv
<1>17. UnbookedInv'
  <2>1. \A e \in Refs : RefFree(e)' => RefFree(e) /\ e # d
    BY <1>1, <1>2 DEF RefFree
  <2> QED
    BY <1>0, <1>2, <1>7, <1>11, <2>1 DEF UnbookedInv
<1>18. CreateInv'
  BY <1>0, <1>1, <1>2, <1>8, <1>9, <1>11 DEF CreateInv, Sent, Pending, TypeOK
<1>19. RowInv'
  <2>1. RowMatches(payments[p], ledger'[d])
    <3>1. RowMatches(payments[p], ledger[d])
      BY <1>0, <1>1, <1>4 DEF RowInv, CapturedStates, RefundableStates
    <3> QED
      BY <1>4, <1>5, <1>6, <1>7, <3>1
         DEF RowMatches, CapturedStates, RefundableStates
  <2>2. \A q \in Requests : pc[q] = "committed" => pc'[q] = "committed"
    BY <1>9
  <2>3. \A q \in Requests : payments[q].status # "absent" =>
           RowMatches(payments[q], ledger'[payments[q].ref])
    <3> SUFFICES ASSUME NEW q \in Requests, payments[q].status # "absent"
                 PROVE  RowMatches(payments[q], ledger'[payments[q].ref])
      OBVIOUS
    <3>1. CASE q = p
      BY <1>1, <2>1, <3>1
    <3>2. CASE q # p
      <4>1. ledger'[payments[q].ref] = ledger[payments[q].ref]
        BY <1>7, <1>10, <3>2
      <4>2. RowMatches(payments[q], ledger[payments[q].ref])
        BY <1>0 DEF RowInv
      <4> QED
        BY <4>1, <4>2 DEF RowMatches
    <3> QED
      BY <3>1, <3>2
  <2> QED
    BY <1>0, <1>2, <1>11, <2>2, <2>3 DEF RowInv, ChargeBookedOnce
<1>20. UpdateInv'
  <2> SUFFICES ASSUME NEW s \in Requests, IsUpdate(s), Sent(s), req[s].op = "refund"
               PROVE  snap[s].refunded =< ChargeOf(s)'.refunded
    BY <1>0, <1>2 DEF UpdateInv, IsUpdate, Sent, RowOf
  <2>1. snap[s].refunded =< ChargeOf(s).refunded /\ snap[s].refunded \in Nat
    BY <1>0 DEF UpdateInv, TypeOK, Row
  <2>2. ChargeOf(s)'.refunded \in Nat
    BY <1>4, <1>7, <1>14, <1>15
  <2> QED
    BY <1>15, <2>1, <2>2
<1>21. VoidOrCaptureInv'
  <2>1. \A s \in Requests : Pending(s)' /\ req[s].op \in {"capture", "cancel"} =>
           /\ Pending(s)
           /\ ChargeOf(s)'.status = ChargeOf(s).status
           /\ ChargeOf(s)'.captured = ChargeOf(s).captured
    BY <1>1, <1>13, <1>15 DEF IsUpdate
  <2> QED
    BY <1>0, <1>2, <2>1 DEF VoidOrCaptureInv, RowOf
<1>22. RefundInv'
  <2>1. \A s \in Requests : Pending(s)' /\ req[s].op = "refund" =>
           IsUpdate(s) /\ Sent(s) /\ (s # r => Pending(s))
    BY <1>1, <1>3, <1>13 DEF IsUpdate
  <2>2. \A s \in Requests : IsUpdate(s) /\ Sent(s) =>
           /\ RowOf(s).refunded \in Nat
           /\ snap[s].refunded \in Nat
           /\ units[s] \in Nat
           /\ ChargeOf(s).refunded \in Nat
           /\ ChargeOf(s)'.refunded \in Nat
    <3>1. \A s \in Requests : IsUpdate(s) /\ Sent(s) =>
             ChargeOf(s).refunded \in Nat /\ ChargeOf(s)'.refunded \in Nat
      BY <1>4, <1>7, <1>14, <1>15
    <3>2. \A s \in Requests : RowOf(s) \in Row /\ snap[s] \in Row /\ units[s] \in Nat
      BY <1>0, <1>12 DEF TypeOK, RowOf
    <3> QED
      BY <3>1, <3>2 DEF Row
  <2>3. ASSUME NEW s \in Requests, Pending(s)', req[s].op = "refund"
        PROVE  /\ RowOf(s).status \in RefundableStates
               /\ RowOf(s).refunded + units[s] =< ChargeOf(s)'.refunded
               /\ snap[s].refunded + units[s] =< ChargeOf(s)'.refunded
    <3>1. CASE s = r
      <4>1. RowOf(s) = payments[p] /\ ChargeOf(s)' = ledger'[d]
        BY <1>1, <1>2, <3>1 DEF RowOf, ChargeOf
      <4> QED
        BY <1>4, <1>6, <1>7, <3>1, <4>1
    <3>2. CASE s # r
      <4>1. /\ RowOf(s).status \in RefundableStates
            /\ RowOf(s).refunded + units[s] =< ChargeOf(s).refunded
            /\ snap[s].refunded + units[s] =< ChargeOf(s).refunded
        BY <1>0, <2>1, <2>3, <3>2 DEF RefundInv
      <4> QED
        BY <1>15, <2>1, <2>2, <2>3, <4>1
    <3> QED
      BY <3>1, <3>2
  <2>4. ASSUME NEW t \in Requests, NEW s \in Requests, t # s,
               req[t].op = "refund", Sent(t), req[s].op = "refund", Pending(s)',
               req[t].payment = req[s].payment
        PROVE  /\ snap[t].refunded + units[s] =< ChargeOf(s)'.refunded
               /\ Pending(t)' =>
                     snap[t].refunded + units[t] + units[s] =< ChargeOf(s)'.refunded
    <3>1. IsUpdate(t) /\ IsUpdate(s) /\ Sent(s) /\ ChargeOf(t) = ChargeOf(s)
      BY <2>1, <2>4 DEF IsUpdate, ChargeOf, RowOf
    <3>2. CASE s = r
      <4>1. ChargeOf(s) = ledger[d] /\ ChargeOf(s)' = ledger'[d]
        BY <1>1, <1>2, <3>2 DEF RowOf, ChargeOf
      <4>2. /\ snap[t].refunded =< ledger[d].refunded
            /\ Pending(t)' => snap[t].refunded + units[t] =< ledger[d].refunded
        BY <1>0, <1>13, <2>4, <3>1, <3>2, <4>1 DEF UpdateInv, RefundInv
      <4> QED
        BY <1>7, <2>2, <2>4, <3>1, <3>2, <4>1, <4>2
    <3>3. CASE t = r
      <4>1. ChargeOf(s) = ledger[d] /\ ChargeOf(s)' = ledger'[d]
        BY <1>1, <1>2, <2>4, <3>3 DEF RowOf, ChargeOf
      <4>2. snap[r].refunded + units[s] =< ledger[d].refunded
        BY <1>0, <1>13, <2>4, <3>3, <4>1 DEF RefundInv
      <4> QED
        BY <1>7, <2>2, <2>4, <3>1, <3>3, <4>1, <4>2
    <3>4. CASE s # r /\ t # r
      <4>1. /\ snap[t].refunded + units[s] =< ChargeOf(s).refunded
            /\ Pending(t)' =>
                  snap[t].refunded + units[t] + units[s] =< ChargeOf(s).refunded
        BY <1>0, <1>13, <2>4, <3>4 DEF RefundInv
      <4> QED
        BY <1>15, <2>2, <2>4, <3>1, <4>1
    <3> QED
      BY <3>2, <3>3, <3>4
  <2>5. \A s \in Requests : RowOf(s)' = RowOf(s) /\ Sent(s)' = Sent(s)
    BY <1>2 DEF RowOf, Sent
  <2> QED
    BY <1>2, <2>3, <2>4, <2>5 DEF RefundInv
<1> QED BY <1>16, <1>17, <1>18, <1>19, <1>20, <1>21, <1>22 DEF MoneyInv

(* Booking a new payment keeps the money invariant.                         *)
LEMMA CreateCommitted ==
  ASSUME IInv, TypeOK', NEW r \in Requests, CommitCreate(r)
  PROVE  MoneyInv'
<1>0. TypeOK /\ ControlInv /\ LedgerInv /\ UnbookedInv /\ CreateInv /\ RowInv
      /\ UpdateInv /\ VoidOrCaptureInv /\ RefundInv
  BY DEF IInv, MoneyInv
<1>1. Pending(r) /\ Sent(r) /\ req[r].op = "create" /\ req[r].payment = r
      /\ req[r].amount > 0
  BY <1>0 DEF CommitCreate, Pending, ControlInv
<1>2. PICK d \in Refs : d = reply[r].ref
  BY <1>0, <1>1 DEF CreateInv
<1>3. UNCHANGED <<req, snap, units, attempt, ledger, reply>>
  BY DEF CommitCreate, Write
<1>4. /\ ledger[d].status # "none"
      /\ reply[r].status = FirstStatus(d)
      /\ req[d[1]].amount = req[r].amount
      /\ units[r] = req[r].amount
      /\ snap[r] = InsertedRow(req[r].amount)
  BY <1>0, <1>1, <1>2 DEF CreateInv
<1>5. RefFree(d) /\ FirstStatus(d) \in {"authorized", "captured", "failed"}
  <2>1. RefFree(d) /\ UnifiedStatus(FirstStatus(d)) # "requires_confirmation"
    BY <1>2, <1>4 DEF CommitCreate, CreateLegal, CanTransition, Allowed,
           InsertedRow
  <2>2. FirstStatus(d) # "pending"
    BY <2>1 DEF UnifiedStatus
  <2> QED
    BY <2>1, <2>2 DEF FirstStatus
<1>6. payments[r].status = "absent" /\ payments[r].ref = NoRef
  BY <1>0, <1>1 DEF RowInv, Pending, NoRow
<1>7. /\ payments'[r].status = FirstStatus(d)
      /\ payments'[r].amount = req[r].amount
      /\ payments'[r].captured = (IF FirstStatus(d) = "captured" THEN req[r].amount ELSE 0)
      /\ payments'[r].refunded = 0
      /\ payments'[r].ref = d
      /\ \A q \in Requests \ {r} : payments'[q] = payments[q]
  <2>1. payments' = [payments EXCEPT ![r] = [InsertedRow(req[r].amount) EXCEPT
                   !.status = FirstStatus(d),
                   !.ref = d,
                   !.captured = IF FirstStatus(d) = "captured" THEN req[r].amount ELSE 0]]
    BY <1>1, <1>2, <1>4, <1>5 DEF CommitCreate, Write, UnifiedStatus
  <2> QED
    BY <1>0, <2>1 DEF TypeOK, InsertedRow
<1>8. pc'[r] = "committed" /\ \A s \in Requests \ {r} : pc'[s] = pc[s]
  BY <1>0 DEF CommitCreate, Write, TypeOK
<1>9. \A s \in Requests : IsUpdate(s) /\ Sent(s) =>
         req[s].payment # r /\ RowOf(s)' = RowOf(s) /\ ChargeOf(s)' = ChargeOf(s)
  <2> SUFFICES ASSUME NEW s \in Requests, IsUpdate(s), Sent(s)
               PROVE  req[s].payment # r /\ RowOf(s)' = RowOf(s) /\ ChargeOf(s)' = ChargeOf(s)
    OBVIOUS
  <2>1. req[s].payment \in Requests \ {r}
    BY <1>0, <1>6 DEF UpdateInv, RowOf, TypeOK, Request
  <2>2. RowOf(s)' = RowOf(s)
    BY <1>3, <1>7, <2>1 DEF RowOf
  <2> QED
    BY <1>3, <2>1, <2>2 DEF ChargeOf
<1>10. \A s \in Requests : Pending(s)' => Pending(s) /\ Sent(s)
  BY <1>0, <1>8 DEF Pending, ControlInv
<1>11. LedgerInv'
  BY <1>0, <1>3 DEF LedgerInv
<1>12. UnbookedInv'
  <2>1. \A e \in Refs : RefFree(e)' => RefFree(e)
    <3>1. NoRef \notin Refs
      BY DEF Refs, Calls
    <3> QED
      BY <1>6, <1>7, <3>1 DEF RefFree
  <2> QED
    BY <1>0, <1>3, <2>1 DEF UnbookedInv, FirstStatus
<1>13. CreateInv'
  BY <1>0, <1>3, <1>10 DEF CreateInv, FirstStatus, Sent
<1>14. RowInv'
  <2>1. RowMatches(payments'[r], ledger[d])
    <3>1. /\ ledger[d].status = FirstStatus(d)
          /\ ledger[d].captured = (IF ledger[d].status = "captured" THEN req[r].amount ELSE 0)
          /\ ledger[d].refunded = 0
      BY <1>0, <1>4, <1>5 DEF UnbookedInv
    <3> QED
      BY <1>5, <1>7, <3>1 DEF RowMatches, CapturedStates, RefundableStates
  <2>2. ChargeBookedOnce'
    BY <1>0, <1>5, <1>7 DEF RowInv, ChargeBookedOnce, RefFree
  <2>3. \A q \in Requests \ {r} : pc'[q] = pc[q] /\ payments'[q] = payments[q]
    BY <1>7, <1>8
  <2> QED
    BY <1>0, <1>1, <1>3, <1>4, <1>5, <1>7, <1>8, <2>1, <2>2, <2>3 DEF RowInv
<1>15. UpdateInv'
  BY <1>0, <1>3, <1>9 DEF UpdateInv, IsUpdate, Sent
<1>16. VoidOrCaptureInv'
  BY <1>0, <1>3, <1>9, <1>10 DEF VoidOrCaptureInv, IsUpdate
<1>17. RefundInv'
  BY <1>0, <1>3, <1>9, <1>10 DEF RefundInv, IsUpdate, Sent
<1> QED BY <1>11, <1>12, <1>13, <1>14, <1>15, <1>16, <1>17 DEF MoneyInv

(* Booking a capture or a cancel keeps the money invariant.                 *)
LEMMA CaptureOrCancelCommitted ==
  ASSUME IInv, TypeOK', NEW r \in Requests, CommitCapture(r) \/ CommitCancel(r)
  PROVE  MoneyInv'
<1>0. TypeOK /\ ControlInv /\ LedgerInv /\ UnbookedInv /\ CreateInv /\ RowInv
      /\ UpdateInv /\ VoidOrCaptureInv /\ RefundInv
  BY DEF IInv, MoneyInv
<1>1. Pending(r) /\ Sent(r) /\ IsUpdate(r) /\ req[r].op \in {"capture", "cancel"}
  BY <1>0 DEF CommitCapture, CommitCancel, Pending, ControlInv, IsUpdate
<1>2. PICK p \in Requests : p = req[r].payment
  BY <1>0 DEF TypeOK, Request
<1>3. PICK d : d = payments[p].ref
  OBVIOUS
<1>4. UNCHANGED <<req, snap, units, attempt, ledger, reply>>
  BY DEF CommitCapture, CommitCancel, Write
<1>5. /\ payments[p].status = "authorized"
      /\ req[r].op = "capture" => ledger[d].status = "captured" /\ ledger[d].captured = units[r]
      /\ req[r].op = "cancel" => ledger[d].status = "canceled"
  BY <1>0, <1>1, <1>2, <1>3 DEF VoidOrCaptureInv, RowOf, ChargeOf
<1>6. /\ payments[p].captured = 0 /\ payments[p].refunded = 0 /\ d \in Refs
      /\ ledger[d].refunded \in Nat
  <2>1. d \in Refs /\ RowMatches(payments[p], ledger[d])
    BY <1>0, <1>2, <1>3, <1>5 DEF RowInv
  <2> QED
    BY <1>0, <1>5, <2>1 DEF RowMatches, TypeOK, Charge
<1>7. /\ payments'[p].amount = payments[p].amount
      /\ payments'[p].refunded = 0
      /\ payments'[p].ref = d
      /\ req[r].op = "capture" => payments'[p].status = "captured" /\ payments'[p].captured = units[r]
      /\ req[r].op = "cancel" => payments'[p].status = "canceled" /\ payments'[p].captured = 0
      /\ \A q \in Requests \ {p} : payments'[q] = payments[q]
  <2>1. payments[p] \in Row /\ payments \in [Requests -> Row]
    BY <1>0 DEF TypeOK
  <2>2. CASE CommitCapture(r)
    BY <1>2, <1>3, <1>6, <2>1, <2>2 DEF CommitCapture, Write, Row
  <2>3. CASE CommitCancel(r)
    BY <1>2, <1>3, <1>6, <2>1, <2>3 DEF CommitCancel, Write, Row
  <2> QED
    BY <2>2, <2>3
<1>8. pc'[r] = "committed" /\ \A s \in Requests \ {r} : pc'[s] = pc[s]
  BY <1>0 DEF CommitCapture, CommitCancel, Write, TypeOK
<1>9. \A s \in Requests : /\ req[s].payment \in Requests
                          /\ req[s].op \in {"create", "capture", "cancel", "refund", "none"}
  BY <1>0 DEF TypeOK, Request, Operations
<1>10. \A s \in Requests : RowOf(s)'.ref = RowOf(s).ref /\ ChargeOf(s)' = ChargeOf(s)
  BY <1>3, <1>4, <1>7, <1>9 DEF RowOf, ChargeOf
<1>11. \A s \in Requests : Sent(s) /\ req[s].op = "refund" => RowOf(s)' = RowOf(s)
  <2>1. \A s \in Requests : Sent(s) /\ req[s].op = "refund" => req[s].payment # p
    BY <1>0, <1>5 DEF UpdateInv, IsUpdate, RowOf, CapturedStates,
           RefundableStates
  <2> QED
    BY <1>4, <1>7, <1>9, <2>1 DEF RowOf
<1>12. \A s \in Requests : Pending(s)' => Pending(s) /\ Sent(s) /\ s # r
  BY <1>0, <1>8 DEF Pending, ControlInv
<1>13. \A s \in Requests : Pending(s)' /\ req[s].op \in {"capture", "cancel"} => RowOf(s)' = RowOf(s)
  <2>1. \A s \in Requests : Pending(s)' /\ req[s].op \in {"capture", "cancel"} => req[s].payment # p
    BY <1>0, <1>1, <1>2, <1>12 DEF VoidOrCaptureInv
  <2> QED
    BY <1>4, <1>7, <1>9, <2>1 DEF RowOf
<1>14. LedgerInv'
  BY <1>0, <1>4 DEF LedgerInv
<1>15. UnbookedInv'
  <2>1. \A e \in Refs : RefFree(e)' => RefFree(e)
    BY <1>3, <1>7 DEF RefFree
  <2> QED
    BY <1>0, <1>4, <2>1 DEF UnbookedInv, FirstStatus
<1>16. CreateInv'
  BY <1>0, <1>4, <1>12 DEF CreateInv, FirstStatus, Sent
<1>17. RowInv'
  <2>1. RowMatches(payments'[p], ledger[d])
    BY <1>1, <1>5, <1>6, <1>7 DEF RowMatches, CapturedStates, RefundableStates
  <2>2. ChargeBookedOnce'
    <3>1. \A q \in Requests : payments'[q].ref = payments[q].ref
      BY <1>3, <1>7
    <3> QED
      BY <1>0, <3>1 DEF RowInv, ChargeBookedOnce
  <2>3. \A q \in Requests : pc[q] = "committed" => pc'[q] = "committed"
    BY <1>8
  <2>4. \A q \in Requests \ {p} : payments'[q] = payments[q]
    BY <1>7
  <2>5. payments[p].status # "absent"
    BY <1>5
  <2>6. payments'[p].status \in {"captured", "canceled"}
    BY <1>1, <1>7
  <2> QED
    BY <1>0, <1>3, <1>4, <1>7, <2>1, <2>2, <2>3, <2>4, <2>5, <2>6 DEF RowInv
<1>18. UpdateInv'
  <2>1. \A s \in Requests : RowOf(s).status # "absent" => RowOf(s)'.status # "absent"
    BY <1>1, <1>4, <1>7, <1>9 DEF RowOf
  <2> QED
    BY <1>0, <1>4, <1>10, <1>11, <2>1 DEF UpdateInv, IsUpdate, Sent
<1>19. VoidOrCaptureInv'
  BY <1>0, <1>4, <1>10, <1>12, <1>13 DEF VoidOrCaptureInv
<1>20. RefundInv'
  BY <1>0, <1>4, <1>10, <1>11, <1>12 DEF RefundInv, Sent
<1> QED BY <1>14, <1>15, <1>16, <1>17, <1>18, <1>19, <1>20 DEF MoneyInv

(* Booking a refund from a row read before the call keeps the money         *)
(* invariant, although the row may have changed since.                      *)
LEMMA RefundCommitted ==
  ASSUME IInv, TypeOK', NEW r \in Requests, CommitRefund(r)
  PROVE  MoneyInv'
<1>0. TypeOK /\ ControlInv /\ LedgerInv /\ UnbookedInv /\ CreateInv /\ RowInv
      /\ UpdateInv /\ VoidOrCaptureInv /\ RefundInv
  BY DEF IInv, MoneyInv
<1>1. Pending(r) /\ Sent(r) /\ IsUpdate(r) /\ req[r].op = "refund"
  BY <1>0 DEF CommitRefund, Pending, ControlInv, IsUpdate
<1>2. PICK p \in Requests : p = req[r].payment
  BY <1>0 DEF TypeOK, Request
<1>3. PICK d : d = payments[p].ref
  OBVIOUS
<1>4. UNCHANGED <<req, snap, units, attempt, ledger, reply>>
  BY DEF CommitRefund, Write
<1>5. /\ payments[p].status \in RefundableStates
      /\ snap[r].refunded + units[r] =< ledger[d].refunded
      /\ snap[r].captured = payments[p].captured
      /\ snap[r].status \in RefundableStates
  BY <1>0, <1>1, <1>2, <1>3 DEF RefundInv, UpdateInv, RowOf, ChargeOf
<1>6. /\ d \in Refs
      /\ ledger[d].status = "captured"
      /\ payments[p].captured = ledger[d].captured
      /\ ledger[d].refunded =< ledger[d].captured
      /\ ledger[d].captured \in Nat /\ ledger[d].refunded \in Nat
      /\ snap[r].refunded \in Nat /\ units[r] \in Nat
  <2>1. d \in Refs /\ RowMatches(payments[p], ledger[d])
    BY <1>0, <1>2, <1>3, <1>5 DEF RowInv, RefundableStates
  <2> QED
    BY <1>0, <1>5, <2>1
       DEF RowMatches, CapturedStates, LedgerInv, TypeOK, Charge, Row
<1>7. /\ payments'[p].amount = payments[p].amount
      /\ payments'[p].refunded = snap[r].refunded + units[r]
      /\ payments'[p].captured = payments[p].captured
      /\ payments'[p].ref = d
      /\ payments'[p].status = (IF RefundTarget(r) = snap[r].status
                                THEN payments[p].status ELSE RefundTarget(r))
      /\ \A q \in Requests \ {p} : payments'[q] = payments[q]
  <2>1. payments[p] \in Row /\ payments \in [Requests -> Row]
    BY <1>0 DEF TypeOK
  <2> QED
    BY <1>2, <1>3, <2>1 DEF CommitRefund, Write, Row
<1>8. /\ payments'[p].status \in CapturedStates
      /\ payments'[p].status = "refunded" => snap[r].refunded + units[r] = payments[p].captured
  <2>1. RefundTarget(r) = "refunded" => snap[r].refunded + units[r] >= payments[p].captured
    BY <1>5 DEF RefundTarget
  <2>2. RefundTarget(r) = "refunded" => snap[r].refunded + units[r] = payments[p].captured
    BY <1>5, <1>6, <2>1
  <2> QED
    BY <1>5, <1>7, <2>2 DEF RefundTarget, CapturedStates, RefundableStates
<1>9. pc'[r] = "committed" /\ \A s \in Requests \ {r} : pc'[s] = pc[s]
  BY <1>0 DEF CommitRefund, Write, TypeOK
<1>10. \A s \in Requests : /\ req[s].payment \in Requests
                           /\ req[s].op \in {"create", "capture", "cancel", "refund", "none"}
  BY <1>0 DEF TypeOK, Request, Operations
<1>11. \A s \in Requests : /\ RowOf(s)'.ref = RowOf(s).ref
                           /\ ChargeOf(s)' = ChargeOf(s)
                           /\ RowOf(s)'.captured = RowOf(s).captured
                           /\ req[s].payment # p => RowOf(s)' = RowOf(s)
                           /\ req[s].payment = p => RowOf(s)' = payments'[p] /\ ChargeOf(s) = ledger[d]
  BY <1>3, <1>4, <1>7, <1>10 DEF RowOf, ChargeOf
<1>12. \A s \in Requests : Pending(s)' => Pending(s) /\ Sent(s) /\ s # r
  BY <1>0, <1>9 DEF Pending, ControlInv
<1>13. LedgerInv'
  BY <1>0, <1>4 DEF LedgerInv
<1>14. UnbookedInv'
  <2>1. \A e \in Refs : RefFree(e)' => RefFree(e)
    BY <1>3, <1>7 DEF RefFree
  <2> QED
    BY <1>0, <1>4, <2>1 DEF UnbookedInv, FirstStatus
<1>15. CreateInv'
  BY <1>0, <1>4, <1>12 DEF CreateInv, FirstStatus, Sent
<1>16. RowInv'
  <2>1. RowMatches(payments'[p], ledger[d])
    BY <1>5, <1>6, <1>7, <1>8 DEF RowMatches, CapturedStates, RefundableStates
  <2>2. ChargeBookedOnce'
    <3>1. \A q \in Requests : payments'[q].ref = payments[q].ref
      BY <1>3, <1>7
    <3> QED
      BY <1>0, <3>1 DEF RowInv, ChargeBookedOnce
  <2>3. \A q \in Requests : pc[q] = "committed" => pc'[q] = "committed"
    BY <1>9
  <2>4. \A q \in Requests \ {p} : payments'[q] = payments[q]
    BY <1>7
  <2>5. payments[p].status # "absent"
    BY <1>5 DEF RefundableStates
  <2>6. payments'[p].status \notin {"absent", "requires_confirmation"}
    BY <1>8 DEF CapturedStates, RefundableStates
  <2> QED
    BY <1>0, <1>3, <1>4, <1>7, <2>1, <2>2, <2>3, <2>4, <2>5, <2>6 DEF RowInv
<1>17. UpdateInv'
  <2>1. \A s \in Requests : /\ RowOf(s).status # "absent" => RowOf(s)'.status # "absent"
                            /\ RowOf(s).status \in CapturedStates => RowOf(s)'.status \in CapturedStates
    BY <1>8, <1>11 DEF CapturedStates, RefundableStates
  <2> QED
    BY <1>0, <1>4, <1>11, <2>1 DEF UpdateInv, IsUpdate, Sent
<1>18. VoidOrCaptureInv'
  <2>1. \A s \in Requests : Pending(s)' /\ req[s].op \in {"capture", "cancel"} => req[s].payment # p
    BY <1>0, <1>2, <1>5, <1>12 DEF VoidOrCaptureInv, RowOf, RefundableStates
  <2> QED
    BY <1>0, <1>4, <1>11, <1>12, <2>1 DEF VoidOrCaptureInv
<1>19. RefundInv'
  <2>1. ASSUME NEW s \in Requests, Pending(s)', req[s].op = "refund", req[s].payment = p
        PROVE  /\ payments'[p].status \in RefundableStates
               /\ payments'[p].refunded + units[s] =< ledger[d].refunded
    <3>1. Pending(s) /\ Sent(s) /\ s # r
      BY <1>12, <2>1
    <3>2. snap[r].refunded + units[r] + units[s] =< ledger[d].refunded
      BY <1>0, <1>1, <1>2, <1>11, <2>1, <3>1 DEF RefundInv
    <3>3. units[s] > 0 /\ units[s] \in Nat
      BY <1>0, <2>1, <3>1 DEF UpdateInv, IsUpdate, TypeOK
    <3>4. payments'[p].status # "refunded"
      BY <1>6, <1>8, <3>2, <3>3
    <3> QED
      BY <1>6, <1>7, <1>8, <3>2, <3>3, <3>4 DEF CapturedStates
  <2>2. \A s \in Requests : Pending(s)' /\ req[s].op = "refund" =>
           /\ RowOf(s)'.status \in RefundableStates
           /\ RowOf(s)'.refunded + units[s] =< ChargeOf(s).refunded
           /\ snap[s].refunded + units[s] =< ChargeOf(s).refunded
    <3> SUFFICES ASSUME NEW s \in Requests, Pending(s)', req[s].op = "refund"
                 PROVE  /\ RowOf(s)'.status \in RefundableStates
                        /\ RowOf(s)'.refunded + units[s] =< ChargeOf(s).refunded
                        /\ snap[s].refunded + units[s] =< ChargeOf(s).refunded
      OBVIOUS
    <3>1. CASE req[s].payment = p
      BY <1>0, <1>11, <1>12, <2>1, <3>1 DEF RefundInv
    <3>2. CASE req[s].payment # p
      BY <1>0, <1>11, <1>12, <3>2 DEF RefundInv
    <3> QED
      BY <3>1, <3>2
  <2> QED
    BY <1>0, <1>4, <1>11, <1>12, <2>2 DEF RefundInv, Sent
<1> QED BY <1>13, <1>14, <1>15, <1>16, <1>17, <1>18, <1>19 DEF MoneyInv

(* The steps that touch neither books nor charges keep the money invariant: *)
(* Receive, Reject, Abort, Timeout, CommitFails and a refusal.              *)
LEMMA QuietSteps ==
  ASSUME IInv, TypeOK', NEW r \in Requests,
         \/ Receive(r) \/ Reject(r) \/ Abort(r) \/ Timeout(r) \/ CommitFails(r)
  PROVE  MoneyInv'
<1>0. TypeOK /\ ControlInv
  BY DEF IInv
<1>1. payments' = payments /\ ledger' = ledger /\ reply' = reply
  BY DEF Receive, Reject, Abort, Timeout, CommitFails
<1>2. snap' = snap /\ units' = units
  BY DEF Receive, Reject, Abort, Timeout, CommitFails
<1>3. /\ \A s \in Requests \ {r} : /\ pc'[s] = pc[s]
                                   /\ req'[s] = req[s]
                                   /\ attempt'[s] = attempt[s]
      /\ pc'[r] # "replied"
      /\ pc[r] # "committed"
  <2>1. CASE Receive(r)
    BY <1>0, <2>1 DEF Receive, Fail, TypeOK
  <2>2. CASE Reject(r)
    BY <1>0, <2>2 DEF Reject, Fail, TypeOK
  <2>3. CASE Abort(r)
    BY <1>0, <2>3 DEF Abort, Fail, TypeOK
  <2>4. CASE Timeout(r)
    BY <1>0, <2>4 DEF Timeout, Fail, TypeOK
  <2>5. CASE CommitFails(r)
    BY <1>0, <2>5 DEF CommitFails, Fail, TypeOK
  <2> QED
    BY <2>1, <2>2, <2>3, <2>4, <2>5
<1>4. Sent(r)' => Sent(r)
  <2>1. CASE Receive(r) \/ Reject(r) \/ Abort(r) \/ CommitFails(r)
    BY <2>1 DEF Receive, Reject, Abort, CommitFails, Sent
  <2>2. CASE Timeout(r)
    BY <1>0, <2>2 DEF Timeout, ControlInv
  <2> QED
    BY <2>1, <2>2
<1>5. Sent(r) => req'[r] = req[r]
  <2>1. CASE Receive(r)
    BY <1>0, <2>1 DEF Receive, ControlInv
  <2>2. CASE Reject(r)
    BY <1>0, <2>2 DEF Reject, ControlInv
  <2>3. CASE Abort(r)
    BY <1>0, <2>3 DEF Abort, ControlInv, TypeOK
  <2>4. CASE Timeout(r) \/ CommitFails(r)
    BY <2>4 DEF Timeout, CommitFails
  <2> QED
    BY <2>1, <2>2, <2>3, <2>4
<1>6. \A s \in Requests :
         /\ Sent(s)' => Sent(s)
         /\ Sent(s) => /\ req'[s] = req[s]
                       /\ snap'[s] = snap[s]
                       /\ units'[s] = units[s]
         /\ Pending(s)' => Pending(s) /\ reply'[s] = reply[s]
         /\ pc[s] = "committed" => pc'[s] = "committed"
  BY <1>1, <1>2, <1>3, <1>4, <1>5 DEF Sent, Pending
<1> QED
  BY <1>1, <1>6, Quiet

(* A refusal by the provider keeps the money invariant. *)
LEMMA Refused ==
  ASSUME IInv, TypeOK', NEW c \in Calls, ProviderRefuse(c)
  PROVE  MoneyInv'
<1>0. TypeOK /\ ControlInv /\ c[1] \in Requests
  BY DEF IInv, Calls
<1>1. UNCHANGED <<payments, ledger, req, snap, units, attempt>>
  BY DEF ProviderRefuse, Take
<1>2. \/ pc' = pc /\ reply' = reply
      \/ /\ pc[c[1]] = "calling"
         /\ pc' = [pc EXCEPT ![c[1]] = "failed"]
         /\ reply' = [reply EXCEPT ![c[1]] = NoReply]
  BY DEF ProviderRefuse, Deliver, Awaited
<1>3. \A s \in Requests :
         /\ Pending(s)' => Pending(s) /\ reply'[s] = reply[s]
         /\ pc[s] = "committed" => pc'[s] = "committed"
  BY <1>0, <1>2 DEF Pending, TypeOK
<1>4. \A s \in Requests :
         /\ Sent(s)' => Sent(s)
         /\ Sent(s) => /\ req'[s] = req[s]
                       /\ snap'[s] = snap[s]
                       /\ units'[s] = units[s]
         /\ Pending(s)' => Pending(s) /\ reply'[s] = reply[s]
         /\ pc[s] = "committed" => pc'[s] = "committed"
  BY <1>1, <1>3 DEF Sent
<1> QED
  BY <1>1, <1>4, Quiet

(* The invariant holds before the first request. *)
LEMMA InitIInv == Init => IInv
<1> SUFFICES ASSUME Init PROVE IInv
  OBVIOUS
<1>1. TypeOK
  BY InitTypeOK
<1>2. \A r \in Requests : /\ ~Sent(r)
                          /\ ~Pending(r)
                          /\ pc[r] = "new"
                          /\ req[r].op = "none"
                          /\ payments[r] = NoRow
  BY DEF Init, Sent, Pending, NoRequest
<1>3. \A c \in Refs : ledger[c] = NoCharge
  BY DEF Init
<1>4. ControlInv
  BY <1>2, <1>3 DEF Init, ControlInv, NoCharge
<1>5. LedgerInv /\ UnbookedInv
  BY <1>3 DEF LedgerInv, UnbookedInv, NoCharge
<1>6. CreateInv /\ UpdateInv /\ VoidOrCaptureInv /\ RefundInv
  BY <1>2 DEF CreateInv, UpdateInv, VoidOrCaptureInv, RefundInv
<1>7. RowInv
  BY <1>2 DEF RowInv, ChargeBookedOnce, NoRow
<1> QED
  BY <1>1, <1>4, <1>5, <1>6, <1>7 DEF IInv, MoneyInv

(* Over Stripe the invariant is inductive. *)
LEMMA NextIInv ==
  ASSUME Provider = "stripe", IInv, [Next]_vars
  PROVE  IInv'
<1>0. TypeOK'
  BY NextTypeOK DEF IInv
<1>1. CASE UNCHANGED vars
  <2>1. ControlInv'
    BY <1>1 DEF vars, IInv, ControlInv, Sent
  <2>2. MoneyInv'
    BY <1>1, Quiet DEF vars, Sent, Pending
  <2> QED
    BY <1>0, <2>1, <2>2 DEF IInv
<1>2. CASE Next
  <2>1. ControlInv'
    BY <1>0, <1>2, NextControl
  <2>2. ASSUME NEW r \in Requests, Start(r) PROVE MoneyInv'
    BY <1>0, <2>2, Started
  <2>3. ASSUME NEW r \in Requests,
               \/ Receive(r) \/ Reject(r) \/ Abort(r) \/ Timeout(r) \/ CommitFails(r)
        PROVE  MoneyInv'
    BY <1>0, <2>3, QuietSteps
  <2>4. ASSUME NEW r \in Requests, CommitCreate(r) PROVE MoneyInv'
    BY <1>0, <2>4, CreateCommitted
  <2>5. ASSUME NEW r \in Requests, CommitCapture(r) \/ CommitCancel(r) PROVE MoneyInv'
    BY <1>0, <2>5, CaptureOrCancelCommitted
  <2>6. ASSUME NEW r \in Requests, CommitRefund(r) PROVE MoneyInv'
    BY <1>0, <2>6, RefundCommitted
  <2>7. ASSUME NEW c \in Calls, ProviderStep(c) PROVE MoneyInv'
    <3>1. CASE ProviderCreate(c)
      BY <1>0, <3>1, Created
    <3>2. CASE ProviderReplay(c)
      BY <1>0, <3>2, Replayed
    <3>3. CASE ProviderCapture(c) \/ ProviderCancel(c)
      BY <1>0, <3>3, Updated
    <3>4. CASE ProviderRefund(c)
      BY <1>0, <3>4, RefundExecuted
    <3>5. CASE ProviderRefuse(c)
      BY <1>0, <3>5, Refused
    <3> QED
      BY <2>7, <3>1, <3>2, <3>3, <3>4, <3>5 DEF ProviderStep
  <2>8. MoneyInv'
    BY <1>2, <2>2, <2>3, <2>4, <2>5, <2>6, <2>7 DEF Next, Commit
  <2> QED
    BY <1>0, <2>1, <2>8 DEF IInv
<1> QED
  BY <1>1, <1>2

-----------------------------------------------------------------------------
(* Over Stripe the inductive invariant holds in every reachable state. *)
THEOREM EngineInvariant == ASSUME Provider = "stripe" PROVE Spec => []IInv
  BY InitIInv, NextIInv, PTL DEF Spec

(* Over Stripe the books never claim money the provider did not move,       *)
(* whatever calls are lost, repeated or rolled back between two services.   *)
THEOREM BooksBacked ==
  ASSUME Provider = "stripe" PROVE Spec => []BooksBackedByProvider
<1>1. IInv => BooksBackedByProvider
  <2> SUFFICES ASSUME IInv, NEW p \in Requests, payments[p].captured > 0
               PROVE  /\ payments[p].captured = ledger[payments[p].ref].captured
                      /\ payments[p].refunded =< ledger[payments[p].ref].refunded
    BY DEF BooksBackedByProvider
  <2>1. payments[p] \in Row
    BY DEF IInv, TypeOK
  <2>2. payments[p].status # "absent"
    BY <2>1 DEF IInv, MoneyInv, RowInv, NoRow
  <2>3. /\ payments[p].status # "requires_confirmation"
        /\ RowMatches(payments[p], ledger[payments[p].ref])
    BY <2>2 DEF IInv, MoneyInv, RowInv
  <2>4. payments[p].status \in CapturedStates
    BY <2>1, <2>2, <2>3
    DEF RowMatches, Row, PaymentStatus, CapturedStates, RefundableStates
  <2> QED
    BY <2>3, <2>4 DEF RowMatches
<1> QED
  BY <1>1, EngineInvariant, PTL

(* Over Stripe no charge is booked on two payments, however often its       *)
(* create is replayed, because reply and row agree on the charge and the    *)
(* reference is unique.                                                     *)
THEOREM ChargeBooked ==
  ASSUME Provider = "stripe" PROVE Spec => []ChargeBookedOnce
<1>1. IInv => ChargeBookedOnce
  BY DEF IInv, MoneyInv, RowInv
<1> QED
  BY <1>1, EngineInvariant, PTL

(* Over Stripe a final status of the books is the provider's final status:  *)
(* canceled is voided there, refunded is refunded in full.                  *)
THEOREM FinalStatusTrue ==
  ASSUME Provider = "stripe" PROVE Spec => []FinalStatusIsTrue
<1>1. IInv => FinalStatusIsTrue
  <2> SUFFICES ASSUME IInv, NEW p \in Requests,
                      payments[p].status \in CapturedStates \cup {"canceled"}
               PROVE  LET row == payments[p]
                          charge == ledger[row.ref]
                      IN  /\ row.status = "canceled" => charge.status = "canceled"
                          /\ row.status = "refunded" =>
                                /\ charge.refunded = charge.captured
                                /\ row.refunded = row.captured
                          /\ row.status \in RefundableStates =>
                                charge.status = "captured"
    BY DEF FinalStatusIsTrue, CapturedStates
  <2>1. /\ payments[p].ref \in Refs
        /\ RowMatches(payments[p], ledger[payments[p].ref])
    BY DEF IInv, MoneyInv, RowInv, CapturedStates, RefundableStates
  <2>2. ledger[payments[p].ref].refunded =< ledger[payments[p].ref].captured
    BY <2>1 DEF IInv, MoneyInv, LedgerInv
  <2>3. payments[p] \in Row /\ ledger[payments[p].ref] \in Charge
    BY <2>1 DEF IInv, TypeOK
  <2> QED
    BY <2>1, <2>2, <2>3 DEF RowMatches, CapturedStates, Row, Charge
<1> QED
  BY <1>1, EngineInvariant, PTL

(* Over Stripe every committed status change is legal, although capture,    *)
(* cancel and refund check a row that others may change before they write.  *)
THEOREM TransitionsLegal ==
  ASSUME Provider = "stripe" PROVE Spec => LegalTransitions
<1> DEFINE Legal(p) ==
      LET old == payments[p].status
          new == payments'[p].status
      IN  old # new =>
            CanTransition(IF old = "absent" THEN "requires_confirmation" ELSE old,
                          new)
<1>1. ASSUME IInv, [Next]_vars, NEW p \in Requests PROVE Legal(p)
  <2>0. TypeOK /\ RowInv /\ CreateInv /\ ControlInv
    BY <1>1 DEF IInv, MoneyInv
  <2>1. CASE payments' = payments
    BY <2>1
  <2>2. ASSUME NEW r \in Requests, CommitCreate(r) PROVE Legal(p)
    <3>1. snap[r].status = "requires_confirmation" /\ req[r].payment = r
      <4>1. pc[r] = "replied" /\ req[r].op = "create"
        BY <2>2 DEF CommitCreate
      <4>2. Sent(r) /\ req[r].payment = r
        BY <2>0, <4>1 DEF ControlInv
      <4>3. snap[r] = InsertedRow(req[r].amount)
        BY <2>0, <4>1, <4>2 DEF CreateInv
      <4> QED
        BY <4>2, <4>3 DEF InsertedRow
    <3>2. payments[r].status = "absent"
      BY <2>0, <2>2 DEF CommitCreate, RowInv
    <3>3. payments'[r].status = UnifiedStatus(reply[r].status)
      BY <2>0, <2>2, <3>1 DEF CommitCreate, Write, TypeOK, Row
    <3>4. CanTransition("requires_confirmation", payments'[r].status)
      BY <2>2, <3>1, <3>3 DEF CommitCreate, CreateLegal
    <3>5. \A q \in Requests \ {r} : payments'[q] = payments[q]
      BY <2>0, <2>2, <3>1 DEF CommitCreate, Write, TypeOK
    <3> QED
      BY <3>2, <3>4, <3>5
  <2>3. ASSUME NEW r \in Requests, CommitCapture(r) \/ CommitCancel(r)
        PROVE  Legal(p)
    <3>1. payments[req[r].payment].status = "authorized"
      BY <1>1, <2>3
      DEF IInv, MoneyInv, VoidOrCaptureInv, Pending, RowOf, CommitCapture, CommitCancel
    <3>2. /\ req[r].payment \in Requests
          /\ payments'[req[r].payment].status \in {"captured", "canceled"}
          /\ \A q \in Requests \ {req[r].payment} : payments'[q] = payments[q]
      <4>1. req[r].payment \in Requests /\ payments[req[r].payment] \in Row
        BY <2>0 DEF TypeOK, Request
      <4>2. CASE CommitCapture(r)
        BY <2>0, <4>1, <4>2 DEF CommitCapture, Write, TypeOK, Row
      <4>3. CASE CommitCancel(r)
        BY <2>0, <4>1, <4>3 DEF CommitCancel, Write, TypeOK, Row
      <4> QED
        BY <2>3, <4>2, <4>3
    <3> QED
      BY <3>1, <3>2 DEF CanTransition, Allowed
  <2>4. ASSUME NEW r \in Requests, CommitRefund(r) PROVE Legal(p)
    <3>1. payments[req[r].payment].status \in RefundableStates
      BY <1>1, <2>4 DEF IInv, MoneyInv, RefundInv, Pending, RowOf, CommitRefund
    <3>2. /\ req[r].payment \in Requests
          /\ payments'[req[r].payment].status =
               (IF RefundTarget(r) = snap[r].status
                THEN payments[req[r].payment].status ELSE RefundTarget(r))
          /\ \A q \in Requests \ {req[r].payment} : payments'[q] = payments[q]
      BY <2>0, <2>4 DEF CommitRefund, Write, TypeOK, Row, Request
    <3>3. RefundTarget(r) \in {"refunded", "partially_refunded"}
      BY DEF RefundTarget
    <3> QED
      BY <3>1, <3>2, <3>3 DEF CanTransition, Allowed, RefundableStates
  <2>5. ASSUME NEW c \in Calls, ProviderStep(c) PROVE payments' = payments
    BY <2>5
    DEF ProviderStep, ProviderCreate, ProviderReplay, ProviderCapture,
        ProviderCancel, ProviderRefund, ProviderUpdate, ProviderRefuse, Take
  <2>6. ASSUME NEW r \in Requests,
               \/ Receive(r) \/ Start(r) \/ Reject(r) \/ Timeout(r) \/ Abort(r)
               \/ CommitFails(r)
        PROVE  payments' = payments
    BY <2>6
    DEF Receive, Start, StartCreate, StartCapture, StartCancel, StartRefund, Send,
        Reject, Timeout, Abort, CommitFails
  <2>7. CASE UNCHANGED vars
    BY <2>1, <2>7 DEF vars
  <2> QED
    BY <1>1, <2>1, <2>2, <2>3, <2>4, <2>5, <2>6, <2>7 DEF Next, Commit
<1>2. IInv /\ [Next]_vars => [\A p \in Requests : Legal(p)]_vars
  BY <1>1
<1> QED
  BY <1>2, EngineInvariant, PTL DEF Spec, LegalTransitions

-----------------------------------------------------------------------------
(* Idempotency keys *)

(* Every step keeps AnswerInv: the unique constraint that a commit respects *)
(* lets one request store a key, and a replay copies what is stored.        *)
LEMMA NextAnswer ==
  ASSUME TypeOK, AnswerInv, [Next]_vars
  PROVE  AnswerInv'
<1>1. ASSUME NEW r \in Requests, Receive(r) PROVE AnswerInv'
  <2>1. PICK q \in Request :
          /\ WellFormed(r, q)
          /\ \/ /\ pc'[r] = "accepted" /\ req'[r] = q /\ answer' = answer
             \/ \E s \in StoredBy(q) : /\ Body(req[s]) = Body(q)
                                       /\ pc'[r] = "replayed"
                                       /\ req'[r] = q
                                       /\ answer'[r] = s
             \/ pc'[r] = "failed" /\ req' = req /\ answer' = answer
    BY <1>1 DEF Receive, Fail, TypeOK
  <2>2. /\ pc[r] = "new"
        /\ \A s \in Requests \ {r} : /\ pc'[s] = pc[s]
                                     /\ req'[s] = req[s]
                                     /\ answer'[s] = answer[s]
    BY <1>1 DEF Receive, Fail, TypeOK
  <2>3. q.op \in {"capture", "cancel"} => q.key = NoKey
    BY <2>1 DEF WellFormed
  <2>4. \A s \in Requests : answer[s] \in Requests
    BY DEF TypeOK
  <2>5. CASE pc'[r] = "accepted" /\ req'[r] = q /\ answer' = answer
    <3>1. OwnAnswerInv' /\ StoredOnceInv'
      BY <2>2, <2>3, <2>5 DEF AnswerInv, OwnAnswerInv, StoredOnceInv
    <3>2. ReplayInv'
      <4> SUFFICES ASSUME NEW s \in Requests \ {r}, pc[s] = "replayed"
                   PROVE  (/\ pc[answer[s]] = "committed"
                           /\ req[answer[s]].key = req[s].key
                           /\ req[answer[s]].op = req[s].op
                           /\ Body(req[answer[s]]) = Body(req[s]))'
        BY <2>2, <2>5 DEF ReplayInv
      <4>1. answer[s] \in Requests \ {r} /\ answer'[s] = answer[s]
        BY <2>2, <2>4 DEF AnswerInv, ReplayInv
      <4>2. /\ pc[answer[s]] = "committed"
            /\ req[answer[s]].key = req[s].key
            /\ req[answer[s]].op = req[s].op
            /\ Body(req[answer[s]]) = Body(req[s])
        BY DEF AnswerInv, ReplayInv
      <4>3. /\ pc'[answer[s]] = pc[answer[s]]
            /\ req'[answer[s]] = req[answer[s]]
            /\ req'[s] = req[s]
        BY <2>2, <4>1
      <4> QED
        BY <4>1, <4>2, <4>3 DEF Body
    <3> QED
      BY <3>1, <3>2 DEF AnswerInv
  <2>6. ASSUME NEW s \in StoredBy(q), Body(req[s]) = Body(q),
               pc'[r] = "replayed", req'[r] = q, answer'[r] = s
        PROVE  AnswerInv'
    <3>1. /\ s \in Requests \ {r}
          /\ pc[s] = "committed"
          /\ req[s].key = q.key
          /\ req[s].op = q.op
      BY <2>2, <2>6 DEF StoredBy
    <3>2. req'[s] = req[s] /\ pc'[s] = "committed"
      BY <2>2, <3>1
    <3>3. Body(req'[s]) = Body(req'[r])
      BY <2>6, <3>2 DEF Body
    <3>4. OwnAnswerInv' /\ StoredOnceInv'
      BY <2>2, <2>3, <2>6 DEF AnswerInv, OwnAnswerInv, StoredOnceInv
    <3>5. ReplayInv'
      <4> SUFFICES ASSUME NEW t \in Requests \ {r}, pc[t] = "replayed"
                   PROVE  (/\ pc[answer[t]] = "committed"
                           /\ req[answer[t]].key = req[t].key
                           /\ req[answer[t]].op = req[t].op
                           /\ Body(req[answer[t]]) = Body(req[t]))'
        BY <2>2, <2>6, <3>1, <3>2, <3>3 DEF ReplayInv
      <4>1. answer[t] \in Requests \ {r} /\ answer'[t] = answer[t]
        BY <2>2, <2>4 DEF AnswerInv, ReplayInv
      <4>2. /\ pc[answer[t]] = "committed"
            /\ req[answer[t]].key = req[t].key
            /\ req[answer[t]].op = req[t].op
            /\ Body(req[answer[t]]) = Body(req[t])
        BY DEF AnswerInv, ReplayInv
      <4>3. /\ pc'[answer[t]] = pc[answer[t]]
            /\ req'[answer[t]] = req[answer[t]]
            /\ req'[t] = req[t]
        BY <2>2, <4>1
      <4> QED
        BY <4>1, <4>2, <4>3 DEF Body
    <3> QED
      BY <3>4, <3>5 DEF AnswerInv
  <2>7. CASE pc'[r] = "failed" /\ req' = req /\ answer' = answer
    <3>1. \A s \in Requests : pc'[s] = pc[s] \/ (s = r /\ pc'[s] = "failed")
      BY <2>2, <2>7
    <3> QED
      BY <2>2, <2>4, <2>7, <3>1
      DEF AnswerInv, OwnAnswerInv, ReplayInv, StoredOnceInv, Body
  <2> QED
    BY <2>1, <2>5, <2>6, <2>7
<1>2. ASSUME NEW r \in Requests,
             \/ CommitCreate(r) \/ CommitCapture(r) \/ CommitCancel(r)
             \/ CommitRefund(r)
      PROVE  AnswerInv'
  <2>1. /\ pc[r] = "replied"
        /\ pc'[r] = "committed"
        /\ \A s \in Requests \ {r} : pc'[s] = pc[s]
        /\ UNCHANGED <<req, answer>>
    BY <1>2 DEF CommitCreate, CommitCapture, CommitCancel, CommitRefund, Write, TypeOK
  <2>2. req[r].key = NoKey \/ StoredBy(req[r]) = {}
    BY <1>2
    DEF AnswerInv, OwnAnswerInv, CommitCreate, CommitCapture, CommitCancel, CommitRefund, KeyFree
  <2>3. \A s \in Requests : pc[s] = "committed" /\ req[r].key # NoKey =>
                               req[s].key # req[r].key \/ req[s].op # req[r].op
    BY <2>2 DEF StoredBy
  <2>4. \A s \in Requests : answer[s] \in Requests
    BY DEF TypeOK
  <2>5. OwnAnswerInv' /\ StoredOnceInv'
    BY <2>1, <2>3 DEF AnswerInv, OwnAnswerInv, StoredOnceInv
  <2>6. ReplayInv'
    BY <2>1, <2>4 DEF AnswerInv, ReplayInv, Body
  <2> QED
    BY <2>5, <2>6 DEF AnswerInv
<1>3. ASSUME UNCHANGED answer,
             \A s \in Requests :
                \/ pc'[s] = pc[s] /\ req'[s] = req[s]
                \/ /\ pc[s] # "committed" /\ pc[s] # "replayed"
                   /\ pc'[s] # "committed" /\ pc'[s] # "replayed"
                   /\ req'[s] = req[s] \/ req'[s] = NoRequest(s)
      PROVE  AnswerInv'
  <2>1. \A s \in Requests : answer[s] \in Requests
    BY DEF TypeOK
  <2>2. OwnAnswerInv'
    <3>1. \A s \in Requests : req'[s] = NoRequest(s) => req'[s].op = "none"
      BY DEF NoRequest
    <3> QED
      BY <1>3, <3>1 DEF AnswerInv, OwnAnswerInv
  <2>3. StoredOnceInv'
    BY <1>3 DEF AnswerInv, StoredOnceInv
  <2>4. ReplayInv'
    <3> SUFFICES ASSUME NEW s \in Requests, pc'[s] = "replayed"
                 PROVE  (/\ pc[answer[s]] = "committed"
                         /\ req[answer[s]].key = req[s].key
                         /\ req[answer[s]].op = req[s].op
                         /\ Body(req[answer[s]]) = Body(req[s]))'
      BY DEF ReplayInv
    <3>1. pc[s] = "replayed" /\ req'[s] = req[s] /\ answer'[s] = answer[s]
      BY <1>3
    <3>2. pc[answer[s]] = "committed"
      BY <3>1 DEF AnswerInv, ReplayInv
    <3>3. pc'[answer[s]] = "committed" /\ req'[answer[s]] = req[answer[s]]
      BY <1>3, <2>1, <3>2
    <3> QED
      BY <3>1, <3>3 DEF AnswerInv, ReplayInv, Body
  <2> QED
    BY <2>2, <2>3, <2>4 DEF AnswerInv
<1>4. ASSUME NEW r \in Requests,
             Start(r) \/ Reject(r) \/ Timeout(r) \/ Abort(r) \/ CommitFails(r)
      PROVE  AnswerInv'
  <2>1. /\ answer' = answer
        /\ pc[r] \in {"accepted", "calling", "replied"}
        /\ pc'[r] \in {"accepted", "calling", "failed"}
        /\ req'[r] = req[r] \/ req'[r] = NoRequest(r)
        /\ \A s \in Requests \ {r} : pc'[s] = pc[s] /\ req'[s] = req[s]
    <3>1. CASE Start(r)
      BY <3>1 DEF Start, StartCreate, StartCapture, StartCancel, StartRefund, Send, TypeOK
    <3>2. CASE Reject(r)
      BY <3>2 DEF Reject, Fail, TypeOK
    <3>3. CASE Timeout(r)
      BY <3>3 DEF Timeout, Fail, TypeOK
    <3>4. CASE Abort(r)
      BY <3>4 DEF Abort, Fail, TypeOK
    <3>5. CASE CommitFails(r)
      BY <3>5 DEF CommitFails, Fail, TypeOK
    <3> QED
      BY <1>4, <3>1, <3>2, <3>3, <3>4, <3>5
  <2> QED
    BY <1>3, <2>1
<1>5. ASSUME NEW c \in Calls, ProviderStep(c) PROVE AnswerInv'
  <2>1. answer' = answer /\ req' = req
    BY <1>5
    DEF ProviderStep, ProviderCreate, ProviderReplay, ProviderCapture,
        ProviderCancel, ProviderRefund, ProviderUpdate, ProviderRefuse, Take
  <2>2. \/ pc' = pc
        \/ /\ pc[c[1]] = "calling"
           /\ pc' = [pc EXCEPT ![c[1]] = "replied"]
        \/ /\ pc[c[1]] = "calling"
           /\ pc' = [pc EXCEPT ![c[1]] = "failed"]
    BY <1>5
    DEF ProviderStep, ProviderCreate, ProviderReplay, ProviderCapture,
        ProviderCancel, ProviderRefund, ProviderUpdate, ProviderRefuse, Deliver,
        Awaited
  <2>3. \A s \in Requests :
           \/ pc'[s] = pc[s]
           \/ pc[s] = "calling" /\ pc'[s] \in {"replied", "failed"}
    BY <2>2 DEF TypeOK
  <2> QED
    BY <1>3, <2>1, <2>3
<1>6. CASE UNCHANGED vars
  BY <1>3, <1>6 DEF vars
<1> QED
  BY <1>1, <1>2, <1>4, <1>5, <1>6 DEF Next, Commit

(* With either provider, every success under a key is the response of the   *)
(* one committed request that stored it.                                    *)
THEOREM AnswerInvariant == Spec => []AnswerInv
<1>1. Init => AnswerInv
  BY DEF Init, AnswerInv, OwnAnswerInv, ReplayInv, StoredOnceInv, NoRequest
<1> QED
  BY <1>1, TypeCorrect, NextAnswer, PTL DEF Spec

(* With either provider, clients that repeat a key and get a success get    *)
(* one and the same response, for the body they sent.                       *)
THEOREM KeyedAnswers == Spec => []KeyedAnswersAgree
<1>1. TypeOK /\ AnswerInv => KeyedAnswersAgree
  <2> SUFFICES ASSUME TypeOK, AnswerInv, NEW r \in Requests, NEW s \in Requests,
                      pc[r] \in {"committed", "replayed"},
                      pc[s] \in {"committed", "replayed"},
                      req[r].key # NoKey,
                      req[r].key = req[s].key,
                      req[r].op = req[s].op
               PROVE  /\ answer[r] = answer[s]
                      /\ pc[answer[r]] = "committed"
                      /\ Body(req[r]) = Body(req[s])
    BY DEF KeyedAnswersAgree
  <2>1. \A t \in {r, s} : /\ answer[t] \in Requests
                          /\ pc[answer[t]] = "committed"
                          /\ req[answer[t]].key = req[t].key
                          /\ req[answer[t]].op = req[t].op
                          /\ Body(req[answer[t]]) = Body(req[t])
    BY DEF AnswerInv, OwnAnswerInv, ReplayInv, TypeOK
  <2>2. answer[r] = answer[s]
    BY <2>1 DEF AnswerInv, StoredOnceInv
  <2> QED
    BY <2>1, <2>2
<1> QED
  BY <1>1, TypeCorrect, AnswerInvariant, PTL

(* The body of a request that called the provider is never rewritten. *)
LEMMA SentStays ==
  ASSUME TypeOK, ControlInv, [Next]_vars, NEW s \in Requests, Sent(s)
  PROVE  req'[s] = req[s]
<1>1. ASSUME NEW r \in Requests, Receive(r) \/ Reject(r) \/ Abort(r)
      PROVE  req'[s] = req[s]
  <2>1. r # s => req'[s] = req[s]
    BY <1>1 DEF Receive, Fail, Reject, Abort, TypeOK
  <2>2. CASE r = s
    <3>1. pc[s] \notin {"new", "accepted"}
      BY DEF ControlInv
    <3> QED
      BY <1>1, <2>2, <3>1 DEF Receive, Reject, Abort, TypeOK
  <2> QED
    BY <2>1, <2>2
<1>2. ASSUME NEW r \in Requests, Start(r) \/ Timeout(r) \/ Commit(r)
      PROVE  req' = req
  BY <1>2
  DEF Start, StartCreate, StartCapture, StartCancel, StartRefund, Timeout,
      Commit, CommitCreate, CommitCapture, CommitCancel, CommitRefund,
      CommitFails, Write
<1>3. ASSUME NEW c \in Calls, ProviderStep(c) PROVE req' = req
  BY <1>3
  DEF ProviderStep, ProviderCreate, ProviderReplay, ProviderCapture,
      ProviderCancel, ProviderRefund, ProviderUpdate, ProviderRefuse, Take
<1>4. CASE UNCHANGED vars
  BY <1>4 DEF vars
<1> QED
  BY <1>1, <1>2, <1>3, <1>4 DEF Next

(* Over Stripe an Idempotency-Key charges the card at most once, whatever   *)
(* is retried, timed out, raced or rolled back.                             *)
THEOREM KeyedCharge == ASSUME Provider = "stripe" PROVE Spec => []KeyedChargeOnce
<1>1. Init => KeyedChargeOnce
  BY DEF Init, KeyedChargeOnce, NoCharge
<1>2. ASSUME IInv, KeyedChargeOnce, [Next]_vars PROVE KeyedChargeOnce'
  <2>0. TypeOK /\ ControlInv
    BY <1>2 DEF IInv
  <2>1. \A c \in Refs : c[1] \in Requests
    BY DEF Refs, Calls
  <2>2. \A c \in Refs : ledger[c].status # "none" => Sent(c[1])
    BY <2>0, <2>1 DEF ControlInv, Sent, Refs, Calls, TypeOK
  <2>3. \A c \in Refs : ledger[c].status # "none" => req'[c[1]] = req[c[1]]
    BY <1>2, <2>0, <2>1, <2>2, SentStays
  <2>4. ASSUME \A c \in Refs : ledger'[c].status # "none" => ledger[c].status # "none"
        PROVE  KeyedChargeOnce'
    BY <1>2, <2>3, <2>4 DEF KeyedChargeOnce
  <2>5. ASSUME NEW c \in Calls, ProviderCreate(c) PROVE KeyedChargeOnce'
    <3>1. /\ req' = req
          /\ MadeUnderKey(c) = {}
          /\ \A d \in Refs \ {c} : ledger'[d] = ledger[d]
      BY <2>0, <2>5 DEF ProviderCreate, Take, TypeOK
    <3>2. \A d \in Refs \ {c} : ledger'[d].status # "none" /\ req[c[1]].key # NoKey =>
                                   req[d[1]].key # req[c[1]].key
      BY <3>1 DEF MadeUnderKey
    <3> QED
      BY <1>2, <3>1, <3>2 DEF KeyedChargeOnce
  <2>6. ASSUME NEW c \in Calls,
               ProviderCapture(c) \/ ProviderCancel(c) \/ ProviderRefund(c)
        PROVE  KeyedChargeOnce'
    <3>1. ledger[snap[c[1]].ref].status # "none"
      BY <2>6
      DEF ProviderCapture, ProviderCancel, ProviderRefund, ProviderUpdate, Accepts
    <3>2. PICK charge : ledger' = [ledger EXCEPT ![snap[c[1]].ref] = charge]
      BY <2>6 DEF ProviderCapture, ProviderCancel, ProviderRefund, ProviderUpdate
    <3> QED
      BY <2>0, <2>4, <3>1, <3>2 DEF TypeOK
  <2>7. ASSUME NEW c \in Calls, ProviderReplay(c) \/ ProviderRefuse(c)
        PROVE  KeyedChargeOnce'
    BY <2>4, <2>7 DEF ProviderReplay, ProviderRefuse
  <2>8. ASSUME NEW r \in Requests,
               \/ Receive(r) \/ Start(r) \/ Reject(r) \/ Timeout(r) \/ Abort(r)
               \/ Commit(r)
        PROVE  ledger' = ledger
    BY <2>8
    DEF Receive, Start, StartCreate, StartCapture, StartCancel, StartRefund, Send,
        Reject, Timeout, Abort, Commit, CommitCreate, CommitCapture, CommitCancel,
        CommitRefund, CommitFails, Write
  <2>9. CASE ledger' = ledger
    BY <2>4, <2>9
  <2>10. CASE UNCHANGED vars
    BY <2>9, <2>10 DEF vars
  <2> QED
    BY <1>2, <2>5, <2>6, <2>7, <2>8, <2>9, <2>10 DEF Next, ProviderStep
<1> QED
  BY <1>1, <1>2, EngineInvariant, PTL DEF Spec

(* A keyed create that has its answer, or has committed, names a charge     *)
(* that was made under its own key.                                         *)
UnderKey(r, ref) ==
    /\ ref \in Refs
    /\ ledger[ref].status # "none"
    /\ req[ref[1]].key = req[r].key

KeyedRefInv ==
    \A r \in Requests : req[r].op = "create" /\ req[r].key # NoKey =>
        /\ Pending(r) => UnderKey(r, reply[r].ref)
        /\ pc[r] = "committed" => UnderKey(r, payments[r].ref)

(* The provider forgets no charge and the engine rewrites no request that a *)
(* charge was made for.                                                     *)
LEMMA ChargesStay ==
  ASSUME IInv, [Next]_vars, NEW c \in Refs, ledger[c].status # "none"
  PROVE  ledger'[c].status # "none" /\ req'[c[1]] = req[c[1]]
<1>1. TypeOK /\ ControlInv
  BY DEF IInv
<1>2. c[1] \in Requests /\ Sent(c[1])
  BY <1>1 DEF ControlInv, Sent, Refs, Calls, TypeOK
<1>3. req'[c[1]] = req[c[1]]
  BY <1>1, <1>2, SentStays
<1>4. ASSUME NEW d \in Calls, ProviderCreate(d) PROVE ledger'[c].status # "none"
  <2>1. PICK v \in Verdicts(d[1]) : ledger' = [ledger EXCEPT ![d] = NewCharge(v, units[d[1]])]
    BY <1>4 DEF ProviderCreate
  <2>2. v # "none"
    BY DEF Verdicts
  <2> QED
    BY <1>1, <2>1, <2>2 DEF NewCharge, TypeOK
<1>5. ASSUME NEW d \in Calls, ProviderCapture(d) \/ ProviderCancel(d) \/ ProviderRefund(d)
      PROVE  ledger'[c].status # "none"
  <2> DEFINE ref == snap[d[1]].ref
             old == ledger[ref]
  <2>1. ASSUME NEW new, ledger' = [ledger EXCEPT ![ref] = new],
               ref = c => new.status # "none"
        PROVE  ledger'[c].status # "none"
    BY <1>1, <2>1 DEF TypeOK
  <2>2. ref = c => old \in Charge /\ old.status # "none"
    BY <1>1 DEF TypeOK
  <2>3. CASE ProviderCapture(d)
    <3>1. ledger' = [ledger EXCEPT ![ref] = [old EXCEPT !.status = "captured",
                                                       !.captured = units[d[1]]]]
      BY <2>3 DEF ProviderCapture, ProviderUpdate
    <3> QED
      BY <2>1, <2>2, <3>1 DEF Charge
  <2>4. CASE ProviderCancel(d)
    <3>1. ledger' = [ledger EXCEPT ![ref] = [old EXCEPT !.status = "canceled"]]
      BY <2>4 DEF ProviderCancel, ProviderUpdate
    <3> QED
      BY <2>1, <2>2, <3>1 DEF Charge
  <2>5. CASE ProviderRefund(d)
    <3>1. ledger' = [ledger EXCEPT ![ref] = [old EXCEPT !.refunded = @ + units[d[1]]]]
      BY <2>5 DEF ProviderRefund, ProviderUpdate
    <3> QED
      BY <2>1, <2>2, <3>1 DEF Charge
  <2> QED
    BY <1>5, <2>3, <2>4, <2>5
<1>6. CASE ledger' = ledger
  BY <1>3, <1>6
<1> QED
  BY <1>3, <1>4, <1>5, <1>6, ZenonT(40)
  DEF Next, ProviderStep, ProviderReplay, ProviderRefuse, Receive, Start, StartCreate,
      StartCapture, StartCancel, StartRefund, Send, Reject, Timeout, Abort, Commit,
      CommitCreate, CommitCapture, CommitCancel, CommitRefund, CommitFails, Write, vars

(* Every step keeps KeyedRefInv: an answer to a keyed create comes from a   *)
(* charge made under the key, and the commit books that charge.             *)
LEMMA NextKeyedRef ==
  ASSUME IInv, KeyedRefInv, [Next]_vars
  PROVE  KeyedRefInv'
<1>0. TypeOK /\ ControlInv
  BY DEF IInv
<1> DEFINE Kept(r) ==
      /\ pc'[r] \in {"replied", "committed"} => pc'[r] = pc[r]
      /\ reply'[r] = reply[r]
      /\ payments'[r].ref = payments[r].ref
    Good(r) == req'[r].op = "create" /\ req'[r].key # NoKey =>
                 /\ Pending(r)' => UnderKey(r, reply[r].ref)'
                 /\ pc'[r] = "committed" => UnderKey(r, payments[r].ref)'
<1>1. \A r \in Requests : \A ref : UnderKey(r, ref) /\ req'[r] = req[r] => UnderKey(r, ref)'
  BY ChargesStay DEF UnderKey
<1>2. \A r \in Requests : pc[r] \in {"calling", "replied", "committed"} => req'[r] = req[r]
  BY <1>0, SentStays DEF ControlInv
<1>3. \A r \in Requests : Kept(r) => Good(r)
  BY <1>1, <1>2 DEF KeyedRefInv, Pending
<1>4. ASSUME NEW q \in Requests,
             Receive(q) \/ Start(q) \/ Reject(q) \/ Timeout(q) \/ Abort(q) \/ CommitFails(q)
      PROVE  \A r \in Requests : Kept(r)
  <2>1. reply' = reply /\ payments' = payments
    BY <1>4 DEF Receive, Start, StartCreate, StartCapture, StartCancel, StartRefund, Send,
                Reject, Timeout, Abort, CommitFails
  <2>2. pc' = pc \/ \E v \in {"accepted", "replayed", "calling", "failed"} : pc' = [pc EXCEPT ![q] = v]
    BY <1>4 DEF Receive, Start, StartCreate, StartCapture, StartCancel, StartRefund, Send,
                Reject, Timeout, Abort, CommitFails, Fail
  <2> QED
    BY <1>0, <2>1, <2>2 DEF TypeOK
<1>5. ASSUME NEW c \in Calls, ProviderStep(c) PROVE \A r \in Requests : Good(r)
  <2>1. c[1] \in Requests
    BY DEF Calls
  <2>2. PICK out \in {"replied", "failed"} :
          /\ payments' = payments
          /\ \/ UNCHANGED <<pc, reply>>
             \/ /\ Awaited(c)
                /\ pc' = [pc EXCEPT ![c[1]] = out]
                /\ \E response : reply' = [reply EXCEPT ![c[1]] = response]
    BY <1>5
    DEF ProviderStep, ProviderCreate, ProviderReplay, ProviderCapture, ProviderCancel,
        ProviderRefund, ProviderUpdate, ProviderRefuse, Take, Deliver
  <2>3. \A r \in Requests \ {c[1]} : Kept(r)
    BY <1>0, <2>1, <2>2 DEF TypeOK
  <2>4. Good(c[1])
    <3>1. CASE UNCHANGED <<pc, reply>>
      BY <1>3, <2>1, <2>2, <3>1
    <3>2. CASE Awaited(c) /\ pc' = [pc EXCEPT ![c[1]] = "failed"]
      BY <1>0, <2>1, <3>2 DEF TypeOK, Pending
    <3>3. ASSUME Awaited(c), pc' = [pc EXCEPT ![c[1]] = "replied"],
                 req[c[1]].op = "create", req[c[1]].key # NoKey
          PROVE  Good(c[1])
      <4>0. ~(pc' = pc) /\ pc'[c[1]] = "replied" /\ req'[c[1]] = req[c[1]]
        BY <1>0, <1>2, <2>1, <3>3 DEF TypeOK, Awaited
      <4>1. CASE ProviderCreate(c)
        <5>1. PICK v \in Verdicts(c[1]) :
                /\ ledger' = [ledger EXCEPT ![c] = NewCharge(v, units[c[1]])]
                /\ reply' = [reply EXCEPT ![c[1]] = [ref |-> c, status |-> v]]
          BY <4>0, <4>1 DEF ProviderCreate, Deliver
        <5>2. reply'[c[1]].ref = c /\ c \in Refs /\ ledger'[c].status # "none"
          BY <1>0, <2>1, <5>1 DEF TypeOK, Refs, NewCharge, Verdicts
        <5> QED
          BY <4>0, <5>2 DEF UnderKey
      <4>2. CASE ProviderReplay(c)
        <5>1. PICK d \in MadeUnderKey(c) :
                reply' = [reply EXCEPT ![c[1]] = [ref |-> d, status |-> FirstStatus(d)]]
          BY <4>0, <4>2 DEF ProviderReplay, Deliver
        <5>2. reply'[c[1]].ref = d /\ UnderKey(c[1], d)
          BY <1>0, <2>1, <5>1 DEF TypeOK, UnderKey, MadeUnderKey
        <5> QED
          BY <1>1, <2>1, <4>0, <5>2
      <4>3. CASE ProviderCapture(c) \/ ProviderCancel(c) \/ ProviderRefund(c)
        BY <3>3, <4>3 DEF ProviderCapture, ProviderCancel, ProviderRefund
      <4>4. CASE ProviderRefuse(c)
        <5>1. pc'[c[1]] = "failed"
          BY <1>0, <2>1, <4>0, <4>4 DEF ProviderRefuse, Deliver, TypeOK
        <5> QED
          BY <4>0, <5>1
      <4> QED
        BY <1>5, <4>1, <4>2, <4>3, <4>4 DEF ProviderStep
    <3>4. Awaited(c) => req'[c[1]] = req[c[1]]
      BY <1>2, <2>1 DEF Awaited
    <3> QED
      BY <2>2, <3>1, <3>2, <3>3, <3>4
  <2> QED
    BY <1>3, <2>3, <2>4
<1>6. ASSUME NEW q \in Requests, CommitCreate(q) PROVE \A r \in Requests : Good(r)
  <2>1. /\ pc[q] = "replied" /\ req[q].op = "create" /\ req[q].payment = q
        /\ req' = req /\ reply' = reply
        /\ pc' = [pc EXCEPT ![q] = "committed"]
    BY <1>0, <1>6 DEF CommitCreate, Write, ControlInv
  <2>2. payments' = [payments EXCEPT ![q] =
          [snap[q] EXCEPT !.status = UnifiedStatus(reply[q].status), !.ref = reply[q].ref,
                          !.captured = IF reply[q].status = "captured" THEN units[q] ELSE 0]]
    BY <1>6, <2>1 DEF CommitCreate, Write
  <2>3. payments'[q].ref = reply[q].ref /\ \A r \in Requests \ {q} : payments'[r] = payments[r]
    BY <1>0, <2>2 DEF TypeOK, Row
  <2>4. \A r \in Requests \ {q} : Kept(r)
    BY <1>0, <2>1, <2>3 DEF TypeOK
  <2>5. Good(q)
    <3>1. pc'[q] = "committed" /\ ~Pending(q)'
      BY <1>0, <2>1 DEF TypeOK, Pending
    <3>2. req[q].key # NoKey => UnderKey(q, reply[q].ref)
      BY <2>1 DEF KeyedRefInv, Pending
    <3> QED
      BY <1>1, <2>1, <2>3, <3>1, <3>2
  <2> QED
    BY <1>3, <2>4, <2>5
<1>7. ASSUME NEW q \in Requests, CommitCapture(q) \/ CommitCancel(q) \/ CommitRefund(q)
      PROVE  \A r \in Requests : Good(r)
  <2>1. /\ req[q].op # "create" /\ req' = req /\ reply' = reply
        /\ pc' = [pc EXCEPT ![q] = "committed"]
    BY <1>7 DEF CommitCapture, CommitCancel, CommitRefund, Write
  <2>2. \A r \in Requests : payments'[r].ref = payments[r].ref
    <3> DEFINE p == req[q].payment
               old == payments[p]
    <3>1. p \in Requests /\ old \in Row
      BY <1>0 DEF TypeOK, Request
    <3>2. ASSUME NEW row, payments' = [payments EXCEPT ![p] = row], row.ref = old.ref
          PROVE  \A r \in Requests : payments'[r].ref = payments[r].ref
      BY <1>0, <3>1, <3>2 DEF TypeOK
    <3>3. CASE CommitCapture(q)
      <4>1. payments' = [payments EXCEPT ![p] = [old EXCEPT !.status = "captured",
                                                            !.captured = units[q]]]
        BY <3>3 DEF CommitCapture, Write
      <4> QED
        BY <3>1, <3>2, <4>1 DEF Row
    <3>4. CASE CommitCancel(q)
      <4>1. payments' = [payments EXCEPT ![p] = [old EXCEPT !.status = "canceled"]]
        BY <3>4 DEF CommitCancel, Write
      <4> QED
        BY <3>1, <3>2, <4>1 DEF Row
    <3>5. CASE CommitRefund(q)
      <4> DEFINE row == [old EXCEPT !.refunded = snap[q].refunded + units[q],
                                    !.status = IF RefundTarget(q) = snap[q].status
                                               THEN @ ELSE RefundTarget(q)]
      <4>1. payments' = [payments EXCEPT ![p] = row]
        BY <3>5 DEF CommitRefund, Write
      <4>2. row.ref = old.ref
        BY <3>1 DEF Row
      <4> HIDE DEF row
      <4> QED
        BY <3>2, <4>1, <4>2
    <3> QED
      BY <1>7, <3>3, <3>4, <3>5
  <2>3. \A r \in Requests \ {q} : Kept(r)
    BY <1>0, <2>1, <2>2 DEF TypeOK
  <2> QED
    BY <1>3, <2>1, <2>3
<1>8. ASSUME UNCHANGED vars PROVE \A r \in Requests : Kept(r)
  BY <1>8 DEF vars
<1> QED
  <2>1. \A r \in Requests : Good(r)
    BY <1>3, <1>4, <1>5, <1>6, <1>7, <1>8 DEF Next, Commit
  <2> QED
    BY <2>1 DEF KeyedRefInv

(* Over Stripe a keyed create that is repeated until it succeeds leaves no  *)
(* charge of its key outside the books, for any number of clients, retries  *)
(* and rollbacks.                                                           *)
THEOREM KeyedMoney == ASSUME Provider = "stripe" PROVE Spec => []KeyedMoneyAccounted
<1>1. Init => KeyedRefInv
  BY DEF Init, KeyedRefInv, NoRequest
<1>2. Spec => []KeyedRefInv
  BY <1>1, NextKeyedRef, EngineInvariant, PTL DEF Spec
<1>3. KeyedRefInv /\ KeyedChargeOnce => KeyedMoneyAccounted
  BY DEF KeyedRefInv, KeyedChargeOnce, KeyedMoneyAccounted, UnderKey, RefFree
<1> QED
  BY <1>2, <1>3, KeyedCharge, PTL

-----------------------------------------------------------------------------
(* Refunds against captures *)

(* No step but a refund of the provider adds to the answered refunds, and   *)
(* none changes how much they asked for.                                    *)
LEMMA AnsweredStays ==
  ASSUME IInv, [Next]_vars, NEW p \in Requests, \A c \in Calls : ~ProviderRefund(c)
  PROVE  \A r \in Answered(p)' : r \in Answered(p) /\ units'[r] = units[r]
<1>0. TypeOK
  BY DEF IInv
<1> SUFFICES ASSUME NEW r \in Requests, req'[r].op = "refund", req'[r].payment = p,
                    pc'[r] \in {"replied", "committed"}
             PROVE  /\ req[r].op = "refund" /\ req[r].payment = p
                    /\ pc[r] \in {"replied", "committed"}
                    /\ units'[r] = units[r]
  BY DEF Answered
<1>1. ASSUME NEW q \in Requests, Receive(q) \/ Reject(q) \/ Timeout(q) \/ Abort(q)
      PROVE  req'[r] = req[r] /\ pc'[r] = pc[r] /\ units'[r] = units[r]
  <2>1. units' = units
    BY <1>1 DEF Receive, Reject, Timeout, Abort
  <2>2. CASE Receive(q)
    BY <1>0, <2>1, <2>2 DEF Receive, Fail, TypeOK
  <2>3. CASE Reject(q)
    BY <1>0, <2>1, <2>3 DEF Reject, Fail, TypeOK
  <2>4. CASE Timeout(q)
    BY <1>0, <2>1, <2>4 DEF Timeout, Fail, TypeOK
  <2>5. CASE Abort(q)
    BY <1>0, <2>1, <2>5 DEF Abort, Fail, TypeOK
  <2> QED
    BY <1>1, <2>2, <2>3, <2>4, <2>5
<1>2. ASSUME NEW q \in Requests, Start(q)
      PROVE  req'[r] = req[r] /\ pc'[r] = pc[r] /\ units'[r] = units[r]
  BY <1>0, <1>2
  DEF Start, StartCreate, StartCapture, StartCancel, StartRefund, Send, TypeOK
<1>3. ASSUME NEW q \in Requests, Commit(q)
      PROVE  /\ req' = req /\ units' = units
             /\ pc'[r] = pc[r] \/ pc[r] = "replied"
  BY <1>0, <1>3
  DEF Commit, CommitCreate, CommitCapture, CommitCancel, CommitRefund, CommitFails,
      Write, Fail, TypeOK
<1>4. ASSUME NEW c \in Calls, ProviderStep(c)
      PROVE  req' = req /\ units' = units /\ pc'[r] = pc[r]
  <2>1. req' = req /\ units' = units
    BY <1>4
    DEF ProviderStep, ProviderCreate, ProviderReplay, ProviderCapture,
        ProviderCancel, ProviderRefund, ProviderUpdate, ProviderRefuse, Take
  <2>2. ASSUME NEW outcome, NEW response, Deliver(c, outcome, response),
               r = c[1] => outcome \notin {"replied", "committed"}
        PROVE  pc'[r] = pc[r]
    BY <1>0, <2>2 DEF Deliver, TypeOK
  <2>3. r = c[1] => req[c[1]].op = "refund"
    BY <2>1
  <2>4. CASE ProviderCreate(c)
    <3>1. r # c[1]
      BY <2>3, <2>4 DEF ProviderCreate
    <3> QED
      BY <2>1, <2>2, <2>4, <3>1 DEF ProviderCreate
  <2>5. CASE ProviderReplay(c)
    <3>1. r # c[1]
      BY <2>3, <2>5 DEF ProviderReplay
    <3> QED
      BY <2>1, <2>2, <2>5, <3>1 DEF ProviderReplay
  <2>6. CASE ProviderCapture(c) \/ ProviderCancel(c)
    <3>1. r # c[1]
      BY <2>3, <2>6 DEF ProviderCapture, ProviderCancel
    <3>2. Deliver(c, "replied", NoReply)
      BY <2>6 DEF ProviderCapture, ProviderCancel, ProviderUpdate
    <3> QED
      BY <2>1, <2>2, <3>1, <3>2
  <2>7. CASE ProviderRefuse(c)
    <3>1. Deliver(c, "failed", NoReply)
      BY <2>7 DEF ProviderRefuse
    <3> QED
      BY <2>1, <2>2, <3>1
  <2> QED
    BY <1>4, <2>4, <2>5, <2>6, <2>7 DEF ProviderStep
<1>5. CASE UNCHANGED vars
  BY <1>5 DEF vars
<1> QED
  BY <1>1, <1>2, <1>3, <1>4, <1>5 DEF Next

(* A row about which the provider was called keeps its charge. *)
LEMMA RefStays ==
  ASSUME IInv, [Next]_vars, NEW p \in Requests, payments[p].status # "absent"
  PROVE  payments'[p].ref = payments[p].ref
<1>0. TypeOK /\ RowInv /\ ControlInv /\ payments[p] \in Row
  BY DEF IInv, MoneyInv, TypeOK
<1>1. ASSUME NEW r \in Requests, NEW row,
             payments' = [payments EXCEPT ![req[r].payment] = row],
             req[r].payment = p => row.ref = payments[p].ref
      PROVE  payments'[p].ref = payments[p].ref
  BY <1>0, <1>1 DEF TypeOK
<1>2. ASSUME NEW r \in Requests, Commit(r) PROVE payments'[p].ref = payments[p].ref
  <2>1. CASE CommitCreate(r)
    <3>1. req[r].payment = r /\ r # p
      BY <1>0, <2>1 DEF CommitCreate, ControlInv, RowInv
    <3> QED
      BY <1>0, <2>1, <3>1 DEF CommitCreate, Write, TypeOK
  <2>2. CASE CommitCapture(r)
    BY <1>0, <1>1, <2>2 DEF CommitCapture, Write, Row
  <2>3. CASE CommitCancel(r)
    BY <1>0, <1>1, <2>3 DEF CommitCancel, Write, Row
  <2>4. CASE CommitRefund(r)
    <3> DEFINE s == IF RefundTarget(r) = snap[r].status THEN payments[req[r].payment].status
                                                        ELSE RefundTarget(r)
               row == [payments[req[r].payment] EXCEPT
                         !.refunded = snap[r].refunded + units[r], !.status = s]
    <3>1. payments' = [payments EXCEPT ![req[r].payment] = row]
      BY <2>4 DEF CommitRefund, Write
    <3>2. req[r].payment = p => row.ref = payments[p].ref
      BY <1>0 DEF Row
    <3> HIDE DEF row
    <3> QED
      BY <1>1, <3>1, <3>2
  <2>5. CASE CommitFails(r)
    BY <2>5 DEF CommitFails
  <2> QED
    BY <1>2, <2>1, <2>2, <2>3, <2>4, <2>5 DEF Commit
<1>3. ASSUME NEW r \in Requests, Receive(r) \/ Start(r) \/ Reject(r) \/ Timeout(r) \/ Abort(r)
      PROVE  payments' = payments
  BY <1>3
  DEF Receive, Start, StartCreate, StartCapture, StartCancel, StartRefund, Send, Reject,
      Timeout, Abort
<1>4. ASSUME NEW c \in Calls, ProviderStep(c) PROVE payments' = payments
  BY <1>4
  DEF ProviderStep, ProviderCreate, ProviderReplay, ProviderCapture, ProviderCancel,
      ProviderRefund, ProviderUpdate, ProviderRefuse, Take
<1>5. CASE UNCHANGED vars
  BY <1>5 DEF vars
<1> QED
  BY <1>2, <1>3, <1>4, <1>5 DEF Next

(* A refund the provider answered is about a row that is still there.       *)
LEMMA AnsweredRow ==
  ASSUME IInv, NEW p \in Requests, Answered(p) # {}
  PROVE  /\ payments[p].status \in CapturedStates
         /\ payments[p].status # "absent"
         /\ payments[p].ref \in Refs
         /\ ledger[payments[p].ref].status # "none"
         /\ payments[p].captured = ledger[payments[p].ref].captured
<1>1. PICK r \in Answered(p) : TRUE
  OBVIOUS
<1>2. r \in Requests /\ req[r].op = "refund" /\ req[r].payment = p /\ Sent(r)
  BY <1>1 DEF Answered, IInv, ControlInv
<1>3. payments[p].status \in CapturedStates /\ payments[p].status # "absent"
  BY <1>2 DEF IInv, MoneyInv, UpdateInv, IsUpdate, RowOf
<1> QED
  BY <1>3 DEF IInv, MoneyInv, RowInv, RowMatches

(* Only a refund changes what the provider gave back of a booked charge.    *)
LEMMA GivenStays ==
  ASSUME IInv, [Next]_vars, NEW p \in Requests, payments[p].status # "absent",
         \A c \in Calls : ~ProviderRefund(c)
  PROVE  Given(p)' = Given(p)
<1>0. /\ TypeOK /\ ControlInv /\ RowInv
      /\ payments[p].ref \in Refs
      /\ ledger[payments[p].ref].status # "none"
  BY DEF IInv, MoneyInv, RowInv
<1>1. payments'[p].ref = payments[p].ref
  BY RefStays
<1>2. CASE ledger' = ledger
  BY <1>1, <1>2 DEF Given
<1>3. ASSUME NEW c \in Calls, ProviderCreate(c) PROVE Given(p)' = Given(p)
  <2>1. ledger[c].status = "none"
    BY <1>0, <1>3 DEF ControlInv, ProviderCreate, Take, Refs
  <2>2. \A d \in Refs \ {c} : ledger'[d] = ledger[d]
    BY <1>0, <1>3 DEF ProviderCreate, TypeOK
  <2> QED
    BY <1>0, <1>1, <2>1, <2>2 DEF Given
<1>4. ASSUME NEW c \in Calls, ProviderCapture(c) \/ ProviderCancel(c)
      PROVE  Given(p)' = Given(p)
  <2>1. PICK charge : /\ charge.refunded = ledger[snap[c[1]].ref].refunded
                      /\ ledger' = [ledger EXCEPT ![snap[c[1]].ref] = charge]
    <3> DEFINE old == ledger[snap[c[1]].ref]
    <3>1. CASE ProviderCapture(c)
      <4>1. [old EXCEPT !.status = "captured", !.captured = units[c[1]]].refunded
              = old.refunded
        OBVIOUS
      <4> QED
        BY <3>1, <4>1 DEF ProviderCapture, ProviderUpdate
    <3>2. CASE ProviderCancel(c)
      <4>1. [old EXCEPT !.status = "canceled"].refunded = old.refunded
        OBVIOUS
      <4> QED
        BY <3>2, <4>1 DEF ProviderCancel, ProviderUpdate
    <3> QED
      BY <1>4, <3>1, <3>2
  <2> QED
    BY <1>0, <1>1, <2>1 DEF Given, TypeOK
<1>5. ASSUME NEW r \in Requests,
             Receive(r) \/ Start(r) \/ Reject(r) \/ Timeout(r) \/ Abort(r) \/ Commit(r)
      PROVE  ledger' = ledger
  BY <1>5
  DEF Receive, Start, StartCreate, StartCapture, StartCancel, StartRefund, Send, Reject,
      Timeout, Abort, Commit, CommitCreate, CommitCapture, CommitCancel, CommitRefund,
      CommitFails, Write
<1>6. ASSUME NEW c \in Calls, ProviderReplay(c) \/ ProviderRefuse(c) PROVE ledger' = ledger
  BY <1>6 DEF ProviderReplay, ProviderRefuse
<1>7. CASE UNCHANGED vars
  BY <1>2, <1>7 DEF vars
<1> QED
  BY <1>2, <1>3, <1>4, <1>5, <1>6, <1>7 DEF Next, ProviderStep

(* One refund more adds its units to a total. *)
LEMMA OneMore ==
  ASSUME NEW A \in SUBSET Requests, NEW r \in Requests, r \notin A,
         units \in [Requests -> Nat], IsFiniteSet(UnitsOf(A))
  PROVE  /\ IsFiniteSet(UnitsOf(A \cup {r}))
         /\ Total(A \cup {r}) = Total(A) + units[r]
<1> DEFINE own == 1 .. units[r]
           mine == {r} \X own
<1>1. UnitsOf(A \cup {r}) = UnitsOf(A) \cup mine
  BY DEF UnitsOf
<1>2. IsFiniteSet(own) /\ Cardinality(own) = units[r]
  BY FS_Interval
<1>3. IsFiniteSet({r}) /\ Cardinality({r}) = 1
  BY FS_Singleton
<1>4. IsFiniteSet(mine) /\ Cardinality(mine) = units[r]
  <2> HIDE DEF own
  <2>1. IsFiniteSet({r} \X own) /\ Cardinality({r} \X own) = 1 * units[r]
    BY <1>2, <1>3, FS_Product
  <2> QED
    BY <2>1
<1>5. UnitsOf(A) \cap mine = {}
  BY DEF UnitsOf
<1>6. Cardinality(UnitsOf(A) \cap mine) = 0
  BY <1>5, FS_EmptySet
<1>7. Cardinality(UnitsOf(A)) \in Nat
  BY FS_CardinalityType
<1> HIDE DEF mine
<1>8. /\ IsFiniteSet(UnitsOf(A) \cup mine)
      /\ Cardinality(UnitsOf(A) \cup mine)
           = Cardinality(UnitsOf(A)) + Cardinality(mine)
               - Cardinality(UnitsOf(A) \cap mine)
  BY <1>4, FS_Union
<1>9. units[r] \in Nat
  OBVIOUS
<1>10. Cardinality(UnitsOf(A) \cup mine) = Cardinality(UnitsOf(A)) + units[r]
  BY <1>4, <1>6, <1>7, <1>8, <1>9
<1> QED
  BY <1>1, <1>8, <1>10 DEF Total

(* A total over fewer refunds, with their units as they were, is no larger. *)
LEMMA NoMore ==
  ASSUME NEW p \in Requests, IsFiniteSet(UnitsOf(Answered(p))),
         \A r \in Answered(p)' : r \in Answered(p) /\ units'[r] = units[r]
  PROVE  /\ IsFiniteSet(UnitsOf(Answered(p))')
         /\ Total(Answered(p))' =< Total(Answered(p))
         /\ Total(Answered(p))' \in Nat /\ Total(Answered(p)) \in Nat
<1>1. UnitsOf(Answered(p))' \subseteq UnitsOf(Answered(p))
  BY DEF UnitsOf
<1> QED
  BY <1>1, FS_Subset, FS_CardinalityType DEF Total

(* A refund of the provider raises its own total by what it answers for,    *)
(* and the totals of no other payment.                                      *)
LEMMA RefundCovered ==
  ASSUME IInv, CoverInv, TypeOK', NEW c \in Calls, ProviderRefund(c)
  PROVE  CoverInv'
<1>0. TypeOK /\ ControlInv /\ RowInv /\ UpdateInv
  BY DEF IInv, MoneyInv
<1>1. PICK r \in Requests : r = c[1]
  BY DEF Calls
<1>2. /\ c \in wire /\ req[r].op = "refund" /\ Accepts(c)
      /\ payments' = payments /\ req' = req /\ units' = units
  BY <1>1 DEF ProviderRefund, ProviderUpdate, Take
<1>3. Sent(r) /\ IsUpdate(r)
  BY <1>0, <1>1, <1>2 DEF ControlInv, Sent, IsUpdate, TypeOK, Calls
<1>4. PICK q \in Requests : q = req[r].payment
  BY <1>0 DEF TypeOK, Request
<1>5. PICK d \in Refs : d = payments[q].ref /\ snap[r].ref = d
  BY <1>0, <1>3, <1>4 DEF UpdateInv, RowOf, RowInv
<1>6. d # NoRef
  BY DEF Refs, Calls
<1>7. /\ ledger' = [ledger EXCEPT ![d] = [ledger[d] EXCEPT !.refunded = @ + units[r]]]
      /\ Deliver(c, "replied", NoReply)
  BY <1>1, <1>5 DEF ProviderRefund, ProviderUpdate
<1>8. ledger[d] \in Charge /\ units[r] \in Nat
  BY <1>0 DEF TypeOK
<1>9. /\ ledger'[d].refunded = ledger[d].refunded + units[r]
      /\ ledger[d].refunded \in Nat
  BY <1>0, <1>7, <1>8 DEF TypeOK, Charge
<1>10. \/ pc' = pc
       \/ pc[r] = "calling" /\ pc' = [pc EXCEPT ![r] = "replied"]
  BY <1>1, <1>7 DEF Deliver, Awaited
<1> SUFFICES ASSUME NEW p \in Requests
             PROVE  (/\ IsFiniteSet(UnitsOf(Answered(p)))
                     /\ Answered(p) # {} => Total(Answered(p)) =< Given(p))'
  BY DEF CoverInv
<1>11. /\ IsFiniteSet(UnitsOf(Answered(p)))
       /\ Answered(p) # {} => Total(Answered(p)) =< Given(p)
  BY DEF CoverInv
<1>12. Total(Answered(p)) \in Nat
  BY <1>11, FS_CardinalityType DEF Total
<1>13. \A s \in Requests \ {r} : pc'[s] = pc[s]
  BY <1>0, <1>10 DEF TypeOK
<1>14. \A A \in SUBSET Requests : UnitsOf(A)' = UnitsOf(A) /\ Total(A)' = Total(A)
  BY <1>2 DEF UnitsOf, Total
<1>15. CASE p # q
  <2>1. Answered(p)' = Answered(p)
    BY <1>2, <1>4, <1>13, <1>15 DEF Answered
  <2>2. UnitsOf(Answered(p))' = UnitsOf(Answered(p))
    BY <1>2, <2>1 DEF UnitsOf
  <2>3. Answered(p) # {} => Given(p)' = Given(p)
    <3> SUFFICES ASSUME Answered(p) # {} PROVE Given(p)' = Given(p)
      OBVIOUS
    <3>1. payments[p].ref \in Refs
      BY AnsweredRow
    <3>2. payments[p].ref # d
      BY <1>0, <1>5, <1>6, <1>15 DEF RowInv, ChargeBookedOnce
    <3> QED
      BY <1>0, <1>2, <1>7, <3>1, <3>2 DEF Given, TypeOK
  <2> QED
    BY <1>11, <2>1, <2>2, <2>3 DEF Total
<1>16. CASE p = q
  <2>1. Given(p) = ledger[d].refunded /\ Given(p)' = ledger[d].refunded + units[r]
    BY <1>2, <1>5, <1>9, <1>16 DEF Given
  <2>2. CASE pc' = pc
    <3>1. Answered(p)' = Answered(p) /\ UnitsOf(Answered(p))' = UnitsOf(Answered(p))
      BY <1>2, <2>2 DEF Answered, UnitsOf
    <3>2. Total(Answered(p))' = Total(Answered(p))
      BY <3>1 DEF Total
    <3> QED
      BY <1>8, <1>9, <1>11, <1>12, <2>1, <3>1, <3>2
  <2>3. CASE pc[r] = "calling" /\ pc' = [pc EXCEPT ![r] = "replied"]
    <3>1. pc'[r] = "replied" /\ r \notin Answered(p)
      BY <1>0, <2>3 DEF TypeOK, Answered
    <3>2. Answered(p)' = Answered(p) \cup {r}
      BY <1>2, <1>4, <1>13, <1>16, <3>1 DEF Answered
    <3>3. UnitsOf(Answered(p))' = UnitsOf(Answered(p) \cup {r})
      BY <1>2, <3>2 DEF UnitsOf
    <3>4. Answered(p) \in SUBSET Requests /\ units \in [Requests -> Nat]
      BY <1>0 DEF Answered, TypeOK
    <3>5. /\ IsFiniteSet(UnitsOf(Answered(p) \cup {r}))
          /\ Total(Answered(p) \cup {r}) = Total(Answered(p)) + units[r]
      BY <1>11, <3>1, <3>4, OneMore
    <3>6. Total(Answered(p)) =< Given(p)
      <4>1. Answered(p) = {} => Total(Answered(p)) = 0
        <5>1. UnitsOf({}) = {}
          BY DEF UnitsOf
        <5> QED
          BY <5>1, FS_EmptySet DEF Total
      <4> QED
        BY <1>9, <1>11, <2>1, <4>1
    <3>7. Total(Answered(p))' = Total(Answered(p)) + units[r]
      BY <3>3, <3>5 DEF Total
    <3> QED
      BY <1>8, <1>9, <1>12, <2>1, <3>3, <3>5, <3>6, <3>7
  <2> QED
    BY <1>10, <2>2, <2>3
<1> QED
  BY <1>15, <1>16

(* Every step keeps the answered refunds within the provider's total.       *)
LEMMA NextCover ==
  ASSUME IInv, CoverInv, TypeOK', [Next]_vars PROVE CoverInv'
<1>1. CASE \E c \in Calls : ProviderRefund(c)
  BY <1>1, RefundCovered
<1>2. CASE \A c \in Calls : ~ProviderRefund(c)
  <2> SUFFICES ASSUME NEW p \in Requests
               PROVE  (/\ IsFiniteSet(UnitsOf(Answered(p)))
                       /\ Answered(p) # {} => Total(Answered(p)) =< Given(p))'
    BY DEF CoverInv
  <2>1. \A r \in Answered(p)' : r \in Answered(p) /\ units'[r] = units[r]
    BY <1>2, AnsweredStays
  <2>2. /\ IsFiniteSet(UnitsOf(Answered(p)))
        /\ Answered(p) # {} => Total(Answered(p)) =< Given(p)
    BY DEF CoverInv
  <2>3. /\ IsFiniteSet(UnitsOf(Answered(p))')
        /\ Total(Answered(p))' =< Total(Answered(p))
        /\ Total(Answered(p))' \in Nat /\ Total(Answered(p)) \in Nat
    BY <2>1, <2>2, NoMore
  <2>4. ASSUME Answered(p)' # {} PROVE Total(Answered(p))' =< Given(p)'
    <3>1. Answered(p) # {}
      BY <2>1, <2>4
    <3>2. payments[p].status # "absent" /\ payments[p].ref \in Refs
      BY <3>1, AnsweredRow
    <3>3. Given(p)' = Given(p)
      BY <1>2, <3>2, GivenStays
    <3>4. Given(p) \in Nat
      BY <3>2 DEF Given, IInv, TypeOK, Charge
    <3> QED
      BY <2>2, <2>3, <3>1, <3>3, <3>4
  <2> QED
    BY <2>3, <2>4
<1> QED
  BY <1>1, <1>2

(* Over Stripe, the refunds recorded against a payment never add up to more *)
(* than was captured of it, for any number of concurrent refunds that read  *)
(* the same balance, of retries and of rollbacks.                           *)
THEOREM RefundsBounded ==
  ASSUME Provider = "stripe" PROVE Spec => []RefundsWithinCapture
<1>0. UnitsOf({}) = {} /\ IsFiniteSet({}) /\ Cardinality({}) = 0
  BY FS_EmptySet DEF UnitsOf
<1>1. Init => CoverInv
  <2> SUFFICES ASSUME Init, NEW p \in Requests
               PROVE  IsFiniteSet(UnitsOf(Answered(p))) /\ Answered(p) = {}
    BY DEF CoverInv
  <2>1. Answered(p) = {}
    BY DEF Init, Answered
  <2> QED
    BY <1>0, <2>1
<1>2. IInv /\ CoverInv => RefundsWithinCapture
  <2> SUFFICES ASSUME IInv, CoverInv, NEW p \in Requests
               PROVE  Total(RefundRows(p)) =< payments[p].captured
    BY DEF RefundsWithinCapture
  <2>1. RefundRows(p) \subseteq Answered(p)
    BY DEF RefundRows, Answered
  <2>2. payments[p].captured \in Nat
    BY DEF IInv, TypeOK, Row
  <2>3. CASE Answered(p) = {}
    <3>1. RefundRows(p) = {}
      BY <2>1, <2>3
    <3> QED
      BY <1>0, <2>2, <3>1 DEF Total
  <2>4. CASE Answered(p) # {}
    <3>1. IsFiniteSet(UnitsOf(Answered(p))) /\ Total(Answered(p)) =< Given(p)
      BY <2>4 DEF CoverInv
    <3>2. UnitsOf(RefundRows(p)) \subseteq UnitsOf(Answered(p))
      BY <2>1 DEF UnitsOf
    <3>3. /\ Total(RefundRows(p)) =< Total(Answered(p))
          /\ Total(RefundRows(p)) \in Nat /\ Total(Answered(p)) \in Nat
      BY <3>1, <3>2, FS_Subset, FS_CardinalityType DEF Total
    <3>4. /\ payments[p].ref \in Refs
          /\ payments[p].captured = ledger[payments[p].ref].captured
      BY <2>4, AnsweredRow
    <3>5. Given(p) =< payments[p].captured /\ Given(p) \in Nat
      BY <3>4 DEF Given, IInv, MoneyInv, LedgerInv, TypeOK, Charge
    <3> QED
      BY <2>2, <3>1, <3>3, <3>5
  <2> QED
    BY <2>3, <2>4
<1>3. Spec => []CoverInv
  BY <1>1, NextCover, EngineInvariant, TypeCorrect, PTL DEF Spec
<1> QED
  BY <1>2, <1>3, EngineInvariant, PTL
=============================================================================
