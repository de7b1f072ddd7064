-------------------------- MODULE WebhooksProofs --------------------------
(***************************************************************************)
(* Theorems about the webhook endpoint, for any events, any number of      *)
(* concurrent handlers, any tolerance and any number of faults.            *)
(***************************************************************************)
EXTENDS Webhooks, TLAPS

USE NoEventAssumption, OwnersAssumption, RouteAssumption, ToleranceAssumption, TimeAssumption,
    FaultsAssumption

(* A handler at work has an event. It answers before its commit only where  *)
(* FastAPI has that order, and where it has committed there is a row.       *)
HandlerInv ==
    \A h \in Handlers :
        /\ pc[h] # "idle" => event[h] \in Events
        /\ pc[h] = "answered" => order = "response_first"
        /\ pc[h] = "committed" => rows[event[h]] > 0

(* A transaction that holds the index entry of an event holds it alone, and *)
(* the event has no row yet: what keeps a commit from making a second one.  *)
HeldAlone ==
    /\ \A h \in Handlers : Holding(h) => rows[event[h]] = 0
    /\ \A g, h \in Handlers : Holding(g) /\ Holding(h) /\ event[g] = event[h] => g = h

WebhookInv == TypeOK /\ HandlerInv /\ HeldAlone /\ ProcessedOnce /\ AckedIsStored

(* The invariant holds initially. *)
LEMMA WebhookInit == Init => WebhookInv
<1> SUFFICES ASSUME Init PROVE WebhookInv
  OBVIOUS
<1>1. TypeOK
  BY DEF Init, TypeOK, Times
<1>2. HandlerInv /\ HeldAlone /\ ProcessedOnce /\ AckedIsStored
  BY DEF Init, HandlerInv, HeldAlone, Holding, ProcessedOnce, AckedIsStored
<1> QED
  BY <1>1, <1>2 DEF WebhookInv

(* Every step keeps every variable in its type. *)
LEMMA WebhookTypes ==
  ASSUME TypeOK, HandlerInv, [Next]_vars
  PROVE  TypeOK'
<1> USE DEF deployment
<1>1. ASSUME NEW e \in Events, Emit(e) PROVE TypeOK'
  <2>1. Signed(e, now) \in Delivery
    BY DEF TypeOK, Signed, Delivery
  <2> QED
    BY <1>1, <2>1 DEF Emit, TypeOK
<1>2. CASE Tick
  BY <1>2 DEF Tick, TypeOK, Times
<1>3. ASSUME NEW h \in Handlers, Receive(h) PROVE TypeOK'
  <2>1. PICK m \in Delivery : event' = [event EXCEPT ![h] = m.event]
    BY <1>3 DEF Receive
  <2>2. m.event \in Events
    BY DEF Delivery
  <2> QED
    BY <1>3, <2>1, <2>2 DEF Receive, TypeOK
<1>4. ASSUME NEW h \in Handlers, NotFound(h) \/ Insert(h) \/ InsertFails(h)
      PROVE  TypeOK'
  BY <1>4 DEF NotFound, Insert, InsertFails, Finish, TypeOK
<1>5. ASSUME NEW h \in Handlers, Duplicate(h) PROVE TypeOK'
  BY <1>5 DEF Duplicate, Finish, Acknowledge, HandlerInv, TypeOK
<1>6. ASSUME NEW h \in Handlers, Commit(h) PROVE TypeOK'
  <2>1. event[h] \in Events
    BY <1>6 DEF Commit, HandlerInv
  <2>2. rows' \in [Events -> Nat] /\ audit' \in [Events -> Nat]
    BY <1>6, <2>1 DEF Commit, Record, TypeOK
  <2> QED
    BY <1>6, <2>2 DEF Commit, Finish, TypeOK
<1>7. ASSUME NEW h \in Handlers, Answer(h) PROVE TypeOK'
  BY <1>7 DEF Answer, Finish, Acknowledge, HandlerInv, TypeOK
<1>8. ASSUME NEW h \in Handlers, Fails(h) PROVE TypeOK'
  BY <1>8 DEF Fails, Finish, HandlerInv, TypeOK
<1>9. CASE UNCHANGED vars
  BY <1>9 DEF vars, TypeOK
<1> QED
  BY <1>1, <1>2, <1>3, <1>4, <1>5, <1>6, <1>7, <1>8, <1>9 DEF Next, Step

(* Every step keeps the invariant: an INSERT waits for, or fails on, the    *)
(* transaction that came first, only a commit adds a row, and an answer     *)
(* comes after the commit, or before it from the handler that holds it.     *)
LEMMA WebhookNext ==
  ASSUME WebhookInv, [Next]_vars
  PROVE  WebhookInv'
<1>0. TypeOK /\ HandlerInv /\ HeldAlone /\ ProcessedOnce /\ AckedIsStored /\ TypeOK'
  BY WebhookTypes DEF WebhookInv
(* A step that commits nothing, inserts nothing and drops nothing it has    *)
(* not recorded.                                                            *)
<1>1. ASSUME UNCHANGED <<order, rows, audit>>,
             dropped \subseteq dropped',
             \A e \in acked' : e \in acked \/ rows[e] > 0,
             \A h \in Handlers : pc'[h] # "idle" => event'[h] \in Events,
             \A h \in Handlers : pc'[h] \in {"inserted", "answered", "committed"} =>
                pc'[h] = pc[h] /\ event'[h] = event[h],
             \A h \in Handlers : pc[h] = "answered" =>
                (pc'[h] = "answered" /\ event'[h] = event[h]) \/ event[h] \in dropped'
      PROVE  WebhookInv'
  <2>1. HandlerInv'
    BY <1>0, <1>1 DEF HandlerInv
  <2>2. HeldAlone'
    BY <1>0, <1>1 DEF HeldAlone, Holding
  <2>3. ProcessedOnce'
    BY <1>0, <1>1 DEF ProcessedOnce
  <2>4. AckedIsStored'
    <3> SUFFICES ASSUME NEW e \in acked', ~(rows[e] = 1)
                 PROVE  /\ order = "response_first"
                        /\ \/ e \in dropped'
                           \/ \E h \in Handlers : pc'[h] = "answered" /\ event'[h] = e
      BY <1>1 DEF AckedIsStored
    <3>1. e \in acked
      BY <1>0, <1>1 DEF ProcessedOnce, TypeOK
    <3> QED
      BY <1>0, <1>1, <3>1 DEF AckedIsStored
  <2> QED
    BY <1>0, <2>1, <2>2, <2>3, <2>4 DEF WebhookInv
<1>2. ASSUME NEW h \in Handlers, Receive(h) PROVE WebhookInv'
  <2>1. PICK m \in Delivery : event' = [event EXCEPT ![h] = m.event]
    BY <1>2 DEF Receive
  <2>2. /\ UNCHANGED <<order, rows, audit, acked, dropped>>
        /\ pc[h] = "idle" /\ pc'[h] = "verified"
        /\ event'[h] \in Events
        /\ \A g \in Handlers \ {h} : pc'[g] = pc[g] /\ event'[g] = event[g]
    BY <1>0, <1>2, <2>1 DEF Receive, deployment, Delivery, TypeOK
  <2> QED
    BY <1>0, <1>1, <2>2 DEF HandlerInv
<1>3. ASSUME NEW h \in Handlers, NotFound(h) PROVE WebhookInv'
  <2>1. /\ UNCHANGED <<order, rows, audit, acked, dropped, event>>
        /\ pc[h] = "verified" /\ pc'[h] = "absent"
        /\ \A g \in Handlers \ {h} : pc'[g] = pc[g]
    BY <1>0, <1>3 DEF NotFound, deployment, TypeOK
  <2> QED
    BY <1>0, <1>1, <2>1 DEF HandlerInv
<1>4. ASSUME NEW h \in Handlers, Finish(h),
             UNCHANGED <<order, rows, audit>>,
             dropped \subseteq dropped',
             \A e \in acked' : e \in acked \/ rows[e] > 0,
             pc[h] = "answered" => event[h] \in dropped'
      PROVE  WebhookInv'
  <2>1. /\ pc'[h] = "idle"
        /\ \A g \in Handlers \ {h} : pc'[g] = pc[g] /\ event'[g] = event[g]
    BY <1>0, <1>4 DEF Finish, TypeOK
  <2> QED
    BY <1>0, <1>1, <1>4, <2>1 DEF HandlerInv
<1>5. ASSUME NEW h \in Handlers, Duplicate(h) PROVE WebhookInv'
  BY <1>0, <1>4, <1>5 DEF Duplicate, Acknowledge, deployment
<1>6. ASSUME NEW h \in Handlers, InsertFails(h) PROVE WebhookInv'
  BY <1>0, <1>4, <1>6 DEF InsertFails, deployment
<1>7. ASSUME NEW h \in Handlers, Fails(h) PROVE WebhookInv'
  BY <1>0, <1>4, <1>7 DEF Fails, deployment
<1>8. ASSUME NEW h \in Handlers, Insert(h) PROVE WebhookInv'
  <2>1. /\ UNCHANGED <<order, rows, audit, acked, dropped, event>>
        /\ pc[h] = "absent" /\ pc'[h] = "inserted"
        /\ \A g \in Handlers \ {h} : pc'[g] = pc[g]
        /\ \A g \in Handlers : Holding(g) => event[g] # event[h]
    BY <1>0, <1>8 DEF Insert, Blocked, deployment, TypeOK
  <2>2. event[h] \in Events /\ rows[event[h]] = 0
    BY <1>0, <1>8, <2>1 DEF Insert, Taken, HandlerInv, TypeOK
  <2>3. HandlerInv'
    BY <1>0, <2>1, <2>2 DEF HandlerInv
  <2>4. HeldAlone'
    BY <1>0, <2>1, <2>2 DEF HeldAlone, Holding
  <2>5. ProcessedOnce' /\ AckedIsStored'
    BY <1>0, <2>1 DEF ProcessedOnce, AckedIsStored
  <2> QED
    BY <1>0, <2>3, <2>4, <2>5 DEF WebhookInv
<1>9. ASSUME NEW h \in Handlers, Commit(h) PROVE WebhookInv'
  <2>1. /\ Holding(h)
        /\ event[h] \in Events
        /\ UNCHANGED <<order, acked, dropped>>
    BY <1>0, <1>9 DEF Commit, Holding, HandlerInv, deployment
  <2>2. /\ rows'[event[h]] = rows[event[h]] + 1
        /\ audit'[event[h]] = audit[event[h]] + 1
        /\ \A e \in Events \ {event[h]} : rows'[e] = rows[e] /\ audit'[e] = audit[e]
    BY <1>0, <1>9, <2>1 DEF Commit, Record, TypeOK
  <2>3. /\ \A g \in Handlers \ {h} : pc'[g] = pc[g] /\ event'[g] = event[g]
        /\ pc'[h] = "idle" \/ (pc'[h] = "committed" /\ event'[h] = event[h])
    BY <1>0, <1>9 DEF Commit, Finish, TypeOK
  <2>4. rows[event[h]] = 0 /\ audit[event[h]] = 0
    BY <1>0, <2>1 DEF HeldAlone, ProcessedOnce
  <2>5. \A e \in Events : rows[e] \in Nat /\ rows'[e] >= rows[e]
    BY <1>0, <2>1, <2>2 DEF TypeOK
  <2>6. HandlerInv'
    BY <1>0, <2>1, <2>2, <2>3, <2>4, <2>5 DEF HandlerInv
  <2>7. HeldAlone'
    <3>1. \A g \in Handlers : Holding(g)' =>
             g # h /\ Holding(g) /\ event'[g] = event[g] /\ event[g] # event[h]
      BY <1>0, <2>1, <2>3 DEF HeldAlone, Holding
    <3>2. \A g \in Handlers : Holding(g) => event[g] \in Events
      BY <1>0 DEF HandlerInv, Holding
    <3> QED
      BY <1>0, <2>2, <3>1, <3>2 DEF HeldAlone
  <2>8. ProcessedOnce'
    BY <1>0, <2>1, <2>2, <2>4 DEF ProcessedOnce
  <2>9. AckedIsStored'
    <3>1. rows'[event[h]] = 1
      BY <2>2, <2>4
    <3>2. ASSUME NEW e \in acked', e # event[h]
          PROVE  \/ rows'[e] = 1
                 \/ /\ order' = "response_first"
                    /\ \/ e \in dropped'
                       \/ \E g \in Handlers : pc'[g] = "answered" /\ event'[g] = e
      <4>1. e \in acked /\ e \in Events
        BY <1>0, <2>1 DEF TypeOK
      <4>2. rows'[e] = rows[e]
        BY <2>2, <3>2, <4>1
      <4> QED
        BY <1>0, <2>1, <2>3, <3>2, <4>1, <4>2 DEF AckedIsStored
    <3> QED
      BY <3>1, <3>2 DEF AckedIsStored
  <2> QED
    BY <1>0, <2>6, <2>7, <2>8, <2>9 DEF WebhookInv
<1>10. ASSUME NEW h \in Handlers, Answer(h) PROVE WebhookInv'
  <2>1. CASE pc[h] = "committed" /\ Finish(h)
    <3>1. /\ UNCHANGED <<order, rows, audit, dropped>>
          /\ acked' = acked \/ acked' = acked \cup {event[h]}
      BY <1>10 DEF Answer, Acknowledge, deployment
    <3>2. rows[event[h]] > 0
      BY <1>0, <2>1 DEF HandlerInv
    <3> QED
      BY <1>4, <2>1, <3>1, <3>2
  <2>2. CASE order = "response_first" /\ pc[h] = "inserted"
    <3>1. /\ UNCHANGED <<order, rows, audit, dropped, event>>
          /\ acked' = acked \/ acked' = acked \cup {event[h]}
          /\ pc'[h] = "answered"
          /\ \A g \in Handlers \ {h} : pc'[g] = pc[g]
      BY <1>0, <1>10, <2>2 DEF Answer, Acknowledge, deployment, TypeOK
    <3>2. HandlerInv' /\ HeldAlone'
      BY <1>0, <2>2, <3>1 DEF HandlerInv, HeldAlone, Holding
    <3>3. ProcessedOnce'
      BY <1>0, <3>1 DEF ProcessedOnce
    <3>4. \A g \in Handlers : pc[g] = "answered" => pc'[g] = "answered"
      BY <2>2, <3>1
    <3>5. AckedIsStored'
      BY <1>0, <2>2, <3>1, <3>4 DEF AckedIsStored
    <3> QED
      BY <1>0, <3>2, <3>3, <3>5 DEF WebhookInv
  <2> QED
    BY <1>10, <2>1, <2>2 DEF Answer
<1>11. CASE UNCHANGED <<order, rows, audit, acked, dropped, pc, event>>
  BY <1>0, <1>1, <1>11 DEF HandlerInv
<1> QED
  BY <1>2, <1>3, <1>5, <1>6, <1>7, <1>8, <1>9, <1>10, <1>11
     DEF Next, Step, Emit, Tick, deployment, vars

(* The webhook invariant holds in every reachable state. *)
THEOREM WebhookInvariant == Spec => []WebhookInv
  BY WebhookInit, WebhookNext, PTL DEF Spec

(* An event is processed at most once, whoever delivers it how often to     *)
(* however many handlers, with the response before or after the commit.     *)
THEOREM EventProcessedOnce == Spec => []ProcessedOnce
<1>1. WebhookInv => ProcessedOnce
  BY DEF WebhookInv
<1> QED
  BY <1>1, WebhookInvariant, PTL

(* An acknowledged event is stored, or the response came first and the      *)
(* commit is still to come or was lost to a fault.                          *)
THEOREM AcknowledgedIsStored == Spec => []AckedIsStored
<1>1. WebhookInv => AckedIsStored
  BY DEF WebhookInv
<1> QED
  BY <1>1, WebhookInvariant, PTL
=============================================================================
