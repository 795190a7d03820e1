--------------------------- MODULE Outbox_proofs ----------------------------
(***************************************************************************)
(* Theorems about Outbox for every number of messages, slots,              *)
(* administrators, retries and faults.                                     *)
(***************************************************************************)
EXTENDS Outbox, FiniteSetTheorems, TLAPS

\* Whatever a handler writes into a row is a row.
LEMMA UpdatedIsRow ==
  ASSUME NEW op \in Ops, NEW snap \in Row, NEW row \in Row
  PROVE  Updated(op, snap, row) \in Row
<1>1. NoRow \in Row
  BY DEF NoRow, Row
<1>2. AckedSent(snap) \in Row /\ Reset(snap) \in Row
  BY DEF AckedSent, Reset, Row
<1>3. AckedFailed(snap) \in Row
  <2>1. snap.cnt + 1 \in Nat
    BY DEF Row
  <2>2. CASE GivesUp(snap.cnt + 1)
    BY <2>1, <2>2 DEF AckedFailed, Row
  <2>3. CASE ~GivesUp(snap.cnt + 1)
    BY <2>1, <2>3 DEF AckedFailed, Row
  <2>4. QED
    BY <2>2, <2>3
<1>4. Handled(op, snap) \in {AckedSent(snap), AckedFailed(snap), Reset(snap), NoRow}
  BY Zenon DEF Handled
<1>5. Merge(op, snap, row) \in Row
  BY <1>1, <1>2, <1>3, <1>4 DEF Merge, Row
<1>6. QED
  BY <1>1, <1>5 DEF Updated

\* Finishing a request leaves well-formed requests.
LEMMA FinishTyped ==
  ASSUME NEW s \in Slots, req \in [Slots -> Req], Finish(s)
  PROVE  req' \in [Slots -> Req]
<1>1. NoRow \in Row
  BY DEF NoRow, Row
<1>2. 1 \in Msgs
  BY BoundsAssumption DEF Msgs
<1>3. Idle \in Req
  BY <1>1, <1>2 DEF Idle, Req
<1>4. QED
  BY <1>3 DEF Finish

\* A newly arrived request is well formed.
LEMMA ArrivedTyped ==
  ASSUME NEW op \in Ops, NEW m \in Msgs
  PROVE  Arrived(op, m) \in Req
BY DEF Arrived, Req, Row, NoRow

-----------------------------------------------------------------------------
LEMMA InitTypeOK == Init => TypeOK
<1> SUFFICES ASSUME Init PROVE TypeOK
  OBVIOUS
<1>1. NoRow \in Row /\ 1 \in Msgs
  BY BoundsAssumption DEF NoRow, Row, Msgs
<1>2. Idle \in Req
  BY <1>1 DEF Idle, Req
<1>3. late \in BOOLEAN
  BY Zenon DEF Init
<1>4. QED
  BY <1>1, <1>2, <1>3, BoundsAssumption DEF Init, TypeOK, AckStatus, Msgs

LEMMA NextTypeOK == TypeOK /\ [Next]_vars => TypeOK'
<1> SUFFICES ASSUME TypeOK, [Next]_vars PROVE TypeOK'
  OBVIOUS
<1> USE DEF TypeOK
<1>1. ASSUME NEW n \in 1..MaxMsgs, Enqueue(n) PROVE TypeOK'
  <2>1. FreshRow \in Row
    BY DEF FreshRow, Row
  <2>2. outbox' \in [Msgs -> Row]
    BY <1>1, <2>1 DEF Enqueue
  <2>3. nextId' \in 1..(MaxMsgs + 1)
    BY <1>1, BoundsAssumption DEF Enqueue
  <2>4. QED
    BY <1>1, <2>2, <2>3 DEF Enqueue, bot, history
<1>2. ASSUME Fetch PROVE TypeOK'
  BY <1>2 DEF Fetch, table, history, Page, Pending
<1>3. ASSUME NEW ok \in BOOLEAN, NEW raised \in BOOLEAN, Send(ok, raised),
             faults' \in 0..MaxFaults
      PROVE  TypeOK'
  <2>1. PICK m \in First(batch) :
          /\ cur' = m /\ batch' = batch \ {m}
          /\ delivered' = IF ok THEN [delivered EXCEPT ![m] = @ + 1] ELSE delivered
          /\ failures' = IF raised THEN [failures EXCEPT ![m] = @ + 1] ELSE failures
    BY <1>3 DEF Send
  <2>2. m \in Msgs
    BY DEF First
  <2>3. delivered' \in [Msgs -> Nat] /\ failures' \in [Msgs -> Nat]
    BY <2>1, <2>2
  <2>4. QED
    BY <1>3, <2>1, <2>2, <2>3 DEF Send, table, Report, AckStatus
<1>4. ASSUME SendOk \/ SendRejected \/ SendUnclear PROVE TypeOK'
  <2>1. faults' \in 0..MaxFaults
    <3>1. faults' = faults \/ (faults < MaxFaults /\ faults' = faults + 1)
      BY <1>4, Zenon DEF SendOk, SendRejected, SendUnclear
    <3>2. QED
      BY <3>1, BoundsAssumption
  <2>2. Send(TRUE, FALSE) \/ Send(FALSE, TRUE) \/ Send(TRUE, TRUE)
    BY <1>4, Zenon DEF SendOk, SendRejected, SendUnclear
  <2>3. \E ok, raised \in BOOLEAN : Send(ok, raised)
    BY <2>2, Zenon
  <2>4. QED
    BY <1>3, <2>1, <2>3, Zenon
<1>5. ASSUME NEW s \in AckSlots, PostAck(s) PROVE TypeOK'
  <2>1. req' \in [Slots -> Req]
    BY <1>5, ArrivedTyped DEF PostAck, Ops
  <2>2. QED
    BY <1>5, <2>1 DEF PostAck, table, history
<1>6. ASSUME NextItem, req' = req, late' \in BOOLEAN, faults' \in 0..MaxFaults
      PROVE  TypeOK'
  BY <1>6 DEF NextItem, table
<1>7. ASSUME AckReturned \/ AckLost \/ AckTimeout PROVE TypeOK'
  <2>1. late' \in BOOLEAN
    BY <1>7, Zenon DEF AckReturned, AckLost, AckTimeout
  <2>2. NextItem /\ req' = req /\ faults' \in 0..MaxFaults
    BY <1>7, BoundsAssumption DEF AckReturned, AckLost, AckTimeout
  <2>3. QED
    BY <1>6, <2>1, <2>2
<1>8. ASSUME BotCrash PROVE TypeOK'
  BY <1>8, BoundsAssumption DEF BotCrash, table, history
<1>9. ASSUME NEW a \in Admins, NEW op \in {"retry", "delete"}, NEW m \in Msgs,
             AdminRequest(a, op, m)
      PROVE  TypeOK'
  <2>1. req' \in [Slots -> Req]
    BY <1>9, ArrivedTyped DEF AdminRequest, Ops
  <2>2. retries' \in 0..MaxRetries
    BY <1>9, BoundsAssumption DEF AdminRequest
  <2>3. QED
    BY <1>9, <2>1, <2>2 DEF AdminRequest, table, bot, history
<1>10. ASSUME NEW s \in Slots, Load(s) PROVE TypeOK'
  <2>1. outbox[req[s].msg] \in Row
    BY DEF Req
  <2>2. [req EXCEPT ![s].phase = "loaded", ![s].snap = outbox[req[s].msg]]
          \in [Slots -> Req]
    BY <2>1 DEF Req
  <2>3. req' \in [Slots -> Req]
    BY <1>10, <2>2, FinishTyped DEF Load
  <2>4. QED
    BY <1>10, <2>3 DEF Load, table, bot, history
<1>11. ASSUME NEW s \in Slots, Commit(s) PROVE TypeOK'
  <2>1. req[s].op \in Ops /\ req[s].snap \in Row /\ req[s].msg \in Msgs
    BY <1>11 DEF Commit, Req
  <2>2. outbox' \in [Msgs -> Row]
    BY <1>11, <2>1, UpdatedIsRow DEF Commit
  <2>3. req' \in [Slots -> Req]
    BY <1>11, FinishTyped DEF Commit
  <2>4. QED
    BY <1>11, <2>2, <2>3 DEF Commit, bot, history
<1>12. ASSUME BackendCrash PROVE TypeOK'
  <2>1. Idle \in Req
    BY BoundsAssumption DEF Idle, Req, NoRow, Row, Msgs
  <2>2. QED
    BY <1>12, <2>1, BoundsAssumption DEF BackendCrash, table, bot, history
<1>13. CASE UNCHANGED vars
  BY <1>13 DEF vars
<1>14. QED
  BY <1>1, <1>2, <1>4, <1>5, <1>7, <1>8, <1>9, <1>10, <1>11, <1>12, <1>13
  DEF Next

\* Every variable keeps to its type in every reachable state.
THEOREM TypeCorrect == Spec => []TypeOK
<1>1. QED
  BY InitTypeOK, NextTypeOK, PTL DEF Spec

-----------------------------------------------------------------------------
(***************************************************************************)
(* A confirmation is on its way only for a delivered message.  The status  *)
(* column alone would not do: an acknowledgement is written long after the *)
(* send it reports, by a handler that looks at nothing but its own copy.   *)
(***************************************************************************)
ConfirmHonest ==
  /\ pc = "ack" /\ verdict = "sent" => delivered[cur] > 0
  /\ \A s \in Slots : req[s].op = "sent" => delivered[req[s].msg] > 0

SentInv == TypeOK /\ ConfirmHonest /\ SentWasDelivered

\* Only an acknowledgement "sent" makes a row sent.
LEMMA BecomesSent ==
  ASSUME NEW op \in Ops, NEW snap \in Row, NEW row \in Row,
         Updated(op, snap, row).status = "sent"
  PROVE  op = "sent" \/ row.status = "sent"
<1> SUFFICES ASSUME op # "sent" PROVE row.status = "sent"
  OBVIOUS
<1>1. CASE op = "failed"
  <2>1. Handled(op, snap) = AckedFailed(snap)
    BY <1>1, Zenon DEF Handled
  <2>2. AckedFailed(snap).status \in {"failed", "pending"}
    BY DEF AckedFailed, Row
  <2>3. QED
    BY <1>1, <2>1, <2>2 DEF Updated, Merge, NoRow
<1>2. CASE op = "retry"
  <2>1. Handled(op, snap) = Reset(snap)
    BY <1>2, Zenon DEF Handled
  <2>2. QED
    BY <1>2, <2>1 DEF Updated, Merge, NoRow, Reset, Row
<1>3. CASE op = "delete"
  BY <1>3 DEF Updated, NoRow
<1>4. QED
  BY <1>1, <1>2, <1>3 DEF Ops, AckStatus

LEMMA NextSentInv == SentInv /\ [Next]_vars => SentInv'
<1> SUFFICES ASSUME SentInv, [Next]_vars PROVE SentInv'
  OBVIOUS
<1>0. TypeOK /\ TypeOK'
  BY NextTypeOK DEF SentInv
<1> USE <1>0 DEF SentInv
<1> SUFFICES ConfirmHonest' /\ SentWasDelivered'
  OBVIOUS
<1>1. ASSUME NEW n \in 1..MaxMsgs, Enqueue(n)
      PROVE  ConfirmHonest' /\ SentWasDelivered'
  BY <1>1 DEF Enqueue, bot, history, ConfirmHonest, SentWasDelivered, FreshRow
<1>2. ASSUME Fetch PROVE ConfirmHonest' /\ SentWasDelivered'
  BY <1>2 DEF Fetch, table, history, ConfirmHonest, SentWasDelivered
<1>3. ASSUME NEW ok \in BOOLEAN, NEW raised \in BOOLEAN, Send(ok, raised),
             ok \/ raised
      PROVE  ConfirmHonest' /\ SentWasDelivered'
  <2>1. PICK m \in First(batch) :
          /\ cur' = m
          /\ delivered' = IF ok THEN [delivered EXCEPT ![m] = @ + 1] ELSE delivered
    BY <1>3 DEF Send
  <2>2. m \in Msgs
    BY DEF First, TypeOK
  <2>3. \A k \in Msgs : delivered'[k] >= delivered[k] /\ delivered[k] \in Nat
    BY <2>1, <2>2 DEF TypeOK
  <2>4. verdict' = "sent" => delivered'[cur'] > 0
    BY <1>3, <2>1, <2>2 DEF Send, Report, TypeOK
  <2>5. \A s \in Slots : req[s].msg \in Msgs
    BY DEF TypeOK, Req
  <2>6. QED
    BY <1>3, <2>3, <2>4, <2>5
    DEF Send, table, ConfirmHonest, SentWasDelivered
<1>4. ASSUME SendOk \/ SendRejected \/ SendUnclear
      PROVE  ConfirmHonest' /\ SentWasDelivered'
  <2>1. Send(TRUE, FALSE) \/ Send(FALSE, TRUE) \/ Send(TRUE, TRUE)
    BY <1>4, Zenon DEF SendOk, SendRejected, SendUnclear
  <2>2. \E ok, raised \in BOOLEAN : Send(ok, raised) /\ (ok \/ raised)
    BY <2>1, Zenon
  <2>3. QED
    BY <1>3, <2>2, Zenon
<1>5. ASSUME NEW s \in AckSlots, PostAck(s)
      PROVE  ConfirmHonest' /\ SentWasDelivered'
  BY <1>5 DEF PostAck, Arrived, table, history, ConfirmHonest, SentWasDelivered,
     TypeOK
<1>6. ASSUME AckReturned \/ AckLost \/ AckTimeout
      PROVE  ConfirmHonest' /\ SentWasDelivered'
  BY <1>6 DEF AckReturned, AckLost, AckTimeout, NextItem, table, history,
     ConfirmHonest, SentWasDelivered
<1>7. ASSUME BotCrash PROVE ConfirmHonest' /\ SentWasDelivered'
  BY <1>7 DEF BotCrash, table, history, ConfirmHonest, SentWasDelivered
<1>8. ASSUME NEW a \in Admins, NEW op \in {"retry", "delete"}, NEW m \in Msgs,
             AdminRequest(a, op, m)
      PROVE  ConfirmHonest' /\ SentWasDelivered'
  BY <1>8 DEF AdminRequest, Arrived, table, bot, history, ConfirmHonest,
     SentWasDelivered, TypeOK
<1>9. ASSUME NEW s \in Slots, Load(s) PROVE ConfirmHonest' /\ SentWasDelivered'
  <2>1. \A t \in Slots : req'[t].op = "sent"
          => req[t].op = "sent" /\ req'[t].msg = req[t].msg
    BY <1>9 DEF Load, Finish, Idle, TypeOK, Req
  <2>2. QED
    BY <1>9, <2>1 DEF Load, table, bot, history, ConfirmHonest, SentWasDelivered
<1>10. ASSUME NEW s \in Slots, Commit(s)
       PROVE  ConfirmHonest' /\ SentWasDelivered'
  <2>1. \A t \in Slots : req'[t].op = "sent"
          => req[t].op = "sent" /\ req'[t].msg = req[t].msg
    BY <1>10 DEF Commit, Finish, Idle, TypeOK
  <2>2. req[s].op \in Ops /\ req[s].snap \in Row /\ req[s].msg \in Msgs
    BY <1>10 DEF Commit, TypeOK, Req
  <2>3. ASSUME NEW m \in Msgs, outbox'[m].status = "sent"
        PROVE  delivered[m] > 0
    <3>1. CASE m = req[s].msg
      <4>1. outbox'[m] = Updated(req[s].op, req[s].snap, outbox[m])
        BY <1>10, <2>2, <3>1 DEF Commit, TypeOK
      <4>2. req[s].op = "sent" \/ outbox[m].status = "sent"
        BY <2>2, <2>3, <4>1, BecomesSent DEF TypeOK
      <4>3. QED
        BY <3>1, <4>2 DEF ConfirmHonest, SentWasDelivered
    <3>2. CASE m # req[s].msg
      BY <1>10, <2>3, <3>2 DEF Commit, TypeOK, SentWasDelivered
    <3>3. QED
      BY <3>1, <3>2
  <2>4. QED
    BY <1>10, <2>1, <2>3
    DEF Commit, bot, history, ConfirmHonest, SentWasDelivered
<1>11. ASSUME BackendCrash PROVE ConfirmHonest' /\ SentWasDelivered'
  BY <1>11 DEF BackendCrash, Idle, table, bot, history, ConfirmHonest,
     SentWasDelivered
<1>12. CASE UNCHANGED vars
  BY <1>12 DEF vars, ConfirmHonest, SentWasDelivered
<1>13. QED
  BY <1>1, <1>2, <1>4, <1>5, <1>6, <1>7, <1>8, <1>9, <1>10, <1>11, <1>12
  DEF Next

\* A row marked sent was accepted by Telegram.
THEOREM SentIsHonest == Spec => []SentWasDelivered
<1>1. Init => SentInv
  BY InitTypeOK
  DEF Init, SentInv, ConfirmHonest, SentWasDelivered, Idle, NoRow
<1>2. SentInv => SentWasDelivered
  BY DEF SentInv
<1>3. QED
  BY <1>1, <1>2, NextSentInv, PTL DEF Spec

-----------------------------------------------------------------------------
(***************************************************************************)
(* attempt_count never runs ahead of the failures it counts.  It is        *)
(* rewritten from stale copies, so the count alone is not inductive: a     *)
(* failure still on its way to the backend is owed to every copy of the    *)
(* row, and count plus debt never exceeds the failed sends.                *)
(***************************************************************************)
InFlight(m) == {s \in AckSlots : req[s].op = "failed" /\ req[s].msg = m}
Held(m) == IF pc = "ack" /\ verdict = "failed" /\ cur = m THEN 1 ELSE 0
Owed(m) == Cardinality(InFlight(m)) + Held(m)

FailuresFromBot == \A s \in Slots : req[s].op = "failed" => s \in AckSlots
RowsCovered == \A m \in Msgs : outbox[m].cnt + Owed(m) <= failures[m]
CopiesCovered ==
  \A s \in Slots : req[s].snap.cnt + Owed(req[s].msg) <= failures[req[s].msg]

CountInv == /\ TypeOK /\ FailuresFromBot /\ RowsCovered /\ CopiesCovered
            /\ GivenUpAfterAttempts

\* The step does not add to a debt more than it adds to the failures.
DebtBounded ==
  \A m \in Msgs : /\ failures'[m] >= failures[m]
                  /\ failures[m] + Owed(m)' <= failures'[m] + Owed(m)

LEMMA OwedIsNat ==
  ASSUME NEW m \in Msgs
  PROVE  /\ IsFiniteSet(InFlight(m)) /\ Cardinality(InFlight(m)) \in Nat
         /\ Owed(m) \in Nat
<1>1. InFlight(m) \in SUBSET AckSlots
  BY DEF InFlight
<1>2. IsFiniteSet(InFlight(m)) /\ Cardinality(InFlight(m)) \in Nat
  BY <1>1, SlotsAssumption, FS_Subset, FS_CardinalityType
<1>3. QED
  BY <1>2 DEF Owed, Held

LEMMA OwedIsNatNext ==
  ASSUME NEW m \in Msgs
  PROVE  /\ IsFiniteSet(InFlight(m)') /\ Cardinality(InFlight(m)') \in Nat
         /\ Owed(m)' \in Nat
<1>1. InFlight(m)' \in SUBSET AckSlots
  BY DEF InFlight
<1>2. IsFiniteSet(InFlight(m)') /\ Cardinality(InFlight(m)') \in Nat
  BY <1>1, SlotsAssumption, FS_Subset, FS_CardinalityType
<1>3. QED
  BY <1>2 DEF Owed, Held

\* Fewer failures on their way and the bot not reporting a new one: the debt
\* does not grow.
LEMMA FewerInFlight ==
  ASSUME NEW m \in Msgs, InFlight(m)' \subseteq InFlight(m), Held(m)' <= Held(m)
  PROVE  Owed(m)' <= Owed(m)
<1>1. Cardinality(InFlight(m)') <= Cardinality(InFlight(m))
  BY OwedIsNat, FS_Subset
<1>2. Held(m) \in Nat /\ Held(m)' \in Nat
  BY DEF Held
<1>3. QED
  BY <1>1, <1>2, OwedIsNat, OwedIsNatNext DEF Owed

LEMMA SendDebt ==
  ASSUME TypeOK, NEW ok \in BOOLEAN, NEW raised \in BOOLEAN, Send(ok, raised)
  PROVE  DebtBounded
<1>1. PICK m \in First(batch) :
        /\ cur' = m
        /\ failures' = IF raised THEN [failures EXCEPT ![m] = @ + 1] ELSE failures
  BY DEF Send
<1>2. m \in Msgs
  BY DEF First, TypeOK
<1>3. SUFFICES ASSUME NEW k \in Msgs
               PROVE  /\ failures'[k] >= failures[k]
                      /\ failures[k] + Owed(k)' <= failures'[k] + Owed(k)
  BY DEF DebtBounded
<1>4. InFlight(k)' = InFlight(k)
  BY DEF InFlight, Send
<1>5. Held(k) = 0
  BY DEF Held, Send
<1>6. Held(k)' = IF raised /\ k = m THEN 1 ELSE 0
  BY <1>1 DEF Held, Send, Report
<1>7. failures'[k] = IF raised /\ k = m THEN failures[k] + 1 ELSE failures[k]
  BY <1>1, <1>2 DEF TypeOK
<1>8. failures[k] \in Nat
  BY DEF TypeOK
<1>9. QED
  BY <1>4, <1>5, <1>6, <1>7, <1>8, OwedIsNat DEF Owed

LEMMA PostDebt ==
  ASSUME TypeOK, NEW s \in AckSlots, PostAck(s)
  PROVE  DebtBounded
<1>1. SUFFICES ASSUME NEW k \in Msgs PROVE Owed(k)' <= Owed(k)
  BY OwedIsNat, OwedIsNatNext DEF DebtBounded, PostAck, history, TypeOK
<1>2. s \in Slots
  BY DEF Slots
<1>3. Held(k)' = 0
  BY DEF Held, PostAck
<1>4. CASE verdict = "failed" /\ cur = k
  <2>1. InFlight(k)' = InFlight(k) \cup {s}
    <3>1. req' = [req EXCEPT ![s] = Arrived("failed", k)]
      BY <1>4 DEF PostAck
    <3>2. QED
      BY <1>2, <3>1 DEF InFlight, Arrived, TypeOK
  <2>2. Cardinality(InFlight(k)') <= Cardinality(InFlight(k)) + 1
    <3>1. s \notin InFlight(k)
      BY DEF InFlight, PostAck
    <3>2. IsFiniteSet(InFlight(k))
      BY OwedIsNat
    <3>3. Cardinality(InFlight(k) \cup {s}) = Cardinality(InFlight(k)) + 1
      BY <3>1, <3>2, FS_AddElement
    <3>4. QED
      BY <2>1, <3>3, OwedIsNat
  <2>3. Held(k) = 1
    BY <1>4 DEF Held, PostAck
  <2>4. QED
    BY <1>3, <2>2, <2>3, OwedIsNat, OwedIsNatNext DEF Owed
<1>5. CASE ~(verdict = "failed" /\ cur = k)
  <2>1. InFlight(k)' \subseteq InFlight(k)
    BY <1>2, <1>5 DEF InFlight, PostAck, Arrived, TypeOK
  <2>2. Held(k)' <= Held(k)
    BY <1>3 DEF Held
  <2>3. QED
    BY <2>1, <2>2, FewerInFlight
<1>6. QED
  BY <1>4, <1>5

\* Every other step: no new failure, and no request starts reporting one.
LEMMA QuietDebt ==
  ASSUME TypeOK, UNCHANGED <<verdict, cur, failures>>,
         pc' = "ack" => pc = "ack",
         \A s \in AckSlots : req'[s].op = "failed"
            => req[s].op = "failed" /\ req'[s].msg = req[s].msg
  PROVE  DebtBounded
<1>1. SUFFICES ASSUME NEW k \in Msgs PROVE Owed(k)' <= Owed(k)
  BY OwedIsNat, OwedIsNatNext DEF DebtBounded, TypeOK
<1>2. InFlight(k)' \subseteq InFlight(k)
  BY DEF InFlight
<1>3. Held(k)' <= Held(k)
  BY DEF Held
<1>4. QED
  BY <1>2, <1>3, FewerInFlight

LEMMA NextDebt ==
  ASSUME CountInv, [Next]_vars
  PROVE  DebtBounded
<1> USE DEF CountInv
<1>1. CASE SendOk \/ SendRejected \/ SendUnclear
  <2>1. Send(TRUE, FALSE) \/ Send(FALSE, TRUE) \/ Send(TRUE, TRUE)
    BY <1>1, Zenon DEF SendOk, SendRejected, SendUnclear
  <2>2. \E ok, raised \in BOOLEAN : Send(ok, raised)
    BY <2>1, Zenon
  <2>3. QED
    BY <2>2, SendDebt, Zenon
<1>2. ASSUME NEW s \in AckSlots, PostAck(s) PROVE DebtBounded
  BY <1>2, PostDebt
<1>3. ASSUME UNCHANGED <<req, verdict, cur, failures>>, pc' = "ack" => pc = "ack"
      PROVE  DebtBounded
  BY <1>3, QuietDebt
<1>4. ASSUME NEW n \in 1..MaxMsgs, Enqueue(n) PROVE DebtBounded
  BY <1>3, <1>4 DEF Enqueue, bot, history
<1>5. CASE Fetch
  BY <1>3, <1>5 DEF Fetch, table, history
<1>6. CASE AckReturned \/ AckLost \/ AckTimeout
  BY <1>3, <1>6 DEF AckReturned, AckLost, AckTimeout, NextItem, table, history
<1>7. CASE BotCrash
  BY <1>3, <1>7 DEF BotCrash, table, history
<1>8. ASSUME NEW a \in Admins, NEW op \in {"retry", "delete"}, NEW m \in Msgs,
             AdminRequest(a, op, m)
      PROVE  DebtBounded
  <2>1. \A s \in AckSlots : req'[s] = req[s]
    BY <1>8, SlotsAssumption DEF AdminRequest, TypeOK, Slots
  <2>2. QED
    BY <1>8, <2>1, QuietDebt DEF AdminRequest, table, bot, history
<1>9. ASSUME NEW s \in Slots, Load(s) PROVE DebtBounded
  <2>1. \A t \in AckSlots : req'[t].op = "failed"
          => req[t].op = "failed" /\ req'[t].msg = req[t].msg
    BY <1>9 DEF Load, Finish, Idle, TypeOK, Req, Slots
  <2>2. QED
    BY <1>9, <2>1, QuietDebt DEF Load, table, bot, history
<1>10. ASSUME NEW s \in Slots, Commit(s) PROVE DebtBounded
  <2>1. \A t \in AckSlots : req'[t].op = "failed"
          => req[t].op = "failed" /\ req'[t].msg = req[t].msg
    BY <1>10 DEF Commit, Finish, Idle, TypeOK, Slots
  <2>2. QED
    BY <1>10, <2>1, QuietDebt DEF Commit, bot, history
<1>11. CASE BackendCrash
  <2>1. \A t \in AckSlots : req'[t].op # "failed"
    BY <1>11 DEF BackendCrash, Idle, Slots
  <2>2. QED
    BY <1>11, <2>1, QuietDebt DEF BackendCrash, table, bot, history
<1>12. CASE UNCHANGED vars
  BY <1>3, <1>12 DEF vars
<1>13. QED
  BY <1>1, <1>2, <1>4, <1>5, <1>6, <1>7, <1>8, <1>9, <1>10, <1>11, <1>12
  DEF Next

LEMMA NextFailuresFromBot == CountInv /\ [Next]_vars => FailuresFromBot'
<1> SUFFICES ASSUME CountInv, [Next]_vars PROVE FailuresFromBot'
  OBVIOUS
<1> USE DEF CountInv
<1>1. ASSUME UNCHANGED req PROVE FailuresFromBot'
  BY <1>1 DEF FailuresFromBot
<1>2. ASSUME NEW s \in Slots, Finish(s) PROVE FailuresFromBot'
  BY <1>2 DEF Finish, Idle, TypeOK, FailuresFromBot
<1>3. ASSUME SendOk \/ SendRejected \/ SendUnclear PROVE UNCHANGED req
  BY <1>3 DEF SendOk, SendRejected, SendUnclear, Send
<1>4. ASSUME NEW s \in AckSlots, PostAck(s) PROVE FailuresFromBot'
  BY <1>4 DEF PostAck, Arrived, TypeOK, FailuresFromBot, Slots
<1>5. ASSUME NEW a \in Admins, NEW op \in {"retry", "delete"}, NEW m \in Msgs,
             AdminRequest(a, op, m)
      PROVE  FailuresFromBot'
  BY <1>5 DEF AdminRequest, Arrived, TypeOK, FailuresFromBot
<1>6. ASSUME NEW s \in Slots, Load(s) PROVE FailuresFromBot'
  <2>1. CASE Finish(s)
    BY <1>2, <2>1
  <2>2. CASE ~Finish(s)
    BY <1>6, <2>2 DEF Load, TypeOK, Req, FailuresFromBot
  <2>3. QED
    BY <2>1, <2>2
<1>7. ASSUME NEW s \in Slots, Commit(s) PROVE FailuresFromBot'
  BY <1>2, <1>7 DEF Commit
<1>8. ASSUME BackendCrash PROVE FailuresFromBot'
  BY <1>8 DEF BackendCrash, Idle, FailuresFromBot
<1>9. ASSUME Fetch \/ AckReturned \/ AckLost \/ AckTimeout \/ BotCrash
             \/ UNCHANGED vars \/ (\E n \in 1..MaxMsgs : Enqueue(n))
      PROVE  UNCHANGED req
  BY <1>9 DEF Fetch, AckReturned, AckLost, AckTimeout, BotCrash, Enqueue, vars
<1>10. QED
  BY <1>1, <1>3, <1>4, <1>5, <1>6, <1>7, <1>8, <1>9 DEF Next

\* A written count is the row's own, a reset one, or one more than the copy's.
LEMMA UpdatedCount ==
  ASSUME NEW op \in Ops, NEW snap \in Row, NEW row \in Row
  PROVE  \/ Updated(op, snap, row).cnt \in {row.cnt, 0}
         \/ op = "failed" /\ Updated(op, snap, row).cnt = snap.cnt + 1
<1> DEFINE new == Handled(op, snap)
<1>1. new.cnt \in {snap.cnt, 0} \/ (op = "failed" /\ new.cnt = snap.cnt + 1)
  <2>1. CASE op = "sent"
    BY <2>1, Zenon DEF Handled, AckedSent, Row
  <2>2. CASE op = "failed"
    <3>1. new = AckedFailed(snap)
      BY <2>2, Zenon DEF Handled
    <3>2. AckedFailed(snap).cnt = snap.cnt + 1
      BY DEF AckedFailed, Row
    <3>3. QED
      BY <2>2, <3>1, <3>2
  <2>3. CASE op = "retry"
    <3>1. new = Reset(snap)
      BY <2>3, Zenon DEF Handled
    <3>2. QED
      BY <3>1 DEF Reset, Row
  <2>4. CASE op = "delete"
    <3>1. new = NoRow
      BY <2>4, Zenon DEF Handled
    <3>2. QED
      BY <3>1 DEF NoRow
  <2>5. QED
    BY <2>1, <2>2, <2>3, <2>4 DEF Ops, AckStatus
<1> HIDE DEF new
<1>2. Merge(op, snap, row).cnt = IF new.cnt # snap.cnt THEN new.cnt ELSE row.cnt
  BY DEF Merge, new
<1>3. QED
  BY <1>1, <1>2 DEF Updated, NoRow

\* Only the last allowed failure gives a row up.
LEMMA BecomesFailed ==
  ASSUME NEW op \in Ops, NEW snap \in Row, NEW row \in Row,
         Updated(op, snap, row).status = "failed"
  PROVE  row.status = "failed" \/ (op = "failed" /\ snap.cnt + 1 >= MaxAttempts)
<1>1. CASE op = "failed"
  <2>1. Handled(op, snap) = AckedFailed(snap)
    BY <1>1, Zenon DEF Handled
  <2>2. ~GivesUp(snap.cnt + 1) => AckedFailed(snap).status = "pending"
    BY DEF AckedFailed, Row
  <2>3. CASE GivesUp(snap.cnt + 1)
    BY <1>1, <2>3 DEF GivesUp
  <2>4. CASE ~GivesUp(snap.cnt + 1)
    BY <2>1, <2>2, <2>4 DEF Updated, Merge, NoRow
  <2>5. QED
    BY <2>3, <2>4
<1>2. CASE op = "sent"
  <2>1. Handled(op, snap) = AckedSent(snap)
    BY <1>2, Zenon DEF Handled
  <2>2. QED
    BY <1>2, <2>1 DEF Updated, Merge, NoRow, AckedSent, Row
<1>3. CASE op = "retry"
  <2>1. Handled(op, snap) = Reset(snap)
    BY <1>3, Zenon DEF Handled
  <2>2. QED
    BY <1>3, <2>1 DEF Updated, Merge, NoRow, Reset, Row
<1>4. CASE op = "delete"
  BY <1>4 DEF Updated, NoRow
<1>5. QED
  BY <1>1, <1>2, <1>3, <1>4 DEF Ops, AckStatus

\* Committing a failed acknowledgement pays one failure of its message's debt.
LEMMA CommitPays ==
  ASSUME CountInv, NEW s \in Slots, Commit(s), req[s].op = "failed",
         NEW m \in Msgs, m = req[s].msg
  PROVE  Owed(m)' + 1 <= Owed(m)
<1>1. s \in AckSlots
  BY DEF CountInv, FailuresFromBot
<1>2. s \in InFlight(m)
  BY <1>1 DEF InFlight
<1>3. InFlight(m)' = InFlight(m) \ {s}
  BY DEF InFlight, Commit, Finish, Idle, CountInv, TypeOK, Slots
<1>4. Cardinality(InFlight(m)') = Cardinality(InFlight(m)) - 1
  BY <1>2, <1>3, OwedIsNat, FS_RemoveElement
<1>5. Held(m)' = Held(m) /\ Held(m) \in Nat
  BY DEF Held, Commit, bot
<1>6. QED
  BY <1>4, <1>5, OwedIsNat DEF Owed

\* What a commit leaves in any row is covered.
LEMMA CommitCovered ==
  ASSUME CountInv, NEW s \in Slots, Commit(s), DebtBounded, NEW m \in Msgs
  PROVE  /\ outbox'[m].cnt + Owed(m)' <= failures'[m]
         /\ outbox'[m].status = "failed" => failures'[m] >= MaxAttempts
<1>1. /\ req[s].op \in Ops /\ req[s].snap \in Row /\ outbox[m] \in Row
      /\ failures[m] \in Nat /\ failures' = failures
  BY DEF Commit, CountInv, TypeOK, Req, history
<1>2. Owed(m) \in Nat /\ Owed(m)' \in Nat /\ Owed(m)' <= Owed(m)
  BY <1>1, OwedIsNat, OwedIsNatNext DEF DebtBounded
<1>3. outbox[m].cnt \in Nat /\ outbox[m].cnt + Owed(m) <= failures[m]
  BY <1>1 DEF CountInv, RowsCovered, Row
<1>4. outbox[m].status = "failed" => failures[m] >= MaxAttempts
  BY DEF CountInv, GivenUpAfterAttempts
<1>5. CASE m # req[s].msg
  <2>1. outbox'[m] = outbox[m]
    BY <1>5 DEF Commit, CountInv, TypeOK
  <2>2. QED
    BY <1>1, <1>2, <1>3, <1>4, <2>1
<1>6. CASE m = req[s].msg
  <2> DEFINE op == req[s].op
             snap == req[s].snap
             upd == Updated(op, snap, outbox[m])
  <2>1. outbox'[m] = upd
    BY <1>6 DEF Commit, CountInv, TypeOK
  <2>2. snap.cnt \in Nat /\ snap.cnt + Owed(m) <= failures[m]
    BY <1>1, <1>6 DEF CountInv, CopiesCovered, Row
  <2>3. op = "failed" => Owed(m)' + 1 <= Owed(m)
    BY <1>6, CommitPays
  <2>4. upd.cnt \in {outbox[m].cnt, 0} \/ (op = "failed" /\ upd.cnt = snap.cnt + 1)
    BY <1>1, UpdatedCount
  <2>5. upd.status = "failed"
          => outbox[m].status = "failed" \/ (op = "failed" /\ snap.cnt + 1 >= MaxAttempts)
    BY <1>1, BecomesFailed
  <2> HIDE DEF op, snap, upd
  <2>6. upd.cnt + Owed(m)' <= failures[m]
    BY <1>1, <1>2, <1>3, <2>2, <2>3, <2>4
  <2>7. upd.status = "failed" => failures[m] >= MaxAttempts
    BY <1>1, <1>2, <1>4, <2>2, <2>3, <2>5, BoundsAssumption
  <2>8. QED
    BY <1>1, <2>1, <2>6, <2>7
<1>7. QED
  BY <1>5, <1>6

LEMMA NextRows ==
  CountInv /\ [Next]_vars => RowsCovered' /\ GivenUpAfterAttempts'
<1> SUFFICES ASSUME CountInv, [Next]_vars, NEW m \in Msgs
             PROVE  /\ outbox'[m].cnt + Owed(m)' <= failures'[m]
                    /\ outbox'[m].status = "failed" => failures'[m] >= MaxAttempts
  BY DEF RowsCovered, GivenUpAfterAttempts
<1>1. DebtBounded /\ TypeOK'
  BY NextDebt, NextTypeOK DEF CountInv
<1>2. /\ Owed(m) \in Nat /\ Owed(m)' \in Nat
      /\ failures[m] \in Nat /\ failures'[m] \in Nat /\ outbox[m].cnt \in Nat
  BY <1>1, OwedIsNat, OwedIsNatNext DEF CountInv, TypeOK, Row
<1>3. /\ failures'[m] >= failures[m]
      /\ failures[m] + Owed(m)' <= failures'[m] + Owed(m)
      /\ outbox[m].cnt + Owed(m) <= failures[m]
      /\ outbox[m].status = "failed" => failures[m] >= MaxAttempts
  BY <1>1 DEF DebtBounded, CountInv, RowsCovered, GivenUpAfterAttempts
<1>4. CASE outbox'[m] \in {outbox[m], FreshRow}
  BY <1>2, <1>3, <1>4, BoundsAssumption DEF FreshRow
<1>5. ASSUME NEW s \in Slots, Commit(s)
      PROVE  /\ outbox'[m].cnt + Owed(m)' <= failures'[m]
             /\ outbox'[m].status = "failed" => failures'[m] >= MaxAttempts
  BY <1>1, <1>5, CommitCovered
<1>6. ASSUME NEW n \in 1..MaxMsgs, Enqueue(n)
      PROVE  outbox'[m] \in {outbox[m], FreshRow}
  BY <1>6 DEF Enqueue
<1>7. ASSUME SendOk \/ SendRejected \/ SendUnclear PROVE outbox' = outbox
  BY <1>7 DEF SendOk, SendRejected, SendUnclear, Send, table
<1>8. ASSUME Fetch \/ AckReturned \/ AckLost \/ AckTimeout \/ BotCrash
             \/ BackendCrash \/ UNCHANGED vars \/ (\E s \in AckSlots : PostAck(s))
             \/ (\E s \in Slots : Load(s))
             \/ (\E a \in Admins, op \in {"retry", "delete"}, k \in Msgs :
                    AdminRequest(a, op, k))
      PROVE  outbox' = outbox
  BY <1>8 DEF Fetch, AckReturned, AckLost, AckTimeout, NextItem, BotCrash,
     BackendCrash, PostAck, Load, AdminRequest, vars, table
<1>9. QED
  BY <1>4, <1>5, <1>6, <1>7, <1>8 DEF Next

LEMMA NextCopies == CountInv /\ [Next]_vars => CopiesCovered'
<1> SUFFICES ASSUME CountInv, [Next]_vars PROVE CopiesCovered'
  OBVIOUS
<1>1. DebtBounded /\ TypeOK' /\ RowsCovered'
  BY NextDebt, NextTypeOK, NextRows DEF CountInv
<1>2. SUFFICES ASSUME NEW s \in Slots, NEW m \in Msgs, m = req'[s].msg
               PROVE  req'[s].snap.cnt + Owed(m)' <= failures'[m]
  <2>1. \A s \in Slots : req'[s].msg \in Msgs
    BY <1>1 DEF TypeOK, Req
  <2>2. QED
    BY <1>2, <2>1 DEF CopiesCovered, Owed, Held, InFlight
<1>3. /\ Owed(m) \in Nat /\ Owed(m)' \in Nat
      /\ failures[m] \in Nat /\ failures'[m] \in Nat /\ outbox'[m].cnt \in Nat
      /\ failures[m] + Owed(m)' <= failures'[m] + Owed(m)
      /\ outbox'[m].cnt + Owed(m)' <= failures'[m]
  BY <1>1, <1>2, OwedIsNat, OwedIsNatNext
  DEF DebtBounded, RowsCovered, TypeOK, Row, CountInv
<1> DEFINE Goal == req'[s].snap.cnt + Owed(m)' <= failures'[m]
<1> SUFFICES Goal
  OBVIOUS
<1>4. CASE req'[s].snap = req[s].snap /\ req'[s].msg = req[s].msg
  <2>1. req[s].snap.cnt \in Nat
    BY DEF CountInv, TypeOK, Req, Row
  <2>2. req[s].snap.cnt + Owed(m) <= failures[m]
    BY <1>2, <1>4 DEF CountInv, CopiesCovered
  <2>3. QED
    BY <1>3, <1>4, <2>1, <2>2
<1>5. CASE req'[s].snap \in {NoRow, outbox'[m]}
  BY <1>3, <1>5 DEF NoRow
<1> HIDE DEF Goal
<1>6. ASSUME UNCHANGED req PROVE Goal
  BY <1>4, <1>6
<1>7. ASSUME NEW t \in Slots, Finish(t) PROVE Goal
  BY <1>4, <1>5, <1>7 DEF Finish, Idle, CountInv, TypeOK
<1>8. ASSUME SendOk \/ SendRejected \/ SendUnclear PROVE UNCHANGED req
  BY <1>8 DEF SendOk, SendRejected, SendUnclear, Send
<1>9. ASSUME NEW t \in AckSlots, PostAck(t) PROVE Goal
  BY <1>4, <1>5, <1>9 DEF PostAck, Arrived, CountInv, TypeOK
<1>10. ASSUME NEW a \in Admins, NEW op \in {"retry", "delete"}, NEW k \in Msgs,
              AdminRequest(a, op, k)
       PROVE  Goal
  BY <1>4, <1>5, <1>10 DEF AdminRequest, Arrived, CountInv, TypeOK
<1>11. ASSUME NEW t \in Slots, Load(t) PROVE Goal
  <2>1. CASE Finish(t)
    BY <1>7, <2>1
  <2>2. CASE ~Finish(t)
    <3>1. req' = [req EXCEPT ![t].phase = "loaded", ![t].snap = outbox[req[t].msg]]
      BY <1>11, <2>2 DEF Load
    <3>2. outbox' = outbox
      BY <1>11 DEF Load, table
    <3>3. CASE s = t
      <4>1. req'[s].msg = req[s].msg /\ req'[s].snap = outbox[req[s].msg]
        BY <3>1, <3>3 DEF CountInv, TypeOK, Req
      <4>2. QED
        BY <1>2, <1>5, <3>2, <4>1
    <3>4. CASE s # t
      BY <1>4, <3>1, <3>4 DEF CountInv, TypeOK
    <3>5. QED
      BY <3>3, <3>4
  <2>3. QED
    BY <2>1, <2>2
<1>12. ASSUME NEW t \in Slots, Commit(t) PROVE Goal
  BY <1>7, <1>12 DEF Commit
<1>13. ASSUME BackendCrash PROVE Goal
  BY <1>5, <1>13 DEF BackendCrash, Idle
<1>14. ASSUME Fetch \/ AckReturned \/ AckLost \/ AckTimeout \/ BotCrash
              \/ UNCHANGED vars \/ (\E n \in 1..MaxMsgs : Enqueue(n))
       PROVE  UNCHANGED req
  BY <1>14 DEF Fetch, AckReturned, AckLost, AckTimeout, BotCrash, Enqueue, vars
<1>15. QED
  BY <1>6, <1>8, <1>9, <1>10, <1>11, <1>12, <1>13, <1>14 DEF Next

LEMMA InitCountInv == Init => CountInv
<1> SUFFICES ASSUME Init PROVE CountInv
  OBVIOUS
<1>1. TypeOK
  BY InitTypeOK
<1>2. ASSUME NEW m \in Msgs PROVE Owed(m) = 0
  <2>1. InFlight(m) = {}
    BY DEF Init, InFlight, Idle, Slots
  <2>2. QED
    BY <2>1, FS_EmptySet DEF Owed, Held, Init
<1>3. RowsCovered /\ GivenUpAfterAttempts
  BY <1>2 DEF RowsCovered, GivenUpAfterAttempts, Init, NoRow
<1>4. CopiesCovered /\ FailuresFromBot
  <2>1. 1 \in Msgs
    BY BoundsAssumption DEF Msgs
  <2>2. QED
    BY <1>2, <2>1 DEF CopiesCovered, FailuresFromBot, Init, Idle, NoRow
<1>5. QED
  BY <1>1, <1>3, <1>4 DEF CountInv

\* A message is given up only after MaxAttempts failed sends of it.
THEOREM GivingUpIsHonest == Spec => []GivenUpAfterAttempts
<1>1. CountInv /\ [Next]_vars => CountInv'
  BY NextTypeOK, NextFailuresFromBot, NextRows, NextCopies DEF CountInv
<1>2. CountInv => GivenUpAfterAttempts
  BY DEF CountInv
<1>3. QED
  BY <1>1, <1>2, InitCountInv, PTL DEF Spec

-----------------------------------------------------------------------------
(***************************************************************************)
(* Outbox implements Delivery.  Rows are inserted in the order of their    *)
(* ids, and the poller only holds ids of rows that were inserted.          *)
(***************************************************************************)
KnownRows ==
  /\ \A m \in Msgs : m >= nextId => outbox[m].status = "absent"
  /\ \A m \in batch : m < nextId

ImplInv == CountInv /\ SentInv /\ KnownRows

LEMMA NextKnownRows == TypeOK /\ KnownRows /\ [Next]_vars => KnownRows'
<1> SUFFICES ASSUME TypeOK, KnownRows, [Next]_vars PROVE KnownRows'
  OBVIOUS
<1> USE DEF KnownRows
<1>1. ASSUME NEW n \in 1..MaxMsgs, Enqueue(n) PROVE KnownRows'
  BY <1>1, BoundsAssumption DEF Enqueue, bot, TypeOK, Msgs
<1>2. ASSUME Fetch PROVE KnownRows'
  BY <1>2 DEF Fetch, table, Page, Pending, TypeOK, Msgs
<1>3. ASSUME UNCHANGED table, batch' \subseteq batch PROVE KnownRows'
  BY <1>3 DEF table
<1>4. ASSUME SendOk \/ SendRejected \/ SendUnclear PROVE KnownRows'
  BY <1>3, <1>4 DEF SendOk, SendRejected, SendUnclear, Send
<1>5. ASSUME AckReturned \/ AckLost \/ AckTimeout \/ BotCrash \/ BackendCrash
             \/ UNCHANGED vars \/ (\E s \in AckSlots : PostAck(s))
             \/ (\E s \in Slots : Load(s))
             \/ (\E a \in Admins, op \in {"retry", "delete"}, k \in Msgs :
                    AdminRequest(a, op, k))
      PROVE  UNCHANGED table /\ batch' \subseteq batch
  BY <1>5 DEF AckReturned, AckLost, AckTimeout, NextItem, BotCrash,
     BackendCrash, PostAck, Load, AdminRequest, bot, vars, table
<1>6. ASSUME NEW s \in Slots, Commit(s) PROVE KnownRows'
  <2>1. ASSUME NEW m \in Msgs, m >= nextId PROVE outbox'[m].status = "absent"
    <3>1. outbox[m].status = "absent"
      BY <2>1
    <3>2. outbox'[m] \in {outbox[m], NoRow}
      BY <1>6, <3>1 DEF Commit, Updated, TypeOK
    <3>3. QED
      BY <3>1, <3>2 DEF NoRow
  <2>2. QED
    BY <1>6, <2>1 DEF Commit, bot
<1>7. QED
  BY <1>1, <1>2, <1>3, <1>4, <1>5, <1>6 DEF Next

LEMMA InitImplInv == Init => ImplInv
<1>1. Init => SentInv /\ KnownRows
  BY InitTypeOK
  DEF Init, SentInv, ConfirmHonest, SentWasDelivered, Idle, NoRow, KnownRows
<1>2. QED
  BY <1>1, InitCountInv DEF ImplInv

LEMMA NextImplInv == ImplInv /\ [Next]_vars => ImplInv'
BY NextTypeOK, NextFailuresFromBot, NextRows, NextCopies, NextSentInv,
   NextKnownRows
DEF ImplInv, CountInv

\* A commit is one of Delivery's decisions about the row, or no news at all.
LEMMA CommitRefines ==
  ASSUME ImplInv, ImplInv', NEW s \in Slots, Commit(s),
         NEW m \in Msgs, m = req[s].msg
  PROVE  [Promise!Next]_(Promise!vars)
<1> DEFINE st == [k \in Msgs |-> Stage(k)]
<1>1. m \in Int /\ nextId' = nextId /\ nextId \in Int
  BY DEF ImplInv, CountInv, TypeOK, Commit, Msgs
<1>2. UNCHANGED <<delivered, failures>>
  BY DEF Commit, history
<1>3. \A k \in Msgs : k # m => outbox'[k] = outbox[k]
  BY DEF Commit, ImplInv, CountInv, TypeOK
<1>4. \A k \in Msgs : k # m => Stage(k)' = Stage(k)
  BY <1>1, <1>3 DEF Stage
<1>5. CASE outbox'[m].status = outbox[m].status
  <2>1. Stage(m)' = Stage(m)
    BY <1>1, <1>5 DEF Stage
  <2>2. st' = st
    BY <1>4, <2>1
  <2>3. QED
    BY <1>2, <2>2 DEF Promise!vars
<1>6. CASE outbox'[m].status # outbox[m].status
  <2>1. /\ outbox[m].status \in {"pending", "sent", "failed"}
        /\ outbox'[m].status \in {"absent", "pending", "sent", "failed"}
    BY <1>6 DEF Commit, Updated, NoRow, ImplInv, CountInv, TypeOK, Row
  <2>2. m < nextId
    BY <1>1, <2>1 DEF ImplInv, KnownRows
  <2>3. /\ st[m] = StageOf[outbox[m].status]
        /\ st' = [st EXCEPT ![m] = StageOf[outbox'[m].status]]
    BY <1>1, <1>4, <2>2 DEF Stage
  <2> HIDE DEF st
  <2>4. /\ outbox'[m].status = "sent" => delivered[m] > 0
        /\ outbox'[m].status = "failed" => failures[m] >= MaxAttempts
    BY <1>2 DEF ImplInv, CountInv, SentInv, SentWasDelivered, GivenUpAfterAttempts
  <2> DEFINE Moves(from, to) ==
               st[m] \in from /\ st' = [st EXCEPT ![m] = to] /\ UNCHANGED <<delivered, failures>>
  <2>5. \/ delivered[m] > 0 /\ Moves({"queued", "failed"}, "sent")
        \/ failures[m] >= MaxAttempts /\ Moves({"queued", "sent"}, "failed")
        \/ Moves({"sent", "failed"}, "queued")
        \/ Moves({"queued", "sent", "failed"}, "removed")
    <3> HIDE DEF Moves
    <3>1. CASE outbox'[m].status = "sent"
      BY <1>2, <1>6, <2>1, <2>3, <2>4, <3>1 DEF StageOf, Moves
    <3>2. CASE outbox'[m].status = "failed"
      BY <1>2, <1>6, <2>1, <2>3, <2>4, <3>2 DEF StageOf, Moves
    <3>3. CASE outbox'[m].status = "pending"
      BY <1>2, <1>6, <2>1, <2>3, <3>3 DEF StageOf, Moves
    <3>4. CASE outbox'[m].status = "absent"
      BY <1>2, <2>1, <2>3, <3>4 DEF StageOf, Moves
    <3>5. QED
      BY <2>1, <3>1, <3>2, <3>3, <3>4
  <2>6. Promise!Confirm(m) \/ Promise!GiveUp(m) \/ Promise!Requeue(m) \/ Promise!Remove(m)
    BY <2>5 DEF st, Promise!Confirm, Promise!GiveUp, Promise!Requeue,
       Promise!Remove, Promise!Move
  <2>7. QED
    BY <2>6 DEF Promise!Next
<1>7. QED
  BY <1>5, <1>6

LEMMA SendRefines ==
  ASSUME ImplInv, NEW ok \in BOOLEAN, NEW raised \in BOOLEAN, Send(ok, raised)
  PROVE  Promise!Next
<1>1. PICK m \in First(batch) :
        /\ delivered' = IF ok THEN [delivered EXCEPT ![m] = @ + 1] ELSE delivered
        /\ failures' = IF raised THEN [failures EXCEPT ![m] = @ + 1] ELSE failures
  BY DEF Send
<1>2. m \in Msgs /\ m < nextId
  BY DEF First, ImplInv, CountInv, TypeOK, KnownRows
<1>3. [k \in Msgs |-> Stage(k)][m] # "new"
  BY <1>2 DEF Stage, StageOf, ImplInv, CountInv, TypeOK, Row
<1>4. UNCHANGED [k \in Msgs |-> Stage(k)]
  BY DEF Send, table, Stage
<1>5. Promise!Attempt(m, ok, raised)
  BY <1>1, <1>3, <1>4 DEF Promise!Attempt
<1>6. QED
  BY <1>2, <1>5 DEF Promise!Next

LEMMA EnqueueRefines ==
  ASSUME ImplInv, NEW n \in 1..MaxMsgs, Enqueue(n)
  PROVE  Promise!Next
<1> DEFINE S == nextId..(nextId + n - 1)
<1>1. S \in SUBSET Msgs /\ nextId \in Int /\ n \in Int
  BY BoundsAssumption DEF Enqueue, ImplInv, CountInv, TypeOK, Msgs
<1>2. \A k \in S : Stage(k) = "new"
  BY <1>1 DEF Stage
<1>3. \A k \in Msgs : Stage(k)' = IF k \in S THEN "queued" ELSE Stage(k)
  BY <1>1 DEF Enqueue, Stage, StageOf, FreshRow, Msgs
<1>4. Promise!Accept(S)
  BY <1>1, <1>2, <1>3 DEF Promise!Accept, Enqueue, history
<1>5. QED
  BY <1>1, <1>4 DEF Promise!Next

LEMMA NextRefines ==
  ASSUME ImplInv, ImplInv', [Next]_vars
  PROVE  [Promise!Next]_(Promise!vars)
<1>1. ASSUME UNCHANGED <<table, delivered, failures>> PROVE UNCHANGED Promise!vars
  BY <1>1 DEF table, Promise!vars, Stage
<1>2. CASE SendOk \/ SendRejected \/ SendUnclear
  <2>1. Send(TRUE, FALSE) \/ Send(FALSE, TRUE) \/ Send(TRUE, TRUE)
    BY <1>2, Zenon DEF SendOk, SendRejected, SendUnclear
  <2>2. \E ok, raised \in BOOLEAN : Send(ok, raised)
    BY <2>1, Zenon
  <2>3. QED
    BY <2>2, SendRefines, Zenon
<1>3. ASSUME NEW n \in 1..MaxMsgs, Enqueue(n) PROVE Promise!Next
  BY <1>3, EnqueueRefines
<1>4. ASSUME NEW s \in Slots, Commit(s) PROVE [Promise!Next]_(Promise!vars)
  <2>1. req[s].msg \in Msgs
    BY DEF ImplInv, CountInv, TypeOK, Req
  <2>2. QED
    BY <1>4, <2>1, CommitRefines
<1>5. ASSUME Fetch \/ AckReturned \/ AckLost \/ AckTimeout \/ BotCrash
             \/ BackendCrash \/ UNCHANGED vars \/ (\E s \in AckSlots : PostAck(s))
             \/ (\E s \in Slots : Load(s))
             \/ (\E a \in Admins, op \in {"retry", "delete"}, k \in Msgs :
                    AdminRequest(a, op, k))
      PROVE  UNCHANGED <<table, delivered, failures>>
  BY <1>5 DEF Fetch, AckReturned, AckLost, AckTimeout, NextItem, BotCrash,
     BackendCrash, PostAck, Load, AdminRequest, vars, table, history
<1>6. QED
  BY <1>1, <1>2, <1>3, <1>4, <1>5 DEF Next

\* The outbox, with its stale copies, lost answers and crashes, delivers at
\* least once.
THEOREM OutboxImplementsDelivery == Spec => ImplementsDelivery
<1>1. Init => Promise!Init
  BY BoundsAssumption DEF Init, Promise!Init, Stage, Msgs
<1>2. QED
  BY <1>1, InitImplInv, NextImplInv, NextRefines, PTL
  DEF Spec, ImplementsDelivery, Promise!Spec

-----------------------------------------------------------------------------
(***************************************************************************)
(* The bot waits for the acknowledgement it posted, and for no other.      *)
(***************************************************************************)
AwaitsAck == pc = "await" /\ req[slot].op # "none"

OneAtATime ==
  /\ pc \in {"ack", "await"} => cur \notin batch
  /\ AwaitsAck => req[slot].op = verdict /\ req[slot].msg = cur
  /\ \A s \in AckSlots : req[s].op \in AckStatus \cup {"none"}
  /\ \A a \in Admins : req[a].op \in {"retry", "delete", "none"}

\* A step in the backend leaves each slot's request, or ends it, or loads it.
LEMMA BackendKeepsOneAtATime ==
  ASSUME TypeOK, OneAtATime, UNCHANGED bot,
         \A s \in Slots : \/ req'[s].op = "none"
                          \/ req'[s].op = req[s].op /\ req'[s].msg = req[s].msg
  PROVE  OneAtATime'
<1>1. \A s \in Slots : req[s].op = "none" => req'[s].op = "none"
  OBVIOUS
<1>2. AckSlots \subseteq Slots /\ Admins \subseteq Slots /\ slot \in AckSlots
  BY DEF Slots, TypeOK
<1>3. AwaitsAck' => AwaitsAck /\ req'[slot].op = req[slot].op /\ req'[slot].msg = req[slot].msg
  BY <1>1, <1>2 DEF AwaitsAck, bot
<1>4. QED
  BY <1>2, <1>3 DEF OneAtATime, bot

LEMMA NextOneAtATime == TypeOK /\ OneAtATime /\ [Next]_vars => OneAtATime'
<1> SUFFICES ASSUME TypeOK, OneAtATime, [Next]_vars PROVE OneAtATime'
  OBVIOUS
<1>1. ASSUME UNCHANGED req, pc' \in {"poll", "send"} PROVE OneAtATime'
  BY <1>1 DEF OneAtATime, AwaitsAck
<1>2. ASSUME SendOk \/ SendRejected \/ SendUnclear PROVE OneAtATime'
  BY <1>2 DEF SendOk, SendRejected, SendUnclear, Send, OneAtATime, AwaitsAck
<1>3. ASSUME Fetch \/ AckReturned \/ AckLost \/ AckTimeout \/ BotCrash
      PROVE  UNCHANGED req /\ pc' \in {"poll", "send"}
  BY <1>3 DEF Fetch, AckReturned, AckLost, AckTimeout, NextItem, BotCrash
<1>4. ASSUME NEW s \in AckSlots, PostAck(s) PROVE OneAtATime'
  <2>1. /\ req' = [req EXCEPT ![s] = Arrived(verdict, cur)]
        /\ pc' = "await" /\ slot' = s /\ pc = "ack" /\ UNCHANGED <<cur, verdict, batch>>
    BY <1>4 DEF PostAck
  <2>2. s \in Slots /\ s \notin Admins
    BY SlotsAssumption DEF Slots
  <2>3. req'[s].op = verdict /\ req'[s].msg = cur
    BY <2>1, <2>2 DEF Arrived, TypeOK
  <2>4. \A t \in Slots \ {s} : req'[t] = req[t]
    BY <2>1 DEF TypeOK
  <2>5. QED
    BY <2>1, <2>2, <2>3, <2>4 DEF OneAtATime, AwaitsAck, TypeOK, Slots
<1>5. ASSUME NEW a \in Admins, NEW op \in {"retry", "delete"}, NEW m \in Msgs,
             AdminRequest(a, op, m)
      PROVE  OneAtATime'
  <2>1. req'[a].op = op /\ \A t \in Slots \ {a} : req'[t] = req[t]
    BY <1>5 DEF AdminRequest, Arrived, TypeOK, Slots
  <2>2. a \notin AckSlots
    BY SlotsAssumption
  <2>3. QED
    BY <1>5, <2>1, <2>2 DEF AdminRequest, bot, OneAtATime, AwaitsAck, TypeOK, Slots
<1>6. ASSUME NEW s \in Slots, Load(s) \/ Commit(s) PROVE OneAtATime'
  <2>1. \A t \in Slots : \/ req'[t].op = "none"
                         \/ req'[t].op = req[t].op /\ req'[t].msg = req[t].msg
    BY <1>6 DEF Load, Commit, Finish, Idle, TypeOK, Req
  <2>2. QED
    BY <1>6, <2>1, BackendKeepsOneAtATime DEF Load, Commit
<1>7. ASSUME BackendCrash PROVE OneAtATime'
  BY <1>7, BackendKeepsOneAtATime DEF BackendCrash, Idle
<1>8. ASSUME UNCHANGED <<req, bot>> PROVE OneAtATime'
  BY <1>8 DEF bot, OneAtATime, AwaitsAck
<1>9. ASSUME (\E n \in 1..MaxMsgs : Enqueue(n)) \/ UNCHANGED vars
      PROVE  UNCHANGED <<req, bot>>
  BY <1>9 DEF Enqueue, vars, bot
<1>10. QED
  BY <1>1, <1>2, <1>3, <1>4, <1>5, <1>6, <1>7, <1>8, <1>9 DEF Next

-----------------------------------------------------------------------------
(***************************************************************************)
(* Every delivery of a message is paid for.  Besides the deliveries made,  *)
(* count the ones still ahead without a further fault or retry: one if the *)
(* poller holds the row or will find it pending, and one for each request  *)
(* that may make it pending behind the poller's back, a retry or a failed  *)
(* acknowledgement the bot no longer waits for.  A row that is pending     *)
(* only until the confirmation under way is written is not ahead: unless   *)
(* that handler's copy already says "sent", it will write the status.      *)
(***************************************************************************)
WillConfirm(m) ==
  /\ cur = m /\ verdict = "sent"
  /\ \/ pc = "ack"
     \/ AwaitsAck /\ (req[slot].phase = "arrived" \/ req[slot].snap.status # "sent")

Ahead(m) ==
  \/ m \in batch
  \/ outbox[m].status = "pending" /\ ~WillConfirm(m)
  \/ cur = m /\ verdict = "failed" /\ (pc = "ack" \/ AwaitsAck)

Reviving(m) ==
  {s \in Slots : /\ req[s].msg = m
                 /\ \/ req[s].op = "retry"
                    \/ req[s].op = "failed" /\ ~(pc = "await" /\ slot = s)}

Chances(m) == (IF Ahead(m) THEN 1 ELSE 0) + Cardinality(Reviving(m))
Allowed(m) == retries + faults + (IF m < nextId THEN 1 ELSE 0)

SpentOrLeft == \A m \in Msgs : delivered[m] + Chances(m) <= Allowed(m)

\* A step that delivers or revives a message is allowed for.
StepAllowed(m) ==
  delivered'[m] + Chances(m)' + Allowed(m) <= delivered[m] + Chances(m) + Allowed(m)'

LEMMA RevivingFinite ==
  ASSUME NEW m \in Msgs
  PROVE  /\ IsFiniteSet(Reviving(m)) /\ Cardinality(Reviving(m)) \in Nat
         /\ IsFiniteSet(Reviving(m)') /\ Cardinality(Reviving(m)') \in Nat
<1>1. IsFiniteSet(Slots)
  BY SlotsAssumption, FS_Union DEF Slots
<1>2. Reviving(m) \in SUBSET Slots /\ Reviving(m)' \in SUBSET Slots
  BY DEF Reviving
<1>3. QED
  BY <1>1, <1>2, FS_Subset, FS_CardinalityType

LEMMA ChancesAreNat ==
  ASSUME NEW m \in Msgs
  PROVE  Chances(m) \in Nat /\ Chances(m)' \in Nat
BY RevivingFinite DEF Chances

\* Nothing new is ahead: the chances do not grow.
LEMMA NothingRevived ==
  ASSUME NEW m \in Msgs, Reviving(m)' \subseteq Reviving(m)
  PROVE  /\ Chances(m)' <= Chances(m) + 1
         /\ (Ahead(m)' => Ahead(m)) => Chances(m)' <= Chances(m)
         /\ Ahead(m) /\ ~Ahead(m)' => Chances(m)' + 1 <= Chances(m)
<1>1. Cardinality(Reviving(m)') <= Cardinality(Reviving(m))
  BY RevivingFinite, FS_Subset
<1>2. QED
  BY <1>1, RevivingFinite DEF Chances

\* One more request may revive the message.
LEMMA OneMoreRevives ==
  ASSUME NEW m \in Msgs, NEW x, Reviving(m)' \subseteq Reviving(m) \cup {x},
         Ahead(m)' => Ahead(m)
  PROVE  Chances(m)' <= Chances(m) + 1
<1>1. /\ IsFiniteSet(Reviving(m) \cup {x})
      /\ Cardinality(Reviving(m) \cup {x}) \in Nat
      /\ Cardinality(Reviving(m) \cup {x}) <= Cardinality(Reviving(m)) + 1
  <2>1. IsFiniteSet(Reviving(m)) /\ Cardinality(Reviving(m)) \in Nat
    BY RevivingFinite
  <2>2. CASE x \in Reviving(m)
    <3>1. Reviving(m) \cup {x} = Reviving(m)
      BY <2>2
    <3>2. QED
      BY <2>1, <3>1
  <2>3. CASE x \notin Reviving(m)
    BY <2>1, <2>3, FS_AddElement
  <2>4. QED
    BY <2>2, <2>3
<1>2. Cardinality(Reviving(m)') <= Cardinality(Reviving(m) \cup {x})
  BY <1>1, FS_Subset
<1>3. QED
  BY <1>1, <1>2, RevivingFinite DEF Chances

\* A request that could revive the message has done so, or has not.
LEMMA OneLessRevives ==
  ASSUME NEW m \in Msgs, NEW s \in Reviving(m), Reviving(m)' \subseteq Reviving(m) \ {s}
  PROVE  Chances(m)' <= Chances(m)
<1>1. /\ IsFiniteSet(Reviving(m) \ {s})
      /\ Cardinality(Reviving(m) \ {s}) = Cardinality(Reviving(m)) - 1
  BY RevivingFinite, FS_RemoveElement
<1>2. Cardinality(Reviving(m)') <= Cardinality(Reviving(m) \ {s})
  BY <1>1, FS_Subset
<1>3. QED
  BY <1>1, <1>2, RevivingFinite DEF Chances

DupInv == TypeOK /\ OneAtATime /\ SpentOrLeft

\* Numbers a step is compared by.
LEMMA StepCounts ==
  ASSUME TypeOK, TypeOK', NEW m \in Msgs
  PROVE  /\ delivered[m] \in Nat /\ delivered'[m] \in Nat
         /\ Chances(m) \in Nat /\ Chances(m)' \in Nat
         /\ Allowed(m) \in Nat /\ Allowed(m)' \in Nat
         /\ nextId \in Nat /\ nextId' \in Nat
<1>1. /\ retries \in Nat /\ retries' \in Nat /\ faults \in Nat /\ faults' \in Nat
      /\ nextId \in Nat /\ nextId' \in Nat
  BY BoundsAssumption DEF TypeOK
<1>2. delivered[m] \in Nat /\ delivered'[m] \in Nat
  BY DEF TypeOK
<1>3. m \in Int
  BY DEF Msgs
<1>4. Allowed(m) \in Nat /\ Allowed(m)' \in Nat
  <2>1. Allowed(m) \in {retries + faults + 1, retries + faults + 0}
    BY <1>1, <1>3 DEF Allowed
  <2>2. Allowed(m)' \in {retries' + faults' + 1, retries' + faults' + 0}
    BY <1>1, <1>3 DEF Allowed
  <2>3. QED
    BY <1>1, <2>1, <2>2
<1>5. QED
  BY <1>1, <1>2, <1>4, ChancesAreNat

\* A step that neither delivers nor adds to what is ahead.
LEMMA QuietAllowed ==
  ASSUME TypeOK, TypeOK', NEW m \in Msgs, UNCHANGED <<nextId, delivered, retries>>,
         faults' >= faults, Reviving(m)' \subseteq Reviving(m),
         faults' = faults => (Ahead(m)' => Ahead(m)),
         faults' # faults => faults' = faults + 1
  PROVE  StepAllowed(m)
<1>1. Chances(m)' <= Chances(m) + 1
  BY NothingRevived
<1>2. faults' = faults => Chances(m)' <= Chances(m)
  BY NothingRevived
<1>3. faults \in Nat /\ retries \in Nat
  BY BoundsAssumption DEF TypeOK
<1>4. QED
  BY <1>1, <1>2, <1>3, StepCounts DEF StepAllowed, Allowed

LEMMA EnqueueAllowed ==
  ASSUME DupInv, TypeOK', NEW n \in 1..MaxMsgs, Enqueue(n), NEW m \in Msgs
  PROVE  StepAllowed(m)
<1>1. Reviving(m)' = Reviving(m) /\ WillConfirm(m)' = WillConfirm(m)
  BY DEF Enqueue, bot, Reviving, WillConfirm, AwaitsAck
<1>2. CASE m \in nextId..(nextId + n - 1)
  <2>1. Chances(m)' <= Chances(m) + 1
    BY <1>1, NothingRevived
  <2>2. m >= nextId /\ m < nextId' /\ m \in Int
    BY <1>2 DEF Enqueue, DupInv, TypeOK
  <2>3. UNCHANGED <<delivered, retries, faults>> /\ retries \in Nat /\ faults \in Nat
    BY BoundsAssumption DEF Enqueue, history, DupInv, TypeOK
  <2>4. Allowed(m)' = Allowed(m) + 1
    BY <2>2, <2>3, StepCounts DEF Allowed, DupInv
  <2>5. QED
    BY <2>1, <2>3, <2>4, StepCounts DEF StepAllowed, DupInv
<1>3. CASE m \notin nextId..(nextId + n - 1)
  <2>1. outbox'[m] = outbox[m]
    BY <1>3 DEF Enqueue
  <2>2. Ahead(m)' => Ahead(m)
    BY <1>1, <2>1 DEF Ahead, Enqueue, bot, AwaitsAck
  <2>3. Chances(m)' <= Chances(m)
    BY <1>1, <2>2, NothingRevived
  <2>4. m < nextId <=> m < nextId'
    <3>1. nextId \in Int /\ m \in Int /\ n \in Int
      BY DEF DupInv, TypeOK, Msgs
    <3>2. QED
      BY <1>3, <3>1 DEF Enqueue
  <2>5. UNCHANGED <<delivered, retries, faults>>
    BY DEF Enqueue, history
  <2>6. QED
    BY <2>3, <2>4, <2>5, StepCounts DEF StepAllowed, Allowed, DupInv
<1>4. QED
  BY <1>2, <1>3

LEMMA FetchAllowed ==
  ASSUME DupInv, TypeOK', Fetch, NEW m \in Msgs
  PROVE  StepAllowed(m)
<1>1. Reviving(m)' \subseteq Reviving(m)
  BY DEF Fetch, Reviving
<1>2. Ahead(m)' => Ahead(m)
  BY DEF Fetch, table, Ahead, AwaitsAck, WillConfirm, Page, Pending
<1>3. faults' = faults /\ faults \in Nat
  BY BoundsAssumption DEF Fetch, DupInv, TypeOK
<1>4. QED
  BY <1>1, <1>2, <1>3, QuietAllowed DEF Fetch, table, history, DupInv

\* A send uses the chance the page gave it; an unclear answer leaves another,
\* at the price of a fault.
LEMMA SendAllowed ==
  ASSUME DupInv, TypeOK', NEW ok \in BOOLEAN, NEW raised \in BOOLEAN, Send(ok, raised),
         ok \/ raised, faults' = IF ok /\ raised THEN faults + 1 ELSE faults,
         NEW m \in Msgs
  PROVE  StepAllowed(m)
<1>1. PICK k \in First(batch) :
        /\ cur' = k /\ batch' = batch \ {k}
        /\ delivered' = IF ok THEN [delivered EXCEPT ![k] = @ + 1] ELSE delivered
  BY DEF Send
<1>2. k \in Msgs /\ k \in batch
  BY DEF First, DupInv, TypeOK
<1>3. /\ verdict' = Report(raised) /\ pc = "send" /\ pc' = "ack"
      /\ UNCHANGED <<outbox, nextId, req, slot, retries>>
  BY DEF Send, table
<1>4. Reviving(m)' = Reviving(m)
  BY <1>3 DEF Reviving
<1>5. faults \in Nat /\ retries \in Nat
  BY BoundsAssumption DEF DupInv, TypeOK
<1>6. CASE m = k
  <2>1. Ahead(m)
    BY <1>2, <1>6 DEF Ahead
  <2>2. ~raised => ~Ahead(m)'
    BY <1>1, <1>3, <1>6 DEF Ahead, WillConfirm, Report
  <2>3. delivered'[m] = IF ok THEN delivered[m] + 1 ELSE delivered[m]
    BY <1>1, <1>2, <1>6 DEF DupInv, TypeOK
  <2>4. Chances(m)' <= Chances(m) /\ (~raised => Chances(m)' + 1 <= Chances(m))
    BY <1>4, <2>1, <2>2, NothingRevived
  <2>5. Allowed(m)' = Allowed(m) + (IF ok /\ raised THEN 1 ELSE 0)
    BY <1>3, <1>5, StepCounts DEF Allowed, DupInv
  <2>6. QED
    BY <2>3, <2>4, <2>5, StepCounts DEF StepAllowed, DupInv
<1>7. CASE m # k
  <2>1. Ahead(m)' => Ahead(m)
    BY <1>1, <1>3, <1>7 DEF Ahead, WillConfirm, AwaitsAck
  <2>2. delivered'[m] = delivered[m]
    BY <1>1, <1>7 DEF DupInv, TypeOK
  <2>3. Chances(m)' <= Chances(m)
    BY <1>4, <2>1, NothingRevived
  <2>4. Allowed(m)' >= Allowed(m)
    BY <1>3, <1>5, StepCounts DEF Allowed, DupInv
  <2>5. QED
    BY <2>2, <2>3, <2>4, StepCounts DEF StepAllowed, DupInv
<1>8. QED
  BY <1>6, <1>7

LEMMA PostAllowed ==
  ASSUME DupInv, TypeOK', NEW s \in AckSlots, PostAck(s), NEW m \in Msgs
  PROVE  StepAllowed(m)
<1>1. /\ req' = [req EXCEPT ![s] = Arrived(verdict, cur)]
      /\ pc' = "await" /\ slot' = s /\ pc = "ack"
      /\ UNCHANGED <<outbox, cur, verdict, batch>>
  BY DEF PostAck, table
<1>2. s \in Slots
  BY DEF Slots
<1>3. /\ req'[s].op = verdict /\ req'[s].msg = cur /\ req'[s].phase = "arrived"
      /\ verdict \in AckStatus
  BY <1>1, <1>2 DEF Arrived, DupInv, TypeOK
<1>4. \A t \in Slots \ {s} : req'[t] = req[t]
  BY <1>1 DEF DupInv, TypeOK
<1>5. Reviving(m)' \subseteq Reviving(m)
  BY <1>1, <1>3, <1>4 DEF Reviving, AckStatus
<1>6. Ahead(m)' => Ahead(m)
  BY <1>1, <1>3 DEF Ahead, WillConfirm, AwaitsAck, AckStatus
<1>7. faults' = faults /\ faults \in Nat
  BY BoundsAssumption DEF PostAck, DupInv, TypeOK
<1>8. QED
  BY <1>5, <1>6, <1>7, QuietAllowed DEF PostAck, table, history, DupInv

\* The bot turns to its next message: a confirmation that is not written yet
\* leaves its message ahead, a failure still in the backend may revive it.
LEMMA MovesOnAllowed ==
  ASSUME DupInv, TypeOK', AckReturned \/ AckLost \/ AckTimeout \/ BotCrash,
         NEW m \in Msgs
  PROVE  StepAllowed(m)
<1>1. /\ pc' \in {"poll", "send"} /\ batch' \subseteq batch
      /\ UNCHANGED <<outbox, nextId, req, cur, verdict, slot, delivered, retries>>
  BY DEF AckReturned, AckLost, AckTimeout, NextItem, BotCrash, table
<1>2. faults \in Nat
  BY BoundsAssumption DEF DupInv, TypeOK
<1>3. slot \in Slots
  BY DEF DupInv, TypeOK, Slots
<1>4. Ahead(m)' => m \in batch \/ outbox[m].status = "pending"
  BY <1>1 DEF Ahead, AwaitsAck
<1>5. CASE AckReturned
  <2>1. ~AwaitsAck /\ pc = "await"
    BY <1>5 DEF AckReturned, AwaitsAck
  <2>2. Reviving(m)' \subseteq Reviving(m)
    BY <1>1, <2>1 DEF Reviving, AwaitsAck
  <2>3. Ahead(m)' => Ahead(m)
    BY <1>4, <2>1 DEF Ahead, WillConfirm
  <2>4. faults' = faults
    BY <1>5 DEF AckReturned
  <2>5. QED
    BY <1>1, <1>2, <2>2, <2>3, <2>4, QuietAllowed DEF DupInv
<1>6. CASE AckLost \/ AckTimeout \/ BotCrash
  <2>1. faults' = faults + 1
    BY <1>6 DEF AckLost, AckTimeout, BotCrash
  <2>2. CASE verdict = "failed" /\ AwaitsAck
    <3>1. Reviving(m)' \subseteq Reviving(m) \cup {slot}
      BY <1>1, <2>2 DEF Reviving, AwaitsAck
    <3>2. Ahead(m)' => Ahead(m)
      BY <1>4, <2>2 DEF Ahead, WillConfirm
    <3>3. Chances(m)' <= Chances(m) + 1
      BY <3>1, <3>2, OneMoreRevives
    <3>4. Allowed(m)' = Allowed(m) + 1
      BY <1>1, <1>2, <2>1, BoundsAssumption DEF Allowed, DupInv, TypeOK
    <3>5. QED
      BY <1>1, <3>3, <3>4, StepCounts DEF StepAllowed, DupInv
  <2>3. CASE ~(verdict = "failed" /\ AwaitsAck)
    <3>1. ~(pc = "await" /\ req[slot].op = "failed")
      BY <2>3 DEF AwaitsAck, DupInv, OneAtATime
    <3>2. Reviving(m)' \subseteq Reviving(m)
      BY <1>1, <3>1 DEF Reviving
    <3>3. QED
      BY <1>1, <1>2, <2>1, <3>2, QuietAllowed DEF DupInv
  <2>4. QED
    BY <2>2, <2>3
<1>7. QED
  BY <1>5, <1>6

LEMMA AdminAllowed ==
  ASSUME DupInv, TypeOK', NEW a \in Admins, NEW op \in {"retry", "delete"},
         NEW k \in Msgs, AdminRequest(a, op, k), NEW m \in Msgs
  PROVE  StepAllowed(m)
<1>1. /\ req' = [req EXCEPT ![a] = Arrived(op, k)] /\ req[a].op = "none"
      /\ retries' = IF op = "retry" THEN retries + 1 ELSE retries
      /\ UNCHANGED <<outbox, nextId, pc, batch, cur, verdict, slot, delivered, faults>>
  BY DEF AdminRequest, table, bot, history
<1>2. a \in Slots /\ slot # a
  BY SlotsAssumption DEF DupInv, TypeOK, Slots
<1>3. /\ req'[a].op = op
      /\ \A t \in Slots \ {a} : req'[t] = req[t]
  BY <1>1, <1>2 DEF Arrived, DupInv, TypeOK
<1>4. req'[slot] = req[slot]
  BY <1>2, <1>3 DEF DupInv, TypeOK, Slots
<1>5. Ahead(m)' => Ahead(m)
  BY <1>1, <1>4 DEF Ahead, WillConfirm, AwaitsAck
<1>6. Reviving(m)' \subseteq Reviving(m) \cup {a}
  BY <1>1, <1>3 DEF Reviving
<1>7. op # "retry" => Reviving(m)' \subseteq Reviving(m)
  BY <1>1, <1>3 DEF Reviving
<1>8. retries \in Nat /\ faults \in Nat
  BY BoundsAssumption DEF DupInv, TypeOK
<1>9. CASE op = "retry"
  <2>1. Chances(m)' <= Chances(m) + 1
    BY <1>5, <1>6, OneMoreRevives
  <2>2. Allowed(m)' = Allowed(m) + 1
    BY <1>1, <1>8, <1>9, BoundsAssumption DEF Allowed, DupInv, TypeOK
  <2>3. QED
    BY <1>1, <2>1, <2>2, StepCounts DEF StepAllowed, DupInv
<1>10. CASE op # "retry"
  BY <1>1, <1>5, <1>7, <1>8, <1>10, QuietAllowed DEF DupInv
<1>11. QED
  BY <1>9, <1>10

LEMMA LoadAllowed ==
  ASSUME DupInv, TypeOK', NEW s \in Slots, Load(s), NEW m \in Msgs
  PROVE  StepAllowed(m)
<1>1. UNCHANGED <<outbox, nextId, bot, delivered, retries, faults>> /\ req[s].op # "none"
  BY DEF Load, table, history
<1>2. slot \in Slots /\ faults \in Nat
  BY BoundsAssumption DEF DupInv, TypeOK, Slots
<1>3. \A t \in Slots : req'[t].op # "none" =>
         req'[t].op = req[t].op /\ req'[t].msg = req[t].msg
  BY DEF Load, Finish, Idle, DupInv, TypeOK, Req
<1>4. Reviving(m)' \subseteq Reviving(m)
  BY <1>1, <1>3 DEF Reviving, bot
<1>5. ASSUME WillConfirm(m), outbox[m].status = "pending" PROVE WillConfirm(m)'
  <2>1. CASE pc = "ack" \/ slot # s
    <3>1. slot # s => req'[slot] = req[slot]
      BY <1>2 DEF Load, Finish, DupInv, TypeOK
    <3>2. QED
      BY <1>1, <1>5, <2>1, <3>1 DEF WillConfirm, AwaitsAck, bot
  <2>2. CASE pc # "ack" /\ slot = s
    <3>1. AwaitsAck /\ req[s].msg = m
      BY <1>5, <2>2 DEF WillConfirm, DupInv, OneAtATime
    <3>2. req' = [req EXCEPT ![s].phase = "loaded", ![s].snap = outbox[m]]
      BY <1>5, <3>1 DEF Load
    <3>3. req'[s].op = req[s].op /\ req'[s].snap = outbox[m]
      BY <3>2 DEF DupInv, TypeOK, Req
    <3>4. QED
      BY <1>1, <1>5, <2>2, <3>1, <3>3 DEF WillConfirm, AwaitsAck, bot
  <2>3. QED
    BY <2>1, <2>2
<1>6. AwaitsAck' => AwaitsAck
  BY <1>1, <1>2, <1>3 DEF AwaitsAck, bot
<1>7. Ahead(m)' => Ahead(m)
  BY <1>1, <1>5, <1>6 DEF Ahead, bot
<1>8. QED
  BY <1>1, <1>2, <1>4, <1>7, QuietAllowed DEF DupInv

\* A confirmation leaves pending only a row that was pending already, and only
\* if the handler's copy said "sent".
LEMMA ConfirmedPending ==
  ASSUME NEW snap \in Row, NEW row \in Row, Updated("sent", snap, row).status = "pending"
  PROVE  row.status = "pending" /\ snap.status = "sent"
<1>1. Handled("sent", snap) = AckedSent(snap)
  BY Zenon DEF Handled
<1>2. AckedSent(snap).status = "sent"
  BY DEF AckedSent, Row
<1>3. QED
  BY <1>1, <1>2 DEF Updated, Merge, NoRow

LEMMA CommitAllowed ==
  ASSUME DupInv, TypeOK', NEW s \in Slots, Commit(s), NEW m \in Msgs
  PROVE  StepAllowed(m)
<1>1. /\ UNCHANGED <<nextId, pc, batch, cur, verdict, slot, delivered, retries, faults>>
      /\ req[s].op \in Ops /\ req[s].phase = "loaded"
  BY DEF Commit, bot, history, DupInv, TypeOK, Req
<1>2. slot \in Slots /\ faults \in Nat
  BY BoundsAssumption DEF DupInv, TypeOK, Slots
<1>3. req'[s].op = "none" /\ \A t \in Slots \ {s} : req'[t] = req[t]
  BY DEF Commit, Finish, Idle, DupInv, TypeOK
<1>4. Reviving(m)' \subseteq Reviving(m) \ {s}
  BY <1>1, <1>3 DEF Reviving
<1>5. AwaitsAck' => AwaitsAck /\ slot # s /\ req'[slot] = req[slot]
  BY <1>1, <1>2, <1>3 DEF AwaitsAck
<1> DEFINE awaited == pc = "await" /\ slot = s
<1>6. awaited => AwaitsAck /\ req[s].op = verdict /\ req[s].msg = cur
  BY DEF AwaitsAck, DupInv, OneAtATime, Commit
<1>7. CASE m # req[s].msg
  <2>1. outbox'[m] = outbox[m]
    BY <1>7 DEF Commit, DupInv, TypeOK
  <2>2. WillConfirm(m) => WillConfirm(m)'
    BY <1>1, <1>2, <1>3, <1>6, <1>7 DEF WillConfirm, AwaitsAck
  <2>3. Ahead(m)' => Ahead(m)
    BY <1>1, <1>5, <2>1, <2>2 DEF Ahead
  <2>4. QED
    BY <1>1, <1>2, <1>4, <2>3, QuietAllowed DEF DupInv
<1>8. CASE m = req[s].msg /\ s \in Reviving(m)
  <2>1. Chances(m)' <= Chances(m)
    BY <1>4, <1>8, OneLessRevives
  <2>2. QED
    BY <1>1, <2>1, StepCounts DEF StepAllowed, Allowed, DupInv
<1>9. CASE m = req[s].msg /\ s \notin Reviving(m)
  <2>1. /\ req[s].op \in {"sent", "failed", "delete"}
        /\ req[s].op = "failed" => awaited
    BY <1>1, <1>9 DEF Reviving, Ops, AckStatus
  <2>2. outbox'[m] = Updated(req[s].op, req[s].snap, outbox[m])
    BY <1>9 DEF Commit, DupInv, TypeOK
  <2>3. req[s].snap \in Row /\ outbox[m] \in Row
    BY DEF DupInv, TypeOK, Req
  <2>4. CASE req[s].op = "failed"
    <3>1. Ahead(m)
      BY <1>6, <1>9, <2>1, <2>4 DEF Ahead
    <3>2. QED
      BY <1>1, <1>2, <1>4, <3>1, QuietAllowed DEF DupInv
  <2>5. CASE req[s].op = "delete"
    <3>1. outbox'[m].status = "absent"
      BY <2>2, <2>5 DEF Updated, NoRow
    <3>2. Ahead(m)' => Ahead(m)
      BY <1>1, <1>5, <3>1 DEF Ahead
    <3>3. QED
      BY <1>1, <1>2, <1>4, <3>2, QuietAllowed DEF DupInv
  <2>6. CASE req[s].op = "sent"
    <3>1. outbox'[m].status = "pending"
            => outbox[m].status = "pending" /\ req[s].snap.status = "sent"
      BY <2>2, <2>3, <2>6, ConfirmedPending
    <3>2. WillConfirm(m) => WillConfirm(m)' \/ outbox'[m].status # "pending"
      <4>1. CASE awaited
        BY <1>1, <3>1, <4>1 DEF WillConfirm
      <4>2. CASE ~awaited
        BY <1>1, <1>2, <1>3, <4>2 DEF WillConfirm, AwaitsAck
      <4>3. QED
        BY <4>1, <4>2
    <3>3. Ahead(m)' => Ahead(m)
      BY <1>1, <1>5, <3>1, <3>2 DEF Ahead
    <3>4. QED
      BY <1>1, <1>2, <1>4, <3>3, QuietAllowed DEF DupInv
  <2>7. QED
    BY <2>1, <2>4, <2>5, <2>6
<1>10. QED
  BY <1>7, <1>8, <1>9

LEMMA NextAllowed ==
  ASSUME DupInv, TypeOK', [Next]_vars, NEW m \in Msgs
  PROVE  StepAllowed(m)
<1>1. CASE SendOk \/ SendRejected \/ SendUnclear
  <2>1. \E ok, raised \in BOOLEAN :
          /\ Send(ok, raised) /\ (ok \/ raised)
          /\ faults' = IF ok /\ raised THEN faults + 1 ELSE faults
    BY <1>1 DEF SendOk, SendRejected, SendUnclear
  <2>2. QED
    BY <2>1, SendAllowed, Zenon
<1>2. CASE BackendCrash
  <2>1. Reviving(m)' \subseteq Reviving(m)
    BY <1>2 DEF BackendCrash, Reviving, Idle
  <2>2. faults' = faults + 1 /\ faults \in Nat
    BY <1>2, BoundsAssumption DEF BackendCrash, DupInv, TypeOK
  <2>3. QED
    BY <1>2, <2>1, <2>2, QuietAllowed DEF BackendCrash, table, history, DupInv
<1>3. CASE UNCHANGED vars
  <2>1. Reviving(m)' = Reviving(m) /\ (Ahead(m)' => Ahead(m))
    BY <1>3 DEF vars, Reviving, Ahead, WillConfirm, AwaitsAck
  <2>2. faults \in Nat
    BY BoundsAssumption DEF DupInv, TypeOK
  <2>3. QED
    BY <1>3, <2>1, <2>2, QuietAllowed DEF vars, DupInv
<1>4. ASSUME NEW n \in 1..MaxMsgs, Enqueue(n) PROVE StepAllowed(m)
  BY <1>4, EnqueueAllowed
<1>5. ASSUME NEW s \in AckSlots, PostAck(s) PROVE StepAllowed(m)
  BY <1>5, PostAllowed
<1>6. ASSUME NEW a \in Admins, NEW op \in {"retry", "delete"}, NEW k \in Msgs,
             AdminRequest(a, op, k)
      PROVE  StepAllowed(m)
  BY <1>6, AdminAllowed
<1>7. ASSUME NEW s \in Slots, Load(s) PROVE StepAllowed(m)
  BY <1>7, LoadAllowed
<1>8. ASSUME NEW s \in Slots, Commit(s) PROVE StepAllowed(m)
  BY <1>8, CommitAllowed
<1>9. QED
  BY <1>1, <1>2, <1>3, <1>4, <1>5, <1>6, <1>7, <1>8, FetchAllowed, MovesOnAllowed
  DEF Next

\* A recipient sees a message at most once, plus once for every retry and
\* every fault.
THEOREM DuplicatesAreExplained == Spec => []DuplicatesExplained
<1>1. Init => DupInv
  <2> SUFFICES ASSUME Init PROVE DupInv
    OBVIOUS
  <2>1. TypeOK
    BY InitTypeOK
  <2>2. OneAtATime
    BY DEF Init, OneAtATime, AwaitsAck, Idle, Slots
  <2>3. ASSUME NEW m \in Msgs PROVE delivered[m] + Chances(m) <= Allowed(m)
    <3>1. Reviving(m) = {}
      BY DEF Init, Reviving, Idle
    <3>2. ~Ahead(m)
      BY DEF Init, Ahead, NoRow
    <3>3. Chances(m) = 0
      BY <3>1, <3>2, FS_EmptySet DEF Chances
    <3>4. delivered[m] = 0 /\ retries = 0 /\ faults = 0 /\ nextId = 1 /\ m \in Int
      BY DEF Init, Msgs
    <3>5. Allowed(m) \in {0, 1}
      BY <3>4 DEF Allowed
    <3>6. QED
      BY <3>3, <3>4, <3>5
  <2>4. QED
    BY <2>1, <2>2, <2>3 DEF DupInv, SpentOrLeft
<1>2. DupInv /\ [Next]_vars => DupInv'
  <2> SUFFICES ASSUME DupInv, [Next]_vars PROVE DupInv'
    OBVIOUS
  <2>1. TypeOK' /\ OneAtATime'
    BY NextTypeOK, NextOneAtATime DEF DupInv
  <2>2. ASSUME NEW m \in Msgs PROVE delivered'[m] + Chances(m)' <= Allowed(m)'
    <3>1. StepAllowed(m) /\ delivered[m] + Chances(m) <= Allowed(m)
      BY <2>1, NextAllowed DEF DupInv, SpentOrLeft
    <3>2. QED
      BY <2>1, <3>1, StepCounts DEF StepAllowed, DupInv
  <2>3. QED
    BY <2>1, <2>2 DEF DupInv, SpentOrLeft
<1>3. DupInv => DuplicatesExplained
  <2> SUFFICES ASSUME DupInv, NEW m \in Msgs PROVE delivered[m] <= 1 + retries + faults
    BY DEF DuplicatesExplained
  <2>1. delivered[m] + Chances(m) <= Allowed(m) /\ Chances(m) \in Nat
    BY ChancesAreNat DEF DupInv, SpentOrLeft
  <2>2. delivered[m] \in Nat /\ retries \in Nat /\ faults \in Nat /\ nextId \in Int
    BY BoundsAssumption DEF DupInv, TypeOK
  <2>3. Allowed(m) \in {retries + faults, retries + faults + 1}
    BY <2>2 DEF Allowed, Msgs
  <2>4. QED
    BY <2>1, <2>2, <2>3
<1>4. QED
  BY <1>1, <1>2, <1>3, PTL DEF Spec

-----------------------------------------------------------------------------
(***************************************************************************)
(* While no acknowledgement has outlived the bot's wait for it, a failure  *)
(* is only ever reported about a row that is not marked sent: the page was *)
(* read while the row was pending, and between the page and the commit of  *)
(* the report no other acknowledgement is in the backend.                  *)
(***************************************************************************)
NoLateAck ==
  ~late =>
    /\ \A m \in batch : outbox[m].status # "sent"
    /\ \A s \in AckSlots : req[s].op # "none" => pc = "await" /\ slot = s
    /\ verdict = "failed" /\ (pc = "ack" \/ AwaitsAck) => outbox[cur].status # "sent"

FinalInv == TypeOK /\ OneAtATime /\ KnownRows /\ NoLateAck

\* The backend gets on with a request: which rows are marked sent stays as it
\* is, but for the confirmation the bot is waiting for.
LEMMA BackendKeepsNoLateAck ==
  ASSUME TypeOK, OneAtATime, NoLateAck, UNCHANGED <<bot, late>>,
         \A s \in Slots : req[s].op = "none" => req'[s].op = "none",
         \A m \in Msgs : outbox'[m].status = "sent"
            => \/ outbox[m].status = "sent"
               \/ AwaitsAck /\ verdict = "sent" /\ cur = m
  PROVE  NoLateAck'
<1>1. AckSlots \subseteq Slots /\ slot \in AckSlots /\ batch \subseteq Msgs /\ cur \in Msgs
  BY DEF Slots, TypeOK
<1>2. AwaitsAck' => AwaitsAck
  BY <1>1 DEF AwaitsAck, bot
<1>3. AwaitsAck => cur \notin batch /\ pc = "await"
  BY DEF AwaitsAck, OneAtATime
<1>4. QED
  BY <1>1, <1>2, <1>3 DEF NoLateAck, bot

LEMMA NextNoLateAck == FinalInv /\ [Next]_vars => NoLateAck'
<1> SUFFICES ASSUME FinalInv, [Next]_vars PROVE NoLateAck'
  OBVIOUS
<1> USE DEF FinalInv
<1>1. ASSUME NEW n \in 1..MaxMsgs, Enqueue(n) PROVE NoLateAck'
  <2>1. \A m \in Msgs : outbox'[m] \in {outbox[m], FreshRow}
    BY <1>1 DEF Enqueue
  <2>2. \A m \in Msgs : outbox'[m].status = "sent" => outbox[m].status = "sent"
    BY <2>1 DEF FreshRow
  <2>3. QED
    BY <1>1, <2>2, BackendKeepsNoLateAck DEF Enqueue, history
<1>2. ASSUME Fetch PROVE NoLateAck'
  BY <1>2 DEF Fetch, table, history, NoLateAck, AwaitsAck, Page, Pending
<1>3. ASSUME NEW ok \in BOOLEAN, NEW raised \in BOOLEAN, Send(ok, raised)
      PROVE  NoLateAck'
  <2>1. PICK m \in First(batch) : cur' = m /\ batch' = batch \ {m}
    BY <1>3 DEF Send
  <2>2. m \in batch
    BY DEF First
  <2>3. QED
    BY <1>3, <2>1, <2>2 DEF Send, table, NoLateAck
<1>4. ASSUME SendOk \/ SendRejected \/ SendUnclear PROVE NoLateAck'
  <2>1. \E ok, raised \in BOOLEAN : Send(ok, raised)
    BY <1>4 DEF SendOk, SendRejected, SendUnclear
  <2>2. QED
    BY <1>3, <2>1, Zenon
<1>5. ASSUME NEW s \in AckSlots, PostAck(s) PROVE NoLateAck'
  <2>1. \A t \in AckSlots \ {s} : req'[t] = req[t]
    BY <1>5 DEF PostAck, TypeOK, Slots
  <2>2. /\ pc = "ack" /\ pc' = "await" /\ slot' = s
        /\ UNCHANGED <<outbox, batch, cur, verdict, late>>
    BY <1>5 DEF PostAck, table, history
  <2>3. QED
    BY <2>1, <2>2 DEF NoLateAck
<1>6. ASSUME AckReturned \/ AckLost PROVE NoLateAck'
  <2>1. /\ pc' \in {"poll", "send"} /\ UNCHANGED <<outbox, req, batch, late>>
        /\ pc = "await" => req[slot].op = "none"
    BY <1>6 DEF AckReturned, AckLost, NextItem, table
  <2>2. QED
    BY <2>1 DEF NoLateAck, AwaitsAck
<1>7. ASSUME AckTimeout PROVE NoLateAck'
  BY <1>7 DEF AckTimeout, NoLateAck
<1>8. ASSUME BotCrash PROVE NoLateAck'
  <2>1. /\ pc' = "poll" /\ batch' = {} /\ UNCHANGED <<outbox, req, slot>>
        /\ late' = (late \/ (pc = "await" /\ req[slot].op # "none"))
    BY <1>8 DEF BotCrash, table
  <2>2. QED
    BY <2>1 DEF NoLateAck, AwaitsAck
<1>9. ASSUME NEW a \in Admins, NEW op \in {"retry", "delete"}, NEW m \in Msgs,
             AdminRequest(a, op, m)
      PROVE  NoLateAck'
  <2>1. \A t \in AckSlots : req'[t] = req[t]
    BY <1>9, SlotsAssumption DEF AdminRequest, TypeOK, Slots
  <2>2. slot \in AckSlots
    BY DEF TypeOK
  <2>3. QED
    BY <1>9, <2>1, <2>2 DEF AdminRequest, table, bot, history, NoLateAck, AwaitsAck
<1>10. ASSUME NEW s \in Slots, Load(s) PROVE NoLateAck'
  <2>1. \A t \in Slots : req[t].op = "none" => req'[t].op = "none"
    BY <1>10 DEF Load, Finish, Idle, TypeOK
  <2>2. QED
    BY <1>10, <2>1, BackendKeepsNoLateAck DEF Load, table, history
<1>11. ASSUME NEW s \in Slots, Commit(s) PROVE NoLateAck'
  <2>1. \A t \in Slots : req[t].op = "none" => req'[t].op = "none"
    BY <1>11 DEF Commit, Finish, Idle, TypeOK
  <2>2. req[s].op \in Ops /\ req[s].snap \in Row /\ req[s].msg \in Msgs
    BY <1>11 DEF Commit, TypeOK, Req
  <2>3. ASSUME NEW m \in Msgs, outbox'[m].status = "sent", outbox[m].status # "sent", ~late
        PROVE  AwaitsAck /\ verdict = "sent" /\ cur = m
    <3>1. m = req[s].msg
      BY <1>11, <2>3 DEF Commit, TypeOK
    <3>2. outbox'[m] = Updated(req[s].op, req[s].snap, outbox[m])
      BY <1>11, <3>1 DEF Commit, TypeOK
    <3>3. req[s].op = "sent"
      BY <2>2, <2>3, <3>2, BecomesSent DEF TypeOK
    <3>4. s \in AckSlots
      BY <3>3 DEF OneAtATime, Slots
    <3>5. pc = "await" /\ slot = s
      BY <2>3, <3>3, <3>4 DEF NoLateAck
    <3>6. QED
      BY <3>1, <3>3, <3>5 DEF AwaitsAck, OneAtATime
  <2>4. CASE late
    BY <1>11, <2>4 DEF Commit, history, NoLateAck
  <2>5. CASE ~late
    BY <1>11, <2>1, <2>3, <2>5, BackendKeepsNoLateAck DEF Commit, history
  <2>6. QED
    BY <2>4, <2>5
<1>12. ASSUME BackendCrash PROVE NoLateAck'
  BY <1>12, BackendKeepsNoLateAck DEF BackendCrash, Idle, table, history
<1>13. CASE UNCHANGED vars
  BY <1>13 DEF vars, NoLateAck, AwaitsAck
<1>14. QED
  BY <1>1, <1>2, <1>4, <1>5, <1>6, <1>7, <1>8, <1>9, <1>10, <1>11, <1>12, <1>13
  DEF Next

\* A confirmation or a failure the bot waits for leaves a sent row sent.
LEMMA AckKeepsSent ==
  ASSUME FinalInv, ~late, NEW s \in AckSlots, Commit(s), NEW m \in Msgs,
         outbox[m].status = "sent"
  PROVE  outbox'[m].status = "sent"
<1>1. s \in Slots /\ req[s].op # "none"
  BY DEF Slots, Commit
<1>2. CASE m # req[s].msg
  BY <1>2 DEF Commit, FinalInv, TypeOK
<1>3. CASE m = req[s].msg
  <2>1. pc = "await" /\ slot = s
    BY <1>1 DEF FinalInv, NoLateAck
  <2>2. req[s].op = verdict /\ cur = m
    BY <1>1, <1>3, <2>1 DEF FinalInv, OneAtATime, AwaitsAck
  <2>3. verdict # "failed"
    BY <1>1, <2>1, <2>2 DEF FinalInv, NoLateAck, AwaitsAck
  <2>4. req[s].op = "sent"
    BY <2>2, <2>3 DEF FinalInv, TypeOK, AckStatus
  <2>5. outbox'[m] = Updated("sent", req[s].snap, outbox[m])
    BY <1>3, <2>4 DEF Commit, FinalInv, TypeOK
  <2>6. Handled("sent", req[s].snap).status = "sent"
    <3>1. req[s].snap \in Row
      BY <1>1 DEF FinalInv, TypeOK, Req
    <3>2. Handled("sent", req[s].snap) = AckedSent(req[s].snap)
      BY Zenon DEF Handled
    <3>3. QED
      BY <3>1, <3>2 DEF AckedSent, Row
  <2>7. QED
    BY <2>5, <2>6 DEF Updated, Merge
<1>4. QED
  BY <1>2, <1>3

\* No acknowledgement takes a delivery back unless one has outlived the bot's
\* wait for it.
THEOREM SentStaysSent == Spec => SentIsFinalForBot
<1>1. Init => FinalInv
  BY InitTypeOK
  DEF Init, FinalInv, OneAtATime, AwaitsAck, KnownRows, NoLateAck, Idle, NoRow, Slots
<1>2. FinalInv /\ [Next]_vars => FinalInv'
  BY NextTypeOK, NextOneAtATime, NextKnownRows, NextNoLateAck DEF FinalInv
<1> DEFINE Final ==
      \A m \in Msgs :
        ~late /\ outbox[m].status = "sent" /\ outbox'[m].status # "sent"
          => \E a \in Admins : /\ req[a].msg = m /\ req[a].phase = "loaded"
                               /\ req'[a].op = "none"
<1>3. FinalInv /\ [Next]_vars => [Final]_vars
  <2> SUFFICES ASSUME FinalInv, [Next]_vars, NEW m \in Msgs, ~late,
                      outbox[m].status = "sent", outbox'[m].status # "sent"
               PROVE  \E a \in Admins : /\ req[a].msg = m /\ req[a].phase = "loaded"
                                        /\ req'[a].op = "none"
    BY Zenon
  <2>1. ASSUME NEW n \in 1..MaxMsgs, Enqueue(n) PROVE FALSE
    <3>1. m < nextId
      BY DEF FinalInv, KnownRows, TypeOK, Msgs
    <3>2. outbox'[m] = outbox[m]
      BY <2>1, <3>1 DEF Enqueue, Msgs, FinalInv, TypeOK
    <3>3. QED
      BY <3>2
  <2>2. PICK s \in Slots : Commit(s)
    <3>1. outbox' # outbox
      OBVIOUS
    <3>2. QED
      BY <2>1, <3>1 DEF Next, Fetch, SendOk, SendRejected, SendUnclear, Send, PostAck,
         AckReturned, AckLost, AckTimeout, NextItem, BotCrash, AdminRequest, Load,
         BackendCrash, table, vars
  <2>3. s \in Admins
    BY <2>2, AckKeepsSent DEF Slots
  <2>4. req[s].msg = m
    BY <2>2 DEF Commit, FinalInv, TypeOK
  <2>5. QED
    BY <2>2, <2>3, <2>4 DEF Commit, Finish, Idle, FinalInv, TypeOK
<1>4. QED
  BY <1>1, <1>2, <1>3, PTL DEF Spec, SentIsFinalForBot
=============================================================================
