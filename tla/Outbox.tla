------------------------------- MODULE Outbox -------------------------------
(***************************************************************************)
(* The outbox queue of Telegram messages: the table `outbox', the bot's    *)
(* poller that empties it over HTTP, the backend handlers that answer it,  *)
(* the administrator's retry and delete, and the producers that fill it.   *)
(*                                                                         *)
(* A backend request is two steps, because the ORM reads a row in one      *)
(* statement and writes it at commit: Load keeps a private copy of the     *)
(* row, Commit emits an UPDATE of the columns the handler changed in that  *)
(* copy and of no other (READ COMMITTED, no row lock, no version column).  *)
(* The bot is one task: it handles one message at a time and waits for the *)
(* answer of each acknowledgement, but never reads it.                     *)
(***************************************************************************)
EXTENDS Integers, FiniteSets

CONSTANTS
  MaxMsgs,       \* bound: rows ever inserted; ids grow with created_at
  Limit,         \* page size of GET /outbox (50 in the code)
  MaxAttempts,   \* failed acknowledgements before the row is given up (3)
  AckSlots,      \* acknowledgement requests the backend may be working on
  Admins,        \* administrators, each with one request at a time
  MaxRetries,    \* bound: retry requests issued
  MaxFaults      \* bound: crashes, lost, late and misreported calls

ASSUME BoundsAssumption ==
  /\ MaxMsgs \in Nat \ {0} /\ Limit \in Nat \ {0}
  /\ MaxAttempts \in Nat \ {0}
  /\ MaxRetries \in Nat /\ MaxFaults \in Nat
ASSUME SlotsAssumption ==
  IsFiniteSet(AckSlots) /\ IsFiniteSet(Admins) /\ AckSlots \cap Admins = {}

VARIABLES
  outbox,     \* the table; a row that does not exist has status "absent"
  nextId,     \* the id the next inserted row takes
  req,        \* the backend requests in progress, by slot
  pc,         \* where the bot's outbox_loop is
  batch,      \* items of the fetched page still to be sent
  cur,        \* the message being sent or acknowledged
  verdict,    \* what the bot will report about cur
  slot,       \* the acknowledgement the bot is waiting for
  delivered,  \* history: times Telegram accepted each message
  failures,   \* history: sends of each message that raised in the bot
  late,       \* history: has an acknowledgement outlived the bot's wait for it?
  retries,    \* bound counter: retry requests issued
  faults      \* bound counter: faults so far

table == <<outbox, nextId>>
bot == <<pc, batch, cur, verdict, slot>>
history == <<delivered, failures, late>>
vars == <<outbox, nextId, req, pc, batch, cur, verdict, slot,
          delivered, failures, late, retries, faults>>

Msgs == 1..MaxMsgs
Slots == AckSlots \cup Admins
AckStatus == {"sent", "failed"}
Ops == AckStatus \cup {"retry", "delete"}

Row == [status : {"absent", "pending", "sent", "failed"},
        cnt    : Nat,        \* attempt_count
        sentAt : BOOLEAN]    \* is sent_at set?
NoRow == [status |-> "absent", cnt |-> 0, sentAt |-> FALSE]
FreshRow == [status |-> "pending", cnt |-> 0, sentAt |-> FALSE]

Req == [op : Ops \cup {"none"}, msg : Msgs,
        phase : {"arrived", "loaded"}, snap : Row]
Idle == [op |-> "none", msg |-> 1, phase |-> "arrived", snap |-> NoRow]
Arrived(op, m) == [op |-> op, msg |-> m, phase |-> "arrived", snap |-> NoRow]

\* Mutation: the query forgets WHERE status = 'pending'.
AnyRow == {m \in Msgs : outbox[m].status # "absent"}
Pending == {m \in Msgs : outbox[m].status = "pending"}
First(S) == {m \in S : \A n \in S : m <= n}

\* SELECT ... WHERE status = 'pending' ORDER BY created_at LIMIT Limit.
Page == {m \in Pending : Cardinality({n \in Pending : n < m}) < Limit}

Init ==
  /\ outbox = [m \in Msgs |-> NoRow] /\ nextId = 1
  /\ req = [s \in Slots |-> Idle]
  /\ pc = "poll" /\ batch = {} /\ cur = 1 /\ verdict = "sent"
  /\ slot \in AckSlots
  /\ delivered = [m \in Msgs |-> 0] /\ failures = [m \in Msgs |-> 0]
  /\ late = FALSE /\ retries = 0 /\ faults = 0

(***************************************************************************)
(* Producers: a test notification, an administrator's message or broadcast *)
(* and the digest insert one or several pending rows in one transaction.   *)
(***************************************************************************)
Enqueue(n) ==
  /\ nextId + n - 1 <= MaxMsgs
  /\ outbox' = [m \in Msgs |->
                  IF m \in nextId..(nextId + n - 1) THEN FreshRow ELSE outbox[m]]
  /\ nextId' = nextId + n
  /\ UNCHANGED <<req, bot, history, retries, faults>>

(***************************************************************************)
(* The bot.                                                                *)
(***************************************************************************)
Fetch ==
  /\ pc = "poll" /\ Page # {}
  /\ pc' = "send" /\ batch' = Page
  /\ UNCHANGED <<table, req, cur, verdict, slot, history, retries, faults>>

\* Mutation: the exception is swallowed and the message acknowledged as sent.
ReportSent(raised) == "sent"
Report(raised) == IF raised THEN "failed" ELSE "sent"

\* Telegram's answer decides what is reported; ok tells whether the message
\* was accepted, raised whether send_message raised.  Accepted and raised is
\* the answer lost on its way back.
Send(ok, raised) ==
  /\ pc = "send"
  /\ \E m \in First(batch) :
       /\ cur' = m
       /\ batch' = batch \ {m}
       /\ delivered' = IF ok THEN [delivered EXCEPT ![m] = @ + 1] ELSE delivered
       /\ failures' = IF raised THEN [failures EXCEPT ![m] = @ + 1] ELSE failures
  /\ verdict' = Report(raised)
  /\ pc' = "ack"
  /\ UNCHANGED <<table, req, slot, late, retries>>

SendOk == Send(TRUE, FALSE) /\ UNCHANGED faults
SendRejected == Send(FALSE, TRUE) /\ UNCHANGED faults
SendUnclear == /\ faults < MaxFaults /\ faults' = faults + 1
               /\ Send(TRUE, TRUE)

\* Slots are alike: the request takes the first that is free.
PostAck(s) ==
  /\ pc = "ack" /\ req[s].op = "none"
  /\ s = CHOOSE t \in AckSlots : req[t].op = "none"
  /\ req' = [req EXCEPT ![s] = Arrived(verdict, cur)]
  /\ slot' = s /\ pc' = "await"
  /\ UNCHANGED <<table, batch, cur, verdict, history, retries, faults>>

NextItem ==
  /\ pc' = IF batch = {} THEN "poll" ELSE "send"
  /\ UNCHANGED <<table, batch, cur, verdict, slot, delivered, failures, retries>>

\* Mutation: the bot goes on only once its confirmation has taken effect.
AckInsists ==
  /\ pc = "await" /\ req[slot].op = "none"
  /\ verdict = "sent" => outbox[cur].status # "pending"
  /\ NextItem /\ UNCHANGED <<req, late, faults>>

\* The call returned: the answer's status is not looked at.
AckReturned ==
  /\ pc = "await" /\ req[slot].op = "none"
  /\ NextItem /\ UNCHANGED <<req, late, faults>>

\* The call never reached the backend: RequestError is logged and swallowed.
AckLost ==
  /\ pc = "ack" /\ faults < MaxFaults
  /\ faults' = faults + 1
  /\ NextItem /\ UNCHANGED <<req, late>>

\* The client's timeout: the bot goes on, the handler may still finish.
AckTimeout ==
  /\ pc = "await" /\ req[slot].op # "none" /\ faults < MaxFaults
  /\ faults' = faults + 1 /\ late' = TRUE
  /\ NextItem /\ UNCHANGED req

BotCrash ==
  /\ pc # "poll" /\ faults < MaxFaults
  /\ faults' = faults + 1
  /\ late' = (late \/ (pc = "await" /\ req[slot].op # "none"))
  /\ pc' = "poll" /\ batch' = {}
  /\ UNCHANGED <<table, req, cur, verdict, slot, delivered, failures, retries>>

(***************************************************************************)
(* The backend.                                                            *)
(***************************************************************************)
AdminRequest(a, op, m) ==
  /\ req[a].op = "none" /\ m < nextId
  /\ op = "retry" => retries < MaxRetries
  /\ req' = [req EXCEPT ![a] = Arrived(op, m)]
  /\ retries' = IF op = "retry" THEN retries + 1 ELSE retries
  /\ UNCHANGED <<table, bot, history, faults>>

Finish(s) == req' = [req EXCEPT ![s] = Idle]

\* SELECT ... WHERE id = msg_id: no row ends the request (204 for an
\* acknowledgement, 404 for an administrator).
Load(s) ==
  /\ req[s].op # "none" /\ req[s].phase = "arrived"
  /\ LET row == outbox[req[s].msg] IN
       IF row.status = "absent"
         THEN Finish(s)
         ELSE req' = [req EXCEPT ![s].phase = "loaded", ![s].snap = row]
  /\ UNCHANGED <<table, bot, history, retries, faults>>

\* Mutation: one attempt too few.
GivesUpEarly(cnt) == cnt + 1 >= MaxAttempts
GivesUp(cnt) == cnt >= MaxAttempts

Reset(row) == [row EXCEPT !.status = "pending", !.cnt = 0, !.sentAt = FALSE]

AckedSent(row) == [row EXCEPT !.status = "sent", !.sentAt = TRUE]
AckedFailed(row) ==
  IF GivesUp(row.cnt + 1)
    THEN [row EXCEPT !.status = "failed", !.cnt = @ + 1]
    ELSE [status |-> "pending", cnt |-> row.cnt + 1, sentAt |-> FALSE]

\* What the handler leaves in its copy of the row.
Handled(op, row) ==
  CASE op = "sent"   -> AckedSent(row)
    [] op = "failed" -> AckedFailed(row)
    [] op = "retry"  -> Reset(row)
    [] OTHER         -> NoRow

\* UPDATE of the columns that differ from the copy that was read.  The time
\* an acknowledgement writes is always new, so sent_at always differs there.
Merge(op, snap, row) ==
  LET new == Handled(op, snap) IN
  [status |-> IF new.status # snap.status THEN new.status ELSE row.status,
   cnt    |-> IF new.cnt # snap.cnt THEN new.cnt ELSE row.cnt,
   sentAt |-> IF op = "sent" \/ new.sentAt # snap.sentAt
                THEN new.sentAt ELSE row.sentAt]

\* Mutation: the update inserts the row when it is gone.
Upserted(op, snap, row) == IF op = "delete" THEN NoRow ELSE Merge(op, snap, row)
\* No row to update any more: StaleDataError, the request ends in a 500.
Updated(op, snap, row) ==
  IF op = "delete" \/ row.status = "absent" THEN NoRow ELSE Merge(op, snap, row)

Commit(s) ==
  /\ req[s].op # "none" /\ req[s].phase = "loaded"
  /\ LET m == req[s].msg IN
       outbox' = [outbox EXCEPT ![m] = Updated(req[s].op, req[s].snap, @)]
  /\ Finish(s)
  /\ UNCHANGED <<nextId, bot, history, retries, faults>>

\* Open transactions are rolled back, their requests are gone.
BackendCrash ==
  /\ \E s \in Slots : req[s].op # "none"
  /\ faults < MaxFaults /\ faults' = faults + 1
  /\ req' = [s \in Slots |-> Idle]
  /\ UNCHANGED <<table, bot, history, retries>>

Next ==
  \/ \E n \in 1..MaxMsgs : Enqueue(n)
  \/ Fetch
  \/ SendOk
  \/ SendRejected
  \/ SendUnclear
  \/ \E s \in AckSlots : PostAck(s)
  \/ AckReturned
  \/ AckLost
  \/ AckTimeout
  \/ BotCrash
  \/ \E a \in Admins, op \in {"retry", "delete"}, m \in Msgs :
        AdminRequest(a, op, m)
  \/ \E s \in Slots : Load(s)
  \/ \E s \in Slots : Commit(s)
  \/ BackendCrash

Spec == Init /\ [][Next]_vars

\* The event loops of the bot and of the backend keep running what is ready;
\* nobody is obliged to enqueue, to fail or to press a button.
Fairness ==
  /\ WF_vars(Fetch)
  /\ WF_vars(SendOk \/ SendRejected)
  /\ WF_vars(\E s \in AckSlots : PostAck(s))
  /\ WF_vars(AckReturned)
  /\ \A s \in Slots : WF_vars(Load(s)) /\ WF_vars(Commit(s))

FairSpec == Spec /\ Fairness

-----------------------------------------------------------------------------
\* Every variable keeps to its columns' and its loop's values.
TypeOK ==
  /\ outbox \in [Msgs -> Row] /\ nextId \in 1..(MaxMsgs + 1)
  /\ req \in [Slots -> Req]
  /\ pc \in {"poll", "send", "ack", "await"}
  /\ batch \subseteq Msgs /\ (pc = "send" => batch # {})
  /\ cur \in Msgs /\ verdict \in AckStatus /\ slot \in AckSlots
  /\ delivered \in [Msgs -> Nat] /\ failures \in [Msgs -> Nat]
  /\ late \in BOOLEAN /\ retries \in 0..MaxRetries /\ faults \in 0..MaxFaults

\* A row marked sent was accepted by Telegram at least once, whatever
\* requests overtook one another (ack_outbox never checks the row's status).
SentWasDelivered ==
  \A m \in Msgs : outbox[m].status = "sent" => delivered[m] > 0

\* A row is given up only after MaxAttempts sends of it really failed
\* (ack_outbox counts in a copy that may be stale).
GivenUpAfterAttempts ==
  \A m \in Msgs : outbox[m].status = "failed" => failures[m] >= MaxAttempts

\* A recipient sees a message again only because an administrator retried it
\* or something failed between Telegram's answer and the backend's commit.
DuplicatesExplained ==
  \A m \in Msgs : delivered[m] <= 1 + retries + faults

\* Once marked sent, a message leaves that status only by an administrator's
\* commit: no acknowledgement takes a delivery back, as long as none has
\* outlived the bot's wait for it.
SentIsFinalForBot ==
  [][\A m \in Msgs :
       ~late /\ outbox[m].status = "sent" /\ outbox'[m].status # "sent"
         => \E a \in Admins : /\ req[a].msg = m /\ req[a].phase = "loaded"
                              /\ req'[a].op = "none"]_vars

\* Every pending message is in the end sent, given up or removed.
EveryMessageSettles ==
  \A m \in Msgs : outbox[m].status = "pending" ~> outbox[m].status # "pending"

\* The stage of a message in the eyes of its users.
StageOf == [absent |-> "removed", pending |-> "queued",
            sent |-> "sent", failed |-> "failed"]
Stage(m) == IF m < nextId THEN StageOf[outbox[m].status] ELSE "new"
Promise == INSTANCE Delivery WITH stage <- [m \in Msgs |-> Stage(m)]

\* The queue implements at-least-once delivery: every step of poller, handlers
\* and administrators is a step of Delivery or leaves its state alone.
ImplementsDelivery == Promise!Spec
=============================================================================
