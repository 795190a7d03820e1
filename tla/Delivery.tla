------------------------------ MODULE Delivery ------------------------------
(***************************************************************************)
(* What the outbox promises its users, with no poller, request or row:     *)
(* at-least-once delivery.  A queued message is confirmed only if Telegram *)
(* has accepted it, given up only after MaxAttempts failed sends, and a    *)
(* removed message never comes back.                                       *)
(***************************************************************************)
EXTENDS Integers

CONSTANTS Msgs, MaxAttempts

VARIABLES
  stage,      \* "new", "queued", "sent", "failed" or "removed"
  delivered,  \* times Telegram accepted the message
  failures    \* sends of it that failed

vars == <<stage, delivered, failures>>

Init ==
  /\ stage = [m \in Msgs |-> "new"]
  /\ delivered = [m \in Msgs |-> 0]
  /\ failures = [m \in Msgs |-> 0]

\* One transaction may queue several messages.
Accept(S) ==
  /\ \A m \in S : stage[m] = "new"
  /\ stage' = [m \in Msgs |-> IF m \in S THEN "queued" ELSE stage[m]]
  /\ UNCHANGED <<delivered, failures>>

\* A message taken from the queue may be sent although it has been removed
\* since; it is never sent before it was queued.
Attempt(m, accepted, failed) ==
  /\ stage[m] # "new"
  /\ delivered' = IF accepted THEN [delivered EXCEPT ![m] = @ + 1] ELSE delivered
  /\ failures' = IF failed THEN [failures EXCEPT ![m] = @ + 1] ELSE failures
  /\ UNCHANGED stage

Move(m, from, to) ==
  /\ stage[m] \in from
  /\ stage' = [stage EXCEPT ![m] = to]
  /\ UNCHANGED <<delivered, failures>>

Confirm(m) == delivered[m] > 0 /\ Move(m, {"queued", "failed"}, "sent")
GiveUp(m) == failures[m] >= MaxAttempts /\ Move(m, {"queued", "sent"}, "failed")
Requeue(m) == Move(m, {"sent", "failed"}, "queued")
Remove(m) == Move(m, {"queued", "sent", "failed"}, "removed")

Next ==
  \/ \E S \in SUBSET Msgs : Accept(S)
  \/ \E m \in Msgs, accepted, failed \in BOOLEAN : Attempt(m, accepted, failed)
  \/ \E m \in Msgs : Confirm(m) \/ GiveUp(m) \/ Requeue(m) \/ Remove(m)

Spec == Init /\ [][Next]_vars
=============================================================================
