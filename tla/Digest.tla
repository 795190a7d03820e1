------------------------------- MODULE Digest -------------------------------
(***************************************************************************)
(* DigestService.tick: new lots matching a user's saved filters become     *)
(* outbox messages, each recorded in notification_log.  Two ticks may run  *)
(* at once: the scheduler's (at most one instance) and the forced one an   *)
(* administrator starts (at most one, by an in-memory flag); neither knows *)
(* of the other.  A tick reads users, filters and lots one after the other *)
(* in one transaction.  The session flushes what it holds before the next  *)
(* query, so an inserted log row makes a rival that inserts the same one   *)
(* wait, and a DELETE of its lot or filter wait, until the tick has ended. *)
(*                                                                         *)
(* Time is counted in minutes of the users' day; a tick takes less than a  *)
(* minute.  Every lot matches every filter: what _find_new_lots adds to    *)
(* that is the exclusion of the lots already logged and its LIMIT.         *)
(***************************************************************************)
EXTENDS Integers, FiniteSets

CONSTANTS
  Users, Filters,
  Owner,       \* Owner[f]: the user of saved filter f
  DueAt,       \* DueAt[u]: the user's digest_time, in minutes
  MaxLots,     \* bound: lots ever ingested
  PerFilter,   \* _MAX_LOTS_PER_FILTER (10)
  Day,         \* minutes in a day (1440)
  Cooldown,    \* minutes in 23 hours (1380)
  Runners,     \* {"scheduled"} or {"scheduled", "forced"}
  Templates,   \* templates administrators submit
  MaxEvents    \* bound: messages of other sources, links, crashes, templates

ASSUME DigestAssumption ==
  /\ IsFiniteSet(Users) /\ IsFiniteSet(Filters)
  /\ Owner \in [Filters -> Users] /\ DueAt \in [Users -> 0..(Day - 1)]
  /\ MaxLots \in Nat /\ PerFilter \in Nat \ {0} /\ MaxEvents \in Nat
  /\ Day \in Nat /\ Cooldown \in Nat /\ 2 < Cooldown /\ Cooldown <= Day - 3
  /\ Runners \subseteq {"scheduled", "forced"}
  /\ Templates \subseteq {"named", "positional", "unknown"}

VARIABLES
  minute,     \* of the day
  fired,      \* the runners that have started a tick in this minute
  age,        \* minutes since the user's latest outbox row, capped
  linked,     \* users with a telegram_chat_id
  filters,    \* saved filters with notify_enabled
  lots,       \* rows of lots
  nextLot,
  log,        \* notification_log: <<filter, lot>>
  template,   \* the stored digest template
  run,        \* the ticks in progress
  told,       \* history: messages committed about a lot to a filter's user
  digestAge,  \* history: minutes since the user's last scheduled digest
  events      \* bound counter

db == <<age, linked, filters, lots, nextLot, log, template>>
history == <<told, digestAge>>
clock == <<minute, fired>>
vars == <<minute, fired, age, linked, filters, lots, nextLot, log, template,
          run, told, digestAge, events>>

LotIds == 1..MaxLots
Long == Cooldown + 1    \* every age beyond the cooldown

\* A tick: users still to consider, filters of the current user still to
\* read, log rows added to the session and log rows already inserted, and
\* what it read when it started.  One message per filter: the log rows of
\* the filter name its lots.
LogRows == Filters \X LotIds
Tick == [on : BOOLEAN, todo : SUBSET Users, work : SUBSET Filters,
         added : SUBSET LogRows, inserted : SUBSET LogRows,
         linked : SUBSET Users, template : Templates \cup {"named"}]
Off == [on |-> FALSE, todo |-> {}, work |-> {}, added |-> {}, inserted |-> {},
        linked |-> {}, template |-> "named"]

Init ==
  /\ minute = 0 /\ fired = {}
  /\ age = [u \in Users |-> Long] /\ linked = Users
  /\ filters = Filters /\ lots = {} /\ nextLot = 1 /\ log = {}
  /\ template = "named"
  /\ run = [r \in Runners |-> Off]
  /\ told = [p \in LogRows |-> 0]
  /\ digestAge = [u \in Users |-> Long]
  /\ events = 0

-----------------------------------------------------------------------------
\* Formatter().parse yields a name for "{name}" and an empty one for "{}":
\* only the non-empty names are compared with the known keys.
Accepts(t) == t # "unknown"
\* template.format has no positional argument to give to "{}".
Formats(t) == t = "named"

InWindow(u) ==
  LET d == IF minute > DueAt[u] THEN minute - DueAt[u] ELSE DueAt[u] - minute
  IN  d <= 1 \/ Day - d <= 1

\* Mutation: one digest per minute of the window.
RecentMinute(u) == age[u] = 0
\* An outbox row of ANY source in the last 23 hours silences the user.
Recent(u) == age[u] <= Cooldown

ShouldSend(r, u) ==
  /\ u \in run[r].linked
  /\ r = "forced" \/ (InWindow(u) /\ ~Recent(u))

\* Mutation: the newest lots, of which the logged ones are dropped.
NewestLots(f) ==
  {l \in lots : <<f, l>> \notin log /\ Cardinality({k \in lots : k > l}) < PerFilter}

\* The PerFilter newest lots not yet logged for the filter.
NewLots(f) ==
  LET fresh == {l \in lots : <<f, l>> \notin log}
  IN  {l \in fresh : Cardinality({k \in fresh : k > l}) < PerFilter}

\* The scheduler keeps to one instance (max_instances = 1), administrators to
\* one (the flag _digest_running).  Bound: one tick of each in a minute.
Start(r) ==
  /\ ~run[r].on /\ r \notin fired
  /\ run' = [run EXCEPT ![r] = [Off EXCEPT !.on = TRUE, !.todo = Users,
                                          !.linked = linked, !.template = template]]
  /\ fired' = fired \cup {r}
  /\ UNCHANGED <<minute, db, history, events>>

Flushed(r) == run[r].on /\ run[r].added = {}
Idle(r) == Flushed(r) /\ run[r].work = {}

Consider(r, u) ==
  /\ Idle(r) /\ u \in run[r].todo
  /\ run' = [run EXCEPT
       ![r].todo = @ \ {u},
       ![r].work = IF ShouldSend(r, u) THEN {f \in filters : Owner[f] = u} ELSE {}]
  /\ UNCHANGED <<clock, db, history, events>>

\* Formatting may raise: the exception ends the tick, the session is closed
\* without a commit.
Composed(t, f) ==
  IF NewLots(f) = {} THEN [t EXCEPT !.work = @ \ {f}]
  ELSE IF Formats(t.template)
    THEN [t EXCEPT !.work = @ \ {f}, !.added = {f} \X NewLots(f)]
    ELSE Off

Compose(r, f) ==
  /\ Flushed(r) /\ f \in run[r].work
  /\ run' = [run EXCEPT ![r] = Composed(@, f)]
  /\ UNCHANGED <<clock, db, history, events>>

\* Log rows other ticks have inserted and not yet committed.
Uncommitted(r) == UNION {run[q].inserted : q \in Runners \ {r}}
Waits(r) == run[r].added \cap Uncommitted(r) # {}

\* The foreign keys to filter and lot, and UNIQUE (user, filter, lot).
\* Mutations: the table has no unique constraint; it has no foreign keys.
ForeignKeysOnly(p) == p[1] \in filters /\ p[2] \in lots
UniqueOnly(p) == p \notin log
Insertable(p) == p[1] \in filters /\ p[2] \in lots /\ p \notin log

\* Autoflush, before the next query or the commit.
Flush(r) ==
  /\ run[r].added # {} /\ ~Waits(r) /\ \A p \in run[r].added : Insertable(p)
  /\ run' = [run EXCEPT ![r].inserted = @ \cup run[r].added, ![r].added = {}]
  /\ UNCHANGED <<clock, db, history, events>>

Release(r) == run' = [run EXCEPT ![r] = Off]

\* IntegrityError, or the victim of a deadlock between two ticks that wait
\* for each other's rows: nothing of this tick is kept, for any user.
Abort(r) ==
  /\ run[r].added # {}
  /\ IF Waits(r) THEN \E q \in Runners \ {r} : Waits(q)
                 ELSE \E p \in run[r].added : ~Insertable(p)
  /\ Release(r)
  /\ UNCHANGED <<clock, db, history, events>>

Recipients(rows) == {Owner[p[1]] : p \in rows}

\* One transaction for all users: messages and log rows together.
Commit(r) ==
  /\ Idle(r) /\ run[r].todo = {}
  /\ LET rows == run[r].inserted IN
       /\ log' = log \cup rows
       /\ age' = [u \in Users |-> IF u \in Recipients(rows) THEN 0 ELSE age[u]]
       /\ told' = [p \in LogRows |-> told[p] + IF p \in rows THEN 1 ELSE 0]
       /\ digestAge' = [u \in Users |->
            IF r = "scheduled" /\ u \in Recipients(rows) THEN 0 ELSE digestAge[u]]
  /\ run' = [run EXCEPT ![r] = Off]
  /\ UNCHANGED <<clock, linked, filters, lots, nextLot, template, events>>

-----------------------------------------------------------------------------
\* The interval trigger fires every minute; ticks are shorter than that.
Minute ==
  /\ "scheduled" \in fired /\ \A r \in Runners : ~run[r].on
  /\ minute' = (minute + 1) % Day /\ fired' = {}
  /\ age' = [u \in Users |-> IF age[u] < Long THEN age[u] + 1 ELSE Long]
  /\ digestAge' = [u \in Users |-> IF digestAge[u] < Long THEN digestAge[u] + 1 ELSE Long]
  /\ UNCHANGED <<linked, filters, lots, nextLot, log, template, run, told, events>>

NewLot ==
  /\ nextLot <= MaxLots
  /\ lots' = lots \cup {nextLot} /\ nextLot' = nextLot + 1
  /\ UNCHANGED <<clock, age, linked, filters, log, template, run, history, events>>

\* A row referenced by an uncommitted log row is locked against deletion.
Locked == UNION {run[r].inserted : r \in Runners}

\* ON DELETE CASCADE takes the log rows along.
DeleteLot(l) ==
  /\ l \in lots /\ \A p \in Locked : p[2] # l
  /\ lots' = lots \ {l} /\ log' = {p \in log : p[2] # l}
  /\ UNCHANGED <<clock, age, linked, filters, nextLot, template, run, history, events>>

DeleteFilter(f) ==
  /\ f \in filters /\ \A p \in Locked : p[1] # f
  /\ filters' = filters \ {f} /\ log' = {p \in log : p[1] # f}
  /\ UNCHANGED <<clock, age, linked, lots, nextLot, template, run, history, events>>

Event == events < MaxEvents /\ events' = events + 1

\* A test notification or an administrator's message to a linked user.
OtherMessage(u) ==
  /\ Event /\ u \in linked
  /\ age' = [age EXCEPT ![u] = 0]
  /\ UNCHANGED <<clock, linked, filters, lots, nextLot, log, template, run, history>>

ToggleLink(u) ==
  /\ Event
  /\ linked' = IF u \in linked THEN linked \ {u} ELSE linked \cup {u}
  /\ UNCHANGED <<clock, age, filters, lots, nextLot, log, template, run, history>>

SetTemplate(t) ==
  /\ Event /\ Accepts(t)
  /\ template' = t
  /\ UNCHANGED <<clock, age, linked, filters, lots, nextLot, log, run, history>>

\* A restart forgets the ticks in progress; their transactions roll back.
Crash ==
  /\ Event /\ \E r \in Runners : run[r].on
  /\ run' = [r \in Runners |-> Off]
  /\ UNCHANGED <<clock, db, history>>

Next ==
  \/ \E r \in Runners : Start(r)
  \/ \E r \in Runners, u \in Users : Consider(r, u)
  \/ \E r \in Runners, f \in Filters : Compose(r, f)
  \/ \E r \in Runners : Flush(r)
  \/ \E r \in Runners : Commit(r)
  \/ \E r \in Runners : Abort(r)
  \/ Minute
  \/ NewLot
  \/ \E l \in LotIds : DeleteLot(l)
  \/ \E f \in Filters : DeleteFilter(f)
  \/ \E u \in Users : OtherMessage(u)
  \/ \E u \in Users : ToggleLink(u)
  \/ \E t \in Templates : SetTemplate(t)
  \/ Crash

Spec == Init /\ [][Next]_vars

\* A started tick runs to its end, time passes, the scheduler fires.
Progress(r) ==
  \/ \E u \in Users : Consider(r, u)
  \/ \E f \in Filters : Compose(r, f)
  \/ Flush(r) \/ Commit(r) \/ Abort(r)
Fairness ==
  /\ \A r \in Runners : WF_vars(Progress(r))
  /\ WF_vars(Start("scheduled"))
  /\ WF_vars(Minute)

FairSpec == Spec /\ Fairness

-----------------------------------------------------------------------------
\* Every variable keeps to its columns' and its tick's values.
TypeOK ==
  /\ minute \in 0..(Day - 1) /\ fired \subseteq Runners
  /\ age \in [Users -> 0..Long] /\ digestAge \in [Users -> 0..Long]
  /\ linked \subseteq Users /\ filters \subseteq Filters
  /\ nextLot \in 1..(MaxLots + 1) /\ lots \subseteq 1..(nextLot - 1)
  /\ log \subseteq filters \X lots
  /\ template \in Templates \cup {"named"}
  /\ run \in [Runners -> Tick]
  /\ told \in [LogRows -> Nat]
  /\ events \in 0..MaxEvents

\* "UNIQUE (user_id, filter_id, lot_id) guarantees idempotence": however the
\* scheduled and the forced tick interleave, nobody reads of a lot twice.
ToldOnce == \A f \in Filters, l \in LotIds : told[f, l] <= 1

\* When a message is committed its lot and its filter are still there: a tick
\* composes the message from an earlier query, and what is deleted between that
\* query and the flush fails the tick, what is to be deleted later waits for its
\* commit.  So nobody is told of a lot an administrator has removed, or by a
\* filter the user has deleted (digest_service.py:69-105).
MessagesAreCurrent ==
  [][\A p \in LogRows : told'[p] > told[p] => p[1] \in filters /\ p[2] \in lots]_vars

\* The schedule never sends a user two digests within 23 hours.
ScheduledSpaced ==
  [][\A u \in Users : digestAge'[u] = 0 /\ digestAge[u] # 0
       => digestAge[u] > Cooldown]_digestAge

\* A lot on offer to a linked user's filter is in the end announced: also one
\* that waits behind newer lots for the PerFilter limit, after a restart, a
\* forced tick that made the scheduled one fail, a message of another source
\* that silenced the user, or a link taken away and given back.  A template that
\* cannot be formatted only postpones: once it is mended all is announced.
EveryLotAnnounced ==
  \A f \in Filters, l \in LotIds :
    []<>(told[f, l] > 0 \/ l \notin lots \/ f \notin filters
         \/ Owner[f] \notin linked \/ ~Formats(template))
=============================================================================
