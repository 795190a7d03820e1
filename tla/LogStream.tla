------------------------------ MODULE LogStream ------------------------------
(***************************************************************************)
(* From a log call in the bot to an administrator's live tail: the bot's   *)
(* bounded queue, the forwarder that collects records and posts them in    *)
(* batches, the backend's ring buffer, the loop's deferred notifications,  *)
(* and the bounded queue of each subscriber of the stream.  Stopping the   *)
(* bot (a task fails, or a signal) cancels the forwarder wherever it waits.*)
(***************************************************************************)
EXTENDS Integers, Sequences, FiniteSets, SequencesExt

CONSTANTS
  Conns,       \* connections to /admin/logs/stream
  QueueSize,   \* _LOG_QUEUE_MAXSIZE (1000)
  Batch,       \* batch_size (50)
  RingSize,    \* ADMIN_LOG_BUFFER_SIZE
  Replay,      \* records the stream starts with (50)
  SubSize,     \* maxsize of a subscriber's queue (200)
  MaxRecords,  \* bound: records the bot logs
  MaxOwn,      \* bound: records of the backend itself
  MaxFaults,   \* bound: lost or late posts
  MaxConnects  \* bound: connections opened

ASSUME LogStreamAssumption ==
  /\ {QueueSize, Batch, RingSize, Replay, SubSize} \subseteq Nat \ {0}
  /\ {MaxRecords, MaxOwn, MaxFaults, MaxConnects} \subseteq Nat

VARIABLES
  life,       \* of the bot: "up", "stopping" or "down"
  polling,    \* is the bot's polling task still running?
  beat,       \* what health makes of the heartbeat: "none", "online", "old"
  next,       \* the bot's next record
  queue,      \* the bot's queue
  buffer, due,   \* the forwarder's buffer; is its deadline set?
  post,       \* the batch whose POST the forwarder awaits
  adrift,     \* a batch given up that the backend may still receive
  pushed,     \* history: what _push was called with, in order; 0: the
              \* backend's own record.  The ring holds the last of them
  noted,      \* how many of them have been announced to the subscribers
  conn,       \* conn[c]: a connection
  spoilt,     \* history: has a record of the bot been lost by design?
  late,       \* history: has a batch arrived after it had been given up?
  faults, connects   \* bound counters

bot == <<life, polling, beat, next, queue, buffer, due, post, spoilt>>
backend == <<pushed, noted, conn, connects>>
logVars == <<life, polling, beat, next, queue, buffer, due, post, adrift, pushed,
          noted, conn, spoilt, late, faults, connects>>

Records == 1..MaxRecords
Total == MaxRecords + MaxOwn

\* todo: what is left of the replayed records; since: how many had been
\* announced when it subscribed; got: those it has sent since; cut: its queue
\* has overflowed.
Off == [at |-> "off", todo |-> <<>>, queue |-> <<>>, since |-> 0, got |-> <<>>,
        cut |-> FALSE]

LogInit ==
  /\ life = "up" /\ polling = TRUE /\ beat = "none" /\ next = 1
  /\ queue = <<>> /\ buffer = <<>> /\ due = FALSE
  /\ post = <<>> /\ adrift = <<>> /\ pushed = <<>> /\ noted = 0
  /\ conn = [c \in Conns |-> Off] /\ spoilt = FALSE /\ late = FALSE
  /\ faults = 0 /\ connects = 0

-----------------------------------------------------------------------------
(***************************************************************************)
(* The bot.                                                                *)
(***************************************************************************)
\* LogForwardHandler.emit: a full queue drops the record without a word.
Emit ==
  /\ life # "down" /\ next <= MaxRecords
  /\ next' = next + 1
  /\ IF Len(queue) < QueueSize
       THEN queue' = Append(queue, next) /\ UNCHANGED spoilt
       ELSE spoilt' = TRUE /\ UNCHANGED queue
  /\ UNCHANGED <<life, polling, beat, buffer, due, post, adrift, backend, late, faults>>

Idle == life = "up" /\ post = <<>>

\* Mutation: the deadline is set by the first record of the life only.
SetOnce(b) == due \/ (Len(b) = 1 /\ b[1] = 1)
Deadline(b) == TRUE

\* Mutation: the buffer is cleared after the batch has been sent.
ClearLater(b) == b
AfterFlush(b) == <<>>

\* The record fills a batch, which is posted, or waits for the deadline.
Take ==
  /\ Idle /\ queue # <<>>
  /\ queue' = Tail(queue)
  /\ LET b == Append(buffer, Head(queue)) IN
     IF Len(b) >= Batch
       THEN post' = b /\ buffer' = AfterFlush(b) /\ due' = FALSE
       ELSE buffer' = b /\ due' = Deadline(b) /\ UNCHANGED post
  /\ UNCHANGED <<life, polling, beat, next, adrift, backend, spoilt, late,
                 faults>>

TimeIsUp ==
  /\ Idle /\ due
  /\ post' = buffer /\ buffer' = AfterFlush(buffer) /\ due' = FALSE
  /\ UNCHANGED <<life, polling, beat, next, queue, adrift, backend, spoilt,
                 late, faults>>

\* The forwarder goes on; when the bot is stopping, that was its last flush.
AfterPost ==
  /\ post' = <<>>
  /\ life' = IF life = "stopping" THEN "down" ELSE life

\* bot_log pushes the records one after the other and answers.
PostDone ==
  /\ post # <<>>
  /\ pushed' = pushed \o post
  /\ AfterPost
  /\ UNCHANGED <<polling, beat, next, queue, buffer, due, adrift, noted, conn,
                 connects, spoilt, late, faults>>

\* The post fails or times out: the batch is not sent again, and a warning is
\* logged, which is a record like any other.
PostFailed ==
  /\ post # <<>> /\ faults < MaxFaults /\ adrift = <<>>
  /\ faults' = faults + 1 /\ spoilt' = TRUE
  /\ adrift' = post
  /\ AfterPost
  /\ IF next <= MaxRecords /\ Len(queue) < QueueSize
       THEN queue' = Append(queue, next) /\ next' = next + 1
       ELSE UNCHANGED <<queue, next>>
  /\ UNCHANGED <<polling, beat, buffer, due, backend, late>>

\* What had timed out is handled all the same, or was really lost.
Arrives ==
  /\ adrift # <<>>
  /\ pushed' = pushed \o adrift /\ adrift' = <<>> /\ late' = TRUE
  /\ UNCHANGED <<bot, noted, conn, connects, faults>>
Vanishes ==
  /\ adrift # <<>> /\ adrift' = <<>>
  /\ UNCHANGED <<bot, backend, late, faults>>

\* gather: a task that fails cancels the others.  CancelledError reaches the
\* forwarder in queue.get(), and the buffer is flushed; or in the post, which
\* the backend may yet handle, and the buffer then is empty.
Stop ==
  /\ life = "up"
  /\ post # <<>> => adrift = <<>>
  /\ adrift' = IF post = <<>> THEN adrift ELSE post
  /\ post' = buffer /\ buffer' = AfterFlush(buffer) /\ due' = FALSE
  /\ life' = IF buffer = <<>> THEN "down" ELSE "stopping"
  /\ polling' = FALSE /\ spoilt' = TRUE
  /\ UNCHANGED <<beat, next, queue, backend, late, faults>>

\* The process is killed, with whatever it had not posted.
Kill ==
  /\ life # "down"
  /\ post # <<>> => adrift = <<>>
  /\ adrift' = IF post = <<>> THEN adrift ELSE post
  /\ post' = <<>> /\ due' = FALSE
  /\ life' = "down" /\ polling' = FALSE /\ spoilt' = TRUE
  /\ UNCHANGED <<beat, next, queue, buffer, backend, late, faults>>

Restart ==
  /\ life = "down" /\ next <= MaxRecords
  /\ life' = "up" /\ polling' = TRUE
  /\ queue' = <<>> /\ buffer' = <<>>
  /\ UNCHANGED <<beat, next, due, post, adrift, backend, spoilt, late, faults>>

\* start_polling returns, as it does on a signal: gather goes on waiting for
\* the other tasks.
PollingEnds ==
  /\ life = "up" /\ polling
  /\ polling' = FALSE
  /\ UNCHANGED <<life, beat, next, queue, buffer, due, post, spoilt, adrift,
                 backend, late, faults>>

\* Every 30 s, whatever the other tasks do, with polling_ok = True; health
\* looks at the time of the last one only (heartbeats can be lost, too).
Heartbeat ==
  /\ life = "up" /\ beat # "online"
  /\ beat' = "online"
  /\ UNCHANGED <<life, polling, next, queue, buffer, due, post, spoilt, adrift,
                 backend, late, faults>>
BeatAges ==
  /\ beat = "online"
  /\ beat' = "old"
  /\ UNCHANGED <<life, polling, next, queue, buffer, due, post, spoilt, adrift,
                 backend, late, faults>>

-----------------------------------------------------------------------------
(***************************************************************************)
(* The backend.  _push appends to the ring at once and leaves telling the  *)
(* subscribers to a later turn of the event loop.                          *)
(***************************************************************************)
EmitOwn ==
  /\ Cardinality({i \in DOMAIN pushed : pushed[i] = 0}) < MaxOwn
  /\ pushed' = Append(pushed, 0)
  /\ UNCHANGED <<bot, adrift, noted, conn, connects, late, faults>>

\* Mutation: a full queue keeps what it has.
DropNewest(q, i) == IF Len(q) = SubSize THEN q ELSE Append(q, i)
Offered(q, i) == Append(IF Len(q) = SubSize THEN Tail(q) ELSE q, i)

\* Announced by its place in pushed.
Notify ==
  /\ noted < Len(pushed)
  /\ noted' = noted + 1
  /\ conn' = [c \in Conns |->
                IF conn[c].at = "live"
                  THEN [conn[c] EXCEPT !.queue = Offered(@, noted + 1),
                          !.cut = @ \/ Len(conn[c].queue) = SubSize]
                  ELSE conn[c]]
  /\ UNCHANGED <<bot, adrift, pushed, connects, late, faults>>

Least(a, b) == IF a < b THEN a ELSE b

\* snapshot: the last records of the ring.
Snapshot(limit) ==
  LET n == Least(limit, Least(RingSize, Len(pushed)))
  IN  [i \in 1..n |-> Len(pushed) - n + i]

Connect(c) ==
  /\ conn[c].at = "off" /\ connects < MaxConnects
  /\ connects' = connects + 1
  /\ conn' = [conn EXCEPT ![c] = [Off EXCEPT !.at = "replay",
                                    !.todo = Snapshot(Replay)]]
  /\ UNCHANGED <<bot, adrift, pushed, noted, late, faults>>

SendReplayed(c) ==
  /\ conn[c].at = "replay" /\ conn[c].todo # <<>>
  /\ conn' = [conn EXCEPT ![c].todo = Tail(@)]
  /\ UNCHANGED <<bot, adrift, pushed, noted, connects, late, faults>>

Subscribe(c) ==
  /\ conn[c].at = "replay" /\ conn[c].todo = <<>>
  /\ conn' = [conn EXCEPT ![c].at = "live", ![c].since = noted]
  /\ UNCHANGED <<bot, adrift, pushed, noted, connects, late, faults>>

SendLive(c) ==
  /\ conn[c].at = "live" /\ conn[c].queue # <<>>
  /\ conn' = [conn EXCEPT ![c].queue = Tail(@),
                          ![c].got = Append(@, Head(conn[c].queue))]
  /\ UNCHANGED <<bot, adrift, pushed, noted, connects, late, faults>>

\* The generator is cancelled, its finally unsubscribes.
Disconnect(c) ==
  /\ conn[c].at # "off"
  /\ conn' = [conn EXCEPT ![c] = Off]
  /\ UNCHANGED <<bot, adrift, pushed, noted, connects, late, faults>>

-----------------------------------------------------------------------------
Bot == Emit \/ Take \/ TimeIsUp \/ PostDone \/ PostFailed \/ Arrives \/ Vanishes
         \/ Stop \/ Kill \/ Restart \/ PollingEnds \/ Heartbeat \/ BeatAges
Backend == EmitOwn \/ Notify
             \/ \E c \in Conns : Connect(c) \/ SendReplayed(c) \/ Subscribe(c)
                                   \/ SendLive(c) \/ Disconnect(c)
LogNext == Bot \/ Backend

LogSpec == LogInit /\ [][LogNext]_logVars

\* The forwarder is a task of a running event loop, and a post ends within the
\* client's timeout.
Fairness == WF_logVars(Take) /\ WF_logVars(TimeIsUp) /\ WF_logVars(PostDone \/ PostFailed)
FairLogSpec == LogSpec /\ Fairness

-----------------------------------------------------------------------------
\* Every variable keeps to its values: the bot's records are numbers, a
\* connection handles places in pushed.
Connection == [at : {"off", "replay", "live"}, todo : Seq(Nat), queue : Seq(Nat \ {0}),
               since : Nat, got : Seq(Nat \ {0}), cut : BOOLEAN]
LogTypeOK ==
  /\ life \in {"up", "stopping", "down"} /\ polling \in BOOLEAN
  /\ beat \in {"none", "online", "old"} /\ next \in Nat \ {0}
  /\ {queue, buffer, post, adrift} \subseteq Seq(Nat \ {0}) /\ due \in BOOLEAN
  /\ pushed \in Seq(Nat) /\ noted \in 0..Len(pushed)
  /\ conn \in [Conns -> Connection]
  /\ spoilt \in BOOLEAN /\ late \in BOOLEAN /\ faults \in Nat /\ connects \in Nat

Counted(a, b) == [i \in 1..(b - a) |-> a + i]
\* What is not 0 comes in increasing order, and so but once.
InOrder(s) ==
  \A i, j \in DOMAIN s : i < j /\ s[i] # 0 /\ s[j] # 0 => s[i] < s[j]

\* The bot's records as they travel: in the ring, in a post, in the buffer and
\* in the queue.  In a life that lost nothing none is missing and none is there
\* twice; whatever is lost, those that get through keep their order, and none
\* gets through twice, until a batch arrives that had been given up.
Travelling ==
  pushed \o IF life = "down" THEN <<>> ELSE post \o buffer \o queue
RecordsInOrder ==
  /\ ~late => InOrder(Travelling)
  /\ ~spoilt => InOrder(Travelling) /\ Range(Travelling) \ {0} = 1..(next - 1)

\* A live stream sends what is announced after it subscribed: in order, once,
\* without a gap unless its queue has overflowed, and then it is the oldest
\* records that are missing, never the newest.
StreamFaithful ==
  \A c \in Conns : conn[c].at = "live" =>
    LET sent == conn[c].got \o conn[c].queue IN
    /\ InOrder(sent)
    /\ ~conn[c].cut => sent = Counted(conn[c].since, noted)
    /\ noted > conn[c].since => noted \in Range(sent)

\* A record in the buffer is posted or lost with the bot; it does not wait for
\* a batch that never fills.
RecordsLeave == (buffer # <<>> /\ life = "up") ~> (buffer = <<>> \/ life # "up")

=============================================================================
