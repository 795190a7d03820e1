----------------------------- MODULE Pages_proofs -----------------------------
(***************************************************************************)
(* Proofs about the two ends of the administrator's live tail: Pages, for  *)
(* any number of navigations, clicks and errors; and LogStream, for any    *)
(* sizes of its queues, batches and ring and any number of subscribers.    *)
(***************************************************************************)
EXTENDS Pages, LogStream, SequenceTheorems, TLAPS

-----------------------------------------------------------------------------
(***************************************************************************)
(* The inductive invariant.  Rows: a table that does not load has no       *)
(* request in flight, one that loads has that of the last reload.  Single: *)
(* without an overlap one thing at a time is under way, a navigation, a    *)
(* mount of the log or one of the dashboard, and it finds nothing open.    *)
(***************************************************************************)
RowsOf(t) ==
  /\ t.asked \subseteq {t.newest}
  /\ ~t.loading => t.asked = {}
  /\ t.rows # 0 => t.asked = {} /\ t.rows = t.newest
  /\ ~t.missed => t.newest = t.params
Rows == RowsOf(table)

Single ==
  /\ \A m, n \in loading : m = n
  /\ loading # {} => currentPage = "none" /\ mounts = 0 /\ dash.awaiting = 0
  /\ mounts # 0 => /\ mounts = 1 /\ currentPage = "logs"
                   /\ es = 0 /\ ~reconnectTimer
  /\ dash.awaiting # 0 => /\ dash.awaiting = 1 /\ currentPage = "dashboard"
                          /\ dash.intervals = {}

Owned ==
  /\ root # "state" => currentPage = root
  /\ streams \subseteq {es}
  /\ reconnectTimer => es = 0
  /\ currentPage # "logs" => es = 0 /\ ~reconnectTimer /\ (typed => unmounted)
  /\ dash.intervals \subseteq {dash.timer}
  /\ currentPage # "dashboard" => dash.intervals = {}

IInv ==
  /\ TypeOK /\ QuietWhenAway /\ Rows
  /\ ~overlap => Single /\ Owned

-----------------------------------------------------------------------------
(***************************************************************************)
(* The logs module's functions.                                            *)
(***************************************************************************)
LogState ==
  [unmounted : BOOLEAN, paused : BOOLEAN, es : Nat, timer : BOOLEAN,
   streams : SUBSET (Nat \ {0}), opened : Nat]

Quiet(m) == m.unmounted \/ m.paused => m.es = 0 /\ ~m.timer
Tidy(m) == m.streams \subseteq {m.es} /\ (m.timer => m.es = 0)

\* What every one of them keeps.
Keeps(m, n) ==
  /\ n \in LogState /\ n.unmounted = m.unmounted /\ n.paused = m.paused
  /\ Quiet(m) => Quiet(n)
  /\ m.unmounted /\ Quiet(m) => n.es = 0 /\ ~n.timer

\* The record of the module's variables, in a state and after a step.
LEMMA NowFacts ==
  ASSUME TypeOK
  PROVE  /\ Now \in LogState /\ (QuietWhenAway <=> Quiet(Now))
         /\ Tidy(Now) <=> streams \subseteq {es} /\ (reconnectTimer => es = 0)
  BY DEF TypeOK, Now, LogState, QuietWhenAway, Quiet, Tidy

LEMMA BecomeFacts ==
  ASSUME NEW n \in LogState, Become(n)
  PROVE  /\ unmounted' \in BOOLEAN /\ paused' \in BOOLEAN
         /\ reconnectTimer' \in BOOLEAN /\ es' \in Nat /\ opened' \in Nat
         /\ streams' \subseteq Nat \ {0}
         /\ Quiet(n) => QuietWhenAway'
  BY DEF Become, LogState, Quiet, QuietWhenAway

\* Closing leaves no current stream and no timer.
LEMMA ClosedFacts ==
  ASSUME NEW m \in LogState
  PROVE  /\ Keeps(m, Closed(m)) /\ Quiet(Closed(m))
         /\ Closed(m).es = 0 /\ ~Closed(m).timer
         /\ Tidy(m) => Closed(m).streams = {}
  BY DEF Closed, LogState, Quiet, Tidy, Keeps

\* Opening keeps the module's books when nothing is current.
LEMMA OpenedFacts ==
  ASSUME NEW m \in LogState
  PROVE  /\ Keeps(m, Opened(m))
         /\ Opened(m).timer = m.timer
         /\ Tidy(m) /\ m.es = 0 /\ ~m.timer => Tidy(Opened(m))
<1>1. CASE m.paused \/ m.unmounted
  <2>1. Opened(m) = m
    BY <1>1 DEF Opened, OpenedAnyway
  <2>2. QED
    BY <2>1 DEF Keeps, Quiet
<1>2. CASE ~m.paused /\ ~m.unmounted
  <2>1. Opened(m) = [m EXCEPT !.opened = @ + 1, !.es = m.opened + 1,
                              !.streams = @ \cup {m.opened + 1}]
    BY <1>2 DEF Opened, OpenedAnyway
  <2>2. m.opened + 1 \in Nat /\ m.streams \cup {m.opened + 1} \in SUBSET (Nat \ {0})
    BY DEF LogState
  <2>3. Opened(m) \in LogState
    BY <2>1, <2>2 DEF LogState
  <2>4. /\ Opened(m).unmounted = m.unmounted /\ Opened(m).paused = m.paused
        /\ Opened(m).timer = m.timer /\ Opened(m).es = m.opened + 1
        /\ Opened(m).streams = m.streams \cup {m.opened + 1}
    BY <2>1 DEF LogState
  <2>5. Tidy(m) /\ m.es = 0 /\ ~m.timer => Tidy(Opened(m))
    <3>1. m.streams \subseteq Nat \ {0}
      BY DEF LogState
    <3>2. QED
      BY <2>4, <3>1 DEF Tidy
  <2>6. QED
    BY <1>2, <2>3, <2>4, <2>5 DEF Keeps, Quiet
<1>3. QED
  BY <1>1, <1>2

LEMMA ReconnectedFacts ==
  ASSUME NEW m \in LogState
  PROVE  Keeps(m, Reconnected(m)) /\ (Tidy(m) => Tidy(Reconnected(m)))
<1>1. CASE m.paused
  BY <1>1 DEF Reconnected, Keeps, Quiet
<1>2. CASE ~m.paused
  <2>1. Reconnected(m) = Opened(Closed(m))
    BY <1>2 DEF Reconnected
  <2>2. Keeps(m, Closed(m)) /\ Closed(m) \in LogState
    BY ClosedFacts DEF Keeps
  <2>3. Keeps(Closed(m), Opened(Closed(m)))
    BY <2>2, OpenedFacts
  <2>4. Quiet(Closed(m)) /\ Closed(m).es = 0 /\ ~Closed(m).timer
    BY ClosedFacts
  <2>5. Keeps(m, Reconnected(m))
    BY <2>1, <2>2, <2>3, <2>4 DEF Keeps
  <2>6. Tidy(m) => Tidy(Closed(m))
    BY ClosedFacts DEF Tidy
  <2>7. QED
    BY <2>1, <2>2, <2>4, <2>5, <2>6, OpenedFacts
<1>3. QED
  BY <1>1, <1>2

LEMMA BrokenFacts ==
  ASSUME NEW m \in LogState
  PROVE  Keeps(m, Broken(m)) /\ (Tidy(m) => Tidy(Broken(m)))
<1>1. /\ Closed(m) \in LogState /\ Closed(m).unmounted = m.unmounted
      /\ Closed(m).paused = m.paused /\ Closed(m).es = 0
      /\ Tidy(m) => Closed(m).streams = {}
  BY ClosedFacts DEF Keeps
<1>2. m.unmounted \in BOOLEAN /\ m.paused \in BOOLEAN
  BY DEF LogState
<1>3. QED
  BY <1>1, <1>2 DEF Broken, LogState, Keeps, Quiet, Tidy

-----------------------------------------------------------------------------
(***************************************************************************)
(* The table.                                                              *)
(***************************************************************************)
\* A reload after a change of the parameters: either it asks for them, or the
\* change is missed.
LEMMA ReloadFacts ==
  ASSUME NEW t \in Tables, t.asked \subseteq {t.newest},
         ~t.loading => t.asked = {},
         t.rows # 0 => t.asked = {} /\ t.rows = t.newest
  PROVE  Reload(t) \in Tables /\ RowsOf(Reload(t))
<1>1. CASE t.loading
  BY <1>1 DEF Reload, Tables, RowsOf
<1>2. CASE ~t.loading
  <2>1. t.asked = {}
    BY <1>2
  <2>2. Reload(t) = [params |-> t.params, loading |-> TRUE, asked |-> {t.params},
                     rows |-> 0, newest |-> t.params, missed |-> FALSE]
    BY <1>2, <2>1 DEF Reload, ReloadAnyway, Tables
  <2>3. t.params \in Nat /\ {t.params} \in SUBSET Nat
    BY DEF Tables
  <2>4. Reload(t) \in Tables
    BY <2>2, <2>3 DEF Tables
  <2>5. /\ Reload(t).asked = {t.params} /\ Reload(t).newest = t.params
        /\ Reload(t).loading /\ Reload(t).rows = 0 /\ Reload(t).params = t.params
    BY <2>2
  <2>6. QED
    BY <2>4, <2>5 DEF RowsOf
<1>3. QED
  BY <1>1, <1>2

LEMMA FreshTableFacts == FreshTable \in Tables /\ RowsOf(FreshTable)
<1> DEFINE t == [NoTable EXCEPT !.params = 1]
<1>1. t \in Tables /\ t.asked = {} /\ t.rows = 0
  BY DEF NoTable, Tables
<1>2. QED
  BY <1>1, ReloadFacts DEF FreshTable

-----------------------------------------------------------------------------
(***************************************************************************)
(* The logs module, whatever the step: a state that is quiet when the page *)
(* is left or paused.                                                      *)
(***************************************************************************)
LEMMA LogStep ==
  ASSUME TypeOK, QuietWhenAway, [Next]_vars
  PROVE  \E n \in LogState : Become(n) /\ Quiet(n)
<1>1. Now \in LogState /\ Quiet(Now)
  BY NowFacts
<1>2. ASSUME UNCHANGED logs PROVE Become(Now)
  BY <1>2 DEF logs, Become, Now
<1>3. ASSUME NEW n \in LogState, Keeps(Now, n), Become(n)
      PROVE  \E k \in LogState : Become(k) /\ Quiet(k)
  BY <1>1, <1>3 DEF Keeps
<1>4. CASE UNCHANGED logs
  BY <1>1, <1>2, <1>4
<1>5. ASSUME NEW p \in Views, Navigate(p)
      PROVE  \E k \in LogState : Become(k) /\ Quiet(k)
  <2>1. CASE currentPage = "logs"
    <3> DEFINE m == [Now EXCEPT !.unmounted = TRUE]
    <3>1. m \in LogState /\ Become(Closed(m))
      BY <1>1, <1>5, <2>1 DEF Navigate, LogState
    <3>2. Closed(m) \in LogState /\ Quiet(Closed(m))
      BY <3>1, ClosedFacts DEF Keeps
    <3>3. QED
      BY <3>1, <3>2
  <2>2. CASE currentPage # "logs"
    BY <1>1, <1>2, <1>5, <2>2 DEF Navigate
  <2>3. QED
    BY <2>1, <2>2
<1>6. ASSUME NEW n \in loading, Mount(n)
      PROVE  \E k \in LogState : Become(k) /\ Quiet(k)
  <2>1. CASE n.page = "logs"
    <3> DEFINE m == [Now EXCEPT !.unmounted = FALSE, !.paused = FALSE]
    <3>1. m \in LogState /\ Become(m) /\ ~m.unmounted /\ ~m.paused
      BY <1>1, <1>6, <2>1 DEF Mount, LogState
    <3>2. QED
      BY <3>1 DEF Quiet
  <2>2. CASE n.page # "logs"
    BY <1>1, <1>2, <1>6, <2>2 DEF Mount
  <2>3. QED
    BY <2>1, <2>2
<1>7. CASE SnapshotAnswered
  BY <1>1, <1>3, <1>7, OpenedFacts DEF SnapshotAnswered, Keeps
<1>8. CASE ChangeLevel \/ Debounced
  BY <1>1, <1>3, <1>8, ReconnectedFacts DEF ChangeLevel, Debounced, Keeps
<1>9. CASE Pause
  <2> DEFINE m == [Now EXCEPT !.paused = TRUE]
  <2>1. m \in LogState /\ Become(Closed(m))
    BY <1>1, <1>9 DEF Pause, LogState
  <2>2. QED
    BY <2>1, ClosedFacts DEF Keeps
<1>10. CASE Resume
  <2> DEFINE m == [Now EXCEPT !.paused = FALSE]
  <2>1. m \in LogState /\ Become(Opened(m)) /\ Quiet(m)
    BY <1>1, <1>10 DEF Resume, LogState, Quiet
  <2>2. Opened(m) \in LogState /\ Quiet(Opened(m))
    BY <2>1, OpenedFacts DEF Keeps
  <2>3. QED
    BY <2>1, <2>2
<1>11. ASSUME NEW s \in streams, StreamBreaks(s)
       PROVE  \E k \in LogState : Become(k) /\ Quiet(k)
  BY <1>1, <1>3, <1>11, BrokenFacts DEF StreamBreaks, Keeps
<1>12. CASE TimerFires
  <2> DEFINE m == [Now EXCEPT !.timer = FALSE]
  <2>1. m \in LogState /\ Become(Opened(m)) /\ Quiet(m)
    BY <1>1, <1>12 DEF TimerFires, LogState, Quiet
  <2>2. Opened(m) \in LogState /\ Quiet(Opened(m))
    BY <2>1, OpenedFacts DEF Keeps
  <2>3. QED
    BY <2>1, <2>2
<1>13. UNCHANGED vars => UNCHANGED logs
  BY DEF vars, logs
<1>14. ASSUME NEW n \in loading, ImportFails(n) PROVE UNCHANGED logs
  BY <1>14 DEF ImportFails
<1>15. ASSUME NEW p \in table.asked, Loaded(p) PROVE UNCHANGED logs
  BY <1>15 DEF Loaded
<1>16. Refreshed \/ SetParams \/ Type => UNCHANGED logs
  BY DEF Refreshed, SetParams, Type
<1>17. QED
  BY <1>4, <1>5, <1>6, <1>7, <1>8, <1>9, <1>10, <1>11, <1>12, <1>13, <1>14,
     <1>15, <1>16 DEF Next

-----------------------------------------------------------------------------
(***************************************************************************)
(* The dashboard and the table, whatever the step.                         *)
(***************************************************************************)
LEMMA DashStep ==
  ASSUME TypeOK, [Next]_vars
  PROVE  dash' \in Dashboards
<1>1. CASE UNCHANGED dash
  BY <1>1 DEF TypeOK
<1>2. ASSUME NEW p \in Views, Navigate(p) PROVE dash' \in Dashboards
  <2>1. Unmounted(dash) \in Dashboards
    BY DEF TypeOK, Dashboards, Unmounted
  <2>2. QED
    BY <1>2, <2>1 DEF Navigate, TypeOK
<1>3. ASSUME NEW n \in loading, Mount(n) PROVE dash' \in Dashboards
  <2>1. /\ dash.awaiting + 1 \in Nat
        /\ dash' = IF n.page = "dashboard"
                     THEN [dash EXCEPT !.unmounted = FALSE, !.awaiting = dash.awaiting + 1]
                     ELSE dash
    BY <1>3 DEF Mount, TypeOK, Dashboards
  <2>2. QED
    BY <2>1 DEF TypeOK, Dashboards
<1>4. CASE Refreshed
  <2> DEFINE id == dash.started + 1
  <2>1. id \in Nat /\ dash.intervals \cup {id} \in SUBSET Nat
    BY DEF TypeOK, Dashboards
  <2>2. dash.awaiting - 1 \in Nat
    BY <1>4 DEF Refreshed, TypeOK, Dashboards
  <2>3. dash' = [dash EXCEPT !.awaiting = dash.awaiting - 1, !.started = id,
                             !.timer = id, !.intervals = dash.intervals \cup {id}]
    BY <1>4 DEF Refreshed, TypeOK, Dashboards
  <2> HIDE DEF id
  <2>4. QED
    BY <2>1, <2>2, <2>3 DEF TypeOK, Dashboards
<1>5. ASSUME NEW n \in loading, ImportFails(n) PROVE UNCHANGED dash
  BY <1>5 DEF ImportFails
<1>6. ASSUME NEW p \in table.asked, Loaded(p) PROVE UNCHANGED dash
  BY <1>6 DEF Loaded
<1>7. ASSUME NEW s \in streams, StreamBreaks(s) PROVE UNCHANGED dash
  BY <1>7 DEF StreamBreaks
<1>8. SnapshotAnswered \/ SetParams \/ ChangeLevel \/ Type \/ Debounced
        \/ Pause \/ Resume \/ TimerFires \/ UNCHANGED vars => UNCHANGED dash
  BY DEF SnapshotAnswered, SetParams, ChangeLevel, Type, Debounced, Pause, Resume,
         TimerFires, vars, Click
<1>9. QED
  BY <1>1, <1>2, <1>3, <1>4, <1>5, <1>6, <1>7, <1>8 DEF Next

LEMMA TableStep ==
  ASSUME TypeOK, Rows, [Next]_vars
  PROVE  table' \in Tables /\ Rows'
<1>1. CASE UNCHANGED table
  BY <1>1 DEF TypeOK, Rows, RowsOf
<1>2. ASSUME NEW n \in loading, Mount(n) PROVE table' \in Tables /\ Rows'
  <2>1. CASE n.page = "users"
    <3>1. table' = FreshTable
      BY <1>2, <2>1 DEF Mount
    <3>2. QED
      BY <3>1, FreshTableFacts DEF Rows, RowsOf
  <2>2. CASE n.page # "users"
    BY <1>1, <1>2, <2>2 DEF Mount
  <2>3. QED
    BY <2>1, <2>2
<1>3. CASE SetParams
  <2> DEFINE t == [table EXCEPT !.params = table.params + 1]
  <2>1. table' = Reload(t)
    BY <1>3 DEF SetParams, TypeOK, Tables
  <2>2. /\ t \in Tables /\ t.asked = table.asked /\ t.newest = table.newest
        /\ t.rows = table.rows /\ t.loading = table.loading
    BY DEF TypeOK, Tables
  <2>3. Reload(t) \in Tables /\ RowsOf(Reload(t))
    <3> HIDE DEF t
    <3>1. QED
      BY <2>2, ReloadFacts DEF Rows, RowsOf
  <2>4. QED
    BY <2>1, <2>3 DEF Rows, RowsOf
<1>4. ASSUME NEW p \in table.asked, Loaded(p) PROVE table' \in Tables /\ Rows'
  <2>1. PICK shown \in {p, 0} :
          table' = [table EXCEPT !.asked = table.asked \ {p}, !.rows = shown,
                                 !.loading = FALSE]
    BY <1>4 DEF Loaded, TypeOK, Tables
  <2>2. p = table.newest /\ table.asked \ {p} = {} /\ p \in Nat /\ shown \in Nat
    BY DEF Rows, RowsOf, TypeOK, Tables
  <2>3. table' \in Tables
    BY <2>1, <2>2 DEF TypeOK, Tables
  <2>4. /\ table'.asked = {} /\ table'.rows = shown /\ table'.newest = table.newest
        /\ table'.missed = table.missed /\ table'.params = table.params
    BY <2>1, <2>2 DEF TypeOK, Tables
  <2>5. QED
    BY <2>2, <2>3, <2>4 DEF Rows, RowsOf
<1>5. ASSUME NEW n \in loading, ImportFails(n) PROVE UNCHANGED table
  BY <1>5 DEF ImportFails
<1>6. ASSUME NEW p \in Views, Navigate(p) PROVE UNCHANGED table
  BY <1>6 DEF Navigate
<1>7. ASSUME NEW s \in streams, StreamBreaks(s) PROVE UNCHANGED table
  BY <1>7 DEF StreamBreaks
<1>8. SnapshotAnswered \/ Refreshed \/ ChangeLevel \/ Type \/ Debounced
        \/ Pause \/ Resume \/ TimerFires \/ UNCHANGED vars => UNCHANGED table
  BY DEF SnapshotAnswered, Refreshed, ChangeLevel, Type, Debounced, Pause, Resume,
         TimerFires, vars, Click
<1>9. QED
  BY <1>1, <1>2, <1>3, <1>4, <1>5, <1>6, <1>7, <1>8 DEF Next

LEMMA TypeStep ==
  ASSUME TypeOK, QuietWhenAway, Rows, [Next]_vars
  PROVE  TypeOK' /\ QuietWhenAway'
<1> DEFINE Rest == /\ moves' \in Nat /\ loading' \subseteq [nr : Nat, page : Views]
                   /\ currentPage' \in Views \cup {"none"}
                   /\ root' \in Views \cup {"state"}
                   /\ mounts' \in Nat /\ typed' \in BOOLEAN /\ overlap' \in BOOLEAN
                   /\ clicks' \in Nat /\ breaks' \in Nat
<1>1. Rest
  <2>1. ASSUME NEW p \in Views, Navigate(p) PROVE Rest
    <3>1. moves + 1 \in Nat /\ [nr |-> moves + 1, page |-> p] \in [nr : Nat, page : Views]
      BY DEF TypeOK
    <3>2. /\ mounts' = mounts /\ typed' = typed /\ clicks' = clicks /\ breaks' = breaks
          /\ currentPage' = "none" /\ root' = "state" /\ moves' = moves + 1
          /\ loading' = loading \cup {[nr |-> moves + 1, page |-> p]}
          /\ overlap' \in BOOLEAN
      BY <2>1 DEF Navigate, TypeOK
    <3>3. QED
      BY <3>1, <3>2 DEF TypeOK
  <2>2. ASSUME NEW n \in loading, Mount(n) PROVE Rest
    BY <2>2 DEF Mount, TypeOK
  <2>3. ASSUME NEW n \in loading, ImportFails(n) PROVE Rest
    BY <2>3 DEF ImportFails, TypeOK
  <2>4. CASE SnapshotAnswered \/ Refreshed
    BY <2>4 DEF SnapshotAnswered, Refreshed, router, TypeOK
  <2>5. CASE SetParams
    BY <2>5 DEF SetParams, router, TypeOK
  <2>6. ASSUME NEW p \in table.asked, Loaded(p) PROVE Rest
    BY <2>6 DEF Loaded, router, TypeOK
  <2>7. CASE ChangeLevel \/ Type \/ Pause \/ Resume
    <3>1. /\ UNCHANGED <<moves, loading, currentPage, root, mounts, breaks>>
          /\ typed' \in {typed, TRUE} /\ Click
      BY <2>7 DEF ChangeLevel, Type, Pause, Resume, router
    <3>2. clicks' \in Nat /\ overlap' \in BOOLEAN
      BY <3>1 DEF Click, TypeOK
    <3>3. QED
      BY <3>1, <3>2 DEF TypeOK
  <2>8. CASE Debounced
    BY <2>8 DEF Debounced, router, TypeOK
  <2>9. ASSUME NEW s \in streams, StreamBreaks(s) PROVE Rest
    BY <2>9 DEF StreamBreaks, router, TypeOK
  <2>10. CASE TimerFires
    BY <2>10 DEF TimerFires, router, TypeOK
  <2>11. CASE UNCHANGED vars
    BY <2>11 DEF vars, TypeOK
  <2>12. QED
    BY <2>1, <2>2, <2>3, <2>4, <2>5, <2>6, <2>7, <2>8, <2>9, <2>10, <2>11 DEF Next
<1>2. PICK n \in LogState : Become(n) /\ Quiet(n)
  BY LogStep
<1>3. /\ unmounted' \in BOOLEAN /\ paused' \in BOOLEAN
      /\ reconnectTimer' \in BOOLEAN /\ es' \in Nat /\ opened' \in Nat
      /\ streams' \subseteq Nat \ {0} /\ QuietWhenAway'
  BY <1>2, BecomeFacts
<1>4. dash' \in Dashboards /\ table' \in Tables
  BY DashStep, TableStep
<1>5. QED
  BY <1>1, <1>3, <1>4 DEF TypeOK

-----------------------------------------------------------------------------
(***************************************************************************)
(* Without an overlap: one thing at a time.                                *)
(***************************************************************************)
Alone == ~overlap => Single /\ Owned

\* The module's variables after a step that keeps its books.
LEMMA TidyAfter ==
  ASSUME NEW n \in LogState, Become(n), Tidy(n)
  PROVE  streams' \subseteq {es'} /\ (reconnectTimer' => es' = 0)
  BY DEF Become, LogState, Tidy

\* What a step of the logs page leaves alone, and what it keeps.
LEMMA LogsPageStep ==
  ASSUME TypeOK, Single, Owned, NEW n \in LogState, Become(n), Tidy(n),
         UNCHANGED <<loading, currentPage, root, dash>>,
         mounts' \in {mounts, 0},
         mounts' # 0 => es' = 0 /\ ~reconnectTimer',
         currentPage # "logs" => es' = 0 /\ ~reconnectTimer' /\ (typed' => unmounted')
  PROVE  Single' /\ Owned'
<1>1. streams' \subseteq {es'} /\ (reconnectTimer' => es' = 0)
  BY TidyAfter
<1>2. Single'
  BY DEF Single
<1>3. Owned'
  BY <1>1 DEF Owned
<1>4. QED
  BY <1>2, <1>3

LEMMA AloneStep ==
  ASSUME TypeOK, QuietWhenAway, Alone, [Next]_vars
  PROVE  Alone'
<1> SUFFICES ASSUME ~overlap' PROVE Single' /\ Owned'
  BY DEF Alone
<1>1. overlap \in BOOLEAN /\ Now \in LogState /\ Quiet(Now)
  BY NowFacts DEF TypeOK
<1>2. ~overlap
  <2>1. \A p \in Views : Navigate(p) => (overlap => overlap')
    BY DEF Navigate
  <2>2. \A n \in loading : Mount(n) \/ ImportFails(n) => (overlap => overlap')
    BY DEF Mount, ImportFails
  <2>3. SnapshotAnswered \/ Refreshed \/ SetParams \/ TimerFires
          => (overlap => overlap')
    BY DEF SnapshotAnswered, Refreshed, SetParams, TimerFires
  <2>4. \A p \in table.asked : Loaded(p) => (overlap => overlap')
    BY DEF Loaded
  <2>5. ChangeLevel \/ Type \/ Debounced \/ Pause \/ Resume => (overlap => overlap')
    BY DEF ChangeLevel, Type, Debounced, Pause, Resume, Click
  <2>6. \A s \in streams : StreamBreaks(s) => (overlap => overlap')
    BY DEF StreamBreaks
  <2>7. UNCHANGED vars => (overlap => overlap')
    BY DEF vars
  <2>8. QED
    BY <2>1, <2>2, <2>3, <2>4, <2>5, <2>6, <2>7 DEF Next
<1>3. Single /\ Owned /\ Tidy(Now)
  BY <1>2, NowFacts DEF Alone, Owned
<1>4. ASSUME NEW p \in Views, Navigate(p) PROVE Single' /\ Owned'
  <2>1. /\ loading = {} /\ mounts = 0 /\ dash.awaiting = 0
        /\ mounts' = 0 /\ currentPage' = "none" /\ root' = "state" /\ typed' = typed
    BY <1>4 DEF Navigate
  <2>2. streams' = {} /\ es' = 0 /\ ~reconnectTimer' /\ (typed' => unmounted')
    <3>1. CASE currentPage = "logs"
      <4> DEFINE m == [Now EXCEPT !.unmounted = TRUE]
      <4>1. m \in LogState /\ Tidy(m) /\ Become(Closed(m)) /\ m.unmounted
        BY <1>1, <1>3, <1>4, <3>1 DEF Navigate, LogState, Tidy
      <4>2. /\ Closed(m).es = 0 /\ ~Closed(m).timer /\ Closed(m).unmounted
            /\ Closed(m).streams = {}
        <5> HIDE DEF m
        <5>1. QED
          BY <4>1, ClosedFacts DEF Keeps
      <4>3. QED
        BY <4>1, <4>2 DEF Become
    <3>2. CASE currentPage # "logs"
      <4>1. UNCHANGED logs
        BY <1>4, <3>2 DEF Navigate
      <4>2. streams = {}
        BY <1>3, <3>2 DEF Owned, TypeOK
      <4>3. QED
        BY <1>3, <2>1, <3>2, <4>1, <4>2 DEF Owned, logs
    <3>3. QED
      BY <3>1, <3>2
  <2>3. dash'.awaiting = 0 /\ dash'.intervals = {}
    <3>1. CASE currentPage = "dashboard"
      <4>1. dash' = Unmounted(dash)
        BY <1>4, <3>1 DEF Navigate
      <4>2. /\ Unmounted(dash).awaiting = dash.awaiting
            /\ Unmounted(dash).intervals = dash.intervals \ {dash.timer}
        BY DEF Unmounted, TypeOK, Dashboards
      <4>3. QED
        BY <1>3, <2>1, <4>1, <4>2 DEF Owned
    <3>2. CASE currentPage # "dashboard"
      BY <1>3, <1>4, <2>1, <3>2 DEF Navigate, Owned
    <3>3. QED
      BY <3>1, <3>2
  <2>4. \A a, b \in loading' : a = b
    BY <1>4, <2>1 DEF Navigate
  <2>5. QED
    BY <2>1, <2>2, <2>3, <2>4 DEF Single, Owned
<1>5. ASSUME NEW n \in loading, Mount(n) PROVE Single' /\ Owned'
  <2>1. /\ loading' = {} /\ currentPage = "none" /\ mounts = 0 /\ dash.awaiting = 0
        /\ es = 0 /\ ~reconnectTimer /\ dash.intervals = {} /\ streams = {}
    BY <1>3, <1>5 DEF Mount, Single, Owned, TypeOK
  <2>2. /\ currentPage' = n.page /\ root' = n.page /\ n.page \in Views
        /\ typed' = typed
    BY <1>5 DEF Mount, TypeOK
  <2>3. /\ es' = 0 /\ ~reconnectTimer' /\ streams' = {}
        /\ n.page = "logs" => mounts' = 1
        /\ n.page # "logs" => mounts' = 0 /\ unmounted' = unmounted
    <3>1. CASE n.page = "logs"
      BY <1>5, <2>1, <3>1 DEF Mount, Become, Now
    <3>2. CASE n.page # "logs"
      BY <1>5, <2>1, <3>2 DEF Mount, logs
    <3>3. QED
      BY <3>1, <3>2
  <2>4. /\ dash'.intervals = {}
        /\ n.page = "dashboard" => dash'.awaiting = 1
        /\ n.page # "dashboard" => dash'.awaiting = 0
    BY <1>5, <2>1 DEF Mount, TypeOK, Dashboards
  <2>5. typed => unmounted
    BY <1>3, <2>1 DEF Owned
  <2>6. Single'
    BY <2>1, <2>2, <2>3, <2>4 DEF Single
  <2>7. Owned'
    BY <2>1, <2>2, <2>3, <2>4, <2>5 DEF Owned
  <2>8. QED
    BY <2>6, <2>7
<1>6. ASSUME NEW n \in loading, ImportFails(n) PROVE Single' /\ Owned'
  <2>1. UNCHANGED <<currentPage, mounts, dash, typed, unmounted, es, streams,
                    reconnectTimer>>
    BY <1>6 DEF ImportFails, logs
  <2>2. loading' \subseteq loading /\ root' = "state"
    BY <1>6 DEF ImportFails
  <2>3. QED
    BY <1>3, <2>1, <2>2 DEF Single, Owned
<1>7. CASE SnapshotAnswered
  <2>1. /\ mounts = 1 /\ currentPage = "logs" /\ es = 0 /\ ~reconnectTimer
        /\ mounts' = 0
    BY <1>3, <1>7 DEF SnapshotAnswered, Single
  <2>2. Opened(Now) \in LogState /\ Tidy(Opened(Now))
    BY <1>1, <1>3, <2>1, OpenedFacts DEF Keeps, Now
  <2>3. Become(Opened(Now)) /\ UNCHANGED <<loading, currentPage, root, dash>>
    BY <1>7 DEF SnapshotAnswered, router
  <2>4. QED
    BY <1>3, <2>1, <2>2, <2>3, LogsPageStep
<1>8. CASE Refreshed
  <2>1. /\ dash.awaiting = 1 /\ currentPage = "dashboard" /\ dash.intervals = {}
    BY <1>3, <1>8 DEF Refreshed, Single
  <2>2. dash'.awaiting = 0 /\ dash'.intervals = {dash'.timer}
    BY <1>8, <2>1 DEF Refreshed, TypeOK, Dashboards
  <2>3. UNCHANGED <<loading, currentPage, root, mounts, typed, unmounted, es,
                    streams, reconnectTimer>>
    BY <1>8 DEF Refreshed, router, logs
  <2>4. QED
    BY <1>3, <2>1, <2>2, <2>3 DEF Single, Owned
<1>9. CASE ChangeLevel \/ Debounced
  <2>1. mounts = 0 /\ mounts' = mounts /\ (typed' => typed)
    <3>1. CASE ChangeLevel
      BY <3>1 DEF ChangeLevel, Click
    <3>2. CASE Debounced
      BY <3>2 DEF Debounced
    <3>3. QED
      BY <1>9, <3>1, <3>2
  <2>2. Become(Reconnected(Now)) /\ UNCHANGED <<loading, currentPage, root, dash>>
    BY <1>9 DEF ChangeLevel, Debounced, Click, router
  <2>3. Keeps(Now, Reconnected(Now)) /\ Tidy(Reconnected(Now))
    BY <1>1, <1>3, ReconnectedFacts
  <2>4. ASSUME currentPage # "logs"
        PROVE  es' = 0 /\ ~reconnectTimer' /\ (typed' => unmounted')
    <3>1. unmounted
      <4>1. CASE ChangeLevel
        BY <1>3, <2>4, <4>1 DEF ChangeLevel, Click, Owned
      <4>2. CASE Debounced
        BY <1>3, <2>4, <4>2 DEF Debounced, Owned
      <4>3. QED
        BY <1>9, <4>1, <4>2
    <3>2. Now.unmounted
      BY <3>1 DEF Now
    <3>3. Reconnected(Now).es = 0 /\ ~Reconnected(Now).timer /\ Reconnected(Now).unmounted
      BY <1>1, <2>3, <3>2 DEF Keeps
    <3>4. QED
      BY <2>2, <3>3 DEF Become
  <2>5. Reconnected(Now) \in LogState
    BY <2>3 DEF Keeps
  <2>6. QED
    BY <1>3, <2>1, <2>2, <2>3, <2>4, <2>5, LogsPageStep
<1>10. CASE Type
  <2>1. /\ root = "logs" /\ mounts' = mounts
        /\ UNCHANGED <<loading, currentPage, root, dash, unmounted, es, streams,
                       reconnectTimer>>
    BY <1>10 DEF Type, Click, router, logs
  <2>2. currentPage = "logs"
    BY <1>3, <2>1 DEF Owned
  <2>3. Single'
    BY <1>3, <2>1 DEF Single
  <2>4. Owned'
    BY <1>3, <2>1, <2>2 DEF Owned
  <2>5. QED
    BY <2>3, <2>4
<1>11. CASE Pause
  <2> DEFINE m == [Now EXCEPT !.paused = TRUE]
  <2>1. /\ m \in LogState /\ Tidy(m) /\ Become(Closed(m)) /\ mounts' = mounts
        /\ root = "logs" /\ UNCHANGED <<loading, currentPage, root, dash>>
    BY <1>1, <1>3, <1>11 DEF Pause, Click, router, LogState, Tidy
  <2> HIDE DEF m
  <2>2. /\ Closed(m) \in LogState /\ Closed(m).es = 0 /\ ~Closed(m).timer
        /\ Tidy(Closed(m))
    BY <2>1, ClosedFacts DEF Keeps, Tidy
  <2>3. es' = 0 /\ ~reconnectTimer' /\ currentPage = "logs"
    BY <1>3, <2>1, <2>2 DEF Become, Owned
  <2>4. QED
    BY <1>3, <2>1, <2>2, <2>3, LogsPageStep
<1>12. CASE Resume
  <2> DEFINE m == [Now EXCEPT !.paused = FALSE]
  <2>1. /\ m \in LogState /\ Tidy(m) /\ Become(Opened(m)) /\ mounts' = mounts
        /\ root = "logs" /\ mounts = 0
        /\ UNCHANGED <<loading, currentPage, root, dash>>
    BY <1>1, <1>3, <1>12 DEF Resume, Click, router, LogState, Tidy
  <2>2. m.es = 0 /\ ~m.timer
    BY <1>1, <1>12 DEF Resume, QuietWhenAway, Now, LogState
  <2> HIDE DEF m
  <2>3. Opened(m) \in LogState /\ Tidy(Opened(m))
    BY <2>1, <2>2, OpenedFacts DEF Keeps
  <2>4. currentPage = "logs"
    BY <1>3, <2>1 DEF Owned
  <2>5. QED
    BY <1>3, <2>1, <2>3, <2>4, LogsPageStep
<1>13. ASSUME NEW s \in streams, StreamBreaks(s) PROVE Single' /\ Owned'
  <2>1. /\ es # 0 /\ currentPage = "logs" /\ mounts = 0
    BY <1>3, <1>13 DEF Single, Owned, TypeOK
  <2>2. /\ Become(Broken(Now)) /\ mounts' = mounts
        /\ UNCHANGED <<loading, currentPage, root, dash>>
    BY <1>13 DEF StreamBreaks, router
  <2>3. Broken(Now) \in LogState /\ Tidy(Broken(Now))
    BY <1>1, <1>3, BrokenFacts DEF Keeps
  <2>4. QED
    BY <1>3, <2>1, <2>2, <2>3, LogsPageStep
<1>14. CASE TimerFires
  <2> DEFINE m == [Now EXCEPT !.timer = FALSE]
  <2>1. /\ m \in LogState /\ Tidy(m) /\ Become(Opened(m)) /\ mounts' = mounts
        /\ m.es = es /\ ~m.timer /\ reconnectTimer
        /\ UNCHANGED <<loading, currentPage, root, dash>>
    BY <1>1, <1>3, <1>14 DEF TimerFires, router, LogState, Tidy, Now
  <2>2. es = 0 /\ mounts = 0 /\ currentPage = "logs"
    BY <1>3, <2>1 DEF Single, Owned
  <2> HIDE DEF m
  <2>3. Opened(m) \in LogState /\ Tidy(Opened(m))
    BY <2>1, <2>2, OpenedFacts DEF Keeps
  <2>4. QED
    BY <1>3, <2>1, <2>2, <2>3, LogsPageStep
<1>15. ASSUME UNCHANGED <<router, logs, mounts, typed, dash>>
       PROVE  Single' /\ Owned'
  BY <1>3, <1>15 DEF router, logs, Single, Owned
<1>16. \A p \in table.asked : Loaded(p) => UNCHANGED <<router, logs, mounts, typed, dash>>
  BY DEF Loaded
<1>17. SetParams \/ UNCHANGED vars => UNCHANGED <<router, logs, mounts, typed, dash>>
  BY DEF SetParams, vars, router, logs
<1>18. QED
  BY <1>4, <1>5, <1>6, <1>7, <1>8, <1>9, <1>10, <1>11, <1>12, <1>13, <1>14, <1>15,
     <1>16, <1>17 DEF Next

-----------------------------------------------------------------------------
LEMMA Start == Init => IInv
<1> SUFFICES ASSUME Init PROVE IInv
  OBVIOUS
<1>1. NoDash \in Dashboards /\ NoTable \in Tables
  BY DEF NoDash, Dashboards, NoTable, Tables
<1>2. TypeOK
  <2>1. PICK p \in Views : loading = {[nr |-> 1, page |-> p]}
    BY DEF Init
  <2>2. loading \subseteq [nr : Nat, page : Views]
    BY <2>1
  <2>3. QED
    BY <1>1, <2>2 DEF Init, TypeOK
<1>3. QuietWhenAway /\ Rows
  BY DEF Init, QuietWhenAway, Rows, RowsOf, NoTable
<1>4. Single /\ Owned
  BY DEF Init, Single, Owned, NoDash
<1>5. QED
  BY <1>2, <1>3, <1>4 DEF IInv

LEMMA Step == IInv /\ [Next]_vars => IInv'
<1> SUFFICES ASSUME IInv, [Next]_vars PROVE IInv'
  OBVIOUS
<1>1. TypeOK' /\ QuietWhenAway'
  BY TypeStep DEF IInv
<1>2. Rows'
  BY TableStep DEF IInv
<1>3. Alone'
  BY AloneStep DEF IInv, Alone
<1>4. QED
  BY <1>1, <1>2, <1>3 DEF IInv, Alone

LEMMA Inductive == Spec => []IInv
  BY Start, Step, PTL DEF Spec

\* Every variable of the router, of the modules and of the table stays in its
\* range.
THEOREM TypeCorrect == Spec => []TypeOK
<1>1. IInv => TypeOK
  BY DEF IInv
<1>2. QED
  BY <1>1, Inductive, PTL

\* A page that was left, or paused, opens no stream and runs no timer, whatever
\* answers and errors still come (logs.js).
THEOREM AwayIsQuiet == Spec => []QuietWhenAway
<1>1. IInv => QuietWhenAway
  BY DEF IInv
<1>2. QED
  BY <1>1, Inductive, PTL

\* The rows of a table are those of its last request and, unless a change found
\* it loading, of its current parameters (components/table.js).
THEOREM RowsAreCurrent == Spec => []RowsAreNewest
<1>1. IInv => RowsAreNewest
  BY DEF IInv, Rows, RowsOf, RowsAreNewest
<1>2. QED
  BY <1>1, Inductive, PTL

\* Without an overlap every stream and interval is its module's, and only the
\* mounted page has one (router.js, logs.js, dashboard.js).
THEOREM LeavingCleansUp == Spec => []NothingLeftBehind
<1>1. IInv => NothingLeftBehind
  <2> SUFFICES ASSUME IInv, ~overlap
               PROVE  /\ streams \subseteq {es} /\ (streams # {} => currentPage = "logs")
                      /\ dash.intervals \subseteq {dash.timer}
                      /\ dash.intervals # {} => currentPage = "dashboard"
    BY DEF NothingLeftBehind
  <2>1. TypeOK /\ Owned
    BY DEF IInv
  <2>2. currentPage # "logs" => streams = {}
    BY <2>1 DEF Owned, TypeOK
  <2>3. QED
    BY <2>1, <2>2 DEF Owned
<1>2. QED
  BY <1>1, Inductive, PTL

-----------------------------------------------------------------------------
(***************************************************************************)
(* LogStream: sequences whose records come in order.  0, a record of the   *)
(* backend's own, may stand anywhere.                                      *)
(***************************************************************************)
\* What is in X comes before what is in Y.
Below(X, Y) == \A x \in X, y \in Y : x # 0 /\ y # 0 => x < y

LEMMA EmptyFacts == Range(<<>>) = {} /\ InOrder(<<>>)
BY DEF Range, InOrder

LEMMA AppendFacts ==
  ASSUME NEW s \in Seq(Nat), NEW e \in Nat
  PROVE  /\ Range(Append(s, e)) = Range(s) \cup {e}
         /\ InOrder(s) /\ Below(Range(s), {e}) => InOrder(Append(s, e))
<1>1. /\ Len(Append(s, e)) = Len(s) + 1 /\ Append(s, e)[Len(s) + 1] = e
      /\ \A i \in 1..Len(s) : Append(s, e)[i] = s[i]
      /\ Len(s) \in Nat /\ DOMAIN s = 1..Len(s) /\ DOMAIN Append(s, e) = 1..(Len(s) + 1)
  OBVIOUS
<1>2. Range(Append(s, e)) = Range(s) \cup {e}
  BY <1>1 DEF Range
<1>3. ASSUME InOrder(s), Below(Range(s), {e}) PROVE InOrder(Append(s, e))
  BY <1>1, <1>3 DEF InOrder, Below, Range
<1>4. QED
  BY <1>2, <1>3

LEMMA TailFacts ==
  ASSUME NEW s \in Seq(Nat), s # <<>>
  PROVE  /\ Range(s) = {Head(s)} \cup Range(Tail(s))
         /\ Head(s) \in Nat /\ Tail(s) \in Seq(Nat)
         /\ InOrder(s) => InOrder(Tail(s)) /\ Below({Head(s)}, Range(Tail(s)))
<1>1. /\ Len(s) \in Nat \ {0} /\ Len(Tail(s)) = Len(s) - 1 /\ Head(s) = s[1]
      /\ \A i \in 1..Len(Tail(s)) : Tail(s)[i] = s[i + 1]
      /\ DOMAIN s = 1..Len(s) /\ DOMAIN Tail(s) = 1..(Len(s) - 1)
      /\ Tail(s) \in Seq(Nat) /\ Head(s) \in Nat
  OBVIOUS
<1>2. \A i \in DOMAIN s : i = 1 \/ (i - 1 \in DOMAIN Tail(s) /\ s[i] = Tail(s)[i - 1])
  BY <1>1
<1>3. \A i \in DOMAIN Tail(s) : i + 1 \in DOMAIN s /\ 1 < i + 1 /\ Tail(s)[i] = s[i + 1]
  BY <1>1
<1>4. 1 \in DOMAIN s /\ s[1] = Head(s)
  BY <1>1
<1>5. Range(s) = {Head(s)} \cup Range(Tail(s))
  <2>1. Range(s) \subseteq {Head(s)} \cup Range(Tail(s))
    <3>1. ASSUME NEW i \in DOMAIN s PROVE s[i] \in {Head(s)} \cup Range(Tail(s))
      <4>1. CASE i = 1
        BY <1>4, <4>1
      <4>2. CASE i # 1
        <5>1. i - 1 \in DOMAIN Tail(s) /\ s[i] = Tail(s)[i - 1]
          BY <1>2, <4>2
        <5>2. QED
          BY <5>1 DEF Range
      <4>3. QED
        BY <4>1, <4>2
    <3>2. QED
      BY <3>1 DEF Range
  <2>2. Range(Tail(s)) \subseteq Range(s) /\ Head(s) \in Range(s)
    BY <1>3, <1>4 DEF Range
  <2>3. QED
    BY <2>1, <2>2
<1>6. ASSUME InOrder(s) PROVE InOrder(Tail(s)) /\ Below({Head(s)}, Range(Tail(s)))
  <2>1. ASSUME NEW i \in DOMAIN Tail(s), NEW k \in DOMAIN Tail(s), i < k,
               Tail(s)[i] # 0, Tail(s)[k] # 0
        PROVE  Tail(s)[i] < Tail(s)[k]
    <3>1. i + 1 < k + 1
      BY <1>1, <2>1
    <3>2. QED
      BY <1>3, <1>6, <2>1, <3>1 DEF InOrder
  <2>2. ASSUME NEW i \in DOMAIN Tail(s), Head(s) # 0, Tail(s)[i] # 0
        PROVE  Head(s) < Tail(s)[i]
    BY <1>3, <1>4, <1>6, <2>2 DEF InOrder
  <2>3. QED
    BY <2>1, <2>2 DEF InOrder, Below, Range
<1>7. QED
  BY <1>1, <1>5, <1>6

LEMMA ConcatFacts ==
  ASSUME NEW s \in Seq(Nat), NEW r \in Seq(Nat)
  PROVE  /\ Range(s \o r) = Range(s) \cup Range(r)
         /\ InOrder(s) /\ InOrder(r) /\ Below(Range(s), Range(r)) => InOrder(s \o r)
<1>1. /\ Len(s \o r) = Len(s) + Len(r) /\ s \o r \in Seq(Nat)
      /\ Len(s) \in Nat /\ Len(r) \in Nat
      /\ DOMAIN s = 1..Len(s) /\ DOMAIN r = 1..Len(r)
      /\ DOMAIN (s \o r) = 1..(Len(s) + Len(r))
  OBVIOUS
<1>2. \A i \in 1..(Len(s) + Len(r)) :
        (s \o r)[i] = IF i <= Len(s) THEN s[i] ELSE r[i - Len(s)]
  BY ConcatProperties, Zenon
<1>3. /\ \A i \in DOMAIN s : (s \o r)[i] = s[i]
      /\ \A i \in DOMAIN (s \o r) :
           i \notin DOMAIN s => i > Len(s) /\ i - Len(s) \in DOMAIN r
                                  /\ (s \o r)[i] = r[i - Len(s)]
  <2>1. ASSUME NEW i \in DOMAIN s PROVE (s \o r)[i] = s[i]
    BY <1>1, <1>2
  <2>2. ASSUME NEW i \in DOMAIN (s \o r), i \notin DOMAIN s
        PROVE  i > Len(s) /\ i - Len(s) \in DOMAIN r /\ (s \o r)[i] = r[i - Len(s)]
    <3>1. i \in 1..(Len(s) + Len(r)) /\ i > Len(s) /\ i - Len(s) \in 1..Len(r)
      BY <1>1, <2>2
    <3>2. QED
      BY <1>1, <1>2, <3>1
  <2>3. QED
    BY <2>1, <2>2
<1>4. Range(s \o r) = Range(s) \cup Range(r)
  BY RangeConcatenation
<1>5. ASSUME InOrder(s), InOrder(r), Below(Range(s), Range(r)) PROVE InOrder(s \o r)
  <2>1. SUFFICES ASSUME NEW i \in DOMAIN (s \o r), NEW j \in DOMAIN (s \o r), i < j,
                        (s \o r)[i] # 0, (s \o r)[j] # 0
                 PROVE  (s \o r)[i] < (s \o r)[j]
    BY DEF InOrder
  <2>2. CASE j \in DOMAIN s
    BY <1>1, <1>3, <1>5, <2>1, <2>2 DEF InOrder
  <2>3. CASE i \notin DOMAIN s /\ j \notin DOMAIN s
    <3>1. /\ i - Len(s) \in DOMAIN r /\ j - Len(s) \in DOMAIN r
          /\ (s \o r)[i] = r[i - Len(s)] /\ (s \o r)[j] = r[j - Len(s)]
      BY <1>3, <2>1, <2>3
    <3>2. i - Len(s) < j - Len(s)
      BY <1>1, <2>1
    <3>3. QED
      BY <1>5, <2>1, <3>1, <3>2 DEF InOrder
  <2>4. CASE i \in DOMAIN s /\ j \notin DOMAIN s
    BY <1>1, <1>3, <1>5, <2>1, <2>4 DEF Below, Range
  <2>5. QED
    BY <1>1, <2>2, <2>3, <2>4
<1>6. QED
  BY <1>4, <1>5

-----------------------------------------------------------------------------
(***************************************************************************)
(* Four sequences in a row: the ring's, the post's, the buffer's and the   *)
(* queue's records.                                                        *)
(***************************************************************************)
Row(a, b, c, d, n) ==
  /\ InOrder(a) /\ InOrder(b) /\ InOrder(c) /\ InOrder(d)
  /\ Below(Range(a), Range(b) \cup Range(c) \cup Range(d))
  /\ Below(Range(b), Range(c) \cup Range(d)) /\ Below(Range(c), Range(d))
  /\ \A r \in Range(a) \cup Range(b) \cup Range(c) \cup Range(d) : r < n

Contents(a, b, c, d) == (Range(a) \cup Range(b) \cup Range(c) \cup Range(d)) \ {0}

\* A row is in order as one sequence, and nothing else is in it.
LEMMA RowIsInOrder ==
  ASSUME NEW a \in Seq(Nat), NEW b \in Seq(Nat), NEW c \in Seq(Nat), NEW d \in Seq(Nat)
  PROVE  /\ Range(a \o (b \o c \o d)) \ {0} = Contents(a, b, c, d)
         /\ \A n : Row(a, b, c, d, n) => InOrder(a \o (b \o c \o d))
<1>1. b \o c \in Seq(Nat) /\ (b \o c) \o d \in Seq(Nat)
  OBVIOUS
<1>2. /\ Range(b \o c) = Range(b) \cup Range(c)
      /\ Range((b \o c) \o d) = Range(b \o c) \cup Range(d)
      /\ Range(a \o (b \o c \o d)) = Range(a) \cup Range(b \o c \o d)
  BY <1>1, ConcatFacts
<1>3. ASSUME NEW n, Row(a, b, c, d, n) PROVE InOrder(a \o (b \o c \o d))
  <2>1. InOrder(b \o c)
    BY <1>3, ConcatFacts DEF Row, Below
  <2>2. Below(Range(b \o c), Range(d))
    BY <1>2, <1>3 DEF Row, Below
  <2>3. InOrder((b \o c) \o d)
    BY <1>1, <1>3, <2>1, <2>2, ConcatFacts DEF Row
  <2>4. Below(Range(a), Range(b \o c \o d))
    BY <1>2, <1>3 DEF Row, Below
  <2>5. QED
    BY <1>1, <1>3, <2>3, <2>4, ConcatFacts DEF Row
<1>4. QED
  BY <1>2, <1>3 DEF Contents

\* A record enters at the end.
LEMMA RowGrows ==
  ASSUME NEW a \in Seq(Nat), NEW b \in Seq(Nat), NEW c \in Seq(Nat), NEW d \in Seq(Nat),
         NEW n \in Nat \ {0}
  PROVE  /\ Row(a, b, c, d, n) => Row(a, b, c, Append(d, n), n + 1)
         /\ Contents(a, b, c, Append(d, n)) = Contents(a, b, c, d) \cup {n}
<1>1. Range(Append(d, n)) = Range(d) \cup {n}
  BY AppendFacts
<1>2. ASSUME Row(a, b, c, d, n) PROVE Row(a, b, c, Append(d, n), n + 1)
  <2>1. Below(Range(d), {n}) /\ Below(Range(a), {n}) /\ Below(Range(b), {n})
          /\ Below(Range(c), {n})
    BY <1>2 DEF Row, Below
  <2>2. InOrder(Append(d, n))
    BY <1>2, <2>1, AppendFacts DEF Row
  <2>3. \A r \in Range(a) \cup Range(b) \cup Range(c) \cup Range(d) \cup {n} : r < n + 1
    <3>1. \A r \in Range(a) \cup Range(b) \cup Range(c) \cup Range(d) : r \in Nat
      BY RangeOfSeq
    <3>2. QED
      BY <1>2, <3>1 DEF Row
  <2>4. QED
    BY <1>1, <1>2, <2>1, <2>2, <2>3 DEF Row, Below
<1>3. QED
  BY <1>1, <1>2 DEF Contents

\* The backend's own record enters at the end of the ring.
LEMMA RowGetsOwn ==
  ASSUME NEW a \in Seq(Nat), NEW b, NEW c, NEW d, NEW n \in Nat \ {0}
  PROVE  /\ Row(a, b, c, d, n) => Row(Append(a, 0), b, c, d, n)
         /\ Contents(Append(a, 0), b, c, d) = Contents(a, b, c, d)
<1>1. Range(Append(a, 0)) = Range(a) \cup {0}
  BY AppendFacts
<1>2. Row(a, b, c, d, n) => InOrder(Append(a, 0))
  BY AppendFacts DEF Row, Below
<1>3. QED
  BY <1>1, <1>2 DEF Row, Below, Contents

\* The head of the queue moves to the end of the buffer, ...
LEMMA RowTakes ==
  ASSUME NEW a, NEW b, NEW c \in Seq(Nat), NEW d \in Seq(Nat), d # <<>>, NEW n
  PROVE  /\ Row(a, b, c, d, n) => Row(a, b, Append(c, Head(d)), Tail(d), n)
         /\ Contents(a, b, Append(c, Head(d)), Tail(d)) = Contents(a, b, c, d)
<1>1. /\ Range(d) = {Head(d)} \cup Range(Tail(d)) /\ Head(d) \in Nat
      /\ Range(Append(c, Head(d))) = Range(c) \cup {Head(d)}
  BY AppendFacts, TailFacts
<1>2. ASSUME Row(a, b, c, d, n) PROVE Row(a, b, Append(c, Head(d)), Tail(d), n)
  <2>1. InOrder(Tail(d)) /\ Below({Head(d)}, Range(Tail(d)))
    BY <1>2, TailFacts DEF Row
  <2>2. InOrder(Append(c, Head(d)))
    BY <1>1, <1>2, AppendFacts DEF Row, Below
  <2>3. QED
    BY <1>1, <1>2, <2>1, <2>2 DEF Row, Below
<1>3. QED
  BY <1>1, <1>2 DEF Contents

\* ... the buffer becomes the post, whatever becomes of an earlier one, ...
LEMMA RowFlushes ==
  ASSUME NEW a, NEW b, NEW c, NEW d, NEW n
  PROVE  /\ Row(a, b, c, d, n) => Row(a, c, <<>>, d, n)
         /\ b = <<>> => Contents(a, c, <<>>, d) = Contents(a, b, c, d)
BY EmptyFacts DEF Row, Below, Contents

\* ... and the post arrives in the ring.
LEMMA RowArrives ==
  ASSUME NEW a \in Seq(Nat), NEW b \in Seq(Nat), NEW c, NEW d, NEW n
  PROVE  /\ Row(a, b, c, d, n) => Row(a \o b, <<>>, c, d, n)
         /\ Contents(a \o b, <<>>, c, d) = Contents(a, b, c, d)
<1>1. Range(a \o b) = Range(a) \cup Range(b)
  BY ConcatFacts
<1>2. Row(a, b, c, d, n) => InOrder(a \o b)
  BY ConcatFacts DEF Row, Below
<1>3. QED
  BY <1>1, <1>2, EmptyFacts DEF Row, Below, Contents

\* Records that are lost leave the rest in order.
LEMMA RowLoses ==
  ASSUME NEW a, NEW b, NEW c, NEW d, NEW n, Row(a, b, c, d, n)
  PROVE  Row(a, <<>>, c, d, n) /\ Row(a, b, <<>>, <<>>, n)
BY EmptyFacts DEF Row, Below

-----------------------------------------------------------------------------
(***************************************************************************)
(* The inductive invariant.  Until a batch arrives late the records on     *)
(* their way form a row; until one is lost by design the row holds every   *)
(* record so far.  What a stream has sent and what waits in its queue are  *)
(* places announced since it subscribed, in order and with the newest.     *)
(***************************************************************************)
Ways ==
  /\ ~late => Row(pushed, post, buffer, queue, next)
  /\ ~spoilt => /\ life = "up" /\ ~late /\ adrift = <<>>
                /\ Contents(pushed, post, buffer, queue) = 1..(next - 1)

Stream(k, n) ==
  /\ k.at # "live" => k.queue = <<>> /\ k.got = <<>> /\ ~k.cut
  /\ k.at = "live" =>
       /\ k.since <= n
       /\ InOrder(k.got) /\ InOrder(k.queue) /\ Below(Range(k.got), Range(k.queue))
       /\ Range(k.got) \cup Range(k.queue) \subseteq 1..n
       /\ ~k.cut => k.got \o k.queue = Counted(k.since, n)
       /\ n > k.since => n \in Range(k.got) \cup Range(k.queue)

LogIInv == LogTypeOK /\ Ways /\ \A c \in Conns : Stream(conn[c], noted)

\* A connection's records have the fields the actions give them.
LEMMA SnapshotType ==
  ASSUME LogTypeOK PROVE Snapshot(Replay) \in Seq(Nat)
<1> DEFINE n == Least(Replay, Least(RingSize, Len(pushed)))
<1>1. Len(pushed) \in Nat /\ Replay \in Nat /\ RingSize \in Nat
  BY LogStreamAssumption DEF LogTypeOK
<1>2. n \in Nat /\ n <= Len(pushed)
  BY <1>1 DEF Least
<1>3. \A i \in 1..n : Len(pushed) - n + i \in Nat
  BY <1>1, <1>2
<1>4. QED
  BY <1>2, <1>3 DEF Snapshot

\* Steps of the bot.
LEMMA BotTypes ==
  ASSUME LogTypeOK, Bot
  PROVE  LogTypeOK'
<1> USE DEF LogTypeOK, bot, backend
<1>1. /\ \A s \in Seq(Nat \ {0}), e \in Nat \ {0} : Append(s, e) \in Seq(Nat \ {0})
      /\ \A s \in Seq(Nat \ {0}) : s # <<>> => /\ Tail(s) \in Seq(Nat \ {0})
                                               /\ Head(s) \in Nat \ {0}
      /\ <<>> \in Seq(Nat \ {0}) /\ next + 1 \in Nat \ {0}
  OBVIOUS
<1>2. \A s \in Seq(Nat \ {0}) : /\ pushed \o s \in Seq(Nat)
                                /\ noted \in 0..Len(pushed \o s)
  <2>1. SUFFICES ASSUME NEW s \in Seq(Nat \ {0})
                 PROVE  pushed \o s \in Seq(Nat) /\ noted \in 0..Len(pushed \o s)
    OBVIOUS
  <2>2. s \in Seq(Nat)
    BY SeqMonotonic
  <2>3. Len(pushed \o s) = Len(pushed) + Len(s) /\ Len(s) \in Nat /\ Len(pushed) \in Nat
    BY <2>2
  <2>4. QED
    BY <2>2, <2>3
<1>3. CASE Emit
  <2>1. queue' \in {queue, Append(queue, next)} /\ next' = next + 1 /\ spoilt' \in BOOLEAN
    BY <1>3 DEF Emit
  <2>2. queue' \in Seq(Nat \ {0}) /\ next' \in Nat \ {0}
    BY <1>1, <2>1
  <2>3. UNCHANGED <<life, polling, beat, buffer, due, post, adrift, backend, late, faults>>
    BY <1>3 DEF Emit
  <2>4. QED
    BY <2>1, <2>2, <2>3
<1>4. CASE Take
  <2>1. Append(buffer, Head(queue)) \in Seq(Nat \ {0})
    BY <1>1, <1>4 DEF Take
  <2>2. QED
    BY <1>1, <1>4, <2>1 DEF Take, AfterFlush, Deadline
<1>5. CASE TimeIsUp
  BY <1>1, <1>5 DEF TimeIsUp, AfterFlush
<1>6. CASE PostDone
  BY <1>1, <1>2, <1>6 DEF PostDone, AfterPost
<1>7. CASE PostFailed
  <2>1. /\ \/ queue' = Append(queue, next) /\ next' = next + 1
           \/ UNCHANGED <<queue, next>>
        /\ life' \in {"down", life} /\ post' = <<>> /\ adrift' = post /\ spoilt' = TRUE
        /\ faults' = faults + 1
        /\ UNCHANGED <<polling, beat, buffer, due, backend, late>>
    BY <1>7 DEF PostFailed, AfterPost
  <2>2. queue' \in Seq(Nat \ {0}) /\ next' \in Nat \ {0}
    BY <1>1, <2>1
  <2>3. QED
    BY <1>1, <2>1, <2>2
<1>8. CASE Arrives
  BY <1>1, <1>2, <1>8 DEF Arrives
<1>9. CASE Vanishes
  BY <1>1, <1>9 DEF Vanishes
<1>10. CASE Stop
  BY <1>1, <1>10 DEF Stop, AfterFlush
<1>11. CASE Kill
  BY <1>1, <1>11 DEF Kill
<1>12. CASE Restart
  BY <1>1, <1>12 DEF Restart
<1>13. CASE PollingEnds \/ Heartbeat \/ BeatAges
  BY <1>13 DEF PollingEnds, Heartbeat, BeatAges
<1>14. QED
  BY <1>3, <1>4, <1>5, <1>6, <1>7, <1>8, <1>9, <1>10, <1>11, <1>12, <1>13 DEF Bot

\* What the bot and the network do with the records, ...
LEMMA BotWays ==
  ASSUME LogTypeOK, Ways, Bot
  PROVE  Ways'
<1>1. /\ queue \in Seq(Nat) /\ buffer \in Seq(Nat) /\ post \in Seq(Nat)
      /\ pushed \in Seq(Nat) /\ <<>> \in Seq(Nat) /\ next \in Nat \ {0}
      /\ late \in BOOLEAN /\ spoilt \in BOOLEAN
  BY SeqMonotonic DEF LogTypeOK
<1>2. CASE Emit
  <2>1. CASE Len(queue) < QueueSize
    <3>1. /\ queue' = Append(queue, next) /\ next' = next + 1
          /\ UNCHANGED <<pushed, post, buffer, late, spoilt, life, adrift>>
      BY <1>2, <2>1 DEF Emit, backend
    <3>2. ~late => Row(pushed, post, buffer, queue', next')
      BY <1>1, <3>1, RowGrows DEF Ways
    <3>3. ~spoilt => Contents(pushed, post, buffer, queue') = 1..(next' - 1)
      <4>1. Contents(pushed, post, buffer, queue')
              = Contents(pushed, post, buffer, queue) \cup {next}
        BY <1>1, <3>1, RowGrows
      <4>2. 1..(next' - 1) = 1..(next - 1) \cup {next}
        BY <1>1, <3>1
      <4>3. QED
        BY <4>1, <4>2 DEF Ways
    <3>4. QED
      BY <3>1, <3>2, <3>3 DEF Ways
  <2>2. CASE ~(Len(queue) < QueueSize)
    <3>1. /\ spoilt' /\ next' = next + 1
          /\ UNCHANGED <<pushed, post, buffer, queue, late>>
      BY <1>2, <2>2 DEF Emit, backend
    <3>2. ~late => Row(pushed, post, buffer, Append(queue, next), next + 1)
      BY <1>1, RowGrows DEF Ways
    <3>3. Range(Append(queue, next)) = Range(queue) \cup {next}
      BY <1>1, AppendFacts
    <3>4. ~late => Row(pushed, post, buffer, queue, next + 1)
      BY <3>2, <3>3 DEF Row, Ways
    <3>5. QED
      BY <3>1, <3>4 DEF Ways
  <2>3. QED
    BY <2>1, <2>2
<1>3. CASE Take
  <2> DEFINE b == Append(buffer, Head(queue))
  <2>1. /\ post = <<>> /\ queue # <<>> /\ queue' = Tail(queue)
        /\ \/ post' = b /\ buffer' = <<>>
           \/ post' = <<>> /\ buffer' = b
        /\ UNCHANGED <<pushed, next, late, spoilt, life, adrift>>
    BY <1>3 DEF Take, Idle, AfterFlush, backend
  <2>2. /\ ~late => Row(pushed, post, b, Tail(queue), next)
        /\ Contents(pushed, post, b, Tail(queue)) = Contents(pushed, post, buffer, queue)
    <3>1. /\ Row(pushed, post, buffer, queue, next) => Row(pushed, post, b, Tail(queue), next)
          /\ Contents(pushed, post, b, Tail(queue)) = Contents(pushed, post, buffer, queue)
      BY <1>1, <2>1, RowTakes, Zenon
    <3>2. QED
      BY <3>1 DEF Ways
  <2>3. /\ ~late => Row(pushed, b, <<>>, Tail(queue), next)
        /\ Contents(pushed, b, <<>>, Tail(queue)) = Contents(pushed, post, buffer, queue)
    BY <2>1, <2>2, RowFlushes
  <2>4. QED
    BY <2>1, <2>2, <2>3 DEF Ways
<1>4. CASE TimeIsUp
  <2>1. /\ post = <<>> /\ post' = buffer /\ buffer' = <<>>
        /\ UNCHANGED <<pushed, queue, next, late, spoilt, life, adrift>>
    BY <1>4 DEF TimeIsUp, Idle, AfterFlush, backend
  <2>2. QED
    BY <2>1, RowFlushes DEF Ways
<1>5. CASE PostDone
  <2>1. /\ pushed' = pushed \o post /\ post' = <<>> /\ (life = "up" => life' = "up")
        /\ UNCHANGED <<buffer, queue, next, late, spoilt, adrift>>
    BY <1>5 DEF PostDone, AfterPost
  <2>2. QED
    BY <1>1, <2>1, RowArrives DEF Ways
<1>6. CASE PostFailed
  <2>1. /\ post' = <<>> /\ spoilt' /\ UNCHANGED <<pushed, buffer, late>>
        /\ \/ queue' = Append(queue, next) /\ next' = next + 1
           \/ UNCHANGED <<queue, next>>
    BY <1>6 DEF PostFailed, AfterPost, backend
  <2>2. ~late => Row(pushed, <<>>, buffer, queue, next)
    BY RowLoses DEF Ways
  <2>3. ~late => Row(pushed, <<>>, buffer, queue', next')
    <3>1. Row(pushed, <<>>, buffer, queue, next)
            => Row(pushed, <<>>, buffer, Append(queue, next), next + 1)
      BY <1>1, RowGrows, Zenon
    <3>2. QED
      BY <2>1, <2>2, <3>1
  <2>4. QED
    BY <2>1, <2>3 DEF Ways
<1>7. CASE Arrives
  BY <1>1, <1>7 DEF Arrives, Ways, bot
<1>8. CASE Vanishes
  BY <1>8 DEF Vanishes, Ways, bot, backend
<1>9. CASE Stop
  <2>1. /\ spoilt' /\ post' = buffer /\ buffer' = <<>>
        /\ UNCHANGED <<pushed, queue, next, late>>
    BY <1>9 DEF Stop, AfterFlush, backend
  <2>2. QED
    BY <2>1, RowFlushes DEF Ways
<1>10. CASE Kill
  <2>1. /\ spoilt' /\ post' = <<>> /\ UNCHANGED <<pushed, buffer, queue, next, late>>
    BY <1>10 DEF Kill, backend
  <2>2. QED
    BY <2>1, RowLoses DEF Ways
<1>11. CASE Restart
  <2>1. /\ spoilt /\ queue' = <<>> /\ buffer' = <<>>
        /\ UNCHANGED <<pushed, post, next, late, spoilt>>
    BY <1>1, <1>11 DEF Restart, Ways, backend
  <2>2. QED
    BY <2>1, RowLoses DEF Ways
<1>12. CASE PollingEnds \/ Heartbeat \/ BeatAges
  <2>1. UNCHANGED <<life, next, queue, buffer, post, spoilt, adrift, pushed, late>>
    BY <1>12 DEF PollingEnds, Heartbeat, BeatAges, backend
  <2>2. QED
    BY <2>1 DEF Ways
<1>13. QED
  BY <1>2, <1>3, <1>4, <1>5, <1>6, <1>7, <1>8, <1>9, <1>10, <1>11, <1>12 DEF Bot

-----------------------------------------------------------------------------
(***************************************************************************)
(* The streams.                                                            *)
(***************************************************************************)
LEMMA CountedFacts ==
  ASSUME NEW m \in Nat, NEW n \in Nat, m <= n
  PROVE  /\ Counted(m, m) = <<>>
         /\ Counted(m, n) \in Seq(Nat)
         /\ Append(Counted(m, n), n + 1) = Counted(m, n + 1)
<1>1. Counted(m, m) = <<>>
  BY DEF Counted
<1>2. n - m \in Nat /\ n + 1 - m \in Nat /\ n + 1 - m = (n - m) + 1
  OBVIOUS
<1>3. \A i \in 1..(n + 1 - m) : m + i \in Nat
  BY <1>2
<1>4. /\ Counted(m, n) \in Seq(Nat) /\ Len(Counted(m, n)) = n - m
      /\ Counted(m, n + 1) \in Seq(Nat) /\ Len(Counted(m, n + 1)) = n + 1 - m
  BY <1>2, <1>3 DEF Counted
<1>5. /\ Append(Counted(m, n), n + 1) \in Seq(Nat)
      /\ Len(Append(Counted(m, n), n + 1)) = n + 1 - m
  BY <1>2, <1>4
<1>6. \A i \in 1..(n + 1 - m) : Append(Counted(m, n), n + 1)[i] = Counted(m, n + 1)[i]
  <2>1. SUFFICES ASSUME NEW i \in 1..(n + 1 - m)
                 PROVE  Append(Counted(m, n), n + 1)[i] = Counted(m, n + 1)[i]
    OBVIOUS
  <2>2. CASE i \in 1..(n - m)
    <3>1. Append(Counted(m, n), n + 1)[i] = Counted(m, n)[i]
      BY <1>4, <2>2
    <3>2. QED
      BY <2>1, <2>2, <3>1 DEF Counted
  <2>3. CASE i = n - m + 1
    <3>1. Append(Counted(m, n), n + 1)[i] = n + 1
      BY <1>4, <2>3
    <3>2. m + i = n + 1
      BY <2>3
    <3>3. Counted(m, n + 1)[i] = m + i
      BY <2>1 DEF Counted
    <3>4. QED
      BY <3>1, <3>2, <3>3
  <2>4. i \in 1..(n - m) \/ i = n - m + 1
    BY <2>1
  <2>5. QED
    BY <2>2, <2>3, <2>4
<1>7. QED
  BY <1>1, <1>4, <1>5, <1>6, SeqEqual

\* What moves from a queue to what has been sent leaves the two together alike.
LEMMA HandedOver ==
  ASSUME NEW s \in Seq(Nat), NEW r \in Seq(Nat)
  PROVE  /\ \A e \in Nat : s \o Append(r, e) = Append(s \o r, e)
         /\ r # <<>> => Append(s, Head(r)) \o Tail(r) = s \o r
<1>1. ASSUME NEW e \in Nat PROVE s \o Append(r, e) = Append(s \o r, e)
  <2>1. Append(r, e) = r \o <<e>> /\ s \o r \in Seq(Nat) /\ <<e>> \in Seq(Nat)
    BY AppendIsConcat
  <2>2. Append(s \o r, e) = (s \o r) \o <<e>>
    BY <2>1, AppendIsConcat
  <2>3. (s \o r) \o <<e>> = s \o (r \o <<e>>)
    BY <2>1, ConcatAssociative
  <2>4. QED
    BY <2>1, <2>2, <2>3
<1>2. ASSUME r # <<>> PROVE Append(s, Head(r)) \o Tail(r) = s \o r
  <2>1. /\ Head(r) \in Nat /\ Tail(r) \in Seq(Nat) /\ Len(Tail(r)) = Len(r) - 1
        /\ Head(r) = r[1] /\ Len(r) \in Nat \ {0}
    BY <1>2
  <2>2. <<Head(r)>> \o Tail(r) = r
    <3>1. \A i \in 1..Len(Tail(r)) : Tail(r)[i] = r[i + 1]
      BY <1>2
    <3>2. /\ <<Head(r)>> \o Tail(r) \in Seq(Nat) /\ <<Head(r)>> \in Seq(Nat)
          /\ Len(<<Head(r)>> \o Tail(r)) = Len(r) /\ Len(<<Head(r)>>) = 1
      BY <2>1
    <3>3. \A i \in 1..(1 + Len(Tail(r))) :
            (<<Head(r)>> \o Tail(r))[i] = IF i <= 1 THEN <<Head(r)>>[i] ELSE Tail(r)[i - 1]
      BY <2>1, <3>2, ConcatProperties
    <3>4. \A i \in 1..Len(r) : (<<Head(r)>> \o Tail(r))[i] = r[i]
      BY <2>1, <3>1, <3>3
    <3>5. QED
      BY <3>2, <3>4, SeqEqual
  <2>3. Append(s, Head(r)) = s \o <<Head(r)>> /\ <<Head(r)>> \in Seq(Nat)
    BY <2>1, AppendIsConcat
  <2>4. (s \o <<Head(r)>>) \o Tail(r) = s \o (<<Head(r)>> \o Tail(r))
    BY <2>1, <2>3, ConcatAssociative
  <2>5. QED
    BY <2>2, <2>3, <2>4
<1>3. QED
  BY <1>1, <1>2

\* Announcing one more record.
Announced(k, n) ==
  IF k.at = "live"
    THEN [k EXCEPT !.queue = Offered(k.queue, n + 1),
                   !.cut = k.cut \/ Len(k.queue) = SubSize]
    ELSE k

LEMMA AnnouncedKeeps ==
  ASSUME NEW k \in Connection, NEW n \in Nat, Stream(k, n)
  PROVE  Announced(k, n) \in Connection /\ Stream(Announced(k, n), n + 1)
<1>1. CASE k.at # "live"
  BY <1>1 DEF Announced, Stream
<1>2. CASE k.at = "live"
  <2> DEFINE q == Offered(k.queue, n + 1)
             l == [k EXCEPT !.queue = q, !.cut = k.cut \/ Len(k.queue) = SubSize]
  <2>1. /\ k.queue \in Seq(Nat \ {0}) /\ k.queue \in Seq(Nat) /\ k.got \in Seq(Nat)
        /\ k.since \in Nat /\ k.cut \in BOOLEAN /\ n + 1 \in Nat \ {0}
    BY SeqMonotonic DEF Connection
  <2>2. CASE Len(k.queue) = SubSize
    <3>1. k.queue # <<>> /\ q = Append(Tail(k.queue), n + 1)
      BY <2>1, <2>2, LogStreamAssumption DEF Offered
    <3> HIDE DEF q
    <3>2. /\ Tail(k.queue) \in Seq(Nat \ {0}) /\ Tail(k.queue) \in Seq(Nat)
          /\ q \in Seq(Nat \ {0})
      BY <2>1, <3>1
    <3>3. /\ Range(k.queue) = {Head(k.queue)} \cup Range(Tail(k.queue))
          /\ InOrder(Tail(k.queue))
      BY <1>2, <2>1, <3>1, TailFacts DEF Stream
    <3>4. Below(Range(Tail(k.queue)), {n + 1})
      BY <1>2, <3>3 DEF Stream, Below
    <3>5. Range(q) = Range(Tail(k.queue)) \cup {n + 1} /\ InOrder(q)
      BY <2>1, <3>1, <3>2, <3>3, <3>4, AppendFacts
    <3>6. /\ l \in Connection /\ l.at = "live" /\ l.queue = q /\ l.got = k.got
          /\ l.since = k.since /\ l.cut
      BY <1>2, <2>2, <3>2 DEF Connection
    <3> HIDE DEF l
    <3>7. Stream(l, n + 1)
      BY <1>2, <2>1, <3>3, <3>5, <3>6 DEF Stream, Below
    <3>8. QED
      BY <1>2, <3>6, <3>7 DEF Announced, l, q
  <2>3. CASE Len(k.queue) # SubSize
    <3>1. q = Append(k.queue, n + 1) /\ q \in Seq(Nat \ {0})
      BY <2>1, <2>3 DEF Offered
    <3> HIDE DEF q
    <3>2. Below(Range(k.queue), {n + 1}) /\ Below(Range(k.got), {n + 1})
      BY <1>2 DEF Stream, Below
    <3>3. Range(q) = Range(k.queue) \cup {n + 1} /\ InOrder(q)
      BY <1>2, <2>1, <3>1, <3>2, AppendFacts DEF Stream
    <3>4. /\ l \in Connection /\ l.at = "live" /\ l.queue = q /\ l.got = k.got
          /\ l.since = k.since
      BY <1>2, <3>1 DEF Connection
    <3>5. l.cut => k.cut
      BY <2>1, <2>3 DEF Connection
    <3>6. k.cut => l.cut
      BY <2>1, <2>3 DEF Connection
    <3>7. ~k.cut => k.got \o q = Counted(k.since, n + 1)
      <4>1. k.got \o q = Append(k.got \o k.queue, n + 1)
        BY <2>1, <3>1, HandedOver
      <4>2. ~k.cut => k.got \o k.queue = Counted(k.since, n) /\ k.since <= n
        BY <1>2 DEF Stream
      <4>3. QED
        BY <2>1, <4>1, <4>2, CountedFacts
    <3> HIDE DEF l
    <3>8. Stream(l, n + 1)
      BY <1>2, <2>1, <3>2, <3>3, <3>4, <3>6, <3>7 DEF Stream, Below
    <3>9. QED
      BY <1>2, <3>4, <3>8 DEF Announced, l, q
  <2>4. QED
    BY <2>2, <2>3
<1>3. QED
  BY <1>1, <1>2

LEMMA OffIsQuiet == Off \in Connection /\ \A n : Stream(Off, n)
BY DEF Off, Connection, Stream

\* Steps of the backend: to one connection, ...
LEMMA ConnectionSteps ==
  ASSUME LogIInv, NEW c \in Conns,
         Connect(c) \/ SendReplayed(c) \/ Subscribe(c) \/ SendLive(c) \/ Disconnect(c)
  PROVE  LogIInv'
<1> DEFINE k == conn[c]
<1>1. /\ LogTypeOK /\ Ways /\ k \in Connection /\ Stream(k, noted) /\ noted \in Nat
      /\ conn \in [Conns -> Connection] /\ connects \in Nat
  BY DEF LogIInv, LogTypeOK
<1>2. UNCHANGED <<bot, adrift, pushed, noted, late, faults>> /\ connects' \in Nat
  BY <1>1 DEF Connect, SendReplayed, Subscribe, SendLive, Disconnect
<1>3. SUFFICES \E l \in Connection :
                 conn' = [conn EXCEPT ![c] = l] /\ Stream(l, noted)
  <2>1. ASSUME NEW l \in Connection, conn' = [conn EXCEPT ![c] = l], Stream(l, noted)
        PROVE  LogIInv'
    <3>1. LogTypeOK'
      BY <1>1, <1>2, <2>1 DEF LogTypeOK, bot
    <3>2. Ways'
      BY <1>1, <1>2 DEF Ways, bot
    <3>3. \A x \in Conns : conn'[x] = IF x = c THEN l ELSE conn[x]
      BY <1>1, <2>1
    <3>4. \A x \in Conns : Stream(conn'[x], noted)
      BY <2>1, <3>3 DEF LogIInv
    <3>5. noted' = noted
      BY <1>2
    <3>6. QED
      BY <3>1, <3>2, <3>4, <3>5 DEF LogIInv
  <2>2. QED
    BY <2>1
<1>4. CASE Connect(c)
  <2> DEFINE l == [Off EXCEPT !.at = "replay", !.todo = Snapshot(Replay)]
  <2>1. conn' = [conn EXCEPT ![c] = l]
    BY <1>4 DEF Connect
  <2>2. l \in Connection
    <3>1. Snapshot(Replay) \in Seq(Nat) /\ Off \in Connection
      BY <1>1, SnapshotType, OffIsQuiet
    <3>2. QED
      BY <3>1 DEF Connection
  <2>3. Stream(l, noted)
    BY DEF Off, Stream
  <2>4. QED
    BY <2>1, <2>2, <2>3
<1>5. CASE SendReplayed(c)
  <2> DEFINE l == [k EXCEPT !.todo = Tail(k.todo)]
  <2>1. conn' = [conn EXCEPT ![c] = l] /\ k.todo # <<>> /\ k.at = "replay"
    BY <1>1, <1>5 DEF SendReplayed
  <2>2. Tail(k.todo) \in Seq(Nat)
    BY <1>1, <2>1 DEF Connection
  <2>3. l \in Connection
    BY <1>1, <2>2 DEF Connection
  <2>4. Stream(l, noted)
    BY <1>1, <2>1 DEF Connection, Stream
  <2>5. QED
    BY <2>1, <2>3, <2>4
<1>6. CASE Subscribe(c)
  <2> DEFINE l == [k EXCEPT !.at = "live", !.since = noted]
  <2>1. conn' = [conn EXCEPT ![c] = l] /\ k.at = "replay"
    BY <1>1, <1>6 DEF Subscribe
  <2>2. l \in Connection /\ l.at = "live" /\ l.since = noted /\ l.queue = k.queue
          /\ l.got = k.got /\ l.cut = k.cut
    BY <1>1 DEF Connection
  <2>3. k.queue = <<>> /\ k.got = <<>> /\ ~k.cut
    BY <1>1, <2>1 DEF Stream
  <2>4. <<>> \o <<>> = Counted(noted, noted)
    BY <1>1, CountedFacts
  <2> HIDE DEF l
  <2>5. Stream(l, noted)
    BY <1>1, <2>2, <2>3, <2>4, EmptyFacts DEF Stream, Below
  <2>6. QED
    BY <2>1, <2>2, <2>5
<1>7. CASE SendLive(c)
  <2> DEFINE h == Head(k.queue)
             l == [k EXCEPT !.queue = Tail(k.queue), !.got = Append(k.got, h)]
  <2>1. conn' = [conn EXCEPT ![c] = l] /\ k.queue # <<>> /\ k.at = "live"
    BY <1>1, <1>7 DEF SendLive
  <2>2. /\ k.queue \in Seq(Nat \ {0}) /\ k.got \in Seq(Nat \ {0})
        /\ k.queue \in Seq(Nat) /\ k.got \in Seq(Nat)
    BY <1>1, SeqMonotonic DEF Connection
  <2>3. /\ Tail(k.queue) \in Seq(Nat \ {0}) /\ h \in Nat \ {0}
        /\ Append(k.got, h) \in Seq(Nat \ {0})
    BY <2>1, <2>2
  <2>4. /\ l \in Connection /\ l.at = "live" /\ l.since = k.since /\ l.cut = k.cut
        /\ l.queue = Tail(k.queue) /\ l.got = Append(k.got, h)
    BY <1>1, <2>1, <2>3 DEF Connection
  <2> HIDE DEF l
  <2>5. /\ Range(k.queue) = {h} \cup Range(Tail(k.queue))
        /\ InOrder(Tail(k.queue)) /\ Below({h}, Range(Tail(k.queue)))
    BY <1>1, <2>1, <2>2, TailFacts DEF Stream
  <2>6. Below(Range(k.got), {h})
    BY <1>1, <2>1, <2>5 DEF Stream, Below
  <2>7. Range(Append(k.got, h)) = Range(k.got) \cup {h} /\ InOrder(Append(k.got, h))
    BY <1>1, <2>1, <2>2, <2>3, <2>6, AppendFacts DEF Stream
  <2>8. Append(k.got, h) \o Tail(k.queue) = k.got \o k.queue
    BY <2>1, <2>2, HandedOver
  <2> HIDE DEF h
  <2>9. Below(Range(l.got), Range(l.queue))
    BY <1>1, <2>1, <2>4, <2>5, <2>7 DEF Stream, Below
  <2>10. Range(l.got) \cup Range(l.queue) = Range(k.got) \cup Range(k.queue)
    BY <2>4, <2>5, <2>7
  <2>11. Stream(l, noted)
    BY <1>1, <2>1, <2>4, <2>5, <2>7, <2>8, <2>9, <2>10 DEF Stream
  <2>12. QED
    BY <2>1, <2>4, <2>11
<1>8. CASE Disconnect(c)
  BY <1>8, OffIsQuiet DEF Disconnect
<1>9. QED
  BY <1>4, <1>5, <1>6, <1>7, <1>8

\* ... and to the ring and to all of them.
LEMMA BackendSteps ==
  ASSUME LogIInv, EmitOwn \/ Notify
  PROVE  LogIInv'
<1>1. LogTypeOK /\ Ways /\ \A c \in Conns : Stream(conn[c], noted)
  BY DEF LogIInv
<1>2. CASE EmitOwn
  <2>1. /\ pushed' = Append(pushed, 0)
        /\ UNCHANGED <<bot, adrift, noted, conn, connects, late, faults>>
    BY <1>2 DEF EmitOwn
  <2>2. /\ pushed \in Seq(Nat) /\ next \in Nat \ {0} /\ noted \in 0..Len(pushed)
    BY <1>1 DEF LogTypeOK
  <2>3. Append(pushed, 0) \in Seq(Nat) /\ noted \in 0..Len(Append(pushed, 0))
    BY <2>2
  <2>4. LogTypeOK'
    BY <1>1, <2>1, <2>3 DEF LogTypeOK, bot
  <2>5. Ways'
    BY <1>1, <2>1, <2>2, RowGetsOwn DEF Ways, bot
  <2>6. QED
    BY <1>1, <2>1, <2>4, <2>5 DEF LogIInv
<1>3. CASE Notify
  <2>1. /\ noted < Len(pushed) /\ noted' = noted + 1
        /\ UNCHANGED <<bot, adrift, pushed, connects, late, faults>>
    BY <1>3 DEF Notify
  <2>2. noted \in Nat /\ Len(pushed) \in Nat /\ conn \in [Conns -> Connection]
    BY <1>1 DEF LogTypeOK
  <2>3. conn' = [c \in Conns |-> Announced(conn[c], noted)]
    BY <1>3 DEF Notify, Announced
  <2>4. \A c \in Conns : /\ Announced(conn[c], noted) \in Connection
                         /\ Stream(Announced(conn[c], noted), noted + 1)
    BY <1>1, <2>2, AnnouncedKeeps
  <2>5. conn' \in [Conns -> Connection] /\ noted' \in 0..Len(pushed)
    BY <2>1, <2>2, <2>3, <2>4
  <2>6. LogTypeOK'
    BY <1>1, <2>1, <2>5 DEF LogTypeOK, bot
  <2>7. Ways'
    BY <1>1, <2>1 DEF Ways, bot
  <2>8. \A c \in Conns : Stream(conn'[c], noted')
    BY <2>1, <2>3, <2>4
  <2>9. QED
    BY <2>6, <2>7, <2>8 DEF LogIInv
<1>4. QED
  BY <1>2, <1>3

LEMMA LogStart == LogInit => LogIInv
<1>1. SUFFICES ASSUME LogInit PROVE LogIInv
  OBVIOUS
<1>2. LogTypeOK
  <2>1. /\ <<>> \in Seq(Nat \ {0}) /\ <<>> \in Seq(Nat) /\ 0 \in 0..Len(<<>>)
        /\ [c \in Conns |-> Off] \in [Conns -> Connection]
    BY OffIsQuiet
  <2>2. /\ {queue, buffer, post, adrift} \subseteq Seq(Nat \ {0})
        /\ pushed \in Seq(Nat) /\ noted \in 0..Len(pushed)
        /\ conn \in [Conns -> Connection]
    BY <1>1, <2>1 DEF LogInit
  <2>3. /\ life \in {"up", "stopping", "down"} /\ beat \in {"none", "online", "old"}
        /\ next \in Nat \ {0} /\ faults \in Nat /\ connects \in Nat
    BY <1>1 DEF LogInit
  <2>4. {polling, due, spoilt, late} \subseteq BOOLEAN
    BY <1>1 DEF LogInit
  <2>5. QED
    BY <2>2, <2>3, <2>4 DEF LogTypeOK
<1>3. Ways
  <2>1. Row(<<>>, <<>>, <<>>, <<>>, 1) /\ Contents(<<>>, <<>>, <<>>, <<>>) = {}
    BY EmptyFacts DEF Row, Below, Contents
  <2>2. 1..(1 - 1) = {}
    OBVIOUS
  <2>3. QED
    BY <1>1, <2>1, <2>2 DEF LogInit, Ways
<1>4. \A c \in Conns : Stream(conn[c], noted)
  BY <1>1, OffIsQuiet DEF LogInit
<1>5. QED
  BY <1>2, <1>3, <1>4 DEF LogIInv

LEMMA LogInductive == LogIInv /\ [LogNext]_logVars => LogIInv'
<1>1. SUFFICES ASSUME LogIInv, [LogNext]_logVars PROVE LogIInv'
  OBVIOUS
<1>2. CASE Bot
  <2>1. LogTypeOK' /\ Ways'
    BY <1>1, <1>2, BotTypes, BotWays DEF LogIInv
  <2>2. UNCHANGED <<noted, conn>>
    BY <1>2 DEF Bot, Emit, Take, TimeIsUp, PostDone, PostFailed, Arrives, Vanishes, Stop,
                Kill, Restart, PollingEnds, Heartbeat, BeatAges, backend
  <2>3. QED
    BY <1>1, <2>1, <2>2 DEF LogIInv
<1>3. CASE Backend
  BY <1>1, <1>3, BackendSteps, ConnectionSteps DEF Backend
<1>4. CASE UNCHANGED logVars
  BY <1>1, <1>4 DEF logVars, LogIInv, LogTypeOK, Ways
<1>5. QED
  BY <1>1, <1>2, <1>3, <1>4 DEF LogNext

\* The invariant says what the runs check.
LEMMA InOrderOnTheWay == LogIInv => RecordsInOrder
<1>1. SUFFICES ASSUME LogIInv PROVE RecordsInOrder
  OBVIOUS
<1>2. /\ queue \in Seq(Nat) /\ buffer \in Seq(Nat) /\ post \in Seq(Nat)
      /\ pushed \in Seq(Nat)
  BY <1>1, SeqMonotonic DEF LogIInv, LogTypeOK
<1>3. CASE life = "down"
  <2>1. Travelling = pushed
    BY <1>2, <1>3, ConcatEmptySeq DEF Travelling
  <2>2. ~late => InOrder(Travelling)
    BY <1>1, <2>1 DEF LogIInv, Ways, Row
  <2>3. spoilt
    BY <1>1, <1>3 DEF LogIInv, Ways
  <2>4. QED
    BY <2>2, <2>3 DEF RecordsInOrder
<1>4. CASE life # "down"
  <2>1. Travelling = pushed \o (post \o buffer \o queue)
    BY <1>4 DEF Travelling
  <2>2. /\ Range(Travelling) \ {0} = Contents(pushed, post, buffer, queue)
        /\ ~late => InOrder(Travelling)
    BY <1>1, <1>2, <2>1, RowIsInOrder DEF LogIInv, Ways
  <2>3. QED
    BY <1>1, <2>2 DEF LogIInv, Ways, RecordsInOrder
<1>5. QED
  BY <1>3, <1>4

LEMMA FaithfulStreams == LogIInv => StreamFaithful
<1>1. SUFFICES ASSUME LogIInv, NEW c \in Conns, conn[c].at = "live"
               PROVE  LET sent == conn[c].got \o conn[c].queue IN
                      /\ InOrder(sent)
                      /\ ~conn[c].cut => sent = Counted(conn[c].since, noted)
                      /\ noted > conn[c].since => noted \in Range(sent)
  BY DEF StreamFaithful
<1>2. Stream(conn[c], noted) /\ conn[c] \in Connection
  BY <1>1 DEF LogIInv, LogTypeOK
<1>3. conn[c].got \in Seq(Nat) /\ conn[c].queue \in Seq(Nat)
  BY <1>2, SeqMonotonic DEF Connection
<1>4. /\ Range(conn[c].got \o conn[c].queue) = Range(conn[c].got) \cup Range(conn[c].queue)
      /\ InOrder(conn[c].got \o conn[c].queue)
  BY <1>1, <1>2, <1>3, ConcatFacts DEF Stream
<1>5. QED
  BY <1>1, <1>2, <1>4 DEF Stream

-----------------------------------------------------------------------------
(***************************************************************************)
(* The theorems about the log stream.                                      *)
(***************************************************************************)
\* Whatever is lost, killed or delayed, the queue, the buffer, the post, the
\* ring and every connection keep to their types, and no more is announced
\* than was pushed.
THEOREM LogTypes == LogSpec => []LogTypeOK
<1>1. LogIInv => LogTypeOK
  BY DEF LogIInv
<1>2. QED
  BY <1>1, LogStart, LogInductive, PTL DEF LogSpec

\* On the way from a log call of the bot to the ring of the backend no record
\* overtakes another and none comes twice, until a batch given up arrives; and
\* none is missing while neither a full queue, nor a failed post, nor a stop
\* has lost one: whatever the sizes of the queue, the batch and the ring.
THEOREM RecordsStayInOrder == LogSpec => []RecordsInOrder
BY LogStart, LogInductive, InOrderOnTheWay, PTL DEF LogSpec

\* A subscriber of the stream gets what is announced after it subscribed,
\* once, in order, without a gap unless its queue overflowed, and the newest
\* record always: for any number of subscribers and any size of their queues.
THEOREM StreamsAreFaithful == LogSpec => []StreamFaithful
BY LogStart, LogInductive, FaithfulStreams, PTL DEF LogSpec

=============================================================================
