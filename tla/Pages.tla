-------------------------------- MODULE Pages --------------------------------
(***************************************************************************)
(* The administration site in one browser tab: the hash router, which      *)
(* loads a page's module and mounts it, and the page of the live log,      *)
(* whose module keeps ONE current EventSource, one reconnect timer and the *)
(* flags unmounted and paused, whichever mount they belong to.  The        *)
(* dashboard does the same with its polling interval; the page of the users*)
(* has a table, which each mount creates anew.  Navigation, answers, the   *)
(* user and the network interleave at every await.                         *)
(***************************************************************************)
EXTENDS Integers, FiniteSets

CONSTANTS
  MaxMoves,     \* bound: navigations
  MaxClicks,    \* bound: changes of a filter, clicks on Pause and Resume
  MaxBreaks     \* bound: errors of a stream

ASSUME PagesAssumption == {MaxMoves, MaxClicks, MaxBreaks} \subseteq Nat

VARIABLES
  moves,       \* navigations so far
  loading,     \* navigations that await their page's module
  currentPage, \* the mounted module, or "none"
  root,        \* what rootEl shows: "state" (loading or an error), or a page
  unmounted, paused, es, reconnectTimer,  \* of the logs module; es = 0: null
  mounts,      \* mounts of logs that await the snapshot
  typed,       \* is a debounced change of the search text pending?
  streams,     \* EventSources the browser keeps open
  opened,      \* EventSources opened so far
  dash,        \* the dashboard's module
  table,       \* the table of the users page mounted last
  overlap,     \* history: has something overlapped a mount?
  clicks, breaks   \* bound counters

router == <<moves, loading, currentPage, root>>
logs == <<unmounted, paused, es, reconnectTimer, streams, opened>>
vars == <<moves, loading, currentPage, root, unmounted, paused, es,
          reconnectTimer, mounts, typed, streams, opened, dash, table, overlap,
          clicks, breaks>>

Views == {"logs", "dashboard", "users"}

\* awaiting: mounts that await the first refresh; intervals: those the browser
\* runs; timer: the one the module knows of (0: null).
NoDash == [unmounted |-> FALSE, awaiting |-> 0, timer |-> 0, intervals |-> {},
           started |-> 0]

\* params: the version of state.params; asked: those of the requests in flight,
\* rows: of the rows shown (0: none); newest: of the last request sent
\* (history); missed: a change found the table loading (history).
NoTable == [params |-> 0, loading |-> FALSE, asked |-> {}, rows |-> 0,
            newest |-> 0, missed |-> FALSE]

Dashboards == [unmounted : BOOLEAN, awaiting : Nat, timer : Nat,
               intervals : SUBSET Nat, started : Nat]
Tables == [params : Nat, loading : BOOLEAN, asked : SUBSET Nat, rows : Nat,
           newest : Nat, missed : BOOLEAN]

TypeOK ==
  /\ moves \in Nat /\ loading \subseteq [nr : Nat, page : Views]
  /\ currentPage \in Views \cup {"none"} /\ root \in Views \cup {"state"}
  /\ unmounted \in BOOLEAN /\ paused \in BOOLEAN /\ reconnectTimer \in BOOLEAN
  /\ es \in Nat /\ opened \in Nat /\ streams \subseteq Nat \ {0}
  /\ mounts \in Nat /\ typed \in BOOLEAN /\ overlap \in BOOLEAN
  /\ dash \in Dashboards /\ table \in Tables
  /\ clicks \in Nat /\ breaks \in Nat

Init ==
  /\ moves = 1 /\ loading \in {{[nr |-> 1, page |-> p]} : p \in Views}
  /\ currentPage = "none" /\ root = "state"
  /\ unmounted = FALSE /\ paused = FALSE /\ es = 0 /\ reconnectTimer = FALSE
  /\ mounts = 0 /\ typed = FALSE /\ streams = {} /\ opened = 0
  /\ dash = NoDash /\ table = NoTable /\ overlap = FALSE /\ clicks = 0 /\ breaks = 0

-----------------------------------------------------------------------------
(***************************************************************************)
(* The logs module's functions, on a record of its variables.              *)
(***************************************************************************)
Now == [unmounted |-> unmounted, paused |-> paused, es |-> es,
        timer |-> reconnectTimer, streams |-> streams, opened |-> opened]

Become(m) ==
  /\ unmounted' = m.unmounted /\ paused' = m.paused /\ es' = m.es
  /\ reconnectTimer' = m.timer /\ streams' = m.streams /\ opened' = m.opened

\* closeStream; mutation: the timer goes on.
TimerRuns(m) == [m EXCEPT !.streams = @ \ {m.es}, !.es = 0]
Closed(m) == [m EXCEPT !.streams = @ \ {m.es}, !.es = 0, !.timer = FALSE]

\* connectStream does not close what es held.  Mutation: opened when paused, too.
OpenedAnyway(m) ==
  IF m.unmounted THEN m
  ELSE [m EXCEPT !.opened = @ + 1, !.es = m.opened + 1,
                 !.streams = @ \cup {m.opened + 1}]
Opened(m) == IF m.paused THEN m ELSE OpenedAnyway(m)

Reconnected(m) == IF m.paused THEN m ELSE Opened(Closed(m))

\* onerror: the current stream is closed, whichever stream had the error.
\* Mutation: nobody schedules a reconnect.
OnlyClosed(m) == Closed(m)
Broken(m) == [Closed(m) EXCEPT !.timer = ~m.unmounted /\ ~m.paused]

-----------------------------------------------------------------------------
(***************************************************************************)
(* The dashboard and the table.                                            *)
(***************************************************************************)
Unmounted(d) ==
  [d EXCEPT !.unmounted = TRUE, !.intervals = @ \ {d.timer}, !.timer = 0]

\* reload.  Mutation: it does not look at loading.
ReloadAnyway(t) ==
  [t EXCEPT !.loading = TRUE, !.asked = @ \cup {t.params}, !.newest = t.params,
            !.rows = 0, !.missed = FALSE]
Reload(t) == IF t.loading THEN [t EXCEPT !.missed = TRUE] ELSE ReloadAnyway(t)

FreshTable == Reload([NoTable EXCEPT !.params = 1])

-----------------------------------------------------------------------------
(***************************************************************************)
(* The router.                                                             *)
(***************************************************************************)
\* hashchange, a click on the same link, or the button that tries again.
Navigate(p) ==
  /\ moves < MaxMoves
  /\ moves' = moves + 1
  /\ IF currentPage = "logs" THEN Become(Closed([Now EXCEPT !.unmounted = TRUE]))
                             ELSE UNCHANGED logs
  /\ dash' = IF currentPage = "dashboard" THEN Unmounted(dash) ELSE dash
  /\ currentPage' = "none" /\ root' = "state"
  /\ loading' = loading \cup {[nr |-> moves + 1, page |-> p]}
  /\ overlap' = (overlap \/ loading # {} \/ mounts # 0 \/ dash.awaiting # 0)
  /\ UNCHANGED <<mounts, typed, table, clicks, breaks>>

\* The module has been imported: currentPage is set whatever has been mounted
\* since, and mount resets the flags.
Mount(n) ==
  /\ n \in loading
  /\ loading' = loading \ {n} /\ currentPage' = n.page /\ root' = n.page
  /\ IF n.page = "logs"
       THEN /\ Become([Now EXCEPT !.unmounted = FALSE, !.paused = FALSE])
            /\ mounts' = mounts + 1
       ELSE UNCHANGED <<logs, mounts>>
  /\ dash' = IF n.page = "dashboard"
               THEN [dash EXCEPT !.unmounted = FALSE, !.awaiting = @ + 1] ELSE dash
  /\ table' = IF n.page = "users" THEN FreshTable ELSE table
  /\ UNCHANGED <<moves, typed, overlap, clicks, breaks>>

ImportFails(n) ==
  /\ n \in loading
  /\ loading' = loading \ {n} /\ root' = "state"
  /\ UNCHANGED <<moves, currentPage, logs, mounts, typed, dash, table, overlap,
                 clicks, breaks>>

\* The snapshot's answer, or its error: mount goes on.
SnapshotAnswered ==
  /\ mounts > 0
  /\ mounts' = mounts - 1
  /\ Become(Opened(Now))
  /\ UNCHANGED <<router, typed, dash, table, overlap, clicks, breaks>>

\* The dashboard's mount goes on, also when it has been unmounted since.
Refreshed ==
  /\ dash.awaiting > 0
  /\ LET id == dash.started + 1 IN
     dash' = [dash EXCEPT !.awaiting = @ - 1, !.started = id, !.timer = id,
                          !.intervals = @ \cup {id}]
  /\ UNCHANGED <<router, logs, mounts, typed, table, overlap, clicks, breaks>>

\* The answer to a request of the table, or its failure; finally resets loading.
Loaded(p) ==
  /\ p \in table.asked
  /\ \E shown \in {p, 0} :
       table' = [table EXCEPT !.asked = @ \ {p}, !.rows = shown, !.loading = FALSE]
  /\ UNCHANGED <<router, logs, mounts, typed, dash, overlap, clicks, breaks>>

-----------------------------------------------------------------------------
(***************************************************************************)
(* The user and the network.                                               *)
(***************************************************************************)
Click ==
  /\ root = "logs" /\ clicks < MaxClicks
  /\ clicks' = clicks + 1 /\ overlap' = (overlap \/ mounts # 0)
  /\ UNCHANGED <<dash, table>>

\* setParams, setPage, a click on a column or a page, or the retry button.
SetParams ==
  /\ root = "users" /\ clicks < MaxClicks
  /\ clicks' = clicks + 1
  /\ table' = Reload([table EXCEPT !.params = @ + 1])
  /\ UNCHANGED <<router, logs, mounts, typed, dash, overlap, breaks>>

ChangeLevel ==
  /\ Click
  /\ Become(Reconnected(Now))
  /\ UNCHANGED <<router, mounts, typed, breaks>>

\* The search text takes effect after 300 ms without a key, wherever the tab
\* is by then.
Type ==
  /\ Click /\ typed' = TRUE
  /\ UNCHANGED <<router, logs, mounts, breaks>>
Debounced ==
  /\ typed /\ typed' = FALSE
  /\ Become(Reconnected(Now))
  /\ overlap' = (overlap \/ mounts # 0)
  /\ UNCHANGED <<router, mounts, dash, table, clicks, breaks>>

Pause ==
  /\ Click /\ ~paused
  /\ Become(Closed([Now EXCEPT !.paused = TRUE]))
  /\ UNCHANGED <<router, mounts, typed, breaks>>
Resume ==
  /\ Click /\ paused
  /\ Become(Opened([Now EXCEPT !.paused = FALSE]))
  /\ UNCHANGED <<router, mounts, typed, breaks>>

StreamBreaks(s) ==
  /\ s \in streams /\ breaks < MaxBreaks
  /\ breaks' = breaks + 1
  /\ Become(Broken(Now))
  /\ UNCHANGED <<router, mounts, typed, dash, table, overlap, clicks>>

TimerFires ==
  /\ reconnectTimer
  /\ Become(Opened([Now EXCEPT !.timer = FALSE]))
  /\ UNCHANGED <<router, mounts, typed, dash, table, overlap, clicks, breaks>>

-----------------------------------------------------------------------------
Next ==
  \/ \E p \in Views : Navigate(p)
  \/ \E n \in loading : Mount(n) \/ ImportFails(n)
  \/ SnapshotAnswered \/ Refreshed \/ SetParams \/ \E p \in table.asked : Loaded(p)
  \/ ChangeLevel \/ Type \/ Debounced \/ Pause \/ Resume
  \/ \E s \in streams : StreamBreaks(s)
  \/ TimerFires

Spec == Init /\ [][Next]_vars

\* Requests are answered or fail, and timers fire.
Answers == SnapshotAnswered \/ Refreshed \/ \E p \in table.asked : Loaded(p)
FairSpec == Spec /\ WF_vars(Answers) /\ WF_vars(TimerFires)

-----------------------------------------------------------------------------
\* unmount and Pause leave nothing that could open a stream behind the user's
\* back: whatever was in flight when they came, no stream is current and no
\* timer runs.
QuietWhenAway == unmounted \/ paused => es = 0 /\ ~reconnectTimer

\* As long as nothing overlaps a mount that has not ended, every open stream
\* and every running interval is the one its module knows of, and there is
\* none but on the mounted page.
NothingLeftBehind ==
  ~overlap =>
    /\ streams \subseteq {es} /\ (streams # {} => currentPage = "logs")
    /\ dash.intervals \subseteq {dash.timer}
    /\ dash.intervals # {} => currentPage = "dashboard"

\* The rows of the table are those of the last request it sent, however the
\* requests overlap, and of the current parameters unless these changed while
\* it was loading.
RowsAreNewest ==
  table.rows # 0 =>
    /\ table.rows = table.newest
    /\ ~table.missed => table.rows = table.params

\* A logs page that is shown and not paused gets its stream, and gets it back
\* after every error.
Tailing == root = "logs" /\ ~paused /\ ~unmounted
StreamComesBack == Tailing ~> (es # 0 \/ ~Tailing)

=============================================================================
