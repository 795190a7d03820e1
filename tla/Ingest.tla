------------------------------- MODULE Ingest -------------------------------
(***************************************************************************)
(* IngestService: the lots a source yields are inserted or updated one by  *)
(* one, each in a transaction of its own, within one database session per  *)
(* run.  Two runs may overlap: the scheduler's parser_tick and the manual  *)
(* one of an administrator.  A flush that fails leaves the session in a    *)
(* state in which every later statement raises until a rollback; nobody    *)
(* rolls back, so the rest of the run fails too, its last commit included. *)
(*                                                                         *)
(* The content of a lot is a version number for each of its columns.  Some *)
(* columns decide whether a known lot has changed; the others (category,   *)
(* region, source_url, published_at, raw) are only written along with      *)
(* them.  A run reads the lots of a source once, unless an empty page ends *)
(* it early, which the run records as full_scan_completed = false.         *)
(***************************************************************************)
EXTENDS Integers, FiniteSets

CONSTANTS
  Sources, Keys,
  SourceOf,      \* SourceOf[k]: the source that publishes lot k
  Columns,       \* the columns of a lot that come from its source
  Compared,      \* those a known lot is compared by
  Bad,           \* values <<k, c, v>> the database refuses (too long)
  Runners,       \* a subset of {"scheduled", "admin"}
  Changing,      \* bound: lots whose content changes at the source
  MaxVersion,    \* bound: new versions of a column of such a lot
  MaxFaults      \* bound: source failures, deletions, restarts

ASSUME IngestAssumption ==
  /\ IsFiniteSet(Sources) /\ IsFiniteSet(Keys)
  /\ SourceOf \in [Keys -> Sources] /\ Changing \subseteq Keys
  /\ Runners \subseteq {"scheduled", "admin"}
  /\ Compared \subseteq Columns /\ Compared # {}
  /\ MaxVersion \in Nat /\ MaxFaults \in Nat /\ Bad \subseteq Keys \X Columns \X Nat

Versions == [Columns -> 0..MaxVersion]
Original == [c \in Columns |-> 0]
Absent == [c \in Columns |-> -1]

VARIABLES
  published,   \* published[k]: the version the source shows
  lots,        \* lots[k]: the version in table lots, or Absent
  run,         \* run[r]: the run in progress
  last,        \* last[r]: the runner's latest row of parser_runs
  faults,      \* bound counter
  restarts     \* history: restarts of the backend

vars == <<published, lots, run, last, faults, restarts>>

KeysOf(s) == {k \in Keys : SourceOf[k] = s}

\* A run: sources to do; of the current one, lots to come; the lot at hand
\* (yielded or looked up), and whether the row looked up has been deleted since;
\* the session; the report.
Run == [at : {"off", "between", "fetching", "yielded", "found"},
        sources : SUBSET Sources, source : Sources \cup {"none"}, todo : SUBSET Keys,
        missed : SUBSET Keys, key : Keys \cup {"none"}, version : Versions,
        existing : Versions \cup {Absent},
        gone : BOOLEAN, dead : BOOLEAN, seen : Nat, failed : Nat]
Off == [at |-> "off", sources |-> {}, source |-> "none", todo |-> {},
        missed |-> {}, key |-> "none", version |-> Original, existing |-> Absent,
        gone |-> FALSE, dead |-> FALSE, seen |-> 0, failed |-> 0]

\* The columns of parser_runs the properties speak of, and (history) how
\* many lots the run handled, failed to store, and left.
Row == [status : {"none", "running", "ok", "error"}, seen : Nat, handled : Nat, failed : Nat,
        left : SUBSET Keys, full : BOOLEAN]
NoRow == [status |-> "none", seen |-> 0, handled |-> 0, failed |-> 0, left |-> {}, full |-> FALSE]

Init ==
  /\ published = [k \in Keys |-> Original] /\ lots = [k \in Keys |-> Absent]
  /\ run = [r \in Runners |-> Off] /\ last = [r \in Runners |-> NoRow]
  /\ faults = 0 /\ restarts = 0

-----------------------------------------------------------------------------
\* The scheduler does all sources, one run at a time; an administrator one
\* source or all, one run at a time (the flag _parser_running).
Start(r, ss) ==
  /\ run[r].at = "off"
  /\ r = "scheduled" => ss = Sources
  /\ run' = [run EXCEPT ![r] = [@ EXCEPT !.at = "between", !.sources = ss]]
  /\ UNCHANGED <<published, lots, last, faults, restarts>>

\* parser_tick opens a session per source; the manual run has the request's.
\* Mutation: one session serves the scheduler for ever.
KeptSession(r) == run[r].dead
FreshSession(r) == r # "scheduled" /\ run[r].dead

Opened(q, s, dead) ==
  [q EXCEPT !.at = "fetching", !.source = s, !.sources = @ \ {s}, !.todo = KeysOf(s),
            !.dead = dead]

\* Insert the row "running" and commit it.
Open(r, s) ==
  /\ run[r].at = "between" /\ s \in run[r].sources
  /\ run' = [run EXCEPT ![r] = Opened(@, s, FreshSession(r))]
  /\ last' = [last EXCEPT ![r] = [NoRow EXCEPT !.status = "running"]]
  /\ UNCHANGED <<published, lots, faults, restarts>>

Shown(q, k) ==
  [q EXCEPT !.at = "yielded", !.todo = @ \ {k}, !.key = k, !.version = published[k],
            !.seen = @ + 1]

Yield(r, k) ==
  /\ run[r].at = "fetching" /\ k \in run[r].todo
  /\ run' = [run EXCEPT ![r] = Shown(@, k)]
  /\ UNCHANGED <<published, lots, last, faults, restarts>>

\* Back to the loop over the source, after a lot was stored, skipped or lost.
Back(q, lost, dead) ==
  [q EXCEPT !.at = "fetching", !.key = "none", !.version = Original, !.existing = Absent,
            !.gone = FALSE, !.dead = dead, !.failed = @ + lost]

\* SELECT by (source, source_lot_id), then the region: in a session whose
\* flush has failed these raise.
LookUp(r) ==
  /\ run[r].at = "yielded"
  /\ LET q == run[r] IN
     run' = [run EXCEPT ![r] =
       IF q.dead THEN Back(q, 1, TRUE)
       ELSE [q EXCEPT !.at = "found", !.existing = lots[q.key]]]
  /\ UNCHANGED <<published, lots, last, faults, restarts>>

\* An INSERT writes every column, an UPDATE those that differ from the row that
\* was loaded.
Written(q) == {c \in Columns : q.version[c] # q.existing[c]}

\* UNIQUE (source, source_lot_id) for an INSERT, a row to find for an UPDATE,
\* columns wide enough for either.
Storable(q) ==
  /\ \A c \in Written(q) : <<q.key, c, q.version[c]>> \notin Bad
  /\ IF q.existing = Absent THEN lots[q.key] = Absent ELSE ~q.gone

\* A known lot is skipped unless a compared column has changed.
Unchanged(q) == Written(q) \cap Compared = {}

Store(r) ==
  /\ run[r].at = "found"
  /\ LET q == run[r] IN
     IF Unchanged(q)
       THEN run' = [run EXCEPT ![r] = Back(q, 0, FALSE)] /\ UNCHANGED lots
     ELSE IF Storable(q)
       THEN /\ lots' = [lots EXCEPT ![q.key] =
                 [c \in Columns |-> IF c \in Written(q) THEN q.version[c] ELSE @[c]]]
            /\ run' = [run EXCEPT ![r] = Back(q, 0, FALSE)]
     ELSE run' = [run EXCEPT ![r] = Back(q, 1, TRUE)] /\ UNCHANGED lots
  /\ UNCHANGED <<published, last, faults, restarts>>

\* The next source, for a manual run the end of the loop when none is left;
\* an exception that leaves run_source is caught per source by parser_tick
\* and by nobody in the manual run, which ends and resets its flag.
Resume(r) ==
  IF run[r].sources = {} THEN [Off EXCEPT !.dead = run[r].dead]
  ELSE [Off EXCEPT !.at = "between", !.sources = run[r].sources, !.dead = run[r].dead]
\* Mutation: one source that fails ends the tick.
AllStop(r) == Off
Escape(r) == IF r = "scheduled" THEN Resume(r) ELSE Off

\* Mutation: the last commit is taken for done.
AnyCommit(r) == TRUE
Commits(r) == ~run[r].dead

Finished(r, status, seen) ==
  [status |-> status, seen |-> seen, handled |-> run[r].seen,
   failed |-> run[r].failed, left |-> run[r].todo \cup run[r].missed,
   full |-> status = "ok" /\ run[r].missed = {}]

\* The final UPDATE of the row, "ok" with the counters; if it fails, the
\* error branch, whose commit fails as well, and the row stays "running".
Finish(r) ==
  /\ run[r].at = "fetching" /\ run[r].todo = {}
  /\ IF Commits(r)
       THEN /\ last' = [last EXCEPT ![r] = Finished(r, "ok", run[r].seen)]
            /\ run' = [run EXCEPT ![r] = Resume(r)]
       ELSE run' = [run EXCEPT ![r] = Escape(r)] /\ UNCHANGED last
  /\ UNCHANGED <<published, lots, faults, restarts>>

Fault == faults < MaxFaults /\ faults' = faults + 1

\* An empty page: the source ends before it has shown every lot.
EmptyPage(r) ==
  /\ Fault /\ run[r].at = "fetching" /\ run[r].todo # {}
  /\ run' = [run EXCEPT ![r] = [@ EXCEPT !.missed = run[r].todo, !.todo = {}]]
  /\ UNCHANGED <<published, lots, last, restarts>>

\* The source raises: the error branch leaves lots_seen at its default, 0.
SourceFails(r) ==
  /\ Fault /\ run[r].at = "fetching"
  /\ IF Commits(r)
       THEN /\ last' = [last EXCEPT ![r] = Finished(r, "error", 0)]
            /\ run' = [run EXCEPT ![r] = Resume(r)]
       ELSE run' = [run EXCEPT ![r] = Escape(r)] /\ UNCHANGED last
  /\ UNCHANGED <<published, lots, restarts>>

-----------------------------------------------------------------------------
\* The source changes some columns of a lot.
Publish(k, cs) ==
  /\ k \in Changing /\ \A c \in cs : published[k][c] < MaxVersion
  /\ published' = [published EXCEPT ![k] = [c \in Columns |-> IF c \in cs THEN @[c] + 1 ELSE @[c]]]
  /\ UNCHANGED <<lots, run, last, faults, restarts>>

\* An administrator deletes a lot.
DeleteLot(k) ==
  /\ Fault /\ lots[k] # Absent
  /\ lots' = [lots EXCEPT ![k] = Absent]
  /\ run' = [r \in Runners |->
       IF run[r].key = k /\ run[r].existing # Absent
         THEN [run[r] EXCEPT !.gone = TRUE] ELSE run[r]]
  /\ UNCHANGED <<published, last, restarts>>

\* Nothing looks for unfinished rows at the next start.
Crash ==
  /\ Fault /\ \E r \in Runners : run[r].at # "off"
  /\ run' = [r \in Runners |-> Off]
  /\ restarts' = restarts + 1
  /\ UNCHANGED <<published, lots, last>>

Next ==
  \/ \E r \in Runners, ss \in (SUBSET Sources) \ {{}} : Start(r, ss)
  \/ \E r \in Runners, s \in Sources : Open(r, s)
  \/ \E r \in Runners, k \in Keys : Yield(r, k)
  \/ \E r \in Runners : LookUp(r)
  \/ \E r \in Runners : Store(r)
  \/ \E r \in Runners : Finish(r)
  \/ \E r \in Runners : EmptyPage(r)
  \/ \E r \in Runners : SourceFails(r)
  \/ \E k \in Keys, cs \in (SUBSET Columns) \ {{}} : Publish(k, cs)
  \/ \E k \in Keys : DeleteLot(k)
  \/ Crash

Spec == Init /\ [][Next]_vars

\* A run goes on until it ends; the interval trigger starts the next one.
\* Administrators need not start any.
Progress(r) ==
  \/ \E s \in Sources : Open(r, s)
  \/ \E k \in Keys : Yield(r, k)
  \/ LookUp(r) \/ Store(r) \/ Finish(r)
Fairness ==
  /\ \A r \in Runners : WF_vars(Progress(r))
  /\ WF_vars(Start("scheduled", Sources))

FairSpec == Spec /\ Fairness

-----------------------------------------------------------------------------
\* Every variable keeps to its type, a row has all its columns, and nothing is
\* stored that was never published.
TypeOK ==
  /\ published \in [Keys -> Versions] /\ lots \in [Keys -> Versions \cup {Absent}]
  /\ \A k \in Keys, c \in Columns : lots[k][c] <= published[k][c]
  /\ run \in [Runners -> Run] /\ last \in [Runners -> Row]
  /\ faults \in 0..MaxFaults /\ restarts \in 0..faults

\* A run recorded as "ok" has stored every lot it was shown, because a lot
\* that fails spoils the session and can never be followed by an "ok"; with
\* full_scan_completed it has stored every lot of its source.
OkMeansAllStored ==
  \A r \in Runners :
    /\ last[r].status = "ok" => last[r].failed = 0 /\ last[r].seen = last[r].handled
    /\ last[r].full => last[r].status = "ok" /\ last[r].left = {}

\* "Errors of one source do not interrupt the others" (scheduler/tasks.py:19):
\* whether a source raises, a flush has spoilt the session or the row of the run
\* cannot be completed, a tick ends with sources left only when the backend
\* restarts.
TickVisitsAll ==
  [][\A r \in Runners :
       r = "scheduled" /\ run[r].at # "off" /\ run'[r].at = "off" =>
         run[r].sources = {} \/ restarts' # restarts]_vars

\* The database catches up with the sources once they stop changing, whatever
\* the overlap of runs, failures and restarts did before: in the columns a lot
\* is compared by.  The others keep what they were when a compared one last
\* changed (ingest_service.py:113-121).  Excepted is a source one of whose lots
\* the database refuses: its other lots may be lost with it in every run,
\* although single errors should not interrupt.
Refused(s) == \E k \in KeysOf(s), c \in Columns : <<k, c, published[k][c]>> \in Bad
CatchesUp ==
  <>[](\A k \in Keys : Refused(SourceOf[k])
         \/ \A c \in Compared : lots[k][c] = published[k][c])
=============================================================================
