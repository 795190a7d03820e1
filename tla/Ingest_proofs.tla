---------------------------- MODULE Ingest_proofs ----------------------------
(***************************************************************************)
(* The way of the lots in and out. What Ingest promises for any number of  *)
(* sources, lots and runs: besides the types the invariant says that a lot *)
(* is lost only in a session whose flush has failed, which the run has     *)
(* been in since; and no run stalls or goes on for ever. And what the      *)
(* search page (Site) promises for any lots, filters, seeds and page size, *)
(* and any overlap of searches and clicks.                                 *)
(***************************************************************************)
EXTENDS Ingest, Site, FiniteSetTheorems, SequenceTheorems, WellFoundedInduction, TLAPS

\* What a run knows of its lot and of its session.
Sound(t) ==
  /\ t.failed > 0 => t.dead
  /\ t.at \in {"off", "between"} => t.failed = 0
  /\ t.at = "found" => ~t.dead
  /\ t.at \in {"yielded", "found"} =>
       t.key \in Keys /\ \A c \in Columns : t.version[c] <= published[t.key][c]

\* A row that was looked up is there until somebody deletes it.
Present(t) ==
  t.at = "found" /\ t.existing # Absent /\ ~t.gone => lots[t.key] # Absent

Honest(row) ==
  /\ row.status = "ok" => row.failed = 0 /\ row.seen = row.handled
  /\ row.full => row.status = "ok" /\ row.left = {}

IInv ==
  /\ TypeOK
  /\ \A r \in Runners : Sound(run[r]) /\ Present(run[r])
  /\ \A r \in Runners : Honest(last[r])

-----------------------------------------------------------------------------
LEMMA Constants ==
  /\ Off \in Run /\ Sound(Off) /\ Present(Off) /\ NoRow \in Row /\ Honest(NoRow)
  /\ Original \in Versions /\ Absent \notin Versions
  /\ 0 \in 0..MaxFaults
<1>1. Original \in Versions /\ 0 \in 0..MaxFaults
  BY IngestAssumption DEF Versions, Original
<1>2. Absent \notin Versions
  <2>1. PICK c \in Columns : TRUE
    BY IngestAssumption
  <2>2. Absent[c] = -1 /\ \A v \in Versions : v[c] \in 0..MaxVersion
    BY DEF Absent, Versions
  <2>3. -1 \notin 0..MaxVersion
    BY IngestAssumption
  <2>4. QED
    BY <2>2, <2>3
<1>3. Off \in Run /\ Sound(Off) /\ Present(Off)
  BY <1>1 DEF Off, Run, Sound, Present
<1>4. NoRow \in Row /\ Honest(NoRow)
  BY DEF NoRow, Row, Honest
<1>5. QED
  BY <1>1, <1>2, <1>3, <1>4

\* One run takes a step that stores nothing.
LEMMA RunMoves ==
  ASSUME IInv, NEW r \in Runners, NEW t \in Run, NEW row \in Row,
         Sound(t), Present(t), Honest(row),
         run' = [run EXCEPT ![r] = t], last' = [last EXCEPT ![r] = row],
         UNCHANGED <<published, lots>>, faults' \in 0..MaxFaults, restarts' \in 0..faults'
  PROVE  IInv'
<1>1. TypeOK
  BY DEF IInv
<1>2. /\ run' \in [Runners -> Run] /\ run'[r] = t /\ \A q \in Runners : q # r => run'[q] = run[q]
      /\ last' \in [Runners -> Row] /\ last'[r] = row
      /\ \A q \in Runners : q # r => last'[q] = last[q]
  BY <1>1 DEF TypeOK
<1>3. TypeOK'
  BY <1>1, <1>2 DEF TypeOK
<1>4. \A q \in Runners : Sound(run'[q]) /\ Present(run'[q]) /\ Honest(last'[q])
  BY <1>2 DEF IInv
<1>5. QED
  BY <1>3, <1>4 DEF IInv, Sound, Present, Honest

\* The same, when the row of parser_runs stays as it is.
LEMMA RunMovesOn ==
  ASSUME IInv, NEW r \in Runners, NEW t \in Run, Sound(t), Present(t),
         run' = [run EXCEPT ![r] = t],
         UNCHANGED <<published, lots, last>>, faults' \in 0..MaxFaults, restarts' \in 0..faults'
  PROVE  IInv'
<1>1. last[r] \in Row /\ Honest(last[r]) /\ last' = [last EXCEPT ![r] = last[r]]
  BY DEF IInv, TypeOK
<1>2. QED
  BY <1>1, RunMoves

LEMMA FaultsStay ==
  ASSUME IInv, UNCHANGED faults \/ Fault, UNCHANGED restarts
  PROVE  faults' \in 0..MaxFaults /\ restarts' \in 0..faults'
BY IngestAssumption DEF IInv, TypeOK, Fault

LEMMA StartKeepsIInv ==
  ASSUME IInv, NEW r \in Runners, NEW ss \in SUBSET Sources, Start(r, ss)
  PROVE  IInv'
<1> DEFINE t == [run[r] EXCEPT !.at = "between", !.sources = ss]
<1>1. run[r] \in Run /\ Sound(run[r]) /\ run[r].at = "off" /\ run \in [Runners -> Run]
  BY DEF IInv, TypeOK, Start
<1>2. t \in Run /\ t.at = "between" /\ t.failed = run[r].failed /\ t.dead = run[r].dead
  BY <1>1 DEF Run
<1>3. run' = [run EXCEPT ![r] = t] /\ UNCHANGED <<published, lots, last, faults, restarts>>
  BY <1>1 DEF Start
<1> HIDE DEF t
<1>4. Sound(t) /\ Present(t)
  BY <1>1, <1>2 DEF Sound, Present
<1>5. QED
  BY <1>2, <1>3, <1>4, FaultsStay, RunMovesOn

LEMMA OpenKeepsIInv ==
  ASSUME IInv, NEW r \in Runners, NEW s \in Sources, Open(r, s)
  PROVE  IInv'
<1> DEFINE t == Opened(run[r], s, FreshSession(r))
           row == [NoRow EXCEPT !.status = "running"]
<1>1. run[r] \in Run /\ Sound(run[r]) /\ run[r].at = "between" /\ run \in [Runners -> Run]
  BY DEF IInv, TypeOK, Open
<1>2. KeysOf(s) \subseteq Keys /\ FreshSession(r) \in BOOLEAN
  BY <1>1 DEF KeysOf, FreshSession, Run
<1>3. t \in Run
  BY <1>1, <1>2 DEF Run, Opened
<1>4. t.at = "fetching" /\ t.failed = 0
  BY <1>1 DEF Run, Opened, Sound
<1>5. Sound(t) /\ Present(t)
  BY <1>4 DEF Sound, Present
<1>6. row \in Row /\ Honest(row)
  BY DEF NoRow, Row, Honest
<1>7. /\ run' = [run EXCEPT ![r] = t] /\ last' = [last EXCEPT ![r] = row]
      /\ UNCHANGED <<published, lots, faults, restarts>>
  BY <1>1 DEF Open
<1> HIDE DEF t, row
<1>8. QED
  BY <1>3, <1>5, <1>6, <1>7, FaultsStay, RunMoves

LEMMA YieldKeepsIInv ==
  ASSUME IInv, NEW r \in Runners, NEW k \in Keys, Yield(r, k)
  PROVE  IInv'
<1> DEFINE t == Shown(run[r], k)
<1>1. run[r] \in Run /\ Sound(run[r]) /\ run \in [Runners -> Run] /\ published[k] \in Versions
  BY DEF IInv, TypeOK
<1>2. t \in Run
  <2> DEFINE q == run[r]
             n == q.seen + 1
             left == q.todo \ {k}
  <2>1. q \in Run /\ n \in Nat /\ left \in SUBSET Keys
    BY <1>1 DEF Run
  <2>2. t = [q EXCEPT !.at = "yielded", !.todo = left, !.key = k,
               !.version = published[k], !.seen = n]
    BY DEF Shown
  <2> HIDE DEF q, n, left, t
  <2>3. QED
    BY <1>1, <2>1, <2>2 DEF Run
<1>3. /\ t.at = "yielded" /\ t.failed = run[r].failed /\ t.dead = run[r].dead
      /\ t.key = k /\ t.version = published[k]
  BY <1>1 DEF Run, Shown
<1>4. run' = [run EXCEPT ![r] = t] /\ UNCHANGED <<published, lots, last, faults, restarts>>
  BY <1>1 DEF Yield
<1> HIDE DEF t
<1>5. Sound(t) /\ Present(t)
  <2>1. \A c \in Columns : published[k][c] <= published[k][c]
    BY <1>1, IngestAssumption DEF Versions
  <2>2. QED
    BY <1>1, <1>3, <2>1 DEF Sound, Present
<1>6. QED
  BY <1>2, <1>4, <1>5, FaultsStay, RunMovesOn

\* After a lot: whoever loses one has a dead session.
LEMMA BackIsSound ==
  ASSUME NEW q \in Run, Sound(q), NEW lost \in {0, 1}, NEW dead \in BOOLEAN,
         lost = 0 \/ dead, q.dead => dead
  PROVE  /\ Back(q, lost, dead) \in Run
         /\ Sound(Back(q, lost, dead)) /\ Present(Back(q, lost, dead))
<1>1. q.failed + lost \in Nat /\ q.failed \in Nat
  BY DEF Run
<1>2. Back(q, lost, dead) \in Run
  BY <1>1, Constants DEF Back, Run
<1>3. /\ Back(q, lost, dead).at = "fetching" /\ Back(q, lost, dead).dead = dead
      /\ Back(q, lost, dead).failed = q.failed + lost
  BY DEF Back, Run
<1>4. QED
  BY <1>1, <1>2, <1>3 DEF Sound, Present

LEMMA LookUpKeepsIInv ==
  ASSUME IInv, NEW r \in Runners, LookUp(r)
  PROVE  IInv'
<1> DEFINE q == run[r]
           t == [q EXCEPT !.at = "found", !.existing = lots[q.key]]
<1>1. q \in Run /\ Sound(q) /\ q.at = "yielded" /\ TypeOK /\ q.key \in Keys
        /\ UNCHANGED <<published, lots, last, faults, restarts>>
  BY DEF IInv, TypeOK, LookUp, Sound
<1>2. CASE q.dead
  <2>1. run' = [run EXCEPT ![r] = Back(q, 1, TRUE)]
    BY <1>2 DEF LookUp
  <2>2. QED
    BY <1>1, <1>2, <2>1, BackIsSound, FaultsStay, RunMovesOn
<1>3. CASE ~q.dead
  <2>1. /\ t \in Run /\ t.at = "found" /\ t.failed = q.failed /\ t.dead = q.dead
        /\ t.key = q.key /\ t.version = q.version /\ t.existing = lots[q.key]
    BY <1>1 DEF Run, TypeOK
  <2>2. run' = [run EXCEPT ![r] = t]
    BY <1>3 DEF LookUp
  <2> HIDE DEF t
  <2>3. Sound(t) /\ Present(t)
    BY <1>1, <1>3, <2>1 DEF Sound, Present
  <2>4. QED
    BY <1>1, <2>1, <2>2, <2>3, FaultsStay, RunMovesOn
<1>4. QED
  BY <1>2, <1>3

\* A lot is stored: whole, or the columns of it that have changed, or nothing.
LEMMA StoreKeepsIInv ==
  ASSUME IInv, NEW r \in Runners, Store(r)
  PROVE  IInv'
<1> DEFINE q == run[r]
           row == [c \in Columns |-> IF c \in Written(q) THEN q.version[c] ELSE lots[q.key][c]]
<1>1. /\ TypeOK /\ q \in Run /\ Sound(q) /\ Present(q) /\ q.at = "found" /\ ~q.dead
      /\ q.key \in Keys /\ q.version \in Versions
      /\ \A c \in Columns : q.version[c] <= published[q.key][c]
      /\ UNCHANGED <<published, last, faults, restarts>>
  BY DEF IInv, TypeOK, Store, Sound, Run
<1>2. CASE UNCHANGED lots
  <2>1. run' = [run EXCEPT ![r] = Back(q, 0, FALSE)] \/ run' = [run EXCEPT ![r] = Back(q, 1, TRUE)]
    BY DEF Store
  <2>2. /\ Back(q, 0, FALSE) \in Run
        /\ Sound(Back(q, 0, FALSE)) /\ Present(Back(q, 0, FALSE))
        /\ Back(q, 1, TRUE) \in Run
        /\ Sound(Back(q, 1, TRUE)) /\ Present(Back(q, 1, TRUE))
    BY <1>1, BackIsSound
  <2>3. QED
    BY <1>1, <1>2, <2>1, <2>2, FaultsStay, RunMovesOn
<1>3. CASE /\ Storable(q) /\ lots' = [lots EXCEPT ![q.key] = row]
           /\ run' = [run EXCEPT ![r] = Back(q, 0, FALSE)]
  <2>1. /\ Back(q, 0, FALSE) \in Run /\ Back(q, 0, FALSE).at = "fetching"
        /\ Sound(Back(q, 0, FALSE))
    <3>1. Back(q, 0, FALSE) \in Run /\ Sound(Back(q, 0, FALSE))
      BY <1>1, BackIsSound
    <3>2. Back(q, 0, FALSE).at = "fetching"
      BY <1>1 DEF Back, Run
    <3>3. QED
      BY <3>1, <3>2
  <2>2. /\ run' \in [Runners -> Run] /\ \A s \in Runners : Sound(run'[s])
        /\ run'[r].at = "fetching" /\ \A s \in Runners : s # r => run'[s] = run[s]
    BY <1>1, <1>3, <2>1 DEF IInv, TypeOK
  <2>3. \A c \in Columns : q.version[c] \in 0..MaxVersion /\ published[q.key][c] \in 0..MaxVersion
    BY <1>1 DEF Versions, TypeOK
  <2>4. row \in Versions /\ \A c \in Columns : row[c] <= published[q.key][c]
    <3>1. CASE q.existing = Absent
      <4>1. \A c \in Columns : q.existing[c] = -1
        BY <3>1 DEF Absent
      <4>2. -1 \notin 0..MaxVersion
        BY IngestAssumption
      <4>3. \A c \in Columns : c \in Written(q)
        BY <2>3, <4>1, <4>2 DEF Written
      <4>4. \A c \in Columns : row[c] = q.version[c]
        BY <4>3
      <4>5. QED
        BY <1>1, <2>3, <4>4 DEF Versions
    <3>2. CASE q.existing # Absent
      <4>1. lots[q.key] # Absent
        BY <1>1, <1>3, <3>2 DEF Storable, Present
      <4>2. lots[q.key] \in Versions
        BY <1>1, <4>1 DEF TypeOK
      <4>3. \A c \in Columns : lots[q.key][c] \in 0..MaxVersion /\ lots[q.key][c] <= published[q.key][c]
        BY <1>1, <4>2 DEF TypeOK, Versions
      <4>4. \A c \in Columns : row[c] \in 0..MaxVersion /\ row[c] <= published[q.key][c]
        BY <1>1, <2>3, <4>3
      <4>5. QED
        BY <4>4 DEF Versions
    <3>3. QED
      BY <3>1, <3>2
  <2> HIDE DEF row
  <2>5. /\ lots' \in [Keys -> Versions \cup {Absent}] /\ lots'[q.key] = row
        /\ \A k \in Keys : k # q.key => lots'[k] = lots[k]
    BY <1>1, <1>3, <2>4 DEF TypeOK
  <2>6. \A k \in Keys, c \in Columns : lots'[k][c] <= published[k][c]
    BY <1>1, <2>4, <2>5 DEF TypeOK
  <2>7. TypeOK'
    BY <1>1, <2>2, <2>5, <2>6 DEF TypeOK
  <2>8. \A s \in Runners : Present(run[s])'
    <3>1. SUFFICES ASSUME NEW s \in Runners, run'[s].at = "found", run'[s].existing # Absent,
                          ~run'[s].gone
                   PROVE  lots'[run'[s].key] # Absent
      BY DEF Present
    <3>2. run'[s] = run[s]
      BY <2>2, <3>1
    <3>3. lots[run[s].key] # Absent /\ run[s].key \in Keys
      BY <3>1, <3>2 DEF IInv, Present, Sound
    <3>4. QED
      BY <2>4, <2>5, <3>2, <3>3, Constants
  <2>9. QED
    BY <1>1, <2>2, <2>7, <2>8 DEF IInv, Sound, Honest
<1>4. QED
  BY <1>2, <1>3 DEF Store

\* The ends of a run of one source.
LEMMA RunEnds ==
  ASSUME IInv, NEW r \in Runners
  PROVE  /\ Resume(r) \in Run /\ Sound(Resume(r)) /\ Present(Resume(r))
         /\ Escape(r) \in Run /\ Sound(Escape(r)) /\ Present(Escape(r))
<1>1. run[r] \in Run
  BY DEF IInv, TypeOK
<1>2. run[r].dead \in BOOLEAN /\ run[r].sources \in SUBSET Sources
  BY <1>1 DEF Run
<1>3. [Off EXCEPT !.dead = run[r].dead] \in Run
  BY <1>2, Constants DEF Run
<1>4. [Off EXCEPT !.at = "between", !.sources = run[r].sources, !.dead = run[r].dead] \in Run
  BY <1>2, Constants DEF Run
<1>5. /\ [Off EXCEPT !.dead = run[r].dead].failed = 0
      /\ [Off EXCEPT !.dead = run[r].dead].at = "off"
      /\ [Off EXCEPT !.at = "between", !.sources = run[r].sources, !.dead = run[r].dead].failed = 0
      /\ [Off EXCEPT !.at = "between", !.sources = run[r].sources, !.dead = run[r].dead].at
           = "between"
  BY DEF Off
<1>6. Resume(r) \in Run /\ Resume(r).failed = 0 /\ Resume(r).at \in {"off", "between"}
  BY <1>3, <1>4, <1>5 DEF Resume
<1>7. Sound(Resume(r)) /\ Present(Resume(r))
  BY <1>6 DEF Sound, Present
<1>8. QED
  BY <1>6, <1>7, Constants DEF Escape

\* "ok" is written by a session that has never failed.
LEMMA FinishKeepsIInv ==
  ASSUME IInv, NEW r \in Runners, Finish(r)
  PROVE  IInv'
<1> DEFINE row == Finished(r, "ok", run[r].seen)
<1>1. /\ run[r] \in Run /\ Sound(run[r]) /\ run[r].todo = {}
      /\ UNCHANGED <<published, lots, faults, restarts>>
  BY DEF IInv, TypeOK, Finish
<1>2. CASE Commits(r)
  <2>1. row \in Row
    BY <1>1 DEF Finished, Row, Run
  <2>2. /\ row.failed = run[r].failed /\ row.seen = run[r].seen /\ row.handled = run[r].seen
        /\ row.left = run[r].missed /\ row.status = "ok"
        /\ row.full => run[r].missed = {}
    BY <1>1 DEF Finished
  <2>3. run[r].failed = 0
    BY <1>1, <1>2 DEF Commits, Sound, Run
  <2>4. Honest(row)
    BY <2>2, <2>3 DEF Honest
  <2>5. last' = [last EXCEPT ![r] = row] /\ run' = [run EXCEPT ![r] = Resume(r)]
    BY <1>2 DEF Finish
  <2> HIDE DEF row
  <2>6. QED
    BY <1>1, <2>1, <2>4, <2>5, RunEnds, FaultsStay, RunMoves
<1>3. CASE ~Commits(r)
  BY <1>1, <1>3, RunEnds, FaultsStay, RunMovesOn DEF Finish
<1>4. QED
  BY <1>2, <1>3

LEMMA SourceFailsKeepsIInv ==
  ASSUME IInv, NEW r \in Runners, SourceFails(r)
  PROVE  IInv'
<1> DEFINE row == Finished(r, "error", 0)
<1>1. run[r] \in Run /\ Fault /\ UNCHANGED <<published, lots, restarts>>
  BY DEF IInv, TypeOK, SourceFails
<1>2. CASE Commits(r)
  <2>1. row \in Row
    BY <1>1 DEF Finished, Row, Run
  <2>2. Honest(row)
    BY DEF Finished, Honest
  <2>3. last' = [last EXCEPT ![r] = row] /\ run' = [run EXCEPT ![r] = Resume(r)]
    BY <1>2 DEF SourceFails
  <2> HIDE DEF row
  <2>4. QED
    BY <1>1, <2>1, <2>2, <2>3, RunEnds, FaultsStay, RunMoves
<1>3. CASE ~Commits(r)
  BY <1>1, <1>3, RunEnds, FaultsStay, RunMovesOn DEF SourceFails
<1>4. QED
  BY <1>2, <1>3

LEMMA EmptyPageKeepsIInv ==
  ASSUME IInv, NEW r \in Runners, EmptyPage(r)
  PROVE  IInv'
<1> DEFINE q == run[r]
           t == [q EXCEPT !.missed = q.todo, !.todo = {}]
<1>1. q \in Run /\ Sound(q) /\ run \in [Runners -> Run] /\ q.at = "fetching"
  BY DEF IInv, TypeOK, EmptyPage
<1>2. t \in Run /\ t.at = q.at /\ t.failed = q.failed /\ t.dead = q.dead
  BY <1>1 DEF Run
<1>3. run' = [run EXCEPT ![r] = t] /\ UNCHANGED <<published, lots, last, restarts>> /\ Fault
  BY <1>1 DEF EmptyPage
<1> HIDE DEF t
<1>4. Sound(t) /\ Present(t)
  BY <1>1, <1>2 DEF Sound, Present
<1>5. QED
  BY <1>2, <1>3, <1>4, FaultsStay, RunMovesOn

-----------------------------------------------------------------------------
(***************************************************************************)
(* The sources, administrators, restarts.                                  *)
(***************************************************************************)
LEMMA PublishKeepsIInv ==
  ASSUME IInv, NEW k \in Keys, NEW cs \in SUBSET Columns, Publish(k, cs)
  PROVE  IInv'
<1> DEFINE shown == [c \in Columns |-> IF c \in cs THEN published[k][c] + 1 ELSE published[k][c]]
<1>1. /\ TypeOK /\ published[k] \in Versions /\ \A c \in cs : published[k][c] < MaxVersion
      /\ published' = [published EXCEPT ![k] = shown]
      /\ UNCHANGED <<lots, run, last, faults, restarts>>
  BY DEF IInv, TypeOK, Publish
<1>2. \A c \in Columns : shown[c] \in 0..MaxVersion /\ published[k][c] <= shown[c]
  BY <1>1, IngestAssumption DEF Versions
<1>3. shown \in Versions
  BY <1>2 DEF Versions
<1> HIDE DEF shown
<1>4. /\ published' \in [Keys -> Versions] /\ published'[k] = shown
      /\ \A j \in Keys : j # k => published'[j] = published[j]
  BY <1>1, <1>3 DEF TypeOK
<1>5. \A j \in Keys, c \in Columns :
        /\ published[j][c] \in 0..MaxVersion /\ published'[j][c] \in 0..MaxVersion
        /\ published[j][c] <= published'[j][c]
  BY <1>1, <1>2, <1>4, IngestAssumption DEF TypeOK, Versions
<1>6. \A j \in Keys, c \in Columns : lots[j][c] <= published'[j][c]
  <2>1. SUFFICES ASSUME NEW j \in Keys, NEW c \in Columns PROVE lots[j][c] <= published'[j][c]
    OBVIOUS
  <2>2. lots[j][c] \in Int /\ lots[j][c] <= published[j][c]
    BY <1>1 DEF TypeOK, Versions, Absent
  <2>3. QED
    BY <1>5, <2>2
<1>7. TypeOK'
  BY <1>1, <1>4, <1>6 DEF TypeOK
<1>8. ASSUME NEW r \in Runners, run[r].at \in {"yielded", "found"}
      PROVE  /\ run[r].key \in Keys
             /\ \A c \in Columns : run[r].version[c] <= published'[run[r].key][c]
  <2>1. /\ run[r].key \in Keys /\ run[r].version \in Versions
        /\ \A c \in Columns : run[r].version[c] <= published[run[r].key][c]
    BY <1>1, <1>8 DEF IInv, Sound, TypeOK, Run
  <2>2. \A c \in Columns : run[r].version[c] \in 0..MaxVersion
    BY <2>1 DEF Versions
  <2>3. QED
    BY <1>5, <2>1, <2>2
<1>9. \A r \in Runners : Sound(run[r])' /\ Present(run[r])'
  BY <1>1, <1>8 DEF IInv, Sound, Present
<1>10. QED
  BY <1>1, <1>7, <1>9 DEF IInv, Honest

LEMMA DeleteLotKeepsIInv ==
  ASSUME IInv, NEW k \in Keys, DeleteLot(k)
  PROVE  IInv'
<1>1. /\ TypeOK /\ faults' \in 0..MaxFaults /\ restarts' \in 0..faults'
      /\ lots' = [lots EXCEPT ![k] = Absent] /\ UNCHANGED <<published, last, restarts>>
  BY FaultsStay DEF IInv, DeleteLot
<1>2. \A r \in Runners : [run[r] EXCEPT !.gone = TRUE] \in Run
  BY <1>1 DEF TypeOK, Run
<1>3. run' \in [Runners -> Run]
  BY <1>1, <1>2 DEF DeleteLot, TypeOK
<1>4. /\ lots' \in [Keys -> Versions \cup {Absent}]
      /\ \A j \in Keys, c \in Columns : lots'[j][c] <= published[j][c]
  <2>1. \A j \in Keys, c \in Columns : Absent[c] <= published[j][c]
    BY <1>1, IngestAssumption DEF TypeOK, Versions, Absent
  <2>2. QED
    BY <1>1, <2>1 DEF TypeOK
<1>5. TypeOK'
  BY <1>1, <1>3, <1>4 DEF TypeOK
<1>6. ASSUME NEW r \in Runners
      PROVE  /\ Sound(run'[r])
             /\ run'[r].at = "found" /\ run'[r].existing # Absent /\ ~run'[r].gone =>
                  lots'[run'[r].key] # Absent
  <2>1. run[r] \in Run /\ Sound(run[r]) /\ Present(run[r])
    BY <1>1 DEF IInv, TypeOK
  <2>2. \/ run'[r] = run[r] /\ ~(run[r].key = k /\ run[r].existing # Absent)
        \/ run'[r] = [run[r] EXCEPT !.gone = TRUE]
    BY DEF DeleteLot
  <2>3. /\ run'[r].at = run[r].at /\ run'[r].failed = run[r].failed
        /\ run'[r].dead = run[r].dead /\ run'[r].key = run[r].key
        /\ run'[r].version = run[r].version /\ run'[r].existing = run[r].existing
    BY <2>1, <2>2 DEF Run
  <2>4. Sound(run'[r])
    BY <2>1, <2>3 DEF Sound
  <2>5. CASE run'[r] = [run[r] EXCEPT !.gone = TRUE]
    <3>1. run'[r].gone
      BY <2>1, <2>5 DEF Run
    <3>2. QED
      BY <2>4, <3>1
  <2>6. CASE run'[r] = run[r] /\ ~(run[r].key = k /\ run[r].existing # Absent)
    <3>1. run[r].at = "found" /\ run[r].existing # Absent /\ ~run[r].gone =>
            lots'[run[r].key] = lots[run[r].key] /\ lots[run[r].key] # Absent
      BY <1>1, <2>1, <2>6 DEF Present, Sound, TypeOK
    <3>2. QED
      BY <2>4, <2>6, <3>1
  <2>7. QED
    BY <2>2, <2>5, <2>6
<1>7. QED
  BY <1>1, <1>5, <1>6 DEF IInv, Sound, Present, Honest

LEMMA CrashKeepsIInv ==
  ASSUME IInv, Crash
  PROVE  IInv'
<1>1. /\ TypeOK /\ faults' \in 0..MaxFaults /\ restarts' \in 0..faults'
      /\ run' = [r \in Runners |-> Off] /\ UNCHANGED <<published, lots, last>>
  BY IngestAssumption DEF IInv, Crash, Fault, TypeOK
<1>2. TypeOK'
  BY <1>1, Constants DEF TypeOK
<1>3. \A r \in Runners : Sound(run'[r]) /\ Present(run'[r])
  BY <1>1, Constants
<1>4. QED
  BY <1>1, <1>2, <1>3 DEF IInv, Sound, Present, Honest

-----------------------------------------------------------------------------
LEMMA InitIInv == Init => IInv
<1>1. SUFFICES ASSUME Init PROVE IInv
  OBVIOUS
<1>2. \A c \in Columns : Absent[c] <= Original[c]
  BY DEF Absent, Original
<1>3. TypeOK
  BY <1>1, <1>2, Constants DEF Init, TypeOK
<1>4. QED
  BY <1>1, <1>3, Constants DEF Init, IInv

LEMMA NextKeepsIInv == IInv /\ [Next]_vars => IInv'
<1>1. SUFFICES ASSUME IInv, [Next]_vars PROVE IInv'
  OBVIOUS
<1>2. ASSUME NEW r \in Runners,
             \/ \E ss \in (SUBSET Sources) \ {{}} : Start(r, ss)
             \/ \E s \in Sources : Open(r, s)
             \/ \E k \in Keys : Yield(r, k)
             \/ LookUp(r) \/ Store(r) \/ Finish(r) \/ EmptyPage(r) \/ SourceFails(r)
      PROVE  IInv'
  BY <1>1, <1>2, StartKeepsIInv, OpenKeepsIInv, YieldKeepsIInv, LookUpKeepsIInv,
     StoreKeepsIInv, FinishKeepsIInv, EmptyPageKeepsIInv, SourceFailsKeepsIInv
<1>3. CASE \/ \E k \in Keys, cs \in (SUBSET Columns) \ {{}} : Publish(k, cs)
           \/ \E k \in Keys : DeleteLot(k)
           \/ Crash
  BY <1>1, <1>3, PublishKeepsIInv, DeleteLotKeepsIInv, CrashKeepsIInv
<1>4. CASE UNCHANGED vars
  <2>1. UNCHANGED <<published, lots, run, last, faults, restarts>>
    BY <1>4 DEF vars
  <2>2. TypeOK'
    BY <1>1, <2>1 DEF IInv, TypeOK
  <2>3. QED
    BY <1>1, <2>1, <2>2 DEF IInv, Sound, Present, Honest
<1>5. QED
  BY <1>1, <1>2, <1>3, <1>4 DEF Next

LEMMA Invariance == Spec => []IInv
BY InitIInv, NextKeepsIInv, PTL DEF Spec

\* Nothing is stored that was never published (ingest_service.py).
THEOREM TypeCorrect == Spec => []TypeOK
<1>1. IInv => TypeOK
  BY DEF IInv
<1>2. QED
  BY <1>1, Invariance, PTL

\* A row of parser_runs that says "ok" speaks of a run that lost no lot
\* (ingest_service.py: run_source).
THEOREM OkIsTrue == Spec => []OkMeansAllStored
<1>1. IInv => OkMeansAllStored
  BY DEF IInv, Honest, OkMeansAllStored
<1>2. QED
  BY <1>1, Invariance, PTL

\* One source that raises or spoils its session never keeps a scheduled tick from
\* the others: only a restart does (scheduler/tasks.py: parser_tick).
THEOREM TicksVisitAll == Spec => TickVisitsAll
<1> DEFINE Visits ==
      \A r \in Runners :
        r = "scheduled" /\ run[r].at # "off" /\ run'[r].at = "off" =>
          run[r].sources = {} \/ restarts' # restarts
<1>1. IInv /\ [Next]_vars => [Visits]_vars
  <2>1. SUFFICES ASSUME IInv, Next, NEW r \in Runners,
                        r = "scheduled", run[r].at # "off", run'[r].at = "off"
                 PROVE  run[r].sources = {} \/ restarts' # restarts
    OBVIOUS
  <2>2. TypeOK /\ run \in [Runners -> Run] /\ run[r] \in Run
    BY <2>1 DEF IInv, TypeOK
  <2>3. CASE Crash
    BY <2>2, <2>3 DEF Crash, TypeOK
  <2>4. CASE run'[r] = Resume(r)
    BY <2>1, <2>2, <2>4, Constants DEF Resume, Off, Run
  <2>5. CASE run'[r].at \in {"between", "fetching", "yielded", "found"}
    BY <2>1, <2>5
  <2>6. Crash \/ run'[r] = run[r] \/ run'[r] = Resume(r)
          \/ run'[r].at \in {"between", "fetching", "yielded", "found"}
    <3>1. ASSUME NEW q \in Runners,
                 \/ \E ss \in (SUBSET Sources) \ {{}} : Start(q, ss)
                 \/ \E s \in Sources : Open(q, s)
                 \/ \E k \in Keys : Yield(q, k)
                 \/ LookUp(q) \/ Store(q)
          PROVE  run'[r] = run[r] \/ run'[r].at \in {"between", "fetching", "yielded", "found"}
      <4>1. PICK t : run' = [run EXCEPT ![q] = t]
                     /\ t.at \in {"between", "fetching", "yielded", "found"}
        <5>1. run[q] \in Run
          BY <2>2
        <5>2. ASSUME NEW ss, Start(q, ss)
              PROVE  /\ run' = [run EXCEPT ![q] = [run[q] EXCEPT !.at = "between", !.sources = ss]]
                     /\ [run[q] EXCEPT !.at = "between", !.sources = ss].at = "between"
          BY <2>2, <5>1, <5>2 DEF Start, Run
        <5>3. ASSUME NEW s, Open(q, s)
              PROVE  /\ run' = [run EXCEPT ![q] = Opened(run[q], s, FreshSession(q))]
                     /\ Opened(run[q], s, FreshSession(q)).at = "fetching"
          BY <2>2, <5>1, <5>3 DEF Open, Opened, Run
        <5>4. ASSUME NEW k, Yield(q, k)
              PROVE  run' = [run EXCEPT ![q] = Shown(run[q], k)] /\ Shown(run[q], k).at = "yielded"
          BY <2>2, <5>1, <5>4 DEF Yield, Shown, Run
        <5>5. /\ Back(run[q], 0, FALSE).at = "fetching" /\ Back(run[q], 1, TRUE).at = "fetching"
              /\ [run[q] EXCEPT !.at = "found", !.existing = lots[run[q].key]].at = "found"
          BY <5>1 DEF Back, Run
        <5>6. LookUp(q) =>
                \/ run' = [run EXCEPT ![q] = Back(run[q], 1, TRUE)]
                \/ run' = [run EXCEPT ![q] = [run[q] EXCEPT !.at = "found",
                                                 !.existing = lots[run[q].key]]]
          BY DEF LookUp
        <5>7. Store(q) =>
                \/ run' = [run EXCEPT ![q] = Back(run[q], 0, FALSE)]
                \/ run' = [run EXCEPT ![q] = Back(run[q], 1, TRUE)]
          BY DEF Store
        <5>8. QED
          BY <3>1, <5>2, <5>3, <5>4, <5>5, <5>6, <5>7
      <4>2. QED
        BY <2>2, <4>1
    <3>2. ASSUME NEW q \in Runners, Finish(q) \/ SourceFails(q)
          PROVE  run'[r] = run[r] \/ run'[r] = Resume(r)
      BY <2>1, <2>2, <3>2 DEF Finish, SourceFails, Escape
    <3>3. ASSUME NEW q \in Runners, EmptyPage(q)
          PROVE  run'[r] = run[r] \/ run'[r].at = "fetching"
      <4>1. /\ run[q] \in Run /\ run[q].at = "fetching"
            /\ run' = [run EXCEPT ![q] = [run[q] EXCEPT !.missed = run[q].todo, !.todo = {}]]
        BY <2>2, <3>3 DEF EmptyPage
      <4>2. [run[q] EXCEPT !.missed = run[q].todo, !.todo = {}].at = "fetching"
        BY <4>1 DEF Run
      <4>3. QED
        BY <2>2, <4>1, <4>2
    <3>4. ASSUME NEW k \in Keys, DeleteLot(k)
          PROVE  run'[r].at = run[r].at
      <4>1. run'[r] = run[r] \/ run'[r] = [run[r] EXCEPT !.gone = TRUE]
        BY <3>4 DEF DeleteLot
      <4>2. [run[r] EXCEPT !.gone = TRUE].at = run[r].at
        BY <2>2 DEF Run
      <4>3. QED
        BY <4>1, <4>2
    <3>5. ASSUME NEW k, NEW cs, Publish(k, cs) PROVE run'[r] = run[r]
      BY <3>5 DEF Publish
    <3>6. QED
      BY <2>1, <3>1, <3>2, <3>3, <3>4, <3>5 DEF Next
  <2>7. QED
    BY <2>1, <2>3, <2>4, <2>5, <2>6
<1>2. QED
  BY <1>1, Invariance, PTL DEF Spec, TickVisitsAll

-----------------------------------------------------------------------------
(***************************************************************************)
(* Every run comes to its end: sources, then the lots of the source at     *)
(* hand, then the steps with one lot become fewer, compared in this order. *)
(***************************************************************************)
Countdown == LexProductOrdering(OpToRel(<, Nat), Nat, 5)

Phase == [a \in {"off", "between", "fetching", "yielded", "found"} |->
           IF a = "yielded" THEN 2 ELSE IF a = "found" THEN 1 ELSE 0]
RunLeft(t) ==
  <<IF t.at = "off" THEN 0 ELSE 1, Cardinality(t.sources), IF t.at = "between" THEN 0 ELSE 1,
    Cardinality(t.todo), Phase[t.at]>>

LEMMA StepDown ==
  ASSUME NEW p \in [1..5 -> Nat], NEW q \in [1..5 -> Nat], NEW j \in 1..5,
         \A i \in 1..j - 1 : p[i] = q[i], p[j] < q[j]
  PROVE  <<p, q>> \in Countdown
<1> DEFINE R == OpToRel(<, Nat)
<1>1. <<p[j], q[j]>> \in R
  BY DEF OpToRel
<1> HIDE DEF R
<1>2. <<p, q>> \in LexProductOrdering(R, Nat, 5)
  BY <1>1 DEF LexProductOrdering
<1> QED
  BY <1>2 DEF R, Countdown

LEMMA NoInfiniteDescent == IsWellFoundedOn(Countdown, [1..5 -> Nat])
<1> DEFINE R == OpToRel(<, Nat)
<1>1. IsWellFoundedOn(R, Nat)
  BY NatLessThanWellFounded
<1> HIDE DEF R
<1>2. IsWellFoundedOn(LexProductOrdering(R, Nat, 5), [1..5 -> Nat])
  BY <1>1, WFLexProductOrdering
<1> QED
  BY <1>2 DEF R, Countdown

LEMMA RunIsFinite ==
  ASSUME NEW t \in Run
  PROVE  IsFiniteSet(t.sources) /\ IsFiniteSet(t.todo)
BY IngestAssumption, FS_Subset DEF Run

LEMMA RunLeftType == ASSUME NEW t \in Run PROVE RunLeft(t) \in [1..5 -> Nat]
<1>1. Cardinality(t.sources) \in Nat /\ Cardinality(t.todo) \in Nat
  BY RunIsFinite, FS_CardinalityType
<1>2. Phase[t.at] \in Nat
  BY DEF Phase, Run
<1> QED
  BY <1>1, <1>2 DEF RunLeft

\* What makes less of a run's work.
Less(t, s) ==
  \/ s.at = "off"
  \/ s.sources \subseteq t.sources /\ s.sources # t.sources
  \/ s.sources = t.sources /\ s.at = "between" /\ t.at # "between"
  \/ /\ s.sources = t.sources /\ t.at # "between" /\ s.todo \subseteq t.todo
     /\ s.todo = t.todo => Phase[s.at] < Phase[t.at]

LEMMA LessLeft ==
  ASSUME NEW t \in Run, NEW s \in Run, t.at # "off", Less(t, s)
  PROVE  <<RunLeft(s), RunLeft(t)>> \in Countdown
<1> DEFINE p == RunLeft(s)  q == RunLeft(t)
<1>1. p \in [1..5 -> Nat] /\ q \in [1..5 -> Nat]
  BY RunLeftType
<1>2. /\ p[1] = (IF s.at = "off" THEN 0 ELSE 1) /\ p[2] = Cardinality(s.sources)
      /\ p[3] = (IF s.at = "between" THEN 0 ELSE 1) /\ p[4] = Cardinality(s.todo)
      /\ p[5] = Phase[s.at]
  BY DEF RunLeft
<1>3. /\ q[1] = 1 /\ q[2] = Cardinality(t.sources)
      /\ q[3] = (IF t.at = "between" THEN 0 ELSE 1) /\ q[4] = Cardinality(t.todo)
      /\ q[5] = Phase[t.at]
  BY DEF RunLeft
<1> HIDE DEF p, q
<1>4. \A S \in {t.sources, t.todo} : \A T \in SUBSET S :
        T # S => Cardinality(T) < Cardinality(S)
  <2> SUFFICES ASSUME NEW S \in {t.sources, t.todo}, NEW T \in SUBSET S, T # S
               PROVE  Cardinality(T) < Cardinality(S)
    OBVIOUS
  <2>1. IsFiniteSet(S)
    BY RunIsFinite
  <2>2. Cardinality(T) <= Cardinality(S) /\ Cardinality(T) # Cardinality(S) /\ IsFiniteSet(T)
    BY <2>1, FS_Subset
  <2> QED
    BY <2>1, <2>2, FS_CardinalityType
<1>5. \E j \in 1..5 : (\A i \in 1..j - 1 : p[i] = q[i]) /\ p[j] < q[j]
  <2>1. CASE s.at = "off"
    <3>1. p[1] < q[1]
      BY <1>2, <1>3, <2>1
    <3> QED
      BY <3>1
  <2>2. CASE s.at # "off" /\ s.sources \subseteq t.sources /\ s.sources # t.sources
    <3>1. p[1] = q[1] /\ p[2] < q[2]
      BY <1>2, <1>3, <1>4, <2>2
    <3> QED
      BY <3>1
  <2>3. CASE s.at = "between" /\ s.sources = t.sources /\ t.at # "between"
    <3>1. p[1] = q[1] /\ p[2] = q[2] /\ p[3] < q[3]
      BY <1>2, <1>3, <2>3
    <3> QED
      BY <3>1
  <2>4. CASE /\ s.at \notin {"off", "between"} /\ s.sources = t.sources /\ t.at # "between"
             /\ s.todo \subseteq t.todo /\ s.todo # t.todo
    <3>1. p[1] = q[1] /\ p[2] = q[2] /\ p[3] = q[3] /\ p[4] < q[4]
      BY <1>2, <1>3, <1>4, <2>4
    <3> QED
      BY <3>1
  <2>5. CASE /\ s.at \notin {"off", "between"} /\ s.sources = t.sources /\ t.at # "between"
             /\ s.todo = t.todo /\ Phase[s.at] < Phase[t.at]
    <3>1. p[1] = q[1] /\ p[2] = q[2] /\ p[3] = q[3] /\ p[4] = q[4] /\ p[5] < q[5]
      BY <1>2, <1>3, <2>5
    <3> QED
      BY <3>1
  <2> QED
    BY <2>1, <2>2, <2>3, <2>4, <2>5 DEF Less
<1>6. <<p, q>> \in Countdown
  BY <1>1, <1>5, StepDown
<1> QED
  BY <1>6 DEF p, q

LEMMA ResumeIsLess ==
  ASSUME TypeOK, NEW r \in Runners, run[r].at = "fetching"
  PROVE  Less(run[r], Resume(r)) /\ Less(run[r], Escape(r))
<1>1. Off.at = "off" /\ run[r].at # "between"
  BY DEF Off
<1>2. \/ Resume(r).at = "off"
      \/ Resume(r).at = "between" /\ Resume(r).sources = run[r].sources
  BY DEF Resume, Off
<1> QED
  BY <1>1, <1>2 DEF Less, Escape

LEMMA ProgressIsLess ==
  ASSUME TypeOK, NEW r \in Runners, Progress(r)
  PROVE  Less(run[r], run'[r])
<1>1. run \in [Runners -> Run] /\ run[r] \in Run
  BY DEF TypeOK
<1>2. CASE \E s \in Sources : Open(r, s)
  BY <1>1, <1>2 DEF Open, Opened, Run, Less
<1>3. CASE \E k \in Keys : Yield(r, k)
  BY <1>1, <1>3 DEF Yield, Shown, Run, Less
<1>4. CASE LookUp(r)
  BY <1>1, <1>4 DEF LookUp, Back, Run, Less, Phase
<1>5. CASE Store(r)
  <2>1. \E n \in {0, 1}, d \in BOOLEAN : run'[r] = Back(run[r], n, d)
    BY <1>1, <1>5 DEF Store
  <2> QED
    BY <1>1, <1>5, <2>1 DEF Store, Back, Run, Less, Phase
<1>6. CASE Finish(r)
  BY <1>1, <1>6, ResumeIsLess DEF Finish
<1> QED
  BY <1>2, <1>3, <1>4, <1>5, <1>6 DEF Progress

\* With each of its steps a run has less to do, in an order without infinite
\* descent, and nothing that others do, or the database refuses, gives it more.
THEOREM RunsCountDown ==
  /\ IsWellFoundedOn(Countdown, [1..5 -> Nat])
  /\ Spec => [][\A r \in Runners : run[r].at # "off" =>
       /\ Progress(r) => <<RunLeft(run'[r]), RunLeft(run[r])>> \in Countdown
       /\ RunLeft(run'[r]) # RunLeft(run[r]) =>
            <<RunLeft(run'[r]), RunLeft(run[r])>> \in Countdown]_vars
<1>1. ASSUME TypeOK, TypeOK', NEW r \in Runners, run[r].at # "off", Less(run[r], run'[r])
      PROVE  <<RunLeft(run'[r]), RunLeft(run[r])>> \in Countdown
  <2>1. run[r] \in Run /\ run'[r] \in Run
    BY <1>1 DEF TypeOK
  <2> QED
    BY <1>1, <2>1, LessLeft
<1>2. ASSUME TypeOK, Next, NEW r \in Runners, run[r].at # "off"
      PROVE  Less(run[r], run'[r]) \/ RunLeft(run'[r]) = RunLeft(run[r])
  <2>1. run \in [Runners -> Run] /\ run[r] \in Run
    BY <1>2 DEF TypeOK
  <2>2. ASSUME NEW q \in Runners,
               \/ \E ss \in (SUBSET Sources) \ {{}} : Start(q, ss)
               \/ Progress(q) \/ EmptyPage(q) \/ SourceFails(q)
        PROVE  Less(run[r], run'[r]) \/ run'[r] = run[r]
    <3>1. CASE q # r
      BY <2>1, <2>2, <3>1 DEF Start, Progress, Open, Yield, LookUp, Store, Finish, EmptyPage,
         SourceFails
    <3>2. CASE q = r /\ Progress(r)
      BY <1>2, <3>2, ProgressIsLess
    <3>3. CASE q = r /\ EmptyPage(r)
      BY <2>1, <3>3 DEF EmptyPage, Run, Less
    <3>4. CASE q = r /\ SourceFails(r)
      BY <1>2, <2>1, <3>4, ResumeIsLess DEF SourceFails
    <3> QED
      BY <1>2, <2>2, <3>1, <3>2, <3>3, <3>4 DEF Start
  <2>3. CASE Crash
    BY <2>3 DEF Crash, Off, Less
  <2>4. CASE (\E k, cs : Publish(k, cs)) \/ (\E k : DeleteLot(k))
    <3>1. run'[r] = run[r] \/ run'[r] = [run[r] EXCEPT !.gone = TRUE]
      BY <2>4 DEF Publish, DeleteLot
    <3>2. /\ run'[r].at = run[r].at /\ run'[r].sources = run[r].sources
          /\ run'[r].todo = run[r].todo
      BY <2>1, <3>1 DEF Run
    <3> QED
      BY <3>2 DEF RunLeft
  <2> QED
    BY <1>2, <2>2, <2>3, <2>4 DEF Next, Progress
<1>3. TypeOK /\ TypeOK' /\ [Next]_vars =>
        [\A r \in Runners : run[r].at # "off" =>
           /\ Progress(r) => <<RunLeft(run'[r]), RunLeft(run[r])>> \in Countdown
           /\ RunLeft(run'[r]) # RunLeft(run[r]) =>
                <<RunLeft(run'[r]), RunLeft(run[r])>> \in Countdown]_vars
  BY <1>1, <1>2, ProgressIsLess
<1>4. Spec => [][\A r \in Runners : run[r].at # "off" =>
        /\ Progress(r) => <<RunLeft(run'[r]), RunLeft(run[r])>> \in Countdown
        /\ RunLeft(run'[r]) # RunLeft(run[r]) =>
             <<RunLeft(run'[r]), RunLeft(run[r])>> \in Countdown]_vars
  BY <1>3, TypeCorrect, PTL DEF Spec
<1> QED
  BY <1>4, NoInfiniteDescent, Zenon

\* One of the conditions under which Progress(r) takes a step.
GoesOn(r) ==
  \/ \E s \in Sources : run[r].at = "between" /\ s \in run[r].sources
  \/ \E k \in Keys : run[r].at = "fetching" /\ k \in run[r].todo
  \/ run[r].at = "fetching" /\ run[r].todo = {}
  \/ run[r].at \in {"yielded", "found"}

\* Between two sources there is a source to come.
Pending == \A r \in Runners : run[r].at = "between" => run[r].sources # {}

\* A run in progress can always go on by itself: none waits for another run,
\* and none is left between two sources without one to come.
THEOREM RunsNeverStall ==
  Spec => [](\A r \in Runners : run[r].at # "off" => GoesOn(r))
<1>1. Init => Pending
  BY DEF Init, Off, Pending
<1>2. TypeOK /\ Pending /\ [Next]_vars => Pending'
  <2> SUFFICES ASSUME TypeOK, Pending, [Next]_vars, NEW r \in Runners,
                      run'[r].at = "between"
               PROVE  run'[r].sources # {}
    BY DEF Pending
  <2>1. run \in [Runners -> Run] /\ run[r] \in Run /\ (run[r].at = "between" => run[r].sources # {})
    BY DEF TypeOK, Pending
  <2>2. ASSUME NEW q \in Runners, q # r,
               \/ \E ss \in (SUBSET Sources) \ {{}} : Start(q, ss)
               \/ Progress(q) \/ EmptyPage(q) \/ SourceFails(q)
        PROVE  run'[r] = run[r]
    BY <2>1, <2>2 DEF Start, Progress, Open, Yield, LookUp, Store, Finish, EmptyPage,
       SourceFails
  <2>3. CASE \E ss \in (SUBSET Sources) \ {{}} : Start(r, ss)
    BY <2>1, <2>3 DEF Start, Run
  <2>4. Resume(r).at = "between" => Resume(r).sources # {}
    BY DEF Resume, Off
  <2>5. CASE Finish(r) \/ SourceFails(r)
    <3>1. run'[r] \in {Resume(r), Escape(r)}
      BY <2>1, <2>5 DEF Finish, SourceFails
    <3>2. Off.at # "between"
      BY DEF Off
    <3>3. run'[r] = Resume(r)
      BY <3>1, <3>2 DEF Escape
    <3> QED
      BY <2>4, <3>3
  <2>6. CASE \E s \in Sources : Open(r, s)
    <3>1. run'[r].at = "fetching"
      BY <2>1, <2>6 DEF Open, Opened, Run
    <3> QED
      BY <3>1
  <2>7. CASE \E k \in Keys : Yield(r, k)
    <3>1. run'[r].at = "yielded"
      BY <2>1, <2>7 DEF Yield, Shown, Run
    <3> QED
      BY <3>1
  <2>8. CASE LookUp(r) \/ Store(r)
    <3>1. \A n \in {0, 1}, d \in BOOLEAN : Back(run[r], n, d).at = "fetching"
      BY <2>1 DEF Back, Run
    <3>2. \/ \E n \in {0, 1}, d \in BOOLEAN : run'[r] = Back(run[r], n, d)
          \/ run'[r].at = "found"
      <4>1. CASE LookUp(r)
        BY <2>1, <4>1 DEF LookUp, Run
      <4>2. CASE Store(r)
        BY <2>1, <4>2 DEF Store
      <4> QED
        BY <2>8, <4>1, <4>2
    <3> QED
      BY <3>1, <3>2
  <2>9. CASE EmptyPage(r)
    <3>1. run'[r].at = "fetching"
      BY <2>1, <2>9 DEF EmptyPage, Run
    <3> QED
      BY <3>1
  <2>10. CASE Crash
    BY <2>10 DEF Crash, Off
  <2>11. CASE (\E k, cs : Publish(k, cs)) \/ (\E k : DeleteLot(k))
    <3>1. run'[r] = run[r] \/ run'[r] = [run[r] EXCEPT !.gone = TRUE]
      BY <2>11 DEF Publish, DeleteLot
    <3> QED
      BY <2>1, <3>1 DEF Run
  <2>12. CASE UNCHANGED vars
    BY <2>1, <2>12 DEF vars
  <2> QED
    BY <2>1, <2>2, <2>3, <2>5, <2>6, <2>7, <2>8, <2>9, <2>10, <2>11,
       <2>12 DEF Next, Progress
<1>3. TypeOK /\ Pending => \A r \in Runners : run[r].at # "off" => GoesOn(r)
  BY DEF TypeOK, Pending, GoesOn, Run
<1> QED
  BY <1>1, <1>2, <1>3, TypeCorrect, PTL DEF Spec

-----------------------------------------------------------------------------
(***************************************************************************)
(* Site: numbers of pages.                                                 *)
(***************************************************************************)
LEMMA Quotient ==
  ASSUME NEW a \in Nat
  PROVE  /\ a \div PageSize \in Nat
         /\ (a \div PageSize) * PageSize <= a
         /\ a < (a \div PageSize) * PageSize + PageSize
BY SiteAssumption

LEMMA PagesApart ==
  ASSUME NEW p \in Nat, NEW r \in Nat, p < r
  PROVE  p * PageSize <= (r - 1) * PageSize
<1>1. PageSize \in Nat /\ r - 1 - p \in Nat
  BY SiteAssumption
<1>2. (r - 1) * PageSize = p * PageSize + (r - 1 - p) * PageSize
  BY <1>1
<1>3. (r - 1 - p) * PageSize \in Nat /\ p * PageSize \in Nat
  BY <1>1
<1>4. QED
  BY <1>2, <1>3

\* A page there is a button for has a row.
LEMMA PageHasRows ==
  ASSUME NEW a \in Nat, NEW p \in 1..Pages(a)
  PROVE  (p - 1) * PageSize < a
<1> DEFINE d == (a + PageSize - 1) \div PageSize
<1>1. PageSize \in Nat \ {0} /\ a + PageSize - 1 \in Nat
  BY SiteAssumption
<1>2. d \in Nat /\ d * PageSize <= a + PageSize - 1
  BY <1>1, Quotient
<1>3. p \in Nat /\ p <= d
  BY <1>2 DEF Pages
<1> HIDE DEF d
<1>4. p * PageSize <= d * PageSize
  <2>1. CASE p = d
    BY <1>1, <1>2, <2>1
  <2>2. CASE p < d
    <3>1. p * PageSize <= (d - 1) * PageSize
      BY <1>2, <1>3, <2>2, PagesApart
    <3>2. (d - 1) * PageSize = d * PageSize - PageSize
      BY <1>1, <1>2
    <3>3. d * PageSize \in Nat /\ p * PageSize \in Nat
      BY <1>1, <1>2, <1>3
    <3>4. QED
      BY <1>1, <3>1, <3>2, <3>3
  <2>3. QED
    BY <1>2, <1>3, <2>1, <2>2
<1>5. (p - 1) * PageSize = p * PageSize - PageSize /\ p * PageSize \in Nat
        /\ d * PageSize \in Nat
  BY <1>1, <1>2, <1>3
<1>6. QED
  BY <1>1, <1>2, <1>4, <1>5

\* The row behind k others is on a page there is.
LEMMA RowHasPage ==
  ASSUME NEW a \in Nat, NEW k \in Nat, k < a
  PROVE  \E p \in 1..Pages(a) : (p - 1) * PageSize <= k /\ k < p * PageSize
<1> DEFINE d == k \div PageSize
           e == (a + PageSize - 1) \div PageSize
<1>1. PageSize \in Nat \ {0} /\ a + PageSize - 1 \in Nat
  BY SiteAssumption
<1>2. d \in Nat /\ d * PageSize <= k /\ k < d * PageSize + PageSize
  BY Quotient
<1>3. e \in Nat /\ a + PageSize - 1 < e * PageSize + PageSize
  BY <1>1, Quotient
<1> HIDE DEF d, e
<1>4. d * PageSize \in Nat /\ e * PageSize \in Nat
  BY <1>1, <1>2, <1>3
<1>5. d < e
  <2>1. SUFFICES ASSUME e <= d PROVE FALSE
    BY <1>2, <1>3
  <2>2. e * PageSize <= d * PageSize
    <3>1. CASE e = d
      BY <3>1, <1>4
    <3>2. CASE e < d
      <4>1. e * PageSize <= (d - 1) * PageSize
        BY <1>2, <1>3, <3>2, PagesApart
      <4>2. (d - 1) * PageSize = d * PageSize - PageSize
        BY <1>1, <1>2
      <4>3. QED
        BY <1>1, <1>4, <4>1, <4>2
    <3>3. QED
      BY <1>2, <1>3, <2>1, <3>1, <3>2
  <2>3. QED
    BY <1>1, <1>2, <1>3, <1>4, <2>2
<1>6. (d + 1) * PageSize = d * PageSize + PageSize /\ d + 1 - 1 = d
  BY <1>1, <1>2
<1>7. PICK p \in 1..Pages(a) : p = d + 1
  BY <1>2, <1>3, <1>5 DEF Pages, e
<1>8. p * PageSize = d * PageSize + PageSize /\ p - 1 = d
  BY <1>2, <1>6, <1>7
<1>9. (p - 1) * PageSize <= k /\ k < p * PageSize
  BY <1>2, <1>8
<1>10. QED
  BY <1>9

-----------------------------------------------------------------------------
(***************************************************************************)
(* The lots found, in order.                                               *)
(***************************************************************************)
Seeded(q) == q.sort = "random" => q.seed \in Seeds
Rank(q, l) == Cardinality({m \in Found(q) : Precedes(q, m, l)})
PageOf(q, p) ==
  {l \in Found(q) : (p - 1) * PageSize <= Rank(q, l) /\ Rank(q, l) < p * PageSize}
InReach(q) == q.page = 1 \/ (q.page - 1) * PageSize < Cardinality(Found(q))

LEMMA FoundFacts ==
  ASSUME table \in SUBSET Lots, NEW q
  PROVE  /\ Found(q) \subseteq Lots /\ IsFiniteSet(Found(q))
         /\ Cardinality(Found(q)) \in Nat
         /\ Cardinality(Found(q)) = 0 <=> Found(q) = {}
<1>1. Found(q) \subseteq Lots
  BY DEF Found
<1>2. IsFiniteSet(Found(q))
  BY <1>1, FS_Subset, SiteAssumption
<1>3. QED
  BY <1>1, <1>2, FS_CardinalityType, FS_EmptySet

\* A listing holds every lot found, and each once.
LEMMA ListingFacts ==
  ASSUME table \in SUBSET Lots, NEW q, NEW o \in Ordered(q)
  PROVE  /\ o \in Seq(Lots) /\ Len(o) = Cardinality(Found(q))
         /\ Range(o) = Found(q)
         /\ \A i, j \in 1..Len(o) : i # j => o[i] # o[j]
         /\ \A i, j \in 1..Len(o) : i < j => ~Precedes(q, o[j], o[i])
<1> DEFINE n == Cardinality(Found(q))
<1>1. /\ Found(q) \subseteq Lots /\ IsFiniteSet(Found(q)) /\ n \in Nat
  BY FoundFacts
<1>2. /\ o \in [1..n -> Found(q)] /\ \A i, j \in 1..n : i # j => o[i] # o[j]
      /\ \A i, j \in 1..Len(o) : i < j => ~Precedes(q, o[j], o[i])
  BY DEF Ordered, SetToSeqs
<1> HIDE DEF n
<1>3. o \in Seq(Lots) /\ Len(o) = n
  BY <1>1, <1>2
<1>4. o \in Injection(1..n, Found(q))
  BY <1>2 DEF Injection, IsInjective
<1>5. IsFiniteSet(1..n) /\ Cardinality(1..n) = n
  BY <1>1, FS_Interval
<1>6. o \in Surjection(1..n, Found(q))
  BY <1>1, <1>4, <1>5, FS_Injection DEF n
<1>7. Range(o) = Found(q)
  BY <1>2, <1>6 DEF Surjection, Range
<1>8. QED
  BY <1>2, <1>3, <1>7 DEF n

\* A shuffle orders any two lots.
LEMMA ShuffleIsTotal ==
  ASSUME table \in SUBSET Lots, NEW q, q.sort = "random", Seeded(q),
         NEW l \in Found(q), NEW m \in Found(q)
  PROVE  /\ ~Precedes(q, l, l)
         /\ l # m => Precedes(q, l, m) \/ Precedes(q, m, l)
<1>1. /\ l \in Lots /\ m \in Lots /\ q.seed \in Seeds
      /\ VehicleFirst(q, l) \in Nat /\ VehicleFirst(q, m) \in Nat
  BY DEF Found, Seeded, VehicleFirst
<1>2. /\ Hash[q.seed][l] \in Nat /\ Hash[q.seed][m] \in Nat
      /\ l # m => Hash[q.seed][l] # Hash[q.seed][m]
  BY <1>1, SiteAssumption DEF IsInjective
<1>3. \A x, y : Precedes(q, x, y) <=>
        \/ VehicleFirst(q, x) < VehicleFirst(q, y)
        \/ VehicleFirst(q, x) = VehicleFirst(q, y) /\ Hash[q.seed][x] < Hash[q.seed][y]
  BY DEF Precedes
<1>4. QED
  BY <1>1, <1>2, <1>3

\* In a shuffled listing a lot stands behind those that precede it.
LEMMA ListingRanks ==
  ASSUME table \in SUBSET Lots, NEW q, q.sort = "random", Seeded(q),
         NEW o \in Ordered(q), NEW i \in 1..Len(o)
  PROVE  Rank(q, o[i]) = i - 1
<1> DEFINE before == {m \in Found(q) : Precedes(q, m, o[i])}
           f == [j \in 1..(i - 1) |-> o[j]]
<1>1. /\ o \in Seq(Lots) /\ Range(o) = Found(q)
      /\ \A k, j \in 1..Len(o) : k # j => o[k] # o[j]
      /\ \A k, j \in 1..Len(o) : k < j => ~Precedes(q, o[j], o[k])
  BY ListingFacts
<1>2. /\ i - 1 \in Nat /\ i \in Nat /\ Len(o) \in Nat
      /\ \A j \in 1..(i - 1) : j \in 1..Len(o) /\ j < i
      /\ \A j \in 1..Len(o) : o[j] \in Found(q)
  BY <1>1 DEF Range
<1>3. \A j \in 1..(i - 1) : o[j] \in before
  BY <1>1, <1>2, ShuffleIsTotal
<1>4. \A m \in before : \E j \in 1..(i - 1) : o[j] = m
  <2>1. SUFFICES ASSUME NEW m \in before PROVE \E j \in 1..(i - 1) : o[j] = m
    OBVIOUS
  <2>2. PICK j \in 1..Len(o) : o[j] = m
    BY <1>1 DEF Range
  <2>3. j # i
    BY <1>2, <2>2, ShuffleIsTotal
  <2>4. ~(i < j)
    BY <1>1, <2>1, <2>2
  <2>5. j \in 1..(i - 1)
    BY <1>2, <2>3, <2>4
  <2>6. QED
    BY <2>2, <2>5
<1>5. f \in Injection(1..(i - 1), before)
  BY <1>1, <1>2, <1>3 DEF Injection, IsInjective
<1>6. f \in Surjection(1..(i - 1), before)
  BY <1>3, <1>4 DEF Surjection
<1>7. ExistsBijection(1..(i - 1), before)
  BY <1>5, <1>6 DEF ExistsBijection, Bijection
<1>8. Cardinality(before) = i - 1
  BY <1>2, <1>7, FS_CountingElements
<1>9. QED
  BY <1>8 DEF Rank

\* The rows a page reads: some, when the page is in reach and there are any;
\* of a shuffled view, those of its ranks.
Rows(q, o) ==
  LET end == IF Offset(q) + PageSize < Len(o) THEN Offset(q) + PageSize ELSE Len(o)
  IN  SubSeq(o, Offset(q) + 1, end)

LEMMA RowsFacts ==
  ASSUME table \in SUBSET Lots, NEW q \in View, Seeded(q), NEW o \in Ordered(q)
  PROVE  /\ Rows(q, o) \in Seq(Lots)
         /\ InReach(q) /\ Rows(q, o) = <<>> => Found(q) = {}
         /\ q.sort = "random" => Range(Rows(q, o)) = PageOf(q, q.page)
<1> DEFINE a == Offset(q)
           end == IF a + PageSize < Len(o) THEN a + PageSize ELSE Len(o)
           r == SubSeq(o, a + 1, end)
<1>1. /\ o \in Seq(Lots) /\ Len(o) = Cardinality(Found(q)) /\ Range(o) = Found(q)
      /\ Len(o) \in Nat /\ (Len(o) = 0 <=> Found(q) = {})
  BY ListingFacts, FoundFacts
<1>2. PageSize \in Nat \ {0} /\ q.page \in Nat \ {0} /\ q.page - 1 \in Nat
  BY SiteAssumption DEF View
<1>3. a \in Nat /\ (q.page = 1 => a = 0)
  BY <1>2 DEF Offset
<1>offset. a = (q.page - 1) * PageSize /\ a + PageSize = q.page * PageSize
  BY <1>2 DEF Offset
<1> HIDE DEF a
<1>4. /\ end \in Nat /\ end <= Len(o) /\ end <= a + PageSize
      /\ (end = Len(o) \/ end = a + PageSize)
  BY <1>1, <1>2, <1>3
<1>5. \A i \in (a + 1)..end : i \in 1..Len(o) /\ o[i] \in Lots
  BY <1>1, <1>3, <1>4
<1>6. /\ r \in Seq(Lots) /\ Len(r) = (IF a + 1 <= end THEN end - (a + 1) + 1 ELSE 0)
      /\ \A i \in 1..(end - (a + 1) + 1) : r[i] = o[a + 1 + i - 1]
  <2>1. a + 1 \in Int /\ end \in Int
    BY <1>3, <1>4
  <2>2. \A i \in (a + 1)..end : o[i] \in Lots
    BY <1>5
  <2> HIDE DEF end
  <2>3. QED
    BY <2>1, <2>2, SubSeqProperties
<1>7. Rows(q, o) = r
  BY DEF Rows, a
<1> HIDE DEF r, end
<1>domain. DOMAIN r = 1..Len(r)
  BY <1>6
<1>8. ASSUME InReach(q), r = <<>> PROVE Found(q) = {}
  <2>1. Len(r) = 0
    BY <1>8
  <2>2. ~(a + 1 <= end)
    BY <1>3, <1>4, <1>6, <2>1
  <2>3. end = Len(o) /\ Len(o) <= a
    BY <1>1, <1>2, <1>3, <1>4, <2>2
  <2>4. a = 0
    BY <1>1, <1>3, <1>offset, <1>8, <2>3 DEF InReach
  <2>5. QED
    BY <1>1, <2>3, <2>4
<1>9. ASSUME q.sort = "random" PROVE Range(r) = PageOf(q, q.page)
  <2>1. \A i \in 1..Len(o) : Rank(q, o[i]) = i - 1
    BY <1>9, ListingRanks
  <2>2. \A i \in 1..Len(o) : o[i] \in PageOf(q, q.page) <=> i \in (a + 1)..end
    <3>1. SUFFICES ASSUME NEW i \in 1..Len(o)
                   PROVE  o[i] \in PageOf(q, q.page) <=> i \in (a + 1)..end
      OBVIOUS
    <3>2. o[i] \in PageOf(q, q.page) <=> a <= i - 1 /\ i - 1 < a + PageSize
      <4>1. o[i] \in Found(q)
        BY <1>1 DEF Range
      <4>2. Rank(q, o[i]) = i - 1
        BY <2>1
      <4>3. o[i] \in PageOf(q, q.page) <=>
              (q.page - 1) * PageSize <= i - 1 /\ i - 1 < q.page * PageSize
        BY <4>1, <4>2 DEF PageOf
      <4>4. QED
        BY <1>offset, <4>3
    <3>3. Len(o) \in Nat /\ PageSize \in Nat /\ a \in Nat /\ i \in Nat /\ i <= Len(o)
      BY <1>1, <1>2, <1>3
    <3>4. a <= i - 1 /\ i - 1 < a + PageSize => a + 1 <= i /\ i <= end
      BY <1>4, <3>3
    <3>5. a + 1 <= i /\ i <= end => a <= i - 1 /\ i - 1 < a + PageSize
      BY <1>4, <3>3
    <3>6. i \in (a + 1)..end <=> a + 1 <= i /\ i <= end
      BY <1>4, <3>3
    <3>7. QED
      BY <3>2, <3>4, <3>5, <3>6
  <2>3. Range(r) \subseteq PageOf(q, q.page)
    <3>1. SUFFICES ASSUME NEW j \in DOMAIN r PROVE r[j] \in PageOf(q, q.page)
      BY DEF Range
    <3>2. /\ a + 1 <= end /\ j \in 1..(end - (a + 1) + 1)
          /\ a + 1 + j - 1 \in (a + 1)..end
      BY <1>3, <1>4, <1>6, <1>domain
    <3>3. r[j] = o[a + 1 + j - 1] /\ a + 1 + j - 1 \in 1..Len(o)
      BY <1>5, <1>6, <3>2
    <3>4. QED
      BY <2>2, <3>2, <3>3
  <2>4. PageOf(q, q.page) \subseteq Range(r)
    <3>1. SUFFICES ASSUME NEW l \in PageOf(q, q.page) PROVE l \in Range(r)
      OBVIOUS
    <3>2. PICK i \in 1..Len(o) : o[i] = l
      BY <1>1 DEF PageOf, Range
    <3>3. i \in (a + 1)..end
      BY <2>2, <3>1, <3>2
    <3>4. /\ i - a \in 1..(end - (a + 1) + 1) /\ i - a \in DOMAIN r
          /\ a + 1 + (i - a) - 1 = i
      BY <1>3, <1>4, <1>6, <1>domain, <3>3
    <3>5. r[i - a] = l
      BY <1>6, <3>2, <3>4
    <3>6. QED
      BY <3>4, <3>5 DEF Range
  <2>5. QED
    BY <2>3, <2>4
<1>10. QED
  BY <1>6, <1>7, <1>8, <1>9

\* The pages of a shuffled view do not overlap and hold every lot found.
LEMMA PagesAreApart ==
  ASSUME table \in SUBSET Lots, NEW q, NEW p \in Nat, NEW r \in Nat, p # r
  PROVE  PageOf(q, p) \cap PageOf(q, r) = {}
<1>1. SUFFICES ASSUME NEW l \in PageOf(q, p) \cap PageOf(q, r) PROVE FALSE
  OBVIOUS
<1> DEFINE k == Rank(q, l)
<1>2. {m \in Found(q) : Precedes(q, m, l)} \in SUBSET Found(q)
  OBVIOUS
<1>3. k \in Nat
  BY <1>2, FoundFacts, FS_Subset, FS_CardinalityType DEF Rank
<1>4. /\ (p - 1) * PageSize <= k /\ k < p * PageSize
      /\ (r - 1) * PageSize <= k /\ k < r * PageSize
  BY DEF PageOf
<1> HIDE DEF k
<1>5. PageSize \in Nat \ {0}
  BY SiteAssumption
<1>6. /\ p * PageSize \in Int /\ r * PageSize \in Int
      /\ (p - 1) * PageSize \in Int /\ (r - 1) * PageSize \in Int
  BY <1>5
<1>7. ~(p < r) /\ ~(r < p)
  BY <1>3, <1>4, <1>6, PagesApart
<1>8. QED
  BY <1>7

LEMMA PagesHoldAll ==
  ASSUME table \in SUBSET Lots, NEW q \in View, q.sort = "random", Seeded(q)
  PROVE  UNION {PageOf(q, p) : p \in 1..Pages(Cardinality(Found(q)))} = Found(q)
<1> DEFINE a == Cardinality(Found(q))
<1>1. SUFFICES ASSUME NEW l \in Found(q)
               PROVE  \E p \in 1..Pages(a) : l \in PageOf(q, p)
  BY DEF PageOf
<1> DEFINE before == {m \in Found(q) : Precedes(q, m, l)}
<1>2. IsFiniteSet(Found(q)) /\ a \in Nat
  BY FoundFacts
<1>3. before \in SUBSET Found(q) /\ before # Found(q)
  BY ShuffleIsTotal
<1>4. IsFiniteSet(before) /\ Cardinality(before) <= a /\ Cardinality(before) # a
  BY <1>2, <1>3, FS_Subset
<1>5. Cardinality(before) \in Nat
  BY <1>4, FS_CardinalityType
<1>6. Rank(q, l) \in Nat /\ Rank(q, l) < a
  BY <1>2, <1>4, <1>5 DEF Rank
<1>7. PICK p \in 1..Pages(a) : (p - 1) * PageSize <= Rank(q, l) /\ Rank(q, l) < p * PageSize
  BY <1>2, <1>6, RowHasPage
<1>8. QED
  BY <1>7 DEF PageOf

\* What a view asks for does not depend on its page.
LEMMA SameView ==
  ASSUME NEW q \in View, NEW r \in View, View0(q) = View0(r)
  PROVE  /\ q.filter = r.filter /\ q.sort = r.sort /\ q.seed = r.seed
         /\ Found(q) = Found(r) /\ \A p : PageOf(q, p) = PageOf(r, p)
<1>1. /\ View0(q).filter = q.filter /\ View0(q).sort = q.sort /\ View0(q).seed = q.seed
      /\ View0(r).filter = r.filter /\ View0(r).sort = r.sort /\ View0(r).seed = r.seed
  BY DEF View, View0
<1>2. q.filter = r.filter /\ q.sort = r.sort /\ q.seed = r.seed
  BY <1>1
<1>3. Found(q) = Found(r)
  BY <1>2 DEF Found
<1>4. \A l, m : Precedes(q, m, l) <=> Precedes(r, m, l)
  BY <1>2 DEF Precedes, VehicleFirst
<1>5. \A l : {m \in Found(q) : Precedes(q, m, l)} = {m \in Found(r) : Precedes(r, m, l)}
  BY <1>3, <1>4
<1>6. \A l : Rank(q, l) = Rank(r, l)
  BY <1>5 DEF Rank
<1>7. QED
  BY <1>2, <1>3, <1>6 DEF PageOf

-----------------------------------------------------------------------------
(***************************************************************************)
(* The inductive invariant.  Latest: the last search is on its way or      *)
(* shown.  Cards: no search comes twice, and a heart's card is shown no    *)
(* more once it is replaced.  Viewed: the rows of a shuffled view are      *)
(* those of their ranks.  Told: the hearts shown are the favourites, but   *)
(* for a change whose answer is to come.  Reached: every page asked for    *)
(* has rows, if there are any at all.                                      *)
(***************************************************************************)
Latest ==
  /\ grid.number <= moves
  /\ \A s \in searches : s.number <= moves /\ (s.number = moves => s.q = state)
  /\ ~stale => /\ grid.number = moves
               /\ grid.show # "loading" => grid.q = state
               /\ grid.show = "loading" => \E s \in searches : s.number = moves

Cards ==
  /\ favs \subseteq table
  /\ \A s, r \in searches : s.number = r.number => s = r
  /\ \A t \in toggles : t.card <= moves /\ \A s \in searches : s.number # t.card
  /\ \A t, u \in toggles : t.lot = u.lot /\ t.card = u.card => t = u
  /\ grid.show = "items" => \A s \in searches : s.number # grid.number

Read(s) == s.at \in {"favourites", "answered"}
ListsItsPage(s) ==
  Read(s) /\ s.q.sort = "random" => Range(s.items) = PageOf(s.q, s.q.page)
Viewed ==
  /\ Seeded(state) /\ \A s \in searches : Seeded(s.q)
  /\ edits = 0 =>
       /\ \A s \in searches : ListsItsPage(s)
       /\ state.sort = "random" => \A p \in DOMAIN seen : seen[p] = PageOf(state, p)

TellsHearts(s) == s.at = "answered" => s.hearts = favs \cap Range(s.items)
Owing(l) == \E t \in toggles : t.lot = l /\ t.card = grid.number /\ t.at = "done"
Told ==
  /\ \A s \in searches : TellsHearts(s)
  /\ \A t \in toggles : t.card = grid.number /\ t.at = "done" => (t.next <=> t.lot \in favs)
  /\ grid.show = "items" =>
       \A l \in Range(grid.items) : ~Owing(l) => (l \in grid.hearts <=> l \in favs)

KnowsTotal(s) ==
  /\ InReach(s.q)
  /\ s.at # "count" => s.total = Cardinality(Found(s.q))
  /\ Read(s) /\ s.items = <<>> => Found(s.q) = {}
Reached ==
  /\ InReach(state) /\ \A s \in searches : KnowsTotal(s)
  /\ grid.show = "items" => grid.pages = Pages(Cardinality(Found(grid.q)))
  /\ grid.show = "empty" => Found(grid.q) = {}

SiteIInv ==
  /\ SiteTypeOK /\ Latest /\ Cards /\ Viewed
  /\ blurred = {} => Told
  /\ edits = 0 /\ ~stale => Reached

LEMMA FirstFacts == First \in View /\ Seeded(First) /\ InReach(First) /\ Loading \in Grids
<1>1. (CHOOSE s \in Seeds : TRUE) \in Seeds
  BY SiteAssumption
<1>2. First \in View /\ Seeded(First) /\ First.page = 1
  BY <1>1, SiteAssumption DEF First, View, Seeded, Sorts
<1>3. QED
  BY <1>2 DEF Loading, Grids, InReach

LEMMA SiteStart == SiteInit => SiteIInv
<1>1. SUFFICES ASSUME SiteInit PROVE SiteIInv
  OBVIOUS
<1>2. /\ table \in SUBSET Lots /\ favs \in SUBSET Lots /\ favs \subseteq table
      /\ state = First /\ searches = {Search(0, First, TRUE)} /\ grid = Loading /\ toggles = {}
      /\ moves = 0 /\ stale = FALSE /\ seen = <<>>
  BY <1>1, SiteAssumption DEF SiteInit
<1>3. /\ Search(0, First, TRUE) \in SearchesOf
      /\ Search(0, First, TRUE).at = "count" /\ Search(0, First, TRUE).q = First
      /\ Search(0, First, TRUE).number = 0
  BY FirstFacts DEF Search, SearchesOf
<1>4. Loading.number = 0 /\ Loading.show = "loading"
  BY DEF Loading
<1>5. DOMAIN seen = {}
  BY <1>2
<1>6. SiteTypeOK
  <2>1. state \in View /\ searches \subseteq SearchesOf /\ grid \in Grids
          /\ toggles \subseteq TogglesOf
    BY <1>2, <1>3, FirstFacts
  <2>2. moves \in Nat /\ clicks \in Nat /\ edits \in Nat
    BY <1>1 DEF SiteInit
  <2>3. tokenValid \in BOOLEAN /\ stale \in BOOLEAN
    BY <1>1 DEF SiteInit
  <2>4. QED
    BY <1>2, <1>5, <2>1, <2>2, <2>3 DEF SiteTypeOK
<1>7. Latest /\ Cards
  <2>1. PICK s : s = Search(0, First, TRUE)
    OBVIOUS
  <2>2. searches = {s} /\ s.number = 0 /\ s.q = First
    BY <1>2, <1>3, <2>1
  <2>3. Latest
    <3>1. grid.number = moves /\ grid.show = "loading"
      BY <1>2, <1>4
    <3>2. \A r \in searches : r.number = moves /\ r.q = state
      BY <1>2, <2>2
    <3>3. \E r \in searches : r.number = moves
      BY <1>2, <2>2
    <3>4. moves <= moves
      BY <1>2
    <3>5. QED
      BY <3>1, <3>2, <3>3, <3>4 DEF Latest
  <2>4. Cards
    BY <1>2, <1>4, <2>2 DEF Cards
  <2>5. QED
    BY <2>3, <2>4
<1>8. Viewed
  BY <1>2, <1>3, <1>5, FirstFacts DEF Viewed, ListsItsPage, Read
<1>9. Told
  BY <1>2, <1>3, <1>4 DEF Told, TellsHearts
<1>10. Reached
  BY <1>2, <1>3, <1>4, FirstFacts DEF Reached, KnowsTotal, Read
<1>11. QED
  BY <1>6, <1>7, <1>8, <1>9, <1>10 DEF SiteIInv

\* A search goes out.
LEMMA LoadKeeps ==
  ASSUME SiteIInv, NEW q \in View, Moves(q), LoadLots(q), Seeded(q),
         edits = 0 /\ ~stale => InReach(q),
         seen' = <<>> \/ (seen' = seen /\ View0(q) = View0(state))
  PROVE  SiteIInv'
<1> DEFINE s == Search(moves', q, tokenValid)
           g == [Loading EXCEPT !.number = moves']
<1>1. SiteTypeOK /\ Latest /\ Cards /\ Viewed /\ moves \in Nat
  BY DEF SiteIInv, SiteTypeOK
<1>2. /\ moves' = moves + 1 /\ state' = q /\ searches' = searches \cup {s} /\ grid' = g
      /\ UNCHANGED <<table, favs, toggles, tokenValid, clicks, edits, stale, blurred>>
  BY DEF Moves, LoadLots, MayLoad, database
<1>3. /\ s \in SearchesOf /\ s.number = moves + 1 /\ s.q = q /\ s.at = "count"
      /\ g \in Grids /\ g.number = moves + 1 /\ g.show = "loading"
  <2>1. moves' \in Nat /\ moves' = moves + 1
    BY <1>1, <1>2
  <2>2. /\ s \in SearchesOf /\ s.number = moves' /\ s.q = q /\ s.at = "count"
    BY <1>1, <2>1 DEF Search, SearchesOf, SiteTypeOK
  <2>3. Loading.show = "loading" /\ Loading \in Grids
    BY FirstFacts DEF Loading
  <2>4. g \in Grids /\ g.number = moves' /\ g.show = "loading"
    BY <2>1, <2>3 DEF Grids
  <2>5. QED
    BY <2>1, <2>2, <2>4
<1> HIDE DEF s, g
<1>4. /\ \A r \in searches : r \in SearchesOf /\ r.number \in Nat /\ r.number <= moves
      /\ \A t \in toggles : t \in TogglesOf /\ t.card \in Nat /\ t.card <= moves
  BY <1>1 DEF SiteTypeOK, Latest, Cards, SearchesOf, TogglesOf
<1>5. \A p \in DOMAIN seen' : p \in DOMAIN seen /\ seen'[p] = seen[p]
  OBVIOUS
<1>6. SiteTypeOK'
  BY <1>1, <1>2, <1>3, <1>5 DEF SiteTypeOK
<1>7. Latest'
  BY <1>1, <1>2, <1>3, <1>4 DEF Latest
<1>8. Cards'
  <2>1. \A r \in searches : r.number # s.number
    BY <1>1, <1>3, <1>4
  <2>2. \A t \in toggles : t.card <= moves + 1 /\ s.number # t.card
    BY <1>1, <1>3, <1>4
  <2>3. QED
    BY <1>1, <1>2, <1>3, <2>1, <2>2 DEF Cards
<1>9. \A r, p : PageOf(r, p)' = PageOf(r, p) /\ Found(r)' = Found(r)
  BY <1>2 DEF PageOf, Rank, Found
<1>10. Viewed'
  <2>1. Seeded(state)' /\ \A r \in searches' : Seeded(r.q)
    BY <1>1, <1>2, <1>3 DEF Viewed, Seeded
  <2>2. ASSUME edits' = 0 PROVE \A r \in searches' : ListsItsPage(r)'
    <3>1. \A r \in searches : ListsItsPage(r)
      BY <1>1, <1>2, <2>2 DEF Viewed
    <3>2. QED
      BY <1>2, <1>3, <1>9, <3>1 DEF ListsItsPage, Read
  <2>3. ASSUME edits' = 0, state'.sort = "random", NEW p \in DOMAIN seen'
        PROVE  seen'[p] = PageOf(state', p)
    <3>1. View0(q) = View0(state) /\ p \in DOMAIN seen /\ seen' = seen
      BY <2>3
    <3>2. state.sort = "random" /\ PageOf(q, p) = PageOf(state, p)
      BY <1>1, <1>2, <2>3, <3>1, SameView DEF SiteTypeOK
    <3>3. seen[p] = PageOf(state, p)
      BY <1>1, <1>2, <2>3, <3>1, <3>2 DEF Viewed
    <3>4. QED
      BY <1>2, <3>1, <3>2, <3>3
  <2>4. QED
    BY <1>2, <1>9, <2>1, <2>2, <2>3 DEF Viewed
<1>11. ASSUME blurred' = {} PROVE Told'
  <2>1. Told
    BY <1>2, <1>11 DEF SiteIInv
  <2>2. \A t \in toggles : t.card # grid'.number
    BY <1>1, <1>2, <1>3, <1>4
  <2>3. grid'.show # "items" /\ favs' = favs /\ toggles' = toggles
    BY <1>2, <1>3
  <2>4. \A r \in searches' : TellsHearts(r)'
    BY <1>2, <1>3, <2>1 DEF Told, TellsHearts
  <2>5. QED
    BY <2>2, <2>3, <2>4 DEF Told
<1>12. ASSUME edits' = 0, ~stale' PROVE Reached'
  <2>1. Reached /\ InReach(q)
    BY <1>2, <1>12 DEF SiteIInv
  <2>2. \A r : InReach(r)' <=> InReach(r)
    BY <1>9 DEF InReach
  <2>3. \A r \in searches' : KnowsTotal(r)'
    BY <1>2, <1>3, <1>9, <2>1, <2>2 DEF Reached, KnowsTotal, Read
  <2>4. QED
    BY <1>2, <1>3, <2>1, <2>2, <2>3 DEF Reached
<1>13. QED
  BY <1>6, <1>7, <1>8, <1>10, <1>11, <1>12 DEF SiteIInv

\* The controls send a search for a view there is, and a page in its reach.
LEMMA ControlsKeep ==
  ASSUME SiteIInv,
         \/ \E f \in Filters : ChangeFilter(f)
         \/ \E sort \in Sorts : ChangeSort(sort)
         \/ \E p \in 1..Cardinality(Lots) : GoToPage(p)
  PROVE  SiteIInv'
<1>1. SiteTypeOK /\ Latest /\ Viewed /\ state \in View
  BY DEF SiteIInv, SiteTypeOK
<1>2. ASSUME NEW f \in Filters, ChangeFilter(f) PROVE SiteIInv'
  <2> DEFINE emptied == f = Unfiltered /\ state.filter # Unfiltered
                          /\ state.sort = "date_desc"
             q(seed) == [FirstPage(state) EXCEPT !.filter = f,
                           !.sort = IF emptied THEN "random" ELSE @,
                           !.seed = IF emptied THEN seed ELSE @]
  <2>1. PICK seed \in Seeds : Moves(q(seed)) /\ LoadLots(q(seed))
    BY <1>2 DEF ChangeFilter
  <2>2. seen' = <<>>
    BY <1>2 DEF ChangeFilter
  <2>first. /\ FirstPage(state) \in View /\ FirstPage(state).page = 1
        /\ FirstPage(state).sort = state.sort /\ FirstPage(state).seed = state.seed
    BY <1>1 DEF View, FirstPage
  <2>random. "random" \in Sorts
    BY DEF Sorts
  <2>3. /\ q(seed) \in View /\ q(seed).page = 1
        /\ \/ q(seed).sort = state.sort /\ q(seed).seed = state.seed
           \/ q(seed).sort = "random" /\ q(seed).seed = seed
    <3> HIDE DEF emptied
    <3>1. CASE emptied
      BY <2>first, <2>random, <3>1 DEF View
    <3>2. CASE ~emptied
      BY <2>first, <3>2 DEF View
    <3>3. QED
      BY <3>1, <3>2
  <2> HIDE DEF q
  <2>4. Seeded(q(seed))
    BY <1>1, <2>3 DEF Seeded, Viewed
  <2>5. InReach(q(seed))
    BY <2>3 DEF InReach
  <2>6. QED
    BY <2>1, <2>2, <2>3, <2>4, <2>5, LoadKeeps
<1>3. ASSUME NEW sort \in Sorts, ChangeSort(sort) PROVE SiteIInv'
  <2> DEFINE q(seed) == [FirstPage(state) EXCEPT !.sort = sort, !.seed = seed]
  <2>1. PICK seed \in IF sort = "random" THEN Seeds ELSE {NoSeed} :
          Moves(q(seed)) /\ LoadLots(q(seed))
    BY <1>3 DEF ChangeSort
  <2>2. seen' = <<>>
    BY <1>3 DEF ChangeSort
  <2>3. seed \in Seeds \cup {NoSeed} /\ (sort = "random" => seed \in Seeds)
    BY <2>1
  <2>first. FirstPage(state) \in View /\ FirstPage(state).page = 1
    BY <1>1 DEF View, FirstPage
  <2>4. q(seed) \in View /\ q(seed).page = 1 /\ q(seed).sort = sort /\ q(seed).seed = seed
    BY <2>first, <2>3 DEF View
  <2> HIDE DEF q
  <2>5. Seeded(q(seed)) /\ InReach(q(seed))
    BY <2>3, <2>4 DEF Seeded, InReach
  <2>6. QED
    BY <2>1, <2>2, <2>4, <2>5, LoadKeeps
<1>4. ASSUME NEW p \in 1..Cardinality(Lots), GoToPage(p) PROVE SiteIInv'
  <2> DEFINE q == [state EXCEPT !.page = p]
  <2>1. /\ grid.show = "items" /\ p \in 1..grid.pages /\ Moves(q) /\ LoadLots(q)
        /\ seen' = seen
    BY <1>4 DEF GoToPage
  <2>2. p \in Nat \ {0}
    OBVIOUS
  <2>3. /\ q \in View /\ q.filter = state.filter /\ q.sort = state.sort
        /\ q.seed = state.seed /\ q.page = p /\ View0(q) = View0(state)
    BY <1>1, <2>2 DEF View, View0
  <2> HIDE DEF q
  <2>4. Seeded(q)
    BY <1>1, <2>3 DEF Seeded, Viewed
  <2>5. ASSUME edits = 0, ~stale PROVE InReach(q)
    <3>1. grid.q = state /\ grid.pages = Pages(Cardinality(Found(grid.q)))
      BY <1>1, <2>1, <2>5 DEF SiteIInv, Latest, Reached
    <3>2. Found(q) = Found(state) /\ Cardinality(Found(state)) \in Nat
      BY <1>1, <2>3, FoundFacts DEF Found, SiteTypeOK
    <3>3. (p - 1) * PageSize < Cardinality(Found(state))
      BY <2>1, <3>1, <3>2, PageHasRows
    <3>4. QED
      BY <2>3, <3>2, <3>3 DEF InReach
  <2>6. QED
    BY <2>1, <2>3, <2>4, <2>5, LoadKeeps
<1>5. QED
  BY <1>2, <1>3, <1>4

\* A statement of the backend takes a search one step on.
LEMMA SearchMoves ==
  ASSUME SiteIInv, NEW s \in searches, NEW new \in SearchesOf, Step(s, new),
         new.number = s.number, new.q = s.q,
         UNCHANGED <<table, favs, state, grid, toggles, tokenValid, bounds, stale, seen>>,
         edits = 0 => ListsItsPage(new),
         edits = 0 /\ ~stale => KnowsTotal(new),
         blurred' = {} => blurred = {} /\ TellsHearts(new)
  PROVE  SiteIInv'
<1>1. SiteTypeOK /\ Latest /\ Cards /\ Viewed
  BY DEF SiteIInv
<1>2. /\ searches' = (searches \ {s}) \cup {new}
      /\ UNCHANGED <<table, favs, state, grid, toggles, tokenValid, moves, clicks, edits,
                     stale, seen>>
  BY DEF Step, bounds
<1>3. SiteTypeOK'
  BY <1>1, <1>2 DEF SiteTypeOK
<1>4. Latest'
  <2>1. \A r \in searches' : r.number <= moves /\ (r.number = moves => r.q = state)
    BY <1>1, <1>2 DEF Latest
  <2>2. (\E r \in searches : r.number = moves) => \E r \in searches' : r.number = moves
    BY <1>2
  <2>3. QED
    BY <1>1, <1>2, <2>1, <2>2 DEF Latest
<1>5. Cards'
  BY <1>1, <1>2 DEF Cards
<1>6. \A r, p : PageOf(r, p)' = PageOf(r, p) /\ Found(r)' = Found(r)
  BY <1>2 DEF PageOf, Rank, Found
<1>7. \A r : /\ ListsItsPage(r)' <=> ListsItsPage(r)
             /\ KnowsTotal(r)' <=> KnowsTotal(r)
             /\ TellsHearts(r)' <=> TellsHearts(r)
             /\ InReach(r)' <=> InReach(r)
             /\ Owing(r)' <=> Owing(r)
  BY <1>2, <1>6 DEF ListsItsPage, KnowsTotal, TellsHearts, InReach, Read, Owing
<1>8. Viewed'
  <2>1. Seeded(state)' /\ \A r \in searches' : Seeded(r.q)
    BY <1>1, <1>2 DEF Viewed, Seeded
  <2>2. edits' = 0 => \A r \in searches' : ListsItsPage(r)
    BY <1>1, <1>2 DEF Viewed
  <2>3. QED
    BY <1>1, <1>2, <1>6, <1>7, <2>1, <2>2 DEF Viewed
<1>9. ASSUME blurred' = {} PROVE Told'
  <2>1. Told /\ \A r \in searches' : TellsHearts(r)
    BY <1>2, <1>9 DEF SiteIInv, Told
  <2>2. QED
    BY <1>2, <1>7, <2>1 DEF Told
<1>10. ASSUME edits' = 0, ~stale' PROVE Reached'
  <2>1. Reached /\ \A r \in searches' : KnowsTotal(r)
    BY <1>2, <1>10 DEF SiteIInv, Reached
  <2>2. QED
    BY <1>2, <1>6, <1>7, <2>1 DEF Reached
<1>11. QED
  BY <1>3, <1>4, <1>5, <1>8, <1>9, <1>10 DEF SiteIInv

LEMMA BackendKeeps ==
  ASSUME SiteIInv, NEW s \in searches, CountTotal(s) \/ ReadRows(s) \/ ReadFavourites(s)
  PROVE  SiteIInv'
<1>1. /\ SiteTypeOK /\ Viewed /\ s \in SearchesOf /\ s.q \in View /\ table \in SUBSET Lots
      /\ Seeded(s.q)
      /\ edits = 0 => ListsItsPage(s)
      /\ edits = 0 /\ ~stale => KnowsTotal(s)
  BY DEF SiteIInv, SiteTypeOK, SearchesOf, Viewed, Reached
<1>2. CASE CountTotal(s)
  <2> DEFINE new == [s EXCEPT !.at = "rows", !.total = Cardinality(Found(s.q))]
  <2>1. /\ Step(s, new)
        /\ UNCHANGED <<table, favs, state, grid, toggles, tokenValid, bounds, stale,
                       blurred, seen>>
    BY <1>2 DEF CountTotal, database, history
  <2>2. /\ new \in SearchesOf /\ new.number = s.number /\ new.q = s.q /\ new.at = "rows"
        /\ new.total = Cardinality(Found(s.q))
    BY <1>1, FoundFacts DEF SearchesOf
  <2> HIDE DEF new
  <2>3. ListsItsPage(new) /\ TellsHearts(new)
    BY <2>2 DEF ListsItsPage, TellsHearts, Read
  <2>4. edits = 0 /\ ~stale => KnowsTotal(new)
    BY <1>1, <2>2 DEF KnowsTotal, Read
  <2>5. QED
    BY <2>1, <2>2, <2>3, <2>4, SearchMoves
<1>3. CASE ReadRows(s)
  <2>1. PICK o \in Ordered(s.q) :
          Step(s, [s EXCEPT !.at = "favourites", !.items = Rows(s.q, o)])
    BY <1>3 DEF ReadRows, Rows
  <2> DEFINE new == [s EXCEPT !.at = "favourites", !.items = Rows(s.q, o)]
  <2>2. /\ s.at = "rows"
        /\ UNCHANGED <<table, favs, state, grid, toggles, tokenValid, bounds, stale,
                       blurred, seen>>
    BY <1>3 DEF ReadRows, database, history
  <2>3. /\ Rows(s.q, o) \in Seq(Lots)
        /\ InReach(s.q) /\ Rows(s.q, o) = <<>> => Found(s.q) = {}
        /\ s.q.sort = "random" => Range(Rows(s.q, o)) = PageOf(s.q, s.q.page)
    BY <1>1, RowsFacts
  <2>4. /\ new \in SearchesOf /\ new.number = s.number /\ new.q = s.q
        /\ new.at = "favourites" /\ new.total = s.total /\ new.items = Rows(s.q, o)
    BY <1>1, <2>3 DEF SearchesOf
  <2>5. Step(s, new)
    BY <2>1
  <2> HIDE DEF new
  <2>6. ListsItsPage(new) /\ TellsHearts(new)
    BY <2>3, <2>4 DEF ListsItsPage, TellsHearts
  <2>7. edits = 0 /\ ~stale => KnowsTotal(new)
    BY <1>1, <2>2, <2>3, <2>4 DEF KnowsTotal
  <2>8. QED
    BY <2>2, <2>4, <2>5, <2>6, <2>7, SearchMoves
<1>4. CASE ReadFavourites(s)
  <2> DEFINE new == [s EXCEPT !.at = "answered",
                       !.hearts = IF s.reader THEN favs \cap Range(s.items) ELSE {}]
  <2>1. /\ s.at = "favourites" /\ Step(s, new)
        /\ UNCHANGED <<table, favs, state, grid, toggles, tokenValid, bounds, stale, seen>>
        /\ blurred' = {} => s.reader /\ blurred = {}
    BY <1>4 DEF ReadFavourites, database
  <2>2. favs \in SUBSET Lots
    BY <1>1 DEF SiteTypeOK
  <2>3. /\ new \in SearchesOf /\ new.number = s.number /\ new.q = s.q
        /\ new.at = "answered" /\ new.total = s.total /\ new.items = s.items
        /\ s.reader => new.hearts = favs \cap Range(s.items)
    BY <1>1, <2>2 DEF SearchesOf
  <2> HIDE DEF new
  <2>4. /\ edits = 0 => ListsItsPage(new)
        /\ edits = 0 /\ ~stale => KnowsTotal(new)
        /\ s.reader => TellsHearts(new)
    BY <1>1, <2>1, <2>3 DEF ListsItsPage, KnowsTotal, TellsHearts, Read
  <2>5. QED
    BY <2>1, <2>3, <2>4, SearchMoves
<1>5. QED
  BY <1>2, <1>3, <1>4

\* An answer is rendered.
LEMMA AnswersKeep ==
  ASSUME SiteIInv, NEW s \in searches, Answer(s) \/ SearchFails(s)
  PROVE  SiteIInv'
<1>1. /\ SiteTypeOK /\ Latest /\ Cards /\ Viewed /\ s \in SearchesOf
      /\ s.number \in Nat /\ s.q \in View /\ s.items \in Seq(Lots) /\ s.hearts \in SUBSET Lots
      /\ s.total \in Nat /\ s.q.page \in Nat \ {0}
  BY DEF SiteIInv, SiteTypeOK, SearchesOf, View
<1>2. /\ searches' = searches \ {s} /\ stale' = (stale \/ ~Newest(s))
      /\ UNCHANGED <<table, favs, state, toggles, tokenValid, moves, clicks, edits, blurred>>
  BY DEF Answer, SearchFails, Rendered, database, bounds
<1>3. /\ grid' \in Grids /\ grid'.number = s.number /\ grid'.q = s.q
      /\ grid'.show \in {"items", "empty", "error"}
      /\ grid'.show \in {"items", "empty"} => s.at = "answered"
      /\ grid'.show = "items" =>
           grid'.items = s.items /\ grid'.hearts = s.hearts /\ grid'.pages = Pages(s.total)
      /\ grid'.show = "empty" => s.items = <<>>
  <2>1. CASE Answer(s)
    <3> DEFINE show == IF s.items = <<>> THEN "empty" ELSE "items"
               pages == IF s.items = <<>> THEN 0 ELSE Pages(s.total)
    <3>1. /\ s.at = "answered"
          /\ grid' = [show |-> show, number |-> s.number, q |-> s.q, items |-> s.items,
                      hearts |-> s.hearts, pages |-> pages]
      BY <2>1 DEF Answer
    <3>2. Pages(s.total) \in Nat
      <4>1. s.total + PageSize - 1 \in Nat
        BY <1>1, SiteAssumption
      <4>2. QED
        BY <4>1, Quotient DEF Pages
    <3>3. /\ pages \in Nat /\ show \in {"items", "empty"}
          /\ show = "items" => pages = Pages(s.total)
          /\ show = "empty" => s.items = <<>>
      BY <3>2
    <3> HIDE DEF show, pages
    <3>4. QED
      BY <1>1, <3>1, <3>3 DEF Grids
  <2>2. CASE SearchFails(s)
    <3>1. grid' = [Loading EXCEPT !.show = "error", !.number = s.number, !.q = s.q]
      BY <2>2 DEF SearchFails
    <3>2. Loading \in Grids
      BY FirstFacts
    <3>3. QED
      BY <1>1, <3>1, <3>2 DEF Grids
  <2>3. QED
    BY <2>1, <2>2
<1>4. \A p \in DOMAIN seen' :
        \/ p \in DOMAIN seen /\ seen'[p] = seen[p]
        \/ /\ p = s.q.page /\ View0(s.q) = View0(state) /\ s.at = "answered"
           /\ seen'[p] = Range(s.items)
  BY DEF Answer, SearchFails
<1>5. Range(s.items) \subseteq Lots
  BY <1>1 DEF Range
<1>6. SiteTypeOK'
  <2>1. stale' \in BOOLEAN
    BY <1>2
  <2>2. DOMAIN seen' \subseteq Nat \ {0} /\ \A p \in DOMAIN seen' : seen'[p] \subseteq Lots
    BY <1>1, <1>4, <1>5 DEF SiteTypeOK
  <2>3. QED
    BY <1>1, <1>2, <1>3, <2>1, <2>2 DEF SiteTypeOK
<1>7. Latest'
  <2>1. s.number <= moves /\ (s.number = moves => s.q = state)
    BY <1>1 DEF Latest
  <2>2. ~stale' => ~stale /\ s.number >= grid.number
    BY <1>2 DEF Newest
  <2>3. ~stale' => s.number = moves
    BY <1>1, <2>1, <2>2 DEF Latest, SiteTypeOK
  <2>4. QED
    BY <1>1, <1>2, <1>3, <2>1, <2>3 DEF Latest
<1>8. Cards'
  BY <1>1, <1>2, <1>3 DEF Cards
<1>9. \A r, p : PageOf(r, p)' = PageOf(r, p) /\ Found(r)' = Found(r)
  BY <1>2 DEF PageOf, Rank, Found
<1>10. Viewed'
  <2>1. Seeded(state)' /\ \A r \in searches' : Seeded(r.q)
    BY <1>1, <1>2 DEF Viewed, Seeded
  <2>2. edits' = 0 => \A r \in searches' : ListsItsPage(r)'
    BY <1>1, <1>2, <1>9 DEF Viewed, ListsItsPage
  <2>3. ASSUME edits' = 0, state'.sort = "random", NEW p \in DOMAIN seen'
        PROVE  seen'[p] = PageOf(state', p)
    <3>1. CASE p \in DOMAIN seen /\ seen'[p] = seen[p]
      BY <1>1, <1>2, <2>3, <3>1 DEF Viewed
    <3>2. CASE /\ p = s.q.page /\ View0(s.q) = View0(state) /\ s.at = "answered"
               /\ seen'[p] = Range(s.items)
      <4>1. s.q.sort = state.sort /\ PageOf(s.q, p) = PageOf(state, p)
        BY <1>1, <3>2, SameView DEF SiteTypeOK
      <4>2. Range(s.items) = PageOf(s.q, s.q.page)
        BY <1>1, <1>2, <2>3, <3>2, <4>1 DEF Viewed, ListsItsPage, Read
      <4>3. QED
        BY <1>2, <3>2, <4>1, <4>2
    <3>3. QED
      BY <1>4, <2>3, <3>1, <3>2
  <2>4. QED
    BY <1>2, <1>9, <2>1, <2>2, <2>3 DEF Viewed
<1>11. ASSUME blurred' = {} PROVE Told'
  <2>1. Told
    BY <1>2, <1>11 DEF SiteIInv
  <2>2. \A t \in toggles' : t.card # grid'.number
    BY <1>1, <1>2, <1>3 DEF Cards
  <2>3. \A r \in searches' : TellsHearts(r)'
    BY <1>2, <2>1 DEF Told, TellsHearts
  <2>4. grid'.show = "items" =>
          grid'.items = s.items /\ grid'.hearts = favs \cap Range(s.items)
    BY <1>3, <2>1 DEF Told, TellsHearts
  <2>5. QED
    BY <1>2, <2>2, <2>3, <2>4 DEF Told
<1>12. ASSUME edits' = 0, ~stale' PROVE Reached'
  <2>1. Reached /\ KnowsTotal(s)
    BY <1>2, <1>12 DEF SiteIInv, Reached
  <2>2. \A r : (InReach(r)' <=> InReach(r)) /\ (KnowsTotal(r)' <=> KnowsTotal(r))
    BY <1>9 DEF InReach, KnowsTotal, Read
  <2>3. InReach(state)' /\ \A r \in searches' : KnowsTotal(r)'
    BY <1>2, <2>1, <2>2 DEF Reached
  <2>4. grid'.show = "items" => grid'.pages = Pages(Cardinality(Found(s.q)))
    BY <1>3, <2>1 DEF KnowsTotal
  <2>5. grid'.show = "empty" => Found(s.q) = {}
    BY <1>3, <2>1 DEF KnowsTotal, Read
  <2>6. QED
    BY <1>3, <1>9, <2>3, <2>4, <2>5 DEF Reached
<1>13. QED
  BY <1>6, <1>7, <1>8, <1>10, <1>11, <1>12 DEF SiteIInv

\* Hearts leave what the page asks for and shows as it is.
LEMMA ViewStays ==
  ASSUME SiteIInv, UNCHANGED <<table, state, searches, moves, edits, stale, seen>>,
         grid'.number = grid.number, grid'.show = grid.show, grid'.q = grid.q,
         grid'.pages = grid.pages
  PROVE  Latest' /\ Viewed' /\ (edits' = 0 /\ ~stale' => Reached')
<1>1. Latest'
  BY DEF SiteIInv, Latest
<1>2. \A r, p : PageOf(r, p)' = PageOf(r, p) /\ Found(r)' = Found(r)
  BY DEF PageOf, Rank, Found
<1>3. \A r : /\ ListsItsPage(r)' <=> ListsItsPage(r)
             /\ KnowsTotal(r)' <=> KnowsTotal(r)
             /\ InReach(r)' <=> InReach(r)
  BY <1>2 DEF ListsItsPage, KnowsTotal, InReach, Read
<1>4. Viewed'
  BY <1>2, <1>3 DEF SiteIInv, Viewed, Seeded
<1>5. ASSUME edits' = 0, ~stale' PROVE Reached'
  <2>1. Reached
    BY <1>5 DEF SiteIInv
  <2>2. QED
    BY <1>2, <1>3, <2>1 DEF Reached
<1>6. QED
  BY <1>1, <1>4, <1>5

\* A request of a heart goes on.
LEMMA GoingOn ==
  ASSUME SiteTypeOK, Cards, NEW t \in toggles, NEW at \in {"commit", "refused", "done"},
         Goes(t, at), UNCHANGED <<searches, grid, moves>>, favs' \subseteq table'
  PROVE  /\ Cards' /\ toggles' \subseteq TogglesOf
         /\ \A u \in toggles' :
              \/ u \in toggles /\ u # t
                   /\ (u.card = t.card => u.lot # t.lot)
              \/ u.lot = t.lot /\ u.card = t.card /\ u.next = t.next /\ u.at = at
         /\ \A u \in toggles : u = t \/ u \in toggles'
         /\ \E u \in toggles' : u.lot = t.lot /\ u.card = t.card /\ u.at = at
<1> DEFINE v == [t EXCEPT !.at = at]
<1>1. toggles' = (toggles \ {t}) \cup {v} /\ t \in TogglesOf
  BY DEF Goes, SiteTypeOK
<1>2. v \in TogglesOf /\ v.lot = t.lot /\ v.card = t.card /\ v.next = t.next /\ v.at = at
  BY <1>1 DEF TogglesOf
<1> HIDE DEF v
<1>3. \A u \in toggles : u.lot = t.lot /\ u.card = t.card => u = t
  BY DEF Cards
<1>4. \A u \in toggles' :
        \/ u \in toggles /\ u # t /\ (u.card = t.card => u.lot # t.lot)
        \/ u = v
  BY <1>1, <1>3
<1>5. \A u, w \in toggles' : u.lot = w.lot /\ u.card = w.card => u = w
  BY <1>2, <1>4 DEF Cards
<1>6. \A u \in toggles' : u.card <= moves' /\ \A r \in searches' : r.number # u.card
  BY <1>2, <1>4 DEF Cards
<1>7. Cards'
  BY <1>5, <1>6 DEF Cards
<1>8. toggles' \subseteq TogglesOf
  BY <1>1, <1>2 DEF SiteTypeOK
<1>9. QED
  BY <1>1, <1>2, <1>4, <1>7, <1>8

LEMMA TogglesKeep ==
  ASSUME SiteIInv, NEW t \in toggles, CheckToggle(t) \/ CommitToggle(t)
  PROVE  SiteIInv'
<1>1. /\ SiteTypeOK /\ Cards /\ t \in TogglesOf /\ t.next \in BOOLEAN /\ t.lot \in Lots
      /\ favs \subseteq table
  BY DEF SiteIInv, SiteTypeOK, TogglesOf, Cards
<1>2. UNCHANGED <<table, state, searches, grid, tokenValid, moves, clicks, edits, stale, seen>>
  BY DEF CheckToggle, CommitToggle, database, bounds, history
<1>3. Latest' /\ Viewed' /\ (edits' = 0 /\ ~stale' => Reached')
  BY <1>2, ViewStays
<1>4. \A l : Owing(l) <=> \E u \in toggles : u.lot = l /\ u.card = grid.number /\ u.at = "done"
  BY DEF Owing
<1>5. \A l : Owing(l)' <=> \E u \in toggles' : u.lot = l /\ u.card = grid.number /\ u.at = "done"
  BY <1>2 DEF Owing
\* Until the request is done the favourites are what they were.
<1>6. ASSUME NEW at \in {"commit", "refused", "done"}, Goes(t, at), favs' = favs,
             t.at # "done", at = "done" => (t.next <=> t.lot \in favs),
             blurred' = {} => blurred = {}
      PROVE  SiteIInv'
  <2>1. /\ Cards' /\ toggles' \subseteq TogglesOf
        /\ \A u \in toggles' :
             \/ u \in toggles
             \/ u.lot = t.lot /\ u.card = t.card /\ u.next = t.next /\ u.at = at
        /\ \A u \in toggles : u = t \/ u \in toggles'
    BY <1>1, <1>2, <1>6, GoingOn
  <2>2. SiteTypeOK'
    BY <1>1, <1>2, <1>6, <2>1 DEF SiteTypeOK
  <2>3. ASSUME blurred' = {} PROVE Told'
    <3>1. Told
      BY <1>6, <2>3 DEF SiteIInv
    <3>2. \A r \in searches' : TellsHearts(r)'
      BY <1>2, <1>6, <3>1 DEF Told, TellsHearts
    <3>3. \A u \in toggles' : u.card = grid.number /\ u.at = "done" => (u.next <=> u.lot \in favs)
      BY <1>6, <2>1, <3>1 DEF Told
    <3>4. \A l : Owing(l) => Owing(l)'
      BY <1>4, <1>5, <1>6, <2>1
    <3>5. QED
      BY <1>2, <1>6, <3>1, <3>2, <3>3, <3>4 DEF Told
  <2>4. QED
    BY <1>3, <2>1, <2>2, <2>3 DEF SiteIInv
<1>7. CASE CheckToggle(t)
  <2> DEFINE at == IF t.lot \notin table \/ (~t.next /\ t.lot \notin favs) THEN "refused"
                   ELSE IF t.next /\ t.lot \in favs THEN "done" ELSE "commit"
  <2>1. t.at = "check" /\ Goes(t, at) /\ favs' = favs /\ blurred' = blurred
    BY <1>7 DEF CheckToggle, database, history
  <2>2. at \in {"commit", "refused", "done"} /\ (at = "done" => (t.next <=> t.lot \in favs))
    OBVIOUS
  <2> HIDE DEF at
  <2>3. QED
    BY <1>6, <2>1, <2>2
<1>8. CASE CommitToggle(t)
  <2> DEFINE conflict == t.next /\ (t.lot \in favs \/ t.lot \notin table)
  <2>1. /\ t.at = "commit"
        /\ Goes(t, IF conflict THEN "refused" ELSE "done")
        /\ favs' = IF conflict THEN favs ELSE Toggled(favs, t.lot, t.next)
        /\ blurred' = {} => blurred = {} /\ searches = {} /\ t.card = grid.number
    BY <1>8 DEF CommitToggle
  <2>2. CASE conflict
    BY <1>6, <2>1, <2>2
  <2>3. CASE ~conflict
    <3>1. Goes(t, "done") /\ favs' = Toggled(favs, t.lot, t.next)
      BY <2>1, <2>3
    <3>2. /\ t.lot \in favs' <=> t.next
          /\ \A l : l # t.lot => (l \in favs' <=> l \in favs)
          /\ favs' \subseteq table /\ favs' \in SUBSET Lots
      BY <1>1, <2>3, <3>1 DEF Toggled, SiteTypeOK
    <3>3. /\ Cards' /\ toggles' \subseteq TogglesOf
          /\ \A u \in toggles' :
               \/ u \in toggles /\ u # t
                    /\ (u.card = t.card => u.lot # t.lot)
               \/ u.lot = t.lot /\ u.card = t.card /\ u.next = t.next /\ u.at = "done"
          /\ \A u \in toggles : u = t \/ u \in toggles'
          /\ \E u \in toggles' : u.lot = t.lot /\ u.card = t.card /\ u.at = "done"
      BY <1>1, <1>2, <3>1, <3>2, GoingOn
    <3>4. SiteTypeOK'
      BY <1>1, <1>2, <3>2, <3>3 DEF SiteTypeOK
    <3>5. ASSUME blurred' = {} PROVE Told'
      <4>1. Told /\ searches = {} /\ t.card = grid.number
        BY <2>1, <3>5 DEF SiteIInv
      <4>2. \A u \in toggles' : u.card = grid.number /\ u.at = "done"
                                  => (u.next <=> u.lot \in favs')
        BY <3>2, <3>3, <4>1 DEF Told
      <4>3. Owing(t.lot)'
        BY <1>5, <3>3, <4>1
      <4>4. \A l : l # t.lot /\ Owing(l) => Owing(l)'
        BY <1>4, <1>5, <3>3
      <4>5. \A l : ~Owing(l)' => l # t.lot /\ ~Owing(l) /\ (l \in favs' <=> l \in favs)
        BY <3>2, <4>3, <4>4
      <4>6. QED
        BY <1>2, <4>1, <4>2, <4>5 DEF Told
    <3>6. QED
      BY <1>3, <3>3, <3>4, <3>5 DEF SiteIInv
  <2>4. QED
    BY <2>2, <2>3
<1>9. QED
  BY <1>7, <1>8

\* A request of a heart ends.
LEMMA EndingsKeep ==
  ASSUME SiteIInv, NEW t \in toggles, ToggleDone(t) \/ ToggleFails(t) \/ ToggleAnswerLost(t)
  PROVE  SiteIInv'
<1>1. /\ SiteTypeOK /\ Cards /\ t \in TogglesOf /\ t.next \in BOOLEAN /\ t.lot \in Lots
      /\ grid \in Grids /\ grid.hearts \in SUBSET Lots
  BY DEF SiteIInv, SiteTypeOK, TogglesOf, Grids
<1>2. /\ toggles' = toggles \ {t}
      /\ UNCHANGED <<table, favs, state, searches, tokenValid, moves, clicks, edits, stale,
                     seen>>
  BY DEF ToggleDone, ToggleFails, ToggleAnswerLost, ToggleEnds, database, bounds, history
<1>3. /\ grid' \in Grids /\ grid'.number = grid.number /\ grid'.show = grid.show
      /\ grid'.q = grid.q /\ grid'.pages = grid.pages /\ grid'.items = grid.items
      /\ \A l : l # t.lot => (l \in grid'.hearts <=> l \in grid.hearts)
  <2>1. CASE grid' = grid
    BY <1>1, <2>1
  <2>2. CASE grid' = [grid EXCEPT !.hearts = Toggled(@, t.lot, t.next)]
    <3>1. /\ Toggled(grid.hearts, t.lot, t.next) \in SUBSET Lots
          /\ \A l : l # t.lot =>
               (l \in Toggled(grid.hearts, t.lot, t.next) <=> l \in grid.hearts)
      BY <1>1 DEF Toggled
    <3>2. QED
      BY <1>1, <2>2, <3>1 DEF Grids
  <2>3. QED
    BY <2>1, <2>2 DEF ToggleDone, ToggleFails, ToggleAnswerLost
<1>4. Latest' /\ Viewed' /\ (edits' = 0 /\ ~stale' => Reached')
  BY <1>2, <1>3, ViewStays
<1>5. SiteTypeOK' /\ Cards'
  BY <1>1, <1>2, <1>3 DEF SiteTypeOK, Cards
<1>6. ASSUME blurred' = {} PROVE Told'
  <2>1. ~ToggleAnswerLost(t)
    BY <1>6 DEF ToggleAnswerLost
  <2>2. Told
    BY <1>6, <2>1 DEF SiteIInv, ToggleDone, ToggleFails, history
  <2>3. \A l : l # t.lot => (Owing(l)' <=> Owing(l))
    BY <1>2, <1>3 DEF Owing
  <2>4. grid.show = "items" /\ t.lot \in Range(grid.items) /\ ~Owing(t.lot)'
          => (t.lot \in grid'.hearts <=> t.lot \in favs)
    <3>1. CASE ToggleDone(t) /\ t.card = grid.number /\ grid.show = "items"
      <4>1. t.at = "done" /\ grid' = [grid EXCEPT !.hearts = Toggled(@, t.lot, t.next)]
        BY <3>1 DEF ToggleDone
      <4>2. grid'.hearts = Toggled(grid.hearts, t.lot, t.next)
        BY <1>1, <4>1 DEF Grids
      <4>3. t.next <=> t.lot \in favs
        BY <2>2, <3>1, <4>1 DEF Told
      <4>4. QED
        BY <4>2, <4>3 DEF Toggled
    <3>2. CASE ~(ToggleDone(t) /\ t.card = grid.number /\ grid.show = "items")
      <4>1. grid' = grid \/ grid.show # "items"
        BY <2>1, <3>2 DEF ToggleDone, ToggleFails
      <4>2. t.card # grid.number \/ t.at # "done" \/ grid.show # "items"
        BY <2>1, <3>2 DEF ToggleFails
      <4>3. grid.show = "items" /\ ~Owing(t.lot)' => ~Owing(t.lot)
        BY <1>2, <1>3, <4>2 DEF Owing
      <4>4. QED
        BY <2>2, <4>1, <4>3 DEF Told
    <3>3. QED
      BY <3>1, <3>2
  <2>5. \A l \in Range(grid.items) :
          grid.show = "items" /\ ~Owing(l)' => (l \in grid'.hearts <=> l \in favs)
    BY <1>3, <2>2, <2>3, <2>4 DEF Told
  <2>6. \A r \in searches' : TellsHearts(r)'
    BY <1>2, <2>2 DEF Told, TellsHearts
  <2>7. QED
    BY <1>2, <1>3, <2>2, <2>5, <2>6 DEF Told
<1>7. QED
  BY <1>4, <1>5, <1>6 DEF SiteIInv

\* A heart is clicked, ...
LEMMA ClickKeeps ==
  ASSUME SiteIInv, NEW l \in Lots, ClickHeart(l)
  PROVE  SiteIInv'
<1> DEFINE new == [lot |-> l, card |-> grid.number, next |-> l \notin grid.hearts,
                   at |-> "check"]
<1>1. SiteTypeOK /\ Cards /\ Latest /\ grid.number \in Nat /\ clicks \in Nat
  BY DEF SiteIInv, SiteTypeOK, Grids
<1>2. /\ grid.show = "items" /\ \A t \in toggles : t.lot # l \/ t.card # grid.number
      /\ toggles' = toggles \cup {new} /\ clicks' = clicks + 1 /\ tokenValid' = TRUE
      /\ UNCHANGED <<table, favs, state, searches, grid, moves, edits, stale, blurred, seen>>
  BY DEF ClickHeart, AfterClick, database, history
<1>3. new \in TogglesOf /\ new.lot = l /\ new.card = grid.number /\ new.at = "check"
  <2>1. (l \notin grid.hearts) \in BOOLEAN
    OBVIOUS
  <2>2. QED
    BY <1>1 DEF TogglesOf
<1> HIDE DEF new
<1>4. Latest' /\ Viewed' /\ (edits' = 0 /\ ~stale' => Reached')
  BY <1>2, ViewStays
<1>5. SiteTypeOK'
  BY <1>1, <1>2, <1>3 DEF SiteTypeOK
<1>6. Cards'
  <2>1. grid.number <= moves /\ \A s \in searches : s.number # grid.number
    BY <1>1, <1>2 DEF Latest, Cards
  <2>2. \A t, u \in toggles' : t.lot = u.lot /\ t.card = u.card => t = u
    BY <1>1, <1>2, <1>3 DEF Cards
  <2>3. QED
    BY <1>1, <1>2, <1>3, <2>1, <2>2 DEF Cards
<1>7. ASSUME blurred' = {} PROVE Told'
  <2>1. Told
    BY <1>2, <1>7 DEF SiteIInv
  <2>2. \A x : Owing(x)' <=> Owing(x)
    BY <1>2, <1>3 DEF Owing
  <2>3. \A r \in searches' : TellsHearts(r)'
    BY <1>2, <2>1 DEF Told, TellsHearts
  <2>4. QED
    BY <1>2, <1>3, <2>1, <2>2, <2>3 DEF Told
<1>8. QED
  BY <1>4, <1>5, <1>6, <1>7 DEF SiteIInv

\* The token of the page expires: what it was sent with is all that changes of a
\* search.
Alike(r, s) ==
  /\ r.number = s.number /\ r.q = s.q /\ r.at = s.at /\ r.total = s.total
  /\ r.items = s.items /\ r.hearts = s.hearts

LEMMA ExpiryKeepsSearches ==
  ASSUME SiteTypeOK, Cards, TokenExpires
  PROVE  /\ searches' \subseteq SearchesOf
         /\ \A r \in searches' : \E s \in searches : Alike(r, s)
         /\ \A s \in searches : \E r \in searches' : Alike(r, s)
         /\ \A r, u \in searches' : r.number = u.number => r = u
<1>1. PICK late \in SUBSET {s \in searches : s.at = "count"} :
        searches' = {IF s \in late THEN [s EXCEPT !.reader = FALSE] ELSE s : s \in searches}
  BY DEF TokenExpires
<1> DEFINE r(s) == IF s \in late THEN [s EXCEPT !.reader = FALSE] ELSE s
<1>2. ASSUME NEW s \in searches PROVE r(s) \in SearchesOf /\ Alike(r(s), s)
  <2>1. s \in SearchesOf
    BY DEF SiteTypeOK
  <2>2. QED
    BY <2>1 DEF SearchesOf, Alike
<1>3. searches' = {r(s) : s \in searches}
  BY <1>1
<1> HIDE DEF r
<1>4. ASSUME NEW s \in searches, NEW u \in searches, r(s).number = r(u).number
      PROVE  r(s) = r(u)
  <2>1. s.number = u.number
    BY <1>2, <1>4 DEF Alike
  <2>2. QED
    BY <2>1 DEF Cards
<1>5. QED
  BY <1>2, <1>3, <1>4

\* ... and something changes elsewhere.
LEMMA ElsewhereKeeps ==
  ASSUME SiteIInv,
         (\E l \in Lots : OtherTabToggles(l) \/ TableChanges(l)) \/ TokenExpires
  PROVE  SiteIInv'
<1>1. SiteTypeOK /\ Cards /\ Latest /\ Viewed /\ edits \in Nat /\ favs \subseteq table
  BY DEF SiteIInv, SiteTypeOK, Cards
<1>2. /\ edits' = edits + 1
      /\ UNCHANGED <<state, grid, toggles, moves, clicks, stale, seen>>
  BY DEF OtherTabToggles, TableChanges, TokenExpires, Elsewhere, database, history
<1> DEFINE Same == /\ searches' \subseteq SearchesOf
                   /\ \A r \in searches' : \E s \in searches : Alike(r, s)
                   /\ \A s \in searches : \E r \in searches' : Alike(r, s)
                   /\ \A r, u \in searches' : r.number = u.number => r = u
<1>3. Same
  <2>1. CASE TokenExpires
    BY <1>1, <2>1, ExpiryKeepsSearches
  <2>2. CASE searches' = searches
    <3>1. \A s \in searches : Alike(s, s) /\ s \in SearchesOf
      BY <1>1 DEF Alike, SiteTypeOK
    <3>2. QED
      BY <1>1, <2>2, <3>1 DEF Cards
  <2>3. QED
    BY <2>1, <2>2 DEF OtherTabToggles, TableChanges
<1>4. edits' \in Nat /\ edits' # 0
  BY <1>1, <1>2
<1>5. /\ table' \in SUBSET Lots /\ favs' \subseteq table' /\ tokenValid' \in BOOLEAN
      /\ blurred' = {} => blurred = {} /\ favs' = favs
  <2>1. ASSUME NEW l \in Lots, OtherTabToggles(l)
        PROVE  /\ table' \in SUBSET Lots /\ favs' \subseteq table' /\ tokenValid' \in BOOLEAN
               /\ blurred' # {}
    BY <1>1, <2>1 DEF OtherTabToggles, SiteTypeOK
  <2>2. ASSUME NEW l \in Lots, TableChanges(l)
        PROVE  /\ table' \in SUBSET Lots /\ favs' \subseteq table' /\ tokenValid' \in BOOLEAN
               /\ blurred' = {} => blurred = {} /\ favs' = favs
    <3>1. /\ table' = IF l \in table THEN table \ {l} ELSE table \cup {l}
          /\ favs' = favs \cap table' /\ tokenValid' = tokenValid
          /\ blurred' = IF l \in favs THEN blurred \cup {"deleted"} ELSE blurred
      BY <2>2 DEF TableChanges
    <3>2. table' \in SUBSET Lots /\ favs' \subseteq table'
      BY <1>1, <3>1 DEF SiteTypeOK
    <3>3. blurred' = {} => blurred = {} /\ l \notin favs
      BY <3>1
    <3>4. l \notin favs => favs' = favs
      BY <1>1, <3>1
    <3>5. QED
      BY <1>1, <3>1, <3>2, <3>3, <3>4 DEF SiteTypeOK
  <2>3. ASSUME TokenExpires
        PROVE  /\ table' \in SUBSET Lots /\ favs' \subseteq table' /\ tokenValid' \in BOOLEAN
               /\ blurred' = {} => blurred = {} /\ favs' = favs
    BY <1>1, <2>3 DEF TokenExpires, SiteTypeOK, database, history
  <2>4. QED
    BY <2>1, <2>2, <2>3
<1>6. SiteTypeOK'
  BY <1>1, <1>2, <1>4, <1>5, <1>3 DEF SiteTypeOK
<1>7. Latest'
  BY <1>1, <1>2, <1>3 DEF Latest, Alike
<1>8. Cards'
  BY <1>1, <1>2, <1>5, <1>3 DEF Cards, Alike
<1>9. Viewed'
  BY <1>1, <1>2, <1>4, <1>3 DEF Viewed, Seeded, Alike
<1>10. ASSUME blurred' = {} PROVE Told'
  <2>1. Told /\ favs' = favs
    BY <1>5, <1>10 DEF SiteIInv
  <2>2. \A l : Owing(l)' <=> Owing(l)
    BY <1>2 DEF Owing
  <2>3. \A r \in searches' : TellsHearts(r)'
    BY <1>2, <1>3, <2>1 DEF Told, TellsHearts, Alike
  <2>4. QED
    BY <1>2, <2>1, <2>2, <2>3 DEF Told
<1>11. QED
  BY <1>4, <1>6, <1>7, <1>8, <1>9, <1>10 DEF SiteIInv

LEMMA SiteInductive == SiteIInv /\ [SiteNext]_siteVars => SiteIInv'
<1>1. SUFFICES ASSUME SiteIInv, [SiteNext]_siteVars PROVE SiteIInv'
  OBVIOUS
<1>2. CASE UNCHANGED siteVars
  <2>1. /\ Latest' /\ Viewed' /\ (edits' = 0 /\ ~stale' => Reached')
        /\ UNCHANGED <<table, favs, state, searches, grid, toggles, tokenValid, moves,
                       clicks, edits, stale, blurred, seen>>
    BY <1>1, <1>2, ViewStays DEF siteVars
  <2>2. SiteTypeOK' /\ Cards'
    BY <1>1, <2>1 DEF SiteIInv, SiteTypeOK, Cards
  <2>3. blurred' = {} => Told'
    BY <1>1, <2>1 DEF SiteIInv, Told, TellsHearts, Owing
  <2>4. QED
    BY <2>1, <2>2, <2>3 DEF SiteIInv
<1>3. CASE SiteNext
  BY <1>1, <1>3, ControlsKeep, BackendKeeps, AnswersKeep, TogglesKeep, EndingsKeep,
     ClickKeeps, ElsewhereKeeps DEF SiteNext
<1>4. QED
  BY <1>1, <1>2, <1>3

LEMMA SiteInvariance == SiteSpec => []SiteIInv
BY SiteStart, SiteInductive, PTL DEF SiteSpec

-----------------------------------------------------------------------------
(***************************************************************************)
(* The theorems about the search page.                                     *)
(***************************************************************************)
\* What the page and the backend hold keeps to its types, and every page asked
\* for is a page of a view the form can be in.
THEOREM SiteTypes == SiteSpec => []SiteTypeOK
<1>1. SiteIInv => SiteTypeOK
  BY DEF SiteIInv
<1>2. QED
  BY <1>1, SiteInvariance, PTL

\* However many searches overlap and in whatever order they are answered, the
\* page at rest shows what its state asks for, unless an answer was rendered
\* that a newer search followed (search.js renders every answer that comes).
THEOREM PageShowsItsState == SiteSpec => []GridAnswersState
<1>1. SiteIInv => GridAnswersState
  BY DEF SiteIInv, Latest, GridAnswersState
<1>2. QED
  BY <1>1, SiteInvariance, PTL

\* For any lots, filters, seeds and page size: the pages of a shuffled view do
\* not share a lot and together hold all that match, while the table stays as
\* it is (the backend orders each page's query by md5(id || seed) anew).
THEOREM ShuffledPagesPartition == SiteSpec => []PagesPartition
<1>1. SiteIInv => PagesPartition
  <2>1. SUFFICES ASSUME SiteIInv, state.sort = "random", edits = 0
                 PROVE  /\ \A p, r \in DOMAIN seen : p # r => seen[p] \cap seen[r] = {}
                        /\ DOMAIN seen = 1..Pages(Cardinality(Found(state))) =>
                             UNION {seen[p] : p \in DOMAIN seen} = Found(state)
    BY DEF PagesPartition
  <2>2. /\ \A p \in DOMAIN seen : p \in Nat /\ seen[p] = PageOf(state, p)
        /\ table \in SUBSET Lots /\ state \in View /\ Seeded(state)
    BY <2>1 DEF SiteIInv, SiteTypeOK, Viewed
  <2>3. \A p, r \in DOMAIN seen : p # r => seen[p] \cap seen[r] = {}
    BY <2>2, PagesAreApart
  <2>4. ASSUME DOMAIN seen = 1..Pages(Cardinality(Found(state)))
        PROVE  UNION {seen[p] : p \in DOMAIN seen} = Found(state)
    <3>1. UNION {PageOf(state, p) : p \in DOMAIN seen} = Found(state)
      BY <2>1, <2>2, <2>4, PagesHoldAll
    <3>2. {PageOf(state, p) : p \in DOMAIN seen} = {seen[p] : p \in DOMAIN seen}
      BY <2>2
    <3>3. QED
      BY <3>1, <3>2
  <2>5. QED
    BY <2>3, <2>4
<1>2. QED
  BY <1>1, SiteInvariance, PTL

\* "Nothing found" is shown only when nothing matches: no button leads behind
\* the last page, whatever the number of lots and the page size, while the
\* table stays and no overtaken answer is rendered.
THEOREM NothingFoundIsSaidTruly == SiteSpec => []NothingFoundIsTrue
<1>1. SiteIInv => NothingFoundIsTrue
  BY DEF SiteIInv, Reached, NothingFoundIsTrue
<1>2. QED
  BY <1>1, SiteInvariance, PTL

\* A heart tells whether its lot is a favourite, through any overlap of clicks
\* and searches, but for what HeartTells names (lot-card.js, search.js and the two
\* statements of a change in the backend).
THEOREM HeartsTell == SiteSpec => []HeartTells
<1>1. SiteIInv => HeartTells
  <2>1. SUFFICES ASSUME SiteIInv, blurred = {}, grid.show = "items",
                        NEW l \in Range(grid.items), \A t \in toggles : t.lot # l
                 PROVE  l \in grid.hearts <=> l \in favs
    BY DEF HeartTells
  <2>2. Told /\ ~Owing(l)
    BY <2>1 DEF SiteIInv, Owing
  <2>3. QED
    BY <2>1, <2>2 DEF Told
<1>2. QED
  BY <1>1, SiteInvariance, PTL

=============================================================================
