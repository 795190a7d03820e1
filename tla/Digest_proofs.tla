---------------------------- MODULE Digest_proofs ----------------------------
(***************************************************************************)
(* Where the lots come from, and who is told of them.  What Digest         *)
(* promises for any number of users, filters, lots and minutes: besides    *)
(* the types the invariant relates what was told to notification_log, says *)
(* that the ticks in progress hold different rows, none of them logged,    *)
(* and that whoever a scheduled tick writes to had no digest for long; and *)
(* ticks neither block each other nor go on for ever.                      *)
(* And what a scan (Sources) promises for any site, page size and changes  *)
(* of the site under it: that it is complete when it says so, that it      *)
(* comes to an end, and that a price is read as it is written.             *)
(***************************************************************************)
EXTENDS Digest, Sources, FiniteSetTheorems, SequenceTheorems, WellFoundedInduction, TLAPS

Told ==
  /\ \A f \in Filters, l \in LotIds :
       told[<<f, l>>] <= 1 /\ (l >= nextLot => told[<<f, l>>] = 0)
  /\ \A f \in filters, l \in lots : <<f, l>> \in log <=> told[<<f, l>>] > 0

\* An inserted row is the tick's own and not committed yet.
Held ==
  \A r \in Runners, f \in Filters, l \in LotIds : <<f, l>> \in run[r].inserted =>
    /\ f \in filters /\ l \in lots /\ <<f, l>> \notin log
    /\ \A q \in Runners \ {r} : <<f, l>> \notin run[q].inserted

\* The users a tick writes to, or will as soon as it reads their lots.
WritesTo(t, u) ==
  \/ \E f \in Filters, l \in LotIds : <<f, l>> \in t.added \cup t.inserted /\ Owner[f] = u
  \/ \E f \in t.work : Owner[f] = u
Rested(t) == \A u \in Users : WritesTo(t, u) => digestAge[u] > Cooldown
Spaced ==
  /\ \A u \in Users : age[u] <= digestAge[u]
  /\ \A r \in Runners : r = "scheduled" => Rested(run[r])

IInv == TypeOK /\ Told /\ Held /\ Spaced

-----------------------------------------------------------------------------
LEMMA OffIsTick ==
  /\ Off \in Tick /\ Off.inserted = {} /\ Off.added = {} /\ Off.work = {}
  /\ \A u \in Users : ~WritesTo(Off, u)
BY DEF Off, Tick, WritesTo

\* One tick moves and the database stays as it is.
LEMMA TickMoves ==
  ASSUME IInv, NEW r \in Runners, NEW t \in Tick,
         run' = [run EXCEPT ![r] = t],
         \A f \in Filters, l \in LotIds : <<f, l>> \in t.inserted =>
           \/ <<f, l>> \in run[r].inserted
           \/ Insertable(<<f, l>>) /\ <<f, l>> \notin Uncommitted(r),
         r = "scheduled" => Rested(t),
         fired' \subseteq Runners, UNCHANGED <<minute, db, history, events>>
  PROVE  IInv'
<1>1. TypeOK /\ run' \in [Runners -> Tick] /\ run'[r] = t
        /\ \A q \in Runners : q # r => run'[q] = run[q]
  BY DEF IInv, TypeOK
<1>2. UNCHANGED <<minute, age, linked, filters, lots, nextLot, log, template,
                  told, digestAge, events>>
  BY DEF db, history
<1>3. TypeOK'
  BY <1>1, <1>2 DEF TypeOK
<1>4. Told'
  BY <1>2 DEF IInv, Told
<1>5. Held'
  <2>1. SUFFICES ASSUME NEW q \in Runners, NEW f \in Filters, NEW l \in LotIds,
                        <<f, l>> \in run'[q].inserted
                 PROVE  /\ f \in filters /\ l \in lots /\ <<f, l>> \notin log
                        /\ \A s \in Runners \ {q} : <<f, l>> \notin run'[s].inserted
    BY <1>2 DEF Held
  <2>2. CASE <<f, l>> \in run[q].inserted
    <3>1. /\ f \in filters /\ l \in lots /\ <<f, l>> \notin log
          /\ \A s \in Runners \ {q} : <<f, l>> \notin run[s].inserted
      BY <2>2 DEF IInv, Held
    <3>2. q # r => <<f, l>> \notin t.inserted
      BY <2>2, <3>1 DEF Uncommitted
    <3>3. QED
      BY <1>1, <3>1, <3>2
  <2>3. CASE <<f, l>> \notin run[q].inserted
    <3>1. q = r /\ Insertable(<<f, l>>) /\ <<f, l>> \notin Uncommitted(r)
      BY <1>1, <2>1, <2>3
    <3>2. \A s \in Runners \ {r} : <<f, l>> \notin run[s].inserted
      BY <3>1 DEF Uncommitted
    <3>3. QED
      BY <1>1, <3>1, <3>2 DEF Insertable
  <2>4. QED
    BY <2>2, <2>3
<1>6. Spaced'
  BY <1>1, <1>2 DEF IInv, Spaced, Rested, WritesTo
<1>7. QED
  BY <1>3, <1>4, <1>5, <1>6 DEF IInv

LEMMA StartKeepsIInv ==
  ASSUME IInv, NEW r \in Runners, Start(r)
  PROVE  IInv'
<1> DEFINE t == [Off EXCEPT !.on = TRUE, !.todo = Users, !.linked = linked, !.template = template]
<1>1. TypeOK
  BY DEF IInv
<1>2. t \in Tick
  BY <1>1 DEF Off, Tick, TypeOK
<1>3. t.inserted = {} /\ t.added = {} /\ t.work = {}
  BY DEF Off
<1>4. fired' \subseteq Runners /\ run' = [run EXCEPT ![r] = t]
        /\ UNCHANGED <<minute, db, history, events>>
  BY <1>1 DEF Start, TypeOK
<1> HIDE DEF t
<1>5. Rested(t)
  BY <1>3 DEF Rested, WritesTo
<1>6. QED
  BY <1>2, <1>3, <1>4, <1>5, TickMoves

LEMMA ConsiderKeepsIInv ==
  ASSUME IInv, NEW r \in Runners, NEW u \in Users, Consider(r, u)
  PROVE  IInv'
<1> DEFINE w == IF ShouldSend(r, u) THEN {f \in filters : Owner[f] = u} ELSE {}
           t == [run[r] EXCEPT !.todo = @ \ {u}, !.work = w]
<1>1. TypeOK /\ run[r] \in Tick
  BY DEF IInv, TypeOK
<1>2. w \subseteq Filters
  BY <1>1 DEF TypeOK
<1> HIDE DEF w
<1>3. t \in Tick /\ t.inserted = run[r].inserted /\ t.added = {} /\ t.work = w
  BY <1>1, <1>2 DEF Tick, Consider, Idle, Flushed
<1>4. run' = [run EXCEPT ![r] = t] /\ UNCHANGED <<minute, fired, db, history, events>>
  BY <1>1 DEF Consider, w, clock
<1> HIDE DEF t
<1>5. ASSUME r = "scheduled", NEW v \in Users, WritesTo(t, v)
      PROVE  digestAge[v] > Cooldown
  <2>1. CASE WritesTo(run[r], v)
    BY <1>5, <2>1 DEF IInv, Spaced, Rested
  <2>2. CASE \E f \in w : Owner[f] = v
    <3>1. v = u /\ ShouldSend(r, u)
      BY <2>2 DEF w
    <3>2. ~(age[u] <= Cooldown) /\ age[u] <= digestAge[u]
      BY <1>5, <3>1 DEF ShouldSend, Recent, IInv, Spaced
    <3>3. age[u] \in Int /\ digestAge[u] \in Int /\ Cooldown \in Int
      BY <1>1, DigestAssumption DEF TypeOK, Long
    <3>4. QED
      BY <3>1, <3>2, <3>3
  <2>3. QED
    BY <1>3, <1>5, <2>1, <2>2 DEF WritesTo
<1>6. r = "scheduled" => Rested(t)
  BY <1>5 DEF Rested
<1>7. fired' \subseteq Runners
  BY <1>1, <1>4 DEF TypeOK
<1>8. QED
  BY <1>3, <1>4, <1>6, <1>7, TickMoves

LEMMA ComposeKeepsIInv ==
  ASSUME IInv, NEW r \in Runners, NEW f \in Filters, Compose(r, f)
  PROVE  IInv'
<1> DEFINE t == Composed(run[r], f)
<1>1. TypeOK /\ run[r] \in Tick /\ f \in run[r].work /\ NewLots(f) \subseteq LotIds
        /\ fired' \subseteq Runners
  <2>1. TypeOK /\ NewLots(f) \subseteq lots
    BY DEF IInv, NewLots
  <2>2. lots \subseteq LotIds
    BY <2>1, DigestAssumption DEF TypeOK, LotIds
  <2>3. QED
    BY <2>1, <2>2 DEF TypeOK, Compose, clock
<1>2. t \in Tick
  BY <1>1, OffIsTick DEF Tick, LogRows, Composed
<1>3. t.inserted \subseteq run[r].inserted
  BY <1>1, OffIsTick DEF Tick, Composed
<1>4. run' = [run EXCEPT ![r] = t] /\ UNCHANGED <<minute, db, history, events>>
  BY <1>1 DEF Compose, TypeOK, clock
<1>5. r = "scheduled" => Rested(t)
  <2>1. SUFFICES ASSUME r = "scheduled", NEW u \in Users, WritesTo(t, u)
                 PROVE  digestAge[u] > Cooldown
    BY DEF Rested
  <2>2. t.work \subseteq run[r].work /\ \A p \in t.added : p[1] = f \/ p \in run[r].added
    BY <1>1, OffIsTick DEF Tick, Composed
  <2>3. WritesTo(run[r], u)
    BY <1>1, <1>3, <2>1, <2>2 DEF WritesTo
  <2>4. QED
    BY <2>1, <2>3 DEF IInv, Spaced, Rested
<1> HIDE DEF t
<1>6. QED
  BY <1>1, <1>2, <1>3, <1>4, <1>5, TickMoves

LEMMA FlushKeepsIInv ==
  ASSUME IInv, NEW r \in Runners, Flush(r)
  PROVE  IInv'
<1> DEFINE t == [run[r] EXCEPT !.inserted = run[r].inserted \cup run[r].added, !.added = {}]
<1>1. TypeOK /\ run[r] \in Tick /\ fired' \subseteq Runners
  BY DEF IInv, TypeOK, Flush, clock
<1>2. t \in Tick /\ t.inserted = run[r].inserted \cup run[r].added /\ t.added = {}
        /\ t.work = run[r].work
  BY <1>1 DEF Tick
<1>3. run' = [run EXCEPT ![r] = t] /\ UNCHANGED <<minute, db, history, events>>
  BY <1>1 DEF Flush, TypeOK, clock
<1> HIDE DEF t
<1>4. \A p \in run[r].added : Insertable(p) /\ p \notin Uncommitted(r)
  BY DEF Flush, Waits
<1>5. r = "scheduled" => Rested(t)
  BY <1>2 DEF IInv, Spaced, Rested, WritesTo
<1>6. QED
  BY <1>1, <1>2, <1>3, <1>4, <1>5, TickMoves

LEMMA AbortKeepsIInv ==
  ASSUME IInv, NEW r \in Runners, Abort(r)
  PROVE  IInv'
<1>1. /\ run' = [run EXCEPT ![r] = Off] /\ fired' \subseteq Runners
      /\ UNCHANGED <<minute, db, history, events>>
  BY DEF Abort, Release, IInv, TypeOK, clock
<1>2. QED
  BY <1>1, OffIsTick, TickMoves DEF Rested

LEMMA CrashKeepsIInv ==
  ASSUME IInv, Crash
  PROVE  IInv'
<1>1. /\ TypeOK /\ events' \in 0..MaxEvents /\ run' = [r \in Runners |-> Off]
      /\ UNCHANGED <<minute, fired, age, linked, filters, lots, nextLot, log, template,
                     told, digestAge>>
  BY DigestAssumption DEF IInv, TypeOK, Crash, Event, clock, db, history
<1>2. TypeOK'
  BY <1>1, OffIsTick DEF TypeOK
<1>3. Told' /\ Held'
  BY <1>1, OffIsTick DEF IInv, Told, Held
<1>4. Spaced'
  BY <1>1, OffIsTick DEF IInv, Spaced, Rested, WritesTo
<1>5. QED
  BY <1>2, <1>3, <1>4 DEF IInv

-----------------------------------------------------------------------------
(***************************************************************************)
(* The commit of a tick.                                                   *)
(***************************************************************************)
LEMMA CommitKeepsIInv ==
  ASSUME IInv, NEW r \in Runners, Commit(r)
  PROVE  IInv'
<1> DEFINE rows == run[r].inserted
<1>1. TypeOK /\ rows \subseteq LogRows
  BY DEF IInv, TypeOK, Tick
<1>2. /\ log' = log \cup rows
      /\ age' = [u \in Users |-> IF u \in Recipients(rows) THEN 0 ELSE age[u]]
      /\ told' = [p \in LogRows |-> told[p] + IF p \in rows THEN 1 ELSE 0]
      /\ digestAge' = [u \in Users |->
           IF r = "scheduled" /\ u \in Recipients(rows) THEN 0 ELSE digestAge[u]]
      /\ run' = [run EXCEPT ![r] = Off]
      /\ UNCHANGED <<minute, fired, linked, filters, lots, nextLot, template, events>>
  BY DEF Commit, clock
<1>3. /\ run' \in [Runners -> Tick] /\ run'[r] = Off
      /\ \A q \in Runners : q # r => run'[q] = run[q]
  BY <1>1, <1>2, OffIsTick DEF TypeOK
<1>4. \A f \in Filters, l \in LotIds : <<f, l>> \in rows =>
        /\ f \in filters /\ l \in lots /\ <<f, l>> \notin log
        /\ \A q \in Runners \ {r} : <<f, l>> \notin run[q].inserted
  BY DEF IInv, Held
<1>5. \A f \in Filters, l \in LotIds : <<f, l>> \in rows =>
        told[<<f, l>>] = 0 /\ told'[<<f, l>>] = 1
  <2>1. SUFFICES ASSUME NEW f \in Filters, NEW l \in LotIds, <<f, l>> \in rows
                 PROVE  told[<<f, l>>] = 0 /\ told'[<<f, l>>] = 1
    OBVIOUS
  <2>2. <<f, l>> \in LogRows /\ told[<<f, l>>] \in Nat
    BY <1>1 DEF TypeOK, LogRows
  <2>3. ~(told[<<f, l>>] > 0)
    BY <1>4, <2>1 DEF IInv, Told
  <2>4. told'[<<f, l>>] = told[<<f, l>>] + 1
    BY <1>2, <2>1, <2>2
  <2>5. QED
    BY <2>2, <2>3, <2>4
<1>6. \A f \in Filters, l \in LotIds : <<f, l>> \notin rows => told'[<<f, l>>] = told[<<f, l>>]
  <2>1. SUFFICES ASSUME NEW f \in Filters, NEW l \in LotIds, <<f, l>> \notin rows
                 PROVE  told'[<<f, l>>] = told[<<f, l>>]
    OBVIOUS
  <2>2. <<f, l>> \in LogRows /\ told[<<f, l>>] \in Nat
    BY <1>1 DEF TypeOK, LogRows
  <2>3. QED
    BY <1>2, <2>1, <2>2
<1>7. TypeOK'
  <2>1. told' \in [LogRows -> Nat]
    BY <1>1, <1>2 DEF TypeOK
  <2>2. age' \in [Users -> 0..Long] /\ digestAge' \in [Users -> 0..Long]
    BY <1>1, <1>2, DigestAssumption DEF TypeOK, Long
  <2>3. log' \subseteq filters' \X lots'
    <3>1. ASSUME NEW p \in rows PROVE p \in filters \X lots
      <4>1. PICK f \in Filters, l \in LotIds : p = <<f, l>>
        BY <1>1, <3>1 DEF LogRows
      <4>2. QED
        BY <1>4, <3>1, <4>1
    <3>2. QED
      BY <1>1, <1>2, <3>1 DEF TypeOK
  <2>4. QED
    BY <1>1, <1>2, <1>3, <2>1, <2>2, <2>3 DEF TypeOK
<1>8. Told'
  <2>1. ASSUME NEW f \in Filters, NEW l \in LotIds
        PROVE  told'[<<f, l>>] <= 1 /\ (l >= nextLot' => told'[<<f, l>>] = 0)
    <3>1. CASE <<f, l>> \in rows
      <4>1. l \in 1..(nextLot - 1) /\ nextLot \in 1..(MaxLots + 1)
        BY <1>1, <1>4, <3>1 DEF TypeOK
      <4>2. ~(l >= nextLot)
        BY <4>1, DigestAssumption
      <4>3. QED
        BY <1>2, <1>5, <3>1, <4>2
    <3>2. CASE <<f, l>> \notin rows
      BY <1>2, <1>6, <3>2 DEF IInv, Told
    <3>3. QED
      BY <3>1, <3>2
  <2>2. ASSUME NEW f \in filters', NEW l \in lots'
        PROVE  <<f, l>> \in log' <=> told'[<<f, l>>] > 0
    <3>1. f \in filters /\ l \in lots /\ f \in Filters /\ l \in LotIds
      BY <1>1, <1>2, <2>2, DigestAssumption DEF TypeOK, LotIds
    <3>2. QED
      BY <1>2, <1>5, <1>6, <3>1 DEF IInv, Told
  <2>3. QED
    BY <2>1, <2>2 DEF Told
<1>9. Held'
  <2>1. SUFFICES ASSUME NEW q \in Runners, NEW f \in Filters, NEW l \in LotIds,
                        <<f, l>> \in run'[q].inserted
                 PROVE  /\ f \in filters' /\ l \in lots' /\ <<f, l>> \notin log'
                        /\ \A s \in Runners \ {q} : <<f, l>> \notin run'[s].inserted
    BY DEF Held
  <2>2. q # r /\ <<f, l>> \in run[q].inserted
    BY <1>3, <2>1, OffIsTick
  <2>3. /\ f \in filters /\ l \in lots /\ <<f, l>> \notin log
        /\ \A s \in Runners \ {q} : <<f, l>> \notin run[s].inserted
    BY <2>2 DEF IInv, Held
  <2>4. QED
    BY <1>2, <1>3, <2>2, <2>3, OffIsTick
<1>10. Spaced'
  <2>1. ASSUME NEW u \in Users PROVE age'[u] <= digestAge'[u]
    <3>1. age[u] <= digestAge[u] /\ age[u] \in 0..Long /\ digestAge[u] \in 0..Long
      BY <1>1 DEF IInv, Spaced, TypeOK
    <3>2. /\ age'[u] = IF u \in Recipients(rows) THEN 0 ELSE age[u]
          /\ digestAge'[u] = IF r = "scheduled" /\ u \in Recipients(rows)
                               THEN 0 ELSE digestAge[u]
      BY <1>2
    <3>3. Long \in Nat
      BY DigestAssumption DEF Long
    <3>4. QED
      BY <3>1, <3>2, <3>3
  <2>2. ASSUME NEW q \in Runners, q = "scheduled", NEW u \in Users, WritesTo(run'[q], u)
        PROVE  digestAge'[u] > Cooldown
    <3>1. q # r
      BY <1>3, <2>2, OffIsTick
    <3>2. digestAge'[u] = digestAge[u]
      BY <1>2, <2>2, <3>1
    <3>3. QED
      BY <1>3, <2>2, <3>1, <3>2 DEF IInv, Spaced, Rested
  <2>3. QED
    BY <2>1, <2>2 DEF Spaced, Rested, WritesTo
<1>11. QED
  BY <1>7, <1>8, <1>9, <1>10 DEF IInv

-----------------------------------------------------------------------------
(***************************************************************************)
(* Time, lots, filters, and what other requests do.                        *)
(***************************************************************************)
LEMMA MinuteKeepsIInv ==
  ASSUME IInv, Minute
  PROVE  IInv'
<1>1. /\ TypeOK /\ minute' = (minute + 1) % Day /\ fired' = {}
      /\ age' = [u \in Users |-> IF age[u] < Long THEN age[u] + 1 ELSE Long]
      /\ digestAge' = [u \in Users |-> IF digestAge[u] < Long THEN digestAge[u] + 1 ELSE Long]
      /\ UNCHANGED <<linked, filters, lots, nextLot, log, template, run, told, events>>
  BY DEF IInv, Minute
<1>2. Long \in Nat /\ Long = Cooldown + 1 /\ Cooldown \in Nat /\ Day \in Nat /\ Day > 0
  BY DigestAssumption DEF Long
<1>3. minute' \in 0..(Day - 1)
  BY <1>1, <1>2 DEF TypeOK
<1>4. age' \in [Users -> 0..Long] /\ digestAge' \in [Users -> 0..Long]
  BY <1>1, <1>2 DEF TypeOK
<1>5. TypeOK'
  BY <1>1, <1>3, <1>4 DEF TypeOK
<1>6. Told' /\ Held'
  BY <1>1 DEF IInv, Told, Held
<1>7. ASSUME NEW u \in Users
      PROVE  age'[u] <= digestAge'[u] /\ digestAge'[u] >= digestAge[u]
  <2>1. age[u] \in 0..Long /\ digestAge[u] \in 0..Long /\ age[u] <= digestAge[u]
    BY <1>1 DEF IInv, Spaced, TypeOK
  <2>2. /\ age'[u] = IF age[u] < Long THEN age[u] + 1 ELSE Long
        /\ digestAge'[u] = IF digestAge[u] < Long THEN digestAge[u] + 1 ELSE Long
    BY <1>1
  <2>3. QED
    BY <1>2, <2>1, <2>2
<1>8. Spaced'
  <2>1. ASSUME NEW r \in Runners, r = "scheduled", NEW u \in Users, WritesTo(run[r], u)
        PROVE  digestAge'[u] > Cooldown
    <3>1. digestAge[u] > Cooldown
      BY <2>1 DEF IInv, Spaced, Rested
    <3>2. digestAge[u] \in 0..Long /\ digestAge'[u] \in 0..Long
      BY <1>1, <1>4 DEF TypeOK
    <3>3. QED
      BY <1>2, <1>7, <3>1, <3>2
  <2>2. QED
    BY <1>1, <1>7, <2>1 DEF Spaced, Rested, WritesTo
<1>9. QED
  BY <1>5, <1>6, <1>8 DEF IInv

LEMMA NewLotKeepsIInv ==
  ASSUME IInv, NewLot
  PROVE  IInv'
<1>1. /\ TypeOK /\ nextLot <= MaxLots /\ lots' = lots \cup {nextLot} /\ nextLot' = nextLot + 1
      /\ UNCHANGED <<minute, fired, age, linked, filters, log, template, run, told,
                     digestAge, events>>
  BY DEF IInv, NewLot, clock, history
<1>2. nextLot \in 1..(MaxLots + 1) /\ MaxLots \in Nat
  BY <1>1, DigestAssumption DEF TypeOK
<1>3. nextLot \in LotIds /\ nextLot \notin lots /\ nextLot' \in 1..(MaxLots + 1)
        /\ lots' \subseteq 1..(nextLot' - 1)
  BY <1>1, <1>2 DEF TypeOK, LotIds
<1>4. log' \subseteq filters' \X lots'
  BY <1>1 DEF TypeOK
<1>5. TypeOK'
  BY <1>1, <1>3, <1>4 DEF TypeOK
<1>6. Told'
  <2>1. \A f \in Filters, l \in LotIds : l >= nextLot' => l >= nextLot
    BY <1>1, <1>2 DEF LotIds
  <2>2. ASSUME NEW f \in filters, NEW l \in lots'
        PROVE  <<f, l>> \in log <=> told[<<f, l>>] > 0
    <3>1. CASE l \in lots
      BY <3>1 DEF IInv, Told
    <3>2. CASE l = nextLot
      <4>1. <<f, l>> \notin log
        BY <1>1, <1>3, <3>2 DEF TypeOK
      <4>2. f \in Filters /\ l \in LotIds /\ l >= nextLot
        BY <1>1, <1>2, <1>3, <3>2 DEF TypeOK
      <4>3. told[<<f, l>>] = 0
        BY <4>2 DEF IInv, Told
      <4>4. QED
        BY <4>1, <4>3
    <3>3. QED
      BY <1>1, <3>1, <3>2
  <2>3. QED
    BY <1>1, <2>1, <2>2 DEF IInv, Told
<1>7. Held'
  BY <1>1 DEF IInv, Held
<1>8. Spaced'
  BY <1>1 DEF IInv, Spaced, Rested, WritesTo
<1>9. QED
  BY <1>5, <1>6, <1>7, <1>8 DEF IInv

LEMMA DeletionKeepsIInv ==
  ASSUME IInv, (\E l \in LotIds : DeleteLot(l)) \/ (\E f \in Filters : DeleteFilter(f))
  PROVE  IInv'
<1>1. TypeOK /\ UNCHANGED <<minute, fired, age, linked, nextLot, template, run, told,
                            digestAge, events>>
  BY DEF IInv, DeleteLot, DeleteFilter, clock, history
<1>2. /\ lots' \subseteq lots /\ filters' \subseteq filters /\ log' \subseteq log
      /\ \A f \in filters', l \in lots' : <<f, l>> \in log' <=> <<f, l>> \in log
  BY DEF DeleteLot, DeleteFilter
<1>3. \A f \in filters, l \in lots : <<f, l>> \in log' => f \in filters' /\ l \in lots'
  BY DEF DeleteLot, DeleteFilter
<1>4. log' \subseteq filters' \X lots'
  <2>1. SUFFICES ASSUME NEW p \in log' PROVE p \in filters' \X lots'
    OBVIOUS
  <2>2. p \in filters \X lots
    BY <1>1, <1>2 DEF TypeOK
  <2>3. PICK f \in filters, l \in lots : p = <<f, l>>
    BY <2>2
  <2>4. QED
    BY <1>3, <2>1, <2>3
<1>5. TypeOK'
  BY <1>1, <1>2, <1>4 DEF TypeOK
<1>6. Told'
  BY <1>1, <1>2 DEF IInv, Told
<1>7. Held'
  <2>1. SUFFICES ASSUME NEW r \in Runners, NEW f \in Filters, NEW l \in LotIds,
                        <<f, l>> \in run[r].inserted
                 PROVE  /\ f \in filters' /\ l \in lots' /\ <<f, l>> \notin log'
                        /\ \A q \in Runners \ {r} : <<f, l>> \notin run[q].inserted
    BY <1>1 DEF Held
  <2>2. /\ f \in filters /\ l \in lots /\ <<f, l>> \notin log
        /\ \A q \in Runners \ {r} : <<f, l>> \notin run[q].inserted
    BY <2>1 DEF IInv, Held
  <2>3. <<f, l>> \in Locked
    BY <2>1 DEF Locked
  <2>4. f \in filters' /\ l \in lots'
    BY <2>2, <2>3 DEF DeleteLot, DeleteFilter
  <2>5. QED
    BY <1>2, <2>2, <2>4
<1>8. Spaced'
  BY <1>1 DEF IInv, Spaced, Rested, WritesTo
<1>9. QED
  BY <1>5, <1>6, <1>7, <1>8 DEF IInv

LEMMA EventKeepsIInv ==
  ASSUME IInv,
         \/ \E u \in Users : OtherMessage(u) \/ ToggleLink(u)
         \/ \E t \in Templates : SetTemplate(t)
  PROVE  IInv'
<1>1. /\ TypeOK /\ events' \in 0..MaxEvents
      /\ UNCHANGED <<minute, fired, filters, lots, nextLot, log, run, told, digestAge>>
  BY DigestAssumption
     DEF IInv, TypeOK, OtherMessage, ToggleLink, SetTemplate, Event, clock, history
<1>2. linked' \subseteq Users
  BY <1>1 DEF TypeOK, OtherMessage, ToggleLink, SetTemplate
<1>3. template' \in Templates \cup {"named"}
  BY <1>1 DEF TypeOK, OtherMessage, ToggleLink, SetTemplate
<1>4. 0 \in 0..Long
  BY DigestAssumption DEF Long
<1>5. age' = age \/ \E u \in Users : age' = [age EXCEPT ![u] = 0]
  BY DEF OtherMessage, ToggleLink, SetTemplate
<1>6. age' \in [Users -> 0..Long] /\ \A u \in Users : age'[u] <= digestAge[u]
  <2>1. \A u \in Users : age[u] <= digestAge[u] /\ 0 <= digestAge[u]
    BY <1>1, DigestAssumption DEF IInv, Spaced, TypeOK, Long
  <2>2. QED
    BY <1>1, <1>4, <1>5, <2>1 DEF TypeOK
<1>7. TypeOK'
  BY <1>1, <1>2, <1>3, <1>6 DEF TypeOK
<1>8. Told' /\ Held'
  BY <1>1 DEF IInv, Told, Held
<1>9. Spaced'
  BY <1>1, <1>6 DEF IInv, Spaced, Rested, WritesTo
<1>10. QED
  BY <1>7, <1>8, <1>9 DEF IInv

-----------------------------------------------------------------------------
LEMMA InitIInv == Init => IInv
<1>1. SUFFICES ASSUME Init PROVE IInv
  OBVIOUS
<1>2. Long \in Nat /\ Cooldown \in Nat /\ Long > Cooldown /\ 0 \in 0..(Day - 1)
        /\ 1 \in 1..(MaxLots + 1) /\ 0 \in 0..MaxEvents
  BY DigestAssumption DEF Long
<1>3. TypeOK
  BY <1>1, <1>2, OffIsTick DEF Init, TypeOK
<1>4. Told
  BY <1>1 DEF Init, Told, LogRows
<1>5. Held
  BY <1>1, OffIsTick DEF Init, Held
<1>6. Spaced
  BY <1>1, <1>2, OffIsTick DEF Init, Spaced, Rested
<1>7. QED
  BY <1>3, <1>4, <1>5, <1>6 DEF IInv

LEMMA NextKeepsIInv == IInv /\ [Next]_vars => IInv'
<1>1. SUFFICES ASSUME IInv, [Next]_vars PROVE IInv'
  OBVIOUS
<1>2. ASSUME NEW r \in Runners,
             \/ Start(r) \/ Flush(r) \/ Commit(r) \/ Abort(r)
             \/ \E u \in Users : Consider(r, u)
             \/ \E f \in Filters : Compose(r, f)
      PROVE  IInv'
  BY <1>1, <1>2, StartKeepsIInv, FlushKeepsIInv, CommitKeepsIInv, AbortKeepsIInv,
     ConsiderKeepsIInv, ComposeKeepsIInv
<1>3. CASE Minute \/ NewLot \/ Crash
  BY <1>1, <1>3, MinuteKeepsIInv, NewLotKeepsIInv, CrashKeepsIInv
<1>4. CASE (\E l \in LotIds : DeleteLot(l)) \/ (\E f \in Filters : DeleteFilter(f))
  BY <1>1, <1>4, DeletionKeepsIInv
<1>5. CASE \/ \E u \in Users : OtherMessage(u) \/ ToggleLink(u)
           \/ \E t \in Templates : SetTemplate(t)
  BY <1>1, <1>5, EventKeepsIInv
<1>6. CASE UNCHANGED vars
  <2>1. UNCHANGED <<minute, fired, age, linked, filters, lots, nextLot, log, template,
                    run, told, digestAge, events>>
    BY <1>6 DEF vars
  <2>2. TypeOK' /\ Told' /\ Held'
    BY <1>1, <2>1 DEF IInv, TypeOK, Told, Held
  <2>3. Spaced'
    BY <1>1, <2>1 DEF IInv, Spaced, Rested, WritesTo
  <2>4. QED
    BY <2>2, <2>3 DEF IInv
<1>7. QED
  BY <1>1, <1>2, <1>3, <1>4, <1>5, <1>6 DEF Next

LEMMA Invariance == Spec => []IInv
BY InitIInv, NextKeepsIInv, PTL DEF Spec

\* Columns, ticks and clocks keep to their values (digest_service.py).
THEOREM TypeCorrect == Spec => []TypeOK
<1>1. IInv => TypeOK
  BY DEF IInv
<1>2. QED
  BY <1>1, Invariance, PTL

\* Nobody reads of a lot twice, however ticks, deletions and restarts
\* interleave (digest_service.py: the log rows go with the messages).
THEOREM NoLotIsToldTwice == Spec => []ToldOnce
<1>1. IInv => ToldOnce
  BY DEF IInv, Told, ToldOnce
<1>2. QED
  BY <1>1, Invariance, PTL

\* Nobody is told of a lot or by a filter that is gone when the message is
\* committed (digest_service.py: tick; foreign keys of notification_log).
THEOREM MessagesAreOfCurrentRows == Spec => MessagesAreCurrent
<1> DEFINE Current == \A p \in LogRows : told'[p] > told[p] => p[1] \in filters /\ p[2] \in lots
<1>1. IInv /\ [Next]_vars => [Current]_vars
  <2>1. SUFFICES ASSUME IInv, Next, NEW p \in LogRows, told'[p] > told[p]
                 PROVE  p[1] \in filters /\ p[2] \in lots
    OBVIOUS
  <2>2. told[p] \in Nat
    BY <2>1 DEF IInv, TypeOK
  <2>3. told' # told
    BY <2>1, <2>2
  <2>4. PICK r \in Runners : Commit(r)
    BY <2>1, <2>3 DEF Next, Start, Consider, Compose, Flush, Abort, Minute, NewLot, DeleteLot,
       DeleteFilter, OtherMessage, ToggleLink, SetTemplate, Crash, history
  <2>5. told' = [w \in LogRows |-> told[w] + IF w \in run[r].inserted THEN 1 ELSE 0]
    BY <2>4 DEF Commit
  <2>6. p \in run[r].inserted
    BY <2>1, <2>2, <2>5
  <2>7. PICK f \in Filters, l \in LotIds : p = <<f, l>>
    BY DEF LogRows
  <2>8. QED
    BY <2>1, <2>6, <2>7 DEF IInv, Held
<1>2. QED
  BY <1>1, Invariance, PTL DEF Spec, MessagesAreCurrent

\* The scheduler's digests to a user are 23 hours apart, even if an
\* administrator forces others between them (digest_service.py: _should_send).
THEOREM DigestsAreSpaced == Spec => ScheduledSpaced
<1> DEFINE Apart == \A u \in Users : digestAge'[u] = 0 /\ digestAge[u] # 0
                      => digestAge[u] > Cooldown
<1>1. IInv /\ [Next]_vars => [Apart]_digestAge
  <2>1. SUFFICES ASSUME IInv, Next \/ UNCHANGED vars, digestAge' # digestAge, NEW u \in Users,
                        digestAge'[u] = 0, digestAge[u] # 0
                 PROVE  digestAge[u] > Cooldown
    OBVIOUS
  <2>2. TypeOK
    BY <2>1 DEF IInv
  <2>3. Minute \/ \E r \in Runners : Commit(r)
    BY <2>1 DEF Next, vars, Start, Consider, Compose, Flush, Abort, NewLot, DeleteLot,
       DeleteFilter, OtherMessage, ToggleLink, SetTemplate, Crash, history
  <2>4. ~Minute
    <3>1. digestAge[u] \in 0..Long /\ Long \in Nat /\ Long > 0
      BY <2>2, DigestAssumption DEF TypeOK, Long
    <3>2. Minute => digestAge'[u] = IF digestAge[u] < Long THEN digestAge[u] + 1 ELSE Long
      BY DEF Minute
    <3>3. QED
      BY <2>1, <3>1, <3>2
  <2>5. PICK r \in Runners : Commit(r)
    BY <2>3, <2>4
  <2>6. r = "scheduled" /\ u \in Recipients(run[r].inserted)
    BY <2>1, <2>5 DEF Commit
  <2>7. WritesTo(run[r], u)
    <3>1. PICK p \in run[r].inserted : u = Owner[p[1]]
      BY <2>6 DEF Recipients
    <3>2. p \in LogRows
      BY <2>2, <3>1 DEF TypeOK, Tick
    <3>3. PICK f \in Filters, l \in LotIds : p = <<f, l>>
      BY <3>2 DEF LogRows
    <3>4. QED
      BY <3>1, <3>3 DEF WritesTo
  <2>8. QED
    BY <2>1, <2>6, <2>7 DEF IInv, Spaced, Rested
<1>2. QED
  BY <1>1, Invariance, PTL DEF Spec, ScheduledSpaced
-----------------------------------------------------------------------------
(***************************************************************************)
(* Counting down: n numbers, compared from the first to the last.          *)
(***************************************************************************)
Countdown(n) == LexProductOrdering(OpToRel(<, Nat), Nat, n)

\* A smaller number after equal ones is a step down.
LEMMA StepDown ==
  ASSUME NEW n \in Nat, NEW p \in [1..n -> Nat], NEW q \in [1..n -> Nat], NEW j \in 1..n,
         \A i \in 1..j - 1 : p[i] = q[i], p[j] < q[j]
  PROVE  <<p, q>> \in Countdown(n)
<1> DEFINE R == OpToRel(<, Nat)
<1>1. <<p[j], q[j]>> \in R
  BY DEF OpToRel
<1> HIDE DEF R
<1>2. <<p, q>> \in LexProductOrdering(R, Nat, n)
  BY <1>1 DEF LexProductOrdering
<1> QED
  BY <1>2 DEF R, Countdown

LEMMA NoInfiniteDescent ==
  ASSUME NEW n \in Nat
  PROVE  IsWellFoundedOn(Countdown(n), [1..n -> Nat])
<1> DEFINE R == OpToRel(<, Nat)
<1>1. IsWellFoundedOn(R, Nat)
  BY NatLessThanWellFounded
<1> HIDE DEF R
<1>2. IsWellFoundedOn(LexProductOrdering(R, Nat, n), [1..n -> Nat])
  BY <1>1, WFLexProductOrdering
<1> QED
  BY <1>2 DEF R, Countdown

-----------------------------------------------------------------------------
(***************************************************************************)
(* Ticks wait for each other's rows, but never all of them for ever.       *)
(***************************************************************************)
\* A tick that is not in progress holds nothing.
Blank == \A r \in Runners : ~run[r].on => run[r] = Off

\* One of the conditions under which Progress(r) takes a step.
MayMove(r) ==
  \/ \E u \in Users : Idle(r) /\ u \in run[r].todo
  \/ \E f \in Filters : Flushed(r) /\ f \in run[r].work
  \/ run[r].added # {} /\ ~Waits(r) /\ \A p \in run[r].added : Insertable(p)
  \/ Idle(r) /\ run[r].todo = {}
  \/ /\ run[r].added # {}
     /\ IF Waits(r) THEN \E q \in Runners \ {r} : Waits(q)
                    ELSE \E p \in run[r].added : ~Insertable(p)

LEMMA BlankSteps == TypeOK /\ Blank /\ [Next]_vars => Blank'
<1> SUFFICES ASSUME TypeOK, Blank, [Next]_vars, NEW r \in Runners, ~run'[r].on
             PROVE  run'[r] = Off
  BY DEF Blank
<1> USE DEF TypeOK
<1>1. ~run[r].on => run[r] = Off
  BY DEF Blank
<1>2. run[r] \in Tick /\ run \in [Runners -> Tick]
  OBVIOUS
<1>3. CASE \E q \in Runners : Start(q)
  <2>1. PICK q \in Runners : Start(q)
    BY <1>3
  <2>2. q = r => run'[r].on
    BY <1>2, <2>1 DEF Start, Off
  <2> QED
    BY <1>1, <1>2, <2>1, <2>2 DEF Start
<1>4. CASE \E q \in Runners : Progress(q)
  <2>1. PICK q \in Runners : Progress(q)
    BY <1>4
  <2>2. q # r => run'[r] = run[r]
    BY <1>2, <2>1 DEF Progress, Consider, Compose, Flush, Commit, Abort, Release
  <2>3. CASE q = r /\ run[r].on
    <3>1. CASE \E u \in Users : Consider(r, u)
      BY <1>2, <2>3, <3>1 DEF Consider, Tick
    <3>2. CASE \E f \in Filters : Compose(r, f)
      <4>1. PICK f \in Filters : run'[r] = Composed(run[r], f)
        BY <1>2, <3>2 DEF Compose
      <4>2. Composed(run[r], f) = Off \/ Composed(run[r], f).on = run[r].on
        BY <1>2 DEF Composed, Tick
      <4> QED
        BY <2>3, <4>1, <4>2
    <3>3. CASE Flush(r)
      BY <1>2, <2>3, <3>3 DEF Flush, Tick
    <3>4. CASE Commit(r) \/ Abort(r)
      BY <1>2, <3>4 DEF Commit, Abort, Release
    <3> QED
      BY <2>1, <2>3, <3>1, <3>2, <3>3, <3>4 DEF Progress
  <2>4. CASE q = r /\ ~run[r].on
    BY <1>1, <1>2, <2>1, <2>4 DEF Progress, Consider, Compose, Flush, Commit, Abort, Idle,
       Flushed, Off
  <2> QED
    BY <1>1, <2>2, <2>3, <2>4
<1>5. CASE Crash
  BY <1>5 DEF Crash
<1>6. CASE UNCHANGED run
  BY <1>1, <1>6
<1>7. (\E q \in Runners : Start(q) \/ Progress(q)) \/ Crash \/ UNCHANGED run
  BY DEF Next, Progress, Minute, NewLot, DeleteLot, DeleteFilter, OtherMessage, ToggleLink,
     SetTemplate, vars
<1> QED
  BY <1>3, <1>4, <1>5, <1>6, <1>7

\* Whoever does not wait may move.
LEMMA Free == ASSUME TypeOK, NEW r \in Runners, run[r].on, ~Waits(r) PROVE MayMove(r)
<1>1. run[r].todo \subseteq Users /\ run[r].work \subseteq Filters
  BY DEF TypeOK, Tick
<1>2. CASE run[r].added # {}
  BY <1>2 DEF MayMove
<1>3. CASE run[r].added = {} /\ run[r].work # {}
  BY <1>1, <1>3 DEF MayMove, Flushed
<1>4. CASE run[r].added = {} /\ run[r].work = {}
  BY <1>1, <1>4 DEF MayMove, Flushed, Idle
<1> QED
  BY <1>2, <1>3, <1>4

\* As long as a tick is in progress, one of the ticks may go on: a tick waits
\* only for rows another one has inserted, so the other is still in progress,
\* and two that wait for each other are told apart by the database.
THEOREM TicksNeverAllWait ==
  Spec => []((\E r \in Runners : run[r].on) => \E r \in Runners : MayMove(r))
<1>1. Init => Blank
  BY DEF Init, Blank
<1>2. IInv => TypeOK
  BY DEF IInv
<1>3. TypeOK /\ Blank => ((\E r \in Runners : run[r].on) => \E r \in Runners : MayMove(r))
  <2> SUFFICES ASSUME TypeOK, Blank, NEW r \in Runners, run[r].on
               PROVE  \E q \in Runners : MayMove(q)
    OBVIOUS
  <2>1. CASE ~Waits(r)
    BY <2>1, Free
  <2>2. CASE Waits(r)
    <3>1. PICK q \in Runners \ {r} : run[q].inserted # {}
      BY <2>2 DEF Waits, Uncommitted
    <3>2. run[q].on
      BY <3>1 DEF Blank, Off
    <3>3. CASE ~Waits(q)
      BY <3>2, <3>3, Free
    <3>4. CASE Waits(q)
      <4>1. run[r].added # {}
        BY <2>2 DEF Waits
      <4> QED
        BY <2>2, <3>4, <4>1 DEF MayMove
    <3> QED
      BY <3>3, <3>4
  <2> QED
    BY <2>1, <2>2
<1> QED
  BY <1>1, <1>2, <1>3, Invariance, BlankSteps, PTL DEF Spec

-----------------------------------------------------------------------------
(***************************************************************************)
(* Every tick comes to its end: users to consider, filters to read, and    *)
(* rows to insert become fewer, in this order.                             *)
(***************************************************************************)
TickLeft(t) ==
  <<IF t.on THEN 1 ELSE 0, Cardinality(t.todo), Cardinality(t.work),
    IF t.added = {} THEN 0 ELSE 1>>

LEMMA TickLeftType == ASSUME NEW t \in Tick PROVE TickLeft(t) \in [1..4 -> Nat]
<1>1. IsFiniteSet(t.todo) /\ IsFiniteSet(t.work)
  BY DigestAssumption, FS_Subset DEF Tick
<1>2. Cardinality(t.todo) \in Nat /\ Cardinality(t.work) \in Nat
  BY <1>1, FS_CardinalityType
<1> QED
  BY <1>2 DEF TickLeft

\* What makes less of a tick's work.
LEMMA LessLeft ==
  ASSUME NEW t \in Tick, NEW s \in Tick, t.on,
         \/ ~s.on
         \/ s.on /\ \E u \in t.todo : s.todo = t.todo \ {u}
         \/ s.on /\ s.todo = t.todo /\ \E f \in t.work : s.work = t.work \ {f}
         \/ s.on /\ s.todo = t.todo /\ s.work = t.work /\ s.added = {} /\ t.added # {}
  PROVE  <<TickLeft(s), TickLeft(t)>> \in Countdown(4)
<1> DEFINE p == TickLeft(s)  q == TickLeft(t)
<1>1. p \in [1..4 -> Nat] /\ q \in [1..4 -> Nat]
  BY TickLeftType
<1>2. /\ p[1] = (IF s.on THEN 1 ELSE 0) /\ p[2] = Cardinality(s.todo)
      /\ p[3] = Cardinality(s.work) /\ p[4] = (IF s.added = {} THEN 0 ELSE 1)
  BY DEF TickLeft
<1>3. /\ q[1] = (IF t.on THEN 1 ELSE 0) /\ q[2] = Cardinality(t.todo)
      /\ q[3] = Cardinality(t.work) /\ q[4] = (IF t.added = {} THEN 0 ELSE 1)
  BY DEF TickLeft
<1>4. IsFiniteSet(t.todo) /\ IsFiniteSet(t.work)
  BY DigestAssumption, FS_Subset DEF Tick
<1> HIDE DEF p, q
<1>5. \E j \in 1..4 : (\A i \in 1..j - 1 : p[i] = q[i]) /\ p[j] < q[j]
  <2>1. CASE ~s.on
    <3>1. p[1] < q[1]
      BY <1>2, <1>3, <2>1
    <3> QED
      BY <3>1
  <2>2. CASE s.on /\ \E u \in t.todo : s.todo = t.todo \ {u}
    <3>1. PICK u \in t.todo : s.todo = t.todo \ {u}
      BY <2>2
    <3>2. Cardinality(s.todo) = Cardinality(t.todo) - 1
      BY <1>4, <3>1, FS_RemoveElement
    <3>3. p[1] = q[1] /\ p[2] < q[2]
      BY <1>1, <1>2, <1>3, <2>2, <3>2
    <3> QED
      BY <3>3
  <2>3. CASE s.on /\ s.todo = t.todo /\ \E f \in t.work : s.work = t.work \ {f}
    <3>1. PICK f \in t.work : s.work = t.work \ {f}
      BY <2>3
    <3>2. Cardinality(s.work) = Cardinality(t.work) - 1
      BY <1>4, <3>1, FS_RemoveElement
    <3>3. p[1] = q[1] /\ p[2] = q[2] /\ p[3] < q[3]
      BY <1>1, <1>2, <1>3, <2>3, <3>2
    <3> QED
      BY <3>3
  <2>4. CASE s.on /\ s.todo = t.todo /\ s.work = t.work /\ s.added = {} /\ t.added # {}
    <3>1. p[1] = q[1] /\ p[2] = q[2] /\ p[3] = q[3] /\ p[4] < q[4]
      BY <1>2, <1>3, <2>4
    <3> QED
      BY <3>1
  <2> QED
    BY <2>1, <2>2, <2>3, <2>4
<1>6. <<p, q>> \in Countdown(4)
  BY <1>1, <1>5, StepDown
<1> QED
  BY <1>6 DEF p, q

\* With each of its steps a tick has less to do, in an order without infinite
\* descent, and nothing that others do gives it more: no tick goes on for ever.
THEOREM TicksCountDown ==
  /\ IsWellFoundedOn(Countdown(4), [1..4 -> Nat])
  /\ Spec => [][\A r \in Runners : run[r].on =>
                  /\ Progress(r) => <<TickLeft(run'[r]), TickLeft(run[r])>> \in Countdown(4)
                  /\ run'[r] # run[r] =>
                       <<TickLeft(run'[r]), TickLeft(run[r])>> \in Countdown(4)]_vars
<1>1. ASSUME TypeOK, TypeOK', NEW r \in Runners, run[r].on, Progress(r)
      PROVE  <<TickLeft(run'[r]), TickLeft(run[r])>> \in Countdown(4)
  <2>1. run[r] \in Tick /\ run'[r] \in Tick /\ run \in [Runners -> Tick] /\ ~Off.on
    BY <1>1 DEF TypeOK, Off
  <2>2. CASE \E u \in Users : Consider(r, u)
    <3>1. PICK u \in Users : Consider(r, u)
      BY <2>2
    <3>2. u \in run[r].todo /\ run'[r].on = run[r].on /\ run'[r].todo = run[r].todo \ {u}
      BY <2>1, <3>1 DEF Consider, Tick
    <3> QED
      BY <1>1, <2>1, <3>2, LessLeft
  <2>3. CASE \E f \in Filters : Compose(r, f)
    <3>1. PICK f \in Filters : Compose(r, f)
      BY <2>3
    <3>2. f \in run[r].work /\ run'[r] = Composed(run[r], f)
      BY <2>1, <3>1 DEF Compose
    <3>3. \/ run'[r] = Off
          \/ /\ run'[r].on = run[r].on /\ run'[r].todo = run[r].todo
             /\ run'[r].work = run[r].work \ {f}
      BY <2>1, <3>2 DEF Composed, Tick
    <3> QED
      BY <1>1, <2>1, <3>2, <3>3, LessLeft
  <2>4. CASE Flush(r)
    <3>1. /\ run[r].added # {} /\ run'[r].on = run[r].on /\ run'[r].todo = run[r].todo
          /\ run'[r].work = run[r].work /\ run'[r].added = {}
      BY <2>1, <2>4 DEF Flush, Tick
    <3> QED
      BY <1>1, <2>1, <3>1, LessLeft
  <2>5. CASE Commit(r) \/ Abort(r)
    <3>1. run'[r] = Off
      BY <2>1, <2>5 DEF Commit, Abort, Release
    <3> QED
      BY <1>1, <2>1, <3>1, LessLeft
  <2> QED
    BY <1>1, <2>2, <2>3, <2>4, <2>5 DEF Progress
<1>2. ASSUME TypeOK, TypeOK', Next, NEW r \in Runners, run[r].on, run'[r] # run[r]
      PROVE  <<TickLeft(run'[r]), TickLeft(run[r])>> \in Countdown(4)
  <2>1. run[r] \in Tick /\ run'[r] \in Tick /\ run \in [Runners -> Tick] /\ ~Off.on
    BY <1>2 DEF TypeOK, Off
  <2>2. Progress(r) \/ run'[r] = Off
    BY <1>2, <2>1 DEF Next, Progress, Start, Consider, Compose, Flush, Commit, Abort, Release,
       Minute, NewLot, DeleteLot, DeleteFilter, OtherMessage, ToggleLink, SetTemplate, Crash
  <2> QED
    BY <1>1, <1>2, <2>1, <2>2, LessLeft
<1>3. TypeOK /\ TypeOK' /\ [Next]_vars =>
        [\A r \in Runners : run[r].on =>
           /\ Progress(r) => <<TickLeft(run'[r]), TickLeft(run[r])>> \in Countdown(4)
           /\ run'[r] # run[r] =>
                <<TickLeft(run'[r]), TickLeft(run[r])>> \in Countdown(4)]_vars
  BY <1>1, <1>2
<1>4. Spec => [][\A r \in Runners : run[r].on =>
                   /\ Progress(r) => <<TickLeft(run'[r]), TickLeft(run[r])>> \in Countdown(4)
                   /\ run'[r] # run[r] =>
                        <<TickLeft(run'[r]), TickLeft(run[r])>> \in Countdown(4)]_vars
  BY <1>3, TypeCorrect, PTL DEF Spec
<1> QED
  BY <1>4, NoInfiniteDescent, Zenon

-----------------------------------------------------------------------------
(***************************************************************************)
(* Sources: a scan has yielded, or will from the page at hand, every lot   *)
(* that stands before the end of that page and was there at the start;     *)
(* what is published meanwhile only pushes those lots further back.        *)
(***************************************************************************)
Size == Served[kind]

\* The site only grew, at its front.
Placed ==
  /\ Len(Initial) <= Len(site)
  /\ \A k \in 1..Len(Initial) : site[Len(site) - Len(Initial) + k] = Initial[k]

\* Lot x of item i is still to come on the page at hand.
Coming(i, x) == \E j \in 1..Len(todo) : todo[j] = i /\ (j = 1 => x >= nth)
Caught(i) ==
  Good(i) => \A x \in 1..LotCount(i) : <<i, x>> \in Range(got) \/ Coming(i, x)

\* What the first positions of the site show was caught.
Covered(upto) ==
  \A k \in 1..Len(Initial) :
    Len(site) - Len(Initial) + k <= upto => Caught(Initial[k])

\* The loop over the lots of an item starts at its first.
Begun == nth # 1 => todo # <<>> /\ ~NoMessage
Unreported ==
  /\ at = "fetch" => todo = <<>>
  /\ at \in {"fetch", "page"} => ~telemetry.full /\ attempt < 3
CaughtUp ==
  ~withdrawn /\ ~odd =>
    /\ Placed
    /\ at = "fetch" => Covered(page * Size)
    /\ at = "page" => Covered(page * Size + Size)
    /\ at = "page" /\ isLast => \A k \in 1..Len(Initial) : Caught(Initial[k])

ScanIInv == ScanTypeOK /\ Begun /\ Unreported /\ CaughtUp /\ FullScanIsComplete

-----------------------------------------------------------------------------
LEMMA Sizes ==
  ASSUME ScanTypeOK
  PROVE  /\ Size \in Nat \ {0} /\ Size <= PageSize
         /\ kind = "efrsb" => Size = PageSize
         /\ page * Size \in Nat /\ (page + 1) * Size = page * Size + Size
<1>1. Size \in 1..PageSize /\ PageSize \in Nat
  BY SourcesAssumption DEF ScanTypeOK, Size
<1>2. page \in Nat /\ Size \in Nat
  BY <1>1 DEF ScanTypeOK
<1>3. page * Size \in Nat /\ (page + 1) * Size = page * Size + Size
  BY <1>2
<1> QED
  BY <1>1, <1>3, SourcesAssumption DEF Size

\* A page: the lots of the site from its position on.
LEMMA Contents ==
  ASSUME ScanTypeOK
  PROVE  /\ Content(page) \in Seq(Items)
         /\ Content(page) # <<>> =>
              /\ page * Size < Len(site)
              /\ Len(Content(page)) = Least(page * Size + Size, Len(site)) - page * Size
         /\ \A p \in 1..Len(site) :
              page * Size < p /\ p <= page * Size + Size =>
                /\ p - page * Size \in 1..Len(Content(page))
                /\ Content(page)[p - page * Size] = site[p]
<1> DEFINE from == page * Size  upto == Least(from + Size, Len(site))
<1>1. from \in Nat /\ Size \in Nat \ {0} /\ (page + 1) * Size = from + Size
  BY Sizes
<1>2. Content(page) = SubSeq(site, from + 1, upto)
  BY <1>1 DEF Content, Size
<1> HIDE DEF from
<1>3. site \in Seq(Items) /\ Len(site) \in Nat
  BY DEF ScanTypeOK
<1>4. from + 1 \in Int /\ upto \in Int /\ upto <= Len(site) /\ upto <= from + Size
  BY <1>1, <1>3 DEF Least
<1>5. \A q \in from + 1..upto : site[q] \in Items
  BY <1>1, <1>3, <1>4, ElementOfSeq
<1> HIDE DEF upto
<1> DEFINE cut == SubSeq(site, from + 1, upto)
<1>6. /\ cut \in Seq(Items)
      /\ Len(cut) = IF from + 1 <= upto THEN upto - (from + 1) + 1 ELSE 0
      /\ \A q \in 1..upto - (from + 1) + 1 : cut[q] = site[from + 1 + q - 1]
  BY <1>4, <1>5, SubSeqProperties
<1> HIDE DEF cut
<1>7. Content(page) = cut
  BY <1>2 DEF cut
<1>8. /\ Content(page) \in Seq(Items)
      /\ Len(Content(page)) = IF from + 1 <= upto THEN upto - (from + 1) + 1 ELSE 0
      /\ \A q \in 1..upto - (from + 1) + 1 : Content(page)[q] = site[from + 1 + q - 1]
  BY <1>6, <1>7
<1>9. Content(page) # <<>> => from + 1 <= upto
  BY <1>1, <1>4, <1>8
<1>10. Content(page) # <<>> => from < Len(site) /\ Len(Content(page)) = upto - from
  BY <1>1, <1>3, <1>4, <1>8, <1>9
<1>11. ASSUME NEW p \in 1..Len(site), from < p, p <= from + Size
      PROVE  p - from \in 1..Len(Content(page)) /\ Content(page)[p - from] = site[p]
  <2>1. p <= upto
    BY <1>1, <1>3, <1>11 DEF upto, Least
  <2>2. PICK q \in Nat : q = p - from
    BY <1>1, <1>3, <1>11
  <2>3. q \in 1..upto - (from + 1) + 1 /\ from + 1 + q - 1 = p /\ from + 1 <= upto
    BY <1>1, <1>3, <1>4, <1>11, <2>1, <2>2
  <2>4. Content(page)[q] = site[p]
    BY <1>8, <2>3
  <2>5. q \in 1..Len(Content(page))
    BY <1>1, <1>4, <1>8, <2>3
  <2> QED
    BY <2>2, <2>4, <2>5
<1> USE DEF from, upto
<1>12. Content(page) # <<>> =>
         /\ page * Size < Len(site)
         /\ Len(Content(page)) = Least(page * Size + Size, Len(site)) - page * Size
  BY <1>10, Zenon
<1>13. \A p \in 1..Len(site) :
         page * Size < p /\ p <= page * Size + Size =>
           /\ p - page * Size \in 1..Len(Content(page))
           /\ Content(page)[p - page * Size] = site[p]
  BY <1>11, Zenon
<1> QED
  BY <1>8, <1>12, <1>13, Zenon

LEMMA Counts ==
  ASSUME ScanTypeOK, NEW i \in Items
  PROVE  LotCount(i) \in Nat \ {0}
BY SourcesAssumption DEF LotCount

\* What is reported is a telemetry.
LEMMA Reports ==
  ASSUME NEW yielded \in Nat, NEW complete \in BOOLEAN, pages' \in Nat, skipped' \in Nat,
         Report(yielded, complete)
  PROVE  /\ telemetry' \in [pages : Nat, yielded : Nat, skipped : Nat, full : BOOLEAN]
         /\ telemetry'.full => complete
<1>1. (complete /\ limit = NoLimit) \in BOOLEAN
  BY Zenon
<1>2. PICK b \in BOOLEAN : b = (complete /\ limit = NoLimit)
  BY <1>1, Zenon
<1>3. telemetry' = [pages |-> pages', yielded |-> yielded, skipped |-> skipped', full |-> b]
  BY <1>2, Zenon DEF Report
<1>4. telemetry' \in [pages : Nat, yielded : Nat, skipped : Nat, full : BOOLEAN]
  BY <1>3
<1>5. telemetry'.full = b
  BY <1>3
<1>6. b => complete
  BY <1>2, Zenon
<1> QED
  BY <1>4, <1>5, <1>6

\* With nothing left of the page, what was caught is yielded.
LEMMA Emptied ==
  ASSUME todo = <<>>, NEW i, Caught(i), Good(i), NEW x \in 1..LotCount(i)
  PROVE  <<i, x>> \in Range(got)
BY DEF Caught, Coming

-----------------------------------------------------------------------------
LEMMA ScanInitial == ScanInit => ScanIInv
<1> SUFFICES ASSUME ScanInit PROVE ScanIInv
  OBVIOUS
<1>1. ScanTypeOK
  <2>1. site \in Seq(Items) /\ limit \in Limits /\ todo \in Seq(Items) /\ attempt \in 0..3
    BY SourcesAssumption DEF ScanInit
  <2>2. got \in Seq(Items \X (Nat \ {0}))
    BY DEF ScanInit
  <2>3. telemetry \in [pages : Nat, yielded : Nat, skipped : Nat, full : BOOLEAN]
    BY DEF ScanInit, Nothing
  <2>4. isLast \in BOOLEAN /\ withdrawn \in BOOLEAN /\ odd \in BOOLEAN
    BY DEF ScanInit
  <2>5. /\ page \in Nat /\ nth \in Nat \ {0} /\ skipped \in Nat /\ pages \in Nat
        /\ changes \in Nat /\ errors \in Nat /\ kind \in Kinds
        /\ at \in {"fetch", "page", "done", "failed"}
    BY DEF ScanInit
  <2> QED
    BY <2>1, <2>2, <2>3, <2>4, <2>5, Zenon DEF ScanTypeOK
<1>2. Begun /\ Unreported /\ FullScanIsComplete
  <2>1. ~telemetry.full /\ attempt < 3
    BY DEF ScanInit, Nothing
  <2> QED
    BY <2>1 DEF ScanInit, Begun, Unreported, FullScanIsComplete
<1>3. CaughtUp
  <2>1. Len(Initial) \in Nat /\ Len(site) = Len(Initial)
    BY SourcesAssumption DEF ScanInit
  <2>2. Placed
    BY <2>1 DEF Placed, ScanInit
  <2>3. page * Size = 0
    <3>1. Size \in Nat /\ page = 0
      BY <1>1, Sizes DEF ScanInit
    <3> QED
      BY <3>1
  <2>4. Covered(page * Size)
    BY <2>1, <2>3 DEF Covered
  <2> QED
    BY <2>2, <2>4 DEF CaughtUp, ScanInit
<1> QED
  BY <1>1, <1>2, <1>3 DEF ScanIInv

\* A page is received, whatever is on it.
LEMMA ReceivedKeeps ==
  ASSUME ScanIInv, NEW items \in Seq(Items), NEW last \in BOOLEAN, at = "fetch",
         Received(items, last), odd' \in BOOLEAN, errors' \in Nat
  PROVE  ScanTypeOK' /\ Begun' /\ Unreported' /\ FullScanIsComplete'
<1> USE DEF ScanIInv
<1>1. /\ kind' = kind /\ limit' = limit /\ site' = site /\ page' = page /\ nth' = nth
      /\ got' = got /\ changes' = changes /\ withdrawn' = withdrawn
      /\ skipped' = skipped /\ pages' = pages + 1 /\ attempt' = 0
  BY DEF Received
<1>2. todo = <<>> /\ nth = 1 /\ ~telemetry.full
  BY DEF Unreported, Begun
<1>3. skipped' \in Nat /\ pages' \in Nat /\ Len(got) \in Nat
  BY <1>1 DEF ScanTypeOK
<1>4. IsLast(items, last) \in BOOLEAN
  <2>1. CASE kind = "torgi"
    BY <2>1, Zenon DEF IsLast
  <2>2. CASE kind # "torgi"
    <3>1. (Len(items) < PageSize) \in BOOLEAN
      OBVIOUS
    <3> QED
      BY <2>2, <3>1, Zenon DEF IsLast
  <2> QED
    BY <2>1, <2>2
<1>5. /\ at' \in {"done", "page"} /\ todo' \in Seq(Items) /\ isLast' \in BOOLEAN
      /\ telemetry' \in [pages : Nat, yielded : Nat, skipped : Nat, full : BOOLEAN]
      /\ ~telemetry'.full
  <2>1. CASE items = <<>>
    <3>1. at' = "done" /\ Report(Len(got), FALSE) /\ todo' = todo /\ isLast' = isLast
      BY <2>1 DEF Received
    <3>2. /\ telemetry' \in [pages : Nat, yielded : Nat, skipped : Nat, full : BOOLEAN]
          /\ ~telemetry'.full
      BY <1>3, <3>1, Reports
    <3> QED
      BY <3>1, <3>2 DEF ScanTypeOK
  <2>2. CASE items # <<>>
    <3>1. /\ at' = "page" /\ isLast' = IsLast(items, last) /\ todo' = items
          /\ telemetry' = telemetry
      BY <2>2 DEF Received
    <3> QED
      BY <1>2, <1>4, <3>1, Zenon DEF ScanTypeOK
  <2> QED
    BY <2>1, <2>2
<1>6. ScanTypeOK'
  <2>1. /\ kind' \in Kinds /\ limit' \in Limits /\ site' \in Seq(Items) /\ page' \in Nat
        /\ nth' \in Nat \ {0} /\ got' \in Seq(Items \X (Nat \ {0})) /\ changes' \in Nat
        /\ withdrawn' \in BOOLEAN
    BY <1>1, Zenon DEF ScanTypeOK
  <2>2. attempt' \in 0..3 /\ at' \in {"fetch", "page", "done", "failed"}
    BY <1>1, <1>5
  <2> QED
    BY <1>3, <1>5, <2>1, <2>2, Zenon DEF ScanTypeOK
<1> QED
  BY <1>1, <1>2, <1>5, <1>6 DEF Begun, Unreported, FullScanIsComplete

LEMMA FetchPageKeeps == ASSUME ScanIInv, FetchPage PROVE ScanIInv'
<1> USE DEF ScanIInv
<1> DEFINE items == Content(page)  last == (page + 1) * Served[kind] >= Len(site)
<1>1. at = "fetch" /\ Received(items, last) /\ odd' = odd /\ errors' = errors
  BY DEF FetchPage
<1>2. items \in Seq(Items) /\ last \in BOOLEAN
  BY Contents
<1>3. ScanTypeOK' /\ Begun' /\ Unreported' /\ FullScanIsComplete'
  BY <1>1, <1>2, ReceivedKeeps DEF ScanTypeOK
<1>4. todo = <<>> /\ nth = 1
  BY <1>1 DEF Unreported, Begun
<1>5. CaughtUp'
  <2> SUFFICES ASSUME ~withdrawn', ~odd' PROVE CaughtUp'
    BY DEF CaughtUp
  <2>1. /\ kind' = kind /\ limit' = limit /\ site' = site /\ page' = page /\ nth' = nth
        /\ got' = got /\ withdrawn' = withdrawn /\ Size' = Size
    BY <1>1 DEF Received, Size
  <2>2. Placed /\ Covered(page * Size)
    BY <1>1, <2>1 DEF CaughtUp
  <2>3. Placed'
    BY <2>1, <2>2 DEF Placed
  <2>4. CASE items = <<>>
    <3>1. at' = "done"
      BY <1>1, <2>4 DEF Received
    <3> QED
      BY <2>3, <3>1 DEF CaughtUp
  <2>5. CASE items # <<>>
    <3>1. at' = "page" /\ todo' = items /\ isLast' = IsLast(items, last)
      BY <1>1, <2>5 DEF Received
    <3> DEFINE from == page * Size
    <3>2. from \in Nat /\ Size \in Nat \ {0} /\ (page + 1) * Size = from + Size
      BY Sizes
    <3>3. Len(Initial) \in Nat /\ Len(site) \in Nat /\ Len(Initial) <= Len(site)
      BY <2>2, SourcesAssumption DEF Placed, ScanTypeOK
    <3>4. (page + 1) * Served[kind] = from + Size
      BY <3>2 DEF Size
    <3>5. \A p \in 1..Len(site) :
             from < p /\ p <= from + Size =>
               p - from \in 1..Len(items) /\ items[p - from] = site[p]
      BY Contents, Zenon
    <3>6. /\ from < Len(site) /\ Len(items) = Least(from + Size, Len(site)) - from
          /\ kind = "efrsb" => Size = PageSize
      BY <2>5, Contents, Sizes
    <3>7. last = (from + Size >= Len(site))
      BY <3>4
    <3>8. Covered(from)
      BY <2>2
    <3> HIDE DEF from, items, last
    <3>9. ASSUME NEW k \in 1..Len(Initial), Len(site) - Len(Initial) + k <= from + Size
          PROVE  Caught(Initial[k])'
      <4>1. CASE Len(site) - Len(Initial) + k <= from
        <5>1. Caught(Initial[k])
          BY <3>8, <4>1 DEF Covered
        <5> QED
          BY <1>4, <2>1, <5>1, Emptied DEF Caught, Good, LotCount
      <4>2. CASE ~(Len(site) - Len(Initial) + k <= from)
        <5>1. PICK p \in Nat : p = Len(site) - Len(Initial) + k
          BY <3>3
        <5>2. p \in 1..Len(site) /\ from < p /\ p <= from + Size /\ site[p] = Initial[k]
          BY <2>2, <3>2, <3>3, <3>9, <4>2, <5>1 DEF Placed
        <5>3. p - from \in 1..Len(items) /\ items[p - from] = Initial[k]
          BY <3>5, <5>2
        <5>4. PICK j \in 1..Len(todo') : todo'[j] = Initial[k]
          BY <3>1, <5>3
        <5>5. \A x \in 1..LotCount(Initial[k])' : Coming(Initial[k], x)'
          BY <1>4, <2>1, <5>4 DEF Coming
        <5> QED
          BY <5>5 DEF Caught
      <4> QED
        BY <4>1, <4>2
    <3>10. Covered(from + Size)'
      <4>1. \A k \in 1..Len(Initial) :
              Len(site') - Len(Initial) + k <= from + Size => Caught(Initial[k])'
        BY <2>1, <3>9
      <4> QED
        BY <4>1, <2>1, <3>2 DEF Covered, from
    <3>11. isLast' => Len(site) <= from + Size
      <4>1. CASE kind = "torgi"
        BY <3>1, <3>2, <3>3, <3>7, <4>1 DEF IsLast
      <4>2. CASE kind # "torgi"
        <5>1. kind = "efrsb" /\ (isLast' <=> Len(items) < Size)
          BY <3>1, <3>6, <4>2 DEF IsLast, ScanTypeOK, Kinds
        <5> QED
          BY <3>2, <3>3, <3>6, <5>1 DEF Least
      <4> QED
        BY <4>1, <4>2
    <3>12. isLast' => \A k \in 1..Len(Initial) : Caught(Initial[k])'
      <4>1. ASSUME isLast', NEW k \in 1..Len(Initial)
            PROVE  Len(site) - Len(Initial) + k <= from + Size
        BY <3>2, <3>3, <3>11, <4>1
      <4> QED
        BY <3>9, <4>1
    <3>13. Covered(page * Size + Size)'
      BY <3>10 DEF from
    <3> QED
      BY <2>3, <3>1, <3>12, <3>13 DEF CaughtUp
  <2> QED
    BY <2>4, <2>5
<1> QED
  BY <1>3, <1>5

LEMMA WrongPageKeeps ==
  ASSUME ScanIInv, EmptyPage \/ HtmlPage
  PROVE  ScanIInv'
<1> USE DEF ScanIInv
<1>1. CASE EmptyPage
  <2>1. /\ at = "fetch" /\ Received(<<>>, FALSE) /\ odd' = odd /\ errors' = errors + 1
    BY <1>1 DEF EmptyPage, WrongPage
  <2>2. ScanTypeOK' /\ Begun' /\ Unreported' /\ FullScanIsComplete'
    <3>1. odd' \in BOOLEAN /\ errors' \in Nat
      BY <2>1 DEF ScanTypeOK
    <3>2. <<>> \in Seq(Items) /\ FALSE \in BOOLEAN
      OBVIOUS
    <3> QED
      BY <2>1, <3>1, <3>2, ReceivedKeeps, Zenon
  <2>3. /\ at' = "done" /\ withdrawn' = withdrawn /\ site' = site
    BY <2>1 DEF Received
  <2>4. CaughtUp'
    BY <2>1, <2>3 DEF CaughtUp, Placed
  <2> QED
    BY <2>2, <2>4
<1>2. CASE HtmlPage
  <2>1. PICK n \in 0..Least(Len(site), PageSize) : WrongPage(SubSeq(site, 1, n))
    BY <1>2 DEF HtmlPage
  <2>2. /\ at = "fetch" /\ Received(SubSeq(site, 1, n), FALSE) /\ odd' = TRUE
        /\ errors' = errors + 1
    BY <1>2, <2>1 DEF HtmlPage, WrongPage
  <2>3. SubSeq(site, 1, n) \in Seq(Items)
    <3>1. n \in Int /\ n <= Len(site) /\ site \in Seq(Items)
      BY SourcesAssumption DEF ScanTypeOK, Least
    <3>2. \A q \in 1..n : site[q] \in Items
      BY <3>1, ElementOfSeq
    <3> QED
      BY <3>1, <3>2, SubSeqProperties
  <2>4. ScanTypeOK' /\ Begun' /\ Unreported' /\ FullScanIsComplete'
    <3>1. odd' \in BOOLEAN /\ errors' \in Nat
      BY <2>2 DEF ScanTypeOK
    <3> QED
      BY <2>2, <2>3, <3>1, ReceivedKeeps, Zenon
  <2>5. CaughtUp'
    BY <2>2 DEF CaughtUp
  <2> QED
    BY <2>4, <2>5
<1> QED
  BY <1>1, <1>2

LEMMA RequestKeeps ==
  ASSUME ScanIInv, RequestFails \/ RequestRejected
  PROVE  ScanIInv'
<1> USE DEF ScanIInv
<1>1. /\ at = "fetch" /\ kind' = kind /\ limit' = limit /\ site' = site /\ page' = page
      /\ todo' = todo /\ nth' = nth /\ isLast' = isLast /\ got' = got
      /\ skipped' = skipped /\ pages' = pages /\ changes' = changes
      /\ withdrawn' = withdrawn /\ odd' = odd
  BY DEF RequestFails, RequestRejected
<1>2. todo = <<>> /\ nth = 1 /\ ~telemetry.full /\ attempt < 3
  BY <1>1 DEF Unreported, Begun
<1>3. attempt' \in 0..3 /\ (attempt' < 3 \/ at' = "failed") /\ errors' \in Nat
  <2>1. CASE RequestFails
    <3>1. /\ attempt' = attempt + 1 /\ errors' = errors
          /\ attempt' = 3 => at' = "failed"
      BY <2>1 DEF RequestFails, Counted, Fails
    <3>2. attempt \in 0..3 /\ errors \in Nat
      BY DEF ScanTypeOK
    <3> QED
      BY <1>2, <3>1, <3>2
  <2>2. CASE RequestRejected
    BY <1>2, <2>2 DEF RequestRejected, ScanTypeOK
  <2> QED
    BY <2>1, <2>2
<1>4. \/ at' = "failed" /\ Report(Len(got), FALSE)
      \/ at' = at /\ telemetry' = telemetry
  BY DEF RequestFails, RequestRejected, Fails
<1>5. /\ telemetry' \in [pages : Nat, yielded : Nat, skipped : Nat, full : BOOLEAN]
      /\ ~telemetry'.full
  <2>1. CASE at' = "failed" /\ Report(Len(got), FALSE)
    <3>1. pages' \in Nat /\ skipped' \in Nat /\ Len(got) \in Nat /\ FALSE \in BOOLEAN
      BY <1>1 DEF ScanTypeOK
    <3> QED
      BY <2>1, <3>1, Reports
  <2>2. CASE at' = at /\ telemetry' = telemetry
    BY <1>2, <2>2, Zenon DEF ScanTypeOK
  <2> QED
    BY <1>4, <2>1, <2>2
<1>6. at' \in {"fetch", "failed"}
  BY <1>1, <1>4
<1>7. ScanTypeOK'
  <2>1. at' \in {"fetch", "page", "done", "failed"}
    BY <1>6
  <2> QED
    BY <1>1, <1>3, <1>5, <2>1, Zenon DEF ScanTypeOK
<1>8. Begun' /\ Unreported' /\ FullScanIsComplete'
  BY <1>1, <1>2, <1>3, <1>5, <1>6 DEF Begun, Unreported, FullScanIsComplete
<1>9. CaughtUp'
  <2> SUFFICES ASSUME ~withdrawn', ~odd' PROVE CaughtUp'
    BY DEF CaughtUp
  <2>1. Placed /\ Covered(page * Size)
    BY <1>1 DEF CaughtUp
  <2>2. Placed'
    BY <1>1, <2>1 DEF Placed
  <2>3. \A i : Caught(i) => Caught(i)'
    BY <1>1 DEF Caught, Coming, Good, LotCount
  <2>4. (page * Size)' = page * Size
    BY <1>1 DEF Size
  <2>5. Covered(page * Size)'
    <3> DEFINE upto == page * Size
    <3>1. Covered(upto) /\ upto' = upto
      BY <2>1, <2>4
    <3> HIDE DEF upto
    <3>2. Covered(upto)'
      BY <1>1, <2>3, <3>1 DEF Covered
    <3> QED
      BY <3>2 DEF upto
  <2> QED
    BY <1>6, <2>2, <2>5 DEF CaughtUp
<1> QED
  BY <1>7, <1>8, <1>9

\* Nothing is left to catch of an item that a run passes over.
LEMMA SkipMessageKeeps == ASSUME ScanIInv, SkipMessage PROVE ScanIInv'
<1> USE DEF ScanIInv
<1>1. /\ at = "page" /\ todo # <<>> /\ NoMessage /\ todo' = Tail(todo)
      /\ kind' = kind /\ limit' = limit /\ site' = site /\ at' = at /\ page' = page
      /\ attempt' = attempt /\ nth' = nth /\ isLast' = isLast /\ got' = got
      /\ skipped' = skipped /\ pages' = pages /\ telemetry' = telemetry
      /\ changes' = changes /\ withdrawn' = withdrawn /\ odd' = odd /\ errors' = errors
  BY DEF SkipMessage
<1>2. /\ todo \in Seq(Items) /\ nth = 1 /\ Head(todo) \in Nameless
      /\ ~telemetry.full /\ attempt < 3
  BY <1>1 DEF ScanTypeOK, Begun, Unreported, NoMessage
<1>3. /\ Tail(todo) \in Seq(Items) /\ Len(Tail(todo)) = Len(todo) - 1
      /\ \A j \in 1..Len(Tail(todo)) : Tail(todo)[j] = todo[j + 1]
      /\ todo[1] = Head(todo) /\ Len(todo) \in Nat
  BY <1>1, <1>2, HeadTailProperties
<1>4. ScanTypeOK'
  BY <1>1, <1>3, Zenon DEF ScanTypeOK
<1>5. Begun' /\ Unreported' /\ FullScanIsComplete'
  BY <1>1, <1>2 DEF Begun, Unreported, FullScanIsComplete
<1>6. ASSUME NEW i, Caught(i) PROVE Caught(i)'
  <2> SUFFICES ASSUME Good(i), NEW x \in 1..LotCount(i), ~(<<i, x>> \in Range(got))
               PROVE  Coming(i, x)'
    BY <1>1 DEF Caught, Good, LotCount
  <2>1. PICK j \in 1..Len(todo) : todo[j] = i
    BY <1>6 DEF Caught, Coming
  <2>2. todo[1] # i
    BY <1>2, <1>3 DEF Good
  <2>3. j # 1
    BY <2>1, <2>2
  <2>4. x \in Int /\ x >= 1
    <3>1. x \in 1..LotCount(i) 
      OBVIOUS
    <3> QED
      BY <3>1
  <2>5. PICK h \in Nat : h = j - 1
    BY <1>3, <2>1, <2>3
  <2>6. h \in 1..Len(Tail(todo)) /\ h + 1 = j
    BY <1>3, <2>1, <2>3, <2>5
  <2>7. Tail(todo)[h] = i
    BY <1>3, <2>1, <2>6
  <2> QED
    BY <1>1, <1>2, <2>4, <2>6, <2>7 DEF Coming
<1>7. CaughtUp'
  <2> SUFFICES ASSUME ~withdrawn', ~odd' PROVE CaughtUp'
    BY DEF CaughtUp
  <2>1. /\ Placed /\ Covered(page * Size + Size)
        /\ isLast => \A k \in 1..Len(Initial) : Caught(Initial[k])
    BY <1>1 DEF CaughtUp
  <2>2. Placed'
    BY <1>1, <2>1 DEF Placed
  <2>3. Covered(page * Size + Size)'
    <3> DEFINE upto == page * Size + Size
    <3>1. Covered(upto) /\ upto' = upto
      BY <1>1, <2>1 DEF Size
    <3> HIDE DEF upto
    <3>2. Covered(upto)'
      BY <1>1, <1>6, <3>1 DEF Covered
    <3> QED
      BY <3>2 DEF upto
  <2>4. isLast' => \A k \in 1..Len(Initial) : Caught(Initial[k])'
    BY <1>1, <1>6, <2>1
  <2> QED
    BY <1>1, <2>2, <2>3, <2>4 DEF CaughtUp
<1> QED
  BY <1>4, <1>5, <1>7

LEMMA PageDoneKeeps == ASSUME ScanIInv, PageDone PROVE ScanIInv'
<1> USE DEF ScanIInv
<1>1. /\ at = "page" /\ todo = <<>> /\ todo' = todo
      /\ kind' = kind /\ limit' = limit /\ site' = site 
      /\ attempt' = attempt /\ nth' = nth /\ isLast' = isLast /\ got' = got
      /\ skipped' = skipped /\ pages' = pages 
      /\ changes' = changes /\ withdrawn' = withdrawn /\ odd' = odd /\ errors' = errors
  BY DEF PageDone
<1>2. nth = 1 /\ ~telemetry.full /\ attempt < 3 /\ Size' = Size
  BY <1>1 DEF Begun, Unreported, Size
<1>3. ASSUME NEW i, Caught(i) PROVE Caught(i)'
  BY <1>1, <1>3 DEF Caught, Good, LotCount, Coming
<1>4. CASE isLast
  <2>1. at' = "done" /\ page' = page /\ Report(Len(got), TRUE)
    BY <1>4 DEF PageDone
  <2>2. telemetry' \in [pages : Nat, yielded : Nat, skipped : Nat, full : BOOLEAN]
    <3>1. pages' \in Nat /\ skipped' \in Nat /\ Len(got) \in Nat /\ TRUE \in BOOLEAN
      BY <1>1 DEF ScanTypeOK
    <3> QED
      BY <2>1, <3>1, Reports
  <2>3. ScanTypeOK'
    <3>1. at' \in {"fetch", "page", "done", "failed"}
      BY <2>1
    <3> QED
      BY <1>1, <2>1, <2>2, <3>1, Zenon DEF ScanTypeOK
  <2>4. Begun' /\ Unreported'
    BY <1>1, <1>2, <2>1 DEF Begun, Unreported
  <2>5. CaughtUp'
    BY <1>1, <2>1 DEF CaughtUp, Placed
  <2>6. FullScanIsComplete'
    <3> SUFFICES ASSUME ~withdrawn, ~odd, NEW i \in Range(Initial), Good(i),
                        NEW x \in 1..LotCount(i)
                 PROVE  <<i, x>> \in Range(got)
      BY <1>1 DEF FullScanIsComplete, Good, LotCount
    <3>1. PICK k \in 1..Len(Initial) : Initial[k] = i
      BY SourcesAssumption DEF Range
    <3>2. Caught(i)
      BY <1>1, <1>4, <3>1 DEF CaughtUp
    <3> QED
      BY <1>1, <3>2, Emptied
  <2> QED
    BY <2>3, <2>4, <2>5, <2>6
<1>5. CASE ~isLast
  <2>1. at' = "fetch" /\ page' = page + 1 /\ telemetry' = telemetry
    BY <1>5 DEF PageDone, NextPage
  <2>2. ScanTypeOK'
    <3>1. at' \in {"fetch", "page", "done", "failed"} /\ page' \in Nat
      BY <2>1 DEF ScanTypeOK
    <3> QED
      BY <1>1, <2>1, <3>1, Zenon DEF ScanTypeOK
  <2>3. Begun' /\ Unreported' /\ FullScanIsComplete'
    BY <1>1, <1>2, <2>1 DEF Begun, Unreported, FullScanIsComplete
  <2>4. CaughtUp'
    <3> SUFFICES ASSUME ~withdrawn', ~odd' PROVE CaughtUp'
      BY DEF CaughtUp
    <3>1. Placed /\ Covered(page * Size + Size)
      BY <1>1 DEF CaughtUp
    <3>2. Placed'
      BY <1>1, <3>1 DEF Placed
    <3>3. Covered(page * Size)'
      <4>1. (page * Size)' = page * Size + Size
        BY <1>2, <2>1, Sizes
      <4> DEFINE upto == page * Size
      <4>2. Covered(upto') /\ upto' = page * Size + Size
        BY <3>1, <4>1
      <4> HIDE DEF upto
      <4>3. Covered(upto)'
        BY <1>1, <1>3, <4>2 DEF Covered
      <4> QED
        BY <4>3 DEF upto
    <3> QED
      BY <2>1, <3>2, <3>3 DEF CaughtUp
  <2> QED
    BY <2>2, <2>3, <2>4
<1> QED
  BY <1>4, <1>5

\* The loop moves on by one lot and keeps every other one to come.
LEMMA Advances ==
  ASSUME ScanIInv, at = "page", todo # <<>>, ~NoMessage, kind' = kind, Advance
  PROVE  /\ todo' \in Seq(Items) /\ nth' \in Nat \ {0} /\ Begun'
         /\ \A i, x : Coming(i, x) /\ x \in 1..LotCount(i) =>
              (i = Head(todo) /\ x = nth) \/ Coming(i, x)'
<1> USE DEF ScanIInv
<1>1. todo \in Seq(Items) /\ nth \in Nat \ {0}
  BY DEF ScanTypeOK
<1>2. /\ Tail(todo) \in Seq(Items) /\ Len(Tail(todo)) = Len(todo) - 1
      /\ \A j \in 1..Len(Tail(todo)) : Tail(todo)[j] = todo[j + 1]
      /\ todo[1] = Head(todo) /\ Len(todo) \in Nat /\ Head(todo) \in Items
  BY <1>1, HeadTailProperties
<1>3. LotCount(Head(todo)) \in Nat
  BY <1>2, Counts
<1>4. CASE nth < LotCount(Head(todo))
  <2>1. nth' = nth + 1 /\ todo' = todo
    BY <1>4 DEF Advance
  <2>2. Begun'
    BY <2>1 DEF Begun, NoMessage
  <2>3. ASSUME NEW i, NEW x, Coming(i, x), x \in 1..LotCount(i),
               ~(i = Head(todo) /\ x = nth)
        PROVE  Coming(i, x)'
    <3>1. PICK j \in 1..Len(todo) : todo[j] = i /\ (j = 1 => x >= nth)
      BY <2>3 DEF Coming
    <3>2. j = 1 => x >= nth + 1
      BY <1>1, <1>2, <2>3, <3>1
    <3> QED
      BY <2>1, <3>1, <3>2 DEF Coming
  <2> QED
    BY <1>1, <2>1, <2>2, <2>3
<1>5. CASE ~(nth < LotCount(Head(todo)))
  <2>1. nth' = 1 /\ todo' = Tail(todo)
    BY <1>5 DEF Advance
  <2>2. Begun'
    BY <2>1 DEF Begun
  <2>3. ASSUME NEW i, NEW x, Coming(i, x), x \in 1..LotCount(i),
               ~(i = Head(todo) /\ x = nth)
        PROVE  Coming(i, x)'
    <3>1. PICK j \in 1..Len(todo) : todo[j] = i /\ (j = 1 => x >= nth)
      BY <2>3 DEF Coming
    <3>2. j # 1
      BY <1>1, <1>2, <1>3, <1>5, <2>3, <3>1
    <3>3. PICK h \in Nat : h = j - 1
      BY <1>2, <3>1, <3>2
    <3>4. h \in 1..Len(Tail(todo)) /\ h + 1 = j
      BY <1>2, <3>1, <3>2, <3>3
    <3>5. Tail(todo)[h] = i
      BY <1>2, <3>1, <3>4
    <3>6. x >= 1
      BY <2>3
    <3> QED
      BY <2>1, <3>4, <3>5, <3>6 DEF Coming
  <2> QED
    BY <1>1, <1>2, <2>1, <2>2, <2>3
<1> QED
  BY <1>4, <1>5

LEMMA LotKeeps == ASSUME ScanIInv, Lot PROVE ScanIInv'
<1> USE DEF ScanIInv
<1> DEFINE head == Head(todo)
<1>1. /\ at = "page" /\ todo # <<>> /\ ~NoMessage /\ Advance
      /\ kind' = kind /\ limit' = limit /\ site' = site /\ page' = page
      /\ attempt' = attempt /\ isLast' = isLast
      /\ changes' = changes /\ withdrawn' = withdrawn /\ odd' = odd /\ errors' = errors
  BY DEF Lot
<1>2. /\ todo' \in Seq(Items) /\ nth' \in Nat \ {0} /\ Begun'
      /\ \A i, x : Coming(i, x) /\ x \in 1..LotCount(i) =>
              (i = head /\ x = nth) \/ Coming(i, x)'
  BY <1>1, Advances
<1>3. /\ ~telemetry.full /\ attempt < 3 /\ Size' = Size
  BY <1>1 DEF Unreported, Size
<1>4. head \in Items /\ nth \in Nat \ {0}
  BY <1>1, HeadTailProperties DEF ScanTypeOK
\* What the lot does to the rest, case by case.
<1> DEFINE Yields == head \notin Invalid \cup Nameless \cup Broken \cup Old
<1>5. /\ Yields => got' = Append(got, <<head, nth>>)
      /\ ~Yields => got' = got
      /\ pages' = pages
      /\ skipped' \in {skipped, skipped + 1}
      /\ \/ at' = at /\ telemetry' = telemetry
         \/ at' = "failed" /\ Report(Len(got), FALSE)
         \/ at' = "done" /\ Report(Len(got'), FALSE)
  <2> HIDE DEF head
  <2>1. CASE head \in Invalid \cup Nameless
    <3>1. /\ got' = got /\ pages' = pages /\ at' = at /\ telemetry' = telemetry
          /\ skipped' = skipped + (IF kind = "torgi" THEN 1 ELSE 0)
      BY <2>1 DEF Lot, head
    <3>2. skipped \in Nat
      BY DEF ScanTypeOK
    <3>3. skipped' \in {skipped, skipped + 1}
      BY <3>1, <3>2
    <3> QED
      BY <2>1, <3>1, <3>3
  <2>2. CASE head \notin Invalid \cup Nameless /\ head \in Broken
    BY <2>2 DEF Lot, Fails, head
  <2>3. CASE head \notin Invalid \cup Nameless /\ head \notin Broken /\ head \in Old
    BY <2>3 DEF Lot, head
  <2>4. CASE Yields
    <3>1. got' = Append(got, <<head, nth>>) /\ skipped' = skipped /\ pages' = pages
      BY <2>4 DEF Lot, head
    <3>2. \/ at' = "done" /\ Report(Len(got'), FALSE)
          \/ at' = at /\ telemetry' = telemetry
      BY <2>4 DEF Lot, head
    <3> QED
      BY <2>4, <3>1, <3>2
  <2> QED
    BY <2>1, <2>2, <2>3, <2>4
<1> HIDE DEF head
<1>6. /\ got' \in Seq(Items \X (Nat \ {0})) /\ Range(got) \subseteq Range(got')
      /\ Yields => <<head, nth>> \in Range(got')
  <2>1. got \in Seq(Items \X (Nat \ {0})) /\ <<head, nth>> \in Items \X (Nat \ {0})
    BY <1>4 DEF ScanTypeOK
  <2>2. CASE Yields
    <3>1. got' = Append(got, <<head, nth>>)
      BY <1>5, <2>2
    <3>2. /\ got' \in Seq(Items \X (Nat \ {0})) /\ Len(got') = Len(got) + 1
          /\ \A j \in 1..Len(got) : got'[j] = got[j]
          /\ got'[Len(got) + 1] = <<head, nth>> /\ Len(got) \in Nat
      BY <2>1, <3>1
    <3>3. DOMAIN got = 1..Len(got) /\ DOMAIN got' = 1..Len(got) + 1
      BY <2>1, <3>2
    <3>4. Range(got) \subseteq Range(got')
      BY <3>2, <3>3 DEF Range
    <3>5. <<head, nth>> \in Range(got')
      <4>1. PICK n : n = Len(got) + 1
        OBVIOUS
      <4>2. n \in DOMAIN got' /\ got'[n] = <<head, nth>>
        BY <3>2, <3>3, <4>1
      <4> QED
        BY <4>2, Zenon DEF Range
    <3> QED
      BY <3>2, <3>4, <3>5
  <2>3. CASE ~Yields
    BY <1>5, <2>1, <2>3
  <2> QED
    BY <2>2, <2>3
<1>7. skipped' \in Nat /\ pages' \in Nat /\ Len(got) \in Nat /\ Len(got') \in Nat
  BY <1>5, <1>6 DEF ScanTypeOK
<1>8. /\ telemetry' \in [pages : Nat, yielded : Nat, skipped : Nat, full : BOOLEAN]
      /\ ~telemetry'.full
  <2>1. CASE telemetry' = telemetry
    BY <1>3, <2>1, Zenon DEF ScanTypeOK
  <2>2. CASE Report(Len(got), FALSE) \/ Report(Len(got'), FALSE)
    <3>1. FALSE \in BOOLEAN
      OBVIOUS
    <3> QED
      BY <1>7, <2>2, <3>1, Reports
  <2> QED
    BY <1>5, <2>1, <2>2
<1>9. at' \in {"page", "done", "failed"}
  BY <1>1, <1>5
<1>10. ScanTypeOK'
  <2>1. at' \in {"fetch", "page", "done", "failed"}
    BY <1>9
  <2> QED
    BY <1>1, <1>2, <1>6, <1>7, <1>8, <2>1, Zenon DEF ScanTypeOK
<1>11. Unreported' /\ FullScanIsComplete'
  BY <1>1, <1>3, <1>8, <1>9 DEF Unreported, FullScanIsComplete
<1>12. ASSUME NEW i, Caught(i) PROVE Caught(i)'
  <2> SUFFICES ASSUME Good(i), NEW x \in 1..LotCount(i), ~(<<i, x>> \in Range(got'))
               PROVE  Coming(i, x)'
    BY <1>1 DEF Caught, Good, LotCount
  <2>1. Coming(i, x)
    BY <1>6, <1>12 DEF Caught
  <2>2. CASE i = head /\ x = nth
    <3>1. Yields
      BY <2>2 DEF Good
    <3> QED
      BY <1>6, <2>2, <3>1
  <2> QED
    BY <1>2, <2>1, <2>2
<1>13. CaughtUp'
  <2> SUFFICES ASSUME ~withdrawn', ~odd' PROVE CaughtUp'
    BY DEF CaughtUp
  <2>1. /\ Placed /\ Covered(page * Size + Size)
        /\ isLast => \A k \in 1..Len(Initial) : Caught(Initial[k])
    BY <1>1 DEF CaughtUp
  <2>2. Placed'
    BY <1>1, <2>1 DEF Placed
  <2>3. Covered(page * Size + Size)'
    <3> DEFINE upto == page * Size + Size
    <3>1. Covered(upto) /\ upto' = upto
      BY <1>1, <2>1 DEF Size
    <3> HIDE DEF upto
    <3>2. Covered(upto)'
      BY <1>1, <1>12, <3>1 DEF Covered
    <3> QED
      BY <3>2 DEF upto
  <2>4. isLast' => \A k \in 1..Len(Initial) : Caught(Initial[k])'
    BY <1>1, <1>12, <2>1
  <2> QED
    BY <1>9, <2>2, <2>3, <2>4 DEF CaughtUp
<1> QED
  BY <1>2, <1>10, <1>11, <1>13

\* The site changes under the scan.
LEMMA SiteKeeps ==
  ASSUME ScanIInv, NEW i \in Items, Publish(i) \/ Withdraw(i)
  PROVE  ScanIInv'
<1> USE DEF ScanIInv
<1>1. /\ kind' = kind /\ limit' = limit /\ at' = at /\ page' = page
      /\ attempt' = attempt /\ todo' = todo /\ nth' = nth /\ isLast' = isLast
      /\ got' = got /\ skipped' = skipped /\ pages' = pages /\ telemetry' = telemetry
      /\ odd' = odd /\ errors' = errors /\ changes' = changes + 1
      /\ at \in {"fetch", "page"}
  BY DEF Publish, Withdraw, Change, scan
<1>2. ~telemetry.full
  BY <1>1 DEF Unreported
<1>3. Begun' /\ Unreported' /\ FullScanIsComplete'
  BY <1>1, <1>2 DEF Begun, Unreported, FullScanIsComplete, NoMessage
<1>4. site \in Seq(Items) /\ Len(site) \in Nat /\ withdrawn \in BOOLEAN
  BY DEF ScanTypeOK
<1>5. site' \in Seq(Items) /\ withdrawn' \in BOOLEAN => ScanTypeOK'
  <2>1. changes' \in Nat
    BY <1>1 DEF ScanTypeOK
  <2> QED
    BY <1>1, <2>1, Zenon DEF ScanTypeOK
<1>6. CASE Publish(i)
  <2>1. site' = <<i>> \o site /\ withdrawn' = withdrawn
    BY <1>6 DEF Publish
  <2>2. <<i>> \in Seq(Items) /\ Len(<<i>>) = 1
    OBVIOUS
  <2>3. /\ site' \in Seq(Items) /\ Len(site') = Len(site) + 1
        /\ \A q \in 1..1 + Len(site) :
             site'[q] = IF q <= 1 THEN <<i>>[q] ELSE site[q - 1]
    BY <1>4, <2>1, <2>2, ConcatProperties
  <2>4. CaughtUp'
    <3> SUFFICES ASSUME ~withdrawn', ~odd' PROVE CaughtUp'
      BY DEF CaughtUp
    <3>1. Placed /\ Len(Initial) \in Nat /\ Len(Initial) <= Len(site)
      BY <1>1, <2>1, SourcesAssumption DEF CaughtUp, Placed
    <3>2. Placed'
      <4>1. ASSUME NEW k \in 1..Len(Initial)
            PROVE  site'[Len(site') - Len(Initial) + k] = Initial[k]
        <5>1. PICK p : p = Len(site) - Len(Initial) + k
          OBVIOUS
        <5>2. site[p] = Initial[k] /\ p \in 1..Len(site)
          BY <1>4, <3>1, <5>1 DEF Placed
        <5>3. PICK q : q = p + 1
          OBVIOUS
        <5>4. q \in 1..1 + Len(site) /\ ~(q <= 1) /\ q - 1 = p
          BY <1>4, <5>2, <5>3
        <5>5. site'[q] = Initial[k]
          BY <2>3, <5>2, <5>4
        <5>6. Len(site') - Len(Initial) + k = q
          BY <1>4, <2>3, <3>1, <5>1, <5>3
        <5> QED
          BY <5>5, <5>6
      <4> QED
        BY <1>4, <2>3, <3>1, <4>1 DEF Placed
    <3>3. \A j : Caught(j) => Caught(j)'
      BY <1>1 DEF Caught, Coming, Good, LotCount
    <3>4. ASSUME NEW upto \in Int, Covered(upto)
          PROVE  \A k \in 1..Len(Initial) :
                   Len(site') - Len(Initial) + k <= upto => Caught(Initial[k])'
      <4> SUFFICES ASSUME NEW k \in 1..Len(Initial), Len(site') - Len(Initial) + k <= upto
                   PROVE  Caught(Initial[k])'
        OBVIOUS
      <4>1. Len(site) - Len(Initial) + k <= upto
        BY <1>4, <2>3, <3>1
      <4> QED
        BY <3>3, <3>4, <4>1 DEF Covered
    <3>5. /\ page * Size \in Int /\ Size \in Int /\ (page * Size)' = page * Size
          /\ Size' = Size
      BY <1>1, Sizes DEF Size
    <3>6. at = "fetch" => Covered(page * Size)'
      <4> SUFFICES ASSUME at = "fetch" PROVE Covered(page * Size)'
        OBVIOUS
      <4> DEFINE upto == page * Size
      <4>1. Covered(upto) /\ upto \in Int /\ upto' = upto
        BY <1>1, <2>1, <3>5 DEF CaughtUp
      <4> HIDE DEF upto
      <4>2. Covered(upto)'
        BY <3>4, <4>1 DEF Covered
      <4> QED
        BY <4>2 DEF upto
    <3>7. at = "page" => Covered(page * Size + Size)'
      <4> SUFFICES ASSUME at = "page" PROVE Covered(page * Size + Size)'
        OBVIOUS
      <4> DEFINE upto == page * Size + Size
      <4>1. Covered(upto) /\ upto \in Int /\ upto' = upto
        BY <1>1, <2>1, <3>5 DEF CaughtUp
      <4> HIDE DEF upto
      <4>2. Covered(upto)'
        BY <3>4, <4>1 DEF Covered
      <4> QED
        BY <4>2 DEF upto
    <3>8. at = "page" /\ isLast => \A k \in 1..Len(Initial) : Caught(Initial[k])'
      BY <2>1, <1>1, <3>3 DEF CaughtUp
    <3> QED
      BY <1>1, <3>2, <3>6, <3>7, <3>8 DEF CaughtUp
  <2> QED
    BY <1>3, <1>4, <1>5, <2>1, <2>3, <2>4
<1>7. CASE Withdraw(i)
  <2>1. PICK p \in DOMAIN site : site' = SubSeq(site, 1, p - 1) \o SubSeq(site, p + 1, Len(site))
    BY <1>7 DEF Withdraw, RemoveAt
  <2>2. p \in 1..Len(site)
    BY <1>4
  <2>3. SubSeq(site, 1, p - 1) \in Seq(Items)
    <3>1. \A q \in 1..p - 1 : site[q] \in Items
      BY <1>4, <2>2, ElementOfSeq
    <3>2. p - 1 \in Int
      BY <2>2
    <3> QED
      BY <3>1, <3>2, SubSeqProperties
  <2>4. SubSeq(site, p + 1, Len(site)) \in Seq(Items)
    <3>1. \A q \in p + 1..Len(site) : site[q] \in Items
      BY <1>4, <2>2, ElementOfSeq
    <3>2. p + 1 \in Int /\ Len(site) \in Int
      BY <1>4, <2>2
    <3> QED
      BY <3>1, <3>2, SubSeqProperties
  <2>5. site' \in Seq(Items)
    BY <2>1, <2>3, <2>4, ConcatProperties
  <2>6. withdrawn' = TRUE
    BY <1>7 DEF Withdraw
  <2>7. CaughtUp'
    BY <2>6 DEF CaughtUp
  <2> QED
    BY <1>3, <1>5, <2>5, <2>6, <2>7
<1> QED
  BY <1>6, <1>7

-----------------------------------------------------------------------------
LEMMA ScanSteps == ScanIInv /\ [ScanNext]_scanVars => ScanIInv'
<1> SUFFICES ASSUME ScanIInv, [ScanNext]_scanVars PROVE ScanIInv'
  OBVIOUS
<1>1. CASE FetchPage
  BY <1>1, FetchPageKeeps
<1>2. CASE EmptyPage \/ HtmlPage
  BY <1>2, WrongPageKeeps
<1>3. CASE RequestFails \/ RequestRejected
  BY <1>3, RequestKeeps
<1>4. CASE SkipMessage
  BY <1>4, SkipMessageKeeps
<1>5. CASE Lot
  BY <1>5, LotKeeps
<1>6. CASE PageDone
  BY <1>6, PageDoneKeeps
<1>7. CASE \E i \in Items : Publish(i) \/ Withdraw(i)
  BY <1>7, SiteKeeps
<1>8. CASE UNCHANGED scanVars
  <2>1. /\ kind' = kind /\ limit' = limit /\ site' = site /\ at' = at /\ page' = page
        /\ attempt' = attempt /\ todo' = todo /\ nth' = nth /\ isLast' = isLast
        /\ got' = got /\ skipped' = skipped /\ pages' = pages /\ telemetry' = telemetry
        /\ changes' = changes /\ withdrawn' = withdrawn /\ odd' = odd /\ errors' = errors
    BY <1>8 DEF scanVars
  <2>2. ScanTypeOK'
    BY <2>1, Zenon DEF ScanIInv, ScanTypeOK
  <2>3. Begun' /\ Unreported' /\ FullScanIsComplete'
    BY <2>1 DEF ScanIInv, Begun, NoMessage, Unreported, Good, LotCount,
                FullScanIsComplete
  <2>4. \A i : Caught(i)' <=> Caught(i)
    BY <2>1 DEF Caught, Coming, LotCount, Good
  <2>5. \A n : Covered(n) => \A k \in 1..Len(Initial) :
          Len(site') - Len(Initial) + k <= n => Caught(Initial[k])'
    BY <2>1, <2>4 DEF Covered
  <2>6. CaughtUp'
    BY <2>1, <2>4, <2>5 DEF ScanIInv, CaughtUp, Placed, Covered, Size
  <2> QED
    BY <2>2, <2>3, <2>6 DEF ScanIInv
<1> QED
  BY <1>1, <1>2, <1>3, <1>4, <1>5, <1>6, <1>7, <1>8 DEF ScanNext, Scan

\* The cursor, the loops, the count of attempts (three at most) and the
\* telemetry of a scan keep to their types, however it ends.
THEOREM ScanTypes == ScanSpec => []ScanTypeOK
<1>1. ScanIInv => ScanTypeOK
  BY DEF ScanIInv
<1> QED
  BY <1>1, ScanInitial, ScanSteps, PTL DEF ScanSpec

\* A scan of fetch_lots that reports full_scan_completed has yielded every lot
\* the site showed when it began, for any site, any page size (and any smaller
\* one that torgi.gov serves instead), any number of lots in a message and any
\* number of lots published meanwhile.
THEOREM FullScansAreComplete == ScanSpec => []FullScanIsComplete
<1>1. ScanIInv => FullScanIsComplete
  BY DEF ScanIInv
<1> QED
  BY <1>1, ScanInitial, ScanSteps, PTL DEF ScanSpec

-----------------------------------------------------------------------------
(***************************************************************************)
(* Every scan comes to its end: whatever the site does under it, each step *)
(* of the scan counts down what remains, in an order without infinite      *)
(* descent, and the steps of the site leave it alone.                      *)
(***************************************************************************)
\* No page beyond what the site can come to show has lots.
Reach == Len(Initial) + MaxChanges

\* What remains, the most important first.
OnTheWay == IF Ended THEN 0 ELSE 1
PagesLeft == Reach + MaxErrors - page
Asking == IF at = "fetch" THEN 1 ELSE 0
ItemsLeft == Len(todo)
LotsLeft == IF todo = <<>> THEN 0 ELSE LotCount(Head(todo)) - nth
AttemptsLeft == 3 - attempt
Remaining == <<OnTheWay, PagesLeft, Asking, ItemsLeft, LotsLeft, AttemptsLeft>>

\* The page at hand is one that the site can have had, unless a page came wrong.
Within ==
  /\ Len(site) <= Len(Initial) + changes /\ changes <= MaxChanges
  /\ errors <= MaxErrors /\ page <= Reach + errors
PageWithin == at = "page" => page < Reach + errors
LotWithin == todo # <<>> => nth <= LotCount(Head(todo))
InReach == Within /\ PageWithin /\ LotWithin

LEMMA Bounds ==
  /\ Len(Initial) \in Nat /\ MaxChanges \in Nat /\ MaxErrors \in Nat /\ Reach \in Nat
BY SourcesAssumption DEF Reach

RemainingOK == Remaining \in [1..6 -> Nat]
LEMMA RemainingType == ScanIInv /\ InReach => RemainingOK
<1> SUFFICES ASSUME ScanIInv, InReach PROVE RemainingOK
  OBVIOUS
<1>1. OnTheWay \in Nat /\ Asking \in Nat
  BY DEF OnTheWay, Asking
<1>2. PagesLeft \in Nat
  BY Bounds DEF PagesLeft, InReach, Within, ScanIInv, ScanTypeOK
<1>3. ItemsLeft \in Nat
  BY DEF ItemsLeft, ScanIInv, ScanTypeOK
<1>4. AttemptsLeft \in Nat
  BY DEF AttemptsLeft, ScanIInv, ScanTypeOK
<1>5. LotsLeft \in Nat
  <2>1. CASE todo = <<>>
    BY <2>1 DEF LotsLeft
  <2>2. CASE todo # <<>>
    <3>1. Head(todo) \in Items /\ nth \in Nat
      BY <2>2, HeadTailProperties DEF ScanIInv, ScanTypeOK
    <3>2. LotCount(Head(todo)) \in Nat
      BY <3>1, Counts DEF ScanIInv
    <3>3. nth <= LotCount(Head(todo))
      BY <2>2 DEF InReach, LotWithin
    <3> QED
      BY <2>2, <3>1, <3>2, <3>3 DEF LotsLeft
  <2> QED
    BY <2>1, <2>2
<1> HIDE DEF OnTheWay
<1> QED
  BY <1>1, <1>2, <1>3, <1>4, <1>5 DEF Remaining, RemainingOK

-----------------------------------------------------------------------------
LEMMA Lexicographic ==
  ASSUME ScanIInv, InReach, ScanIInv', InReach',
         \/ OnTheWay' < OnTheWay
         \/ /\ OnTheWay' = OnTheWay
            /\ \/ PagesLeft' < PagesLeft
               \/ /\ PagesLeft' = PagesLeft
                  /\ \/ Asking' < Asking
                     \/ /\ Asking' = Asking
                        /\ \/ ItemsLeft' < ItemsLeft
                           \/ /\ ItemsLeft' = ItemsLeft
                              /\ \/ LotsLeft' < LotsLeft
                                 \/ LotsLeft' = LotsLeft /\ AttemptsLeft' < AttemptsLeft
  PROVE  <<Remaining', Remaining>> \in Countdown(6)
<1> DEFINE p == Remaining'  q == Remaining
<1>1. q \in [1..6 -> Nat]
  BY RemainingType DEF RemainingOK
<1>2. p \in [1..6 -> Nat]
  <2>1. RemainingOK'
    BY RemainingType, PTL
  <2> QED
    BY <2>1 DEF RemainingOK
<1>3. /\ q[1] = OnTheWay /\ q[2] = PagesLeft /\ q[3] = Asking
      /\ q[4] = ItemsLeft /\ q[5] = LotsLeft /\ q[6] = AttemptsLeft
  BY DEF Remaining
<1>4. /\ p[1] = OnTheWay' /\ p[2] = PagesLeft' /\ p[3] = Asking'
      /\ p[4] = ItemsLeft' /\ p[5] = LotsLeft' /\ p[6] = AttemptsLeft'
  BY DEF Remaining
<1> HIDE DEF p, q
<1>5. \E j \in 1..6 : (\A i \in 1..j - 1 : p[i] = q[i]) /\ p[j] < q[j]
  BY <1>3, <1>4
<1>6. <<p, q>> \in Countdown(6)
  BY <1>1, <1>2, <1>5, StepDown
<1> QED
  BY <1>6 DEF p, q

\* The last steps of a scan: only the first number counts.
LEMMA EndingCounts ==
  ASSUME ScanIInv, InReach, ScanIInv', InReach', ~Ended, Ended'
  PROVE  <<Remaining', Remaining>> \in Countdown(6)
<1>1. OnTheWay = 1 /\ OnTheWay' = 0
  BY DEF OnTheWay
<1> QED
  BY <1>1, Lexicographic

\* A page that came is done with before another is asked for.
LEMMA ReceivedCounts ==
  ASSUME ScanIInv, InReach, ScanIInv', InReach', at = "fetch",
         NEW items, NEW last, Received(items, last)
  PROVE  <<Remaining', Remaining>> \in Countdown(6)
<1>1. CASE items = <<>>
  <2>1. ~Ended /\ Ended'
    BY <1>1 DEF Received, Ended
  <2> QED
    BY <2>1, EndingCounts
<1>2. CASE items # <<>>
  <2>1. at' = "page" /\ page' = page
    BY <1>2 DEF Received
  <2>2. OnTheWay = 1 /\ OnTheWay' = 1 /\ Asking = 1 /\ Asking' = 0
    BY <2>1 DEF OnTheWay, Asking, Ended
  <2>3. PagesLeft' = PagesLeft
    BY <2>1 DEF PagesLeft, Reach
  <2> QED
    BY <2>2, <2>3, Lexicographic
<1> QED
  BY <1>1, <1>2

\* An item has a first lot.
LEMMA FirstLot ==
  ASSUME ScanIInv, todo' \in Seq(Items), nth' = 1, kind' = kind
  PROVE  LotWithin'
<1> SUFFICES ASSUME todo' # <<>> PROVE nth' <= LotCount(Head(todo))'
  BY DEF LotWithin
<1>1. PICK i \in Items : i = Head(todo')
  BY HeadTailProperties
<1>2. LotCount(i) \in Nat \ {0}
  BY Counts DEF ScanIInv
<1>3. LotCount(Head(todo))' = LotCount(i)
  BY <1>1 DEF LotCount
<1> QED
  BY <1>2, <1>3

\* What a page that came leaves within reach.
LEMMA ReceivedWithin ==
  ASSUME ScanIInv, InReach, at = "fetch", NEW items \in Seq(Items), NEW last,
         Received(items, last), errors' \in Nat, errors' <= MaxErrors, errors <= errors',
         items # <<>> => page < Reach + errors'
  PROVE  InReach'
<1>1. /\ site' = site /\ page' = page /\ changes' = changes /\ nth' = nth /\ kind' = kind
      /\ at' \in {"page", "done"} /\ (at' = "page" => items # <<>>)
      /\ todo' = todo \/ todo' = items
  BY DEF Received
<1>2. todo = <<>> /\ nth = 1
  BY DEF ScanIInv, Unreported, Begun
<1>3. page \in Nat /\ errors \in Nat /\ Len(site) \in Nat /\ changes \in Nat
  BY DEF ScanIInv, ScanTypeOK
<1>4. Within'
  BY <1>1, <1>3, Bounds DEF InReach, Within, Reach
<1>5. PageWithin'
  BY <1>1 DEF PageWithin, Reach
<1>6. LotWithin'
  BY <1>1, <1>2, FirstLot DEF ScanIInv, ScanTypeOK
<1> QED
  BY <1>4, <1>5, <1>6 DEF InReach

LEMMA FetchPageWithin == ASSUME ScanIInv, InReach, FetchPage PROVE InReach'
<1>1. /\ at = "fetch" /\ errors' = errors
      /\ Received(Content(page), (page + 1) * Served[kind] >= Len(site))
  BY DEF FetchPage
<1>2. /\ Content(page) \in Seq(Items)
      /\ Content(page) # <<>> => page * Size < Len(site)
  BY Contents DEF ScanIInv
<1>3. Size \in Nat \ {0} /\ page * Size \in Nat
  BY Sizes DEF ScanIInv
<1>4. page \in Nat /\ errors \in Nat /\ Len(site) \in Nat /\ changes \in Nat
  BY DEF ScanIInv, ScanTypeOK
<1>5. page <= page * Size
  BY <1>3, <1>4
<1>6. Content(page) # <<>> => page < Reach + errors'
  BY <1>1, <1>2, <1>3, <1>4, <1>5, Bounds DEF InReach, Within, Reach
<1>7. errors' \in Nat /\ errors' <= MaxErrors /\ errors <= errors'
  BY <1>1, <1>4 DEF InReach, Within
<1> QED
  BY <1>1, <1>2, <1>6, <1>7, ReceivedWithin

LEMMA WrongPageWithin ==
  ASSUME ScanIInv, InReach, NEW items \in Seq(Items), WrongPage(items)
  PROVE  InReach'
<1>1. /\ at = "fetch" /\ errors < MaxErrors /\ errors' = errors + 1
      /\ Received(items, FALSE)
  BY DEF WrongPage
<1>2. page \in Nat /\ errors \in Nat
  BY DEF ScanIInv, ScanTypeOK
<1>3. errors' \in Nat /\ errors' <= MaxErrors /\ errors <= errors' /\ page < Reach + errors'
  BY <1>1, <1>2, Bounds DEF InReach, Within
<1> QED
  BY <1>1, <1>3, ReceivedWithin

\* Both kinds of wrong pages are sequences of items.
LEMMA WrongPages ==
  ASSUME ScanIInv, EmptyPage \/ HtmlPage
  PROVE  \E items \in Seq(Items) : WrongPage(items)
<1>1. CASE EmptyPage
  <2>1. <<>> \in Seq(Items)
    OBVIOUS
  <2> QED
    BY <1>1, <2>1 DEF EmptyPage
<1>2. CASE HtmlPage
  <2>1. PICK n \in 0..Least(Len(site), PageSize) : WrongPage(SubSeq(site, 1, n))
    BY <1>2 DEF HtmlPage
  <2>2. n \in Int /\ n <= Len(site) /\ site \in Seq(Items)
    BY SourcesAssumption DEF ScanIInv, ScanTypeOK, Least
  <2>3. \A q \in 1..n : site[q] \in Items
    BY <2>2, ElementOfSeq
  <2>4. SubSeq(site, 1, n) \in Seq(Items)
    BY <2>2, <2>3, SubSeqProperties
  <2> QED
    BY <2>1, <2>4
<1> QED
  BY <1>1, <1>2

LEMMA RequestWithin ==
  ASSUME ScanIInv, InReach, RequestFails \/ RequestRejected
  PROVE  InReach'
<1>1. /\ site' = site /\ page' = page /\ changes' = changes /\ nth' = nth /\ kind' = kind
      /\ todo' = todo /\ at' \in {at, "failed"} /\ at = "fetch"
      /\ errors' = errors \/ (errors < MaxErrors /\ errors' = errors + 1)
  BY DEF RequestFails, RequestRejected, Fails
<1>2. page \in Nat /\ errors \in Nat
  BY DEF ScanIInv, ScanTypeOK
<1>3. Within'
  BY <1>1, <1>2, Bounds DEF InReach, Within, Reach
<1>4. PageWithin'
  BY <1>1 DEF PageWithin
<1>5. LotWithin'
  BY <1>1 DEF InReach, LotWithin, LotCount
<1> QED
  BY <1>3, <1>4, <1>5 DEF InReach

\* What the loops over the page leave alone.
LEMMA LoopWithin ==
  ASSUME InReach, site' = site, page' = page, changes' = changes, errors' = errors,
         at = "page"
  PROVE  Within' /\ PageWithin'
BY DEF InReach, Within, PageWithin, Reach

LEMMA SkipWithin == ASSUME ScanIInv, InReach, SkipMessage PROVE InReach'
<1>1. /\ site' = site /\ page' = page /\ changes' = changes /\ errors' = errors
      /\ at = "page" /\ nth' = nth /\ kind' = kind /\ todo # <<>> /\ todo' = Tail(todo)
      /\ NoMessage
  BY DEF SkipMessage
<1>2. Within' /\ PageWithin'
  BY <1>1, LoopWithin
<1>3. nth = 1
  BY <1>1 DEF ScanIInv, Begun
<1>4. todo' \in Seq(Items)
  BY <1>1, HeadTailProperties DEF ScanIInv, ScanTypeOK
<1>5. LotWithin'
  BY <1>1, <1>3, <1>4, FirstLot
<1> QED
  BY <1>2, <1>5 DEF InReach

LEMMA LotStepWithin == ASSUME ScanIInv, InReach, Lot PROVE InReach'
<1>1. /\ site' = site /\ page' = page /\ changes' = changes /\ errors' = errors
      /\ at = "page" /\ kind' = kind /\ todo # <<>> /\ Advance
      /\ at' \in {"page", "failed", "done"}
  BY DEF Lot, Fails
<1>2. Within' /\ PageWithin'
  BY <1>1, LoopWithin
<1>3. CASE nth < LotCount(Head(todo))
  <2>1. nth' = nth + 1 /\ todo' = todo
    BY <1>1, <1>3 DEF Advance
  <2>2. Head(todo) \in Items /\ nth \in Nat
    BY <1>1, HeadTailProperties DEF ScanIInv, ScanTypeOK
  <2>3. LotCount(Head(todo)) \in Nat
    BY <2>2, Counts DEF ScanIInv
  <2>4. LotCount(Head(todo))' = LotCount(Head(todo))
    BY <1>1, <2>1 DEF LotCount
  <2>5. LotWithin'
    BY <1>3, <2>1, <2>2, <2>3, <2>4 DEF LotWithin
  <2> QED
    BY <1>2, <2>5 DEF InReach
<1>4. CASE ~(nth < LotCount(Head(todo)))
  <2>1. nth' = 1 /\ todo' = Tail(todo)
    BY <1>1, <1>4 DEF Advance
  <2>2. todo' \in Seq(Items)
    BY <1>1, <2>1, HeadTailProperties DEF ScanIInv, ScanTypeOK
  <2>3. LotWithin'
    BY <1>1, <2>1, <2>2, FirstLot
  <2> QED
    BY <1>2, <2>3 DEF InReach
<1> QED
  BY <1>3, <1>4

LEMMA PageDoneWithin == ASSUME ScanIInv, InReach, PageDone PROVE InReach'
<1>1. /\ site' = site /\ changes' = changes /\ errors' = errors
      /\ at = "page" /\ kind' = kind /\ todo = <<>> /\ todo' = todo
      /\ at' \in {"fetch", "done"}
      /\ page' = page \/ page' = page + 1
  BY DEF PageDone, NextPage
<1>2. page \in Nat /\ errors \in Nat
  BY DEF ScanIInv, ScanTypeOK
<1>3. Within'
  BY <1>1, <1>2, Bounds DEF InReach, Within, PageWithin, Reach
<1>4. PageWithin'
  BY <1>1 DEF PageWithin
<1>5. LotWithin'
  BY <1>1 DEF LotWithin
<1> QED
  BY <1>3, <1>4, <1>5 DEF InReach

\* What is withdrawn makes room, what is published is counted.
LEMMA SiteWithin ==
  ASSUME ScanIInv, InReach, NEW i \in Items, Publish(i) \/ Withdraw(i)
  PROVE  InReach'
<1>1. /\ kind' = kind /\ at' = at /\ page' = page /\ todo' = todo /\ nth' = nth
      /\ errors' = errors /\ changes' = changes + 1 /\ changes < MaxChanges
  BY DEF Publish, Withdraw, Change, scan
<1>2. site \in Seq(Items) /\ Len(site) \in Nat /\ changes \in Nat
  BY DEF ScanIInv, ScanTypeOK
<1>3. site' \in Seq(Items) /\ Len(site') <= Len(site) + 1
  <2>1. CASE Publish(i)
    <3>1. site' = <<i>> \o site /\ <<i>> \in Seq(Items) /\ Len(<<i>>) = 1
      BY <2>1 DEF Publish
    <3> QED
      BY <1>2, <3>1, ConcatProperties
  <2>2. CASE Withdraw(i)
    <3>1. PICK p \in DOMAIN site :
            site' = SubSeq(site, 1, p - 1) \o SubSeq(site, p + 1, Len(site))
      BY <2>2 DEF Withdraw, RemoveAt
    <3> DEFINE before == SubSeq(site, 1, p - 1)  after == SubSeq(site, p + 1, Len(site))
    <3>2. p \in 1..Len(site) /\ p - 1 \in Int /\ p + 1 \in Int
      BY <1>2
    <3>3. /\ \A q \in 1..p - 1 : site[q] \in Items
          /\ \A q \in p + 1..Len(site) : site[q] \in Items
      BY <1>2, <3>2, ElementOfSeq
    <3>4. before \in Seq(Items) /\ Len(before) = IF 1 <= p - 1 THEN p - 1 - 1 + 1 ELSE 0
      BY <3>2, <3>3, SubSeqProperties
    <3>5. /\ after \in Seq(Items)
          /\ Len(after) = IF p + 1 <= Len(site) THEN Len(site) - (p + 1) + 1 ELSE 0
      BY <1>2, <3>2, <3>3, SubSeqProperties
    <3> HIDE DEF before, after
    <3>6. before \o after \in Seq(Items) /\ Len(before \o after) = Len(before) + Len(after)
      BY <3>4, <3>5, ConcatProperties
    <3>7. site' = before \o after
      BY <3>1 DEF before, after
    <3>8. Len(before) + Len(after) <= Len(site) + 1
      BY <1>2, <3>2, <3>4, <3>5
    <3> QED
      BY <3>6, <3>7, <3>8
  <2> QED
    BY <2>1, <2>2
<1>4. Len(site') \in Nat
  BY <1>3
<1>5. Within'
  BY <1>1, <1>2, <1>3, <1>4, Bounds DEF InReach, Within, Reach
<1>6. PageWithin' /\ LotWithin'
  BY <1>1 DEF InReach, PageWithin, LotWithin, LotCount, Reach
<1> QED
  BY <1>5, <1>6 DEF InReach

LEMMA InReachSteps == ScanIInv /\ InReach /\ [ScanNext]_scanVars => InReach'
<1> SUFFICES ASSUME ScanIInv, InReach, [ScanNext]_scanVars PROVE InReach'
  OBVIOUS
<1>1. CASE FetchPage
  BY <1>1, FetchPageWithin
<1>2. CASE EmptyPage \/ HtmlPage
  BY <1>2, WrongPages, WrongPageWithin
<1>3. CASE RequestFails \/ RequestRejected
  BY <1>3, RequestWithin
<1>4. CASE SkipMessage
  BY <1>4, SkipWithin
<1>5. CASE Lot
  BY <1>5, LotStepWithin
<1>6. CASE PageDone
  BY <1>6, PageDoneWithin
<1>7. CASE \E i \in Items : Publish(i) \/ Withdraw(i)
  BY <1>7, SiteWithin
<1>8. CASE UNCHANGED scanVars
  <2>1. /\ kind' = kind /\ site' = site /\ at' = at /\ page' = page
        /\ todo' = todo /\ nth' = nth /\ changes' = changes /\ errors' = errors
    BY <1>8 DEF scanVars
  <2> QED
    BY <2>1 DEF InReach, Within, PageWithin, LotWithin, LotCount, Reach
<1> QED
  BY <1>1, <1>2, <1>3, <1>4, <1>5, <1>6, <1>7, <1>8 DEF ScanNext, Scan

LEMMA InReachInitially == ScanInit => InReach
<1> SUFFICES ASSUME ScanInit PROVE InReach
  OBVIOUS
<1>1. /\ site = Initial /\ at = "fetch" /\ page = 0 /\ todo = <<>> /\ changes = 0
      /\ errors = 0
  BY DEF ScanInit
<1>2. Within
  BY <1>1, Bounds DEF Within, Reach
<1>3. PageWithin /\ LotWithin
  BY <1>1 DEF PageWithin, LotWithin
<1> QED
  BY <1>2, <1>3 DEF InReach

-----------------------------------------------------------------------------
\* A failed attempt is one less, or the last.
LEMMA RequestCounts ==
  ASSUME ScanIInv, InReach, ScanIInv', InReach', RequestFails \/ RequestRejected
  PROVE  <<Remaining', Remaining>> \in Countdown(6)
<1>1. CASE at' = "failed"
  <2>1. ~Ended /\ Ended'
    BY <1>1 DEF RequestFails, RequestRejected, Ended
  <2> QED
    BY <2>1, EndingCounts
<1>2. CASE at' # "failed"
  <2>1. /\ at' = at /\ page' = page /\ todo' = todo /\ nth' = nth /\ kind' = kind
        /\ attempt' = attempt + 1
    BY <1>2 DEF RequestFails, RequestRejected, Fails, Counted
  <2>2. /\ OnTheWay' = OnTheWay /\ PagesLeft' = PagesLeft /\ Asking' = Asking
        /\ ItemsLeft' = ItemsLeft /\ LotsLeft' = LotsLeft
    BY <2>1 DEF OnTheWay, Ended, PagesLeft, Reach, Asking, ItemsLeft, LotsLeft, LotCount
  <2>3. AttemptsLeft' < AttemptsLeft
    BY <2>1 DEF AttemptsLeft, ScanIInv, ScanTypeOK
  <2> QED
    BY <2>2, <2>3, Lexicographic
<1> QED
  BY <1>1, <1>2

\* One item less on the page.
LEMMA ItemCounts ==
  ASSUME ScanIInv, InReach, ScanIInv', InReach', at = "page", at' = "page", page' = page,
         todo # <<>>, todo' = Tail(todo)
  PROVE  <<Remaining', Remaining>> \in Countdown(6)
<1>1. OnTheWay' = OnTheWay /\ PagesLeft' = PagesLeft /\ Asking' = Asking
  BY DEF OnTheWay, Ended, PagesLeft, Reach, Asking
<1>2. todo \in Seq(Items)
  BY DEF ScanIInv, ScanTypeOK
<1>3. Len(Tail(todo)) = Len(todo) - 1 /\ Len(todo) \in Nat
  BY <1>2, HeadTailProperties
<1>4. ItemsLeft' < ItemsLeft
  BY <1>3 DEF ItemsLeft
<1> QED
  BY <1>1, <1>4, Lexicographic

LEMMA LotStepCounts ==
  ASSUME ScanIInv, InReach, ScanIInv', InReach', Lot
  PROVE  <<Remaining', Remaining>> \in Countdown(6)
<1>1. /\ page' = page /\ at = "page" /\ kind' = kind /\ todo # <<>> /\ Advance
      /\ at' \in {"page", "failed", "done"}
  BY DEF Lot, Fails
<1>2. CASE at' # "page"
  <2>1. ~Ended /\ Ended'
    BY <1>1, <1>2 DEF Ended
  <2> QED
    BY <2>1, EndingCounts
<1>3. CASE at' = "page" /\ ~(nth < LotCount(Head(todo)))
  BY <1>1, <1>3, ItemCounts DEF Advance
<1>4. CASE at' = "page" /\ nth < LotCount(Head(todo))
  <2>1. nth' = nth + 1 /\ todo' = todo
    BY <1>1, <1>4 DEF Advance
  <2>2. /\ OnTheWay' = OnTheWay /\ PagesLeft' = PagesLeft /\ Asking' = Asking
        /\ ItemsLeft' = ItemsLeft
    BY <1>1, <1>4, <2>1 DEF OnTheWay, Ended, PagesLeft, Reach, Asking, ItemsLeft
  <2>3. PICK i \in Items : i = Head(todo)
    BY <1>1, HeadTailProperties DEF ScanIInv, ScanTypeOK
  <2>4. LotCount(i) \in Nat /\ LotCount(i)' = LotCount(i)
    <3>1. LotCount(i) \in Nat
      BY Counts DEF ScanIInv
    <3> QED
      BY <1>1, <3>1 DEF LotCount
  <2>5. LotsLeft = LotCount(i) - nth
    BY <1>1, <2>3 DEF LotsLeft
  <2>6. LotsLeft' = LotCount(i) - (nth + 1)
    <3>1. LotCount(Head(todo))' = LotCount(i)
      BY <1>1, <2>1, <2>3 DEF LotCount
    <3> QED
      BY <1>1, <2>1, <3>1 DEF LotsLeft
  <2>7. LotsLeft' < LotsLeft
    <3>1. nth \in Nat
      BY DEF ScanIInv, ScanTypeOK
    <3> QED
      BY <2>4, <2>5, <2>6, <3>1
  <2> QED
    BY <2>2, <2>7, Lexicographic
<1> QED
  BY <1>2, <1>3, <1>4

LEMMA PageDoneCounts ==
  ASSUME ScanIInv, InReach, ScanIInv', InReach', PageDone
  PROVE  <<Remaining', Remaining>> \in Countdown(6)
<1>1. at = "page"
  BY DEF PageDone
<1>2. CASE at' = "done"
  <2>1. ~Ended /\ Ended'
    BY <1>1, <1>2 DEF Ended
  <2> QED
    BY <2>1, EndingCounts
<1>3. CASE at' # "done"
  <2>1. at' = "fetch" /\ page' = page + 1
    BY <1>3 DEF PageDone, NextPage
  <2>2. OnTheWay' = OnTheWay
    BY <1>1, <2>1 DEF OnTheWay, Ended
  <2>3. PagesLeft' < PagesLeft
    BY <2>1, Bounds DEF PagesLeft, Reach, ScanIInv, ScanTypeOK
  <2> QED
    BY <2>2, <2>3, Lexicographic
<1> QED
  BY <1>2, <1>3

LEMMA ScanCounts ==
  ASSUME ScanIInv, InReach, ScanIInv', InReach', Scan
  PROVE  <<Remaining', Remaining>> \in Countdown(6)
<1>1. CASE FetchPage
  <2>1. at = "fetch" /\ Received(Content(page), (page + 1) * Served[kind] >= Len(site))
    BY <1>1 DEF FetchPage
  <2> QED
    BY <2>1, ReceivedCounts
<1>2. CASE EmptyPage \/ HtmlPage
  <2>1. PICK items \in Seq(Items) : WrongPage(items)
    BY <1>2, WrongPages
  <2>2. at = "fetch" /\ Received(items, FALSE)
    BY <2>1 DEF WrongPage
  <2> QED
    BY <2>2, ReceivedCounts
<1>3. CASE RequestFails \/ RequestRejected
  BY <1>3, RequestCounts
<1>4. CASE SkipMessage
  BY <1>4, ItemCounts DEF SkipMessage
<1>5. CASE Lot
  BY <1>5, LotStepCounts
<1>6. CASE PageDone
  BY <1>6, PageDoneCounts
<1> QED
  BY <1>1, <1>2, <1>3, <1>4, <1>5, <1>6 DEF Scan

\* Remaining changes in no other step.
LEMMA SiteLeavesRemaining ==
  ASSUME [ScanNext]_scanVars, ~Scan
  PROVE  Remaining' = Remaining
<1>1. /\ kind' = kind /\ at' = at /\ page' = page /\ attempt' = attempt
      /\ todo' = todo /\ nth' = nth
  BY DEF ScanNext, Publish, Withdraw, Change, scan, scanVars
<1> QED
  BY <1>1 DEF Remaining, OnTheWay, Ended, PagesLeft, Reach, Asking, ItemsLeft, LotsLeft,
              LotCount, AttemptsLeft

\* However the site changes, whatever fails and however pages are cut, each step
\* of a scan brings it nearer to its end, in an order without infinite descent:
\* only finitely many steps are the scan's own, and no page is asked for beyond
\* what the site can have come to show.
THEOREM ScanCountsDown ==
  /\ IsWellFoundedOn(Countdown(6), [1..6 -> Nat])
  /\ ScanSpec => [](Remaining \in [1..6 -> Nat])
  /\ ScanSpec => [][/\ Scan => <<Remaining', Remaining>> \in Countdown(6)
                    /\ ~Scan => Remaining' = Remaining]_scanVars
<1>1. ScanIInv /\ InReach => Remaining \in [1..6 -> Nat]
  BY RemainingType DEF RemainingOK
<1>2. /\ ScanIInv /\ InReach /\ ScanIInv' /\ InReach' /\ [ScanNext]_scanVars
      => [/\ Scan => <<Remaining', Remaining>> \in Countdown(6)
          /\ ~Scan => Remaining' = Remaining]_scanVars
  BY ScanCounts, SiteLeavesRemaining
<1>3. ScanSpec => [](ScanIInv /\ InReach)
  BY ScanInitial, ScanSteps, InReachInitially, InReachSteps, PTL DEF ScanSpec
<1>4. ScanSpec => [](Remaining \in [1..6 -> Nat])
  BY <1>1, <1>3, PTL
<1>5. ScanSpec => [][/\ Scan => <<Remaining', Remaining>> \in Countdown(6)
                     /\ ~Scan => Remaining' = Remaining]_scanVars
  BY <1>2, <1>3, PTL DEF ScanSpec
<1> QED
  BY <1>4, <1>5, NoInfiniteDescent, Zenon

-----------------------------------------------------------------------------
(***************************************************************************)
(* The prices.  What FlattenSeq makes of a sequence of groups and what the *)
(* recursive function Groups makes of a number hold for every length, by   *)
(* induction: a set that holds 0 and with n also n + 1 is all of Nat.      *)
(***************************************************************************)

\* Induction, over a set of numbers.
LEMMA SetInduction ==
  ASSUME NEW S, 0 \in S, \A n \in Nat : n \in S => n + 1 \in S
  PROVE  Nat \subseteq S
<1> DEFINE T == Nat \ S
           R == OpToRel(<, Nat)
<1> SUFFICES ASSUME T # {} PROVE FALSE
  OBVIOUS
<1>1. IsWellFoundedOn(R, Nat)
  BY NatLessThanWellFounded
<1>2. T \subseteq Nat
  OBVIOUS
<1> HIDE DEF T, R
<1>3. PICK x \in T : \A y \in T : ~(<<y, x>> \in R)
  BY <1>1, <1>2, WFMin, Zenon
<1>4. x \in Nat /\ x # 0 /\ x \notin S
  BY <1>2 DEF T
<1>5. x - 1 \in Nat /\ (x - 1) + 1 = x /\ x - 1 < x
  BY <1>4
<1>6. <<x - 1, x>> \in R
  BY <1>4, <1>5 DEF R, OpToRel
<1>7. x - 1 \notin T
  BY <1>3, <1>6
<1>8. x - 1 \in S
  BY <1>5, <1>7 DEF T
<1> QED
  BY <1>4, <1>5, <1>8

\* f joins the first n elements of s one by one.
Joins(s, n, f) == f = [i \in 1..n |-> IF i = 1 THEN s[i] ELSE f[i - 1] \o s[i]]

LEMMA JoinsExist == ASSUME NEW s, NEW n \in Nat PROVE \E f : Joins(s, n, f)
<1> DEFINE S == {k \in Nat : \E f : Joins(s, k, f)}
<1>1. 0 \in S
  <2> DEFINE f == [i \in 1..0 |-> s[i]]
  <2>1. Joins(s, 0, f)
    BY DEF Joins
  <2> QED
    BY <2>1
<1>2. ASSUME NEW k \in Nat, k \in S PROVE k + 1 \in S
  <2>1. PICK f : Joins(s, k, f)
    BY <1>2
  <2> DEFINE g == [i \in 1..k + 1 |-> IF i = 1 THEN s[i] ELSE f[i - 1] \o s[i]]
  <2>2. ASSUME NEW i \in 1..k + 1, i # 1 PROVE g[i - 1] = f[i - 1]
    <3>1. i - 1 \in 1..k /\ i - 1 \in 1..k + 1
      BY <2>2
    <3>2. f[i - 1] = IF i - 1 = 1 THEN s[i - 1] ELSE f[(i - 1) - 1] \o s[i - 1]
      BY <2>1, <3>1 DEF Joins
    <3>3. g[i - 1] = IF i - 1 = 1 THEN s[i - 1] ELSE f[(i - 1) - 1] \o s[i - 1]
      BY <3>1
    <3> QED
      BY <3>2, <3>3
  <2>3. g = [i \in 1..k + 1 |-> IF i = 1 THEN s[i] ELSE g[i - 1] \o s[i]]
    BY <2>2
  <2> HIDE DEF g
  <2>4. Joins(s, k + 1, g)
    BY <2>3 DEF Joins
  <2> QED
    BY <2>4
<1> HIDE DEF S
<1>3. Nat \subseteq S
  BY <1>1, <1>2, SetInduction
<1> QED
  BY <1>3 DEF S

AgreeUpTo(n, s, t) == \A i \in 1..n : s[i] = t[i]

LEMMA JoinsAgree ==
  ASSUME NEW n \in Nat, NEW m \in Nat, n <= m, NEW s, NEW t, AgreeUpTo(n, s, t),
         NEW f, NEW g, Joins(s, n, f), Joins(t, m, g)
  PROVE  AgreeUpTo(n, f, g)
<1> USE DEF AgreeUpTo
<1> DEFINE S == {k \in Nat : k \in 1..n => f[k] = g[k]}
<1>1. 0 \in S
  OBVIOUS
<1>2. ASSUME NEW k \in Nat, k \in S PROVE k + 1 \in S
  <2> SUFFICES ASSUME k + 1 \in 1..n PROVE f[k + 1] = g[k + 1]
    OBVIOUS
  <2>1. k + 1 \in 1..n /\ k + 1 \in 1..m /\ (k + 1) - 1 = k /\ s[k + 1] = t[k + 1]
    OBVIOUS
  <2>2. f[k + 1] = IF k + 1 = 1 THEN s[k + 1] ELSE f[k] \o s[k + 1]
    BY <2>1 DEF Joins
  <2>3. g[k + 1] = IF k + 1 = 1 THEN t[k + 1] ELSE g[k] \o t[k + 1]
    BY <2>1 DEF Joins
  <2>4. k + 1 # 1 => f[k] = g[k]
    BY <1>2, <2>1
  <2> QED
    BY <2>1, <2>2, <2>3, <2>4
<1> HIDE DEF S
<1>3. Nat \subseteq S
  BY <1>1, <1>2, SetInduction
<1> QED
  BY <1>3 DEF S

LEMMA FlattenJoins ==
  ASSUME NEW s, Len(s) \in Nat \ {0}
  PROVE  \E f : Joins(s, Len(s), f) /\ FlattenSeq(s) = f[Len(s)]
<1> DEFINE f == CHOOSE f : f = [i \in 1..Len(s) |-> IF i = 1 THEN s[i] ELSE f[i - 1] \o s[i]]
<1>1. \E g : g = [i \in 1..Len(s) |-> IF i = 1 THEN s[i] ELSE g[i - 1] \o s[i]]
  BY JoinsExist DEF Joins
<1>2. Joins(s, Len(s), f)
  BY <1>1, Zenon DEF Joins
<1>3. FlattenSeq(s) = f[Len(s)]
  BY Zenon DEF FlattenSeq
<1> QED
  BY <1>2, <1>3

LEMMA FlattenType ==
  ASSUME NEW D, NEW s \in Seq(Seq(D))
  PROVE  FlattenSeq(s) \in Seq(D)
<1>1. CASE Len(s) = 0
  BY <1>1 DEF FlattenSeq
<1>2. CASE Len(s) # 0
  <2>1. PICK f : Joins(s, Len(s), f) /\ FlattenSeq(s) = f[Len(s)]
    BY <1>2, FlattenJoins
  <2> DEFINE S == {k \in Nat : k \in 1..Len(s) => f[k] \in Seq(D)}
  <2>2. 0 \in S
    OBVIOUS
  <2>3. ASSUME NEW k \in Nat, k \in S PROVE k + 1 \in S
    <3> SUFFICES ASSUME k + 1 \in 1..Len(s) PROVE f[k + 1] \in Seq(D)
      OBVIOUS
    <3>1. (k + 1) - 1 = k /\ s[k + 1] \in Seq(D)
      OBVIOUS
    <3>2. f[k + 1] = IF k + 1 = 1 THEN s[k + 1] ELSE f[k] \o s[k + 1]
      BY <2>1, <3>1 DEF Joins
    <3>3. k + 1 # 1 => f[k] \in Seq(D)
      BY <2>3
    <3> QED
      BY <3>1, <3>2, <3>3
  <2> HIDE DEF S
  <2>4. Nat \subseteq S
    BY <2>2, <2>3, SetInduction
  <2> QED
    BY <1>2, <2>1, <2>4 DEF S
<1> QED
  BY <1>1, <1>2

LEMMA FlattenOne == ASSUME NEW x PROVE FlattenSeq(<<x>>) = x
<1> DEFINE s == <<x>>
<1>1. Len(s) = 1 /\ s[1] = x
  OBVIOUS
<1> HIDE DEF s
<1>2. PICK f : Joins(s, Len(s), f) /\ FlattenSeq(s) = f[Len(s)]
  BY <1>1, FlattenJoins
<1>3. f[1] = x
  BY <1>1, <1>2 DEF Joins
<1> QED
  BY <1>1, <1>2, <1>3 DEF s

LEMMA FlattenLonger ==
  ASSUME NEW s, NEW t, NEW n \in Nat \ {0}, Len(s) = n, Len(t) = n + 1,
         \A i \in 1..n : s[i] = t[i]
  PROVE  FlattenSeq(t) = FlattenSeq(s) \o t[n + 1]
<1> PICK m : m = n + 1
  OBVIOUS
<1>1. /\ n \in Nat /\ m \in Nat /\ n <= m /\ n \in 1..n
      /\ m \in 1..m /\ m # 1 /\ m - 1 = n /\ m \in Nat \ {0}
  OBVIOUS
<1>2. PICK f : Joins(s, n, f) /\ FlattenSeq(s) = f[n]
  BY FlattenJoins
<1>3. PICK g : Joins(t, m, g) /\ FlattenSeq(t) = g[m]
  <2>1. Len(t) = m
    OBVIOUS
  <2> QED
    BY <1>1, <2>1, FlattenJoins
<1>4. AgreeUpTo(n, f, g)
  <2>1. AgreeUpTo(n, s, t)
    BY DEF AgreeUpTo
  <2> QED
    BY <1>1, <1>2, <1>3, <2>1, JoinsAgree
<1>5. g[m] = g[n] \o t[m]
  BY <1>1, <1>3 DEF Joins
<1> QED
  BY <1>1, <1>2, <1>3, <1>4, <1>5 DEF AgreeUpTo

LEMMA FlattenAppend ==
  ASSUME NEW D, NEW s \in Seq(Seq(D)), s # <<>>, NEW x \in Seq(D)
  PROVE  FlattenSeq(Append(s, x)) = FlattenSeq(s) \o x
<1> DEFINE t == Append(s, x)
           n == Len(s)
<1>1. n \in Nat \ {0} /\ Len(t) = n + 1 /\ t[n + 1] = x /\ \A i \in 1..n : s[i] = t[i]
  OBVIOUS
<1> HIDE DEF t
<1> QED
  BY <1>1, FlattenLonger DEF t

-----------------------------------------------------------------------------
(***************************************************************************)
(* Groups: a function that cuts the numbers of at most n digits exists for *)
(* every n, two of them agree, and the one for all numbers is made of them. *)
(***************************************************************************)
Digits == Seq(0..9)
Short(n) == {d \in Digits : Len(d) <= n}
ButThree(d) == SubSeq(d, 1, Len(d) - 3)
LastThree(d) == SubSeq(d, Len(d) - 2, Len(d))

LEMMA FrontAndBack ==
  ASSUME NEW d \in Digits, Len(d) > 3
  PROVE  /\ ButThree(d) \in Digits /\ Len(ButThree(d)) = Len(d) - 3
         /\ LastThree(d) \in Digits /\ Len(LastThree(d)) = 3
         /\ ButThree(d) \o LastThree(d) = d
<1> DEFINE n == Len(d)
<1>1. n \in Nat /\ n - 3 \in Int /\ n - 2 \in Int /\ 1 <= n - 3 /\ n - 2 <= n
  BY DEF Digits
<1>2. \A i \in 1..n : d[i] \in 0..9
  BY DEF Digits
<1> HIDE DEF n
<1>3. /\ \A i \in 1..n - 3 : d[i] \in 0..9
      /\ \A i \in n - 2..n : d[i] \in 0..9
  BY <1>1, <1>2
<1> DEFINE a == SubSeq(d, 1, n - 3)
           b == SubSeq(d, n - 2, n)
<1>4. /\ a \in Seq(0..9) /\ Len(a) = n - 3
      /\ \A i \in 1..n - 3 : a[i] = d[i]
  <2>1. \A i \in 1..(n - 3) - 1 + 1 : 1 + i - 1 = i
    BY <1>1
  <2> QED
    BY <1>1, <1>3, <2>1, SubSeqProperties
<1>5. /\ b \in Seq(0..9) /\ Len(b) = 3
      /\ \A i \in 1..3 : b[i] = d[n - 3 + i]
  <2>1. \A i \in 1..3 : i \in 1..n - (n - 2) + 1 /\ (n - 2) + i - 1 = n - 3 + i
    BY <1>1
  <2>2. n - (n - 2) + 1 = 3
    BY <1>1
  <2> QED
    BY <1>1, <1>3, <2>1, <2>2, SubSeqProperties
<1> HIDE DEF a, b
<1>6. a \o b = d
  <2>1. /\ a \o b \in Seq(0..9) /\ Len(a \o b) = n
        /\ \A i \in 1..n : (a \o b)[i] = IF i <= n - 3 THEN a[i] ELSE b[i - (n - 3)]
    <3>1. /\ a \o b \in Seq(0..9) /\ Len(a \o b) = Len(a) + Len(b)
          /\ \A i \in 1..Len(a) + Len(b) :
               (a \o b)[i] = IF i <= Len(a) THEN a[i] ELSE b[i - Len(a)]
      BY <1>4, <1>5, ConcatProperties, Zenon
    <3>2. Len(a) + Len(b) = n /\ Len(a) = n - 3
      BY <1>1, <1>4, <1>5
    <3> QED
      BY <3>1, <3>2, Zenon
  <2>2. ASSUME NEW i \in 1..n PROVE (a \o b)[i] = d[i]
    <3>1. CASE i <= n - 3
      BY <1>1, <1>4, <2>1, <3>1
    <3>2. CASE i > n - 3
      <4>1. PICK k : k = i - (n - 3)
        OBVIOUS
      <4>2. k \in 1..3 /\ n - 3 + k = i /\ ~(i <= n - 3)
        BY <1>1, <3>2, <4>1
      <4>3. (a \o b)[i] = b[k]
        BY <2>1, <4>1, <4>2
      <4> QED
        BY <1>5, <4>2, <4>3
    <3>3. i <= n - 3 \/ i > n - 3
      BY <1>1
    <3> QED
      BY <3>1, <3>2, <3>3
  <2>3. d \in Seq(0..9) /\ Len(d) = n
    BY DEF Digits, n
  <2> QED
    BY <2>1, <2>2, <2>3, SeqEqual
<1> QED
  BY <1>4, <1>5, <1>6 DEF ButThree, LastThree, Digits, a, b, n

\* g cuts the sequences of at most n digits into groups.
Cuts(n, g) ==
  g = [d \in Short(n) |-> IF Len(d) <= 3 THEN <<d>> ELSE Append(g[ButThree(d)], LastThree(d))]

LEMMA FrontIsShorter ==
  ASSUME NEW n \in Nat, NEW d \in Short(n + 1), Len(d) > 3
  PROVE  ButThree(d) \in Short(n)
<1>1. d \in Digits /\ Len(d) \in Nat /\ Len(d) <= n + 1
  BY DEF Short, Digits
<1>2. ButThree(d) \in Digits /\ Len(ButThree(d)) = Len(d) - 3
  BY <1>1, FrontAndBack
<1> QED
  BY <1>1, <1>2 DEF Short

LEMMA CutsExist == ASSUME NEW n \in Nat PROVE \E g : Cuts(n, g)
<1> DEFINE S == {k \in Nat : \E g : Cuts(k, g)}
<1>1. 0 \in S
  <2> DEFINE g == [d \in Short(0) |-> <<d>>]
  <2>1. \A d \in Short(0) : Len(d) <= 3
    BY DEF Short, Digits
  <2>2. Cuts(0, g)
    BY <2>1 DEF Cuts
  <2> QED
    BY <2>2
<1>2. ASSUME NEW k \in Nat, k \in S PROVE k + 1 \in S
  <2>1. PICK f : Cuts(k, f)
    BY <1>2
  <2> DEFINE g == [d \in Short(k + 1) |->
                     IF Len(d) <= 3 THEN <<d>> ELSE Append(f[ButThree(d)], LastThree(d))]
  <2>2. ASSUME NEW d \in Short(k + 1), ~(Len(d) <= 3) PROVE g[ButThree(d)] = f[ButThree(d)]
    <3> DEFINE e == ButThree(d)
    <3>1. Len(d) > 3
      BY <2>2 DEF Short, Digits
    <3>2. e \in Short(k) /\ e \in Short(k + 1)
      BY <3>1, FrontIsShorter DEF Short, Digits
    <3> HIDE DEF e
    <3>3. f[e] = IF Len(e) <= 3 THEN <<e>> ELSE Append(f[ButThree(e)], LastThree(e))
      BY <2>1, <3>2 DEF Cuts
    <3>4. g[e] = IF Len(e) <= 3 THEN <<e>> ELSE Append(f[ButThree(e)], LastThree(e))
      BY <3>2
    <3> QED
      BY <3>3, <3>4 DEF e
  <2>3. g = [d \in Short(k + 1) |->
               IF Len(d) <= 3 THEN <<d>> ELSE Append(g[ButThree(d)], LastThree(d))]
    BY <2>2
  <2> HIDE DEF g
  <2>4. Cuts(k + 1, g)
    BY <2>3 DEF Cuts
  <2> QED
    BY <2>4
<1> HIDE DEF S
<1>3. Nat \subseteq S
  BY <1>1, <1>2, SetInduction
<1> QED
  BY <1>3 DEF S

LEMMA CutsAgree ==
  ASSUME NEW n \in Nat, NEW m \in Nat, n <= m, NEW f, NEW g, Cuts(n, f), Cuts(m, g)
  PROVE  \A d \in Short(n) : f[d] = g[d]
<1> DEFINE S == {k \in Nat : \A d \in Short(k) : d \in Short(n) => f[d] = g[d]}
<1>0. ASSUME NEW d \in Short(n)
      PROVE  /\ f[d] = IF Len(d) <= 3 THEN <<d>> ELSE Append(f[ButThree(d)], LastThree(d))
             /\ g[d] = IF Len(d) <= 3 THEN <<d>> ELSE Append(g[ButThree(d)], LastThree(d))
  <2>1. d \in Short(m)
    BY DEF Short, Digits
  <2> QED
    BY <2>1 DEF Cuts
<1>1. 0 \in S
  <2> SUFFICES ASSUME NEW d \in Short(0), d \in Short(n) PROVE f[d] = g[d]
    OBVIOUS
  <2>1. Len(d) <= 3
    BY DEF Short, Digits
  <2>2. f[d] = <<d>> /\ g[d] = <<d>>
    BY <1>0, <2>1
  <2> QED
    BY <2>2
<1>2. ASSUME NEW k \in Nat, k \in S PROVE k + 1 \in S
  <2> SUFFICES ASSUME NEW d \in Short(k + 1), d \in Short(n) PROVE f[d] = g[d]
    OBVIOUS
  <2>1. CASE Len(d) <= 3
    <3>1. f[d] = <<d>> /\ g[d] = <<d>>
      BY <1>0, <2>1
    <3> QED
      BY <3>1
  <2>2. CASE ~(Len(d) <= 3)
    <3>1. Len(d) > 3 /\ d \in Short(n + 1)
      BY <2>2 DEF Short, Digits
    <3>2. ButThree(d) \in Short(k) /\ ButThree(d) \in Short(n)
      BY <3>1, FrontIsShorter
    <3>3. f[ButThree(d)] = g[ButThree(d)]
      BY <1>2, <3>2
    <3> QED
      BY <1>0, <2>2, <3>3
  <2> QED
    BY <2>1, <2>2
<1> HIDE DEF S
<1>3. Nat \subseteq S
  BY <1>1, <1>2, SetInduction
<1> QED
  <2> TAKE d \in Short(n)
  <2>1. n \in S
    BY <1>3
  <2> QED
    BY <2>1 DEF S

LEMMA GroupsOf ==
  ASSUME NEW d \in Digits
  PROVE  Groups[d] = IF Len(d) <= 3 THEN <<d>> ELSE Append(Groups[ButThree(d)], LastThree(d))
<1> DEFINE G == [e \in Digits |-> (CHOOSE g : Cuts(Len(e), g))[e]]
<1>1. ASSUME NEW e \in Digits, NEW n \in Nat, Len(e) <= n, NEW g, Cuts(n, g)
      PROVE  G[e] = g[e]
  <2> DEFINE h == CHOOSE h : Cuts(Len(e), h)
  <2>1. Len(e) \in Nat /\ e \in Short(Len(e))
    BY DEF Short, Digits
  <2>2. Cuts(Len(e), h)
    <3>1. \E f : Cuts(Len(e), f)
      BY <2>1, CutsExist
    <3> QED
      BY <3>1, Zenon
  <2>3. G[e] = h[e]
    OBVIOUS
  <2> HIDE DEF h, G
  <2>4. h[e] = g[e]
    BY <1>1, <2>1, <2>2, CutsAgree
  <2> QED
    BY <2>3, <2>4
<1>2. ASSUME NEW e \in Digits
      PROVE  G[e] = IF Len(e) <= 3 THEN <<e>> ELSE Append(G[ButThree(e)], LastThree(e))
  <2>1. Len(e) \in Nat /\ e \in Short(Len(e))
    BY DEF Short, Digits
  <2>2. PICK g : Cuts(Len(e), g)
    BY <2>1, CutsExist
  <2>3. g[e] = IF Len(e) <= 3 THEN <<e>> ELSE Append(g[ButThree(e)], LastThree(e))
    BY <2>1, <2>2 DEF Cuts
  <2>4. G[e] = g[e]
    <3> HIDE DEF G
    <3> QED
      BY <1>1, <2>1, <2>2
  <2>5. CASE ~(Len(e) <= 3)
    <3>1. ButThree(e) \in Digits /\ Len(ButThree(e)) <= Len(e)
      BY <2>1, <2>5, FrontAndBack
    <3> HIDE DEF G
    <3>2. G[ButThree(e)] = g[ButThree(e)]
      BY <1>1, <2>1, <2>2, <3>1
    <3> QED
      BY <2>3, <2>4, <2>5, <3>2
  <2> HIDE DEF G
  <2> QED
    BY <2>3, <2>4, <2>5
<1>3. G = [e \in Digits |-> IF Len(e) <= 3 THEN <<e>> ELSE Append(G[ButThree(e)], LastThree(e))]
  <2>1. G = [e \in Digits |-> G[e]]
    OBVIOUS
  <2> HIDE DEF G
  <2> QED
    BY <1>2, <2>1
<1> DEFINE Is(g) == g = [digits \in Seq(0..9) |->
       IF Len(digits) <= 3 THEN <<digits>>
       ELSE Append(g[SubSeq(digits, 1, Len(digits) - 3)],
                   SubSeq(digits, Len(digits) - 2, Len(digits)))]
<1> HIDE DEF G
<1>4. Is(G)
  BY <1>3 DEF Digits, ButThree, LastThree
<1>5. Is(Groups)
  <2>1. \E g : Is(g)
    BY <1>4
  <2> QED
    BY <2>1, Zenon DEF Groups
<1> QED
  BY <1>5 DEF Digits, ButThree, LastThree

\* What the groups of a number are: digits that joined give it, of which the
\* last three are a group of their own when there are more.
Grouped(d, g) ==
  /\ g \in Seq(Digits) /\ Len(g) >= 1 /\ FlattenSeq(g) = d
  /\ Len(g) = 1 => Len(d) <= 3
  /\ Len(g) = 2 => Len(d) \in 4..6
  /\ Len(g) > 1 => Len(g[Len(g)]) = 3

LEMMA FewAreOneGroup ==
  ASSUME NEW d \in Digits, Len(d) <= 3 PROVE Grouped(d, Groups[d])
<1>1. Groups[d] = <<d>>
  BY GroupsOf
<1>2. FlattenSeq(<<d>>) = d
  BY FlattenOne
<1>3. <<d>> \in Seq(Digits) /\ Len(<<d>>) = 1
  OBVIOUS
<1> QED
  BY <1>1, <1>2, <1>3 DEF Grouped

LEMMA OneMoreGroup ==
  ASSUME NEW d \in Digits, Len(d) > 3, Grouped(ButThree(d), Groups[ButThree(d)])
  PROVE  Grouped(d, Groups[d])
<1> DEFINE g == Groups[ButThree(d)]
           h == Append(g, LastThree(d))
<1>1. /\ ButThree(d) \in Digits /\ Len(ButThree(d)) = Len(d) - 3
      /\ LastThree(d) \in Digits /\ Len(LastThree(d)) = 3
      /\ ButThree(d) \o LastThree(d) = d
  BY FrontAndBack
<1>2. Groups[d] = h
  <2>1. Len(d) \in Nat /\ ~(Len(d) <= 3)
    BY DEF Digits
  <2>2. Groups[d] = IF Len(d) <= 3 THEN <<d>>
                    ELSE Append(Groups[ButThree(d)], LastThree(d))
    BY GroupsOf
  <2> QED
    BY <2>1, <2>2, Zenon
<1> HIDE DEF g
<1>3. /\ g \in Seq(Digits) /\ Len(g) \in Nat /\ Len(g) >= 1 /\ FlattenSeq(g) = ButThree(d)
      /\ Len(g) = 1 => Len(ButThree(d)) <= 3
  BY DEF Grouped, g
<1>4. h \in Seq(Digits) /\ Len(h) = Len(g) + 1 /\ h[Len(h)] = LastThree(d)
  BY <1>1, <1>3
<1>5. FlattenSeq(h) = d
  <2>1. g \in Seq(Seq(0..9)) /\ g # <<>> /\ LastThree(d) \in Seq(0..9)
    BY <1>1, <1>3 DEF Digits
  <2> QED
    BY <1>1, <1>3, <2>1, FlattenAppend
<1> HIDE DEF h
<1>6. Len(d) \in Nat
  BY DEF Digits
<1>7. Len(h) = 2 => Len(d) \in 4..6
  <2> SUFFICES ASSUME Len(h) = 2 PROVE Len(d) \in 4..6
    OBVIOUS
  <2>1. PICK k \in Nat : k = Len(g)
    BY <1>3
  <2>2. PICK n \in Nat : n = Len(d)
    BY <1>6
  <2>3. 2 = k + 1
    BY <1>4, <2>1
  <2>4. k = 1
    BY <2>3
  <2>5. Len(ButThree(d)) = n - 3 /\ Len(ButThree(d)) <= 3 /\ n > 3
    BY <1>1, <1>3, <2>1, <2>2, <2>4
  <2>6. n - 3 <= 3
    BY <2>5
  <2>7. n \in 4..6
    BY <2>5, <2>6
  <2> QED
    BY <2>2, <2>7
<1> QED
  BY <1>1, <1>2, <1>3, <1>4, <1>5, <1>6, <1>7 DEF Grouped

\* A number that is cut into groups of three is there when they are joined.
THEOREM GroupsJoin == \A d \in Seq(0..9) : Grouped(d, Groups[d])
<1> DEFINE S == {n \in Nat : \A d \in Short(n) : Grouped(d, Groups[d])}
<1>1. 0 \in S
  <2>1. \A d \in Short(0) : d \in Digits /\ Len(d) <= 3
    BY DEF Short, Digits
  <2> QED
    BY <2>1, FewAreOneGroup
<1>2. ASSUME NEW n \in Nat, n \in S PROVE n + 1 \in S
  <2> SUFFICES ASSUME NEW d \in Short(n + 1) PROVE Grouped(d, Groups[d])
    OBVIOUS
  <2>1. d \in Digits /\ (Len(d) <= 3 \/ Len(d) > 3)
    BY DEF Short, Digits
  <2>2. CASE Len(d) > 3
    <3>1. ButThree(d) \in Short(n)
      BY <2>2, FrontIsShorter
    <3>2. Grouped(ButThree(d), Groups[ButThree(d)])
      BY <1>2, <3>1
    <3> QED
      BY <2>1, <2>2, <3>2, OneMoreGroup
  <2> QED
    BY <2>1, <2>2, FewAreOneGroup
<1> HIDE DEF S
<1>3. Nat \subseteq S
  BY <1>1, <1>2, SetInduction
<1> QED
  <2> TAKE d \in Seq(0..9)
  <2>1. Len(d) \in Nat /\ d \in Short(Len(d))
    BY DEF Short, Digits
  <2> QED
    BY <1>3, <2>1 DEF S

-----------------------------------------------------------------------------
LEMMA CutNowhere ==
  ASSUME NEW text, text.groups \in Seq(Digits), text.minus = None
  PROVE  CutAt(text, 0) = Price(FlattenSeq(text.groups), <<>>)
<1> DEFINE g == text.groups
           end == Len(g)
<1>1. SubSeq(g, 1, end) = g
  BY SubSeqFull
<1>2. end \in Nat
  OBVIOUS
<1>3. SubSeq(g, end + 1, end) = <<>>
  <2>1. end + 1 \in Int /\ end \in Int /\ end < end + 1
    BY <1>2
  <2> HIDE DEF end, g
  <2> QED
    BY <2>1, SubSeqEmpty
<1>4. FlattenSeq(<<>>) = <<>>
  BY DEF FlattenSeq
<1>5. (None = "front") = FALSE
  BY DEF None
<1> QED
  BY <1>1, <1>3, <1>4, <1>5 DEF CutAt, Concat, Price

LEMMA CutBeforeLast ==
  ASSUME NEW text, NEW parts \in Seq(Digits), NEW tail \in Digits, Len(parts) >= 1,
         text.groups = parts \o <<tail>>, text.minus = None
  PROVE  CutAt(text, Len(parts)) = Price(FlattenSeq(parts), tail)
<1> DEFINE g == parts \o <<tail>>
           n == Len(parts)
<1>1. n \in Nat /\ n >= 1
  OBVIOUS
<1>2. /\ g \in Seq(Digits) /\ Len(g) = n + 1 /\ g[n + 1] = tail
      /\ \A i \in 1..n : g[i] = parts[i] /\ g[i] \in Digits
  OBVIOUS
<1> HIDE DEF g
<1>3. SubSeq(g, 1, n) = parts
  <2> DEFINE a == SubSeq(g, 1, n)
  <2>1. a \in Seq(Digits) /\ Len(a) = n /\ \A i \in 1..n : a[i] = g[i]
    <3>1. n - 1 + 1 = n /\ \A i \in 1..n : 1 + i - 1 = i
      BY <1>1
    <3> QED
      BY <1>1, <1>2, <3>1, SubSeqProperties
  <2> HIDE DEF a
  <2>2. a = parts
    BY <1>2, <2>1, SeqEqual
  <2> QED
    BY <2>2 DEF a
<1>4. SubSeq(g, n + 1, n + 1) = <<tail>>
  <2> DEFINE m == n + 1
             a == SubSeq(g, m, m)
  <2>1. m \in Int /\ \A i \in m..m : g[i] \in Digits
    BY <1>1, <1>2
  <2>2. m - m + 1 = 1 /\ 1 \in 1..1 /\ m + 1 - 1 = m /\ g[m] = tail
    BY <1>1, <1>2
  <2> HIDE DEF m
  <2>3. a \in Seq(Digits) /\ Len(a) = 1 /\ a[1] = tail
    BY <2>1, <2>2, SubSeqProperties
  <2> HIDE DEF a
  <2>4. a = <<tail>>
    BY <2>3
  <2> QED
    BY <2>4 DEF a, m
<1>5. FlattenSeq(<<tail>>) = tail
  BY FlattenOne
<1>6. (None = "front") = FALSE /\ n # 0
  BY <1>1 DEF None
<1>7. Concat(text.groups, 1, n) = FlattenSeq(parts)
        /\ Concat(text.groups, n + 1, n + 1) = tail /\ Len(text.groups) = n + 1
  BY <1>2, <1>3, <1>4, <1>5 DEF Concat, g
<1> HIDE DEF n
<1> QED
  BY <1>6, <1>7 DEF CutAt, Price, n

\* A text without a fraction: its separators, if any, are all of one kind.
LEMMA ReadsWhole ==
  ASSUME NEW text, NEW n \in Nat, NEW group,
         text.minus = None, text.groups \in Seq(Digits), Len(text.groups) = n + 1,
         FlattenSeq(text.groups) # <<>>,
         Len(text.seps) = n, \A k \in 1..n : text.seps[k] = group,
         n > 0 => /\ group \in Separators /\ Len(text.groups[n + 1]) = 3
                  /\ group = "." => n > 1
  PROVE  parse_price(text) = Price(FlattenSeq(text.groups), <<>>)
<1>1. parse_price(text) = CutAt(text, 0)
  <2> DEFINE tail == Last(text.groups)
             rule == IF n = 0 THEN 0
                     ELSE IF Places(text, ",") # {} /\ Places(text, ".") # {} THEN n
                     ELSE IF Places(text, ",") # {}
                            THEN IF n = 1 /\ FractionTail(tail) THEN n ELSE 0
                     ELSE IF n > 1 /\ Len(tail) = 3 THEN 0 ELSE n
             readable == \/ n = 0 \/ Places(text, ",") = {} \/ Places(text, ".") = {}
                         \/ Places(text, text.seps[n]) = {n}
  <2>1. parse_price(text) = IF FlattenSeq(text.groups) = <<>> \/ text.minus = "inside"
                                 \/ ~readable
                              THEN None ELSE CutAt(text, rule)
    BY Zenon DEF parse_price
  <2>2. text.minus # "inside"
    BY DEF None
  <2>3. rule = 0 /\ readable
    <3>1. CASE n = 0
      BY <3>1
    <3>2. CASE n > 0
      <4>1. Len(tail) = 3
        BY <3>2 DEF Last
      <4>2. ~FractionTail(tail)
        BY <4>1 DEF FractionTail
      <4>3. ASSUME group = "," PROVE Places(text, ".") = {} /\ Places(text, ",") # {}
        <5>1. 1 \in 1..Len(text.seps) /\ text.seps[1] = ","
          <6>1. 1 \in 1..n
            BY <3>2
          <6> QED
            BY <4>3, <6>1
        <5>2. \A k \in 1..Len(text.seps) : text.seps[k] # "."
          BY <4>3
        <5> QED
          BY <5>1, <5>2 DEF Places
      <4>4. ASSUME group = "." PROVE Places(text, ",") = {} /\ n > 1
        <5>1. \A k \in 1..Len(text.seps) : text.seps[k] # ","
          BY <4>4
        <5> QED
          BY <3>2, <4>4, <5>1 DEF Places
      <4>5. group = "," \/ group = "."
        BY <3>2 DEF Separators
      <4>6. Places(text, ",") = {} \/ Places(text, ".") = {}
        BY <4>3, <4>4, <4>5
      <4>7. rule = 0
        <5> HIDE DEF tail
        <5> QED
          BY <3>2, <4>1, <4>2, <4>3, <4>4, <4>5
      <4> HIDE DEF rule
      <4> QED
        BY <4>6, <4>7
    <3>3. n = 0 \/ n > 0
      OBVIOUS
    <3> QED
      BY <3>1, <3>2, <3>3
  <2> HIDE DEF rule, readable
  <2> QED
    BY <2>1, <2>2, <2>3
<1> QED
  BY <1>1, CutNowhere

\* With a comma for its only separator, a text has a fraction of two digits.
CommaIsPoint(n, point, tail) == n = 1 /\ point = "," => FractionTail(tail)

\* A text with a fraction: the last separator is the point, and no other is.
LEMMA ReadsFraction ==
  ASSUME NEW text, NEW parts \in Seq(Digits), NEW n \in Nat \ {0}, Len(parts) = n,
         NEW tail \in Digits, NEW group, NEW point \in Separators,
         CommaIsPoint(n, point, tail),
         text.minus = None, text.groups = parts \o <<tail>>,
         FlattenSeq(parts) # <<>>,
         Len(text.seps) = n, text.seps[n] = point,
         \A k \in 1..n - 1 : text.seps[k] = group,
         n > 1 => group \in Separators \ {point}
  PROVE  parse_price(text) = Price(FlattenSeq(parts), tail)
<1>1. text.groups \in Seq(Digits) /\ Last(text.groups) = tail
  <2>1. Len(parts \o <<tail>>) = n + 1 /\ (parts \o <<tail>>)[n + 1] = tail
    OBVIOUS
  <2> QED
    BY <2>1 DEF Last
<1>2. FlattenSeq(text.groups) # <<>>
  <2>1. parts \in Seq(Seq(0..9)) /\ tail \in Seq(0..9) /\ parts # <<>>
    BY DEF Digits
  <2>2. parts \o <<tail>> = Append(parts, tail)
    OBVIOUS
  <2>3. FlattenSeq(text.groups) = FlattenSeq(parts) \o tail
    BY <2>1, <2>2, FlattenAppend
  <2>4. FlattenSeq(parts) \in Seq(0..9)
    BY <2>1, FlattenType
  <2> QED
    BY <2>1, <2>3, <2>4, ConcatEqualIffEmpty
<1>3. parse_price(text) = CutAt(text, n)
  <2> DEFINE rule == IF n = 0 THEN 0
                     ELSE IF Places(text, ",") # {} /\ Places(text, ".") # {} THEN n
                     ELSE IF Places(text, ",") # {}
                            THEN IF n = 1 /\ FractionTail(tail) THEN n ELSE 0
                     ELSE IF n > 1 /\ Len(tail) = 3 THEN 0 ELSE n
             readable == \/ n = 0 \/ Places(text, ",") = {} \/ Places(text, ".") = {}
                         \/ Places(text, text.seps[n]) = {n}
  <2>1. parse_price(text) = IF FlattenSeq(text.groups) = <<>> \/ text.minus = "inside"
                                 \/ ~readable
                              THEN None ELSE CutAt(text, rule)
    BY <1>1, Zenon DEF parse_price
  <2>2. text.minus # "inside"
    BY DEF None
  <2>3. n \in Places(text, point)
    BY DEF Places
  <2>4. Places(text, point) = {n}
    <3>1. ASSUME NEW k \in 1..n, text.seps[k] = point PROVE k = n
      <4>1. k # n => k \in 1..n - 1 /\ n > 1
        OBVIOUS
      <4> QED
        BY <3>1, <4>1
    <3> QED
      BY <2>3, <3>1 DEF Places
  <2>5. \A sep \in Separators \ {point} : n > 1 => Places(text, sep) # {}
    <3> SUFFICES ASSUME NEW sep \in Separators \ {point}, n > 1
                 PROVE  Places(text, sep) # {}
      OBVIOUS
    <3>1. sep = group
      BY DEF Separators
    <3>2. 1 \in 1..Len(text.seps) /\ text.seps[1] = sep
      BY <3>1
    <3> QED
      BY <3>2 DEF Places
  <2>6. \A sep \in Separators \ {point} : n = 1 => Places(text, sep) = {}
    <3> SUFFICES ASSUME NEW sep \in Separators \ {point}, n = 1
                 PROVE  Places(text, sep) = {}
      OBVIOUS
    <3>1. \A k \in 1..Len(text.seps) : text.seps[k] = point
      OBVIOUS
    <3> QED
      BY <3>1 DEF Places
  <2>7. rule = n /\ readable
    <3> DEFINE C == Places(text, ",")
               P == Places(text, ".")
    <3>1. /\ n = 1 => (point = "," /\ C # {} /\ P = {})
                      \/ (point = "." /\ C = {} /\ P # {})
          /\ n > 1 => C # {} /\ P # {}
          /\ Places(text, text.seps[n]) = {n}
      <4>1. point \in {",", "."} /\ Separators = {",", "."} /\ "," # "."
        BY DEF Separators
      <4>2. Places(text, point) # {}
        BY <2>3
      <4> HIDE DEF C, P
      <4>3. n = 1 => (point = "," /\ C # {} /\ P = {})
                    \/ (point = "." /\ C = {} /\ P # {})
        BY <2>6, <4>1, <4>2 DEF C, P
      <4>4. n > 1 => C # {} /\ P # {}
        BY <2>5, <4>1, <4>2 DEF C, P
      <4> QED
        BY <2>4, <4>3, <4>4
    <3> HIDE DEF C, P
    <3>2. n = 1 \/ n > 1
      OBVIOUS
    <3>3. rule = n
      BY <3>1, <3>2 DEF C, P, CommaIsPoint
    <3>4. readable
      BY <3>1
    <3> QED
      BY <3>3, <3>4
  <2> HIDE DEF rule, readable
  <2> QED
    BY <1>2, <2>1, <2>2, <2>7
<1> QED
  BY <1>3, CutBeforeLast

-----------------------------------------------------------------------------
\* A price is read back, whatever its digits, from every way of writing it that
\* the sites use, except for 1.234, which is one rouble and a part.
AllStyles == {<<None, ".">>, <<None, ",">>, <<".", ",">>, <<",", ".">>}
THEOREM PriceReadsBack ==
  ASSUME NEW whole \in Seq(0..9), whole # <<>>,
         NEW fraction \in Seq(0..9), Len(fraction) <= 2,
         NEW group, NEW point, <<group, point>> \in AllStyles,
         ~LooksLikeFraction(whole, fraction, group)
  PROVE  parse_price(Written(whole, fraction, group, point)) = Price(whole, fraction)
<1> DEFINE parts == IF group = None THEN <<whole>> ELSE Groups[whole]
           n == Len(parts)
           tail == IF fraction = <<>> THEN <<>> ELSE <<fraction>>
           text == Written(whole, fraction, group, point)
<1>1. /\ point \in Separators /\ point # group
      /\ group # None => group \in Separators
  <2>1. \/ group = None /\ point = "."
        \/ group = None /\ point = ","
        \/ group = "." /\ point = ","
        \/ group = "," /\ point = "."
    BY DEF AllStyles
  <2> QED
    BY <2>1 DEF Separators, None
<1>2. /\ parts \in Seq(Digits) /\ n \in Nat \ {0} /\ FlattenSeq(parts) = whole
      /\ n > 1 => group \in Separators /\ Len(parts[n]) = 3
      /\ n = 2 => Len(whole) \in 4..6
  <2>1. CASE group = None
    <3>1. parts = <<whole>> /\ whole \in Digits
      BY <2>1 DEF Digits
    <3>2. FlattenSeq(<<whole>>) = whole
      BY FlattenOne
    <3> HIDE DEF parts
    <3>3. parts \in Seq(Digits) /\ n = 1
      BY <3>1
    <3> QED
      BY <3>1, <3>2, <3>3
  <2>2. CASE group # None
    <3>1. parts = Groups[whole]
      BY <2>2
    <3>2. Grouped(whole, Groups[whole])
      BY GroupsJoin
    <3> HIDE DEF parts
    <3> QED
      BY <1>1, <2>2, <3>1, <3>2 DEF Grouped
  <2> QED
    BY <2>1, <2>2
<1>3. /\ text.minus = None /\ text.groups = parts \o tail
      /\ text.seps = [k \in 1..n - 1 |-> group] \o [k \in 1..Len(tail) |-> point]
  BY DEF Written
<1>4. CASE fraction = <<>>
  <2> HIDE DEF parts, text
  <2>1. text.groups = parts /\ tail = <<>>
    BY <1>2, <1>3, <1>4
  <2>2. Len(text.seps) = n - 1 /\ \A k \in 1..n - 1 : text.seps[k] = group
    BY <1>2, <1>3, <2>1
  <2>3. n - 1 > 0 => /\ group \in Separators /\ Len(text.groups[n]) = 3
                     /\ group = "." => n - 1 > 1
    <3>1. n = 2 => ~(group = ".")
      BY <1>2, <1>4 DEF LooksLikeFraction
    <3> HIDE DEF n, tail
    <3>2. n - 1 > 0 => n > 1
      BY <1>2
    <3>3. n - 1 > 0 /\ group = "." => n - 1 > 1
      BY <1>2, <3>1
    <3> QED
      BY <1>2, <2>1, <3>2, <3>3
  <2> DEFINE m == n - 1
  <2>4. m \in Nat /\ n = m + 1
    BY <1>2
  <2>5. n - 1 = m
    OBVIOUS
  <2> HIDE DEF m, n
  <2>6. parse_price(text) = Price(FlattenSeq(text.groups), <<>>)
    <3>1. Len(text.groups) = m + 1
      BY <2>1, <2>4 DEF n
    <3>2. FlattenSeq(text.groups) # <<>>
      BY <1>2, <2>1
    <3> QED
      BY <1>2, <1>3, <2>1, <2>2, <2>3, <2>4, <2>5, <3>1, <3>2, ReadsWhole
  <2> QED
    BY <1>2, <1>4, <2>1, <2>6 DEF text
<1>5. CASE fraction # <<>>
  <2> HIDE DEF parts, text
  <2>1. text.groups = parts \o <<fraction>> /\ Len(tail) = 1
    BY <1>3, <1>5
  <2>2. /\ Len(text.seps) = n /\ text.seps[n] = point
        /\ \A k \in 1..n - 1 : text.seps[k] = group
    <3> DEFINE a == [k \in 1..n - 1 |-> group]
               b == [k \in 1..1 |-> point]
    <3>1. text.seps = a \o b
      BY <1>3, <2>1
    <3> HIDE DEF n
    <3>2. /\ Len(a) = n - 1 /\ (\A k \in 1..n - 1 : a[k] = group)
          /\ a \in Seq({group, point}) /\ n - 1 \in Nat
      BY <1>2
    <3>3. Len(b) = 1 /\ b[1] = point /\ b \in Seq({group, point})
      OBVIOUS
    <3> HIDE DEF a, b
    <3>4. Len(a) + Len(b) = n /\ n = Len(a) + 1 /\ n - Len(a) = 1 /\ n \in Nat
      BY <1>2, <3>2, <3>3
    <3>5. /\ Len(a \o b) = Len(a) + Len(b)
          /\ \A i \in 1..Len(a) + Len(b) :
               (a \o b)[i] = IF i <= Len(a) THEN a[i] ELSE b[i - Len(a)]
      BY <3>2, <3>3, ConcatProperties
    <3>6. (a \o b)[n] = point
      BY <3>3, <3>4, <3>5
    <3>7. ASSUME NEW k \in 1..n - 1 PROVE (a \o b)[k] = group
      <4>1. k \in 1..n /\ k <= Len(a)
        BY <3>2, <3>4
      <4> QED
        BY <3>2, <3>4, <3>5, <4>1
    <3> QED
      BY <3>1, <3>4, <3>5, <3>6, <3>7
  <2>3. CommaIsPoint(n, point, fraction) /\ fraction \in Digits
    <3> HIDE DEF n, tail
    <3>1. Len(fraction) \in Nat /\ Len(fraction) # 0
      BY <1>5, EmptySeq
    <3>2. PICK k \in Nat : k = Len(fraction)
      BY <3>1
    <3>3. k # 0 /\ k <= 2
      BY <3>1, <3>2
    <3>4. k \in 1..2
      BY <3>3
    <3> QED
      BY <3>2, <3>4 DEF CommaIsPoint, FractionTail, Digits
  <2>4. parse_price(text) = Price(FlattenSeq(parts), fraction)
    <3>1. n > 1 => group \in Separators \ {point}
      BY <1>1, <1>2
    <3>2. Len(parts) = n
      OBVIOUS
    <3> HIDE DEF n, tail
    <3> QED
      BY <1>1, <1>2, <1>3, <2>1, <2>2, <2>3, <3>1, <3>2, ReadsFraction
  <2> QED
    BY <1>2, <2>4 DEF text
<1> QED
  BY <1>4, <1>5

\* Why 1.234 is the exception: a single group is taken for the point, and the
\* thousands are read as roubles, the rest as a part of one.
THEOREM DotIsThePoint ==
  ASSUME NEW whole \in Seq(0..9), NEW fraction, NEW group, NEW point,
         LooksLikeFraction(whole, fraction, group)
  PROVE  parse_price(Written(whole, fraction, group, point))
           = Price(ButThree(whole), LastThree(whole))
<1>1. Len(whole) \in Nat /\ 4 <= Len(whole) /\ Len(whole) <= 6
  <2>1. \A n \in 4..6 : n \in Nat /\ 4 <= n /\ n <= 6
    OBVIOUS
  <2> QED
    BY <2>1, Zenon DEF LooksLikeFraction
<1>2. group # None /\ group \in Separators /\ group # ","
  BY DEF LooksLikeFraction, None, Separators
<1> DEFINE a == ButThree(whole)
           b == LastThree(whole)
           text == Written(whole, fraction, group, point)
<1>3. whole \in Digits /\ Len(whole) > 3 /\ ~(Len(whole) <= 3)
  BY <1>1 DEF Digits
<1>4. a \in Digits /\ Len(a) <= 3 /\ a # <<>> /\ b \in Digits
  <2>1. a \in Digits /\ Len(a) = Len(whole) - 3 /\ b \in Digits
    BY <1>3, FrontAndBack
  <2> HIDE DEF a, b
  <2> QED
    BY <1>1, <2>1
<1>5. Groups[whole] = <<a>> \o <<b>> /\ Len(Groups[whole]) = 2
  <2>1. Groups[whole] = Append(Groups[a], b)
    BY <1>3, GroupsOf
  <2> HIDE DEF a, b
  <2>2. Groups[a] = <<a>>
    BY <1>4, GroupsOf
  <2> QED
    BY <2>1, <2>2
<1>6. /\ text.minus = None /\ text.groups = Groups[whole] \o <<>>
      /\ text.seps = [k \in 1..Len(Groups[whole]) - 1 |-> group]
                       \o [k \in 1..Len(<<>>) |-> point]
  BY <1>2 DEF Written, LooksLikeFraction
<1>7. text.groups = <<a>> \o <<b>>
  <2> HIDE DEF a, b, text
  <2>1. <<a>> \o <<b>> \in Seq(Digits)
    BY <1>4
  <2> QED
    BY <1>5, <1>6, <2>1, ConcatEmptySeq
<1>8. Len(text.seps) = 1 /\ text.seps[1] = group
  <2> DEFINE p == [k \in 1..1 |-> group]
             q == [k \in 1..0 |-> point]
  <2>1. text.seps = p \o q
    <3>1. Len(Groups[whole]) - 1 = 1 /\ Len(<<>>) = 0
      BY <1>5
    <3> QED
      BY <1>6, <3>1
  <2>2. Len(p) = 1 /\ p[1] = group /\ p \in Seq({group, point})
    OBVIOUS
  <2>3. q = <<>>
    OBVIOUS
  <2> HIDE DEF p, q, text
  <2> QED
    BY <2>1, <2>2, <2>3, ConcatEmptySeq
<1> HIDE DEF a, b, text
<1>9. parse_price(text) = Price(FlattenSeq(<<a>>), b)
  <2> DEFINE parts == <<a>>
  <2>1. parts \in Seq(Digits) /\ Len(parts) = 1 /\ FlattenSeq(parts) # <<>>
    BY <1>4, FlattenOne
  <2>2. CommaIsPoint(1, group, b)
    BY <1>2 DEF CommaIsPoint
  <2> HIDE DEF parts
  <2>3. text.groups = parts \o <<b>>
    BY <1>7 DEF parts
  <2>4. parse_price(text) = Price(FlattenSeq(parts), b)
    <3> DEFINE n == 1
    <3>1. n \in Nat \ {0} /\ (\A k \in 1..n - 1 : text.seps[k] = group) /\ ~(n > 1)
      OBVIOUS
    <3>2. Len(parts) = n /\ Len(text.seps) = n /\ text.seps[n] = group
            /\ CommaIsPoint(n, group, b)
      BY <1>8, <2>1, <2>2
    <3> HIDE DEF n
    <3> QED
      BY <1>2, <1>4, <1>6, <2>1, <2>3, <3>1, <3>2, ReadsFraction
  <2> QED
    BY <2>4 DEF parts
<1>10. FlattenSeq(<<a>>) = a
  BY FlattenOne
<1> QED
  BY <1>9, <1>10 DEF text, a, b

-----------------------------------------------------------------------------
\* The prices of a scan are among those that are read back.
THEOREM PricesAreReadBack == ScanSpec => []PricesReadBack
<1>1. PricesReadBack
  <2> SUFFICES ASSUME NEW style \in Styles, NEW whole \in Wholes, NEW fraction \in Fractions
               PROVE  ~LooksLikeFraction(whole, fraction, style[1]) =>
                        parse_price(Written(whole, fraction, style[1], style[2]))
                          = Price(whole, fraction)
    BY Zenon DEF PricesReadBack
  <2>1. whole \in Seq(0..9) /\ whole # <<>>
    <3> DEFINE d == <<1, 0, 0, 2, 3, 4, 0>>
    <3>1. PICK k \in {1, 3, 4, 6, 7} : whole = SubSeq(d, 1, k)
      BY Zenon DEF Wholes
    <3>2. k \in Int /\ 1 <= k /\ k <= 7 /\ k - 1 + 1 = k
      BY <3>1
    <3>3. \A i \in 1..7 : d[i] \in 0..9
      OBVIOUS
    <3> HIDE DEF d
    <3>4. \A i \in 1..k : d[i] \in 0..9
      BY <3>2, <3>3
    <3>5. SubSeq(d, 1, k) \in Seq(0..9) /\ Len(SubSeq(d, 1, k)) = k
      BY <3>2, <3>4, SubSeqProperties
    <3>6. whole \in Seq(0..9) /\ Len(whole) = k
      BY <3>1, <3>5, Zenon
    <3> QED
      BY <3>2, <3>6
  <2>2. fraction \in Seq(0..9) /\ Len(fraction) <= 2
    <3>1. \/ fraction = <<>> \/ fraction = <<5>> \/ fraction = <<0, 5>>
      BY Zenon DEF Fractions
    <3>2. /\ <<>> \in Seq(0..9) /\ Len(<<>>) = 0
          /\ <<5>> \in Seq(0..9) /\ Len(<<5>>) = 1
          /\ <<0, 5>> \in Seq(0..9) /\ Len(<<0, 5>>) = 2
      OBVIOUS
    <3>3. 0 <= 2 /\ 1 <= 2 /\ 2 <= 2
      OBVIOUS
    <3> QED
      BY <3>1, <3>2, <3>3, Zenon
  <2>3. <<style[1], style[2]>> \in AllStyles
    <3>1. style \in AllStyles
      BY Zenon DEF Styles, AllStyles
    <3>2. PICK x, y : style = <<x, y>>
      BY <3>1, Zenon DEF AllStyles
    <3>3. <<style[1], style[2]>> = style
      BY <3>2
    <3> QED
      BY <3>1, <3>3
  <2> QED
    BY <2>1, <2>2, <2>3, PriceReadsBack
<1> QED
  BY <1>1, PTL

=============================================================================
