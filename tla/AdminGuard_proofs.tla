-------------------------- MODULE AdminGuard_proofs --------------------------
(***************************************************************************)
(* What AdminGuard promises for any number of users, requests and restarts. *)
(* Besides the types the invariant says which records the audit log lacks,  *)
(* and what a request nobody has raced knows about the rows.               *)
(***************************************************************************)
EXTENDS AdminGuard, FiniteSetTheorems, TLAPS

\* The request has changed a row and not yet written its record.
Unwritten(q) == q.at \in {"committed", "refreshed"} /\ Writes(q)
Recording(x) == \E r \in Requests : Unwritten(req[r]) /\ Action(req[r]) = x

\* A request that cannot get as far as its record is known to be cut off.
Reached(q, usr, ids) ==
  /\ q.by \notin usr => q.id \in ids
  /\ q.at = "committed" /\ Writes(q) /\ q.target \notin usr => q.id \in ids

\* A request has a number that was given out; only a patch is ever between
\* its two commits.
Numbered ==
  \A r \in Requests : req[r] # Idle =>
    /\ req[r].id \in 1..begun
    /\ req[r].at \in {"committed", "refreshed"} => req[r].op = "patch"
    /\ Reached(req[r], users, cut)

\* A change without a record is about to be recorded or is cut off.
Accounted == \A x \in done : x \in audit \/ Recording(x) \/ x[1] \in cut

\* What a request that has not been raced has loaded, counted and committed
\* still holds.
Knows(q, adm, blk) ==
  HasLoaded(q) /\ ~q.racing =>
    /\ q.at = "authorised" => q.target \in adm /\ q.target \notin blk
    /\ q.at \in {"loaded", "counted"} =>
         q.wasAdmin = (q.target \in adm) /\ q.wasBlocked = (q.target \in blk)
    /\ q.at = "counted" /\ TakesAdmin(q) => ~(Cardinality(adm) <= 1)
    /\ q.at = "committed" =>
         Granted(q.isAdmin, q.target \in adm) /\ Granted(q.isBlocked, q.target \in blk)
Unraced == \A r \in Requests : Knows(req[r], admins, blocked)

IInv == TypeOK /\ Numbered /\ Accounted /\ Unraced

-----------------------------------------------------------------------------
LEMMA IdleIsNoRequest == Idle \notin Request /\ Idle.at = "idle"
BY DEF Idle, Request

\* More than one administrator: taking one leaves another.
LEMMA OneMore ==
  ASSUME NEW S, NEW u, ~(Cardinality(S) <= 1)
  PROVE  S \ {u} # {}
<1>1. SUFFICES ASSUME S \ {u} = {} PROVE FALSE
  OBVIOUS
<1>2. S = {} \/ S = {u}
  BY <1>1
<1>3. Cardinality({}) = 0 /\ Cardinality({u}) = 1
  BY FS_EmptySet, FS_Singleton
<1>4. QED
  BY <1>2, <1>3

\* A request moves without touching a row: it ends, goes on, or writes its record.
LEMMA RequestMoves ==
  ASSUME IInv, NEW r \in Requests, NEW q \in Request \cup {Idle},
         up, req' = [req EXCEPT ![r] = q],
         q # Idle => /\ q.id \in 1..begun'
                     /\ q.at \in {"committed", "refreshed"} => q.op = "patch"
                     /\ Reached(q, users, cut),
         Unwritten(req[r]) =>
           \/ Action(req[r]) \in audit' \/ req[r].id \in cut
           \/ Unwritten(q) /\ Action(q) = Action(req[r]),
         Knows(q, admins, blocked),
         begun' \in 0..MaxRequests, begun <= begun',
         audit \subseteq audit', audit' \subseteq (1..begun') \X {"patch", "delete"} \X Users,
         UNCHANGED <<rows, up, crashes, done, cut>>
  PROVE  IInv'
<1>1. TypeOK /\ req \in [Requests -> Request \cup {Idle}] /\ begun \in 0..MaxRequests
  BY DEF IInv, TypeOK
<1>2. req' \in [Requests -> Request \cup {Idle}] /\ req'[r] = q
        /\ \A s \in Requests : s # r => req'[s] = req[s]
  BY <1>1
<1>3. 1..begun \subseteq 1..begun'
  BY <1>1, AdminAssumption
<1>4. UNCHANGED <<users, admins, blocked, up, crashes, done, cut>>
  BY DEF rows
<1>5. TypeOK'
  <2>1. done' \subseteq (1..begun') \X {"patch", "delete"} \X Users
    BY <1>1, <1>3, <1>4 DEF TypeOK
  <2>2. cut' \subseteq 1..begun'
    BY <1>1, <1>3, <1>4 DEF TypeOK
  <2>3. QED
    BY <1>1, <1>2, <1>4, <2>1, <2>2 DEF TypeOK
<1>6. Numbered'
  <2>1. SUFFICES ASSUME NEW s \in Requests, req'[s] # Idle
                 PROVE  /\ req'[s].id \in 1..begun'
                        /\ req'[s].at \in {"committed", "refreshed"} => req'[s].op = "patch"
                        /\ Reached(req'[s], users', cut')
    BY DEF Numbered
  <2>2. CASE s = r
    BY <1>2, <1>4, <2>1, <2>2
  <2>3. CASE s # r
    <3>1. req'[s] = req[s] /\ req[s] # Idle
      BY <1>2, <2>1, <2>3
    <3>2. /\ req[s].id \in 1..begun /\ Reached(req[s], users, cut)
          /\ req[s].at \in {"committed", "refreshed"} => req[s].op = "patch"
      BY <3>1 DEF IInv, Numbered
    <3>3. QED
      BY <1>3, <1>4, <3>1, <3>2
  <2>4. QED
    BY <2>2, <2>3
<1>7. Accounted'
  <2>1. SUFFICES ASSUME NEW x \in done PROVE x \in audit' \/ Recording(x)' \/ x[1] \in cut
    BY <1>4 DEF Accounted
  <2>2. CASE Recording(x)
    <3>1. PICK s \in Requests : Unwritten(req[s]) /\ Action(req[s]) = x
      BY <2>2 DEF Recording
    <3>2. CASE s # r
      <4>1. req'[s] = req[s]
        BY <1>2, <3>2
      <4>2. Unwritten(req'[s]) /\ Action(req'[s]) = x
        BY <3>1, <4>1
      <4>3. QED
        BY <4>2 DEF Recording
    <3>3. CASE s = r
      <4>1. CASE Unwritten(q) /\ Action(q) = Action(req[r])
        <5>1. Unwritten(req'[r]) /\ Action(req'[r]) = x
          BY <1>2, <3>1, <3>3, <4>1
        <5>2. QED
          BY <5>1 DEF Recording
      <4>2. CASE req[r].id \in cut
        BY <3>1, <3>3, <4>2 DEF Action
      <4>3. QED
        BY <3>1, <3>3, <4>1, <4>2
    <3>4. QED
      BY <3>2, <3>3
  <2>3. CASE x \in audit \/ x[1] \in cut
    BY <2>3
  <2>4. QED
    BY <2>1, <2>2, <2>3 DEF IInv, Accounted
<1>8. Unraced'
  <2>1. SUFFICES ASSUME NEW s \in Requests PROVE Knows(req'[s], admins', blocked')
    BY DEF Unraced
  <2>2. Knows(req[s], admins, blocked)
    BY DEF IInv, Unraced
  <2>3. QED
    BY <1>2, <1>4, <2>2
<1>9. QED
  BY <1>5, <1>6, <1>7, <1>8 DEF IInv

\* The same for a request that has nothing to record.
LEMMA QuietMoves ==
  ASSUME IInv, NEW r \in Requests, NEW q \in Request \cup {Idle},
         up, ~Unwritten(req[r]), req' = [req EXCEPT ![r] = q],
         q # Idle => /\ q.id \in 1..begun'
                     /\ q.at \in {"committed", "refreshed"} => q.op = "patch"
                     /\ Reached(q, users, cut),
         Knows(q, admins, blocked),
         begun' \in 0..MaxRequests, begun <= begun',
         UNCHANGED <<rows, audit, up, crashes, done, cut>>
  PROVE  IInv'
<1>1. begun \in 0..MaxRequests /\ audit \subseteq (1..begun) \X {"patch", "delete"} \X Users
  BY DEF IInv, TypeOK
<1>2. 1..begun \subseteq 1..begun'
  BY <1>1, AdminAssumption
<1>3. audit' \subseteq (1..begun') \X {"patch", "delete"} \X Users /\ audit \subseteq audit'
  BY <1>1, <1>2
<1>4. UNCHANGED <<rows, up, crashes, done, cut>>
  OBVIOUS
<1>5. QED
  BY <1>3, <1>4, RequestMoves

LEMMA CloseKeepsIInv ==
  ASSUME IInv, NEW r \in Requests, up, ~Unwritten(req[r]) \/ req[r].id \in cut, Close(r),
         UNCHANGED <<rows, audit, up, begun, crashes, done, cut>>
  PROVE  IInv'
<1>1. begun' \in 0..MaxRequests /\ begun <= begun'
  BY AdminAssumption DEF IInv, TypeOK
<1>2. Knows(Idle, admins, blocked)
  BY IdleIsNoRequest DEF Knows, HasLoaded
<1>3. audit' \subseteq (1..begun') \X {"patch", "delete"} \X Users /\ audit \subseteq audit'
  BY DEF IInv, TypeOK
<1>4. UNCHANGED <<rows, up, crashes, done, cut>> /\ req' = [req EXCEPT ![r] = Idle]
  BY DEF Close
<1>5. QED
  BY <1>1, <1>2, <1>3, <1>4, RequestMoves

\* While requests are in progress the backend is up.
LEMMA UpWhenServing ==
  ASSUME IInv, NEW r \in Requests, req[r].at # "idle"
  PROVE  up /\ req[r] \in Request /\ req[r] # Idle
BY IdleIsNoRequest DEF IInv, TypeOK

LEMMA AuthoriseKeepsIInv ==
  ASSUME IInv, NEW r \in Requests, NEW a \in Users, NEW u \in Users,
         NEW op \in {"patch", "delete"}, NEW f \in Field, NEW g \in Field,
         Authorise(r, a, u, op, f, g)
  PROVE  IInv'
<1> DEFINE q == [at |-> "authorised", id |-> begun + 1, op |-> op, by |-> a, target |-> u,
                 isAdmin |-> f, isBlocked |-> g,
                 wasAdmin |-> FALSE, wasBlocked |-> FALSE, racing |-> FALSE]
<1>1. begun \in 0..MaxRequests /\ begun < MaxRequests /\ MaxRequests \in Nat
  BY AdminAssumption DEF IInv, TypeOK, Authorise
<1>2. begun + 1 \in 1..MaxRequests /\ begun + 1 \in 1..(begun + 1) /\ begun <= begun + 1
        /\ begun + 1 \in 0..MaxRequests
  BY <1>1
<1>3. q \in Request
  BY <1>2 DEF Request
<1>4. a \in users /\ a \in admins /\ a \notin blocked
  BY DEF Authorise, MayAdminister
<1>5. Knows(q, admins, blocked) /\ Reached(q, users, cut)
  BY <1>4 DEF Knows, HasLoaded, Reached
<1>6. ~Unwritten(req[r])
  BY IdleIsNoRequest DEF Authorise, Unwritten
<1>7. q.id \in 1..(begun + 1) /\ q.at = "authorised"
  BY <1>2
<1>8. /\ up /\ begun' = begun + 1 /\ req' = [req EXCEPT ![r] = q]
      /\ UNCHANGED <<rows, audit, up, crashes, done, cut>>
  BY DEF Authorise
<1> HIDE DEF q
<1>9. QED
  BY <1>2, <1>3, <1>5, <1>6, <1>7, <1>8, QuietMoves

LEMMA LoadKeepsIInv ==
  ASSUME IInv, NEW r \in Requests, Load(r)
  PROVE  IInv'
<1> DEFINE q == req[r]
           k == [q EXCEPT !.at = "loaded",
                   !.wasAdmin = q.target = q.by \/ q.target \in admins,
                   !.wasBlocked = q.target # q.by /\ q.target \in blocked]
<1>1. /\ up /\ q \in Request /\ q # Idle /\ q.at = "authorised" /\ q.id \in 1..begun
      /\ begun \in 0..MaxRequests /\ Reached(q, users, cut) /\ Knows(q, admins, blocked)
  BY UpWhenServing, IdleIsNoRequest DEF Load, IInv, Numbered, TypeOK, Unraced
<1>2. CASE q.target \in users
  <2>1. /\ k \in Request /\ k.id = q.id /\ k.at = "loaded" /\ k.target = q.target
        /\ k.by = q.by /\ k.racing = q.racing
    BY <1>1 DEF Request
  <2>2. /\ k.wasAdmin = (q.target = q.by \/ q.target \in admins)
        /\ k.wasBlocked = (q.target # q.by /\ q.target \in blocked)
    BY <1>1 DEF Request
  <2>3. ~q.racing /\ q.target = q.by => q.target \in admins /\ q.target \notin blocked
    BY <1>1 DEF Knows, HasLoaded
  <2>4. Knows(k, admins, blocked)
    BY <2>1, <2>2, <2>3 DEF Knows
  <2>5. Reached(k, users, cut)
    BY <1>1, <2>1 DEF Reached
  <2>6. req' = [req EXCEPT ![r] = k] /\ UNCHANGED <<rows, audit, up, begun, crashes, done, cut>>
    BY <1>2 DEF Load
  <2>7. begun' = begun /\ begun <= begun' /\ ~Unwritten(q)
    BY <1>1, <2>6 DEF Unwritten
  <2> HIDE DEF k
  <2>8. QED
    BY <1>1, <2>1, <2>4, <2>5, <2>6, <2>7, QuietMoves
<1>3. CASE q.target \notin users
  BY <1>1, <1>3, CloseKeepsIInv DEF Load, Unwritten
<1>4. QED
  BY <1>2, <1>3

LEMMA CheckKeepsIInv ==
  ASSUME IInv, NEW r \in Requests, Check(r)
  PROVE  IInv'
<1> DEFINE q == req[r]
           k == [q EXCEPT !.at = "counted"]
<1>1. /\ up /\ q \in Request /\ q # Idle /\ q.at = "loaded" /\ q.id \in 1..begun
      /\ begun \in 0..MaxRequests /\ Reached(q, users, cut) /\ Knows(q, admins, blocked)
      /\ ~Unwritten(q)
  BY UpWhenServing, IdleIsNoRequest DEF Check, IInv, Numbered, TypeOK, Unraced, Unwritten
<1>2. CASE ~(AboutOneself(q) \/ (TakesAdmin(q) /\ LastAdmin))
  <2>1. k \in Request /\ k.id = q.id /\ k.at = "counted" /\ k.target = q.target
          /\ k.racing = q.racing /\ k.wasAdmin = q.wasAdmin /\ (TakesAdmin(k) <=> TakesAdmin(q))
          /\ k.wasBlocked = q.wasBlocked /\ k.by = q.by
    BY <1>1 DEF Request, TakesAdmin
  <2>2. ~q.racing => q.wasAdmin = (q.target \in admins) /\ q.wasBlocked = (q.target \in blocked)
    BY <1>1 DEF Knows, HasLoaded
  <2>3. TakesAdmin(q) => ~(Cardinality(admins) <= 1)
    BY <1>2 DEF LastAdmin
  <2>4. Knows(k, admins, blocked)
    BY <2>1, <2>2, <2>3 DEF Knows
  <2>5. Reached(k, users, cut)
    BY <1>1, <2>1 DEF Reached
  <2>6. req' = [req EXCEPT ![r] = k] /\ UNCHANGED <<rows, audit, up, begun, crashes, done, cut>>
    BY <1>2 DEF Check
  <2>7. begun' = begun /\ begun <= begun'
    BY <1>1, <2>6
  <2> HIDE DEF k
  <2>8. QED
    BY <1>1, <2>1, <2>4, <2>5, <2>6, <2>7, QuietMoves
<1>3. CASE AboutOneself(q) \/ (TakesAdmin(q) /\ LastAdmin)
  BY <1>1, <1>3, CloseKeepsIInv DEF Check
<1>4. QED
  BY <1>2, <1>3

\* The committed row is read back: the record is still to be written, or the
\* target is gone and the deletion has cut the request off.
LEMMA RefreshKeepsIInv ==
  ASSUME IInv, NEW r \in Requests, Refresh(r)
  PROVE  IInv'
<1> DEFINE q == req[r]
           k == [q EXCEPT !.at = "refreshed"]
<1>1. /\ up /\ q \in Request /\ q # Idle /\ q.at = "committed" /\ q.id \in 1..begun
      /\ begun \in 0..MaxRequests /\ Reached(q, users, cut) /\ q.op = "patch"
      /\ audit \subseteq (1..begun) \X {"patch", "delete"} \X Users
  BY UpWhenServing, IdleIsNoRequest DEF Refresh, IInv, Numbered, TypeOK
<1>2. CASE Found(q)
  <2>1. /\ k \in Request /\ k.id = q.id /\ k.at = "refreshed" /\ k.by = q.by
        /\ k.op = q.op /\ Action(k) = Action(q) /\ (Writes(k) <=> Writes(q))
    BY <1>1 DEF Request, Action, Writes
  <2>2. Knows(k, admins, blocked) /\ Reached(k, users, cut)
    BY <1>1, <2>1 DEF Knows, HasLoaded, Reached
  <2>3. Unwritten(q) => Unwritten(k) /\ Action(k) = Action(q)
    BY <2>1 DEF Unwritten
  <2>4. req' = [req EXCEPT ![r] = k] /\ UNCHANGED <<rows, audit, up, begun, crashes, done, cut>>
    BY <1>2 DEF Refresh
  <2>5. /\ begun' = begun /\ begun <= begun' /\ audit \subseteq audit'
        /\ audit' \subseteq (1..begun') \X {"patch", "delete"} \X Users
    BY <1>1, <2>4
  <2>6. UNCHANGED <<rows, up, crashes, done, cut>>
    BY <2>4
  <2> HIDE DEF k
  <2>7. QED
    BY <1>1, <2>1, <2>2, <2>3, <2>4, <2>5, <2>6, RequestMoves
<1>3. CASE ~Found(q)
  <2>1. Unwritten(q) => q.id \in cut
    BY <1>1, <1>3 DEF Reached, Unwritten, Found
  <2>2. QED
    BY <1>1, <1>3, <2>1, CloseKeepsIInv DEF Refresh
<1>4. QED
  BY <1>2, <1>3

\* A record is written unless its administrator is gone and the request cut off.
LEMMA AuditPatchKeepsIInv ==
  ASSUME IInv, NEW r \in Requests, AuditPatch(r)
  PROVE  IInv'
<1> DEFINE q == req[r]
<1>1. /\ up /\ q \in Request /\ q # Idle /\ q.at = "refreshed" /\ q.id \in 1..begun
      /\ begun \in 0..MaxRequests /\ Reached(q, users, cut)
      /\ audit \subseteq (1..begun) \X {"patch", "delete"} \X Users
  BY UpWhenServing, IdleIsNoRequest DEF AuditPatch, IInv, Numbered, TypeOK
<1>2. /\ audit' = IF CanAudit(q) THEN audit \cup {Action(q)} ELSE audit
      /\ req' = [req EXCEPT ![r] = Idle]
      /\ UNCHANGED <<rows, up, begun, crashes, done, cut>>
  BY DEF AuditPatch, Audited, Close
<1>3. Action(q) \in (1..begun) \X {"patch", "delete"} \X Users
  BY <1>1 DEF Action, Request
<1>4. /\ audit' \subseteq (1..begun') \X {"patch", "delete"} \X Users
      /\ audit \subseteq audit' /\ begun' = begun /\ begun <= begun'
  BY <1>1, <1>2, <1>3
<1>5. Action(q) \in audit' \/ q.id \in cut
  BY <1>1, <1>2 DEF CanAudit, Reached
<1>6. Knows(Idle, admins, blocked)
  BY IdleIsNoRequest DEF Knows, HasLoaded
<1>7. UNCHANGED <<rows, up, crashes, done, cut>>
  BY <1>2
<1>8. QED
  BY <1>1, <1>2, <1>4, <1>5, <1>6, <1>7, RequestMoves

-----------------------------------------------------------------------------
(***************************************************************************)
(* The commits.                                                            *)
(***************************************************************************)
\* The effect of a commit on the other requests.
LEMMA OthersAre ==
  ASSUME IInv, NEW r \in Requests, NEW q \in Request \cup {Idle}, req' = Others(r, q)
  PROVE  /\ req' \in [Requests -> Request \cup {Idle}] /\ req'[r] = q
         /\ \A s \in Requests : s # r =>
              /\ req'[s].at = req[s].at
              /\ \/ req'[s] = Idle
                 \/ /\ req[s] # Idle
                    /\ req'[s].id = req[s].id /\ req'[s].op = req[s].op
                    /\ req'[s].target = req[s].target /\ req'[s].by = req[s].by
                    /\ (Writes(req'[s]) <=> Writes(req[s]))
              /\ HasLoaded(req'[s]) => req'[s].racing
<1>1. \A s \in Requests : req[s] \in Request \cup {Idle}
  BY DEF IInv, TypeOK
<1>2. \A s \in Requests : s # r =>
        IF HasLoaded(req[s]) THEN req'[s] = [req[s] EXCEPT !.racing = TRUE] ELSE req'[s] = req[s]
  BY DEF Others
<1>3. ASSUME NEW k \in Request
      PROVE  LET m == [k EXCEPT !.racing = TRUE] IN
        /\ m \in Request /\ m.at = k.at /\ m.racing
        /\ m.id = k.id /\ m.op = k.op /\ m.target = k.target /\ m.by = k.by
        /\ (Writes(m) <=> Writes(k))
  BY DEF Request, Writes
<1>4. ASSUME NEW s \in Requests, s # r
      PROVE  /\ req'[s] \in Request \cup {Idle}
             /\ req'[s].at = req[s].at
             /\ \/ req'[s] = Idle
                \/ /\ req[s] # Idle
                   /\ req'[s].id = req[s].id /\ req'[s].op = req[s].op
                   /\ req'[s].target = req[s].target /\ req'[s].by = req[s].by
                   /\ (Writes(req'[s]) <=> Writes(req[s]))
             /\ HasLoaded(req'[s]) => req'[s].racing
  <2>1. CASE HasLoaded(req[s])
    <3>1. req[s] # Idle
      BY <2>1, IdleIsNoRequest DEF HasLoaded
    <3>2. req[s] \in Request /\ req'[s] = [req[s] EXCEPT !.racing = TRUE]
      BY <1>1, <1>2, <1>4, <2>1, <3>1
    <3>3. QED
      BY <1>3, <3>1, <3>2
  <2>2. CASE ~HasLoaded(req[s])
    <3>1. req'[s] = req[s]
      BY <1>2, <1>4, <2>2
    <3>2. QED
      BY <1>1, <2>2, <3>1
  <2>3. QED
    BY <2>1, <2>2
<1>5. req'[r] = q /\ DOMAIN req' = Requests /\ req' = [s \in Requests |-> req'[s]]
  BY DEF Others
<1>6. QED
  BY <1>4, <1>5

\* Whatever a commit does to the rows, nobody else is unraced.
LEMMA CommitRacesTheOthers ==
  ASSUME IInv, NEW r \in Requests, NEW q \in Request \cup {Idle}, req' = Others(r, q),
         Knows(q, admins', blocked')
  PROVE  Unraced'
<1>1. SUFFICES ASSUME NEW s \in Requests PROVE Knows(req'[s], admins', blocked')
  BY DEF Unraced
<1>2. CASE s = r
  BY <1>2, OthersAre
<1>3. CASE s # r
  <2>1. HasLoaded(req'[s]) => req'[s].racing
    BY <1>3, OthersAre
  <2>2. QED
    BY <2>1 DEF Knows
<1>4. QED
  BY <1>2, <1>3

LEMMA AssignIsSubset ==
  ASSUME NEW S, NEW T, S \subseteq T, NEW u \in T, NEW was, NEW f
  PROVE  Assign(S, u, was, f) \subseteq T
BY DEF Assign

\* A column written from what it held ends as the body asks for it.
LEMMA AssignGrants ==
  ASSUME NEW S, NEW u, NEW f \in Field
  PROVE  Granted(f, u \in Assign(S, u, u \in S, f))
BY DEF Assign, Changes, Granted, Field

\* The other requests still record what they recorded.
LEMMA RecordersRemain ==
  ASSUME IInv, NEW r \in Requests, ~Unwritten(req[r]),
         NEW q \in Request \cup {Idle}, req' = Others(r, q), NEW x, Recording(x)
  PROVE  Recording(x)'
<1>1. PICK s \in Requests : Unwritten(req[s]) /\ Action(req[s]) = x
  BY DEF Recording
<1>2. s # r /\ req[s] # Idle
  BY <1>1, IdleIsNoRequest DEF Unwritten
<1>3. req'[s].at = req[s].at /\ req'[s] # Idle
  BY <1>1, <1>2, OthersAre, IdleIsNoRequest DEF Unwritten
<1>4. Action(req'[s]) = Action(req[s]) /\ Unwritten(req'[s])
  BY <1>1, <1>2, <1>3, OthersAre DEF Action, Unwritten
<1>5. QED
  BY <1>1, <1>4 DEF Recording

LEMMA CommitPatchKeepsIInv ==
  ASSUME IInv, NEW r \in Requests, CommitPatch(r)
  PROVE  IInv'
<1> DEFINE q == req[r]
           k == [q EXCEPT !.at = "committed"]
<1>1. /\ TypeOK /\ up /\ q \in Request /\ q # Idle /\ q.at = "counted" /\ q.op = "patch"
      /\ q.id \in 1..begun /\ begun \in 0..MaxRequests /\ ~Unwritten(q)
      /\ Reached(q, users, cut) /\ Knows(q, admins, blocked)
  BY UpWhenServing, IdleIsNoRequest
     DEF CommitPatch, IInv, Numbered, TypeOK, Unwritten, Unraced
<1>2. CASE Found(q) \/ ~Writes(q)
  <2>1. /\ k \in Request /\ k.at = "committed" /\ k.id = q.id /\ k.op = q.op
        /\ k.target = q.target /\ k.by = q.by /\ (Writes(k) <=> Writes(q))
        /\ Action(k) = Action(q) /\ k.racing = q.racing
        /\ k.isAdmin = q.isAdmin /\ k.isBlocked = q.isBlocked
    BY <1>1 DEF Request, Writes, Action
  <2>2. /\ admins' = Assign(admins, q.target, q.wasAdmin, q.isAdmin)
        /\ blocked' = Assign(blocked, q.target, q.wasBlocked, q.isBlocked)
        /\ done' = IF Writes(q) THEN done \cup {Action(q)} ELSE done
        /\ req' = Others(r, k)
        /\ UNCHANGED <<users, audit, up, begun, crashes, cut>>
    BY <1>2 DEF CommitPatch
  <2> HIDE DEF k
  <2>3. admins' \subseteq users' /\ blocked' \subseteq users' /\ users' \subseteq Users
    <3>1. CASE Found(q)
      BY <1>1, <2>2, <3>1, AssignIsSubset DEF TypeOK, Found
    <3>2. CASE ~Writes(q)
      BY <1>1, <2>2, <3>2 DEF TypeOK, Writes, Assign
    <3>3. QED
      BY <1>2, <3>1, <3>2
  <2>4. Action(q) \in (1..begun) \X {"patch", "delete"} \X Users
    BY <1>1 DEF Action, Request
  <2>5. done' \subseteq (1..begun') \X {"patch", "delete"} \X Users
    BY <1>1, <2>2, <2>4 DEF TypeOK
  <2>6. TypeOK'
    BY <1>1, <2>1, <2>2, <2>3, <2>5, OthersAre DEF TypeOK
  <2>7. Numbered'
    <3>1. Reached(k, users, cut)
      BY <1>1, <1>2, <2>1 DEF Reached, Found
    <3>2. req'[r].id \in 1..begun' /\ req'[r].op = "patch" /\ Reached(req'[r], users', cut')
      BY <1>1, <2>1, <2>2, <3>1, OthersAre
    <3>3. ASSUME NEW s \in Requests, s # r, req'[s] # Idle
          PROVE  /\ req'[s].id \in 1..begun'
                 /\ req'[s].at \in {"committed", "refreshed"} => req'[s].op = "patch"
                 /\ Reached(req'[s], users', cut')
      <4>1. /\ req[s] # Idle /\ req'[s].id = req[s].id /\ req'[s].op = req[s].op
            /\ req'[s].at = req[s].at /\ req'[s].target = req[s].target
            /\ req'[s].by = req[s].by /\ (Writes(req'[s]) <=> Writes(req[s]))
        BY <2>1, <2>2, <3>3, OthersAre
      <4>2. /\ req[s].id \in 1..begun /\ Reached(req[s], users, cut)
            /\ req[s].at \in {"committed", "refreshed"} => req[s].op = "patch"
        BY <4>1 DEF IInv, Numbered
      <4>3. QED
        BY <2>2, <4>1, <4>2 DEF Reached
    <3>4. QED
      BY <3>2, <3>3 DEF Numbered
  <2>8. Accounted'
    <3>1. ASSUME Writes(q), NEW x, x = Action(q) PROVE Recording(x)'
      <4>1. Unwritten(k) /\ req'[r] = k
        BY <2>1, <2>2, <3>1, OthersAre DEF Unwritten
      <4>2. Unwritten(req'[r]) /\ Action(req'[r]) = x
        BY <2>1, <3>1, <4>1
      <4>3. QED
        BY <4>2 DEF Recording
    <3>2. ASSUME NEW x, Recording(x) PROVE Recording(x)'
      BY <1>1, <2>1, <2>2, <3>2, RecordersRemain
    <3>3. SUFFICES ASSUME NEW x \in done'
                   PROVE  x \in audit' \/ Recording(x)' \/ x[1] \in cut'
      BY DEF Accounted
    <3>4. CASE x \in done
      BY <2>2, <3>2, <3>4 DEF IInv, Accounted
    <3>5. CASE Writes(q) /\ x = Action(q)
      BY <3>1, <3>5
    <3>6. QED
      BY <2>2, <3>4, <3>5
  <2>9. Knows(k, admins', blocked')
    <3>1. SUFFICES ASSUME ~q.racing
                   PROVE  /\ Granted(q.isAdmin, q.target \in admins')
                          /\ Granted(q.isBlocked, q.target \in blocked')
      BY <2>1 DEF Knows
    <3>2. q.wasAdmin = (q.target \in admins) /\ q.wasBlocked = (q.target \in blocked)
      BY <1>1, <3>1 DEF Knows, HasLoaded
    <3>3. q.isAdmin \in Field /\ q.isBlocked \in Field
      BY <1>1 DEF Request
    <3>4. /\ Granted(q.isAdmin,
                     q.target \in Assign(admins, q.target, q.target \in admins, q.isAdmin))
          /\ Granted(q.isBlocked,
                     q.target \in Assign(blocked, q.target, q.target \in blocked, q.isBlocked))
      BY <3>3, AssignGrants
    <3>5. QED
      BY <2>2, <3>2, <3>4
  <2>10. Unraced'
    BY <2>1, <2>2, <2>9, CommitRacesTheOthers
  <2>11. QED
    BY <2>6, <2>7, <2>8, <2>10 DEF IInv
<1>3. CASE ~(Found(q) \/ ~Writes(q))
  BY <1>1, <1>3, CloseKeepsIInv DEF CommitPatch, rows
<1>4. QED
  BY <1>2, <1>3

\* Requests that are cut off have numbers that were given out.
LEMMA IdsWereGiven ==
  ASSUME IInv, NEW set \in SUBSET Requests, \A s \in set : req[s] # Idle
  PROVE  cut \cup Ids(set) \subseteq 1..begun
<1>1. cut \subseteq 1..begun
  BY DEF IInv, TypeOK
<1>2. \A s \in set : req[s].id \in 1..begun
  BY DEF IInv, Numbered
<1>3. QED
  BY <1>1, <1>2 DEF Ids

LEMMA CommitDeleteKeepsIInv ==
  ASSUME IInv, NEW r \in Requests, CommitDelete(r)
  PROVE  IInv'
<1> DEFINE q == req[r]
<1>1. /\ TypeOK /\ up /\ q \in Request /\ q # Idle /\ q.at = "counted" /\ q.op = "delete"
      /\ q.id \in 1..begun /\ begun \in 0..MaxRequests /\ ~Unwritten(q)
  BY UpWhenServing, IdleIsNoRequest DEF CommitDelete, IInv, Numbered, TypeOK, Unwritten
<1>2. CASE CanAudit(q)
  <2>1. /\ audit' = audit \cup {Action(q)} /\ done' = done \cup {Action(q)}
        /\ users' = users \ {q.target} /\ admins' = admins \ {q.target}
        /\ blocked' = blocked \ {q.target}
        /\ cut' = cut \cup Ids(CutBy(q.target))
        /\ req' = Others(r, Idle) /\ UNCHANGED <<up, begun, crashes>>
    BY <1>2 DEF CommitDelete, Audited
  <2>2. Action(q) \in (1..begun) \X {"patch", "delete"} \X Users
    BY <1>1 DEF Action, Request
  <2>3. /\ done' \subseteq (1..begun') \X {"patch", "delete"} \X Users
        /\ audit' \subseteq (1..begun') \X {"patch", "delete"} \X Users
    BY <1>1, <2>1, <2>2 DEF TypeOK
  <2>4. CutBy(q.target) \subseteq Requests /\ \A s \in CutBy(q.target) : req[s] # Idle
    BY IdleIsNoRequest DEF CutBy
  <2>5. cut' \subseteq 1..begun'
    BY <2>1, <2>4, IdsWereGiven
  <2>6. TypeOK'
    BY <1>1, <2>1, <2>3, <2>5, OthersAre DEF TypeOK
  <2>7. Numbered'
    <3>1. SUFFICES ASSUME NEW s \in Requests, req'[s] # Idle
                   PROVE  /\ req'[s].id \in 1..begun'
                          /\ req'[s].at \in {"committed", "refreshed"} => req'[s].op = "patch"
                          /\ Reached(req'[s], users', cut')
      BY DEF Numbered
    <3>2. s # r
      BY <2>1, <3>1, OthersAre
    <3>3. /\ req[s] # Idle /\ req'[s].id = req[s].id /\ req'[s].op = req[s].op
          /\ req'[s].at = req[s].at /\ req'[s].target = req[s].target
          /\ req'[s].by = req[s].by /\ (Writes(req'[s]) <=> Writes(req[s]))
      BY <2>1, <3>1, <3>2, OthersAre
    <3>4. /\ req[s].id \in 1..begun /\ Reached(req[s], users, cut)
          /\ req[s].at \in {"committed", "refreshed"} => req[s].op = "patch"
      BY <3>3 DEF IInv, Numbered
    <3>5. s \in CutBy(q.target) => req[s].id \in cut'
      BY <2>1 DEF Ids
    <3>6. req[s].by = q.target => s \in CutBy(q.target)
      BY <3>3 DEF CutBy
    <3>7. req[s].at = "committed" /\ req[s].target = q.target => s \in CutBy(q.target)
      BY DEF CutBy
    <3>8. Reached(req'[s], users', cut')
      BY <2>1, <3>3, <3>4, <3>5, <3>6, <3>7 DEF Reached
    <3>9. QED
      BY <2>1, <3>3, <3>4, <3>8
  <2>8. Accounted'
    <3>1. SUFFICES ASSUME NEW x \in done'
                   PROVE  x \in audit' \/ Recording(x)' \/ x[1] \in cut'
      BY DEF Accounted
    <3>2. CASE x = Action(q)
      BY <2>1, <3>2
    <3>3. CASE x \in done
      <4>1. x \in audit \/ Recording(x) \/ x[1] \in cut
        BY <3>3 DEF IInv, Accounted
      <4>2. Recording(x) => Recording(x)'
        BY <1>1, <2>1, RecordersRemain
      <4>3. QED
        BY <2>1, <4>1, <4>2
    <3>4. QED
      BY <2>1, <3>2, <3>3
  <2>9. Unraced'
    <3>1. Knows(Idle, admins', blocked')
      BY IdleIsNoRequest DEF Knows, HasLoaded
    <3>2. QED
      BY <2>1, <3>1, CommitRacesTheOthers
  <2>10. QED
    BY <2>6, <2>7, <2>8, <2>9 DEF IInv
<1>3. CASE ~CanAudit(q)
  BY <1>1, <1>3, CloseKeepsIInv DEF CommitDelete
<1>4. QED
  BY <1>2, <1>3

-----------------------------------------------------------------------------
(***************************************************************************)
(* Restarts.                                                               *)
(***************************************************************************)
LEMMA CrashKeepsIInv ==
  ASSUME IInv, Crash
  PROVE  IInv'
<1> DEFINE S == {r \in Requests : req[r].at \in {"committed", "refreshed"}}
<1>1. /\ TypeOK /\ crashes' = crashes + 1 /\ crashes < MaxCrashes /\ crashes \in 0..MaxCrashes
      /\ MaxCrashes \in Nat /\ up' = FALSE /\ cut' = cut \cup Ids(S)
      /\ UNCHANGED <<users, admins, blocked, audit, begun, done>>
  BY AdminAssumption DEF IInv, TypeOK, Crash, rows
<1>2. crashes' \in 0..MaxCrashes
  BY <1>1
<1>3. req' \in [Requests -> Request \cup {Idle}] /\ \A r \in Requests : req'[r] = Idle
  BY DEF Crash
<1>4. S \subseteq Requests /\ \A s \in S : req[s] # Idle
  BY IdleIsNoRequest
<1>5. cut' \subseteq 1..begun'
  BY <1>1, <1>4, IdsWereGiven
<1>6. TypeOK'
  BY <1>1, <1>2, <1>3, <1>5 DEF TypeOK
<1>7. Numbered' /\ Unraced'
  BY <1>3, IdleIsNoRequest DEF Numbered, Unraced, Knows, HasLoaded
<1>8. Accounted'
  <2>1. SUFFICES ASSUME NEW x \in done PROVE x \in audit \/ x[1] \in cut'
    BY <1>1 DEF Accounted
  <2>2. ASSUME Recording(x) PROVE x[1] \in cut'
    <3>1. PICK s \in Requests : Unwritten(req[s]) /\ Action(req[s]) = x
      BY <2>2 DEF Recording
    <3>2. s \in S /\ x[1] = req[s].id
      BY <3>1 DEF Unwritten, Action
    <3>3. QED
      BY <1>1, <3>2 DEF Ids
  <2>3. QED
    BY <1>1, <2>1, <2>2 DEF IInv, Accounted
<1>9. QED
  BY <1>6, <1>7, <1>8 DEF IInv

LEMMA BootstrapKeepsIInv ==
  ASSUME IInv, Bootstrap
  PROVE  IInv'
<1>1. /\ TypeOK /\ ~up /\ up' = TRUE /\ admins' = Restored /\ users' = users \cup Restored
      /\ UNCHANGED <<blocked, audit, req, begun, crashes, done, cut>>
  BY DEF IInv, TypeOK, Bootstrap
<1>2. \A r \in Requests : req[r] = Idle
  BY <1>1 DEF TypeOK
<1>3. Restored \subseteq Users
  BY <1>1, AdminAssumption DEF Restored, TypeOK
<1>4. TypeOK'
  BY <1>1, <1>2, <1>3 DEF TypeOK
<1>5. Numbered' /\ Unraced'
  BY <1>1, <1>2, IdleIsNoRequest DEF Numbered, Unraced, Knows, HasLoaded
<1>6. Accounted'
  BY <1>1 DEF IInv, Accounted, Recording
<1>7. QED
  BY <1>4, <1>5, <1>6 DEF IInv

-----------------------------------------------------------------------------
LEMMA InitIInv == Init => IInv
<1>1. SUFFICES ASSUME Init PROVE IInv
  OBVIOUS
<1>2. TypeOK
  BY <1>1, AdminAssumption DEF Init, TypeOK
<1>3. Numbered /\ Unraced
  BY <1>1, IdleIsNoRequest DEF Init, Numbered, Unraced, Knows, HasLoaded
<1>4. Accounted
  BY <1>1 DEF Init, Accounted
<1>5. QED
  BY <1>2, <1>3, <1>4 DEF IInv

LEMMA StutterKeepsIInv ==
  ASSUME IInv, UNCHANGED vars
  PROVE  IInv'
<1>1. UNCHANGED <<users, admins, blocked, audit, up, req, begun, crashes, done, cut>>
  BY DEF vars, rows
<1>2. TypeOK' /\ Numbered' /\ Unraced'
  BY <1>1 DEF IInv, TypeOK, Numbered, Unraced
<1>3. Accounted'
  BY <1>1 DEF IInv, Accounted, Recording
<1>4. QED
  BY <1>2, <1>3 DEF IInv

LEMMA NextKeepsIInv == IInv /\ [Next]_vars => IInv'
<1>1. SUFFICES ASSUME IInv, [Next]_vars PROVE IInv'
  OBVIOUS
<1>2. ASSUME NEW r \in Requests, NEW a \in Users, NEW u \in Users, NEW p \in Patches,
             Authorise(r, a, u, "patch", p[1], p[2])
      PROVE  IInv'
  <2>1. p[1] \in Field /\ p[2] \in Field
    BY AdminAssumption DEF Field
  <2>2. QED
    BY <1>1, <1>2, <2>1, AuthoriseKeepsIInv
<1>3. ASSUME NEW r \in Requests, NEW a \in Users, NEW u \in Users,
             Authorise(r, a, u, "delete", "absent", "absent")
      PROVE  IInv'
  BY <1>1, <1>3, AuthoriseKeepsIInv DEF Field
<1>4. ASSUME NEW r \in Requests, Load(r) \/ Check(r) \/ Refresh(r) \/ AuditPatch(r)
      PROVE  IInv'
  BY <1>1, <1>4, LoadKeepsIInv, CheckKeepsIInv, RefreshKeepsIInv, AuditPatchKeepsIInv
<1>5. ASSUME NEW r \in Requests, CommitPatch(r) \/ CommitDelete(r)
      PROVE  IInv'
  BY <1>1, <1>5, CommitPatchKeepsIInv, CommitDeleteKeepsIInv
<1>6. CASE Crash \/ Bootstrap
  BY <1>1, <1>6, CrashKeepsIInv, BootstrapKeepsIInv
<1>7. CASE UNCHANGED vars
  BY <1>1, <1>7, StutterKeepsIInv
<1>8. QED
  BY <1>1, <1>2, <1>3, <1>4, <1>5, <1>6, <1>7 DEF Next

LEMMA Invariance == Spec => []IInv
BY InitIInv, NextKeepsIInv, PTL DEF Spec

\* Rows, flags, requests and records keep to their types, and flags belong to
\* users that exist (users.py: patch_user, delete_user; admin_bootstrap.py).
THEOREM TypeCorrect == Spec => []TypeOK
<1>1. IInv => TypeOK
  BY DEF IInv
<1>2. QED
  BY <1>1, Invariance, PTL

\* A change that is in no record is still being served, or was cut off from its
\* record by a restart, by the deletion of the administrator who made it or by
\* that of its target before the refresh (users.py:189-198, 239-241).
THEOREM ChangesAreAudited == Spec => []AuditAccounts
<1>1. IInv => AuditAccounts
  <2>1. SUFFICES ASSUME IInv PROVE AuditAccounts
    OBVIOUS
  <2>2. \A x : Recording(x) => Serving(x[1])
    BY IdleIsNoRequest DEF Recording, Serving, Action, Unwritten
  <2>3. QED
    BY <2>1, <2>2 DEF IInv, Accounted, AuditAccounts
<1>2. QED
  BY <1>1, Invariance, PTL

-----------------------------------------------------------------------------
(***************************************************************************)
(* The last administrator, and patches of one user that overlap.           *)
(***************************************************************************)
\* Without a race a commit leaves an administrator.
LEMMA PatchLeavesAdmin ==
  ASSUME IInv, NEW r \in Requests, CommitPatch(r), ~req[r].racing, admins # {}
  PROVE  admins' # {}
<1> DEFINE q == req[r]
<1>1. q \in Request /\ q.at = "counted" /\ Knows(q, admins, blocked)
  BY UpWhenServing DEF CommitPatch, IInv, Unraced
<1>2. CASE UNCHANGED admins
  BY <1>2
<1>3. CASE admins' = Assign(admins, q.target, q.wasAdmin, q.isAdmin)
  <2>1. CASE Changes(q.wasAdmin, q.isAdmin) /\ q.wasAdmin
    <3>1. TakesAdmin(q) /\ admins' = admins \ {q.target}
      BY <1>3, <2>1 DEF TakesAdmin, Changes, Assign
    <3>2. ~(Cardinality(admins) <= 1)
      BY <1>1, <3>1 DEF Knows, HasLoaded
    <3>3. QED
      BY <3>1, <3>2, OneMore
  <2>2. CASE ~(Changes(q.wasAdmin, q.isAdmin) /\ q.wasAdmin)
    BY <1>3, <2>2 DEF Assign
  <2>3. QED
    BY <2>1, <2>2
<1>4. QED
  BY <1>2, <1>3 DEF CommitPatch

LEMMA DeleteLeavesAdmin ==
  ASSUME IInv, NEW r \in Requests, CommitDelete(r), ~req[r].racing, admins # {}
  PROVE  admins' # {}
<1> DEFINE q == req[r]
<1>1. q \in Request /\ q.at = "counted" /\ q.op = "delete" /\ Knows(q, admins, blocked)
  BY UpWhenServing DEF CommitDelete, IInv, Unraced
<1>2. admins' = admins \/ admins' = admins \ {q.target}
  BY DEF CommitDelete, rows
<1>3. q.wasAdmin = (q.target \in admins)
  BY <1>1 DEF Knows, HasLoaded
<1>4. CASE q.wasAdmin
  <2>1. ~(Cardinality(admins) <= 1)
    BY <1>1, <1>4 DEF Knows, HasLoaded, TakesAdmin
  <2>2. QED
    BY <1>2, <2>1, OneMore
<1>5. CASE ~q.wasAdmin
  BY <1>2, <1>3, <1>5
<1>6. QED
  BY <1>4, <1>5

\* A request that commits does not stay as it was.
LEMMA CommitMoves ==
  ASSUME IInv, NEW r \in Requests, CommitPatch(r) \/ CommitDelete(r)
  PROVE  req[r] # Idle /\ req'[r] # req[r]
<1>1. req[r] \in Request /\ req[r].at = "counted" /\ req \in [Requests -> Request \cup {Idle}]
  BY UpWhenServing DEF CommitPatch, CommitDelete, IInv, TypeOK
<1>2. [req[r] EXCEPT !.at = "committed"].at = "committed"
  BY <1>1 DEF Request
<1>3. req'[r] = Idle \/ req'[r] = [req[r] EXCEPT !.at = "committed"]
  BY <1>1 DEF CommitPatch, CommitDelete, Others, Close
<1>4. QED
  BY <1>1, <1>2, <1>3, IdleIsNoRequest

\* Only a commit or a start touches the flags of a user.
LEMMA WhoWrites ==
  ASSUME Next
  PROVE  \/ \E r \in Requests : CommitPatch(r) \/ CommitDelete(r)
         \/ Bootstrap
         \/ UNCHANGED rows
BY DEF Next, Authorise, Load, Check, Refresh, AuditPatch, Crash

\* The guards of patch_user and delete_user suffice as long as no other request
\* commits between the load of the target and the commit.
THEOREM LastAdminSafeUnlessRaced == Spec => LastAdminNeedsRace
<1> DEFINE Loses == admins # {} /\ admins' = {} =>
             \E r \in Requests : req[r] # Idle /\ req[r].racing /\ req'[r] # req[r]
<1>1. IInv /\ [Next]_vars => [Loses]_vars
  <2>1. SUFFICES ASSUME IInv, Next, admins # {}, admins' = {}
                 PROVE  \E r \in Requests : req[r] # Idle /\ req[r].racing /\ req'[r] # req[r]
    OBVIOUS
  <2>2. ~UNCHANGED rows /\ ~Bootstrap
    BY <2>1 DEF rows, Bootstrap, Restored
  <2>3. PICK r \in Requests : CommitPatch(r) \/ CommitDelete(r)
    BY <2>1, <2>2, WhoWrites
  <2>4. req[r].racing
    BY <2>1, <2>3, PatchLeavesAdmin, DeleteLeavesAdmin
  <2>5. QED
    BY <2>1, <2>3, <2>4, CommitMoves
<1>2. QED
  BY <1>1, Invariance, PTL DEF Spec, LastAdminNeedsRace

\* A column changes only as the request that writes it asks.
LEMMA AssignAsks ==
  ASSUME NEW S, NEW u, NEW v, NEW was, NEW f, (u \in S) # (u \in Assign(S, v, was, f))
  PROVE  u = v /\ f = IF u \in S THEN "false" ELSE "true"
BY DEF Assign, Changes

\* Overlapping patches neither undo one another nor answer with anything but
\* what was asked for, unless raced (users.py: patch_user).
THEOREM PatchesMergeColumns == Spec => PatchesMerge
<1> DEFINE ByRequest == up => \A u \in Users :
             /\ (u \in admins) # (u \in admins') =>
                  \E r \in Requests : Asks(r, u, req[r].isAdmin, admins) /\ req'[r] # req[r]
             /\ (u \in blocked) # (u \in blocked') =>
                  \E r \in Requests : Asks(r, u, req[r].isBlocked, blocked) /\ req'[r] # req[r]
           Answered == \A r \in Requests :
             req[r].at = "committed" /\ req'[r].at = "refreshed" /\ ~req[r].racing =>
               /\ Granted(req[r].isAdmin, req[r].target \in admins)
               /\ Granted(req[r].isBlocked, req[r].target \in blocked)
<1>1. ASSUME IInv, Next PROVE ByRequest
  <2>1. SUFFICES ASSUME up, NEW u \in Users
                 PROVE  /\ (u \in admins) # (u \in admins') =>
                             \E r \in Requests : Asks(r, u, req[r].isAdmin, admins) /\ req'[r] # req[r]
                        /\ (u \in blocked) # (u \in blocked') =>
                             \E r \in Requests : Asks(r, u, req[r].isBlocked, blocked) /\ req'[r] # req[r]
    OBVIOUS
  <2>2. CASE UNCHANGED rows
    BY <2>2 DEF rows
  <2>3. ASSUME NEW r \in Requests, CommitPatch(r)
        PROVE  /\ (u \in admins) # (u \in admins') => Asks(r, u, req[r].isAdmin, admins)
               /\ (u \in blocked) # (u \in blocked') => Asks(r, u, req[r].isBlocked, blocked)
    <3>1. CASE UNCHANGED <<admins, blocked>>
      BY <3>1
    <3>2. CASE /\ admins' = Assign(admins, req[r].target, req[r].wasAdmin, req[r].isAdmin)
               /\ blocked' = Assign(blocked, req[r].target, req[r].wasBlocked, req[r].isBlocked)
      BY <2>3, <3>2, AssignAsks DEF CommitPatch, Asks
    <3>3. QED
      BY <2>3, <3>1, <3>2 DEF CommitPatch
  <2>4. ASSUME NEW r \in Requests, CommitDelete(r)
        PROVE  /\ (u \in admins) # (u \in admins') => Asks(r, u, req[r].isAdmin, admins)
               /\ (u \in blocked) # (u \in blocked') => Asks(r, u, req[r].isBlocked, blocked)
    BY <2>4 DEF CommitDelete, Asks, rows
  <2>5. ~Bootstrap
    BY <2>1 DEF Bootstrap
  <2>6. QED
    BY <1>1, <2>2, <2>3, <2>4, <2>5, WhoWrites, CommitMoves
<1>2. ASSUME IInv, Next PROVE Answered
  <2>1. SUFFICES ASSUME NEW r \in Requests, req[r].at = "committed", ~req[r].racing
                 PROVE  /\ Granted(req[r].isAdmin, req[r].target \in admins)
                        /\ Granted(req[r].isBlocked, req[r].target \in blocked)
    OBVIOUS
  <2>2. QED
    BY <1>2, <2>1 DEF IInv, Unraced, Knows, HasLoaded
<1>3. IInv /\ [Next]_vars => [ByRequest /\ Answered]_vars
  BY <1>1, <1>2
<1>4. [ByRequest /\ Answered]_vars =>
        [/\ \A u \in Users : up /\ (u \in admins) # (u \in admins') =>
              \E r \in Requests : Asks(r, u, req[r].isAdmin, admins) /\ req'[r] # req[r]
         /\ \A u \in Users : up /\ (u \in blocked) # (u \in blocked') =>
              \E r \in Requests : Asks(r, u, req[r].isBlocked, blocked) /\ req'[r] # req[r]
         /\ Answered]_vars
  OBVIOUS
<1>5. QED
  BY <1>3, <1>4, Invariance, PTL DEF Spec, PatchesMerge
=============================================================================
