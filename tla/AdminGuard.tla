----------------------------- MODULE AdminGuard -----------------------------
(***************************************************************************)
(* Administrators patch and delete users.  A request authorises its        *)
(* administrator, loads the target, counts the administrators if it is to  *)
(* take one away, and commits; a patch then reads the row back and writes  *)
(* its audit record, in a second transaction, a deletion writes it in the  *)
(* first.  Requests overlap between these steps.  At every start of the backend the bootstrap       *)
(* creates or promotes the configured administrator if there is none.      *)
(***************************************************************************)
EXTENDS Integers, FiniteSets

CONSTANTS
  Users,
  Configured,     \* the user of ADMIN_EMAIL, or the value None
  None,
  FirstAdmins,    \* administrators at the start
  Patches,        \* bodies of PATCH: pairs of is_admin and is_blocked
  Requests,       \* requests the backend may be serving at one time
  MaxRequests,    \* bound: requests begun
  MaxCrashes      \* bound: restarts

ASSUME AdminAssumption ==
  /\ None \notin Users /\ Configured \in Users \cup {None}
  /\ FirstAdmins \subseteq Users /\ FirstAdmins # {}
  /\ Patches \subseteq {"true", "false", "absent"} \X {"true", "false", "absent"}
  /\ MaxRequests \in Nat /\ MaxCrashes \in Nat

VARIABLES
  users,      \* rows of table users
  admins,     \* rows with is_admin
  blocked,    \* rows with is_blocked
  audit,      \* records of admin_audit_log: <<request, action, target>>
  up,         \* the backend serves requests
  req,        \* req[r]: the request in progress
  begun, crashes,   \* bound counters
  done,       \* history: state changes committed: <<request, action, target>>
  cut         \* history: requests that a restart or a deletion cuts off from
              \* their audit record

rows == <<users, admins, blocked>>
vars == <<users, admins, blocked, audit, up, req, begun, crashes, done, cut>>

\* A body field of PATCH: a new value, or not given.
Field == {"true", "false", "absent"}

\* id: the number of the request (history); racing: has another request
\* committed since this one loaded its target (history)?
Request == [at : {"authorised", "loaded", "counted", "committed", "refreshed"}, id : 1..MaxRequests,
            op : {"patch", "delete"}, by : Users, target : Users,
            isAdmin : Field, isBlocked : Field,
            wasAdmin : BOOLEAN, wasBlocked : BOOLEAN, racing : BOOLEAN]
Idle == [at |-> "idle"]

Init ==
  /\ users = Users /\ admins = FirstAdmins /\ blocked = {}
  /\ audit = {} /\ done = {} /\ cut = {} /\ up = TRUE
  /\ req = [r \in Requests |-> Idle]
  /\ begun = 0 /\ crashes = 0

-----------------------------------------------------------------------------
\* require_admin reads the row of the token's owner.
MayAdminister(a) == a \in users /\ a \in admins /\ a \notin blocked

Authorise(r, a, u, op, isAdmin, isBlocked) ==
  /\ up /\ req[r] = Idle /\ begun < MaxRequests
  /\ MayAdminister(a)
  /\ begun' = begun + 1
  /\ req' = [req EXCEPT ![r] =
       [at |-> "authorised", id |-> begun + 1, op |-> op, by |-> a, target |-> u,
        isAdmin |-> isAdmin, isBlocked |-> isBlocked,
        wasAdmin |-> FALSE, wasBlocked |-> FALSE, racing |-> FALSE]]
  /\ UNCHANGED <<rows, audit, up, crashes, done, cut>>

Close(r) == req' = [req EXCEPT ![r] = Idle]

\* The administrator is already in the session: a request about oneself keeps
\* the attributes of its authorisation.  404 for a missing row.
Load(r) ==
  /\ req[r].at = "authorised"
  /\ LET q == req[r] IN
     IF q.target \in users
       THEN req' = [req EXCEPT ![r] = [q EXCEPT
              !.at = "loaded",
              !.wasAdmin = q.target = q.by \/ q.target \in admins,
              !.wasBlocked = q.target # q.by /\ q.target \in blocked]]
       ELSE Close(r)
  /\ UNCHANGED <<rows, audit, up, begun, crashes, done, cut>>

TakesAdmin(q) == q.wasAdmin /\ (q.op = "delete" \/ q.isAdmin = "false")
AboutOneself(q) == q.target = q.by /\ (q.op = "delete" \/ q.isAdmin = "false")

\* Mutation: the count is off by one.
NoneLeft == Cardinality(admins) < 1
LastAdmin == Cardinality(admins) <= 1

\* The guards: 409 for oneself, 409 for the last administrator.
Check(r) ==
  /\ req[r].at = "loaded"
  /\ LET q == req[r] IN
     IF AboutOneself(q) \/ (TakesAdmin(q) /\ LastAdmin)
       THEN Close(r)
       ELSE req' = [req EXCEPT ![r].at = "counted"]
  /\ UNCHANGED <<rows, audit, up, begun, crashes, done, cut>>

\* Only the columns that differ from what was loaded are written.
Changes(was, field) == field = IF was THEN "false" ELSE "true"
\* Mutation: the whole row is written, with what was loaded of the other column.
WholeRow(set, u, was, field) ==
  IF field = "true" \/ (field = "absent" /\ was) THEN set \cup {u} ELSE set \ {u}
Assign(set, u, was, field) ==
  IF ~Changes(was, field) THEN set ELSE IF was THEN set \ {u} ELSE set \cup {u}
Writes(q) == Changes(q.wasAdmin, q.isAdmin) \/ Changes(q.wasBlocked, q.isBlocked)

Action(q) == <<q.id, q.op, q.target>>

\* The target's attributes are in the session of the request.
HasLoaded(q) ==
  \/ q.at \in {"loaded", "counted", "committed"}
  \/ q.at = "authorised" /\ q.target = q.by

\* The other requests in progress see the rows change under them.
Others(r, at) == [s \in Requests |->
  IF s = r THEN at
  ELSE IF HasLoaded(req[s]) THEN [req[s] EXCEPT !.racing = TRUE] ELSE req[s]]

Found(q) == q.target \in users

\* An UPDATE that finds no row is an error; without a changed column there is
\* no UPDATE.
CommitPatch(r) ==
  /\ req[r].at = "counted" /\ req[r].op = "patch"
  /\ LET q == req[r] IN
     IF Found(q) \/ ~Writes(q)
       THEN /\ admins' = Assign(admins, q.target, q.wasAdmin, q.isAdmin)
            /\ blocked' = Assign(blocked, q.target, q.wasBlocked, q.isBlocked)
            /\ done' = IF Writes(q) THEN done \cup {Action(q)} ELSE done
            /\ req' = Others(r, [q EXCEPT !.at = "committed"])
       ELSE Close(r) /\ UNCHANGED <<admins, blocked, done>>
  /\ UNCHANGED <<users, audit, up, begun, crashes, cut>>

\* db.refresh reads the committed row again, and raises if it is gone.
Refresh(r) ==
  /\ req[r].at = "committed"
  /\ IF Found(req[r]) THEN req' = [req EXCEPT ![r].at = "refreshed"] ELSE Close(r)
  /\ UNCHANGED <<rows, audit, up, begun, crashes, done, cut>>

\* The audit record references the administrator's row.
CanAudit(q) == q.by \in users

\* Mutation: the record is added to the session and not committed.
Unaudited(q) == audit
Audited(q) == audit \cup {Action(q)}

AuditPatch(r) ==
  /\ req[r].at = "refreshed"
  /\ audit' = IF CanAudit(req[r]) THEN Audited(req[r]) ELSE audit
  /\ Close(r)
  /\ UNCHANGED <<rows, up, begun, crashes, done, cut>>

\* A request about to write its record that loses its administrator, and a
\* committed patch that loses its target, are cut off.
CutBy(u) == {s \in Requests :
  \/ req[s] # Idle /\ req[s].by = u
  \/ req[s].at = "committed" /\ req[s].target = u}
Ids(set) == {req[s].id : s \in set}

\* Record and deletion in one transaction.  A row that is gone is deleted
\* once more without an error.
CommitDelete(r) ==
  /\ req[r].at = "counted" /\ req[r].op = "delete"
  /\ LET q == req[r] IN
     IF CanAudit(q)
       THEN /\ audit' = Audited(q)
            /\ users' = users \ {q.target}
            /\ admins' = admins \ {q.target} /\ blocked' = blocked \ {q.target}
            /\ done' = done \cup {Action(q)}
            /\ cut' = cut \cup Ids(CutBy(q.target))
            /\ req' = Others(r, Idle)
       ELSE Close(r) /\ UNCHANGED <<rows, audit, done, cut>>
  /\ UNCHANGED <<up, begun, crashes>>

Crash ==
  /\ up /\ crashes < MaxCrashes
  /\ up' = FALSE /\ crashes' = crashes + 1
  /\ req' = [r \in Requests |-> Idle]
  /\ cut' = cut \cup Ids({r \in Requests : req[r].at \in {"committed", "refreshed"}})
  /\ UNCHANGED <<rows, audit, begun, done>>

\* bootstrap_admin_if_needed, before the first request is served.
Restored == IF admins = {} /\ Configured # None THEN {Configured} ELSE admins

Bootstrap ==
  /\ ~up /\ up' = TRUE
  /\ admins' = Restored
  /\ users' = users \cup Restored
  /\ UNCHANGED <<blocked, audit, req, begun, crashes, done, cut>>

Next ==
  \/ \E r \in Requests, a, u \in Users, p \in Patches :
       Authorise(r, a, u, "patch", p[1], p[2])
  \/ \E r \in Requests, a, u \in Users : Authorise(r, a, u, "delete", "absent", "absent")
  \/ \E r \in Requests : Load(r)
  \/ \E r \in Requests : Check(r)
  \/ \E r \in Requests : CommitPatch(r)
  \/ \E r \in Requests : Refresh(r)
  \/ \E r \in Requests : AuditPatch(r)
  \/ \E r \in Requests : CommitDelete(r)
  \/ Crash
  \/ Bootstrap

Spec == Init /\ [][Next]_vars

-----------------------------------------------------------------------------
\* Every variable keeps to its type; flags belong to rows that exist.
TypeOK ==
  /\ users \subseteq Users /\ admins \subseteq users /\ blocked \subseteq users
  /\ up \in BOOLEAN /\ begun \in 0..MaxRequests /\ crashes \in 0..MaxCrashes
  /\ req \in [Requests -> Request \cup {Idle}]
  /\ ~up => \A r \in Requests : req[r] = Idle
  /\ done \subseteq (1..begun) \X {"patch", "delete"} \X Users
  /\ audit \subseteq (1..begun) \X {"patch", "delete"} \X Users
  /\ cut \subseteq 1..begun

\* Every change of a user is in the audit log once its request has ended,
\* unless the request was cut off from its record: by a restart after the
\* commit of the change, by the deletion of the administrator who made it
\* (users.py:192-198), or by the deletion of its target before the refresh
\* (users.py:189-190).  Nothing else loses a record, whatever other requests do.
Serving(id) == \E r \in Requests : req[r] # Idle /\ req[r].id = id
AuditAccounts == \A x \in done : x \in audit \/ Serving(x[1]) \/ x[1] \in cut

\* The last administrator is lost only to a request whose target was loaded
\* before another request changed the rows: without such a race the guards
\* suffice, although the administrator may itself have been demoted since it
\* was authorised.
LastAdminNeedsRace ==
  [][admins # {} /\ admins' = {} =>
       \E r \in Requests : req[r] # Idle /\ req[r].racing /\ req'[r] # req[r]]_vars

\* Overlapping patches of one user merge: a right or a block appears and
\* disappears only in the commit of a request that asks for it, so a patch of
\* one attribute never takes back what another patch has changed since it loaded
\* the row; and a patch reads back what it asked for, unless another request
\* committed between its load and its refresh (users.py:156-190).
Asks(r, u, field, set) ==
  /\ req[r].at = "counted" /\ req[r].target = u
  /\ req[r].op = "delete" \/ field = IF u \in set THEN "false" ELSE "true"
Granted(field, holds) == field = "absent" \/ holds = (field = "true")
PatchesMerge ==
  [][/\ \A u \in Users : up /\ (u \in admins) # (u \in admins') =>
          \E r \in Requests : Asks(r, u, req[r].isAdmin, admins) /\ req'[r] # req[r]
     /\ \A u \in Users : up /\ (u \in blocked) # (u \in blocked') =>
          \E r \in Requests : Asks(r, u, req[r].isBlocked, blocked) /\ req'[r] # req[r]
     /\ \A r \in Requests :
          req[r].at = "committed" /\ req'[r].at = "refreshed" /\ ~req[r].racing =>
            /\ Granted(req[r].isAdmin, req[r].target \in admins)
            /\ Granted(req[r].isBlocked, req[r].target \in blocked)]_vars
=============================================================================
