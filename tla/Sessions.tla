------------------------------ MODULE Sessions ------------------------------
(***************************************************************************)
(* Sessions of a browser.  A login stores a refresh token (a row, and a    *)
(* cookie that all tabs share) and gives the tab an access token that      *)
(* lives in the tab's storage and expires soon.  A call that is answered   *)
(* 401 waits for a refresh, which all calls of the tab share, and is sent  *)
(* once more.  Tabs, requests in flight and the backend interleave.        *)
(***************************************************************************)
EXTENDS Integers, FiniteSets

CONSTANTS
  Users, Tabs, Calls,
  TabOf,        \* TabOf[c]: the tab whose page makes call c
  Quiet,        \* calls with _noRedirect: getCurrentUser asking for /me
  MaxLogins,    \* bound: logins ever
  MaxLogouts,   \* bound: clicks on logout
  MaxFaults     \* bound: requests or answers lost

ASSUME SessionsAssumption ==
  /\ Users # {} /\ TabOf \in [Calls -> Tabs] /\ Quiet \subseteq Calls
  /\ MaxLogins \in Nat /\ MaxLogouts \in Nat /\ MaxFaults \in Nat

VARIABLES
  session,    \* session[s]: row s of refresh_tokens: its user and its state
  jar,        \* the session whose refresh token the cookie holds, 0: none
  token,      \* token[t]: the access token in the tab's sessionStorage
  refresh,    \* refresh[t]: refreshInflight and its request
  auth,       \* auth[t]: a login or a logout of the tab
  leaving,    \* tabs that have been sent to another page
  call,       \* call[c]: the request of call c
  logins, logouts, faults   \* bound counters

bounds == <<logins, logouts, faults>>
vars == <<session, jar, token, refresh, auth, leaving, call,
          logins, logouts, faults>>

Ids == 1..MaxLogins
Nobody == CHOOSE u \in Users : TRUE
NoSession == [user |-> Nobody, state |-> "unused"]
Session == [user : Users,
            state : {"unused", "live", "revoked", "expired", "deleted"}]

\* An access token names the session it comes from (0: no token); fresh: it
\* has not expired.
NoToken == [of |-> 0, fresh |-> FALSE]
Token == [of : Ids, fresh : BOOLEAN] \cup {NoToken}
Minted(s) == [of |-> s, fresh |-> TRUE]

\* of: the cookie the request carried, or the session a login has opened.
Refresh == [at : {"idle", "sent", "granted", "denied"}, of : 0..MaxLogins]
Auth == [at : {"idle", "login", "welcome", "logout", "bye"},
         user : Users, of : 0..MaxLogins]
Rest == [at |-> "idle", of |-> 0]
NoAuth == [at |-> "idle", user |-> Nobody, of |-> 0]

\* with: the token sent; again: the call has been repeated after a refresh;
\* ran: how often the backend has executed it (history).
Call == [at : {"idle", "sent", "done", "unauthorized", "waiting"},
         with : Token, again : BOOLEAN, ran : Nat]
NoCall == [at |-> "idle", with |-> NoToken, again |-> FALSE, ran |-> 0]

Init ==
  /\ session = [s \in Ids |-> NoSession] /\ jar = 0
  /\ token = [t \in Tabs |-> NoToken]
  /\ refresh = [t \in Tabs |-> Rest] /\ auth = [t \in Tabs |-> NoAuth]
  /\ leaving = {} /\ call = [c \in Calls |-> NoCall]
  /\ logins = 0 /\ logouts = 0 /\ faults = 0

-----------------------------------------------------------------------------
(***************************************************************************)
(* The backend.                                                            *)
(***************************************************************************)
\* An administrator deletes a user: refresh_tokens go with the row.
DeleteUser(u) ==
  /\ \E s \in Ids : session[s].user = u /\ session[s].state \notin {"unused", "deleted"}
  /\ session' = [s \in Ids |-> IF session[s].user = u /\ session[s].state # "unused"
                   THEN [session[s] EXCEPT !.state = "deleted"] ELSE session[s]]
  /\ UNCHANGED <<jar, token, refresh, auth, leaving, call, bounds>>

\* The credentials are right: the row takes the id that SubmitLogin set aside.
HandleLogin(t) ==
  /\ auth[t].at = "login"
  /\ session' = [session EXCEPT ![auth[t].of] =
                    [user |-> auth[t].user, state |-> "live"]]
  /\ auth' = [auth EXCEPT ![t].at = "welcome"]
  /\ UNCHANGED <<jar, token, refresh, leaving, call, bounds>>

\* They are wrong, or there is no such user: nothing changes in the page.
RefuseLogin(t) ==
  /\ auth[t].at = "login"
  /\ auth' = [auth EXCEPT ![t] = NoAuth]
  /\ UNCHANGED <<session, jar, token, refresh, leaving, call, bounds>>

\* logout revokes what the cookie names if it is not revoked yet, and the
\* answer deletes the cookie.
HandleLogout(t) ==
  /\ auth[t].at = "logout"
  /\ session' = [s \in Ids |-> IF s = auth[t].of /\ session[s].state = "live"
                   THEN [session[s] EXCEPT !.state = "revoked"] ELSE session[s]]
  /\ auth' = [auth EXCEPT ![t].at = "bye"]
  /\ UNCHANGED <<jar, token, refresh, leaving, call, bounds>>

\* Mutation: revoked_at is not looked at.
ExistsOnly(s) == s # 0 /\ session[s].state \in {"live", "revoked"}
Refreshable(s) == s # 0 /\ session[s].state = "live"

\* Mutation: the refresh token is used up by its first use.
UsedUp(s) == [session EXCEPT ![s].state = "revoked"]
Kept(s) == session

HandleRefresh(t) ==
  /\ refresh[t].at = "sent"
  /\ LET s == refresh[t].of IN
     IF Refreshable(s)
       THEN refresh' = [refresh EXCEPT ![t].at = "granted"] /\ session' = Kept(s)
       ELSE refresh' = [refresh EXCEPT ![t].at = "denied"] /\ UNCHANGED session
  /\ UNCHANGED <<jar, token, auth, leaving, call, bounds>>

\* get_current_user: signature, time and the user's row; neither the session
\* nor is_blocked.
Authorized(tok) == tok.of # 0 /\ tok.fresh /\ session[tok.of].state # "deleted"

\* A second 401 is not tried again.
Reply(k) ==
  IF Authorized(k.with) THEN [k EXCEPT !.at = "done", !.with = NoToken, !.ran = @ + 1]
  ELSE IF k.again THEN NoCall
  ELSE [k EXCEPT !.at = "unauthorized", !.with = NoToken]

HandleCall(c) ==
  /\ call[c].at = "sent"
  /\ call' = [call EXCEPT ![c] = Reply(@)]
  /\ UNCHANGED <<session, jar, token, refresh, auth, leaving, bounds>>

-----------------------------------------------------------------------------
(***************************************************************************)
(* The page.  A page that is being left still runs until the next document *)
(* has come.                                                               *)
(***************************************************************************)
Of(t) == {c \in Calls : TabOf[c] = t}

\* rawRequest sends the token the store holds at that moment.  The page with
\* the login form makes no calls while it waits for the login's answer.
Send(c) ==
  /\ call[c].at = "idle" /\ auth[TabOf[c]].at \in {"idle", "logout", "bye"}
  /\ c \in Quiet => token[TabOf[c]] # NoToken    \* getCurrentUser
  /\ call' = [call EXCEPT ![c] =
                [NoCall EXCEPT !.at = "sent", !.with = token[TabOf[c]]]]
  /\ UNCHANGED <<session, jar, token, refresh, auth, leaving, bounds>>

Answered(c) ==
  /\ call[c].at = "done"
  /\ call' = [call EXCEPT ![c] = NoCall]
  /\ UNCHANGED <<session, jar, token, refresh, auth, leaving, bounds>>

\* A first 401: tryRefresh joins the refresh in flight or starts one.
JoinRefresh(c) ==
  /\ call[c].at = "unauthorized"
  /\ call' = [call EXCEPT ![c].at = "waiting"]
  /\ LET t == TabOf[c] IN
     refresh' = IF refresh[t].at = "idle"
       THEN [refresh EXCEPT ![t] = [at |-> "sent", of |-> jar]] ELSE refresh
  /\ UNCHANGED <<session, jar, token, auth, leaving, bounds>>

Waiting(t) == {c \in Of(t) : call[c].at = "waiting"}

\* Mutation: only one of the calls that share the refresh hears of it.
OneOf(t) == {CHOOSE c \in Waiting(t) : TRUE}
Resumed(t) == Waiting(t)

\* Everyone who waits resumes: with the new token, ...
Refreshed(t) ==
  /\ refresh[t].at = "granted"
  /\ token' = [token EXCEPT ![t] = Minted(refresh[t].of)]
  /\ call' = [c \in Calls |-> IF c \in Resumed(t)
       THEN [call[c] EXCEPT !.at = "sent", !.with = Minted(refresh[t].of),
                            !.again = TRUE]
       ELSE call[c]]
  /\ refresh' = [refresh EXCEPT ![t] = Rest]
  /\ UNCHANGED <<session, jar, auth, leaving, bounds>>

\* ... or without any: the token is cleared, and unless every one of them is
\* quiet the page goes to the login form.
GivenUp(t) ==
  /\ token' = [token EXCEPT ![t] = NoToken]
  /\ leaving' = IF Resumed(t) \subseteq Quiet THEN leaving ELSE leaving \cup {t}
  /\ call' = [c \in Calls |-> IF c \in Resumed(t) THEN NoCall ELSE call[c]]
  /\ refresh' = [refresh EXCEPT ![t] = Rest]
  /\ UNCHANGED <<session, jar, auth, logins, logouts>>

NotRefreshed(t) == refresh[t].at = "denied" /\ GivenUp(t) /\ UNCHANGED faults

Fault == faults < MaxFaults /\ faults' = faults + 1

\* No answer to a refresh counts as a refusal.
RefreshLost(t) == refresh[t].at # "idle" /\ Fault /\ GivenUp(t)

\* Mutation: a call without an answer is sent once more.
Repeated(c) == [call[c] EXCEPT !.at = "sent", !.with = token[TabOf[c]]]
\* NETWORK_ERROR: the caller learns nothing of what the backend did.
Failed(c) == NoCall

CallLost(c) ==
  /\ call[c].at \in {"sent", "done", "unauthorized"} /\ Fault
  /\ call' = [call EXCEPT ![c] = Failed(c)]
  /\ UNCHANGED <<session, jar, token, refresh, auth, leaving, logins, logouts>>

\* The login form is shown once getCurrentUser has answered null: there is no
\* token, or the call to /me got no answer, which leaves the token in the store.
SubmitLogin(t, u) ==
  /\ auth[t].at = "idle" /\ t \notin leaving /\ logins < MaxLogins
  /\ \/ token[t] = NoToken
     \/ faults > 0 /\ Of(t) \cap Quiet # {}
  /\ \A c \in Of(t) : call[c].at = "idle"
  /\ auth' = [auth EXCEPT ![t] = [at |-> "login", user |-> u, of |-> logins + 1]]
  /\ logins' = logins + 1
  /\ UNCHANGED <<session, jar, token, refresh, leaving, call, logouts, faults>>

LoggedIn(t) ==
  /\ auth[t].at = "welcome"
  /\ jar' = auth[t].of
  /\ token' = [token EXCEPT ![t] = Minted(auth[t].of)]
  /\ leaving' = leaving \cup {t}
  /\ auth' = [auth EXCEPT ![t] = NoAuth]
  /\ UNCHANGED <<session, refresh, call, bounds>>

ClickLogout(t) ==
  /\ auth[t].at = "idle" /\ t \notin leaving /\ logouts < MaxLogouts
  /\ token[t] # NoToken    \* the header shows the button to a user only
  /\ auth' = [auth EXCEPT ![t] = [at |-> "logout", user |-> Nobody, of |-> jar]]
  /\ logouts' = logouts + 1
  /\ UNCHANGED <<session, jar, token, refresh, leaving, call, logins, faults>>

LeaveLoggedOut(t) ==
  /\ token' = [token EXCEPT ![t] = NoToken]
  /\ leaving' = leaving \cup {t}
  /\ auth' = [auth EXCEPT ![t] = NoAuth]
  /\ UNCHANGED <<session, refresh, call, logins, logouts>>

\* The cookie is deleted whatever session it holds by now.
LoggedOut(t) ==
  auth[t].at = "bye" /\ jar' = 0 /\ LeaveLoggedOut(t) /\ UNCHANGED faults

\* The tab logs out even if the backend has not heard of it.
LogoutLost(t) ==
  auth[t].at \in {"logout", "bye"} /\ Fault /\ LeaveLoggedOut(t) /\ UNCHANGED jar

\* The answer is lost, and with it the cookie; the row may have been stored.
LoginLost(t) ==
  /\ auth[t].at \in {"login", "welcome"} /\ Fault
  /\ auth' = [auth EXCEPT ![t] = NoAuth]
  /\ UNCHANGED <<session, jar, token, refresh, leaving, call, logins, logouts>>

\* The next document: requests in flight are dropped, the store remains.
Load(t) ==
  /\ t \in leaving
  /\ leaving' = leaving \ {t}
  /\ call' = [c \in Calls |-> IF c \in Of(t) THEN NoCall ELSE call[c]]
  /\ refresh' = [refresh EXCEPT ![t] = Rest]
  /\ auth' = [auth EXCEPT ![t] = NoAuth]
  /\ UNCHANGED <<session, jar, token, bounds>>

\* JWT_ACCESS_TTL_MINUTES: a token and its copies in flight expire.
Expire(t) ==
  /\ token[t].fresh
  /\ token' = [token EXCEPT ![t].fresh = FALSE]
  /\ call' = [c \in Calls |-> IF c \in Of(t) /\ call[c].with.of = token[t].of
                 THEN [call[c] EXCEPT !.with.fresh = FALSE] ELSE call[c]]
  /\ UNCHANGED <<session, jar, refresh, auth, leaving, bounds>>

\* JWT_REFRESH_TTL_DAYS: of the row, of the token in it, and of the cookie.
SessionExpires(s) ==
  /\ session[s].state = "live"
  /\ session' = [session EXCEPT ![s].state = "expired"]
  /\ jar' = IF jar = s THEN 0 ELSE jar
  /\ UNCHANGED <<token, refresh, auth, leaving, call, bounds>>

-----------------------------------------------------------------------------
Backend ==
  \/ \E t \in Tabs : HandleLogin(t)
  \/ \E t \in Tabs : RefuseLogin(t)
  \/ \E t \in Tabs : HandleLogout(t)
  \/ \E t \in Tabs : HandleRefresh(t)
  \/ \E c \in Calls : HandleCall(c)

Page ==
  \/ \E c \in Calls : Send(c)
  \/ \E c \in Calls : Answered(c)
  \/ \E c \in Calls : JoinRefresh(c)
  \/ \E t \in Tabs : Refreshed(t)
  \/ \E t \in Tabs : NotRefreshed(t)
  \/ \E t \in Tabs, u \in Users : SubmitLogin(t, u)
  \/ \E t \in Tabs : LoggedIn(t)
  \/ \E t \in Tabs : ClickLogout(t)
  \/ \E t \in Tabs : LoggedOut(t)
  \/ \E t \in Tabs : Load(t)

Network ==
  \/ \E c \in Calls : CallLost(c)
  \/ \E t \in Tabs : RefreshLost(t)
  \/ \E t \in Tabs : LogoutLost(t)
  \/ \E t \in Tabs : LoginLost(t)

Next ==
  \/ Backend \/ Page \/ Network
  \/ \E u \in Users : DeleteUser(u)
  \/ \E t \in Tabs : Expire(t)
  \/ \E s \in Ids : SessionExpires(s)

Spec == Init /\ [][Next]_vars

-----------------------------------------------------------------------------
\* Every variable keeps to its values.
TypeOK ==
  /\ session \in [Ids -> Session]
  /\ jar \in 0..MaxLogins /\ leaving \subseteq Tabs
  /\ token \in [Tabs -> Token] /\ refresh \in [Tabs -> Refresh]
  /\ auth \in [Tabs -> Auth] /\ call \in [Calls -> Call]
  /\ logins \in 0..MaxLogins /\ logouts \in 0..MaxLogouts /\ faults \in 0..MaxFaults

\* A call takes effect at most once, although it may be sent twice: the
\* repetition follows a 401 only, never a lost answer.
ExecutedOnce == \A c \in Calls : call[c].ran <= 1

\* However the calls and refreshes of several tabs interleave, and whoever
\* logs in in another one, a tab loses its token only because somebody logged
\* out, a session ended, or the network failed (tryRefresh counts that as a
\* refusal).
ThrownOutForAReason ==
  [][\A t \in Tabs : token[t] # NoToken /\ token'[t] = NoToken
       => \/ logouts > 0 \/ faults' > 0
          \/ \E s \in Ids : session[s].state \in {"expired", "deleted"}]_vars

\* Calls wait for a refresh that is in flight, and only then is one: those that
\* share it are all woken whatever its outcome, and none joins one that is over.
NobodyWaitsInVain ==
  \A t \in Tabs : Waiting(t) # {} <=> refresh[t].at # "idle"

\* What is left of a session: valid access tokens in a tab, in a call, or in an
\* answer on its way.
Echo(s) ==
  \/ \E t \in Tabs : \/ token[t] = Minted(s)
                     \/ refresh[t] = [at |-> "granted", of |-> s]
                     \/ auth[t].at = "welcome" /\ auth[t].of = s
  \/ \E c \in Calls : call[c].with = Minted(s)

\* Logging out works in the end: access tokens outlive their session, and a
\* refresh that overtakes a logout brings one back, but once the last has
\* expired a session that was revoked, deleted or expired gives no other.
DeadSessionsStayDead ==
  [][\A s \in Ids : session[s].state \notin {"unused", "live"} /\ ~Echo(s)
       => ~Echo(s)']_vars
=============================================================================
