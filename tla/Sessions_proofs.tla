--------------------------- MODULE Sessions_proofs ---------------------------
(***************************************************************************)
(* What Sessions promises for any number of users, tabs, calls, logins and *)
(* faults.  Besides the types the invariant says which requests name a     *)
(* session, and that a call has been executed only once it is answered.    *)
(***************************************************************************)
EXTENDS Sessions, TLAPS

\* A granted refresh and a login name a session.
Named ==
  /\ \A t \in Tabs : refresh[t].at = "granted" => refresh[t].of \in Ids
  /\ \A t \in Tabs : auth[t].at \in {"login", "welcome"} => auth[t].of \in Ids

\* The backend executes a call when it answers it, not before.
RanOf(k) == k.ran <= 1 /\ (k.at # "done" => k.ran = 0)
Runs == \A c \in Calls : RanOf(call[c])

IInv == TypeOK /\ Named /\ Runs /\ NobodyWaitsInVain

-----------------------------------------------------------------------------
LEMMA Types ==
  /\ Nobody \in Users /\ NoSession \in Session
  /\ NoToken \in Token /\ \A s \in Ids : Minted(s) \in Token /\ s \in 0..MaxLogins
  /\ Rest \in Refresh /\ NoAuth \in Auth /\ NoCall \in Call /\ RanOf(NoCall)
<1>1. Nobody \in Users
  BY SessionsAssumption DEF Nobody
<1>2. 0 \in 0..MaxLogins /\ \A s \in Ids : s \in 0..MaxLogins
  BY SessionsAssumption DEF Ids
<1>3. NoToken \in Token /\ \A s \in Ids : Minted(s) \in Token
  BY DEF NoToken, Token, Minted
<1>4. Rest \in Refresh /\ NoAuth \in Auth /\ NoSession \in Session
  BY <1>1, <1>2 DEF Rest, Refresh, NoAuth, Auth, NoSession, Session
<1>5. NoCall \in Call /\ RanOf(NoCall)
  BY <1>3 DEF NoCall, Call, RanOf
<1>6. QED
  BY <1>1, <1>2, <1>3, <1>4, <1>5

\* What a call can become.
LEMMA CallBecomes ==
  ASSUME NEW k \in Call, RanOf(k), k.at # "done"
  PROVE  /\ [k EXCEPT !.at = "done", !.with = NoToken, !.ran = @ + 1] \in Call
         /\ RanOf([k EXCEPT !.at = "done", !.with = NoToken, !.ran = @ + 1])
         /\ [k EXCEPT !.at = "unauthorized", !.with = NoToken] \in Call
         /\ RanOf([k EXCEPT !.at = "unauthorized", !.with = NoToken])
         /\ [k EXCEPT !.at = "waiting"] \in Call /\ RanOf([k EXCEPT !.at = "waiting"])
         /\ \A tok \in Token :
              LET sent == [k EXCEPT !.at = "sent", !.with = tok, !.again = TRUE]
              IN  sent \in Call /\ RanOf(sent)
<1>1. NoToken \in Token /\ k.ran + 1 \in Nat
  BY Types DEF Call
<1>2. [k EXCEPT !.at = "done", !.with = NoToken, !.ran = @ + 1] \in Call
  BY <1>1 DEF Call
<1>3. RanOf([k EXCEPT !.at = "done", !.with = NoToken, !.ran = @ + 1])
  BY <1>1 DEF Call, RanOf
<1>4. /\ [k EXCEPT !.at = "unauthorized", !.with = NoToken] \in Call
      /\ RanOf([k EXCEPT !.at = "unauthorized", !.with = NoToken])
  BY <1>1 DEF Call, RanOf
<1>5. [k EXCEPT !.at = "waiting"] \in Call /\ RanOf([k EXCEPT !.at = "waiting"])
  BY DEF Call, RanOf
<1>6. ASSUME NEW tok \in Token
      PROVE  /\ [k EXCEPT !.at = "sent", !.with = tok, !.again = TRUE] \in Call
             /\ RanOf([k EXCEPT !.at = "sent", !.with = tok, !.again = TRUE])
  BY DEF Call, RanOf
<1>7. QED
  BY <1>2, <1>3, <1>4, <1>5, <1>6

\* A tab's calls are its own.
LEMMA OtherTabs ==
  ASSUME NEW t \in Tabs, NEW v \in Tabs, v # t
  PROVE  Of(v) \cap Of(t) = {}
BY DEF Of

-----------------------------------------------------------------------------
(***************************************************************************)
(* Steps that leave calls and refreshes alone keep Runs and                *)
(* NobodyWaitsInVain.                                                      *)
(***************************************************************************)
LEMMA CallsUntouched ==
  ASSUME IInv, UNCHANGED <<call, refresh>>, TypeOK',
         \A t \in Tabs : auth'[t].at \in {"login", "welcome"} => auth'[t].of \in Ids
  PROVE  IInv'
BY DEF IInv, Named, Runs, NobodyWaitsInVain, Waiting, Of

\* One call moves between states other than "waiting".
LEMMA OneCallMoves ==
  ASSUME IInv, NEW c \in Calls, NEW k \in Call, RanOf(k),
         call[c].at # "waiting", k.at # "waiting",
         call' = [call EXCEPT ![c] = k],
         UNCHANGED <<session, jar, token, refresh, auth, leaving, logins, logouts>>,
         faults' \in 0..MaxFaults
  PROVE  IInv'
<1>1. TypeOK /\ call \in [Calls -> Call]
  BY DEF IInv, TypeOK
<1>2. call' \in [Calls -> Call] /\ call'[c] = k
        /\ \A d \in Calls : d # c => call'[d] = call[d]
  BY <1>1
<1>3. TypeOK'
  BY <1>1, <1>2 DEF TypeOK
<1>4. Runs'
  BY <1>2 DEF IInv, Runs
<1>5. \A d \in Calls : call'[d].at = "waiting" <=> call[d].at = "waiting"
  BY <1>2
<1>6. NobodyWaitsInVain'
  BY <1>5 DEF IInv, NobodyWaitsInVain, Waiting, Of
<1>7. QED
  BY <1>3, <1>4, <1>6 DEF IInv, Named

\* A refresh of tab t ends: all calls that waited for it move on, to something
\* other than waiting, and the calls of other tabs stay as they are.
LEMMA RefreshEnds ==
  ASSUME IInv, NEW t \in Tabs,
         refresh' = [refresh EXCEPT ![t] = Rest],
         \A c \in Calls :
           IF c \in Of(t) /\ call[c].at = "waiting" THEN call'[c].at # "waiting"
           ELSE call'[c].at = "waiting" => call[c].at = "waiting",
         \A c \in Calls : c \notin Of(t) => call'[c].at = call[c].at
  PROVE  NobodyWaitsInVain'
<1>1. refresh'[t] = Rest /\ Rest.at = "idle"
        /\ \A v \in Tabs : v # t => refresh'[v] = refresh[v]
  BY DEF IInv, TypeOK, Rest
<1>2. Waiting(t)' = {}
  BY DEF Waiting, Of
<1>3. \A v \in Tabs : v # t => Waiting(v)' = Waiting(v)
  BY OtherTabs DEF Waiting, Of
<1>4. QED
  BY <1>1, <1>2, <1>3 DEF IInv, NobodyWaitsInVain

-----------------------------------------------------------------------------
(***************************************************************************)
(* The backend's steps.                                                    *)
(***************************************************************************)
LEMMA SessionsKeepIInv ==
  ASSUME IInv,
         \/ \E t \in Tabs : HandleLogin(t) \/ RefuseLogin(t) \/ HandleLogout(t)
         \/ \E u \in Users : DeleteUser(u)
         \/ \E s \in Ids : SessionExpires(s)
  PROVE  IInv'
<1>1. TypeOK /\ Named
  BY DEF IInv
<1>2. ASSUME NEW t \in Tabs, HandleLogin(t) PROVE IInv'
  <2>1. auth[t] \in Auth /\ auth[t].of \in Ids
    BY <1>1, <1>2 DEF HandleLogin, TypeOK, Named
  <2>2. [user |-> auth[t].user, state |-> "live"] \in Session
    BY <2>1 DEF Auth, Session
  <2>3. session' \in [Ids -> Session]
    BY <1>1, <1>2, <2>1, <2>2 DEF HandleLogin, TypeOK
  <2>4. [auth[t] EXCEPT !.at = "welcome"] \in Auth
    BY <2>1 DEF Auth
  <2>5. auth' = [auth EXCEPT ![t] = [auth[t] EXCEPT !.at = "welcome"]]
    BY <1>2 DEF HandleLogin
  <2>6. TypeOK'
    BY <1>1, <1>2, <2>3, <2>4, <2>5 DEF HandleLogin, TypeOK, bounds
  <2>7. \A v \in Tabs : auth'[v].of = auth[v].of /\ (v # t => auth'[v] = auth[v])
    BY <1>1, <2>1, <2>5 DEF TypeOK, Auth
  <2>8. QED
    BY <1>1, <1>2, <2>1, <2>6, <2>7, CallsUntouched DEF HandleLogin, Named
<1>3. ASSUME NEW t \in Tabs, RefuseLogin(t) PROVE IInv'
  <2>1. auth' \in [Tabs -> Auth] /\ auth'[t].at = "idle"
          /\ \A v \in Tabs : v # t => auth'[v] = auth[v]
    BY <1>1, <1>3, Types DEF RefuseLogin, TypeOK, NoAuth
  <2>2. TypeOK'
    BY <1>1, <1>3, <2>1 DEF RefuseLogin, TypeOK, bounds
  <2>3. QED
    BY <1>1, <1>3, <2>1, <2>2, CallsUntouched DEF RefuseLogin, Named
<1>4. ASSUME NEW t \in Tabs, HandleLogout(t) PROVE IInv'
  <2>1. auth[t] \in Auth /\ [auth[t] EXCEPT !.at = "bye"] \in Auth
    BY <1>1 DEF TypeOK, Auth
  <2>2. auth' = [auth EXCEPT ![t] = [auth[t] EXCEPT !.at = "bye"]]
    BY <1>4 DEF HandleLogout
  <2>3. session' \in [Ids -> Session]
    <3>1. \A s \in Ids : session[s] \in Session /\ [session[s] EXCEPT !.state = "revoked"] \in Session
      BY <1>1 DEF TypeOK, Session
    <3>2. QED
      BY <1>4, <3>1 DEF HandleLogout
  <2>4. TypeOK'
    BY <1>1, <1>4, <2>1, <2>2, <2>3 DEF HandleLogout, TypeOK, bounds
  <2>5. \A v \in Tabs : IF v = t THEN auth'[v].at = "bye" ELSE auth'[v] = auth[v]
    BY <1>1, <2>1, <2>2 DEF TypeOK, Auth
  <2>6. QED
    BY <1>1, <1>4, <2>4, <2>5, CallsUntouched DEF HandleLogout, Named
<1>5. ASSUME NEW u \in Users, DeleteUser(u) PROVE IInv'
  <2>1. \A s \in Ids : session[s] \in Session /\ [session[s] EXCEPT !.state = "deleted"] \in Session
    BY <1>1 DEF TypeOK, Session
  <2>2. session' \in [Ids -> Session]
    BY <1>5, <2>1 DEF DeleteUser
  <2>3. TypeOK'
    BY <1>1, <1>5, <2>2 DEF DeleteUser, TypeOK, bounds
  <2>4. QED
    BY <1>1, <1>5, <2>3, CallsUntouched DEF DeleteUser, Named
<1>6. ASSUME NEW s \in Ids, SessionExpires(s) PROVE IInv'
  <2>1. [session[s] EXCEPT !.state = "expired"] \in Session
    BY <1>1 DEF TypeOK, Session
  <2>2. session' \in [Ids -> Session]
    <3>1. session' = [session EXCEPT ![s] = [session[s] EXCEPT !.state = "expired"]]
      BY <1>6 DEF SessionExpires
    <3>2. QED
      BY <1>1, <2>1, <3>1 DEF TypeOK
  <2>3. jar' \in 0..MaxLogins
    BY <1>1, <1>6, SessionsAssumption DEF SessionExpires, TypeOK
  <2>4. TypeOK'
    BY <1>1, <1>6, <2>2, <2>3 DEF SessionExpires, TypeOK, bounds
  <2>5. QED
    BY <1>1, <1>6, <2>4, CallsUntouched DEF SessionExpires, Named
<1>7. QED
  BY <1>2, <1>3, <1>4, <1>5, <1>6

\* A refresh is answered: it stays in flight.
LEMMA HandleRefreshKeepsIInv ==
  ASSUME IInv, NEW t \in Tabs, HandleRefresh(t)
  PROVE  IInv'
<1>1. TypeOK /\ Named /\ refresh[t] \in Refresh
  BY DEF IInv, TypeOK
<1>2. /\ [refresh[t] EXCEPT !.at = "granted"] \in Refresh
      /\ [refresh[t] EXCEPT !.at = "denied"] \in Refresh
  BY <1>1 DEF Refresh
<1>3. PICK r \in Refresh :
        /\ refresh' = [refresh EXCEPT ![t] = r] /\ r.at # "idle"
        /\ r.at = "granted" => r.of \in Ids
  <2>1. CASE Refreshable(refresh[t].of)
    <3>1. refresh' = [refresh EXCEPT ![t] = [refresh[t] EXCEPT !.at = "granted"]]
      BY <2>1 DEF HandleRefresh
    <3>2. refresh[t].of \in Ids
      BY <1>1, <2>1, SessionsAssumption DEF Refresh, Refreshable, Ids
    <3>3. /\ [refresh[t] EXCEPT !.at = "granted"].at = "granted"
          /\ [refresh[t] EXCEPT !.at = "granted"].of = refresh[t].of
      BY <1>1 DEF Refresh
    <3>4. QED
      BY <1>2, <3>1, <3>2, <3>3
  <2>2. CASE ~Refreshable(refresh[t].of)
    <3>1. refresh' = [refresh EXCEPT ![t] = [refresh[t] EXCEPT !.at = "denied"]]
      BY <2>2 DEF HandleRefresh
    <3>2. [refresh[t] EXCEPT !.at = "denied"].at = "denied"
      BY <1>1 DEF Refresh
    <3>3. QED
      BY <1>2, <3>1, <3>2
  <2>3. QED
    BY <2>1, <2>2
<1>4. refresh' \in [Tabs -> Refresh] /\ refresh'[t] = r
        /\ \A v \in Tabs : v # t => refresh'[v] = refresh[v]
  BY <1>1, <1>3 DEF TypeOK
<1>5. UNCHANGED <<session, jar, token, auth, leaving, call, bounds>>
  BY DEF HandleRefresh, Kept
<1>6. TypeOK'
  BY <1>1, <1>4, <1>5 DEF TypeOK, bounds
<1>7. Named' /\ Runs'
  BY <1>3, <1>4, <1>5 DEF IInv, Named, Runs
<1>8. NobodyWaitsInVain'
  BY <1>3, <1>4, <1>5 DEF IInv, NobodyWaitsInVain, Waiting, Of, HandleRefresh
<1>9. QED
  BY <1>6, <1>7, <1>8 DEF IInv

LEMMA HandleCallKeepsIInv ==
  ASSUME IInv, NEW c \in Calls, HandleCall(c)
  PROVE  IInv'
<1>1. call[c] \in Call /\ RanOf(call[c]) /\ call[c].at = "sent"
  BY DEF HandleCall, IInv, TypeOK, Runs
<1>2. Reply(call[c]) \in Call /\ RanOf(Reply(call[c])) /\ Reply(call[c]).at # "waiting"
  <2>1. CASE Authorized(call[c].with)
    <3>1. [call[c] EXCEPT !.at = "done", !.with = NoToken, !.ran = @ + 1].at = "done"
      BY <1>1 DEF Call
    <3>2. QED
      BY <1>1, <2>1, <3>1, CallBecomes DEF Reply
  <2>2. CASE ~Authorized(call[c].with) /\ call[c].again
    BY <2>2, Types DEF Reply, NoCall
  <2>3. CASE ~Authorized(call[c].with) /\ ~call[c].again
    <3>1. [call[c] EXCEPT !.at = "unauthorized", !.with = NoToken].at = "unauthorized"
      BY <1>1 DEF Call
    <3>2. QED
      BY <1>1, <2>3, <3>1, CallBecomes DEF Reply
  <2>4. QED
    BY <2>1, <2>2, <2>3
<1>3. QED
  BY <1>1, <1>2, OneCallMoves DEF HandleCall, bounds, IInv, TypeOK

-----------------------------------------------------------------------------
(***************************************************************************)
(* The page's calls.                                                       *)
(***************************************************************************)
LEMMA CallsKeepIInv ==
  ASSUME IInv, NEW c \in Calls, Send(c) \/ Answered(c) \/ CallLost(c)
  PROVE  IInv'
<1>1. TypeOK /\ NoCall.at = "idle" /\ NoCall \in Call /\ RanOf(NoCall)
  BY Types DEF IInv, NoCall
<1>2. CASE Send(c)
  <2> DEFINE tok == token[TabOf[c]]
             k == [NoCall EXCEPT !.at = "sent", !.with = tok]
  <2>1. tok \in Token
    BY <1>1, SessionsAssumption DEF TypeOK
  <2>2. k \in Call /\ RanOf(k) /\ k.at = "sent"
    BY <1>1, <2>1 DEF Call, RanOf
  <2>3. call' = [call EXCEPT ![c] = k]
    BY <1>2 DEF Send
  <2>4. QED
    BY <1>1, <1>2, <2>2, <2>3, OneCallMoves DEF Send, bounds, TypeOK
<1>3. CASE Answered(c)
  BY <1>1, <1>3, OneCallMoves DEF Answered, bounds, TypeOK
<1>4. CASE CallLost(c)
  <2>1. faults' \in 0..MaxFaults
    BY <1>1, <1>4, SessionsAssumption DEF CallLost, Fault, TypeOK
  <2>2. QED
    BY <1>1, <1>4, <2>1, OneCallMoves DEF CallLost, Failed
<1>5. QED
  BY <1>2, <1>3, <1>4

LEMMA JoinRefreshKeepsIInv ==
  ASSUME IInv, NEW c \in Calls, JoinRefresh(c)
  PROVE  IInv'
<1> DEFINE t == TabOf[c]
           k == [call[c] EXCEPT !.at = "waiting"]
           r == [at |-> "sent", of |-> jar]
<1>1. TypeOK /\ t \in Tabs /\ call[c] \in Call /\ RanOf(call[c]) /\ call[c].at = "unauthorized"
  BY SessionsAssumption DEF IInv, TypeOK, Runs, JoinRefresh
<1>2. k \in Call /\ RanOf(k) /\ k.at = "waiting"
  <2>1. k.at = "waiting"
    BY <1>1 DEF Call
  <2>2. QED
    BY <1>1, <2>1, CallBecomes
<1>3. /\ call' = [call EXCEPT ![c] = k]
      /\ refresh' = IF refresh[t].at = "idle" THEN [refresh EXCEPT ![t] = r] ELSE refresh
      /\ UNCHANGED <<session, jar, token, auth, leaving, bounds>>
  BY DEF JoinRefresh
<1>4. call' \in [Calls -> Call] /\ call'[c] = k /\ \A d \in Calls : d # c => call'[d] = call[d]
  BY <1>1, <1>2, <1>3 DEF TypeOK
<1>5. r \in Refresh
  BY <1>1 DEF TypeOK, Refresh
<1>6. refresh' \in [Tabs -> Refresh] /\ refresh'[t].at # "idle"
  <2>1. CASE refresh[t].at = "idle"
    BY <1>1, <1>3, <1>5, <2>1 DEF TypeOK
  <2>2. CASE refresh[t].at # "idle"
    BY <1>1, <1>3, <2>2 DEF TypeOK
  <2>3. QED
    BY <2>1, <2>2
<1>7. \A v \in Tabs : v # t => refresh'[v] = refresh[v]
  BY <1>1, <1>3 DEF TypeOK
<1>8. TypeOK' /\ Runs'
  <2>1. TypeOK'
    <3>1. UNCHANGED <<session, jar, token, auth, leaving, logins, logouts, faults>>
      BY <1>3 DEF bounds
    <3>2. QED
      BY <1>1, <1>4, <1>6, <3>1 DEF TypeOK
  <2>2. Runs'
    <3>1. \A d \in Calls : RanOf(call'[d])
      BY <1>2, <1>4 DEF IInv, Runs
    <3>2. QED
      BY <3>1 DEF Runs
  <2>3. QED
    BY <2>1, <2>2
<1>9. refresh'[t].at = "granted" => refresh'[t].of \in Ids
  <2>1. CASE refresh[t].at = "idle"
    BY <1>1, <1>3, <2>1 DEF TypeOK
  <2>2. CASE refresh[t].at # "idle"
    BY <1>1, <1>3, <2>2 DEF IInv, Named
  <2>3. QED
    BY <2>1, <2>2
<1>10. Named'
  BY <1>3, <1>7, <1>9 DEF IInv, Named
<1>11. NobodyWaitsInVain'
  <2>1. c \in Waiting(t)'
    BY <1>2, <1>4 DEF Waiting, Of
  <2>2. \A v \in Tabs : v # t => Waiting(v)' = Waiting(v)
    BY <1>1, <1>4, OtherTabs DEF Waiting, Of
  <2>3. ASSUME NEW v \in Tabs, v # t
        PROVE  Waiting(v)' # {} <=> refresh'[v].at # "idle"
    BY <1>7, <2>2, <2>3 DEF IInv, NobodyWaitsInVain
  <2>4. \A v \in Tabs : Waiting(v)' # {} <=> refresh'[v].at # "idle"
    BY <1>6, <2>1, <2>3 DEF Waiting, Of
  <2>5. QED
    BY <2>4 DEF NobodyWaitsInVain
<1>12. QED
  BY <1>8, <1>10, <1>11 DEF IInv

\* The end of a refresh: what all three outcomes have in common.
LEMMA EndOfRefresh ==
  ASSUME IInv, NEW t \in Tabs, NEW k \in [Calls -> Call],
         \A c \in Waiting(t) : RanOf(k[c]) /\ k[c].at # "waiting",
         call' = [c \in Calls |-> IF c \in Resumed(t) THEN k[c] ELSE call[c]],
         refresh' = [refresh EXCEPT ![t] = Rest],
         token' \in [Tabs -> Token], leaving' \subseteq Tabs, faults' \in 0..MaxFaults,
         UNCHANGED <<session, jar, auth, logins, logouts>>
  PROVE  IInv'
<1>1. TypeOK /\ call' \in [Calls -> Call] /\ Rest \in Refresh
  BY Types DEF IInv, TypeOK
<1>2. TypeOK'
  BY <1>1 DEF TypeOK
<1>3. Named'
  BY <1>1 DEF IInv, Named, TypeOK, Rest
<1>4. Runs'
  BY <1>1 DEF IInv, Runs, Resumed
<1>5. NobodyWaitsInVain'
  <2>1. \A c \in Calls :
          IF c \in Of(t) /\ call[c].at = "waiting" THEN call'[c].at # "waiting"
          ELSE call'[c].at = "waiting" => call[c].at = "waiting"
    BY DEF Resumed, Waiting
  <2>2. \A c \in Calls : c \notin Of(t) => call'[c].at = call[c].at
    BY DEF Resumed, Waiting
  <2>3. QED
    BY <2>1, <2>2, RefreshEnds
<1>6. QED
  BY <1>2, <1>3, <1>4, <1>5 DEF IInv

LEMMA RefreshedKeepsIInv ==
  ASSUME IInv, NEW t \in Tabs, Refreshed(t)
  PROVE  IInv'
<1> DEFINE tok == Minted(refresh[t].of)
           k == [c \in Calls |-> IF call[c].at = "done" THEN call[c]
                   ELSE [call[c] EXCEPT !.at = "sent", !.with = tok, !.again = TRUE]]
<1>1. TypeOK /\ tok \in Token
  BY Types DEF IInv, TypeOK, Named, Refreshed
<1>2. \A c \in Calls : call[c] \in Call /\ RanOf(call[c])
  BY <1>1 DEF IInv, TypeOK, Runs
<1>3. k \in [Calls -> Call]
  BY <1>1, <1>2, CallBecomes
<1>4. \A c \in Waiting(t) :
        /\ k[c] = [call[c] EXCEPT !.at = "sent", !.with = tok, !.again = TRUE]
        /\ RanOf(k[c]) /\ k[c].at # "waiting"
  <2>1. SUFFICES ASSUME NEW c \in Calls, call[c].at = "waiting"
                 PROVE  /\ k[c] = [call[c] EXCEPT !.at = "sent", !.with = tok, !.again = TRUE]
                        /\ RanOf(k[c]) /\ k[c].at # "waiting"
    BY DEF Waiting, Of
  <2>2. k[c] = [call[c] EXCEPT !.at = "sent", !.with = tok, !.again = TRUE]
    BY <2>1
  <2>3. [call[c] EXCEPT !.at = "sent", !.with = tok, !.again = TRUE].at = "sent"
    BY <1>2 DEF Call
  <2>4. QED
    BY <1>1, <1>2, <2>1, <2>2, <2>3, CallBecomes
<1>5. call' = [c \in Calls |-> IF c \in Resumed(t) THEN k[c] ELSE call[c]]
  BY <1>4 DEF Refreshed, Resumed
<1>6. token' \in [Tabs -> Token]
  BY <1>1 DEF Refreshed, TypeOK
<1>7. /\ refresh' = [refresh EXCEPT ![t] = Rest]
      /\ leaving' \subseteq Tabs /\ faults' \in 0..MaxFaults
      /\ UNCHANGED <<session, jar, auth, logins, logouts>>
  BY <1>1 DEF Refreshed, TypeOK, bounds
<1> HIDE DEF k, tok
<1>8. \A c \in Waiting(t) : RanOf(k[c]) /\ k[c].at # "waiting"
  BY <1>4
<1>9. QED
  BY <1>3, <1>5, <1>6, <1>7, <1>8, EndOfRefresh

LEMMA GivenUpKeepsIInv ==
  ASSUME IInv, NEW t \in Tabs, NotRefreshed(t) \/ RefreshLost(t)
  PROVE  IInv'
<1> DEFINE k == [c \in Calls |-> NoCall]
<1>1. TypeOK /\ GivenUp(t)
  BY DEF IInv, NotRefreshed, RefreshLost
<1>2. faults' \in 0..MaxFaults
  BY <1>1, SessionsAssumption DEF NotRefreshed, RefreshLost, Fault, TypeOK
<1>3. k \in [Calls -> Call] /\ \A c \in Waiting(t) : RanOf(k[c]) /\ k[c].at # "waiting"
  BY Types DEF Waiting, Of, NoCall
<1>4. call' = [c \in Calls |-> IF c \in Resumed(t) THEN k[c] ELSE call[c]]
  BY <1>1 DEF GivenUp
<1>5. token' \in [Tabs -> Token] /\ leaving' \subseteq Tabs
  BY <1>1, Types DEF GivenUp, TypeOK
<1>6. QED
  BY <1>1, <1>2, <1>3, <1>4, <1>5, EndOfRefresh DEF GivenUp

\* The next document drops what the tab had in flight.
LEMMA LoadKeepsIInv ==
  ASSUME IInv, NEW t \in Tabs, Load(t)
  PROVE  IInv'
<1>1. TypeOK /\ NoAuth.at = "idle" /\ NoCall.at = "idle" /\ NoCall \in Call /\ RanOf(NoCall)
        /\ Rest \in Refresh /\ NoAuth \in Auth
  BY Types DEF IInv, NoAuth, NoCall
<1>2. TypeOK'
  BY <1>1 DEF Load, TypeOK, bounds
<1>3. Named'
  BY <1>1 DEF Load, IInv, Named, TypeOK, Rest
<1>4. Runs'
  BY <1>1 DEF Load, IInv, Runs
<1>5. NobodyWaitsInVain'
  <2>1. \A c \in Calls :
          IF c \in Of(t) /\ call[c].at = "waiting" THEN call'[c].at # "waiting"
          ELSE call'[c].at = "waiting" => call[c].at = "waiting"
    BY <1>1 DEF Load
  <2>2. \A c \in Calls : c \notin Of(t) => call'[c].at = call[c].at
    BY DEF Load
  <2>3. QED
    BY <2>1, <2>2, RefreshEnds DEF Load
<1>6. QED
  BY <1>2, <1>3, <1>4, <1>5 DEF IInv

\* The copies of a token that expire.
LEMMA ExpireKeepsIInv ==
  ASSUME IInv, NEW t \in Tabs, Expire(t)
  PROVE  IInv'
<1> DEFINE Old(tok) == [tok EXCEPT !.fresh = FALSE]
<1>1. TypeOK /\ token[t] \in Token /\ token[t].of \in Ids
  BY DEF IInv, TypeOK, Expire, Token, NoToken
<1>2. ASSUME NEW tok \in Token, tok.of = token[t].of
      PROVE  [tok EXCEPT !.fresh = FALSE] \in Token
  <2>1. tok \in [of : Ids, fresh : BOOLEAN]
    BY <1>1, <1>2, SessionsAssumption DEF Token, NoToken, Ids
  <2>2. [tok EXCEPT !.fresh = FALSE] \in [of : Ids, fresh : BOOLEAN]
    BY <2>1
  <2>3. QED
    BY <2>2 DEF Token
<1>3. token' = [token EXCEPT ![t] = [token[t] EXCEPT !.fresh = FALSE]]
  BY DEF Expire
<1>4. token' \in [Tabs -> Token]
  BY <1>1, <1>2, <1>3 DEF TypeOK
<1>5. \A c \in Calls :
        \/ call'[c] = call[c]
        \/ /\ call[c].with.of = token[t].of
           /\ call'[c] = [call[c] EXCEPT !.with = [call[c].with EXCEPT !.fresh = FALSE]]
  BY DEF Expire
<1>6. \A c \in Calls : call'[c] \in Call /\ call'[c].at = call[c].at /\ call'[c].ran = call[c].ran
  <2>1. SUFFICES ASSUME NEW c \in Calls
                 PROVE  /\ call'[c] \in Call
                        /\ call'[c].at = call[c].at /\ call'[c].ran = call[c].ran
    OBVIOUS
  <2>2. call[c] \in Call /\ call[c].with \in Token
    BY <1>1 DEF TypeOK, Call
  <2>3. CASE call'[c] = call[c]
    BY <2>2, <2>3
  <2>4. CASE /\ call[c].with.of = token[t].of
             /\ call'[c] = [call[c] EXCEPT !.with = [call[c].with EXCEPT !.fresh = FALSE]]
    <3>1. [call[c].with EXCEPT !.fresh = FALSE] \in Token
      BY <1>2, <2>2, <2>4
    <3>2. QED
      BY <2>2, <2>4, <3>1 DEF Call
  <2>5. QED
    BY <1>5, <2>3, <2>4
<1>7. call' \in [Calls -> Call]
  BY <1>6 DEF Expire
<1>8. TypeOK'
  BY <1>1, <1>4, <1>7 DEF Expire, TypeOK, bounds
<1>9. Named' /\ Runs'
  BY <1>6 DEF Expire, IInv, Named, Runs, RanOf
<1>10. NobodyWaitsInVain'
  BY <1>6 DEF Expire, IInv, NobodyWaitsInVain, Waiting, Of
<1>11. QED
  BY <1>8, <1>9, <1>10 DEF IInv

-----------------------------------------------------------------------------
(***************************************************************************)
(* Logging in and out.                                                     *)
(***************************************************************************)
LEMMA AuthKeepsIInv ==
  ASSUME IInv, NEW t \in Tabs,
         \/ \E u \in Users : SubmitLogin(t, u)
         \/ LoggedIn(t) \/ ClickLogout(t) \/ LoggedOut(t) \/ LogoutLost(t) \/ LoginLost(t)
  PROVE  IInv'
<1>1. TypeOK /\ Named /\ NoAuth.at = "idle" /\ NoAuth \in Auth /\ NoToken \in Token
        /\ Nobody \in Users /\ 0 \in 0..MaxLogins
  BY Types, SessionsAssumption DEF IInv, NoAuth
<1>2. ASSUME NEW u \in Users, SubmitLogin(t, u) PROVE IInv'
  <2> DEFINE a == [at |-> "login", user |-> u, of |-> logins + 1]
  <2>1. logins + 1 \in Ids /\ logins + 1 \in 0..MaxLogins
    BY <1>1, <1>2, SessionsAssumption DEF SubmitLogin, TypeOK, Ids
  <2>2. a \in Auth
    BY <2>1 DEF Auth
  <2>3. auth' = [auth EXCEPT ![t] = a] /\ logins' = logins + 1
    BY <1>2 DEF SubmitLogin
  <2>4. TypeOK'
    BY <1>1, <1>2, <2>1, <2>2, <2>3 DEF SubmitLogin, TypeOK
  <2>5. \A v \in Tabs : IF v = t THEN auth'[v] = a ELSE auth'[v] = auth[v]
    BY <1>1, <2>3 DEF TypeOK
  <2>6. QED
    BY <1>1, <1>2, <2>1, <2>4, <2>5, CallsUntouched DEF SubmitLogin, Named
<1>3. ASSUME auth' = [auth EXCEPT ![t] = NoAuth], TypeOK', UNCHANGED <<call, refresh>>
      PROVE  IInv'
  <2>1. \A v \in Tabs : IF v = t THEN auth'[v] = NoAuth ELSE auth'[v] = auth[v]
    BY <1>1, <1>3 DEF TypeOK
  <2>2. QED
    BY <1>1, <1>3, <2>1, CallsUntouched DEF Named
<1>4. CASE LoggedIn(t)
  <2>1. auth[t].of \in Ids
    BY <1>1, <1>4 DEF LoggedIn, Named
  <2>2. Minted(auth[t].of) \in Token /\ auth[t].of \in 0..MaxLogins
    BY <2>1, Types
  <2>3. TypeOK'
    BY <1>1, <1>4, <2>2 DEF LoggedIn, TypeOK, bounds
  <2>4. QED
    BY <1>3, <1>4, <2>3 DEF LoggedIn
<1>5. CASE ClickLogout(t)
  <2> DEFINE a == [at |-> "logout", user |-> Nobody, of |-> jar]
  <2>1. a \in Auth /\ logouts' \in 0..MaxLogouts
    BY <1>1, <1>5, SessionsAssumption DEF ClickLogout, TypeOK, Auth
  <2>2. auth' = [auth EXCEPT ![t] = a]
    BY <1>5 DEF ClickLogout
  <2>3. TypeOK'
    BY <1>1, <1>5, <2>1, <2>2 DEF ClickLogout, TypeOK
  <2>4. \A v \in Tabs : IF v = t THEN auth'[v] = a ELSE auth'[v] = auth[v]
    BY <1>1, <2>2 DEF TypeOK
  <2>5. QED
    BY <1>1, <1>5, <2>3, <2>4, CallsUntouched DEF ClickLogout, Named
<1>6. CASE LoggedOut(t) \/ LogoutLost(t)
  <2>1. LeaveLoggedOut(t) /\ jar' \in 0..MaxLogins
    BY <1>1, <1>6 DEF LoggedOut, LogoutLost, TypeOK
  <2>2. faults' \in 0..MaxFaults
    BY <1>1, <1>6, SessionsAssumption DEF LoggedOut, LogoutLost, Fault, TypeOK
  <2>3. TypeOK'
    BY <1>1, <2>1, <2>2 DEF LeaveLoggedOut, TypeOK
  <2>4. QED
    BY <1>3, <2>1, <2>3 DEF LeaveLoggedOut
<1>7. CASE LoginLost(t)
  <2>1. faults' \in 0..MaxFaults
    BY <1>1, <1>7, SessionsAssumption DEF LoginLost, Fault, TypeOK
  <2>2. TypeOK'
    BY <1>1, <1>7, <2>1 DEF LoginLost, TypeOK
  <2>3. QED
    BY <1>3, <1>7, <2>2 DEF LoginLost
<1>8. QED
  BY <1>2, <1>4, <1>5, <1>6, <1>7

-----------------------------------------------------------------------------
LEMMA InitIInv == ASSUME Init PROVE IInv
<1>1. TypeOK
  BY Types, SessionsAssumption DEF Init, TypeOK
<1>2. Named /\ Runs
  BY Types DEF Init, Named, Runs, Rest, NoAuth
<1>3. NobodyWaitsInVain
  BY DEF Init, NobodyWaitsInVain, Waiting, Of, NoCall, Rest
<1>4. QED
  BY <1>1, <1>2, <1>3 DEF IInv

LEMMA NextIInv == ASSUME IInv, [Next]_vars PROVE IInv'
<1>1. CASE UNCHANGED vars
  BY <1>1 DEF vars, IInv, TypeOK, Named, Runs, NobodyWaitsInVain, Waiting, Of
<1>2. CASE Next
  <2>1. CASE Backend
    BY <2>1, SessionsKeepIInv, HandleRefreshKeepsIInv, HandleCallKeepsIInv DEF Backend
  <2>2. CASE Page
    BY <2>2, CallsKeepIInv, JoinRefreshKeepsIInv, RefreshedKeepsIInv, GivenUpKeepsIInv,
       AuthKeepsIInv, LoadKeepsIInv DEF Page
  <2>3. CASE Network
    BY <2>3, CallsKeepIInv, GivenUpKeepsIInv, AuthKeepsIInv DEF Network
  <2>4. QED
    BY <1>2, <2>1, <2>2, <2>3, SessionsKeepIInv, ExpireKeepsIInv DEF Next
<1>3. QED
  BY <1>1, <1>2

LEMMA AlwaysIInv == Spec => []IInv
<1>1. Init => IInv
  BY InitIInv
<1>2. IInv /\ [Next]_vars => IInv'
  BY NextIInv
<1>3. QED
  BY <1>1, <1>2, PTL DEF Spec

-----------------------------------------------------------------------------
\* Every variable of browser and backend keeps to its values.
THEOREM TypeCorrect == Spec => []TypeOK
<1>1. IInv => TypeOK
  BY DEF IInv
<1>2. QED
  BY <1>1, AlwaysIInv, PTL

\* The repetition of a call after a refresh (request in api.js) never makes the
\* backend execute it twice: only a 401 leads to one.
THEOREM CallsRunOnce == Spec => []ExecutedOnce
<1>1. IInv => ExecutedOnce
  BY DEF IInv, Runs, RanOf, ExecutedOnce
<1>2. QED
  BY <1>1, AlwaysIInv, PTL

\* The calls that share refreshInflight are all woken when it ends, and none
\* joins one that has ended.
THEOREM WaitersAreWoken == Spec => []NobodyWaitsInVain
<1>1. IInv => NobodyWaitsInVain
  BY DEF IInv
<1>2. QED
  BY <1>1, AlwaysIInv, PTL

-----------------------------------------------------------------------------
(***************************************************************************)
(* A session's row is inserted once: every login under way has an id of    *)
(* its own, and no row of that id or of a later one exists.                *)
(***************************************************************************)
LoginsFresh ==
  /\ \A s \in Ids : s > logins => session[s].state = "unused"
  /\ \A t \in Tabs : auth[t].at = "login" =>
       auth[t].of <= logins /\ session[auth[t].of].state = "unused"
  /\ \A t, v \in Tabs : t # v /\ auth[t].at = "login" /\ auth[v].at = "login"
       => auth[t].of # auth[v].of

\* No login begins, and a row appears only for one that ends.
LEMMA NoNewLogin ==
  ASSUME IInv, LoginsFresh, logins' = logins,
         \A t \in Tabs : auth'[t].at = "login" => auth'[t] = auth[t],
         \A s \in Ids : session'[s].state # "unused" =>
            \/ session[s].state # "unused"
            \/ \E t \in Tabs : auth[t].at = "login" /\ auth[t].of = s /\ auth'[t].at # "login"
  PROVE  LoginsFresh'
<1>1. logins \in Int /\ \A t \in Tabs : auth[t].at = "login" => auth[t].of \in Ids
  BY DEF IInv, TypeOK, Named
<1>2. \A s \in Ids : s > logins => session'[s].state = "unused"
  BY <1>1 DEF LoginsFresh, Ids
<1>3. ASSUME NEW t \in Tabs, auth'[t].at = "login"
      PROVE  /\ auth'[t] = auth[t] /\ auth[t].of <= logins
             /\ session'[auth[t].of].state = "unused"
  BY <1>1, <1>3 DEF LoginsFresh
<1>4. QED
  BY <1>2, <1>3 DEF LoginsFresh

LEMMA NextLoginsFresh == ASSUME IInv, IInv', LoginsFresh, [Next]_vars PROVE LoginsFresh'
<1>1. /\ session \in [Ids -> Session] /\ auth \in [Tabs -> Auth]
      /\ NoAuth.at = "idle" /\ logins \in Nat
  BY SessionsAssumption DEF IInv, TypeOK, NoAuth
<1>2. ASSUME UNCHANGED <<session, auth, logins>> PROVE LoginsFresh'
  BY <1>2, NoNewLogin
<1>3. ASSUME NEW t \in Tabs, UNCHANGED <<session, logins>>,
             auth' = [auth EXCEPT ![t] = auth'[t]], auth'[t].at # "login"
      PROVE  LoginsFresh'
  <2>1. \A v \in Tabs : auth'[v].at = "login" => auth'[v] = auth[v]
    BY <1>1, <1>3
  <2>2. QED
    BY <1>3, <2>1, NoNewLogin
<1>4. ASSUME NEW t \in Tabs, HandleLogin(t) PROVE LoginsFresh'
  <2>1. auth[t].of \in Ids /\ auth[t].at = "login"
    BY <1>4 DEF HandleLogin, IInv, Named
  <2>2. auth' = [auth EXCEPT ![t] = [auth[t] EXCEPT !.at = "welcome"]]
    BY <1>4 DEF HandleLogin
  <2>3. auth'[t].at = "welcome" /\ \A v \in Tabs : v # t => auth'[v] = auth[v]
    BY <1>1, <2>2 DEF Auth
  <2>4. \A s \in Ids : s # auth[t].of => session'[s] = session[s]
    BY <1>1, <1>4 DEF HandleLogin
  <2>5. QED
    BY <1>4, <2>1, <2>3, <2>4, NoNewLogin DEF HandleLogin, bounds
<1>5. ASSUME NEW t \in Tabs, HandleLogout(t) PROVE LoginsFresh'
  <2>1. auth' = [auth EXCEPT ![t] = [auth[t] EXCEPT !.at = "bye"]]
    BY <1>5 DEF HandleLogout
  <2>2. auth'[t].at = "bye" /\ \A v \in Tabs : v # t => auth'[v] = auth[v]
    BY <1>1, <2>1 DEF Auth
  <2>3. \A s \in Ids : session'[s] = session[s] \/ session[s].state = "live"
    BY <1>5 DEF HandleLogout
  <2>4. QED
    BY <1>5, <2>2, <2>3, NoNewLogin DEF HandleLogout, bounds
<1>6. ASSUME NEW u \in Users, DeleteUser(u) PROVE LoginsFresh'
  <2>1. \A s \in Ids : session'[s] = session[s] \/ session[s].state # "unused"
    BY <1>6 DEF DeleteUser
  <2>2. QED
    BY <1>6, <2>1, NoNewLogin DEF DeleteUser, bounds
<1>7. ASSUME NEW s \in Ids, SessionExpires(s) PROVE LoginsFresh'
  <2>1. \A d \in Ids : session'[d] = session[d] \/ session[d].state = "live"
    BY <1>1, <1>7 DEF SessionExpires
  <2>2. QED
    BY <1>7, <2>1, NoNewLogin DEF SessionExpires, bounds
<1>8. ASSUME NEW t \in Tabs, NEW u \in Users, SubmitLogin(t, u) PROVE LoginsFresh'
  <2> DEFINE a == [at |-> "login", user |-> u, of |-> logins + 1]
  <2>1. auth' = [auth EXCEPT ![t] = a] /\ logins' = logins + 1 /\ session' = session
    BY <1>8 DEF SubmitLogin
  <2>2. auth'[t] = a /\ \A v \in Tabs : v # t => auth'[v] = auth[v]
    BY <1>1, <2>1
  <2>3. logins + 1 \in Ids
    BY <1>1, <1>8, SessionsAssumption DEF SubmitLogin, Ids
  <2>4. \A v \in Tabs : auth[v].at = "login" => auth[v].of \in Int /\ auth[v].of <= logins
    BY DEF IInv, Named, Ids, LoginsFresh
  <2>5. \A s \in Ids : s > logins' => session'[s].state = "unused"
    BY <1>1, <2>1 DEF LoginsFresh, Ids
  <2>6. ASSUME NEW v \in Tabs, auth'[v].at = "login"
        PROVE  /\ auth'[v].of <= logins' /\ session'[auth'[v].of].state = "unused"
               /\ v # t => auth'[v].of <= logins /\ auth'[v].of \in Int
    BY <1>1, <2>1, <2>2, <2>3, <2>4, <2>6 DEF LoginsFresh
  <2>7. ASSUME NEW v \in Tabs, NEW w \in Tabs, v # w,
               auth'[v].at = "login", auth'[w].at = "login"
        PROVE  auth'[v].of # auth'[w].of
    BY <1>1, <2>2, <2>4, <2>7 DEF LoginsFresh
  <2>8. QED
    BY <2>5, <2>6, <2>7 DEF LoginsFresh
<1>9. ASSUME NEW t \in Tabs,
             \/ RefuseLogin(t) \/ LoggedIn(t) \/ LoggedOut(t) \/ LogoutLost(t)
             \/ LoginLost(t) \/ Load(t) \/ ClickLogout(t)
      PROVE  LoginsFresh'
  <2>1. /\ UNCHANGED <<session, logins>>
        /\ \/ auth' = [auth EXCEPT ![t] = NoAuth]
           \/ auth' = [auth EXCEPT ![t] = [at |-> "logout", user |-> Nobody, of |-> jar]]
    BY <1>9 DEF RefuseLogin, LoggedIn, LoggedOut, LogoutLost, LeaveLoggedOut, LoginLost,
       Load, ClickLogout, bounds
  <2>2. auth'[t].at # "login" /\ auth' = [auth EXCEPT ![t] = auth'[t]]
    BY <1>1, <2>1
  <2>3. QED
    BY <1>3, <2>1, <2>2
<1>10. ASSUME \/ \E t \in Tabs : \/ HandleRefresh(t) \/ Refreshed(t) \/ NotRefreshed(t)
                                 \/ RefreshLost(t) \/ Expire(t)
              \/ \E c \in Calls : \/ HandleCall(c) \/ Send(c) \/ Answered(c)
                                  \/ JoinRefresh(c) \/ CallLost(c)
              \/ UNCHANGED vars
       PROVE  UNCHANGED <<session, auth, logins>>
  BY <1>10 DEF HandleRefresh, Kept, Refreshed, NotRefreshed, RefreshLost, GivenUp, Expire,
     HandleCall, Send, Answered, JoinRefresh, CallLost, bounds, vars
<1>11. QED
  BY <1>2, <1>4, <1>5, <1>6, <1>7, <1>8, <1>9, <1>10 DEF Next, Backend, Page, Network

LEMMA AlwaysLoginsFresh == Spec => [](IInv /\ LoginsFresh)
<1>1. Init => IInv /\ LoginsFresh
  BY InitIInv DEF Init, LoginsFresh, NoSession, NoAuth
<1>2. IInv /\ LoginsFresh /\ [Next]_vars => (IInv /\ LoginsFresh)'
  BY NextIInv, NextLoginsFresh
<1>3. QED
  BY <1>1, <1>2, PTL DEF Spec

-----------------------------------------------------------------------------
(***************************************************************************)
(* Access tokens come from sessions that are live when they are granted,   *)
(* and otherwise only from what holds one already.                         *)
(***************************************************************************)
\* Where a token in a new place may come from.
LEMMA EchoFrom ==
  ASSUME NEW s \in Ids,
         \A t \in Tabs : token'[t] = Minted(s) => Echo(s),
         \A t \in Tabs : refresh'[t] = [at |-> "granted", of |-> s] => Echo(s),
         \A t \in Tabs : auth'[t].at = "welcome" /\ auth'[t].of = s => Echo(s),
         \A c \in Calls : call'[c].with = Minted(s) => Echo(s)
  PROVE  Echo(s)' => Echo(s)
BY DEF Echo, Minted

\* What a tab or a call holds, Echo has counted.
LEMMA EchoOf ==
  ASSUME NEW s \in Ids
  PROVE  /\ \A t \in Tabs : token[t] = Minted(s) => Echo(s)
         /\ \A t \in Tabs : refresh[t] = [at |-> "granted", of |-> s] => Echo(s)
         /\ \A t \in Tabs : auth[t].at = "welcome" /\ auth[t].of = s => Echo(s)
         /\ \A c \in Calls : call[c].with = Minted(s) => Echo(s)
BY DEF Echo

LEMMA NoTokenIsNotMinted ==
  /\ \A s \in Ids : NoToken # Minted(s)
  /\ \A s, d \in Ids : Minted(s) = Minted(d) => s = d
  /\ \A s \in Ids : Rest # [at |-> "granted", of |-> s]
  /\ NoCall.with = NoToken /\ NoAuth.at = "idle"
<1>1. \A s \in Ids : NoToken # Minted(s)
  <2>1. \A s \in Ids : NoToken.of # Minted(s).of
    BY SessionsAssumption DEF NoToken, Minted, Ids
  <2>2. QED
    BY <2>1
<1>2. \A s, d \in Ids : Minted(s) = Minted(d) => s = d
  BY DEF Minted
<1>3. \A s \in Ids : Rest # [at |-> "granted", of |-> s]
  BY DEF Rest
<1>4. QED
  BY <1>1, <1>2, <1>3 DEF NoCall, NoAuth

LEMMA BackendEcho ==
  ASSUME IInv, LoginsFresh, NEW s \in Ids, session[s].state \notin {"unused", "live"},
         \/ \E t \in Tabs : \/ HandleLogin(t) \/ RefuseLogin(t) \/ HandleLogout(t)
                            \/ HandleRefresh(t)
         \/ \E c \in Calls : HandleCall(c)
  PROVE  Echo(s)' => Echo(s)
<1> USE EchoOf
<1>1. TypeOK
  BY DEF IInv
<1>2. ASSUME NEW t \in Tabs, HandleLogin(t) PROVE Echo(s)' => Echo(s)
  <2>1. auth' = [auth EXCEPT ![t] = [auth[t] EXCEPT !.at = "welcome"]]
    BY <1>2 DEF HandleLogin
  <2>2. auth[t].of # s
    BY <1>2 DEF HandleLogin, LoginsFresh
  <2>3. auth'[t].of # s /\ \A v \in Tabs : v # t => auth'[v] = auth[v]
    BY <1>1, <2>1, <2>2 DEF TypeOK, Auth
  <2>4. QED
    BY <1>2, <2>3, EchoFrom DEF HandleLogin
<1>3. ASSUME NEW t \in Tabs, RefuseLogin(t) PROVE Echo(s)' => Echo(s)
  <2>1. auth'[t].at = "idle" /\ \A v \in Tabs : v # t => auth'[v] = auth[v]
    BY <1>1, <1>3, NoTokenIsNotMinted DEF RefuseLogin, TypeOK
  <2>2. QED
    BY <1>3, <2>1, EchoFrom DEF RefuseLogin
<1>4. ASSUME NEW t \in Tabs, HandleLogout(t) PROVE Echo(s)' => Echo(s)
  <2>1. auth' = [auth EXCEPT ![t] = [auth[t] EXCEPT !.at = "bye"]]
    BY <1>4 DEF HandleLogout
  <2>2. auth'[t].at = "bye" /\ \A v \in Tabs : v # t => auth'[v] = auth[v]
    BY <1>1, <2>1 DEF TypeOK, Auth
  <2>3. QED
    BY <1>4, <2>2, EchoFrom DEF HandleLogout
<1>5. ASSUME NEW t \in Tabs, HandleRefresh(t) PROVE Echo(s)' => Echo(s)
  <2>1. refresh[t] \in Refresh
    BY <1>1 DEF TypeOK
  <2>2. refresh'[t] # [at |-> "granted", of |-> s]
    <3>1. CASE Refreshable(refresh[t].of)
      <4>1. refresh[t].of # s
        BY <3>1 DEF Refreshable
      <4>2. refresh'[t].of = refresh[t].of
        BY <1>1, <1>5, <2>1, <3>1 DEF HandleRefresh, TypeOK, Refresh
      <4>3. QED
        BY <4>1, <4>2
    <3>2. CASE ~Refreshable(refresh[t].of)
      <4>1. refresh'[t].at = "denied"
        BY <1>1, <1>5, <2>1, <3>2 DEF HandleRefresh, TypeOK, Refresh
      <4>2. QED
        BY <4>1
    <3>3. QED
      BY <3>1, <3>2
  <2>3. \A v \in Tabs : v # t => refresh'[v] = refresh[v]
    BY <1>1, <1>5 DEF HandleRefresh, TypeOK
  <2>4. QED
    BY <1>5, <2>2, <2>3, EchoFrom DEF HandleRefresh
<1>6. ASSUME NEW c \in Calls, HandleCall(c) PROVE Echo(s)' => Echo(s)
  <2>1. call[c] \in Call
    BY <1>1 DEF TypeOK
  <2>2. Reply(call[c]).with = NoToken
    <3>1. [call[c] EXCEPT !.at = "done", !.with = NoToken, !.ran = @ + 1].with = NoToken
      BY <2>1 DEF Call
    <3>2. [call[c] EXCEPT !.at = "unauthorized", !.with = NoToken].with = NoToken
      BY <2>1 DEF Call
    <3>3. QED
      BY <3>1, <3>2, NoTokenIsNotMinted DEF Reply
  <2>3. call'[c].with = NoToken /\ \A d \in Calls : d # c => call'[d] = call[d]
    BY <1>1, <1>6, <2>2 DEF HandleCall, TypeOK
  <2>4. UNCHANGED <<token, refresh, auth>>
    BY <1>6 DEF HandleCall
  <2>5. \A d \in Calls : call'[d].with = Minted(s) => Echo(s)
    BY <2>3, NoTokenIsNotMinted
  <2>6. QED
    BY <2>4, <2>5, EchoFrom
<1>7. QED
  BY <1>2, <1>3, <1>4, <1>5, <1>6

LEMMA CallsEcho ==
  ASSUME IInv, NEW s \in Ids,
         \E c \in Calls : Send(c) \/ Answered(c) \/ CallLost(c) \/ JoinRefresh(c)
  PROVE  Echo(s)' => Echo(s)
<1> USE EchoOf
<1>1. TypeOK
  BY DEF IInv
<1>2. PICK c \in Calls : Send(c) \/ Answered(c) \/ CallLost(c) \/ JoinRefresh(c)
  OBVIOUS
<1>3. TabOf[c] \in Tabs /\ call[c] \in Call /\ NoCall \in Call
  BY <1>1, SessionsAssumption, Types DEF TypeOK
<1>4. CASE Send(c)
  <2>1. call' = [call EXCEPT ![c] = [NoCall EXCEPT !.at = "sent", !.with = token[TabOf[c]]]]
    BY <1>4 DEF Send
  <2>2. call'[c].with = token[TabOf[c]] /\ \A d \in Calls : d # c => call'[d] = call[d]
    BY <1>1, <1>3, <2>1 DEF TypeOK, Call
  <2>3. UNCHANGED <<token, refresh, auth>>
    BY <1>4 DEF Send
  <2>4. \A d \in Calls : call'[d].with = Minted(s) => Echo(s)
    BY <1>3, <2>2
  <2>5. QED
    BY <2>3, <2>4, EchoFrom
<1>5. CASE Answered(c) \/ CallLost(c)
  <2>1. call'[c].with = NoToken /\ \A d \in Calls : d # c => call'[d] = call[d]
    BY <1>1, <1>5, NoTokenIsNotMinted DEF Answered, CallLost, Failed, TypeOK
  <2>2. UNCHANGED <<token, refresh, auth>>
    BY <1>5 DEF Answered, CallLost
  <2>3. QED
    BY <2>1, <2>2, EchoFrom, NoTokenIsNotMinted
<1>6. CASE JoinRefresh(c)
  <2>1. \A d \in Calls : call'[d].with = call[d].with
    BY <1>1, <1>3, <1>6 DEF JoinRefresh, TypeOK, Call
  <2>2. \A t \in Tabs : refresh'[t] = refresh[t] \/ refresh'[t] = [at |-> "sent", of |-> jar]
    BY <1>1, <1>6 DEF JoinRefresh, TypeOK
  <2>3. [at |-> "sent", of |-> jar] # [at |-> "granted", of |-> s]
    OBVIOUS
  <2>4. UNCHANGED <<token, auth>>
    BY <1>6 DEF JoinRefresh
  <2>5. QED
    BY <2>1, <2>2, <2>3, <2>4, EchoFrom
<1>7. QED
  BY <1>2, <1>4, <1>5, <1>6

LEMMA RefreshEcho ==
  ASSUME IInv, NEW s \in Ids, NEW t \in Tabs,
         Refreshed(t) \/ NotRefreshed(t) \/ RefreshLost(t)
  PROVE  Echo(s)' => Echo(s)
<1> USE EchoOf
<1>1. TypeOK /\ refresh[t] \in Refresh
  BY DEF IInv, TypeOK
<1>2. refresh' = [refresh EXCEPT ![t] = Rest] /\ auth' = auth
  BY DEF Refreshed, NotRefreshed, RefreshLost, GivenUp
<1>3. \A v \in Tabs : refresh'[v] = [at |-> "granted", of |-> s] => Echo(s)
  BY <1>1, <1>2, NoTokenIsNotMinted DEF TypeOK
<1>4. CASE Refreshed(t)
  <2>1. refresh[t].of \in Ids /\ refresh[t] = [at |-> "granted", of |-> refresh[t].of]
    BY <1>1, <1>4 DEF Refreshed, IInv, Named, Refresh
  <2>2. Minted(refresh[t].of) = Minted(s) => Echo(s)
    BY <2>1, NoTokenIsNotMinted
  <2>3. \A v \in Tabs : token'[v] = Minted(s) => Echo(s)
    BY <1>1, <1>4, <2>2 DEF Refreshed, TypeOK
  <2>4. \A c \in Calls : call'[c].with \in {call[c].with, Minted(refresh[t].of)}
    <3>1. SUFFICES ASSUME NEW c \in Calls
                   PROVE  call'[c].with \in {call[c].with, Minted(refresh[t].of)}
      OBVIOUS
    <3>2. call[c] \in Call
      BY <1>1 DEF TypeOK
    <3>3. \/ call'[c] = call[c]
          \/ call'[c] = [call[c] EXCEPT !.at = "sent", !.with = Minted(refresh[t].of),
                                        !.again = TRUE]
      BY <1>4 DEF Refreshed
    <3>4. QED
      BY <3>2, <3>3 DEF Call
  <2>5. QED
    BY <1>2, <1>3, <2>2, <2>3, <2>4, EchoFrom
<1>5. CASE NotRefreshed(t) \/ RefreshLost(t)
  <2>1. GivenUp(t)
    BY <1>5 DEF NotRefreshed, RefreshLost
  <2>2. \A v \in Tabs : token'[v] = Minted(s) => Echo(s)
    BY <1>1, <2>1, NoTokenIsNotMinted DEF GivenUp, TypeOK
  <2>3. \A c \in Calls : call'[c] \in {call[c], NoCall}
    BY <2>1 DEF GivenUp
  <2>4. QED
    BY <1>2, <1>3, <2>2, <2>3, EchoFrom, NoTokenIsNotMinted
<1>6. QED
  BY <1>4, <1>5

LEMMA TabEcho ==
  ASSUME IInv, NEW s \in Ids, NEW t \in Tabs,
         \/ \E u \in Users : SubmitLogin(t, u)
         \/ LoggedIn(t) \/ ClickLogout(t) \/ LoggedOut(t) \/ LogoutLost(t) \/ LoginLost(t)
         \/ Load(t) \/ Expire(t)
  PROVE  Echo(s)' => Echo(s)
<1> USE EchoOf
<1>1. TypeOK
  BY DEF IInv
<1>2. ASSUME NEW a, auth' = [auth EXCEPT ![t] = a], a.at # "welcome"
      PROVE  \A v \in Tabs : auth'[v].at = "welcome" /\ auth'[v].of = s => Echo(s)
  BY <1>1, <1>2 DEF TypeOK
<1>3. ASSUME auth' = [auth EXCEPT ![t] = NoAuth]
      PROVE  \A v \in Tabs : auth'[v].at = "welcome" /\ auth'[v].of = s => Echo(s)
  BY <1>2, <1>3, NoTokenIsNotMinted
<1>4. CASE LoggedIn(t)
  <2>1. auth[t].of \in Ids /\ auth[t].at = "welcome"
    BY <1>4 DEF LoggedIn, IInv, Named
  <2>2. Minted(auth[t].of) = Minted(s) => Echo(s)
    BY <2>1, NoTokenIsNotMinted
  <2>3. \A v \in Tabs : token'[v] = Minted(s) => Echo(s)
    BY <1>1, <1>4, <2>2 DEF LoggedIn, TypeOK
  <2>4. QED
    BY <1>3, <1>4, <2>3, EchoFrom DEF LoggedIn
<1>5. CASE (\E u \in Users : SubmitLogin(t, u)) \/ ClickLogout(t)
  <2>1. PICK a : auth' = [auth EXCEPT ![t] = a] /\ a.at # "welcome"
    BY <1>5 DEF SubmitLogin, ClickLogout
  <2>2. UNCHANGED <<token, refresh, call>>
    BY <1>5 DEF SubmitLogin, ClickLogout
  <2>3. QED
    BY <1>2, <2>1, <2>2, EchoFrom
<1>6. CASE LoggedOut(t) \/ LogoutLost(t)
  <2>1. LeaveLoggedOut(t)
    BY <1>6 DEF LoggedOut, LogoutLost
  <2>2. \A v \in Tabs : token'[v] = Minted(s) => Echo(s)
    BY <1>1, <2>1, NoTokenIsNotMinted DEF LeaveLoggedOut, TypeOK
  <2>3. QED
    BY <1>3, <2>1, <2>2, EchoFrom DEF LeaveLoggedOut
<1>7. CASE LoginLost(t)
  BY <1>3, <1>7, EchoFrom DEF LoginLost
<1>8. CASE Load(t)
  <2>1. \A c \in Calls : call'[c] \in {call[c], NoCall}
    BY <1>8 DEF Load
  <2>2. \A v \in Tabs : refresh'[v] \in {refresh[v], Rest}
    BY <1>1, <1>8 DEF Load, TypeOK
  <2>3. QED
    BY <1>3, <1>8, <2>1, <2>2, EchoFrom, NoTokenIsNotMinted DEF Load
<1>9. CASE Expire(t)
  <2>1. Minted(s).fresh = TRUE
    BY DEF Minted
  <2>2. \A tok \in Token : [tok EXCEPT !.fresh = FALSE].fresh = FALSE
    BY DEF Token, NoToken
  <2>3. \A v \in Tabs : token'[v] = Minted(s) => Echo(s)
    <3>1. token[t] \in Token /\ token' = [token EXCEPT ![t] = [token[t] EXCEPT !.fresh = FALSE]]
      BY <1>1, <1>9 DEF Expire, TypeOK
    <3>2. token'[t] # Minted(s)
      BY <1>1, <2>1, <2>2, <3>1 DEF TypeOK
    <3>3. QED
      BY <1>1, <3>1, <3>2 DEF TypeOK
  <2>4. ASSUME NEW c \in Calls, call'[c].with = Minted(s) PROVE Echo(s)
    <3>1. call[c] \in Call /\ call[c].with \in Token
      BY <1>1 DEF TypeOK, Call
    <3>2. \/ call'[c] = call[c]
          \/ call'[c] = [call[c] EXCEPT !.with = [call[c].with EXCEPT !.fresh = FALSE]]
      BY <1>9 DEF Expire
    <3>3. CASE call'[c] = [call[c] EXCEPT !.with = [call[c].with EXCEPT !.fresh = FALSE]]
      <4>1. call'[c].with = [call[c].with EXCEPT !.fresh = FALSE]
        BY <3>1, <3>3 DEF Call
      <4>2. QED
        BY <2>1, <2>2, <2>4, <3>1, <4>1
    <3>4. QED
      BY <2>4, <3>2, <3>3
  <2>5. QED
    BY <1>9, <2>3, <2>4, EchoFrom DEF Expire
<1>10. QED
  BY <1>4, <1>5, <1>6, <1>7, <1>8, <1>9

\* A session that has ended, and whose last access token has expired, gives no
\* access again, whatever requests were in flight when it ended.
THEOREM EndedSessionsStayEnded == Spec => DeadSessionsStayDead
<1> DEFINE StaysDead ==
      \A s \in Ids : session[s].state \notin {"unused", "live"} /\ ~Echo(s) => ~Echo(s)'
<1>1. ASSUME IInv, LoginsFresh, [Next]_vars PROVE StaysDead
  <2>1. SUFFICES ASSUME NEW s \in Ids, session[s].state \notin {"unused", "live"}
                 PROVE  Echo(s)' => Echo(s)
    BY Zenon
  <2>2. CASE \/ UNCHANGED vars
             \/ \E u \in Users : DeleteUser(u)
             \/ \E d \in Ids : SessionExpires(d)
    BY <2>2 DEF vars, DeleteUser, SessionExpires, Echo
  <2>3. CASE Backend
    <3>1. \/ \E t \in Tabs : \/ HandleLogin(t) \/ RefuseLogin(t) \/ HandleLogout(t)
                             \/ HandleRefresh(t)
          \/ \E c \in Calls : HandleCall(c)
      BY <2>3 DEF Backend
    <3>2. QED
      BY <1>1, <2>1, <3>1, BackendEcho
  <2>4. CASE Page \/ Network
    <3>1. CASE \E c \in Calls : Send(c) \/ Answered(c) \/ CallLost(c) \/ JoinRefresh(c)
      BY <1>1, <2>1, <3>1, CallsEcho
    <3>2. CASE \E t \in Tabs : Refreshed(t) \/ NotRefreshed(t) \/ RefreshLost(t)
      BY <1>1, <2>1, <3>2, RefreshEcho
    <3>3. CASE \E t \in Tabs : \/ \E u \in Users : SubmitLogin(t, u)
                              \/ LoggedIn(t) \/ ClickLogout(t) \/ LoggedOut(t)
                              \/ LogoutLost(t) \/ LoginLost(t) \/ Load(t)
      BY <1>1, <2>1, <3>3, TabEcho
    <3>4. QED
      BY <2>4, <3>1, <3>2, <3>3, Zenon DEF Page, Network
  <2>5. CASE \E t \in Tabs : Expire(t)
    BY <1>1, <2>1, <2>5, TabEcho
  <2>6. QED
    BY <1>1, <2>2, <2>3, <2>4, <2>5 DEF Next
<1>2. IInv /\ LoginsFresh /\ [Next]_vars => [StaysDead]_vars
  BY <1>1, Zenon
<1>3. QED
  BY <1>2, AlwaysLoginsFresh, PTL DEF Spec, DeadSessionsStayDead

-----------------------------------------------------------------------------
(***************************************************************************)
(* As long as nobody logs out, no session ends and nothing is lost, the    *)
(* cookie names a live session whenever a tab has a token, and so does     *)
(* every refresh of such a tab: none is denied.                            *)
(***************************************************************************)
Undisturbed ==
  /\ logouts = 0 /\ faults = 0
  /\ \A s \in Ids : session[s].state \notin {"expired", "deleted"}

Live(s) == s \in Ids /\ session[s].state = "live"

\* A tab that logs in makes no calls, so no refresh of an earlier session is
\* left to answer when the login has given it a token.
Settled(t) ==
  /\ auth[t].at \in {"idle", "login", "welcome"}
  /\ auth[t].at # "idle" => \A c \in Of(t) : call[c].at = "idle"
  /\ auth[t].at = "welcome" => Live(auth[t].of)
  /\ token[t] # NoToken \/ refresh[t].of # 0 => jar # 0
  /\ token[t] # NoToken /\ refresh[t].at # "idle"
       => refresh[t].at # "denied" /\ Live(refresh[t].of)

LoggedInForGood ==
  Undisturbed =>
    /\ \A s \in Ids : session[s].state # "revoked"
    /\ jar # 0 => Live(jar)
    /\ \A t \in Tabs : Settled(t)

\* What disturbs stays: counters grow, and a session that has ended is not
\* opened again.
LEMMA OnceDisturbed ==
  ASSUME IInv, LoginsFresh, [Next]_vars, Undisturbed'
  PROVE  Undisturbed
<1> DEFINE Ended(s) == session[s].state \in {"expired", "deleted"}
<1>1. TypeOK
  BY DEF IInv
<1>2. logouts' \in {logouts, logouts + 1} /\ faults' \in {faults, faults + 1}
  BY DEF Next, Backend, Page, Network, vars, bounds, Fault, HandleLogin, RefuseLogin,
     HandleLogout, HandleRefresh, HandleCall, Send, Answered, JoinRefresh, Refreshed,
     NotRefreshed, GivenUp, SubmitLogin, LoggedIn, ClickLogout, LoggedOut, LeaveLoggedOut,
     Load, CallLost, RefreshLost, LogoutLost, LoginLost, DeleteUser, Expire, SessionExpires
<1>3. ASSUME NEW s \in Ids, Ended(s) PROVE Ended(s)'
  <2>1. CASE \E t \in Tabs : HandleLogin(t)
    <3>1. PICK t \in Tabs : HandleLogin(t)
      BY <2>1
    <3>2. auth[t].of # s
      BY <1>3, <3>1 DEF HandleLogin, LoginsFresh
    <3>3. QED
      BY <1>1, <1>3, <3>1, <3>2 DEF HandleLogin, TypeOK
  <2>2. CASE \E t \in Tabs : HandleLogout(t)
    BY <1>3, <2>2 DEF HandleLogout
  <2>3. CASE \E u \in Users : DeleteUser(u)
    <3>1. session[s] \in Session
      BY <1>1 DEF TypeOK
    <3>2. QED
      BY <1>3, <2>3, <3>1 DEF DeleteUser, Session
  <2>4. CASE \E d \in Ids : SessionExpires(d)
    BY <1>1, <1>3, <2>4 DEF SessionExpires, TypeOK
  <2>5. CASE UNCHANGED session
    BY <1>3, <2>5
  <2>6. QED
    BY <2>1, <2>2, <2>3, <2>4, <2>5 DEF Next, Backend, Page, Network, vars,
       RefuseLogin, HandleRefresh, Kept, HandleCall, Send, Answered, JoinRefresh, Refreshed,
       NotRefreshed, GivenUp, SubmitLogin, LoggedIn, ClickLogout, LoggedOut,
       LeaveLoggedOut, Load, CallLost, RefreshLost, LogoutLost, LoginLost, Expire
<1>4. logouts \in Nat /\ faults \in Nat
  BY <1>1, SessionsAssumption DEF TypeOK
<1>5. logouts = 0 /\ faults = 0
  BY <1>2, <1>4 DEF Undisturbed
<1>6. QED
  BY <1>3, <1>5 DEF Undisturbed

\* Only one tab moves.
LEMMA OneTabMoves ==
  ASSUME Undisturbed, LoggedInForGood, NEW t \in Tabs,
         \A s \in Ids : /\ session'[s].state # "revoked"
                        /\ session[s].state = "live" => session'[s].state = "live",
         jar' = jar \/ (jar' \in Ids /\ session'[jar'].state = "live"),
         \A v \in Tabs : v # t => /\ auth'[v] = auth[v] /\ token'[v] = token[v]
                                  /\ refresh'[v] = refresh[v],
         \A c \in Calls : TabOf[c] # t => call'[c] = call[c],
         Settled(t)'
  PROVE  LoggedInForGood'
<1>1. /\ jar # 0 => Live(jar)
      /\ \A v \in Tabs : Settled(v)
  BY DEF LoggedInForGood
<1>2. \A s : Live(s) => Live(s)'
  BY DEF Live
<1>3. jar' # 0 => Live(jar)'
  BY <1>1, <1>2 DEF Live
<1>4. jar # 0 => jar' # 0
  BY SessionsAssumption DEF Ids
<1>5. ASSUME NEW v \in Tabs, v # t PROVE Settled(v)'
  <2>1. Settled(v) /\ \A c \in Of(v) : call'[c] = call[c]
    BY <1>1, <1>5 DEF Of
  <2>2. QED
    BY <1>2, <1>4, <1>5, <2>1 DEF Settled, Of
<1>6. QED
  BY <1>3, <1>5 DEF LoggedInForGood

\* A tab with a call on its way does not log in, ...
LEMMA CallingIsIdle ==
  ASSUME Undisturbed, LoggedInForGood, NEW t \in Tabs, NEW c \in Of(t), call[c].at # "idle"
  PROVE  auth[t].at = "idle"
BY DEF LoggedInForGood, Settled

\* ... and neither does one whose refresh is in flight.
LEMMA RefreshingIsIdle ==
  ASSUME IInv, Undisturbed, LoggedInForGood, NEW t \in Tabs, refresh[t].at # "idle"
  PROVE  auth[t].at = "idle"
<1>1. PICK c \in Of(t) : call[c].at = "waiting"
  BY DEF IInv, NobodyWaitsInVain, Waiting
<1>2. QED
  BY <1>1, CallingIsIdle

\* The backend answers the tab's own requests.
LEMMA BackendSettled ==
  ASSUME IInv, LoginsFresh, Undisturbed, LoggedInForGood, NEW t \in Tabs,
         HandleLogin(t) \/ RefuseLogin(t) \/ HandleLogout(t) \/ HandleRefresh(t)
  PROVE  LoggedInForGood'
<1>1. TypeOK /\ auth[t] \in Auth /\ refresh[t] \in Refresh
  BY DEF IInv, TypeOK
<1>2. /\ \A s \in Ids : session[s].state # "revoked"
      /\ jar # 0 => Live(jar)
      /\ Settled(t)
  BY DEF LoggedInForGood
<1>3. CASE HandleLogin(t)
  <2>1. auth[t].of \in Ids
    BY <1>3 DEF HandleLogin, IInv, Named
  <2>2. /\ session'[auth[t].of].state = "live"
        /\ \A s \in Ids : s # auth[t].of => session'[s] = session[s]
    BY <1>1, <1>3, <2>1 DEF HandleLogin, TypeOK
  <2>3. \A s \in Ids : /\ session'[s].state # "revoked"
                       /\ session[s].state = "live" => session'[s].state = "live"
    BY <1>2, <2>2
  <2>4. auth' = [auth EXCEPT ![t] = [auth[t] EXCEPT !.at = "welcome"]]
    BY <1>3 DEF HandleLogin
  <2>5. /\ auth'[t].at = "welcome" /\ auth'[t].of = auth[t].of
        /\ \A v \in Tabs : v # t => auth'[v] = auth[v]
    BY <1>1, <2>4 DEF TypeOK, Auth
  <2>6. Settled(t)'
    BY <1>2, <1>3, <2>1, <2>2, <2>3, <2>5 DEF HandleLogin, Settled, Live, Of
  <2>7. QED
    BY <1>3, <2>3, <2>5, <2>6, OneTabMoves DEF HandleLogin
<1>4. CASE RefuseLogin(t)
  <2>1. auth'[t].at = "idle" /\ \A v \in Tabs : v # t => auth'[v] = auth[v]
    BY <1>1, <1>4 DEF RefuseLogin, TypeOK, NoAuth
  <2>2. Settled(t)'
    BY <1>2, <1>4, <2>1 DEF RefuseLogin, Settled, Live, Of
  <2>3. QED
    BY <1>2, <1>4, <2>1, <2>2, OneTabMoves DEF RefuseLogin
<1>5. CASE HandleLogout(t)
  BY <1>2, <1>5 DEF HandleLogout, Settled
<1>6. CASE HandleRefresh(t)
  <2>1. UNCHANGED <<session, jar, token, auth, call>>
    BY <1>6 DEF HandleRefresh, Kept
  <2>2. /\ refresh'[t].of = refresh[t].of
        /\ Refreshable(refresh[t].of) => refresh'[t].at = "granted"
        /\ \A v \in Tabs : v # t => refresh'[v] = refresh[v]
    <3>1. \A a \in {"granted", "denied"} :
            /\ [refresh[t] EXCEPT !.at = a].of = refresh[t].of
            /\ [refresh[t] EXCEPT !.at = a].at = a
      BY <1>1 DEF Refresh
    <3>2. \/ /\ Refreshable(refresh[t].of)
             /\ refresh' = [refresh EXCEPT ![t] = [refresh[t] EXCEPT !.at = "granted"]]
          \/ /\ ~Refreshable(refresh[t].of)
             /\ refresh' = [refresh EXCEPT ![t] = [refresh[t] EXCEPT !.at = "denied"]]
      BY <1>6 DEF HandleRefresh
    <3>3. QED
      BY <1>1, <3>1, <3>2 DEF TypeOK
  <2>3. token[t] # NoToken => Live(refresh[t].of) /\ Refreshable(refresh[t].of)
    BY <1>2, <1>6, SessionsAssumption DEF HandleRefresh, Settled, Live, Refreshable, Ids
  <2>4. Settled(t)'
    BY <1>2, <2>1, <2>2, <2>3 DEF Settled, Live, Of
  <2>5. QED
    BY <1>2, <2>1, <2>2, <2>4, OneTabMoves
<1>7. QED
  BY <1>3, <1>4, <1>5, <1>6

\* A step of one call c, and with it the start of a refresh.
LEMMA CallsSettled ==
  ASSUME IInv, Undisturbed, Undisturbed', LoggedInForGood, NEW c \in Calls,
         HandleCall(c) \/ Send(c) \/ Answered(c) \/ JoinRefresh(c) \/ CallLost(c)
  PROVE  LoggedInForGood'
<1> DEFINE t == TabOf[c]
<1>1. TypeOK /\ t \in Tabs /\ c \in Of(t)
  BY SessionsAssumption DEF IInv, TypeOK, Of
<1>2. /\ \A s \in Ids : session[s].state # "revoked"
      /\ jar # 0 => Live(jar)
      /\ Settled(t)
  BY <1>1 DEF LoggedInForGood
<1>3. UNCHANGED <<session, jar, token, auth>>
  BY DEF HandleCall, Send, Answered, JoinRefresh, CallLost
<1>4. \A d \in Calls : TabOf[d] # t => call'[d] = call[d]
  BY <1>1 DEF HandleCall, Send, Answered, JoinRefresh, CallLost, TypeOK
<1>5. ~CallLost(c)
  BY <1>1, SessionsAssumption DEF CallLost, Fault, Undisturbed, TypeOK
<1>6. auth[t].at = "idle"
  <2>1. CASE Send(c)
    BY <1>2, <2>1 DEF Send, Settled
  <2>2. CASE call[c].at # "idle"
    BY <1>1, <2>2, CallingIsIdle
  <2>3. QED
    BY <1>5, <2>1, <2>2 DEF HandleCall, Answered, JoinRefresh
<1>7. refresh'[t] = refresh[t] \/ refresh'[t] = [at |-> "sent", of |-> jar]
  BY <1>1, <1>5 DEF HandleCall, Send, Answered, JoinRefresh, TypeOK
<1>8. \A v \in Tabs : v # t => refresh'[v] = refresh[v]
  BY <1>1, <1>5 DEF HandleCall, Send, Answered, JoinRefresh, TypeOK
<1>9. Settled(t)'
  BY <1>2, <1>3, <1>6, <1>7 DEF Settled, Live
<1>10. QED
  BY <1>1, <1>2, <1>3, <1>4, <1>8, <1>9, OneTabMoves

\* A refresh ends.
LEMMA RefreshSettled ==
  ASSUME IInv, Undisturbed, Undisturbed', LoggedInForGood, NEW t \in Tabs,
         Refreshed(t) \/ NotRefreshed(t) \/ RefreshLost(t)
  PROVE  LoggedInForGood'
<1>1. TypeOK /\ refresh[t] \in Refresh
  BY DEF IInv, TypeOK
<1>2. /\ \A s \in Ids : session[s].state # "revoked"
      /\ jar # 0 => Live(jar)
      /\ Settled(t)
  BY DEF LoggedInForGood
<1>3. ~RefreshLost(t)
  BY <1>1, SessionsAssumption DEF RefreshLost, Fault, Undisturbed, TypeOK
<1>4. auth[t].at = "idle"
  BY <1>3, RefreshingIsIdle DEF Refreshed, NotRefreshed
<1>5. UNCHANGED <<session, jar, auth>>
  BY <1>3 DEF Refreshed, NotRefreshed, GivenUp
<1>6. \A c \in Calls : TabOf[c] # t => call'[c] = call[c]
  BY <1>3 DEF Refreshed, NotRefreshed, GivenUp, Resumed, Waiting, Of
<1>7. refresh'[t] = Rest
  BY <1>1, <1>3 DEF Refreshed, NotRefreshed, GivenUp, TypeOK
<1>8. \A v \in Tabs : v # t => token'[v] = token[v] /\ refresh'[v] = refresh[v]
  BY <1>1, <1>3 DEF Refreshed, NotRefreshed, GivenUp, TypeOK
<1>9. token'[t] # NoToken => jar # 0
  <2>1. CASE Refreshed(t)
    <3>1. refresh[t].of \in Ids
      BY <2>1 DEF Refreshed, IInv, Named
    <3>2. refresh[t].of # 0
      BY <3>1, SessionsAssumption DEF Ids
    <3>3. QED
      BY <1>2, <3>2 DEF Settled
  <2>2. CASE NotRefreshed(t)
    BY <1>1, <2>2 DEF NotRefreshed, GivenUp, TypeOK
  <2>3. QED
    BY <1>3, <2>1, <2>2
<1>10. Settled(t)'
  BY <1>4, <1>5, <1>7, <1>9 DEF Settled, Rest
<1>11. QED
  BY <1>2, <1>5, <1>6, <1>8, <1>10, OneTabMoves

\* A tab logs in, is loaded again, or keeps a token that has expired.
LEMMA TabSettled ==
  ASSUME IInv, Undisturbed, Undisturbed', LoggedInForGood, NEW t \in Tabs,
         \/ \E u \in Users : SubmitLogin(t, u)
         \/ LoggedIn(t) \/ ClickLogout(t) \/ LoggedOut(t) \/ LogoutLost(t) \/ LoginLost(t)
         \/ Load(t) \/ Expire(t)
  PROVE  LoggedInForGood'
<1>1. TypeOK
  BY DEF IInv
<1>2. /\ \A s \in Ids : session[s].state # "revoked"
      /\ jar # 0 => Live(jar)
      /\ Settled(t)
  BY DEF LoggedInForGood
<1>3. logouts' # logouts + 1 /\ faults' # faults + 1
  BY <1>1, SessionsAssumption DEF Undisturbed, TypeOK
<1>4. ~ClickLogout(t) /\ ~LogoutLost(t) /\ ~LoginLost(t) /\ ~LoggedOut(t)
  BY <1>2, <1>3 DEF ClickLogout, LogoutLost, LoginLost, LoggedOut, Fault, Settled
<1>5. CASE \E u \in Users : SubmitLogin(t, u)
  <2>1. PICK u \in Users : SubmitLogin(t, u)
    BY <1>5
  <2>2. /\ auth'[t].at = "login" /\ \A c \in Of(t) : call[c].at = "idle"
        /\ \A v \in Tabs : v # t => auth'[v] = auth[v]
    BY <1>1, <2>1 DEF SubmitLogin, TypeOK
  <2>3. UNCHANGED <<session, jar, token, refresh, call>>
    BY <2>1 DEF SubmitLogin
  <2>4. Settled(t)'
    BY <1>2, <2>2, <2>3 DEF Settled, Live, Of
  <2>5. QED
    BY <1>2, <2>2, <2>3, <2>4, OneTabMoves
<1>6. CASE LoggedIn(t)
  <2>1. auth[t].of \in Ids /\ session[auth[t].of].state = "live"
    BY <1>2, <1>6 DEF LoggedIn, Settled, Live
  <2>2. auth[t].of # 0
    BY <2>1, SessionsAssumption DEF Ids
  <2>3. refresh[t].at = "idle"
    BY <1>6, RefreshingIsIdle DEF LoggedIn
  <2>4. /\ auth'[t].at = "idle"
        /\ \A v \in Tabs : v # t => auth'[v] = auth[v] /\ token'[v] = token[v]
    BY <1>1, <1>6 DEF LoggedIn, TypeOK, NoAuth
  <2>5. jar' = auth[t].of /\ UNCHANGED <<session, refresh, call>>
    BY <1>6 DEF LoggedIn
  <2>6. Settled(t)'
    BY <2>2, <2>3, <2>4, <2>5 DEF Settled
  <2>7. QED
    BY <1>2, <2>1, <2>4, <2>5, <2>6, OneTabMoves
<1>7. CASE Load(t)
  <2>1. /\ auth'[t].at = "idle" /\ refresh'[t] = Rest
        /\ \A v \in Tabs : v # t => auth'[v] = auth[v] /\ refresh'[v] = refresh[v]
    BY <1>1, <1>7 DEF Load, TypeOK, NoAuth
  <2>2. UNCHANGED <<session, jar, token>>
        /\ \A c \in Calls : TabOf[c] # t => call'[c] = call[c]
    BY <1>7 DEF Load, Of
  <2>3. Settled(t)'
    BY <1>2, <2>1, <2>2 DEF Settled, Rest
  <2>4. QED
    BY <1>2, <2>1, <2>2, <2>3, OneTabMoves
<1>8. CASE Expire(t)
  <2>1. token[t] # NoToken /\ \A v \in Tabs : v # t => token'[v] = token[v]
    BY <1>1, <1>8 DEF Expire, TypeOK, NoToken
  <2>2. UNCHANGED <<session, jar, refresh, auth>>
        /\ \A c \in Calls : TabOf[c] # t => call'[c] = call[c]
    BY <1>8 DEF Expire, Of
  <2>3. \A c \in Calls : call'[c].at = call[c].at
    <3>1. SUFFICES ASSUME NEW c \in Calls PROVE call'[c].at = call[c].at
      OBVIOUS
    <3>2. \/ call'[c] = call[c]
          \/ call'[c] = [call[c] EXCEPT !.with = [call[c].with EXCEPT !.fresh = FALSE]]
      BY <1>8 DEF Expire
    <3>3. QED
      BY <1>1, <3>2 DEF TypeOK, Call
  <2>4. Settled(t)'
    BY <1>2, <2>1, <2>2, <2>3 DEF Settled, Live, Of
  <2>5. QED
    BY <1>2, <2>1, <2>2, <2>4, OneTabMoves
<1>9. QED
  BY <1>4, <1>5, <1>6, <1>7, <1>8

LEMMA NextLoggedInForGood ==
  ASSUME IInv, LoginsFresh, LoggedInForGood, [Next]_vars
  PROVE  LoggedInForGood'
<1>1. SUFFICES ASSUME Undisturbed' PROVE LoggedInForGood'
  BY DEF LoggedInForGood
<1>2. Undisturbed
  BY <1>1, OnceDisturbed
<1>3. CASE UNCHANGED vars
  BY <1>3 DEF vars, LoggedInForGood, Undisturbed, Settled, Live, Of
<1>4. CASE \E t \in Tabs : \/ HandleLogin(t) \/ RefuseLogin(t) \/ HandleLogout(t)
                           \/ HandleRefresh(t)
  BY <1>2, <1>4, BackendSettled
<1>5. CASE \E c \in Calls : \/ HandleCall(c) \/ Send(c) \/ Answered(c) \/ JoinRefresh(c)
                            \/ CallLost(c)
  BY <1>1, <1>2, <1>5, CallsSettled
<1>6. CASE \E t \in Tabs : Refreshed(t) \/ NotRefreshed(t) \/ RefreshLost(t)
  BY <1>1, <1>2, <1>6, RefreshSettled
<1>7. CASE \E t \in Tabs :
             \/ \E u \in Users : SubmitLogin(t, u)
             \/ LoggedIn(t) \/ ClickLogout(t) \/ LoggedOut(t) \/ LogoutLost(t)
             \/ LoginLost(t) \/ Load(t) \/ Expire(t)
  BY <1>1, <1>2, <1>7, TabSettled
<1>8. CASE \E u \in Users : DeleteUser(u)
  <2>1. PICK u \in Users, s \in Ids :
          DeleteUser(u) /\ session[s].user = u /\ session[s].state # "unused"
    BY <1>8 DEF DeleteUser
  <2>2. session'[s].state = "deleted"
    BY <2>1 DEF DeleteUser, IInv, TypeOK, Session
  <2>3. QED
    BY <1>1, <2>2 DEF Undisturbed
<1>9. CASE \E s \in Ids : SessionExpires(s)
  <2>1. PICK s \in Ids : SessionExpires(s)
    BY <1>9
  <2>2. session'[s].state = "expired"
    BY <2>1 DEF SessionExpires, IInv, TypeOK, Session
  <2>3. QED
    BY <1>1, <2>2 DEF Undisturbed
<1>10. QED
  BY <1>3, <1>4, <1>5, <1>6, <1>7, <1>8, <1>9, Zenon DEF Next, Backend, Page, Network

\* A tab that nobody logs out keeps its token, whatever requests, refreshes
\* and logins of other tabs come between, until a session ends or the network
\* fails.
THEOREM LoginsLast == Spec => ThrownOutForAReason
<1> DEFINE Lasts ==
      \A t \in Tabs : token[t] # NoToken /\ token'[t] = NoToken
        => \/ logouts > 0 \/ faults' > 0
           \/ \E s \in Ids : session[s].state \in {"expired", "deleted"}
<1>1. Init => LoggedInForGood
  BY DEF Init, LoggedInForGood, Settled, NoSession, NoAuth, Rest
<1>2. ASSUME IInv, LoginsFresh, LoggedInForGood, [Next]_vars PROVE Lasts
  <2>1. SUFFICES ASSUME NEW t \in Tabs, token[t] # NoToken, token'[t] = NoToken,
                        ~(logouts > 0), ~(faults' > 0),
                        \A s \in Ids : session[s].state \notin {"expired", "deleted"}
                 PROVE  FALSE
    BY Zenon
  <2>2. TypeOK
    BY <1>2 DEF IInv
  <2>3. Undisturbed /\ faults' # faults + 1
    <3>1. logouts = 0 /\ faults \in Nat
      BY <2>1, <2>2, SessionsAssumption DEF TypeOK
    <3>2. faults' \in {faults, faults + 1}
      BY <1>2 DEF Next, Backend, Page, Network, vars, bounds, Fault, HandleLogin,
         RefuseLogin, HandleLogout, HandleRefresh, HandleCall, Send, Answered, JoinRefresh,
         Refreshed, NotRefreshed, GivenUp, SubmitLogin, LoggedIn, ClickLogout, LoggedOut,
         LeaveLoggedOut, Load, CallLost, RefreshLost, LogoutLost, LoginLost, DeleteUser,
         Expire, SessionExpires
    <3>3. QED
      BY <2>1, <3>1, <3>2 DEF Undisturbed
  <2>4. Settled(t) /\ \A v \in Tabs : auth[v].at \in {"idle", "login", "welcome"}
    BY <1>2, <2>3 DEF LoggedInForGood, Settled
  <2>5. \A s : Minted(s) # NoToken
    BY DEF Minted, NoToken
  <2>6. CASE \E v \in Tabs : Refreshed(v) \/ LoggedIn(v)
    BY <2>1, <2>2, <2>5, <2>6 DEF Refreshed, LoggedIn, TypeOK
  <2>7. CASE \E v \in Tabs : NotRefreshed(v)
    BY <2>1, <2>2, <2>4, <2>7 DEF NotRefreshed, GivenUp, TypeOK, Settled
  <2>8. CASE \E v \in Tabs : RefreshLost(v) \/ LogoutLost(v) \/ LoggedOut(v)
    BY <2>3, <2>4, <2>8 DEF RefreshLost, LogoutLost, LoggedOut, Fault
  <2>9. CASE \E v \in Tabs : Expire(v)
    <3>1. PICK v \in Tabs : token' = [token EXCEPT ![v] = [token[v] EXCEPT !.fresh = FALSE]]
      BY <2>9 DEF Expire
    <3>2. token[t] \in Token /\ token[t].of # 0
      BY <2>1, <2>2, SessionsAssumption DEF TypeOK, Token, Ids
    <3>3. token'[t].of # 0
      BY <2>2, <3>1, <3>2 DEF TypeOK, Token, NoToken
    <3>4. QED
      BY <2>1, <3>3 DEF NoToken
  <2>10. CASE UNCHANGED token
    BY <2>1, <2>10
  <2>11. QED
    BY <1>2, <2>6, <2>7, <2>8, <2>9, <2>10 DEF Next, Backend, Page, Network, vars,
       HandleLogin, RefuseLogin, HandleLogout, HandleRefresh, HandleCall, Send, Answered,
       JoinRefresh, SubmitLogin, ClickLogout, Load, CallLost, LoginLost, DeleteUser,
       SessionExpires
<1>3. IInv /\ LoginsFresh /\ LoggedInForGood /\ [Next]_vars => [Lasts]_vars
  BY <1>2, Zenon
<1>4. IInv /\ LoginsFresh /\ LoggedInForGood /\ [Next]_vars => LoggedInForGood'
  BY NextLoggedInForGood
<1>5. QED
  BY <1>1, <1>3, <1>4, AlwaysLoginsFresh, PTL DEF Spec, ThrownOutForAReason
===============================================================================
