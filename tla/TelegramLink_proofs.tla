------------------------- MODULE TelegramLink_proofs -------------------------
(***************************************************************************)
(* Proofs about TelegramLink, for every set of users, accounts and         *)
(* requests.  That a revoked token stays revoked needs three facts beside  *)
(* it: all tokens in sight have been generated, a token is seen by one     *)
(* user's row and requests only, and the token a generate request is about *)
(* to write is seen by nobody yet.                                         *)
(***************************************************************************)
EXTENDS TelegramLink, TLAPS

Busy(r) == req[r] # Idle

\* Rows, requests and the revoked tokens hold generated tokens only; what is
\* not a generate request assigns none.
KnownTokens ==
  /\ \A t \in dead : t < nextToken
  /\ \A r \in Requests : Busy(r) =>
       /\ req[r].loaded.token < nextToken
       /\ req[r].assigned.token < nextToken
       /\ req[r].op # "generate" => req[r].assigned.token = NoToken

\* A token is never in two users' rows, nor loaded for one user while it is
\* in the row of another.
OwnTokens ==
  \A u, v \in Users : u # v =>
    /\ row[u].token = row[v].token => row[u].token = NoToken
    /\ \A r \in Requests : Busy(r) /\ req[r].user = u =>
         (req[r].loaded.token = row[v].token => req[r].loaded.token = NoToken)

\* The token a generate request is about to write is in no row, in no other
\* request, and not revoked.
Unseen(r) ==
  LET t == req[r].assigned.token IN
  /\ t # NoToken /\ t \notin dead
  /\ \A u \in Users : row[u].token # t
  /\ \A s \in Requests : Busy(s) =>
       /\ req[s].loaded.token # t
       /\ s # r /\ req[s].op = "generate" => req[s].assigned.token # t
UnseenTokens ==
  \A r \in Requests : Busy(r) /\ req[r].op = "generate" => Unseen(r)

IInv ==
  /\ TypeOK
  /\ KnownTokens
  /\ OwnTokens
  /\ UnseenTokens
  /\ RevokedStaysRevoked
-----------------------------------------------------------------------------
LEMMA InitIInv == Init => IInv
<1> SUFFICES ASSUME Init PROVE IInv
  OBVIOUS
<1>1. TypeOK
  BY LinkAssumption DEF Init, TypeOK, Columns, NoToken, Tokens
<1>2. KnownTokens /\ OwnTokens /\ UnseenTokens /\ RevokedStaysRevoked
  BY <1>1 DEF Init, KnownTokens, OwnTokens, UnseenTokens, Busy, RevokedStaysRevoked
<1>3. QED
  BY <1>1, <1>2 DEF IInv

\* More tokens have been generated than before.
LEMMA IntervalGrows ==
  ASSUME NEW a \in Int, NEW b \in Int, a <= b
  PROVE  1..(a - 1) \subseteq 1..(b - 1)
OBVIOUS

\* A request that starts disturbs nothing, if what it will write is no token
\* or, for a generate request, the next one.
LEMMA LoadKeepsIInv ==
  ASSUME NEW r \in Requests, NEW op \in {"generate", "unlink", "bind"},
         NEW u \in Users, NEW t \in {NoToken} \cup Tokens, NEW cols \in Columns,
         IInv, Load(r, op, u, t, cols),
         UNCHANGED <<row, expired, dead>>,
         begun' \in 0..MaxRequests,
         \/ op # "generate" /\ cols.token = NoToken /\ nextToken' = nextToken
         \/ /\ op = "generate" /\ cols.token = nextToken
            /\ nextToken \in Tokens /\ nextToken' = nextToken + 1
  PROVE  IInv'
<1> DEFINE q == [op |-> op, user |-> u, loaded |-> row[u], assigned |-> cols, shown |-> t]
<1>1. /\ nextToken \in Nat /\ nextToken' \in 1..(MaxTokens + 1)
      /\ nextToken <= nextToken' /\ 0 < nextToken
  BY LinkAssumption DEF IInv, TypeOK, Tokens
<1>2. \A v \in Users : row[v] \in Columns /\ row[v].token \in Nat
                       /\ row[v].token < nextToken
  BY DEF IInv, TypeOK, Columns, NoToken, Tokens
<1>3. q \in Request
  BY <1>2 DEF Request
<1>4. /\ req' = [req EXCEPT ![r] = q] /\ ~Busy(r)
      /\ req \in [Requests -> Request \cup {Idle}]
      /\ req'[r] = q
      /\ \A s \in Requests : s # r => req'[s] = req[s]
  BY DEF Load, Busy, IInv, TypeOK
<1>5. TypeOK'
  <2>1. req' \in [Requests -> Request \cup {Idle}]
    BY <1>3, <1>4
  <2>2. raced' \in [Requests -> BOOLEAN]
    BY DEF Load, IInv, TypeOK
  <2>3. expired' \subseteq 1..(nextToken' - 1)
    <3>1. expired \subseteq 1..(nextToken - 1) /\ expired' = expired
      BY DEF IInv, TypeOK
    <3>2. nextToken \in Int /\ nextToken' \in Int /\ nextToken <= nextToken'
      BY <1>1, LinkAssumption
    <3>3. 1..(nextToken - 1) \subseteq 1..(nextToken' - 1)
      BY <3>2, IntervalGrows
    <3>4. QED
      BY <3>1, <3>3
  <2>4. \A v \in Users : row'[v].token < nextToken'
    BY <1>1, <1>2, LinkAssumption
  <2>5. row' \in [Users -> Columns] /\ dead' \subseteq Tokens
    BY DEF IInv, TypeOK
  <2>6. QED
    BY <1>1, <2>1, <2>2, <2>3, <2>4, <2>5 DEF TypeOK
<1>6. KnownTokens'
  <2>1. \A d \in dead' : d < nextToken'
    BY <1>1 DEF IInv, TypeOK, KnownTokens, Tokens
  <2>2. ASSUME NEW s \in Requests, Busy(s)'
        PROVE  /\ req'[s].loaded.token < nextToken'
               /\ req'[s].assigned.token < nextToken'
               /\ req'[s].op # "generate" => req'[s].assigned.token = NoToken
    <3>1. CASE s = r
      BY <1>1, <1>2, <1>4, <3>1 DEF NoToken
    <3>2. CASE s # r
      <4>1. Busy(s) /\ req'[s] = req[s] /\ req[s] \in Request
        BY <1>4, <2>2, <3>2 DEF Busy
      <4>2. req[s].loaded.token \in Nat /\ req[s].assigned.token \in Nat
        BY <4>1 DEF Request, Columns, NoToken, Tokens
      <4>3. QED
        BY <1>1, <4>1, <4>2 DEF IInv, KnownTokens
    <3>3. QED
      BY <3>1, <3>2
  <2>3. QED
    BY <2>1, <2>2 DEF KnownTokens
<1>7. OwnTokens'
  BY <1>4 DEF IInv, OwnTokens, Busy
<1>8. UnseenTokens'
  <2>1. SUFFICES ASSUME NEW s \in Requests, Busy(s)', req'[s].op = "generate"
                 PROVE  Unseen(s)'
    BY DEF UnseenTokens
  <2>2. CASE s = r
    <3>1. op = "generate" /\ req'[s].assigned.token = nextToken
      BY <1>4, <2>1, <2>2
    <3>2. \A v \in Requests : Busy(v)' =>
            /\ req'[v].loaded.token # nextToken
            /\ v # s => req'[v].assigned.token # nextToken
      <4>1. SUFFICES ASSUME NEW v \in Requests, Busy(v)'
                     PROVE  /\ req'[v].loaded.token # nextToken
                            /\ v # s => req'[v].assigned.token # nextToken
        OBVIOUS
      <4>2. CASE v = s
        BY <1>1, <1>2, <1>4, <2>2, <4>2
      <4>3. CASE v # s
        <5>1. Busy(v) /\ req'[v] = req[v] /\ req[v] \in Request
          BY <1>4, <2>2, <4>1, <4>3 DEF Busy
        <5>2. req[v].loaded.token \in Nat /\ req[v].assigned.token \in Nat
          BY <5>1 DEF Request, Columns, NoToken, Tokens
        <5>3. QED
          BY <1>1, <5>1, <5>2 DEF IInv, KnownTokens
      <4>4. QED
        BY <4>2, <4>3
    <3>3. nextToken # NoToken /\ nextToken \notin dead'
      BY <1>1 DEF IInv, TypeOK, KnownTokens, NoToken, Tokens
    <3>4. \A v \in Users : row'[v].token # nextToken
      BY <1>1, <1>2
    <3>5. QED
      BY <3>1, <3>2, <3>3, <3>4 DEF Unseen
  <2>3. CASE s # r
    <3>1. Busy(s) /\ req'[s] = req[s] /\ Unseen(s) /\ req[s] \in Request
      BY <1>4, <2>1, <2>3 DEF Busy, IInv, UnseenTokens
    <3>2. req[s].assigned.token \in Nat /\ req[s].assigned.token < nextToken
      BY <3>1 DEF Request, Columns, NoToken, Tokens, IInv, KnownTokens
    <3>3. \A v \in Requests : Busy(v)' =>
            /\ req'[v].loaded.token # req[s].assigned.token
            /\ v # s /\ req'[v].op = "generate"
                 => req'[v].assigned.token # req[s].assigned.token
      <4>1. SUFFICES ASSUME NEW v \in Requests, Busy(v)'
                     PROVE  /\ req'[v].loaded.token # req[s].assigned.token
                            /\ v # s /\ req'[v].op = "generate"
                                 => req'[v].assigned.token # req[s].assigned.token
        OBVIOUS
      <4>2. CASE v = r
        <5>1. req'[v].loaded.token # req[s].assigned.token
          BY <1>4, <3>1, <4>2 DEF Unseen
        <5>2. req'[v].op = "generate" => req'[v].assigned.token = nextToken
          BY <1>4, <4>2
        <5>3. QED
          BY <1>1, <3>2, <5>1, <5>2
      <4>3. CASE v # r
        BY <1>4, <3>1, <4>1, <4>3 DEF Unseen, Busy
      <4>4. QED
        BY <4>2, <4>3
    <3>4. QED
      BY <3>1, <3>3 DEF Unseen
  <2>4. QED
    BY <2>2, <2>3
<1>9. RevokedStaysRevoked'
  BY DEF IInv, RevokedStaysRevoked
<1>10. QED
  BY <1>5, <1>6, <1>7, <1>8, <1>9 DEF IInv

\* A request that ends without an effect, and any other step that lets go of
\* at most one request, disturbs nothing.
LEMMA DropKeepsIInv ==
  ASSUME NEW r \in Requests, IInv, req' = [req EXCEPT ![r] = Idle],
         UNCHANGED <<row, expired, nextToken, begun, dead, raced>>
  PROVE  IInv'
<1>1. /\ req \in [Requests -> Request \cup {Idle}]
      /\ \A s \in Requests : Busy(s)' => Busy(s) /\ s # r /\ req'[s] = req[s]
  BY DEF Busy, IInv, TypeOK
<1>2. TypeOK'
  <2>1. req' \in [Requests -> Request \cup {Idle}]
    BY <1>1
  <2>2. QED
    BY <2>1 DEF IInv, TypeOK
<1>3. KnownTokens'
  BY <1>1 DEF IInv, KnownTokens
<1>4. OwnTokens'
  BY <1>1 DEF IInv, OwnTokens
<1>5. UnseenTokens'
  BY <1>1 DEF IInv, UnseenTokens, Unseen
<1>6. RevokedStaysRevoked'
  BY DEF IInv, RevokedStaysRevoked
<1>7. QED
  BY <1>2, <1>3, <1>4, <1>5, <1>6 DEF IInv

\* What a request's commit makes of the token column: the assigned token, if
\* the request changed it, and otherwise the one that is there.
LEMMA ResultToken ==
  ASSUME NEW r \in Requests, TypeOK, KnownTokens, Busy(r)
  PROVE  /\ req[r] \in Request /\ req[r].user \in Users
         /\ Result(r) \in Columns
         /\ Result(r).token < nextToken
         /\ \/ /\ req[r].assigned.token = req[r].loaded.token
               /\ Result(r).token = row[req[r].user].token
            \/ /\ req[r].assigned.token # req[r].loaded.token
               /\ Result(r).token = req[r].assigned.token
<1>1. req[r] \in Request
  BY DEF TypeOK, Busy
<1>2. /\ req[r].user \in Users
      /\ req[r].loaded \in Columns /\ req[r].assigned \in Columns
      /\ row[req[r].user] \in Columns
  BY <1>1 DEF Request, TypeOK
<1>3. Result(r) \in Columns
  BY <1>2 DEF Result, Written, Columns
<1>4. \/ /\ req[r].assigned.token = req[r].loaded.token
         /\ Result(r).token = row[req[r].user].token
      \/ /\ req[r].assigned.token # req[r].loaded.token
         /\ Result(r).token = req[r].assigned.token
  BY DEF Result, Written
<1>5. Result(r).token < nextToken
  BY <1>2, <1>4 DEF TypeOK, KnownTokens
<1>6. QED
  BY <1>1, <1>2, <1>3, <1>4, <1>5

\* A commit: the token it writes is nobody else's, and the one it revokes is
\* in no row and in no generate request.
LEMMA CommitKeepsIInv ==
  ASSUME NEW r \in Requests, IInv, Commit(r)
  PROVE  IInv'
<1> DEFINE q == req[r]
           w == q.user
<1>1. Busy(r) /\ UNCHANGED <<expired, nextToken, begun>> /\ req' = [req EXCEPT ![r] = Idle]
  BY DEF Commit, Busy
<1>2. CASE ~Unique(w, Result(r))
  <2>1. UNCHANGED <<row, expired, nextToken, begun, dead, raced>>
    BY <1>1, <1>2 DEF Commit
  <2>2. QED
    BY <1>1, <2>1, DropKeepsIInv
<1>3. CASE Unique(w, Result(r))
  <2>1. /\ q \in Request /\ w \in Users
        /\ Result(r) \in Columns /\ Result(r).token < nextToken
        /\ \/ q.assigned.token = q.loaded.token /\ Result(r).token = row[w].token
           \/ /\ q.assigned.token # q.loaded.token
              /\ Result(r).token = q.assigned.token
    BY <1>1, ResultToken DEF IInv
  <2>2. /\ row' = [row EXCEPT ![w] = Result(r)]
        /\ dead' = dead \cup ({q.loaded.token} \ {NoToken})
        /\ raced' = [s \in Requests |-> raced[s] \/
                       (s # r /\ req[s] # Idle /\ req[s].user = w)]
    BY <1>3 DEF Commit
  <2>3. /\ row \in [Users -> Columns]
        /\ row'[w].token = Result(r).token
        /\ \A v \in Users : v # w => row'[v] = row[v]
    BY <2>1, <2>2 DEF IInv, TypeOK
  <2>4. /\ req \in [Requests -> Request \cup {Idle}]
        /\ \A s \in Requests : Busy(s)' => Busy(s) /\ s # r /\ req'[s] = req[s]
    BY <1>1 DEF Busy, IInv, TypeOK
  <2>5. q.loaded \in Columns /\ q.shown \in {NoToken} \cup Tokens
    BY <2>1 DEF Request
  <2>6. \/ q.op # "generate" /\ q.assigned.token = NoToken
        \/ q.op = "generate" /\ Unseen(r)
    BY <1>1 DEF IInv, KnownTokens, UnseenTokens
  <2>7. TypeOK'
    <3>1. row' \in [Users -> Columns] /\ \A v \in Users : row'[v].token < nextToken
      BY <2>1, <2>2, <2>3 DEF IInv, TypeOK
    <3>2. req' \in [Requests -> Request \cup {Idle}]
      BY <1>1, <2>4
    <3>3. dead' \subseteq Tokens
      BY <2>2, <2>5 DEF IInv, TypeOK, Columns
    <3>4. raced' \in [Requests -> BOOLEAN]
      BY <2>2, Zenon DEF IInv, TypeOK
    <3>5. QED
      BY <1>1, <3>1, <3>2, <3>3, <3>4 DEF IInv, TypeOK
  <2>8. KnownTokens'
    BY <1>1, <2>2, <2>4 DEF IInv, KnownTokens
  <2>9. OwnTokens'
    <3>1. ASSUME NEW v \in Users, v # w, row'[w].token = row[v].token
          PROVE  row'[w].token = NoToken
      BY <2>1, <2>3, <2>6, <3>1 DEF IInv, OwnTokens, Unseen
    <3>2. ASSUME NEW v \in Users, v # w, NEW s \in Requests, Busy(s), s # r,
                 req[s].user = v, req[s].loaded.token = row'[w].token
          PROVE  req[s].loaded.token = NoToken
      BY <2>1, <2>3, <2>6, <3>2 DEF IInv, OwnTokens, Unseen
    <3>3. SUFFICES ASSUME NEW u \in Users, NEW v \in Users, u # v
                   PROVE  /\ row'[u].token = row'[v].token => row'[u].token = NoToken
                          /\ \A s \in Requests : Busy(s)' /\ req'[s].user = u =>
                               (req'[s].loaded.token = row'[v].token
                                  => req'[s].loaded.token = NoToken)
      BY DEF OwnTokens
    <3>4. row'[u].token = row'[v].token => row'[u].token = NoToken
      BY <2>3, <3>1, <3>3 DEF IInv, OwnTokens
    <3>5. ASSUME NEW s \in Requests, Busy(s)', req'[s].user = u,
                 req'[s].loaded.token = row'[v].token
          PROVE  req'[s].loaded.token = NoToken
      <4>1. Busy(s) /\ s # r /\ req'[s] = req[s]
        BY <2>4, <3>5
      <4>2. CASE v = w
        BY <3>2, <3>3, <3>5, <4>1, <4>2
      <4>3. CASE v # w
        BY <2>3, <3>3, <3>5, <4>1, <4>3 DEF IInv, OwnTokens
      <4>4. QED
        BY <4>2, <4>3
    <3>6. QED
      BY <3>4, <3>5
  <2>10. UnseenTokens'
    <3>1. SUFFICES ASSUME NEW s \in Requests, Busy(s)', req'[s].op = "generate"
                   PROVE  Unseen(s)'
      BY DEF UnseenTokens
    <3>2. Busy(s) /\ s # r /\ req'[s] = req[s] /\ Unseen(s)
      BY <2>4, <3>1 DEF IInv, UnseenTokens
    <3>3. /\ req[s].assigned.token # NoToken
          /\ req[s].assigned.token \notin dead'
      BY <1>1, <2>2, <3>2 DEF Unseen
    <3>4. row'[w].token # req[s].assigned.token
      BY <1>1, <2>1, <2>3, <2>6, <3>2, <3>3 DEF Unseen
    <3>5. \A v \in Users : row'[v].token # req[s].assigned.token
      BY <2>3, <3>2, <3>4 DEF Unseen
    <3>6. QED
      BY <2>4, <3>2, <3>3, <3>5 DEF Unseen
  <2>11. RevokedStaysRevoked'
    <3>1. SUFFICES ASSUME NEW v \in Users PROVE row'[v].token \notin dead'
      BY DEF RevokedStaysRevoked
    <3>2. CASE v # w
      BY <1>1, <2>1, <2>2, <2>3, <3>2 DEF IInv, RevokedStaysRevoked, OwnTokens
    <3>3. CASE v = w
      <4>1. NoToken \notin dead
        BY DEF IInv, TypeOK, Tokens, NoToken
      <4>2. CASE q.assigned.token = q.loaded.token
        BY <1>1, <2>1, <2>2, <2>3, <2>6, <3>3, <4>2
           DEF IInv, RevokedStaysRevoked, Unseen
      <4>3. CASE q.assigned.token # q.loaded.token
        BY <1>1, <2>1, <2>2, <2>3, <2>6, <3>3, <4>1, <4>3 DEF Unseen
      <4>4. QED
        BY <4>2, <4>3
    <3>4. QED
      BY <3>2, <3>3
  <2>12. QED
    BY <2>7, <2>8, <2>9, <2>10, <2>11 DEF IInv
<1>4. QED
  BY <1>2, <1>3

-----------------------------------------------------------------------------
LEMMA NextIInv == IInv /\ [Next]_vars => IInv'
<1> SUFFICES ASSUME IInv, [Next]_vars PROVE IInv'
  OBVIOUS
<1>1. /\ TypeOK /\ nextToken \in 1..(MaxTokens + 1) /\ begun \in 0..MaxRequests
      /\ \A u \in Users : row[u] \in Columns /\ row[u].chat \in Chats \cup {None}
  BY DEF IInv, TypeOK, Columns
<1>2. ASSUME NEW r \in Requests, NEW u \in Users, Generate(r, u)
      PROVE  IInv'
  <2> DEFINE cols == [row[u] EXCEPT !.token = nextToken]
  <2>1. cols \in Columns /\ cols.token = nextToken
    BY <1>1, <1>2 DEF Generate, Columns
  <2>2. QED
    BY <1>1, <1>2, <2>1, LoadKeepsIInv DEF Generate
<1>3. ASSUME NEW r \in Requests, NEW u \in Users, Unlink(r, u)
      PROVE  IInv'
  <2>1. Cleared(u) \in Columns /\ Cleared(u).token = NoToken
    BY DEF Cleared, Columns
  <2>2. begun' \in 0..MaxRequests
    BY <1>1, <1>3, LinkAssumption DEF Unlink
  <2>3. QED
    BY <1>3, <2>1, <2>2, LoadKeepsIInv DEF Unlink
<1>4. ASSUME NEW r \in Requests, NEW t \in Tokens, NEW c \in Chats, Bind(r, t, c)
      PROVE  IInv'
  <2>1. PICK u \in Users : Load(r, "bind", u, t, Bound(u, c))
    BY <1>4 DEF Bind
  <2>2. Bound(u, c) \in Columns /\ Bound(u, c).token = NoToken
    BY <1>4 DEF Bound, Columns
  <2>3. begun' \in 0..MaxRequests
    BY <1>1, <1>4, LinkAssumption DEF Bind
  <2>4. QED
    BY <1>4, <2>1, <2>2, <2>3, LoadKeepsIInv DEF Bind
<1>5. ASSUME NEW r \in Requests, Commit(r)
      PROVE  IInv'
  BY <1>5, CommitKeepsIInv
<1>6. ASSUME NEW r \in Requests, Drop(r)
      PROVE  IInv'
  BY <1>6, DropKeepsIInv DEF Drop
<1>7. ASSUME NEW t \in Tokens, Expire(t)
      PROVE  IInv'
  <2>1. expired' \subseteq 1..(nextToken' - 1)
    <3>1. nextToken' = nextToken /\ expired' = expired \cup {t}
      BY <1>7 DEF Expire
    <3>2. t \in 1..(nextToken - 1)
      BY <1>1, <1>7, LinkAssumption DEF Expire, TypeOK, Tokens
    <3>3. QED
      BY <1>1, <3>1, <3>2 DEF TypeOK
  <2>2. TypeOK'
    BY <1>1, <1>7, <2>1 DEF Expire, TypeOK
  <2>3. KnownTokens' /\ OwnTokens' /\ UnseenTokens' /\ RevokedStaysRevoked'
    BY <1>7 DEF Expire, IInv, KnownTokens, OwnTokens, UnseenTokens, Unseen,
                Busy, RevokedStaysRevoked
  <2>4. QED
    BY <2>2, <2>3 DEF IInv
<1>8. CASE UNCHANGED vars
  <2>1. TypeOK'
    BY <1>1, <1>8 DEF vars, TypeOK
  <2>2. KnownTokens' /\ OwnTokens' /\ UnseenTokens' /\ RevokedStaysRevoked'
    BY <1>8 DEF vars, IInv, KnownTokens, OwnTokens, UnseenTokens, Unseen,
                Busy, RevokedStaysRevoked
  <2>3. QED
    BY <2>1, <2>2 DEF IInv
<1>9. QED
  BY <1>2, <1>3, <1>4, <1>5, <1>6, <1>7, <1>8 DEF Next

\* Rows, requests and the history keep to their types, and no row holds a
\* token that generate_link_token has not made.
THEOREM TypeCorrect == Spec => []TypeOK
<1>1. IInv => TypeOK
  BY DEF IInv
<1>2. QED
  BY InitIInv, NextIInv, <1>1, PTL DEF Spec

\* However many requests of link, unlink and bind overlap, and whichever of
\* them are cut off, a token that one of them has replaced, revoked or
\* consumed is never in a user's row again: the column diff of the ORM cannot
\* write back what another request has taken away.
THEOREM RevokedTokensStayRevoked == Spec => []RevokedStaysRevoked
<1>1. IInv => RevokedStaysRevoked
  BY DEF IInv
<1>2. QED
  BY InitIInv, NextIInv, <1>1, PTL DEF Spec

-----------------------------------------------------------------------------
(***************************************************************************)
(* What a request assigns is fixed when it loads the row, and until another*)
(* request commits a change the row is the one it loaded.                  *)
(***************************************************************************)
AsLoaded ==
  \A r \in Requests : Busy(r) =>
    /\ ~raced[r] => row[req[r].user] = req[r].loaded
    /\ req[r].op = "bind" => req[r].loaded.token = req[r].shown
    /\ req[r].op = "unlink" => req[r].assigned.chat = None
    /\ req[r].op = "generate" => req[r].assigned.chat = req[r].loaded.chat

LEMMA LoadKeepsAsLoaded ==
  ASSUME TypeOK, AsLoaded, NEW r \in Requests, NEW op, NEW u \in Users, NEW t, NEW cols,
         Load(r, op, u, t, cols), row' = row,
         op = "bind" => row[u].token = t, op = "unlink" => cols.chat = None,
         op = "generate" => cols.chat = row[u].chat
  PROVE  AsLoaded'
<1>1. /\ req'[r] = [op |-> op, user |-> u, loaded |-> row[u], assigned |-> cols, shown |-> t]
      /\ \A s \in Requests \ {r} : req'[s] = req[s] /\ raced'[s] = raced[s]
  BY DEF Load, TypeOK
<1>2. QED
  BY <1>1 DEF AsLoaded, Busy

LEMMA CommitKeepsAsLoaded ==
  ASSUME TypeOK, AsLoaded, NEW r \in Requests, Commit(r)
  PROVE  AsLoaded'
<1>1. SUFFICES ASSUME NEW s \in Requests, Busy(s)'
               PROVE  /\ ~raced'[s] => row'[req'[s].user] = req'[s].loaded
                      /\ req'[s].op = "bind" => req'[s].loaded.token = req'[s].shown
                      /\ req'[s].op = "unlink" => req'[s].assigned.chat = None
                      /\ req'[s].op = "generate"
                           => req'[s].assigned.chat = req'[s].loaded.chat
  BY DEF AsLoaded
<1>2. s # r /\ req'[s] = req[s] /\ Busy(s)
  BY <1>1 DEF Commit, Busy, TypeOK
<1>3. CASE UNCHANGED <<row, raced>>
  BY <1>2, <1>3 DEF AsLoaded
<1>4. CASE ~(UNCHANGED <<row, raced>>)
  <2>1. row' = [row EXCEPT ![req[r].user] = Result(r)]
    BY <1>4 DEF Commit
  <2>2. ~raced'[s] => ~raced[s] /\ req[s].user # req[r].user
    <3>1. raced' = [t \in Requests |-> raced[t] \/
                      (t # r /\ req[t] # Idle /\ req[t].user = req[r].user)]
      BY <1>4 DEF Commit
    <3>2. QED
      BY <1>2, <3>1, Zenon DEF Busy
  <2>3. req[s].user \in Users
    BY <1>2 DEF Busy, TypeOK, Request
  <2>4. req[s].user # req[r].user => row'[req[s].user] = row[req[s].user]
    BY <2>1, <2>3 DEF TypeOK
  <2>5. QED
    BY <1>2, <2>2, <2>4 DEF AsLoaded
<1>5. QED
  BY <1>3, <1>4

LEMMA NextAsLoaded == TypeOK /\ AsLoaded /\ [Next]_vars => AsLoaded'
<1> SUFFICES ASSUME TypeOK, AsLoaded, [Next]_vars PROVE AsLoaded'
  OBVIOUS
<1>1. ASSUME NEW r \in Requests, NEW u \in Users, Generate(r, u) PROVE AsLoaded'
  BY <1>1, LoadKeepsAsLoaded DEF Generate, TypeOK, Columns
<1>2. ASSUME NEW r \in Requests, NEW u \in Users, Unlink(r, u) PROVE AsLoaded'
  BY <1>2, LoadKeepsAsLoaded DEF Unlink, Cleared
<1>3. ASSUME NEW r \in Requests, NEW t \in Tokens, NEW c \in Chats, Bind(r, t, c)
      PROVE  AsLoaded'
  BY <1>3, LoadKeepsAsLoaded DEF Bind, Valid
<1>4. ASSUME NEW r \in Requests, Drop(r) PROVE AsLoaded'
  BY <1>4 DEF Drop, AsLoaded, Busy, TypeOK
<1>5. ASSUME (\E t \in Tokens : Expire(t)) \/ UNCHANGED vars PROVE AsLoaded'
  BY <1>5 DEF Expire, vars, AsLoaded, Busy
<1>6. QED
  BY <1>1, <1>2, <1>3, <1>4, <1>5, CommitKeepsAsLoaded DEF Next

LinkInv == TypeOK /\ AsLoaded

LEMMA LinkInvHolds == Spec => [](IInv /\ LinkInv)
<1>1. Init => AsLoaded
  BY DEF Init, AsLoaded, Busy
<1>2. IInv => TypeOK
  BY DEF IInv
<1>3. QED
  BY <1>1, <1>2, InitIInv, NextIInv, NextAsLoaded, PTL DEF Spec, LinkInv

\* The column of the account changes only as the bind or the unlink that ends
\* has asked for: no other request, and none of another user, writes to it,
\* however old the row is that it had loaded.
THEOREM LinksChangeOnRequest == Spec => LinksAreWanted
<1> DEFINE Wanted ==
      \A u \in Users :
        row'[u].chat # row[u].chat =>
          \E r \in Requests :
            /\ Ends(r, "bind") \/ Ends(r, "unlink")
            /\ req[r].user = u /\ row'[u].chat = req[r].assigned.chat
<1>1. LinkInv /\ [Next]_vars => [Wanted]_vars
  <2> SUFFICES ASSUME LinkInv, [Next]_vars, NEW u \in Users, row'[u].chat # row[u].chat
               PROVE  \E r \in Requests :
                        /\ Ends(r, "bind") \/ Ends(r, "unlink")
                        /\ req[r].user = u /\ row'[u].chat = req[r].assigned.chat
    BY Zenon
  <2>1. PICK r \in Requests : Commit(r)
    BY DEF Next, Generate, Unlink, Bind, Drop, Expire, vars
  <2>2. req[r] \in Request /\ Busy(r) /\ req'[r] = Idle
    BY <2>1 DEF Commit, Busy, LinkInv, TypeOK
  <2>3. req[r].user = u /\ row' = [row EXCEPT ![u] = Result(r)]
    BY <2>1, <2>2 DEF Commit, LinkInv, TypeOK, Request
  <2>4. row'[u].chat = Result(r).chat
    BY <2>3 DEF LinkInv, TypeOK
  <2>5. req[r].assigned.chat # req[r].loaded.chat /\ Result(r).chat = req[r].assigned.chat
    BY <2>3, <2>4 DEF Result, Written
  <2>6. req[r].op \in {"bind", "unlink"}
    BY <2>2, <2>5 DEF LinkInv, AsLoaded, Request
  <2>7. QED
    BY <2>2, <2>3, <2>4, <2>5, <2>6 DEF Ends, Busy
<1>2. QED
  BY <1>1, LinkInvHolds, PTL DEF Spec, LinksAreWanted

\* A link token that an account still waits for is not lost to a request that
\* used another token, unless that request had been overtaken.
THEOREM FreshTokensLive == Spec => FreshTokenLives
<1> DEFINE Lives ==
      \A u \in Users :
        row[u].token # NoToken /\ row'[u].token # row[u].token =>
          \E r \in Requests :
            \/ Ends(r, "generate") \/ Ends(r, "unlink")
            \/ Ends(r, "bind") /\ (req[r].shown = row[u].token \/ raced[r])
<1>1. LinkInv /\ [Next]_vars => [Lives]_vars
  <2> SUFFICES ASSUME LinkInv, [Next]_vars, NEW u \in Users,
                      row'[u].token # row[u].token
               PROVE  \E r \in Requests :
                        \/ Ends(r, "generate") \/ Ends(r, "unlink")
                        \/ Ends(r, "bind") /\ (req[r].shown = row[u].token \/ raced[r])
    BY Zenon
  <2>1. PICK r \in Requests : Commit(r)
    BY DEF Next, Generate, Unlink, Bind, Drop, Expire, vars
  <2>2. req[r] \in Request /\ Busy(r) /\ req'[r] = Idle
    BY <2>1 DEF Commit, Busy, LinkInv, TypeOK
  <2>3. req[r].user = u
    BY <2>1, <2>2 DEF Commit, LinkInv, TypeOK, Request
  <2>4. req[r].op \in {"generate", "unlink", "bind"}
    BY <2>2 DEF Request
  <2>5. req[r].op = "bind" => req[r].shown = row[u].token \/ raced[r]
    BY <2>2, <2>3 DEF LinkInv, AsLoaded
  <2>6. QED
    BY <2>2, <2>4, <2>5 DEF Ends, Busy
<1>2. QED
  BY <1>1, LinkInvHolds, PTL DEF Spec, FreshTokenLives

\* A request that nobody overtook takes effect: whoever unlinked is unlinked,
\* and whoever was bound was bound by a token that was still the row's.
THEOREM UnracedRequestsTakeEffect == Spec => UnracedTakesEffect
<1> DEFINE Takes ==
      \A r \in Requests :
        Commit(r) /\ ~raced[r] =>
          /\ req[r].op = "unlink" => row'[req[r].user].chat = None
          /\ req[r].op = "bind" => row[req[r].user].token = req[r].shown
<1>1. IInv /\ LinkInv /\ [Next]_vars => [Takes]_vars
  <2> SUFFICES ASSUME IInv, LinkInv, NEW r \in Requests, Commit(r), ~raced[r]
               PROVE  /\ req[r].op = "unlink" => row'[req[r].user].chat = None
                      /\ req[r].op = "bind" => row[req[r].user].token = req[r].shown
    BY Zenon
  <2>1. Busy(r) /\ row[req[r].user] = req[r].loaded
    BY DEF Commit, Busy, LinkInv, AsLoaded
  <2>2. req[r].user \in Users
    BY <2>1, ResultToken DEF IInv
  <2>3. ASSUME req[r].op = "unlink" PROVE row'[req[r].user].chat = None
    <3>1. Result(r).chat = None
      BY <2>1, <2>3 DEF Result, Written, LinkInv, AsLoaded
    <3>2. QED
      BY <2>2, <3>1 DEF Commit, Unique, LinkInv, TypeOK
  <2>4. QED
    BY <2>1, <2>3 DEF LinkInv, AsLoaded
<1>2. QED
  BY <1>1, LinkInvHolds, PTL DEF Spec, UnracedTakesEffect
=============================================================================
