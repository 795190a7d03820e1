---------------------------- MODULE TelegramLink ----------------------------
(***************************************************************************)
(* Linking a Telegram account: the site issues a token good for one hour,  *)
(* the user sends it to the bot, the bot asks the backend to bind, the     *)
(* site (or an administrator) unlinks.  Every request loads the user row,  *)
(* assigns columns and commits; requests overlap between load and commit.  *)
(* The ORM writes only the columns whose new value differs from the one it *)
(* loaded: that is what two overlapping requests make of each other.       *)
(*                                                                         *)
(* telegram_user_id and telegram_chat_id are assigned together and stand   *)
(* here as one column, chat; so do telegram_link_token and its expiry.     *)
(***************************************************************************)
EXTENDS Integers, FiniteSets

CONSTANTS
  Users, Chats,
  None,        \* NULL
  Requests,    \* requests the backend may be serving at one time
  MaxTokens,   \* bound: tokens ever generated
  MaxRequests  \* bound: binds and unlinks begun

ASSUME LinkAssumption ==
  /\ None \notin Chats /\ MaxTokens \in Nat /\ MaxRequests \in Nat

Tokens == 1..MaxTokens
NoToken == 0

VARIABLES
  row,        \* row[u]: the link columns of table users
  expired,    \* tokens older than an hour
  nextToken,
  req,        \* req[r]: the request in progress
  begun,      \* bound counter
  dead,       \* history: tokens some finished request has revoked
  raced       \* history: has the row changed since the request loaded it?

vars == <<row, expired, nextToken, req, begun, dead, raced>>

Columns == [chat : Chats \cup {None}, token : {NoToken} \cup Tokens]

\* A request: what it loaded, what it assigned, and the token a bind shows.
Request == [op : {"generate", "unlink", "bind"}, user : Users,
            loaded : Columns, assigned : Columns, shown : {NoToken} \cup Tokens]
Idle == [op |-> "idle"]

Init ==
  /\ row = [u \in Users |-> [chat |-> None, token |-> NoToken]]
  /\ expired = {} /\ nextToken = 1 /\ begun = 0
  /\ req = [r \in Requests |-> Idle]
  /\ dead = {}
  /\ raced = [r \in Requests |-> FALSE]

-----------------------------------------------------------------------------
Load(r, op, u, t, cols) ==
  /\ req[r] = Idle
  /\ req' = [req EXCEPT ![r] = [op |-> op, user |-> u, loaded |-> row[u],
                               assigned |-> cols, shown |-> t]]
  /\ raced' = [raced EXCEPT ![r] = FALSE]

Generate(r, u) ==
  /\ nextToken \in Tokens
  /\ Load(r, "generate", u, NoToken, [row[u] EXCEPT !.token = nextToken])
  /\ nextToken' = nextToken + 1
  /\ UNCHANGED <<row, expired, begun, dead>>

\* Mutation: unlinking leaves the token usable.
ChatOnly(u) == [row[u] EXCEPT !.chat = None]
\* Mutation: unlinking leaves the account linked.
TokenOnly(u) == [row[u] EXCEPT !.token = NoToken]
Cleared(u) == [chat |-> None, token |-> NoToken]

\* By the user or by an administrator.
Unlink(r, u) ==
  /\ begun < MaxRequests /\ begun' = begun + 1
  /\ Load(r, "unlink", u, NoToken, Cleared(u))
  /\ UNCHANGED <<row, expired, nextToken, dead>>

\* Mutation: a token is good until it expires, whatever the row holds.
Remembered(u, t) == t < nextToken /\ t \notin expired
Valid(u, t) == row[u].token = t /\ t \notin expired

Bound(u, c) == [chat |-> c, token |-> NoToken]

\* /start <token>: a token nobody holds, or an expired one, is refused.
Bind(r, t, c) ==
  /\ begun < MaxRequests /\ begun' = begun + 1
  /\ \E u \in Users :
       /\ Valid(u, t)
       /\ Load(r, "bind", u, t, Bound(u, c))
  /\ UNCHANGED <<row, expired, nextToken, dead>>

-----------------------------------------------------------------------------
\* Mutation: the row is saved as the request left it.
WholeRow(old, loaded, assigned) == assigned
\* UPDATE users SET <the columns that changed>.
Written(old, loaded, assigned) ==
  LET New(a, l, o) == IF a # l THEN a ELSE o
  IN  [chat  |-> New(assigned.chat, loaded.chat, old.chat),
       token |-> New(assigned.token, loaded.token, old.token)]

Result(r) == Written(row[req[r].user], req[r].loaded, req[r].assigned)

\* UNIQUE telegram_user_id.
Unique(u, cols) ==
  cols.chat = None \/ \A v \in Users \ {u} : row[v].chat # cols.chat

Commit(r) ==
  /\ req[r] # Idle
  /\ LET q == req[r] IN
     IF Unique(q.user, Result(r))
       THEN /\ row' = [row EXCEPT ![q.user] = Result(r)]
            /\ dead' = dead \cup ({q.loaded.token} \ {NoToken})
            /\ raced' = [s \in Requests |-> raced[s] \/
                          (s # r /\ req[s] # Idle /\ req[s].user = q.user)]
       ELSE UNCHANGED <<row, dead, raced>>
  /\ req' = [req EXCEPT ![r] = Idle]
  /\ UNCHANGED <<expired, nextToken, begun>>

\* The client went away or the backend restarted before the commit.
Drop(r) ==
  /\ req[r] # Idle
  /\ req' = [req EXCEPT ![r] = Idle]
  /\ UNCHANGED <<row, expired, nextToken, begun, dead, raced>>

Expire(t) ==
  /\ t < nextToken /\ t \notin expired
  /\ expired' = expired \cup {t}
  /\ UNCHANGED <<row, nextToken, req, begun, dead, raced>>

Next ==
  \/ \E r \in Requests, u \in Users : Generate(r, u)
  \/ \E r \in Requests, u \in Users : Unlink(r, u)
  \/ \E r \in Requests, t \in Tokens, c \in Chats : Bind(r, t, c)
  \/ \E r \in Requests : Commit(r)
  \/ \E r \in Requests : Drop(r)
  \/ \E t \in Tokens : Expire(t)

Spec == Init /\ [][Next]_vars

-----------------------------------------------------------------------------
\* Every variable keeps to its type, and no row holds a token that has not
\* been generated.
TypeOK ==
  /\ row \in [Users -> Columns]
  /\ \A u \in Users : row[u].token < nextToken
  /\ nextToken \in 1..(MaxTokens + 1) /\ expired \subseteq 1..(nextToken - 1)
  /\ req \in [Requests -> Request \cup {Idle}]
  /\ begun \in 0..MaxRequests /\ raced \in [Requests -> BOOLEAN]
  /\ dead \subseteq Tokens

\* A token that a finished request has replaced, revoked or consumed never
\* comes back: whatever overlaps, no later /start can use it.
RevokedStaysRevoked == \A u \in Users : row[u].token \notin dead

Ends(r, op) == req[r] # Idle /\ req'[r] = Idle /\ req[r].op = op

\* An account is linked only by the bind that was sent it, and unlinked or
\* replaced only by a bind or an unlink of that user: a link that is generated
\* from a row loaded earlier neither takes back what a bind has committed
\* meanwhile nor brings back what an unlink has removed.
LinksAreWanted ==
  [][\A u \in Users :
       row'[u].chat # row[u].chat =>
         \E r \in Requests :
           /\ Ends(r, "bind") \/ Ends(r, "unlink")
           /\ req[r].user = u /\ row'[u].chat = req[r].assigned.chat]_vars

\* The next two hold of requests that no other one overtakes: raced[r]
\* says that another request changed the row after r had loaded it.

\* A token leaves the user's row only by an unlink, by a newer token or by
\* the bind that shows it: a fresh token is not lost to an older one.
FreshTokenLives ==
  [][\A u \in Users :
       row[u].token # NoToken /\ row'[u].token # row[u].token =>
         \E r \in Requests :
           \/ Ends(r, "generate") \/ Ends(r, "unlink")
           \/ Ends(r, "bind") /\ (req[r].shown = row[u].token \/ raced[r])]_vars

\* What a request that nobody overtook has committed is what it was asked
\* for: an unlink leaves the user unlinked, and a bind has used a token that
\* was still in the row, so that no token links two accounts.
UnracedTakesEffect ==
  [][\A r \in Requests :
       Commit(r) /\ ~raced[r] =>
         /\ req[r].op = "unlink" => row'[req[r].user].chat = None
         /\ req[r].op = "bind" => row[req[r].user].token = req[r].shown]_vars
=============================================================================
