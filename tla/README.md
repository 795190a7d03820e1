# Formal models of the auction-lots service

TLA+ specifications of the service in `src/`: a FastAPI backend that collects
lots of debtors' property from public sources, users with saved filters who
get a daily digest in Telegram, an aiogram bot, and a static front end. Line
numbers of every definition's source are in `PROJECT.json`, "map"; what is hard
to test, line by line, is in "hazards".

## 1. The system

One backend process runs one asyncio event loop: HTTP handlers, and APScheduler
jobs in the same process (`scheduler/__init__.py`). The bot is another process
with four tasks. They share a PostgreSQL database only through the backend: the
bot speaks HTTP to `/api/internal`. The front end keeps an access token per tab
and one refresh cookie per browser. What shapes every interleaving:

* Every `await` of a query lets another handler run. A request loads a row into
  an SQLAlchemy session, assigns attributes and commits; transactions are READ
  COMMITTED, nothing is locked with `FOR UPDATE`, no row has a version column.
* **The ORM writes the columns whose value differs from the one it loaded**, and
  no other. Two overlapping requests therefore merge column by column, and
  assigning the value that one happened to load writes nothing at all.
* `expire_on_commit=False`, autoflush on: a query flushes what the session
  holds, so inserted rows lock their keys until the end of the transaction.
* In a page, everything between two `await`s is one step, and answers, timers,
  clicks and errors come in any order.

### Inventory

| Component (source) | State | Operations | Hard behaviour | What makes it correct | Module |
|---|---|---|---|---|---|
| Outbox: bot poller (`bot/services/outbox_poller.py`), internal API (`api/internal.py`), administration (`api/admin/outbox.py`), producers | table `outbox`; the poller's page, current message, verdict | fetch, send, acknowledge; retry, delete; enqueue | lost, late and reordered acknowledgements, crashes on both sides, timeouts, stale copies | at-least-once delivery; sent means accepted; given up only after real failures; every row settles | `Outbox`, `Delivery` |
| Digest (`services/digest_service.py`, `api/admin/digest.py`) | `notification_log`, outbox rows, template, `_digest_running` | scheduled and forced tick, template update | two ticks at once, autoflush and row locks, deadlock, midnight, one transaction for all users | a lot is told once, and none that is gone; scheduled digests keep their distance; every lot is announced | `Digest` |
| Telegram link (`services/telegram_service.py`, `api/telegram.py`, bot `/start`) | link columns of `users` | generate token, unlink, bind | overlap of load and commit, cut-off requests, expiry | revoked tokens stay revoked; links change only on request | `TelegramLink` |
| Administration of users (`api/admin/users.py`, `api/deps.py`), bootstrap (`core/admin_bootstrap.py`) | `is_admin`, `is_blocked`, audit log | patch, delete, bootstrap | authorise, load, count, commit and refresh are separate; audit in a second transaction; restart | an administrator remains; everything is audited; overlapping patches merge | `AdminGuard` |
| Ingestion (`services/ingest_service.py`, `scheduler/tasks.py`, `api/admin/parser.py`) | `lots`, `parser_runs`, `_parser_running` | scheduled and manual run, insert or update per lot | overlapping runs, a session spoilt by a failed flush, failing source, restart | a run that says ok stored what it counted; sources are independent; the table catches up in what is compared | `Ingest` |
| Sessions (`services/auth_service.py`, `core/security.py`, `js/api.js`, `js/auth.js`, `js/pages/login.js`) | refresh tokens, the tabs' access tokens, the cookie, the refresh in flight | login, refresh, logout, authorised call | one shared refresh per tab, tabs that share the cookie, refresh racing logout, lost answers | calls run once; waiters are woken; an ended session dies out | `Sessions` |
| Log stream and bot lifecycle (`log_forwarder.py`, `bot/main.py`, `heartbeat.py`, `core/log_buffer.py`, `api/admin/logs.py`) | bot's queue and batch, ring, subscribers' queues | emit, flush, push, notify, subscribe; stop, restart, heartbeat | full queues, deadline, late posts, deferred notification, `gather` | order kept, loss only where designed, nothing waits for ever | `LogStream` |
| Administration pages (`js/admin/router.js`, `pages/logs.js`, `pages/dashboard.js`, `components/table.js`) | mounted page, streams, timers, rows | navigate, pause, resume, filter, reload | answers and timers after leaving, overlapping requests | nothing runs on; rows are the newest; the tail comes back | `Pages` |
| Sources (`parser/sources/torgi.py`, `efrsb.py`), `normalizer.py` | page cursor, attempt, telemetry | list, retry, build lots, read prices | short and empty pages, moving lots, HTML instead of JSON | a full scan is complete; a scan ends; prices are read as written | `Sources`, `Normalizer` |
| Media cache (`services/media_proxy.py`, `media_prefetch.py`, `api/media.py`) | three files per image, prefetch tasks, the walk | request, download, store, warm up | store file by file, crash between two, walk by offset | nothing half-written is served; every image gets in | `MediaCache` |
| Search page (`js/pages/search.js`, `components/lot-card.js`), search (`services/lot_service.py`), favourites (`favorite_service.py`) | filters, sort, page; lots, favourites | search, turn pages, click hearts | overlapping searches, three statements per search, check then insert | the grid answers the state; pages partition; hearts tell the truth | `Site` |
| Scheduler, saved filters, health, SQL console, cabinet, migrations, configuration | see section 5 | | | | parts |

## 2. The modules

`Delivery` is abstract. Each other module is one component; `MC*` give their
constants small values; `*_proofs` hold theorems. `Outbox` instantiates
`Delivery`, `Sources` uses `Normalizer`; the others are independent of one
another: what one needs of another is an action that states its effect
(`Enqueue` in `Outbox` stands for the digest's commit, `OtherMessage` and
`ToggleLink` in `Digest` for a broadcast and a link, `IngestLot` in
`MediaCache` for the end of an ingestion).

**Outbox.** `req[s]` is a backend request in a slot: arrived, then loaded with a
private copy `snap`, then gone. `Load` is the handler's SELECT (no row: 204 or
404), `Commit` its UPDATE: `Merge` writes the columns in which `Handled(op,
snap)` differs from `snap`; an UPDATE that finds no row is a `StaleDataError`.
The bot is `pc`, `batch`, `cur`, `verdict`, `slot`; `AckTimeout` and `BotCrash`
leave the request running in the backend. `delivered` and `failures` are
history. Left out: `last_error`, bodies, audit records, response statuses (the
bot never reads them).

**Delivery.** What a user of the queue may rely on: a message is new, queued,
sent, given up or removed; sent needs an acceptance, giving up needs
`MaxAttempts` failed sends, removal is for ever.

**Digest.** A tick is `Consider` (user), `Compose` (the query for one filter, the
message and its log rows), `Flush` (autoflush before the next query), `Commit`
or `Abort`. A rival that inserts the same log row, and a DELETE of its lot or
filter, waits until the tick has ended; two ticks that wait for each other lose
one to the database's deadlock detector. Time is in minutes of the day; a tick
is shorter than a minute and each runner starts one tick in a minute at most.
Every lot matches every filter: of `_find_new_lots` the model keeps the
exclusion of logged lots and the LIMIT. Not modelled: deletion of users, new
filters and changed ones, users without `digest_time`.

**TelegramLink.** `Generate`, `Unlink` and `Bind` load the row and assign;
`Commit` writes the difference (`Written`) unless the account is another user's
(`Unique`), `Drop` is a client gone or a
restart. `telegram_user_id` and `telegram_chat_id` are assigned together and
are one column here, as are the token and its expiry. `raced` is history.

**AdminGuard.** A request is authorised, loads its target (its own row is in the
session already), is checked, commits. A patch then reads the row back
(`Refresh`, which raises if it is gone) and records its audit entry in a
second transaction, a deletion in the same one; the audit row references the
administrator. `racing` and `cut` are history: has another request's commit
fallen between this one's load and its refresh, and which requests were cut off
from their record? Names and time zones are left out.

**Ingest.** A lot's content is a version number for each of its `Columns`, of which
some are `Compared` (title, description, prices, auction date, status, images);
a run opens its `parser_runs`
row, reads the lots of a source once each in any order, looks each up and
inserts or updates it in a transaction of its own. A known lot is skipped unless
a compared column differs from the row looked up (`Unchanged`), and an update
writes the columns that differ from that row (`Written`), so two overlapping
updates merge. `dead` is a session whose
flush has failed: every later statement raises, since nobody rolls back.
`restarts` is history.

**Sessions.** `session[s]` is a `refresh_tokens` row, `jar` the cookie, `token[t]`
a tab's access token, `refresh[t]` its `refreshInflight`, `call[c]` an
authorised call: sent, handled, answered, possibly sent again after a refresh,
or waiting for one (`Waiting`). A call has a `with`, the token it was sent with,
since the tab's may change under it. The backend's handlers are one step each
(one transaction); answers may be lost. A logout leaves the page whatever the
backend answers (`LeaveLoggedOut`). Tokens expire at any moment. A quiet call is
one made with `redirectOn401: false`. Registration is left out.

**LogStream.** `pushed` is every record the ring was ever given, in order; `noted`
how many have been announced to subscribers, which `call_soon_threadsafe` does
later. `Take` and `TimeIsUp` are the forwarder's two ways to a flush; `adrift`
is a batch the forwarder has given up and the backend may still handle. `Stop`
is the cancellation by `gather`, with the last flush; `Kill` a SIGKILL.

**Pages.** `currentPage` is the module the router unmounts next, `root` the page
in the DOM; between them is the dynamic import. `streams` and `dash.intervals`
are what runs, `es`, `reconnectTimer` and `dash.timer` what the modules know of
it; the difference is a leak. `overlap` is history: did a navigation start
before the mount of the last one had ended? `table` is `createTable` with the
parameters as a counter.

**Sources.** One scan of one `kind` of source over `site`, a sequence of lots (torgi)
or messages with several lots (EFRSB), newest first, of which pages are cut
while `Publish` and `Withdraw` move them. `todo` and `nth` are the two loops over
a page: the items left, and the next lot of the first one; `SkipMessage` passes
over a message without guid. `Received` is an answer with or
without JSON, `Counted` an attempt of tenacity's three, `RequestRejected` a 4xx.
Torgi's pages may be shorter than asked for (`Served`).

**Normalizer.** `parse_price` on a text reduced to its digit groups and separators,
rule for rule, and how a price is written as its reference.

**MediaCache.** `disk[u]` are the files of an image, each absent, partial or whole;
`writing` is the store under way, one file at a time (`WriteStep`). `_write_cache`
holds no `await`, so requests wait, but nginx serves thumbnails at any moment
and a crash may fall between any two files. The walk is `WarmBatch` by offset in
the order of the ids.

**Site.** `state` is the page's, `searches` what is under way, each at one of the
three statements of the backend, `grid` what is shown with the search it
answers, `toggles` the requests of clicked hearts (look up, then commit). A
search is its reader's or a guest's by the token it was sent with, if that token
is still good when it arrives (`reader`).
`stale` and `blurred` are history and name why the page may err.

## 3. The runs

All bounds are CONSTANTS given in the `.cfg`. `CHECK_DEADLOCK FALSE` is set
where bounded numbers of messages, requests or events run out and nothing is
left to do; `digest_*` and `ingest_runs` are checked for deadlock. `SYMMETRY` is
used only without liveness.

| Run | Asks | Bounds, and why they suffice | States |
|---|---|---|---|
| `outbox_faults` | `SentWasDelivered`, `GivenUpAfterAttempts`, `DuplicatesExplained`, `SentIsFinalForBot`, `EveryMessageSettles`, the refinement `ImplementsDelivery` | two messages and a page of one, so that the loop over pages happens; two attempts (the code's three need one more failure of the same kind); two acknowledgement slots, so that a late one overlaps the next; an administrator with a retry; a fault | 734,000 |
| `digest_overlap` | `ToldOnce`, `MessagesAreCurrent`, `ScheduledSpaced`, deadlock | two filters of one user, so that ticks insert in opposite orders; two lots, one per filter and tick, so that LIMIT cuts; a day of 6 minutes and a cooldown of 3, so that windows wrap and recur; one other event | 3,807,340 |
| `digest_live` | `EveryLotAnnounced` | one user due at midnight with one filter, both runners, all templates; two lots of which a message holds one, so that one waits; two events, so that a template is set and mended, a link taken and given back, or a tick crashes and a message of another source follows. Ticks that wait for each other need two filters and are in `digest_overlap`, with `TicksNeverAllWait` | 698,514 |
| `link_overlap` | `RevokedStaysRevoked`, `LinksAreWanted`, `FreshTokenLives`, `UnracedTakesEffect` | two users, two accounts, two requests at once, three in all, three tokens | 77,000 |
| `admin_overlap` | `AuditAccounts`, `LastAdminNeedsRace`, `PatchesMerge` | three users of whom two administer and the third is configured for bootstrap, two requests at once, three in all, a restart | 1,188,306 |
| `ingest_runs` | `OkMeansAllStored`, `TickVisitsAll`, `CatchesUp` | two sources with two lots and one, both runners, a lot that the database refuses, of two columns that change each on its own, one compared and one not; a fault | 356,242 |
| `sessions` | `ExecutedOnce`, `NobodyWaitsInVain`, `ThrownOutForAReason`, `DeadSessionsStayDead` | two calls of one tab that may share a refresh, another tab that logs in and out, two sessions on one cookie, a logout, a lost message | 2,813,306 |
| `log_stream` | `RecordsInOrder`, `StreamFaithful`, `RecordsLeave` | queues and batches of two, a ring of three, five records: every queue overflows; one lost or late post; one subscriber (they do not interact) | 815,604 |
| `pages` | `NothingLeftBehind`, `QuietWhenAway`, `RowsAreNewest`, `StreamComesBack` | three navigations (leave, come back, leave), two clicks, two broken streams | 119,040 |
| `scan` | `FullScanIsComplete`, `PricesReadBack`, `ScanEnds` | five items of which one each is invalid, nameless, old, and two that may be published; pages of two, torgi serving one; two changes of the site; an error; with and without a limit; prices up to seven digits in every style | 16,749 |
| `media_cache` | `ServedWhole`, `EveryImageCached` | two images, one of them undecodable, three lots, batches of one so that the walk has several; a crash, a failure, a deletion | 125,000 |
| `site` | `GridAnswersState`, `PagesPartition`, `NothingFoundIsTrue`, `HeartTells` | three lots on two pages, two seeds, a filter that matches one lot, three events: two overlapping searches and a click | 962,247 |

### What the properties say, and what they do not

Many properties name the one circumstance in which the code does err; outside
it, the run shows, it does not. These are the circumstances:

* **Outbox.** A stale acknowledgement may rewind `attempt_count`
  (`api/internal.py:139`) or, late, take a delivery back; giving up early is
  impossible even then. A retry that read the row while it was pending leaves
  `status` out of its UPDATE (`api/admin/outbox.py:76`): if the bot's last failed
  acknowledgement commits in between, the message stays given up after a 204.
* **Link.** An unlink that read NULL before a bind committed clears nothing
  (`telegram_service.py:71`): it answers 204 and the account stays linked. A
  token shown by two racing binds is used twice. `UnracedTakesEffect` shows that
  both need the race.
* **Administrators.** Two administrators who demote each other at once both
  count two (`api/admin/users.py:167`), and none is left; `LastAdminNeedsRace`
  shows that nothing else does it. The count includes the blocked ones. A patch
  is committed before its record: a restart or the deletion of the administrator
  before the second commit loses the record, and so does the deletion of the
  target before the refresh (`api/admin/users.py:189-190`), which raises.
  `AuditAccounts` excepts exactly the requests to which that happened (`cut`).
* **Ingestion.** A lot the database refuses spoils the session
  (`ingest_service.py:241`): the rest of that run is lost and its row stays
  "running", as it does after a restart. The next run catches up, unless the lot
  is still refused: then the rest of its source may be lost in every run. Only
  seven fields tell whether a lot has changed (`ingest_service.py:113-121`): a
  change of category, region, `source_url`, `published_at` or `raw` alone is
  skipped for ever, so `CatchesUp` speaks of the compared columns.
* **Digest.** A broadcast within the cooldown silences a scheduled digest
  (`digest_service.py:142-147`; the docstring speaks of digests).
  `validate_template` accepts `{}`, at which `format` raises in every tick with
  a new lot; `EveryLotAnnounced` shows that nothing is lost by it once the
  template is mended, and that lots beyond the limit of a message, ticks that
  failed and links that were away are made up for.
* **Sessions.** A refresh that overtakes a logout stores an access token of the
  revoked session (`api.js:60`); it dies out within its lifetime. A network
  error during a refresh throws the user out (`api.js:64`).
* **Logs.** A record announced between a connection's snapshot and its
  subscription does not reach it live, and one in the snapshot may come again
  (`api/admin/logs.py:44-47`). When polling ends by itself, `gather` waits on and
  the heartbeat still says `polling_ok` (`bot/main.py:70`).
* **Administration pages.** A navigation while the last page's import or mount
  is under way finds nothing to unmount (`admin/router.js:65-77`): that page's
  stream or interval then runs on. `NothingLeftBehind` excepts `overlap` only.
  Parameters changed while the table loads are not loaded (`table.js:184`).
* **Scan.** A withdrawal during a scan moves lots past it, and the HTML fallback
  ignores the offset (`efrsb.py:426`); either way the scan may say "full". A
  price such as `1.234` is read as a fraction.
* **Search.** An older answer may overwrite a newer one (`search.js:158`). Lots
  of one price may repeat on a second page and others be missing
  (`lot_service.py:256`). With an expired access token the search is answered as
  a guest's, and no heart is filled (`deps.py:79-89`).

### Fairness

`FairSpec` (`FairLogSpec`, `FairScanSpec`) assumes weak fairness of what a ready event loop runs, and no more:
the poller's own steps, the handlers' steps of requests that have arrived, the
steps of a tick, the scheduler's firing and the passing of time (`Outbox`,
`Digest`); the steps of a run and the scheduled start (`Ingest`); that the
forwarder is run and a post ends within the client's timeout (`LogStream`); that
requests are answered or fail and timers fire (`Pages`); that a scan's requests
end and its consumer goes on (`Sources`); that tasks and the walk proceed and a
stopped backend is started again (`MediaCache`). Nobody is obliged to enqueue,
to click or to fail, and faults are bounded in number, which stands for "not
for ever". No strong fairness is used. `Sessions`, `TelegramLink`, `AdminGuard`
and `Site` have safety and action properties only.

## 4. The proofs

TLAPS checks these for every value of the constants, under the modules' named
assumptions: bounds are naturals, users, filters, sources and lots are finitely many,
`AckSlots` and `Admins` are finite and disjoint (`SlotsAssumption`), there is a
seed (`SiteAssumption`), NULL is not an account, and the like. Each proof module shows that the types are kept (`TypeCorrect`;
`LogTypes`, `SiteTypes`, `ScanTypes`) and proves its other theorems from an
invariant that is inductive, with one lemma or step per action. The theorems
about `LogStream` are in `Pages_proofs`, those about `Site` in `Ingest_proofs`,
those about `Sources` and `Normalizer` in `Digest_proofs`; the definitions that these modules
share with their neighbour have names of their own (`LogSpec`, `SiteSpec`,
`ScanSpec`). The fairness of `FairSpec` is not used: the theorems hold of every
behaviour of `Spec`.

| Theorem | Property | What had to be added to make it inductive |
|---|---|---|
| `Outbox_proofs!SentIsHonest` | `SentWasDelivered` | a commit knows only its copy: every "sent" acknowledgement, held or in flight, is for an accepted message (`ConfirmHonest`) |
| `GivingUpIsHonest` | `GivenUpAfterAttempts` | an account of debts: `cnt` of the row and of every loaded copy plus the failed acknowledgements still on their way never exceeds the real failures |
| `DuplicatesAreExplained` | `DuplicatesExplained` | `SpentOrLeft`: the deliveries of a message and the ones still ahead (`Chances`: one if the bot or the table will bring it again, one for each request that may revive it) never exceed one, the retries and the faults; and `OneAtATime`: the bot waits for one acknowledgement and never holds its message twice |
| `SentStaysSent` | `SentIsFinalForBot` | `NoLateAck`: until an acknowledgement has outlived the bot's wait, no other is in the backend, no row of the page is sent, and a failure is reported of no sent row |
| `OutboxImplementsDelivery` | `ImplementsDelivery` | the first two and `KnownRows`: ids not yet given have no row and no request |
| `TelegramLink_proofs!RevokedTokensStayRevoked` | `RevokedStaysRevoked` | tokens in sight have been generated, a token is seen by one user's row and requests only, and what a generate is about to write is nowhere yet |
| `LinksChangeOnRequest`, `FreshTokensLive`, `UnracedRequestsTakeEffect` | `LinksAreWanted`, `FreshTokenLives`, `UnracedTakesEffect` | `AsLoaded`: the row of a request that nobody overtook is the one it loaded, a bind loaded the token it shows, and a generate assigns the account it loaded |
| `AdminGuard_proofs!ChangesAreAudited` | `AuditAccounts` | `Numbered` (requests have numbers that were given out), `Reached` (a request whose administrator, or after its commit whose target, is gone counts as cut off) and `Accounted` (a change without a record belongs to a patch between its two commits or to a request that was cut off) |
| `LastAdminSafeUnlessRaced` | `LastAdminNeedsRace` | `Unraced`: what a request that nobody overtook has seen and counted is still true |
| `PatchesMergeColumns` | `PatchesMerge` | `Unraced` once more, for what a patch reads back |
| `Digest_proofs!NoLotIsToldTwice`, `MessagesAreOfCurrentRows` | `ToldOnce`, `MessagesAreCurrent` | `Told` (ids not yet given are untold) and `Held`: rows that a tick has inserted and not committed are in no other tick and not in the log |
| `DigestsAreSpaced` | `ScheduledSpaced` | `Spaced`: whoever a scheduled tick writes to, or will, has had no digest for longer than the cooldown, and `age` never exceeds `digestAge` |
| `Digest_proofs!FullScansAreComplete` | `FullScanIsComplete` | `CaughtUp`: without a withdrawal or an HTML page, the lots of the beginning stand together at the end of the site (`Placed`), and all of them up to the end of the page at hand are yielded or still to come on it (`Covered`, `Caught`); a page that is the last reaches the end of the site; `Begun`: the loop over an item's lots starts at its first |
| `Digest_proofs!TicksNeverAllWait` | | `Blank`: a tick that is not in progress holds no rows, so whoever another tick waits for is in progress |
| `TicksCountDown`, `ScanCountsDown` | | `InReach` for the scan: no page is fetched beyond what the site can have come to show, and the number of a lot stays within its message |
| `PricesAreReadBack`, from `PriceReadsBack` and `GroupsJoin` | `PricesReadBack` | nothing (no step matters); two inductions over sequences of digits, see below |
| `DotIsThePoint` | | says what becomes of the prices that `PricesReadBack` excepts |
| `Ingest_proofs!OkIsTrue`, `TicksVisitAll` | `OkMeansAllStored`, `TickVisitsAll` | `Sound`: a run counts a failure only with a session that a flush has spoilt, and `Honest` rows; `Present`: a row that was looked up is there until it is deleted, which the run learns by `gone`; `TicksVisitAll` needs the types only |
| `RunsNeverStall`, `RunsCountDown` | | `Pending`: between two sources there is a source to come |
| `Ingest_proofs!PageShowsItsState` | `GridAnswersState` | `Latest`: the search with the newest number asks for the page's state, and without an overtaken answer the grid shows it or waits for it |
| `ShuffledPagesPartition` | `PagesPartition` | `Viewed`: the rows read for a page are the lots whose rank (how many matching lots precede them) falls into it; a shuffle is a total order, so ranks are `0..n - 1`, each once (`FS_` theorems on cardinality) |
| `NothingFoundIsSaidTruly` | `NothingFoundIsTrue` | `Reached`: every page asked for begins before the end of what is found, since page buttons show the total of the answer they came with |
| `HeartsTell` | `HeartTells` | `Told`: while nothing is blurred, a heart without an answered click agrees with the table, and such a click is about to make it agree; `Cards`: one request per heart |
| `Sessions_proofs!CallsRunOnce` | `ExecutedOnce` | `RanOf`: a call that is not done, and might be sent again, has not run |
| `WaitersAreWoken` | `NobodyWaitsInVain` | `Named`: a granted refresh and a login name a session; otherwise inductive as it stands |
| `EndedSessionsStayEnded` | `DeadSessionsStayDead` | `LoginsFresh`: a login under way has a number whose session is not used yet, and no other tab has it |
| `LoginsLast` | `ThrownOutForAReason` | `LoggedInForGood`: while nothing has disturbed, the cookie names a live session, a refresh of a tab that holds a token is neither refused nor granted for a session that is not live, and a tab that logs in has no call on its way |
| `MediaCache_proofs!ImagesAreWhole` | `ServedWhole` | each step of a store leaves files that are whole, since they are moved into place |
| `NothingIsForgotten` | | `Written` (what a store has on the disk already), `InBatch` (what has become of the images of the batch) and `AtRest` (a walk begins with the first lot); `NoGap`: the lots' ranks have no gap, so an empty batch means that none is left behind the offset (induction over `Nat` by its least elements, `FS_` theorems) |
| `Pages_proofs!AwayIsQuiet`, `RowsAreCurrent`, `LeavingCleansUp` | `QuietWhenAway`, `RowsAreNewest`, `NothingLeftBehind` | `Rows` (a table that loads has the request of its last reload in flight, and no other), and without overlap `Single` (one mount at a time, and it finds nothing open) and `Owned` (what runs belongs to the mounted page) |
| `Pages_proofs!RecordsStayInOrder` | `RecordsInOrder` | `Ways`: ring, post, buffer and queue form a row, each in order and before the next; without a loss the row holds every record so far |
| `StreamsAreFaithful` | `StreamFaithful` | `Stream`: what was sent and what is queued, each in order, the one before the other; uncut they are exactly what was announced since, and the newest is always among them |

**Coming to an end.** Liveness under fairness is out of the prover's reach; what
it rests on is not. For ticks, runs and scans the proofs define what is left to
do (`TickLeft`, `RunLeft`, `Remaining`: numbers of users, sources, pages, items,
lots, attempts, compared lexicographically), show that the order has no infinite
descent (`WFLexProductOrdering` of the library), that every step of the tick,
run or scan goes down in it, and that no step of anyone else goes up. With
`TicksNeverAllWait` and `RunsNeverStall` (their conditions are the guards of the
actions, written out, since ENABLED is out of reach too) this is the argument
why `FairSpec` makes them end; that last inference is left to TLC. A scan is
bounded because the changes of the site (`MaxChanges`) and its wrong pages
(`MaxErrors`) are: against a site that publishes faster than pages are fetched,
or sends HTML for ever, nothing in the code would end it.

`EveryImageCached` has its safety half proved: `NothingIsForgotten` says that at
every moment somebody has the image of a lot to bring into the cache (a store, a
task, the run that is about to schedule it) or the walk is still to come to the
lot, unless a failure excuses it. That those whose turn it is do get to it is
what TLC checks.

**Prices.** What `FlattenSeq` (a fold) and the recursive function `Groups` make
of a sequence is defined by a CHOOSE over functions. The proofs show, by
induction in the form "a set that holds 0 and with n also n + 1 is all of Nat"
(`SetInduction`, from the library's well-foundedness of Nat), that a function with the recursion
exists and that any two agree (`Joins`, `Cuts`), and so get the equations
(`FlattenOne`, `FlattenLonger`, `GroupsOf`). From these `GroupsJoin`, and from it
`PriceReadsBack` for every number of digits; the run's property has only a list.

Only model-checked: the liveness properties under fairness (`EveryMessageSettles`,
`EveryLotAnnounced`, `CatchesUp`, `RecordsLeave`, `StreamComesBack`, `ScanEnds`,
`EveryImageCached`). Every invariant and every action property of a run, and the
refinement of `Delivery`, is proved.

## 5. Not modelled

* Scheduler administration (pause, resume, run now): it sets APScheduler's own
  state; how firings bear on ticks and runs is in `Digest` and `Ingest`.
* Registration, profile and saved filters other than their deletion: one row
  of one user written in one transaction.
* Regions, categories and dates in `normalizer.py`, and the mapping of a
  source's fields: tables of patterns and formats with no control of their own.
* Reading endpoints (meta, lists, single lot, most of health) and pages that
  fetch once and render.
* The SQL console: it runs arbitrary SQL.
* Migrations and configuration: run once or constant; the constraints they
  create are in the modules that rely on them.
* The mock API and the parser's command line: development aids.
* The composition of `Digest`, `Outbox` and `TelegramLink`, from a new lot to a
  delivered message while the user unlinks: the chat is read when a tick begins
  and the code promises nothing about a change in between
  (`digest_service.py:88`).
