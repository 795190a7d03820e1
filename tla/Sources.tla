------------------------------- MODULE Sources -------------------------------
(***************************************************************************)
(* fetch_lots of the two sources: pages of a site that changes under the   *)
(* scan are fetched one by one, retried, and turned into lots.  torgi.gov  *)
(* tells which page is the last one and cuts pages as it likes; the EFRSB  *)
(* honours the page size, and a page shorter than asked for is its last.   *)
(* An item of the site is one lot on torgi, a message with several lots on *)
(* the EFRSB.  What a page's fields contain is abstracted to whether a lot *)
(* can be built from them and whether it is older than since.              *)
(***************************************************************************)
EXTENDS Normalizer

CONSTANTS
  Items,         \* what the site can publish
  Lots,          \* Lots[i]: number of lots in message i of the EFRSB
  Invalid,       \* items whose lots fail the validation of ParsedLot
  Nameless,      \* items without id or guid
  Broken,        \* items that make building a lot raise
  Old,           \* items published before since
  Initial,       \* what the site shows at the start, newest first
  PageSize,      \* page_size of the request
  Served,        \* Served[kind]: the page size the site uses
  Limits,        \* values of limit; NoLimit for None
  MaxChanges,    \* bound: items published or withdrawn during the scan
  MaxErrors      \* bound: requests rejected, pages that come wrong

NoLimit == 0
Kinds == {"torgi", "efrsb"}

ASSUME SourcesAssumption ==
  /\ Lots \in [Items -> Nat \ {0}] /\ Initial \in Seq(Items)
  /\ PageSize \in Nat \ {0} /\ Served \in [Kinds -> 1..PageSize]
  /\ Served["efrsb"] = PageSize /\ Limits \subseteq Nat
  /\ MaxChanges \in Nat /\ MaxErrors \in Nat

VARIABLES
  kind, limit,   \* the source, and the argument of fetch_lots
  site,          \* what the site shows, newest first
  at,            \* "fetch", "page", "done" or "failed"
  page,          \* page_number; for the EFRSB offset = page * PageSize
  attempt,       \* attempts of the request at hand that have failed
  todo, nth,     \* items of the page not yet done; the first one's next lot
  isLast,        \* is the page the last one, by the source's own test?
  got,           \* the lots yielded, in order: <<item, number>>
  skipped, pages,   \* skipped_invalid, pages_fetched
  telemetry,     \* _run_telemetry
  changes, withdrawn, odd,   \* history: changes of the site; was any item
              \* withdrawn?  did a page come out of the HTML fallback?
  errors         \* bound counter

scan == <<at, page, attempt, todo, nth, isLast, got, skipped, pages, telemetry>>
scanVars == <<kind, limit, site, at, page, attempt, todo, nth, isLast, got, skipped,
              pages, telemetry, changes, withdrawn, odd, errors>>

Nothing == [pages |-> 0, yielded |-> 0, skipped |-> 0, full |-> FALSE]

ScanInit ==
  /\ kind \in Kinds /\ limit \in Limits /\ site = Initial
  /\ at = "fetch" /\ page = 0 /\ attempt = 0 /\ todo = <<>> /\ nth = 1 /\ isLast = FALSE
  /\ got = <<>> /\ skipped = 0 /\ pages = 0 /\ telemetry = Nothing
  /\ changes = 0 /\ withdrawn = FALSE /\ odd = FALSE /\ errors = 0

-----------------------------------------------------------------------------
(***************************************************************************)
(* The site.                                                               *)
(***************************************************************************)
Change ==
  /\ at \in {"fetch", "page"} /\ changes < MaxChanges /\ changes' = changes + 1
  /\ UNCHANGED <<kind, limit, scan, odd, errors>>
Publish(i) ==
  /\ Change /\ i \notin Range(site) \cup Range(Initial)
  /\ site' = <<i>> \o site
  /\ UNCHANGED withdrawn
Withdraw(i) ==
  /\ Change
  /\ \E p \in DOMAIN site : site[p] = i /\ site' = RemoveAt(site, p)
  /\ withdrawn' = TRUE

Least(a, b) == IF a < b THEN a ELSE b
Content(n) == SubSeq(site, n * Served[kind] + 1, Least((n + 1) * Served[kind], Len(site)))

-----------------------------------------------------------------------------
(***************************************************************************)
(* The scan.                                                               *)
(***************************************************************************)
\* finally: what the run reports, however the scan ends.
Report(yielded, complete) ==
  telemetry' = [pages |-> pages', yielded |-> yielded, skipped |-> skipped',
                full |-> complete /\ limit = NoLimit]

LotCount(i) == IF kind = "torgi" THEN 1 ELSE Lots[i]

\* Mutation: torgi, too, takes a short page for the last one.
ShortPage(items, last) == Len(items) < PageSize
IsLast(items, last) == IF kind = "torgi" THEN last ELSE Len(items) < PageSize

Received(items, last) ==
  /\ pages' = pages + 1 /\ attempt' = 0
  /\ IF items = <<>>
       THEN /\ at' = "done" /\ skipped' = skipped /\ Report(Len(got), FALSE)
            /\ UNCHANGED <<todo, isLast>>
       ELSE /\ at' = "page" /\ isLast' = IsLast(items, last)
            /\ todo' = items
            /\ UNCHANGED <<skipped, telemetry>>
  /\ UNCHANGED <<kind, limit, site, page, nth, got, changes, withdrawn>>

FetchPage ==
  /\ at = "fetch"
  /\ Received(Content(page), (page + 1) * Served[kind] >= Len(site))
  /\ UNCHANGED <<odd, errors>>

WrongPage(items) ==
  /\ at = "fetch" /\ errors < MaxErrors /\ errors' = errors + 1
  /\ Received(items, FALSE)

\* torgi answers with an empty page in the middle of the scan.
EmptyPage == kind = "torgi" /\ WrongPage(<<>>) /\ UNCHANGED odd

\* The EFRSB answers with HTML: the rows of its table, if it has one, are the
\* newest messages, whatever offset was asked for.
HtmlPage ==
  /\ kind = "efrsb" /\ odd' = TRUE
  /\ \E n \in 0..Least(Len(site), PageSize) : WrongPage(SubSeq(site, 1, n))

Fails ==
  /\ at' = "failed" /\ Report(Len(got), FALSE)

\* Mutation: the count of attempts starts anew at the second failure.
Anew(n) == 1 - n
Counted(n) == n + 1

\* A network error or a 5xx, three times at most; any other status at once.
RequestFails ==
  /\ at = "fetch"
  /\ attempt' = Counted(attempt)
  /\ UNCHANGED <<skipped, pages>>
  /\ IF attempt' = 3 THEN Fails ELSE UNCHANGED <<at, telemetry>>
  /\ UNCHANGED <<kind, limit, site, page, todo, nth, isLast, got, changes,
                 withdrawn, odd, errors>>
RequestRejected ==
  /\ at = "fetch" /\ errors < MaxErrors /\ errors' = errors + 1
  /\ UNCHANGED <<skipped, pages>>
  /\ Fails
  /\ UNCHANGED <<kind, limit, site, page, attempt, todo, nth, isLast, got, changes,
                 withdrawn, odd>>

LimitReached(n) == limit # NoLimit /\ n >= limit

\* On to the next lot of the item, or to the next item.
Advance ==
  IF nth < LotCount(Head(todo)) THEN nth' = nth + 1 /\ UNCHANGED todo
                                ELSE nth' = 1 /\ todo' = Tail(todo)

\* A message without guid has no lots.
NoMessage == kind = "efrsb" /\ Head(todo) \in Nameless
SkipMessage ==
  /\ at = "page" /\ todo # <<>> /\ NoMessage
  /\ todo' = Tail(todo)
  /\ UNCHANGED <<kind, limit, site, at, page, attempt, nth, isLast, got, skipped, pages,
                 telemetry, changes, withdrawn, odd, errors>>

\* One more lot is built: skipped and counted, dropped, or yielded.  What
\* raises ends torgi's scan; the EFRSB goes on to the next lot.  The EFRSB
\* counts skipped lots where finally overwrites the count.
Lot ==
  /\ at = "page" /\ todo # <<>> /\ ~NoMessage
  /\ Advance
  /\ LET i == Head(todo) IN
     IF i \in Invalid \cup Nameless
       THEN /\ skipped' = skipped + (IF kind = "torgi" THEN 1 ELSE 0)
            /\ UNCHANGED <<at, got, pages, telemetry>>
     ELSE IF i \in Broken
       THEN /\ UNCHANGED <<got, skipped, pages>>
            /\ IF kind = "torgi" THEN Fails ELSE UNCHANGED <<at, telemetry>>
     ELSE IF i \in Old
       THEN UNCHANGED <<at, got, skipped, pages, telemetry>>
     ELSE /\ got' = Append(got, <<i, nth>>) /\ UNCHANGED <<skipped, pages>>
          /\ IF LimitReached(Len(got'))
               THEN at' = "done" /\ Report(Len(got'), FALSE)
               ELSE UNCHANGED <<at, telemetry>>
  /\ UNCHANGED <<kind, limit, site, page, attempt, isLast, changes, withdrawn,
                 odd, errors>>

NextPage(n) == n + 1

PageDone ==
  /\ at = "page" /\ todo = <<>>
  /\ UNCHANGED <<skipped, pages>>
  /\ IF isLast THEN at' = "done" /\ Report(Len(got), TRUE) /\ UNCHANGED page
               ELSE at' = "fetch" /\ page' = NextPage(page) /\ UNCHANGED telemetry
  /\ UNCHANGED <<kind, limit, site, attempt, todo, nth, isLast, got, changes,
                 withdrawn, odd, errors>>

-----------------------------------------------------------------------------
Scan == FetchPage \/ EmptyPage \/ HtmlPage \/ RequestFails \/ RequestRejected
          \/ SkipMessage \/ Lot \/ PageDone
ScanNext == Scan \/ \E i \in Items : Publish(i) \/ Withdraw(i)

ScanSpec == ScanInit /\ [][ScanNext]_scanVars

\* A request is answered or times out, and a run takes every lot it is given.
FairScanSpec == ScanSpec /\ WF_scanVars(Scan)

-----------------------------------------------------------------------------
\* Every variable keeps to its values.
ScanTypeOK ==
  /\ kind \in Kinds /\ limit \in Limits /\ site \in Seq(Items)
  /\ at \in {"fetch", "page", "done", "failed"}
  /\ page \in Nat /\ attempt \in 0..3 /\ todo \in Seq(Items) /\ nth \in Nat \ {0}
  /\ isLast \in BOOLEAN /\ got \in Seq(Items \X (Nat \ {0}))
  /\ skipped \in Nat /\ pages \in Nat
  /\ telemetry \in [pages : Nat, yielded : Nat, skipped : Nat, full : BOOLEAN]
  /\ changes \in Nat /\ withdrawn \in BOOLEAN /\ odd \in BOOLEAN /\ errors \in Nat

Ended == at \in {"done", "failed"}
Good(i) == i \notin Invalid \cup Nameless \cup Broken \cup Old

\* A scan that reports full_scan_completed has yielded every lot that the site
\* showed when it began, also if new ones were published meanwhile and moved
\* the others to later pages; unless some were withdrawn, which moves others
\* past the scan, or a page came from the HTML fallback.
FullScanIsComplete ==
  telemetry.full /\ ~withdrawn /\ ~odd =>
    \A i \in Range(Initial) : Good(i) =>
      \A n \in 1..LotCount(i) : <<i, n>> \in Range(got)

\* torgi.gov gives its prices as numbers, the EFRSB as it likes.
Styles == IF kind = "torgi" THEN {<<None, ".">>}
          ELSE {<<None, ".">>, <<None, ",">>, <<".", ",">>, <<",", ".">>}
Wholes == {SubSeq(<<1, 0, 0, 2, 3, 4, 0>>, 1, k) : k \in {1, 3, 4, 6, 7}}
Fractions == {<<>>, <<5>>, <<0, 5>>}

\* The price of a lot that is built is the one the site shows, whichever
\* separators it puts between thousands and before kopecks; except that 1.234,
\* with dots for thousands and without kopecks, is one rouble and a part.
PricesReadBack ==
  at = "page" =>
    \A style \in Styles, whole \in Wholes, fraction \in Fractions :
      ~LooksLikeFraction(whole, fraction, style[1]) =>
        parse_price(Written(whole, fraction, style[1], style[2]))
          = Price(whole, fraction)

\* Every scan ends, however pages are cut and lots move.
ScanEnds == <>Ended

=============================================================================
