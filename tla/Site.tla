--------------------------------- MODULE Site ---------------------------------
(***************************************************************************)
(* The search page of a signed-in user: its state (filters, sort, seed and *)
(* page) and the requests it makes of the backend, which overlap: nothing  *)
(* waits for an answer, and every answer that comes is rendered.  The      *)
(* backend answers a search in three statements (total, rows, favourites), *)
(* each on the tables as they then are, and an add or a removal of a       *)
(* favourite in two.  Fields of the filters are abstracted to the set of   *)
(* lots that match, md5(id || seed) to a rank per seed.                    *)
(***************************************************************************)
EXTENDS Integers, Sequences, FiniteSets, SequencesExt, Functions

CONSTANTS
  Lots,          \* ids; a larger one was first seen later
  Filters,       \* filters of the form; Unfiltered is one of them
  Unfiltered,
  Matches,       \* Matches[f]: the lots a filter lets through
  Price,         \* Price[l]: the price of lot l
  Vehicles,      \* lots of the category shown first
  Seeds,         \* shuffle seeds
  Hash,          \* Hash[s]: md5 of the lots' ids with seed s
  PageSize,
  Tables, Hearts, \* tables and favourites to begin with
  MaxEvents      \* bound: controls used, hearts clicked, changes from elsewhere

NoSeed == "none"
Sorts == {"random", "price_asc", "date_desc"}

ASSUME SiteAssumption ==
  /\ Lots \subseteq Nat /\ IsFiniteSet(Lots) /\ Unfiltered \in Filters
  /\ Matches \in [Filters -> SUBSET Lots] /\ Matches[Unfiltered] = Lots
  /\ Price \in [Lots -> Nat] /\ Vehicles \subseteq Lots
  /\ Hash \in [Seeds -> [Lots -> Nat]] /\ \A s \in Seeds : IsInjective(Hash[s])
  /\ PageSize \in Nat \ {0} /\ Seeds # {}
  /\ Tables \subseteq SUBSET Lots /\ Hearts \subseteq SUBSET Lots
  /\ MaxEvents \in Nat

VARIABLES
  table,         \* the lots in the database
  favs,          \* the user's favourites in the database
  state,         \* state of search.js
  searches,      \* searches the backend or the net is busy with
  grid,          \* what #results and #pagination show
  toggles,       \* requests of hearts that were clicked
  tokenValid,    \* is the access token the page sends still accepted?
  moves, clicks, edits,   \* counters of the events
  stale,         \* history: was an answer rendered that a newer search followed?
  blurred,       \* history: why a heart may be wrong
  seen           \* history: the pages of the present view that were rendered

siteVars == <<table, favs, state, searches, grid, toggles, tokenValid,
              moves, clicks, edits, stale, blurred, seen>>
database == <<table, favs>>
history == <<stale, blurred, seen>>
bounds == <<moves, clicks, edits>>
MayHappen == moves + clicks + edits < MaxEvents

View == [filter : Filters, sort : Sorts, seed : Seeds \cup {NoSeed}, page : Nat \ {0}]

\* The first search, of a page opened without a query string.
First == [filter |-> Unfiltered, sort |-> "random", seed |-> CHOOSE s \in Seeds : TRUE,
          page |-> 1]
Search(n, q, reader) ==
  [number |-> n, q |-> q, reader |-> reader, at |-> "count", total |-> 0, items |-> <<>>,
   hearts |-> {}]
Loading == [show |-> "loading", number |-> 0, q |-> First, items |-> <<>>,
            hearts |-> {}, pages |-> 0]

SiteInit ==
  /\ table \in Tables /\ favs \in Hearts /\ favs \subseteq table
  /\ state = First /\ searches = {Search(0, First, TRUE)}
  /\ grid = Loading /\ toggles = {} /\ tokenValid = TRUE
  /\ moves = 0 /\ clicks = 0 /\ edits = 0
  /\ stale = FALSE /\ blurred = {} /\ seen = <<>>

-----------------------------------------------------------------------------
(***************************************************************************)
(* The page's controls: state changes, the grid turns into skeletons, and  *)
(* a search goes out for the state as it now is.                           *)
(***************************************************************************)
Moves(q) ==
  /\ MayHappen /\ moves' = moves + 1
  /\ state' = q

\* Mutation: one search at a time, a change meanwhile is not searched for.
OneAtATime == searches = {}
MayLoad == TRUE

LoadLots(q) ==
  /\ IF MayLoad
       THEN /\ searches' = searches \cup {Search(moves', q, tokenValid)}
            /\ grid' = [Loading EXCEPT !.number = moves']
       ELSE UNCHANGED <<searches, grid>>
  /\ UNCHANGED <<database, toggles, tokenValid, clicks, edits, stale, blurred>>

\* Mutation: the page stays what it was.
KeepPage(q) == q
FirstPage(q) == [q EXCEPT !.page = 1]

\* The filters are emptied: by date turns into random.
ChangeFilter(f) ==
  /\ \E seed \in Seeds :
       LET emptied == f = Unfiltered /\ state.filter # Unfiltered
                        /\ state.sort = "date_desc"
           q == [FirstPage(state) EXCEPT !.filter = f,
                   !.sort = IF emptied THEN "random" ELSE @,
                   !.seed = IF emptied THEN seed ELSE @] IN
       Moves(q) /\ LoadLots(q)
  /\ seen' = <<>>

ChangeSort(sort) ==
  /\ sort # state.sort
  /\ \E seed \in IF sort = "random" THEN Seeds ELSE {NoSeed} :
       LET q == [FirstPage(state) EXCEPT !.sort = sort, !.seed = seed] IN
       Moves(q) /\ LoadLots(q)
  /\ seen' = <<>>

\* The buttons are those of the answer that is shown.
GoToPage(p) ==
  /\ grid.show = "items" /\ p \in 1..grid.pages /\ p # grid.q.page
  /\ LET q == [state EXCEPT !.page = p] IN Moves(q) /\ LoadLots(q)
  /\ UNCHANGED seen

-----------------------------------------------------------------------------
(***************************************************************************)
(* The backend answers a search.                                           *)
(***************************************************************************)
Step(s, new) == searches' = (searches \ {s}) \cup {new}

Found(q) == table \cap Matches[q.filter]

CountTotal(s) ==
  /\ s.at = "count"
  /\ Step(s, [s EXCEPT !.at = "rows", !.total = Cardinality(Found(s.q))])
  /\ UNCHANGED <<database, state, grid, toggles, tokenValid, bounds, history>>

VehicleFirst(q, l) == IF q.filter = Unfiltered /\ l \notin Vehicles THEN 1 ELSE 0
Precedes(q, l, m) ==
  CASE q.sort = "random" ->
         \/ VehicleFirst(q, l) < VehicleFirst(q, m)
         \/ VehicleFirst(q, l) = VehicleFirst(q, m) /\ Hash[q.seed][l] < Hash[q.seed][m]
    [] q.sort = "price_asc" -> Price[l] < Price[m]
    [] OTHER -> l > m

\* Lots of the same price come in any order, in each query anew.
Ordered(q) ==
  {o \in SetToSeqs(Found(q)) :
     \A i, j \in 1..Len(o) : i < j => ~Precedes(q, o[j], o[i])}

\* Mutation: the offset of a page is one row too small.
OverlappingOffset(q) == (q.page - 1) * (PageSize - 1)
Offset(q) == (q.page - 1) * PageSize

ReadRows(s) ==
  /\ s.at = "rows"
  /\ \E o \in Ordered(s.q) :
       LET last == IF Offset(s.q) + PageSize < Len(o) THEN Offset(s.q) + PageSize
                   ELSE Len(o) IN
       Step(s, [s EXCEPT !.at = "favourites",
                         !.items = SubSeq(o, Offset(s.q) + 1, last)])
  /\ UNCHANGED <<database, state, grid, toggles, tokenValid, bounds, history>>

\* get_current_user_optional: a token that had expired when the search came
\* made its reader a guest.
ReadFavourites(s) ==
  /\ s.at = "favourites"
  /\ Step(s, [s EXCEPT !.at = "answered",
                       !.hearts = IF s.reader THEN favs \cap Range(s.items) ELSE {}])
  /\ blurred' = IF s.reader THEN blurred ELSE blurred \cup {"guest"}
  /\ UNCHANGED <<database, state, grid, toggles, tokenValid, bounds, stale, seen>>

-----------------------------------------------------------------------------
(***************************************************************************)
(* The page renders what comes.                                            *)
(***************************************************************************)
Pages(total) == (total + PageSize - 1) \div PageSize
Newest(s) == s.number >= grid.number /\ \A r \in searches : s.number >= r.number
View0(q) == [q EXCEPT !.page = 1]

Rendered(s) ==
  /\ searches' = searches \ {s}
  /\ stale' = (stale \/ ~Newest(s))
  /\ UNCHANGED <<database, state, toggles, tokenValid, bounds, blurred>>

Answer(s) ==
  /\ s.at = "answered"
  /\ grid' = [show |-> IF s.items = <<>> THEN "empty" ELSE "items",
              number |-> s.number, q |-> s.q, items |-> s.items, hearts |-> s.hearts,
              pages |-> IF s.items = <<>> THEN 0 ELSE Pages(s.total)]
  /\ seen' = IF View0(s.q) # View0(state) THEN seen
             ELSE [p \in (DOMAIN seen) \cup {s.q.page} |->
                     IF p = s.q.page THEN Range(s.items) ELSE seen[p]]
  /\ Rendered(s)

SearchFails(s) ==
  /\ grid' = [Loading EXCEPT !.show = "error", !.number = s.number, !.q = s.q]
  /\ UNCHANGED seen
  /\ Rendered(s)

-----------------------------------------------------------------------------
(***************************************************************************)
(* Hearts.                                                                 *)
(***************************************************************************)
Toggled(hearts, l, next) == IF next THEN hearts \cup {l} ELSE hearts \ {l}

\* Mutation: the heart changes at the click, before the answer.
AtOnce(l, next) == [grid EXCEPT !.hearts = Toggled(@, l, next)]
AfterClick(l, next) == grid

\* The button is disabled until its request has ended; the card of a later
\* answer has a button of its own.
ClickHeart(l) ==
  /\ grid.show = "items" /\ l \in Range(grid.items) /\ MayHappen
  /\ \A t \in toggles : t.lot # l \/ t.card # grid.number
  /\ LET next == l \notin grid.hearts IN
       /\ toggles' = toggles \cup {[lot |-> l, card |-> grid.number, next |-> next,
                                    at |-> "check"]}
       /\ grid' = AfterClick(l, next)
  /\ clicks' = clicks + 1
  /\ tokenValid' = TRUE
  /\ UNCHANGED <<database, state, searches, moves, edits, history>>

Goes(t, at) == toggles' = (toggles \ {t}) \cup {[t EXCEPT !.at = at]}

\* The lot and the favourite are looked for: 404 for a lot that is gone and
\* for a favourite to remove that is not there, nothing to do for one to add
\* that is.
CheckToggle(t) ==
  /\ t.at = "check"
  /\ Goes(t, IF t.lot \notin table \/ (~t.next /\ t.lot \notin favs) THEN "refused"
             ELSE IF t.next /\ t.lot \in favs THEN "done" ELSE "commit")
  /\ UNCHANGED <<database, state, searches, grid, tokenValid, bounds, history>>

\* The unique and the foreign key answer an add that comes too late with 409.
CommitToggle(t) ==
  /\ t.at = "commit"
  /\ LET conflict == t.next /\ (t.lot \in favs \/ t.lot \notin table) IN
       /\ Goes(t, IF conflict THEN "refused" ELSE "done")
       /\ favs' = IF conflict THEN favs ELSE Toggled(favs, t.lot, t.next)
  /\ blurred' = IF searches # {} \/ t.card # grid.number
                THEN blurred \cup {"crossed"} ELSE blurred
  /\ UNCHANGED <<table, state, searches, grid, tokenValid, bounds, stale, seen>>

ToggleEnds(t) == t \in toggles /\ toggles' = toggles \ {t}

ToggleDone(t) ==
  /\ ToggleEnds(t) /\ t.at = "done"
  /\ grid' = IF t.card = grid.number /\ grid.show = "items"
             THEN [grid EXCEPT !.hearts = Toggled(@, t.lot, t.next)] ELSE grid
  /\ UNCHANGED <<database, state, searches, tokenValid, bounds, history>>

\* Refused, or failed before anything was done.
ToggleFails(t) ==
  /\ ToggleEnds(t) /\ t.at \in {"check", "refused"}
  /\ UNCHANGED <<database, state, searches, grid, tokenValid, bounds, history>>

ToggleAnswerLost(t) ==
  /\ ToggleEnds(t) /\ t.at = "done"
  /\ blurred' = blurred \cup {"lost"}
  /\ UNCHANGED <<database, state, searches, grid, tokenValid, bounds, stale, seen>>

-----------------------------------------------------------------------------
(***************************************************************************)
(* What happens elsewhere.                                                 *)
(***************************************************************************)
Elsewhere == MayHappen /\ edits' = edits + 1

OtherTabToggles(l) ==
  /\ Elsewhere /\ l \in table
  /\ favs' = IF l \in favs THEN favs \ {l} ELSE favs \cup {l}
  /\ blurred' = blurred \cup {"other tab"}
  /\ UNCHANGED <<table, state, searches, grid, toggles, tokenValid, moves, clicks,
                 stale, seen>>

\* A lot is ingested, or an administrator deletes one and with it its hearts.
TableChanges(l) ==
  /\ Elsewhere
  /\ table' = IF l \in table THEN table \ {l} ELSE table \cup {l}
  /\ favs' = favs \cap table'
  /\ blurred' = IF l \in favs THEN blurred \cup {"deleted"} ELSE blurred
  /\ UNCHANGED <<state, searches, grid, toggles, tokenValid, moves, clicks, stale, seen>>

\* The searches that carry the token and that the backend has not yet read the
\* token of come from a guest.
TokenExpires ==
  /\ Elsewhere /\ tokenValid /\ tokenValid' = FALSE
  /\ \E late \in SUBSET {s \in searches : s.at = "count"} :
       searches' = {IF s \in late THEN [s EXCEPT !.reader = FALSE] ELSE s : s \in searches}
  /\ UNCHANGED <<database, state, grid, toggles, moves, clicks, history>>

SiteNext ==
  \/ \E f \in Filters : ChangeFilter(f)
  \/ \E sort \in Sorts : ChangeSort(sort)
  \/ \E p \in 1..Cardinality(Lots) : GoToPage(p)
  \/ \E s \in searches : CountTotal(s) \/ ReadRows(s) \/ ReadFavourites(s) \/ Answer(s)
                           \/ SearchFails(s)
  \/ \E t \in toggles : CheckToggle(t) \/ CommitToggle(t) \/ ToggleDone(t)
                          \/ ToggleFails(t) \/ ToggleAnswerLost(t)
  \/ \E l \in Lots : ClickHeart(l) \/ OtherTabToggles(l) \/ TableChanges(l)
  \/ TokenExpires

SiteSpec == SiteInit /\ [][SiteNext]_siteVars

-----------------------------------------------------------------------------
\* Every variable keeps to its values.
SearchesOf == [number : Nat, q : View, reader : BOOLEAN,
               at : {"count", "rows", "favourites", "answered"},
               total : Nat, items : Seq(Lots), hearts : SUBSET Lots]
Grids == [show : {"loading", "items", "empty", "error"}, number : Nat, q : View,
          items : Seq(Lots), hearts : SUBSET Lots, pages : Nat]
TogglesOf == [lot : Lots, card : Nat, next : BOOLEAN,
              at : {"check", "commit", "refused", "done"}]
SiteTypeOK ==
  /\ table \in SUBSET Lots /\ favs \in SUBSET Lots
  /\ state \in View /\ searches \subseteq SearchesOf /\ grid \in Grids
  /\ toggles \subseteq TogglesOf /\ tokenValid \in BOOLEAN
  /\ moves \in Nat /\ clicks \in Nat /\ edits \in Nat /\ stale \in BOOLEAN
  /\ DOMAIN seen \subseteq Nat \ {0} /\ \A p \in DOMAIN seen : seen[p] \subseteq Lots

\* At rest the page shows what its filters, sort and page ask for, unless the
\* answer of an earlier search came after a later search had gone out.
GridAnswersState ==
  searches = {} /\ ~stale => grid.q = state

\* The pages of a shuffled view do not share a lot, and together they hold
\* every lot that matches, as long as the table stays as it is (by price,
\* lots of one price may show up on two pages and others on none).
PagesPartition ==
  state.sort = "random" /\ edits = 0 =>
    /\ \A p, r \in DOMAIN seen : p # r => seen[p] \cap seen[r] = {}
    /\ DOMAIN seen = 1..Pages(Cardinality(Found(state))) =>
         UNION {seen[p] : p \in DOMAIN seen} = Found(state)

\* "Nothing found" is said only when nothing matches: no control leads to a
\* page behind the last one, unless an overtaken answer has brought its page
\* buttons back, or the table changes.
NothingFoundIsTrue ==
  grid.show = "empty" /\ edits = 0 /\ ~stale => Found(grid.q) = {}

\* A heart tells whether the lot is a favourite, unless its answer was lost,
\* it was changed elsewhere, a search read the favourites while it was being
\* changed, or the search was answered as a guest's.
HeartTells ==
  blurred = {} /\ grid.show = "items" =>
    \A l \in Range(grid.items) :
      (\A t \in toggles : t.lot # l) => (l \in grid.hearts <=> l \in favs)

=============================================================================
