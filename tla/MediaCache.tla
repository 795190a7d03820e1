------------------------------ MODULE MediaCache ------------------------------
(***************************************************************************)
(* The cache of lot images on the backend's disk: a .bin and a .meta for   *)
(* the image itself and a .thumb.webp that nginx serves past the backend.  *)
(* It is filled by the background task of every ingested lot, by the walk  *)
(* over all lots after a start, and by whoever asks for an image that is   *)
(* not there.  The backend is one process: a task runs until it awaits, so *)
(* a store, once it has begun, is interrupted only by a crash or an error. *)
(* Lots may share an image.  What an image contains is abstracted to       *)
(* whether a thumbnail can be made of it.                                  *)
(***************************************************************************)
EXTENDS Integers, FiniteSets

CONSTANTS
  Urls,          \* images of allowed hosts
  Undecodable,   \* those no thumbnail can be made of
  MaxLots,       \* bound: lots ever inserted; ids grow
  Initial,       \* Initial[i]: the image of lot i in the table at the start
  BatchSize,     \* MEDIA_WARM_BATCH_SIZE
  MaxCrashes, MaxFails, MaxEdits   \* bounds: crashes; downloads, writes and
                                   \* queries that fail; lots changed or deleted

None == "none"

ASSUME MediaAssumption ==
  /\ Undecodable \subseteq Urls /\ None \notin Urls
  /\ MaxLots \in Nat /\ DOMAIN Initial \subseteq 1..MaxLots
  /\ \A l \in DOMAIN Initial : Initial[l] \in Urls
  /\ BatchSize \in Nat \ {0}
  /\ MaxCrashes \in Nat /\ MaxFails \in Nat /\ MaxEdits \in Nat

VARIABLES
  up,            \* does the backend run?
  table,         \* the image of each lot, None for a lot that is not there
  disk,          \* the files of each image
  unscheduled,   \* image of a lot that is committed and not yet scheduled
  jobs,          \* tasks and requests that wait for a slot or a download
  writing,       \* the store under way: its image and the next step of it
  warm,          \* the walk over all lots
  excused,       \* history: images a download, a write, a query or a deletion
                 \* during the walk has failed
  crashes, fails, edits   \* bound counters

vars == <<up, table, disk, unscheduled, jobs, writing, warm, excused,
          crashes, fails, edits>>

Ids == 1..MaxLots
Owners == {"ingest", "warm", "request"}
Content == {"absent", "part", "whole"}
Files == [bin : Content, meta : BOOLEAN, thumb : Content]
Job(owner, u, at) == [owner |-> owner, url |-> u, at |-> at]
Steps == {"tmp", "bin", "meta", "thumb.tmp", "thumb"}
NotWriting == [url |-> None, step |-> "tmp"]
Waiting == [at |-> "waiting", offset |-> 0, urls |-> {}]

TypeOK ==
  /\ up \in BOOLEAN /\ table \in [Ids -> Urls \cup {None}]
  /\ disk \in [Urls -> Files] /\ unscheduled \in Urls \cup {None}
  /\ jobs \subseteq [owner : Owners, url : Urls, at : {"queued", "download"}]
  /\ writing \in [url : Urls \cup {None}, step : Steps]
  /\ warm \in [at : {"waiting", "walk", "batch", "done"}, offset : Nat,
               urls : SUBSET Urls]
  /\ excused \subseteq Urls
  /\ crashes \in 0..MaxCrashes /\ fails \in 0..MaxFails /\ edits \in 0..MaxEdits

Init ==
  /\ up = TRUE
  /\ table = [l \in Ids |-> IF l \in DOMAIN Initial THEN Initial[l] ELSE None]
  /\ disk = [u \in Urls |-> [bin |-> "absent", meta |-> FALSE, thumb |-> "absent"]]
  /\ unscheduled = None /\ jobs = {} /\ writing = NotWriting /\ warm = Waiting
  /\ excused = {} /\ crashes = 0 /\ fails = 0 /\ edits = 0

Shown(u) == \E l \in Ids : table[l] = u

\* Mutation: the image alone is taken for a complete entry.
BinOnly(u) == disk[u].bin # "absent"
is_image_cached(u) == disk[u].bin # "absent" /\ disk[u].meta

HasThumb(u) == disk[u].thumb # "absent"
Readable(u) == disk[u].bin # "absent" /\ disk[u].meta

Running == up /\ writing = NotWriting
Fault == fails < MaxFails /\ fails' = fails + 1

-----------------------------------------------------------------------------
(***************************************************************************)
(* The store: both files are written under another name and moved into     *)
(* place one after the other, then the thumbnail, unless there is one.     *)
(***************************************************************************)
Store(u, step) == writing' = [url |-> u, step |-> step]

\* Mutation: the file is written where it is read.
InPlace(u) == [disk EXCEPT ![u].bin = "part"]
AfterTmp(u) == disk

MakesThumb(u) == ~HasThumb(u) /\ u \notin Undecodable

WriteStep ==
  LET u == writing.url IN
  /\ up /\ u # None
  /\ CASE writing.step = "tmp" -> disk' = AfterTmp(u) /\ Store(u, "bin")
       [] writing.step = "bin" ->
            disk' = [disk EXCEPT ![u].bin = "whole"] /\ Store(u, "meta")
       [] writing.step = "meta" ->
            /\ disk' = [disk EXCEPT ![u].meta = TRUE]
            /\ IF MakesThumb(u) THEN Store(u, "thumb.tmp") ELSE writing' = NotWriting
       [] writing.step = "thumb.tmp" -> UNCHANGED disk /\ Store(u, "thumb")
       [] writing.step = "thumb" ->
            disk' = [disk EXCEPT ![u].thumb = "whole"] /\ writing' = NotWriting
  /\ UNCHANGED <<up, table, unscheduled, jobs, warm, excused, crashes, fails, edits>>

\* The disk is full: the store is given up, what is in place stays.
WriteFails ==
  /\ up /\ writing.url # None /\ Fault
  /\ writing' = NotWriting /\ excused' = excused \cup {writing.url}
  /\ UNCHANGED <<up, table, disk, unscheduled, jobs, warm, crashes, edits>>

\* ensure_thumbnail of an image that is on the disk.
EnsureThumbnail(u) ==
  IF Readable(u) /\ MakesThumb(u) THEN Store(u, "thumb.tmp") ELSE UNCHANGED writing

-----------------------------------------------------------------------------
(***************************************************************************)
(* Tasks and requests.                                                     *)
(***************************************************************************)
Begin(j) ==
  /\ Running /\ j \in jobs /\ j.at = "queued"
  /\ IF is_image_cached(j.url)
       THEN jobs' = jobs \ {j} /\ EnsureThumbnail(j.url)
       ELSE /\ jobs' = (jobs \ {j}) \cup {[j EXCEPT !.at = "download"]}
            /\ UNCHANGED writing
  /\ UNCHANGED <<up, table, disk, unscheduled, warm, excused, crashes, fails, edits>>

Downloading(j) == Running /\ j \in jobs /\ j.at = "download" /\ jobs' = jobs \ {j}

Downloaded(j) ==
  /\ Downloading(j) /\ Store(j.url, "tmp")
  /\ UNCHANGED <<up, table, disk, unscheduled, warm, excused, crashes, fails, edits>>

\* A network error, or an answer that is not an image, too large or empty.
DownloadFails(j) ==
  /\ Downloading(j) /\ Fault /\ excused' = excused \cup {j.url}
  /\ UNCHANGED <<up, table, disk, unscheduled, writing, warm, crashes, edits>>

\* proxy_image: a viewer gets what is on the disk, or waits for the download.
Request(u) ==
  /\ Running /\ Shown(u) /\ ~HasThumb(u)
  /\ IF Readable(u)
       THEN EnsureThumbnail(u) /\ UNCHANGED jobs
       ELSE jobs' = jobs \cup {Job("request", u, "download")} /\ UNCHANGED writing
  /\ UNCHANGED <<up, table, disk, unscheduled, warm, excused, crashes, fails, edits>>

-----------------------------------------------------------------------------
(***************************************************************************)
(* Lots come and go.                                                       *)
(***************************************************************************)
\* A run takes one lot after the other: insert or update and commit, then the
\* images are scheduled.
IngestLot(l, u) ==
  /\ Running /\ unscheduled = None /\ edits < MaxEdits /\ edits' = edits + 1
  /\ \/ table[l] \notin {u, None}
     \/ table[l] = None /\ \A k \in Ids : k >= l => table[k] = None
  /\ table' = [table EXCEPT ![l] = u]
  /\ unscheduled' = u
  /\ UNCHANGED <<up, disk, jobs, writing, warm, excused, crashes, fails>>

Schedule ==
  /\ Running /\ unscheduled # None
  /\ jobs' = jobs \cup {Job("ingest", unscheduled, "queued")}
  /\ unscheduled' = None
  /\ UNCHANGED <<up, table, disk, writing, warm, excused, crashes, fails, edits>>

\* An administrator's: it moves the lots behind it to the front of the walk.
DeleteLot(l) ==
  /\ Running /\ table[l] # None /\ edits < MaxEdits /\ edits' = edits + 1
  /\ table' = [table EXCEPT ![l] = None]
  /\ excused' = IF warm.at \in {"walk", "batch"} THEN Urls ELSE excused
  /\ UNCHANGED <<up, disk, unscheduled, jobs, writing, warm, crashes, fails>>

-----------------------------------------------------------------------------
(***************************************************************************)
(* The walk, MEDIA_WARM_STARTUP_DELAY_SECONDS after the start.             *)
(***************************************************************************)
WarmStarts ==
  /\ Running /\ warm.at = "waiting" /\ warm' = [warm EXCEPT !.at = "walk"]
  /\ UNCHANGED <<up, table, disk, unscheduled, jobs, writing, excused, crashes,
                 fails, edits>>

Rank(l) == Cardinality({k \in Ids : k < l /\ table[k] # None})
Rows == {l \in Ids : table[l] # None /\ Rank(l) >= warm.offset
                                      /\ Rank(l) < warm.offset + BatchSize}

WarmBatch ==
  /\ Running /\ warm.at = "walk"
  /\ LET urls == {table[l] : l \in Rows} IN
       /\ warm' = [warm EXCEPT !.at = IF urls = {} THEN "done" ELSE "batch",
                               !.urls = urls]
       /\ jobs' = jobs \cup {Job("warm", u, "queued") : u \in urls}
  /\ UNCHANGED <<up, table, disk, unscheduled, writing, excused, crashes, fails, edits>>

\* All images of the batch are settled; the thumbnails some lack are made.
WarmBatchDone ==
  /\ Running /\ warm.at = "batch" /\ \A j \in jobs : j.owner # "warm"
  /\ LET without == {u \in warm.urls : is_image_cached(u) /\ Readable(u)
                                           /\ MakesThumb(u)} IN
       IF without # {}
         THEN (\E u \in without : Store(u, "thumb.tmp")) /\ UNCHANGED warm
         ELSE /\ warm' = [at |-> "walk", offset |-> warm.offset + BatchSize,
                          urls |-> {}]
              /\ UNCHANGED writing
  /\ UNCHANGED <<up, table, disk, unscheduled, jobs, excused, crashes, fails, edits>>

\* The query fails: the walk is over until the next start.
WarmFails ==
  /\ Running /\ warm.at = "walk" /\ Fault
  /\ warm' = [warm EXCEPT !.at = "done"] /\ excused' = Urls
  /\ UNCHANGED <<up, table, disk, unscheduled, jobs, writing, crashes, edits>>

-----------------------------------------------------------------------------
Crash ==
  /\ up /\ crashes < MaxCrashes /\ crashes' = crashes + 1
  /\ up' = FALSE /\ unscheduled' = None /\ jobs' = {} /\ writing' = NotWriting
  /\ warm' = Waiting
  /\ UNCHANGED <<table, disk, excused, fails, edits>>

Start == ~up /\ up' = TRUE /\ UNCHANGED <<table, disk, unscheduled, jobs, writing,
                                          warm, excused, crashes, fails, edits>>

Process ==
  \/ WriteStep \/ Schedule \/ WarmStarts \/ WarmBatch \/ WarmBatchDone
  \/ \E j \in jobs : Begin(j) \/ Downloaded(j)

Next ==
  \/ Process \/ Start \/ Crash \/ WriteFails \/ WarmFails
  \/ \E j \in jobs : DownloadFails(j)
  \/ \E u \in Urls : Request(u) \/ \E l \in Ids : IngestLot(l, u)
  \/ \E l \in Ids : DeleteLot(l)

Spec == Init /\ [][Next]_vars

\* The event loop runs what is ready, the site answers within the time-out,
\* and the container is restarted.
FairSpec == Spec /\ WF_vars(Process) /\ WF_vars(Start)

-----------------------------------------------------------------------------
\* What a viewer is given is complete: nginx may read a thumbnail at any
\* moment, the backend an entry whenever it is not writing one, also the entry
\* that a crash in the middle of a store has left behind.
ServedWhole ==
  \A u \in Urls : /\ disk[u].thumb # "part"
                  /\ writing = NotWriting /\ Readable(u) => disk[u].bin = "whole"

InCache(u) == Readable(u) /\ (u \in Undecodable \/ HasThumb(u))

\* The image of every lot ends up in the cache with its thumbnail, whatever the
\* crashes between the commit of the lot, the start of its task, the download
\* and the files of a store; unless a download, a write or the walk's query has
\* failed, or a lot was deleted during the walk.
EveryImageCached ==
  \A u \in Urls :
    Shown(u) ~> (~Shown(u) \/ InCache(u) \/ u \in excused)

=============================================================================
