-------------------------- MODULE MediaCache_proofs --------------------------
(***************************************************************************)
(* What MediaCache promises of the files on the disk, for any number of    *)
(* images, lots, tasks, crashes and failures.  The first invariant is the  *)
(* type of every variable with the fact that no file ever has its final    *)
(* name before it is whole.  The second, Kept, is about the lots: whose    *)
(* turn it is to bring the image of each into the cache.                   *)
(***************************************************************************)
EXTENDS MediaCache, FiniteSetTheorems, WellFoundedInduction, TLAPS

NoParts == \A u \in Urls : disk[u].bin # "part" /\ disk[u].thumb # "part"
IInv == TypeOK /\ NoParts

JobType == [owner : Owners, url : Urls, at : {"queued", "download"}]
WriteType == [url : Urls \cup {None}, step : Steps]

\* A store begins at a step of the list with an image.
LEMMA StoreType ==
  ASSUME NEW u \in Urls, NEW step \in Steps, Store(u, step)
  PROVE  writing' \in WriteType
BY DEF Store, WriteType

LEMMA EnsureType ==
  ASSUME TypeOK, NEW u \in Urls, EnsureThumbnail(u)
  PROVE  writing' \in WriteType
<1>1. CASE Readable(u) /\ MakesThumb(u)
  BY <1>1, StoreType DEF EnsureThumbnail, Steps
<1>2. CASE ~(Readable(u) /\ MakesThumb(u))
  BY <1>2 DEF EnsureThumbnail, TypeOK, WriteType
<1>3. QED
  BY <1>1, <1>2

\* Tasks come and go without leaving their type.
LEMMA JobTypes ==
  ASSUME TypeOK
  PROVE  /\ \A j \in jobs : j \in JobType /\ j.url \in Urls
         /\ \A j \in jobs : [j EXCEPT !.at = "download"] \in JobType
         /\ \A o \in Owners, u \in Urls, at \in {"queued", "download"} :
              Job(o, u, at) \in JobType
BY DEF TypeOK, JobType, Job

\* A step that leaves the disk and what is written alone keeps IInv as soon as
\* the other variables keep their types.
LEMMA FilesUntouched ==
  ASSUME IInv, UNCHANGED disk, TypeOK'
  PROVE  IInv'
BY DEF IInv, NoParts

LEMMA InitIInv == ASSUME Init PROVE IInv
<1>1. table \in [Ids -> Urls \cup {None}]
  BY Init, MediaAssumption DEF Init
<1>2. disk \in [Urls -> Files] /\ NoParts
  BY Init DEF Init, NoParts, Files, Content
<1>3. writing \in WriteType
  BY Init DEF Init, NotWriting, WriteType, Steps
<1>4. QED
  BY Init, <1>1, <1>2, <1>3, MediaAssumption DEF IInv, Init, TypeOK, WriteType, Waiting

-----------------------------------------------------------------------------
\* The files.
LEMMA WriteKeepsIInv == ASSUME IInv, WriteStep PROVE IInv'
<1> DEFINE u == writing.url
<1>1. u \in Urls /\ writing \in WriteType
  BY DEF WriteStep, IInv, TypeOK, WriteType
<1>2. disk \in [Urls -> Files] /\ disk[u] \in Files
  BY <1>1 DEF IInv, TypeOK
<1>3. [disk[u] EXCEPT !.bin = "whole"] \in Files /\ [disk[u] EXCEPT !.meta = TRUE] \in Files
        /\ [disk[u] EXCEPT !.thumb = "whole"] \in Files
  BY <1>2 DEF Files, Content
<1>4. NotWriting \in WriteType /\ \A step \in Steps : [url |-> u, step |-> step] \in WriteType
  BY <1>1 DEF NotWriting, WriteType, Steps
<1>5. \/ disk' = disk
      \/ disk' = [disk EXCEPT ![u].bin = "whole"]
      \/ disk' = [disk EXCEPT ![u].meta = TRUE]
      \/ disk' = [disk EXCEPT ![u].thumb = "whole"]
  BY <1>1, Zenon DEF WriteStep, AfterTmp, WriteType, Steps
<1>6. \/ writing' = NotWriting
      \/ \E step \in Steps : writing' = [url |-> u, step |-> step]
  BY <1>1, Zenon DEF WriteStep, Store, WriteType, Steps
<1>7. writing' \in WriteType
  BY <1>4, <1>6
<1>8. disk' \in [Urls -> Files] /\ NoParts'
  <2>1. CASE disk' = disk
    BY <1>2, <2>1 DEF IInv, NoParts
  <2>2. CASE disk' = [disk EXCEPT ![u].bin = "whole"]
    BY <1>1, <1>2, <1>3, <2>2 DEF IInv, NoParts, Files
  <2>3. CASE disk' = [disk EXCEPT ![u].meta = TRUE]
    BY <1>1, <1>2, <1>3, <2>3 DEF IInv, NoParts, Files
  <2>4. CASE disk' = [disk EXCEPT ![u].thumb = "whole"]
    BY <1>1, <1>2, <1>3, <2>4 DEF IInv, NoParts, Files
  <2>5. QED
    BY <1>5, <2>1, <2>2, <2>3, <2>4
<1>9. QED
  BY <1>7, <1>8 DEF WriteStep, IInv, TypeOK, WriteType

-----------------------------------------------------------------------------
\* Tasks and requests leave the disk alone.
LEMMA TasksKeepIInv ==
  ASSUME IInv,
         \/ \E j \in jobs : Begin(j) \/ Downloaded(j) \/ DownloadFails(j)
         \/ \E u \in Urls : Request(u)
         \/ Schedule
  PROVE  IInv'
<1>1. TypeOK
  BY DEF IInv
<1>2. ASSUME NEW j \in jobs, Begin(j) PROVE IInv'
  <2>1. j \in JobType /\ j.url \in Urls /\ [j EXCEPT !.at = "download"] \in JobType
    BY <1>1, JobTypes
  <2>2. jobs' \subseteq JobType
    <3>1. jobs \subseteq JobType
      BY <1>1 DEF TypeOK, JobType
    <3>2. \/ jobs' = jobs \ {j}
          \/ jobs' = (jobs \ {j}) \cup {[j EXCEPT !.at = "download"]}
      BY <1>2, Zenon DEF Begin
    <3>3. QED
      BY <2>1, <3>1, <3>2, Zenon
  <2>3. writing' \in WriteType
    <3>1. CASE is_image_cached(j.url)
      BY <1>1, <1>2, <2>1, <3>1, EnsureType DEF Begin
    <3>2. CASE ~is_image_cached(j.url)
      BY <1>1, <1>2, <3>2 DEF Begin, TypeOK, WriteType
    <3>3. QED
      BY <3>1, <3>2
  <2>4. TypeOK'
    BY <1>1, <1>2, <2>2, <2>3 DEF Begin, TypeOK, JobType, WriteType
  <2>5. QED
    BY <1>2, <2>4, FilesUntouched DEF Begin
<1>3. ASSUME NEW j \in jobs, Downloaded(j) PROVE IInv'
  <2>1. writing' \in WriteType
    BY <1>1, <1>3, JobTypes, StoreType DEF Downloaded, Steps
  <2>2. TypeOK'
    BY <1>1, <1>3, <2>1 DEF Downloaded, Downloading, TypeOK, WriteType
  <2>3. QED
    BY <1>3, <2>2, FilesUntouched DEF Downloaded
<1>4. ASSUME NEW j \in jobs, DownloadFails(j) PROVE IInv'
  <2>1. fails' \in 0..MaxFails
    BY <1>1, <1>4, MediaAssumption DEF DownloadFails, Fault, TypeOK
  <2>2. TypeOK'
    BY <1>1, <1>4, <2>1, JobTypes DEF DownloadFails, Downloading, TypeOK
  <2>3. QED
    BY <1>4, <2>2, FilesUntouched DEF DownloadFails
<1>5. ASSUME NEW u \in Urls, Request(u) PROVE IInv'
  <2>1. jobs' \subseteq JobType
    <3>1. Job("request", u, "download") \in JobType
      BY <1>1, JobTypes DEF Owners
    <3>2. jobs \subseteq JobType
      BY <1>1 DEF TypeOK, JobType
    <3>3. QED
      BY <1>5, <3>1, <3>2, Zenon DEF Request
  <2>2. writing' \in WriteType
    <3>1. CASE Readable(u)
      BY <1>1, <1>5, <3>1, EnsureType DEF Request
    <3>2. CASE ~Readable(u)
      BY <1>1, <1>5, <3>2 DEF Request, TypeOK, WriteType
    <3>3. QED
      BY <3>1, <3>2
  <2>3. TypeOK'
    BY <1>1, <1>5, <2>1, <2>2 DEF Request, TypeOK, JobType, WriteType
  <2>4. QED
    BY <1>5, <2>3, FilesUntouched DEF Request
<1>6. CASE Schedule
  <2>1. unscheduled \in Urls
    BY <1>1, <1>6 DEF Schedule, TypeOK
  <2>2. Job("ingest", unscheduled, "queued") \in JobType
    BY <1>1, <2>1, JobTypes DEF Owners
  <2>3. TypeOK'
    BY <1>1, <1>6, <2>2 DEF Schedule, TypeOK, JobType
  <2>4. QED
    BY <1>6, <2>3, FilesUntouched DEF Schedule
<1>7. QED
  BY <1>2, <1>3, <1>4, <1>5, <1>6

-----------------------------------------------------------------------------
\* The walk.
LEMMA WalkKeepsIInv ==
  ASSUME IInv, WarmStarts \/ WarmBatch \/ WarmBatchDone \/ WarmFails
  PROVE  IInv'
<1>1. TypeOK
  BY DEF IInv
<1> DEFINE WarmType == [at : {"waiting", "walk", "batch", "done"}, offset : Nat,
                        urls : SUBSET Urls]
<1>2. CASE WarmStarts
  <2>1. warm' \in WarmType
    BY <1>1, <1>2 DEF WarmStarts, TypeOK
  <2>2. TypeOK'
    BY <1>1, <1>2, <2>1 DEF WarmStarts, TypeOK
  <2>3. QED
    BY <1>2, <2>2, FilesUntouched DEF WarmStarts
<1>3. CASE WarmBatch
  <2> DEFINE urls == {table[l] : l \in Rows}
  <2>1. urls \subseteq Urls
    BY <1>1 DEF Rows, TypeOK
  <2>2. warm' \in WarmType
    BY <1>1, <1>3, <2>1 DEF WarmBatch, TypeOK
  <2>3. jobs' \subseteq JobType
    <3>1. {Job("warm", u, "queued") : u \in urls} \subseteq JobType
      BY <1>1, <2>1, JobTypes DEF Owners
    <3>2. jobs' = jobs \cup {Job("warm", u, "queued") : u \in urls}
      BY <1>3 DEF WarmBatch
    <3>3. QED
      BY <1>1, <3>1, <3>2 DEF TypeOK, JobType
  <2>4. TypeOK'
    BY <1>1, <1>3, <2>2, <2>3 DEF WarmBatch, TypeOK, JobType
  <2>5. QED
    BY <1>3, <2>4, FilesUntouched DEF WarmBatch
<1>4. CASE WarmBatchDone
  <2>1. warm' \in WarmType /\ writing' \in WriteType
    <3> DEFINE without == {u \in warm.urls : is_image_cached(u) /\ Readable(u)
                                               /\ MakesThumb(u)}
    <3>1. CASE without # {}
      <4>1. PICK u \in without : Store(u, "thumb.tmp")
        BY <1>4, <3>1 DEF WarmBatchDone
      <4>2. u \in Urls /\ UNCHANGED warm
        BY <1>1, <1>4, <3>1, <4>1 DEF WarmBatchDone, TypeOK
      <4>3. QED
        BY <1>1, <4>1, <4>2, StoreType DEF Steps, TypeOK
    <3>2. CASE without = {}
      <4>1. /\ warm' = [at |-> "walk", offset |-> warm.offset + BatchSize, urls |-> {}]
            /\ UNCHANGED writing
        BY <1>4, <3>2 DEF WarmBatchDone
      <4>2. warm.offset + BatchSize \in Nat
        BY <1>1, MediaAssumption DEF TypeOK
      <4>3. QED
        BY <1>1, <4>1, <4>2 DEF TypeOK, WriteType
    <3>3. QED
      BY <3>1, <3>2
  <2>2. TypeOK'
    BY <1>1, <1>4, <2>1 DEF WarmBatchDone, TypeOK, WriteType
  <2>3. QED
    BY <1>4, <2>2, FilesUntouched DEF WarmBatchDone
<1>5. CASE WarmFails
  <2>1. fails' \in 0..MaxFails
    BY <1>1, <1>5, MediaAssumption DEF WarmFails, Fault, TypeOK
  <2>2. warm' \in WarmType
    BY <1>1, <1>5 DEF WarmFails, TypeOK
  <2>3. TypeOK'
    BY <1>1, <1>5, <2>1, <2>2 DEF WarmFails, TypeOK
  <2>4. QED
    BY <1>5, <2>3, FilesUntouched DEF WarmFails
<1>6. QED
  BY <1>2, <1>3, <1>4, <1>5

-----------------------------------------------------------------------------
\* Lots, crashes and starts.
LEMMA RestKeepsIInv ==
  ASSUME IInv,
         \/ Start \/ Crash \/ WriteFails
         \/ \E l \in Ids : DeleteLot(l) \/ \E u \in Urls : IngestLot(l, u)
  PROVE  IInv'
<1>1. TypeOK
  BY DEF IInv
<1>2. NotWriting \in WriteType
  BY DEF NotWriting, WriteType, Steps
<1>3. CASE Start
  <2>1. TypeOK'
    BY <1>1, <1>3 DEF Start, TypeOK
  <2>2. QED
    BY <1>3, <2>1, FilesUntouched DEF Start
<1>4. CASE Crash
  <2>1. crashes' \in 0..MaxCrashes
    BY <1>1, <1>4, MediaAssumption DEF Crash, TypeOK
  <2>2. TypeOK'
    BY <1>1, <1>2, <1>4, <2>1 DEF Crash, TypeOK, WriteType, Waiting
  <2>3. QED
    BY <1>4, <2>2, FilesUntouched DEF Crash
<1>5. CASE WriteFails
  <2>1. fails' \in 0..MaxFails
    BY <1>1, <1>5, MediaAssumption DEF WriteFails, Fault, TypeOK
  <2>2. excused' \subseteq Urls
    <3>1. writing.url \in Urls
      BY <1>1, <1>5 DEF WriteFails, TypeOK
    <3>2. QED
      BY <1>1, <1>5, <3>1 DEF WriteFails, TypeOK
  <2>3. TypeOK'
    BY <1>1, <1>2, <1>5, <2>1, <2>2 DEF WriteFails, TypeOK, WriteType
  <2>4. QED
    BY <1>5, <2>3, FilesUntouched DEF WriteFails
<1>6. ASSUME NEW l \in Ids, DeleteLot(l) PROVE IInv'
  <2>1. edits' \in 0..MaxEdits
    BY <1>1, <1>6, MediaAssumption DEF DeleteLot, TypeOK
  <2>2. TypeOK'
    BY <1>1, <1>6, <2>1 DEF DeleteLot, TypeOK
  <2>3. QED
    BY <1>6, <2>2, FilesUntouched DEF DeleteLot
<1>7. ASSUME NEW l \in Ids, NEW u \in Urls, IngestLot(l, u) PROVE IInv'
  <2>1. edits' \in 0..MaxEdits
    BY <1>1, <1>7, MediaAssumption DEF IngestLot, TypeOK
  <2>2. TypeOK'
    BY <1>1, <1>7, <2>1 DEF IngestLot, TypeOK
  <2>3. QED
    BY <1>7, <2>2, FilesUntouched DEF IngestLot
<1>8. QED
  BY <1>3, <1>4, <1>5, <1>6, <1>7

LEMMA NextIInv == ASSUME IInv, [Next]_vars PROVE IInv'
<1>1. CASE UNCHANGED vars
  BY <1>1 DEF vars, IInv, TypeOK, NoParts
<1>2. CASE Next
  BY <1>2, WriteKeepsIInv, TasksKeepIInv, WalkKeepsIInv, RestKeepsIInv DEF Next, Process
<1>3. QED
  BY <1>1, <1>2

LEMMA AlwaysIInv == Spec => []IInv
<1>1. Init => IInv
  BY InitIInv
<1>2. IInv /\ [Next]_vars => IInv'
  BY NextIInv
<1>3. QED
  BY <1>1, <1>2, PTL DEF Spec

-----------------------------------------------------------------------------
\* Every variable of the cache keeps to its values.
THEOREM TypeCorrect == Spec => []TypeOK
<1>1. IInv => TypeOK
  BY DEF IInv
<1>2. QED
  BY <1>1, AlwaysIInv, PTL

\* Whatever stores, crashes, full disks, deletions and walks do to each other,
\* neither nginx nor the backend ever serves half an image: _write_cache and
\* ensure_thumbnail only move whole files into place.
THEOREM ImagesAreWhole == Spec => []ServedWhole
<1>1. IInv => ServedWhole
  <2>1. SUFFICES ASSUME IInv, NEW u \in Urls
                 PROVE  /\ disk[u].thumb # "part"
                        /\ Readable(u) => disk[u].bin = "whole"
    BY DEF ServedWhole
  <2>2. disk[u] \in Files
    BY <2>1 DEF IInv, TypeOK
  <2>3. QED
    BY <2>1, <2>2 DEF IInv, NoParts, Readable, Files, Content
<1>2. QED
  BY <1>1, AlwaysIInv, PTL

-----------------------------------------------------------------------------
(***************************************************************************)
(* No lot's image is forgotten: the safety half of EveryImageCached.       *)
(***************************************************************************)
\* Somebody is about to fetch or to store the image.
Busy(u) == writing.url = u \/ unscheduled = u \/ \E j \in jobs : j.url = u
Handled(u) == InCache(u) \/ u \in excused \/ Busy(u)

\* The walk is still to come to the lot, or is at it.
Ahead(l) ==
  \/ warm.at = "waiting"
  \/ warm.at = "walk" /\ Rank(l) >= warm.offset
  \/ /\ warm.at = "batch"
     /\ table[l] \in warm.urls \/ Rank(l) >= warm.offset + BatchSize

NothingForgotten ==
  up => \A l \in Ids : table[l] # None => Handled(table[l]) \/ Ahead(l)

\* What has become of the images of the batch.
Held(u) ==
  \/ Readable(u) \/ u \in excused \/ writing.url = u
  \/ \E j \in jobs : j.url = u /\ j.owner = "warm"
InBatch == \A u \in warm.urls : warm.at = "batch" /\ Held(u)

\* What a store has on the disk already.
Written ==
  writing.url # None =>
    /\ up
    /\ writing.step = "meta" => disk[writing.url].bin # "absent"
    /\ writing.step \in {"thumb.tmp", "thumb"} => Readable(writing.url)

\* Without a process nothing is under way; a walk begins with the first lot.
AtRest == (warm.at = "waiting" \/ ~up) => warm = Waiting

Kept == IInv /\ Written /\ AtRest /\ InBatch /\ NothingForgotten

-----------------------------------------------------------------------------
\* As long as the lots, the walk and the process stay, it is enough that no
\* image gets lost.
LEMMA Carried ==
  ASSUME TypeOK, InBatch, NothingForgotten, up, table' = table, warm' = warm,
         \A u \in Urls : Handled(u) => Handled(u)',
         \A u \in Urls : Held(u) => Held(u)'
  PROVE  InBatch' /\ NothingForgotten'
<1>1. InBatch'
  BY DEF InBatch, TypeOK
<1>2. \A l \in Ids : Ahead(l)' <=> Ahead(l)
  BY DEF Ahead, Rank
<1>3. NothingForgotten'
  BY <1>2 DEF NothingForgotten, TypeOK
<1> QED
  BY <1>1, <1>3

\* A store ends with a whole entry, and takes nothing from the disk.
LEMMA StoreGoesOn ==
  ASSUME IInv, Written, WriteStep
  PROVE  /\ Written' /\ up'
         /\ \A u \in Urls : (Readable(u) => Readable(u)') /\ (InCache(u) => InCache(u)')
         /\ \A u \in Urls : writing.url = u =>
              writing'.url = u \/ (writing' = NotWriting /\ InCache(u)')
<1>0. PICK u : u = writing.url
  OBVIOUS
<1> USE <1>0
<1>1. /\ u \in Urls /\ up /\ up' /\ writing.step \in Steps
      /\ disk \in [Urls -> Files] /\ None \notin Urls
  BY MediaAssumption DEF WriteStep, IInv, TypeOK
<1>2. CASE writing.step = "tmp"
  <2>1. disk' = disk /\ writing' = [url |-> u, step |-> "bin"]
    BY <1>2 DEF WriteStep, AfterTmp, Store
  <2> QED
    BY <1>1, <2>1 DEF Written, Readable, InCache, HasThumb
<1>3. CASE writing.step = "bin"
  <2>1. disk' = [disk EXCEPT ![u].bin = "whole"] /\ writing' = [url |-> u, step |-> "meta"]
    BY <1>3 DEF WriteStep, Store
  <2> QED
    BY <1>1, <2>1 DEF Written, Readable, InCache, HasThumb, Files, Content
<1>4. CASE writing.step = "meta"
  <2>1. /\ disk' = [disk EXCEPT ![u].meta = TRUE] /\ disk[u].bin # "absent"
        /\ IF MakesThumb(u) THEN writing' = [url |-> u, step |-> "thumb.tmp"]
                            ELSE writing' = NotWriting
    BY <1>1, <1>4 DEF WriteStep, Store, Written
  <2>2. Readable(u)'
    BY <1>1, <2>1 DEF Readable, Files, Content
  <2>3. \A v \in Urls : (Readable(v) => Readable(v)') /\ (HasThumb(v)' <=> HasThumb(v))
    BY <1>1, <2>1 DEF Readable, HasThumb, Files, Content
  <2>4. ~MakesThumb(u) => InCache(u)'
    BY <1>1, <2>2, <2>3 DEF MakesThumb, InCache
  <2>5. Written'
    BY <1>1, <2>1, <2>2 DEF Written, NotWriting
  <2> QED
    BY <1>1, <2>1, <2>3, <2>4, <2>5 DEF InCache
<1>5. CASE writing.step = "thumb.tmp"
  <2>1. disk' = disk /\ writing' = [url |-> u, step |-> "thumb"] /\ Readable(u)
    BY <1>1, <1>5 DEF WriteStep, Store, Written
  <2> QED
    BY <1>1, <2>1 DEF Written, Readable, InCache, HasThumb
<1>6. CASE writing.step = "thumb"
  <2>1. disk' = [disk EXCEPT ![u].thumb = "whole"] /\ writing' = NotWriting /\ Readable(u)
    BY <1>1, <1>6 DEF WriteStep, Written
  <2>2. /\ \A v \in Urls : (Readable(v) => Readable(v)') /\ (HasThumb(v) => HasThumb(v)')
        /\ HasThumb(u)'
    BY <1>1, <2>1 DEF Readable, HasThumb, Files, Content
  <2>3. Written'
    BY <2>1 DEF Written, NotWriting
  <2> QED
    BY <1>1, <2>1, <2>2, <2>3 DEF InCache
<1> QED
  BY <1>1, <1>2, <1>3, <1>4, <1>5, <1>6 DEF Steps

LEMMA WriteKeeps == ASSUME Kept, WriteStep PROVE Written' /\ InBatch' /\ NothingForgotten'
<1>1. /\ Written' /\ up' /\ up
      /\ \A u \in Urls : (Readable(u) => Readable(u)') /\ (InCache(u) => InCache(u)')
      /\ \A u \in Urls : writing.url = u =>
           writing'.url = u \/ (writing' = NotWriting /\ InCache(u)')
  BY StoreGoesOn DEF Kept, WriteStep
<1>2. UNCHANGED <<table, unscheduled, jobs, warm, excused>>
  BY DEF WriteStep
<1>3. \A u \in Urls : Handled(u) => Handled(u)'
  BY <1>1, <1>2 DEF Handled, Busy
<1>4. \A u \in Urls : InCache(u)' => Readable(u)'
  BY DEF InCache
<1>5. \A u \in Urls : Held(u) => Held(u)'
  BY <1>1, <1>2, <1>4 DEF Held
<1> QED
  BY <1>1, <1>2, <1>3, <1>5, Carried DEF Kept, IInv

\* A thumbnail is begun, or there is nothing left to make.
LEMMA Ensured ==
  ASSUME TypeOK, NEW u \in Urls, Readable(u), writing = NotWriting, EnsureThumbnail(u),
         disk' = disk, up' = up, up
  PROVE  /\ Written'
         /\ writing'.url = u \/ (writing' = writing /\ InCache(u)')
<1>1. InCache(u)' <=> InCache(u)
  BY DEF InCache, Readable, HasThumb
<1>2. CASE MakesThumb(u)
  <2>1. writing' = [url |-> u, step |-> "thumb.tmp"]
    BY <1>2 DEF EnsureThumbnail, Store
  <2> QED
    BY <2>1 DEF Written, Readable
<1>3. CASE ~MakesThumb(u)
  <2>1. writing' = writing /\ InCache(u)
    BY <1>3 DEF EnsureThumbnail, MakesThumb, InCache
  <2> QED
    BY <1>1, <2>1 DEF Written, NotWriting
<1> QED
  BY <1>2, <1>3

\* Steps that leave the disk, and what they may do to jobs and stores.
LEMMA TasksCarry ==
  ASSUME Kept, up, up', disk' = disk, table' = table, warm' = warm, Written',
         excused \subseteq excused',
         \A u \in Urls : writing.url = u => writing'.url = u \/ u \in excused',
         \A u \in Urls : unscheduled = u => unscheduled' = u \/ \E j \in jobs' : j.url = u,
         \A j \in jobs : \/ \E i \in jobs' : i.url = j.url /\ i.owner = j.owner
                         \/ writing'.url = j.url \/ InCache(j.url)' \/ j.url \in excused'
  PROVE  Written' /\ InBatch' /\ NothingForgotten'
<1>1. \A u \in Urls : (InCache(u)' <=> InCache(u)) /\ (Readable(u)' <=> Readable(u))
  BY DEF InCache, Readable, HasThumb
<1>2. \A u \in Urls : Handled(u) => Handled(u)'
  BY <1>1 DEF Handled, Busy
<1>3. \A u \in Urls : InCache(u)' => Readable(u)'
  BY DEF InCache
<1>4. \A u \in Urls : Held(u) => Held(u)'
  BY <1>1, <1>3 DEF Held
<1> QED
  BY <1>2, <1>4, Carried DEF Kept, IInv

LEMMA BeginKeeps ==
  ASSUME Kept, NEW j \in jobs, Begin(j)
  PROVE  Written' /\ InBatch' /\ NothingForgotten'
<1>1. /\ up /\ up' /\ writing = NotWriting /\ j.url \in Urls /\ jobs \subseteq JobType
      /\ UNCHANGED <<disk, table, unscheduled, warm, excused>> /\ TypeOK /\ None \notin Urls
  BY MediaAssumption DEF Begin, Running, Kept, IInv, TypeOK, JobType
<1>2. CASE is_image_cached(j.url)
  <2>1. jobs' = jobs \ {j} /\ EnsureThumbnail(j.url) /\ Readable(j.url)
    BY <1>2 DEF Begin, is_image_cached, Readable
  <2>2. Written' /\ (writing'.url = j.url \/ (writing' = writing /\ InCache(j.url)'))
    BY <1>1, <2>1, Ensured
  <2> QED
    BY <1>1, <2>1, <2>2, TasksCarry DEF NotWriting
<1>3. CASE ~is_image_cached(j.url)
  <2>1. jobs' = (jobs \ {j}) \cup {[j EXCEPT !.at = "download"]} /\ writing' = writing
    BY <1>3 DEF Begin
  <2>2. [j EXCEPT !.at = "download"].url = j.url /\ [j EXCEPT !.at = "download"].owner = j.owner
    BY <1>1 DEF JobType
  <2>3. Written'
    BY <1>1, <2>1 DEF Written, NotWriting
  <2> QED
    BY <1>1, <2>1, <2>2, <2>3, TasksCarry
<1> QED
  BY <1>2, <1>3

LEMMA DownloadKeeps ==
  ASSUME Kept, NEW j \in jobs, Downloaded(j) \/ DownloadFails(j)
  PROVE  Written' /\ InBatch' /\ NothingForgotten'
<1>1. /\ up /\ up' /\ writing = NotWriting /\ jobs' = jobs \ {j} /\ None \notin Urls
      /\ UNCHANGED <<disk, table, unscheduled, warm>>
  BY MediaAssumption DEF Downloaded, DownloadFails, Downloading, Running
<1>2. CASE Downloaded(j)
  <2>1. writing' = [url |-> j.url, step |-> "tmp"] /\ excused' = excused
    BY <1>2 DEF Downloaded, Store
  <2>2. Written'
    BY <1>1, <2>1 DEF Written
  <2> QED
    BY <1>1, <2>1, <2>2, TasksCarry DEF NotWriting
<1>3. CASE DownloadFails(j)
  <2>1. writing' = writing /\ excused' = excused \cup {j.url}
    BY <1>3 DEF DownloadFails
  <2>2. Written'
    BY <1>1, <2>1 DEF Written, NotWriting
  <2> QED
    BY <1>1, <2>1, <2>2, TasksCarry
<1> QED
  BY <1>2, <1>3

LEMMA RequestKeeps ==
  ASSUME Kept, NEW u \in Urls, Request(u)
  PROVE  Written' /\ InBatch' /\ NothingForgotten'
<1>1. /\ up /\ up' /\ writing = NotWriting /\ None \notin Urls /\ TypeOK
      /\ UNCHANGED <<disk, table, unscheduled, warm, excused>>
  BY MediaAssumption DEF Request, Running, Kept, IInv
<1>2. CASE Readable(u)
  <2>1. EnsureThumbnail(u) /\ jobs' = jobs
    BY <1>2 DEF Request
  <2>2. Written'
    BY <1>1, <1>2, <2>1, Ensured
  <2> QED
    BY <1>1, <2>1, <2>2, TasksCarry DEF NotWriting
<1>3. CASE ~Readable(u)
  <2>1. jobs \subseteq jobs' /\ writing' = writing
    BY <1>3 DEF Request
  <2>2. Written'
    BY <1>1, <2>1 DEF Written, NotWriting
  <2> QED
    BY <1>1, <2>1, <2>2, TasksCarry
<1> QED
  BY <1>2, <1>3

LEMMA ScheduleKeeps == ASSUME Kept, Schedule PROVE Written' /\ InBatch' /\ NothingForgotten'
<1>1. /\ up /\ up' /\ writing = NotWriting /\ writing' = writing
      /\ UNCHANGED <<disk, table, warm, excused>>
      /\ jobs' = jobs \cup {Job("ingest", unscheduled, "queued")}
  BY DEF Schedule, Running
<1>2. Job("ingest", unscheduled, "queued").url = unscheduled
  BY DEF Job
<1>3. Written'
  BY <1>1 DEF Written, NotWriting
<1> QED
  BY <1>1, <1>2, <1>3, TasksCarry

LEMMA WriteFailsKeeps ==
  ASSUME Kept, WriteFails
  PROVE  Written' /\ InBatch' /\ NothingForgotten'
<1>1. /\ up /\ up' /\ writing' = NotWriting /\ excused' = excused \cup {writing.url}
      /\ UNCHANGED <<disk, table, unscheduled, jobs, warm>>
  BY DEF WriteFails
<1>2. Written'
  BY <1>1 DEF Written, NotWriting
<1> QED
  BY <1>1, <1>2, TasksCarry

-----------------------------------------------------------------------------
\* Nothing is forgotten when every lot that is there is handled or ahead.
LEMMA AllLots ==
  ASSUME TypeOK',
         \A k \in Ids : \A v \in Urls : table'[k] = v => Handled(v)' \/ Ahead(k)'
  PROVE  NothingForgotten'
<1> SUFFICES ASSUME NEW k \in Ids, table'[k] # None PROVE (Handled(table[k]) \/ Ahead(k))'
  BY DEF NothingForgotten
<1>1. PICK v \in Urls : v = table'[k]
  BY DEF TypeOK
<1>2. Handled(v)' \/ Ahead(k)'
  BY <1>1
<1>3. Handled(v)' => Handled(table[k])'
  BY <1>1 DEF Handled, Busy, InCache, Readable, HasThumb
<1> QED
  BY <1>2, <1>3

\* A new lot comes behind the others, a new image of a lot changes no order:
\* the walk is where it was.
LEMMA IngestKeeps ==
  ASSUME Kept, TypeOK', NEW l \in Ids, NEW u \in Urls, IngestLot(l, u)
  PROVE  Written' /\ InBatch' /\ NothingForgotten'
<1>1. /\ up /\ up' /\ writing = NotWriting /\ writing' = writing /\ None \notin Urls
      /\ UNCHANGED <<disk, jobs, warm, excused>> /\ unscheduled = None /\ unscheduled' = u
      /\ table' = [table EXCEPT ![l] = u] /\ table \in [Ids -> Urls \cup {None}]
      /\ table[l] # None \/ \A k \in Ids : k >= l => table[k] = None
  BY MediaAssumption DEF IngestLot, Running, Kept, IInv, TypeOK
<1>2. Written'
  BY <1>1 DEF Written, NotWriting
<1>3. InBatch'
  BY <1>1 DEF Kept, InBatch, Held, Readable
<1>4. ASSUME NEW k \in Ids, k # l, table[k] # None PROVE Rank(k)' = Rank(k)
  <2>1. l < k => table[l] # None
    BY <1>1, <1>4 DEF Ids
  <2>2. {i \in Ids : i < k /\ table'[i] # None} = {i \in Ids : i < k /\ table[i] # None}
    BY <1>1, <2>1
  <2> QED
    BY <2>2 DEF Rank
<1>5. \A v \in Urls : Handled(v) => Handled(v)'
  BY <1>1 DEF Handled, Busy, InCache, Readable, HasThumb
<1>6. Handled(u)'
  BY <1>1 DEF Handled, Busy
<1>7. ASSUME NEW k \in Ids, NEW v \in Urls, table'[k] = v PROVE Handled(v)' \/ Ahead(k)'
  <2>1. CASE k = l
    <3>1. v = u
      BY <1>1, <1>7, <2>1
    <3> QED
      BY <1>6, <3>1
  <2>2. CASE k # l
    <3>1. table'[k] = table[k] /\ table[k] = v /\ table[k] # None
      BY <1>1, <1>7, <2>2
    <3>2. Handled(v) \/ Ahead(k)
      BY <1>1, <3>1 DEF Kept, NothingForgotten
    <3>3. Rank(k)' = Rank(k)
      BY <1>4, <2>2, <3>1
    <3>4. Ahead(k) => Ahead(k)'
      BY <1>1, <3>1, <3>3 DEF Ahead
    <3> QED
      BY <1>5, <3>2, <3>4
  <2> QED
    BY <2>1, <2>2
<1>8. NothingForgotten'
  BY <1>7, AllLots
<1> QED
  BY <1>2, <1>3, <1>8

\* A deletion shifts the lots behind it, so while the walk is under way it
\* excuses them all.
LEMMA DeleteKeeps ==
  ASSUME Kept, TypeOK', NEW l \in Ids, DeleteLot(l)
  PROVE  Written' /\ InBatch' /\ NothingForgotten'
<1>1. /\ up /\ up' /\ writing = NotWriting /\ writing' = writing /\ None \notin Urls
      /\ UNCHANGED <<disk, jobs, warm, unscheduled>> /\ warm.urls \subseteq Urls
      /\ table' = [table EXCEPT ![l] = None] /\ table \in [Ids -> Urls \cup {None}]
      /\ excused \subseteq excused' /\ (warm.at \in {"walk", "batch"} => excused' = Urls)
      /\ warm.at \in {"waiting", "walk", "batch", "done"}
  BY MediaAssumption DEF DeleteLot, Running, Kept, IInv, TypeOK
<1>2. Written'
  BY <1>1 DEF Written, NotWriting
<1>3. InBatch'
  BY <1>1 DEF Kept, InBatch, Held, Readable
<1>4. \A v \in Urls : Handled(v) => Handled(v)'
  BY <1>1 DEF Handled, Busy, InCache, Readable, HasThumb
<1>5. ASSUME NEW k \in Ids, NEW v \in Urls, table'[k] = v PROVE Handled(v)' \/ Ahead(k)'
  <2>1. table[k] = v /\ v # None
    BY <1>1, <1>5
  <2>2. Handled(v) \/ Ahead(k)
    BY <1>1, <2>1 DEF Kept, NothingForgotten
  <2>3. CASE warm.at \in {"walk", "batch"}
    BY <1>1, <2>3 DEF Handled
  <2>4. CASE warm.at = "waiting"
    BY <1>1, <2>4 DEF Ahead
  <2>5. CASE warm.at = "done"
    <3>1. ~Ahead(k)
      BY <2>5 DEF Ahead
    <3> QED
      BY <1>4, <2>2, <3>1
  <2> QED
    BY <1>1, <2>3, <2>4, <2>5
<1>6. NothingForgotten'
  BY <1>5, AllLots
<1> QED
  BY <1>2, <1>3, <1>6

\* A crash forgets the tasks, and the walk of the next start meets every lot.
LEMMA RestartKeeps ==
  ASSUME Kept, TypeOK', Crash \/ Start
  PROVE  Written' /\ InBatch' /\ NothingForgotten'
<1>1. warm' = Waiting
  BY DEF Crash, Start, Kept, AtRest
<1>2. InBatch'
  BY <1>1 DEF InBatch, Waiting
<1>3. NothingForgotten'
  BY <1>1 DEF NothingForgotten, Ahead, Waiting
<1>4. Written'
  <2>1. CASE Crash
    BY <2>1 DEF Crash, Written, NotWriting
  <2>2. CASE Start
    BY <2>2 DEF Start, Kept, Written
  <2> QED
    BY <2>1, <2>2
<1> QED
  BY <1>2, <1>3, <1>4

-----------------------------------------------------------------------------
\* The walk goes by rank, and the ranks of the lots have no gap.
Before(l) == {k \in Ids : k < l /\ table[k] # None}

LEMMA RankType == ASSUME NEW l \in Ids PROVE Rank(l) \in Nat /\ IsFiniteSet(Before(l))
<1>1. IsFiniteSet(Ids)
  BY MediaAssumption, FS_Interval DEF Ids
<1>2. IsFiniteSet(Before(l))
  BY <1>1, FS_Subset DEF Before
<1>3. Cardinality(Before(l)) \in Nat
  BY <1>2, FS_CardinalityType
<1> QED
  BY <1>2, <1>3 DEF Rank, Before

\* A set of numbers has a least one.
LEMMA Least ==
  ASSUME NEW T, T \subseteq Nat, T # {}
  PROVE  \E x \in T : \A y \in T : x <= y
<1> DEFINE R == OpToRel(<, Nat)
<1>1. IsWellFoundedOn(R, Nat)
  BY NatLessThanWellFounded
<1> HIDE DEF R
<1>2. PICK x \in T : \A y \in T : ~(<<y, x>> \in R)
  BY <1>1, WFMin, Zenon
<1>3. \A y \in T : y < x => <<y, x>> \in R
  BY DEF R, OpToRel
<1>4. \A y \in T : ~(y < x)
  BY <1>2, <1>3, Zenon
<1>5. x \in Nat /\ \A y \in T : y \in Nat
  OBVIOUS
<1> QED
  BY <1>4, <1>5

\* The last lot before another has the rank just below.
LEMMA Predecessor ==
  ASSUME NEW m \in Ids, Rank(m) # 0
  PROVE  \E p \in Ids : p < m /\ table[p] # None /\ Rank(m) = Rank(p) + 1
<1> DEFINE D == {d \in Nat : m - d \in Before(m)}
<1>1. Ids \subseteq Nat /\ Rank(m) = Cardinality(Before(m))
  BY MediaAssumption DEF Ids, Rank, Before
<1>2. Before(m) # {}
  BY <1>1, FS_EmptySet
<1>3. PICK k \in Before(m) : TRUE
  BY <1>2
<1>4. m - k \in D
  BY <1>1, <1>3 DEF Before
<1>5. PICK d \in D : \A e \in D : d <= e
  <2>1. D \subseteq Nat /\ D # {}
    BY <1>4
  <2> HIDE DEF D
  <2> QED
    BY <2>1, Least
<1>6. PICK p : p = m - d
  OBVIOUS
<1>7. p \in Before(m) /\ p \in Ids /\ p < m /\ table[p] # None
  BY <1>5, <1>6 DEF Before
<1>8. ASSUME NEW i \in Before(m) PROVE i <= p
  <2>1. i \in Nat /\ m - i \in Nat /\ m - (m - i) = i
    BY <1>1 DEF Before
  <2>2. m - i \in D
    BY <2>1
  <2>3. d <= m - i
    BY <1>5, <2>2
  <2> QED
    BY <1>1, <1>5, <1>6, <2>1, <2>3
<1>9. Before(m) = Before(p) \cup {p} /\ p \notin Before(p)
  <2>1. \A i \in Before(m) : i = p \/ i \in Before(p)
    BY <1>1, <1>7, <1>8 DEF Before
  <2>2. \A i \in Before(p) : i \in Before(m)
    BY <1>1, <1>7 DEF Before
  <2>3. p \notin Before(p)
    BY <1>1, <1>7 DEF Before
  <2> QED
    BY <1>7, <2>1, <2>2, <2>3
<1>10. Cardinality(Before(m)) = Cardinality(Before(p)) + 1
  BY <1>7, <1>9, RankType, FS_AddElement
<1> QED
  BY <1>1, <1>7, <1>10 DEF Rank, Before

\* If some lot is at a rank or behind it, then some lot is at it.
LEMMA NoGap ==
  ASSUME NEW n \in Nat, NEW l \in Ids, table[l] # None, Rank(l) >= n
  PROVE  \E m \in Ids : table[m] # None /\ Rank(m) = n
<1> DEFINE T == {i \in Ids : table[i] # None /\ Rank(i) >= n}
<1>1. Ids \subseteq Nat /\ T \subseteq Nat /\ T # {}
  BY MediaAssumption DEF Ids
<1>2. PICK m \in T : \A i \in T : m <= i
  BY <1>1, Least
<1>3. Rank(m) \in Nat /\ m \in Ids
  BY RankType
<1>4. ASSUME Rank(m) # n PROVE FALSE
  <2>1. Rank(m) # 0
    BY <1>2, <1>3, <1>4
  <2>2. PICK p \in Ids : p < m /\ table[p] # None /\ Rank(m) = Rank(p) + 1
    BY <1>3, <2>1, Predecessor
  <2>3. Rank(p) \in Nat
    BY RankType
  <2>4. p \in T
    BY <1>2, <1>3, <1>4, <2>2, <2>3
  <2> QED
    BY <1>1, <1>2, <2>2, <2>4
<1> QED
  BY <1>2, <1>4

-----------------------------------------------------------------------------
LEMMA WalkStarts ==
  ASSUME Kept, TypeOK', WarmStarts
  PROVE  Written' /\ InBatch' /\ NothingForgotten'
<1>1. /\ warm = Waiting /\ warm' = [Waiting EXCEPT !.at = "walk"] /\ up' = up
      /\ UNCHANGED <<disk, writing, table>>
  BY DEF WarmStarts, Kept, AtRest
<1>2. warm'.at = "walk" /\ warm'.offset = 0 /\ warm'.urls = {}
  BY <1>1 DEF Waiting
<1>3. \A k \in Ids : Rank(k)' = Rank(k) /\ Rank(k) \in Nat
  BY <1>1, RankType DEF Rank
<1>4. \A k \in Ids : Ahead(k)'
  BY <1>2, <1>3 DEF Ahead
<1>5. InBatch'
  BY <1>2 DEF InBatch
<1>6. Written'
  BY <1>1 DEF Kept, Written, Readable
<1> QED
  BY <1>4, <1>5, <1>6, AllLots

\* The walk takes the lots of its offset as a batch and is over when there are
\* none, as then there are none behind them either.
LEMMA BatchKeeps ==
  ASSUME Kept, TypeOK', WarmBatch
  PROVE  Written' /\ InBatch' /\ NothingForgotten'
<1> DEFINE urls == {table[l] : l \in Rows}
           tasks == {Job("warm", u, "queued") : u \in urls}
<1>1. /\ up /\ up' /\ writing = NotWriting /\ TypeOK /\ None \notin Urls
      /\ UNCHANGED <<disk, table, writing, unscheduled, excused>>
      /\ warm.at = "walk" /\ warm.offset \in Nat /\ BatchSize \in Nat \ {0}
  BY MediaAssumption DEF WarmBatch, Running, Kept, IInv, TypeOK
<1>2. /\ warm'.at = IF urls = {} THEN "done" ELSE "batch"
      /\ warm'.urls = urls /\ warm'.offset = warm.offset
      /\ jobs' = jobs \cup tasks
  BY <1>1 DEF WarmBatch, TypeOK
<1> HIDE DEF urls, tasks
<1>3. \A v \in urls : \E j \in jobs' : j.url = v /\ j.owner = "warm"
  <2>1. \A v \in urls : Job("warm", v, "queued") \in tasks
    BY DEF tasks
  <2>2. \A v \in urls : Job("warm", v, "queued").url = v /\ Job("warm", v, "queued").owner = "warm"
    BY DEF Job
  <2> QED
    BY <1>2, <2>1, <2>2
<1>4. InBatch'
  BY <1>2, <1>3 DEF InBatch, Held
<1>5. Written'
  BY <1>1 DEF Written, NotWriting
<1>6. \A v \in Urls : Handled(v) => Handled(v)'
  BY <1>1, <1>2 DEF Handled, Busy, InCache, Readable, HasThumb
<1>7. \A k \in Ids : Rank(k)' = Rank(k) /\ Rank(k) \in Nat
  BY <1>1, RankType DEF Rank
<1>8. ASSUME NEW k \in Ids, table[k] # None, Rank(k) >= warm.offset PROVE Ahead(k)'
  <2>1. PICK m \in Ids : table[m] # None /\ Rank(m) = warm.offset
    BY <1>1, <1>8, NoGap
  <2>2. m \in Rows
    BY <1>1, <1>7, <2>1 DEF Rows
  <2>3. urls # {}
    BY <2>2 DEF urls
  <2>4. warm'.at = "batch"
    BY <1>2, <2>3
  <2>5. CASE Rank(k) < warm.offset + BatchSize
    <3>1. k \in Rows
      BY <1>8, <2>5 DEF Rows
    <3>2. table'[k] \in warm'.urls
      BY <1>1, <1>2, <3>1 DEF urls
    <3> QED
      BY <2>4, <3>2 DEF Ahead
  <2>6. CASE ~(Rank(k) < warm.offset + BatchSize)
    <3>1. Rank(k)' >= warm'.offset + BatchSize
      BY <1>1, <1>2, <1>7, <2>6
    <3> QED
      BY <2>4, <3>1 DEF Ahead
  <2> QED
    BY <2>5, <2>6
<1>9. ASSUME NEW k \in Ids, NEW v \in Urls, table'[k] = v PROVE Handled(v)' \/ Ahead(k)'
  <2>1. table[k] = v /\ v # None
    BY <1>1, <1>9
  <2>2. Handled(v) \/ Ahead(k)
    BY <1>1, <2>1 DEF Kept, NothingForgotten
  <2>3. Ahead(k) => Ahead(k)'
    BY <1>1, <1>8, <2>1 DEF Ahead
  <2> QED
    BY <1>6, <2>2, <2>3
<1>10. NothingForgotten'
  BY <1>9, AllLots
<1> QED
  BY <1>4, <1>5, <1>10

LEMMA BatchDoneKeeps ==
  ASSUME Kept, TypeOK', WarmBatchDone
  PROVE  Written' /\ InBatch' /\ NothingForgotten'
<1> DEFINE without == {u \in warm.urls : is_image_cached(u) /\ Readable(u) /\ MakesThumb(u)}
<1>1. /\ up /\ up' /\ writing = NotWriting /\ None \notin Urls /\ TypeOK
      /\ UNCHANGED <<disk, table, jobs, unscheduled, excused>> /\ warm.urls \subseteq Urls
      /\ warm.at = "batch" /\ \A j \in jobs : j.owner # "warm"
  BY MediaAssumption DEF WarmBatchDone, Running, Kept, IInv, TypeOK
<1>2. CASE without # {}
  <2>1. PICK u \in without : writing' = [url |-> u, step |-> "thumb.tmp"]
    BY <1>2 DEF WarmBatchDone, Store
  <2>2. warm' = warm
    BY <1>2 DEF WarmBatchDone
  <2>3. Written'
    BY <1>1, <2>1 DEF Written, Readable
  <2> QED
    BY <1>1, <2>2, <2>3, TasksCarry DEF NotWriting
<1>3. CASE without = {}
  <2>1. warm' = [at |-> "walk", offset |-> warm.offset + BatchSize, urls |-> {}]
        /\ writing' = writing
    BY <1>3 DEF WarmBatchDone
  <2>2. Written' /\ InBatch'
    BY <1>1, <2>1 DEF Written, InBatch, NotWriting
  <2>3. \A v \in Urls : Handled(v) => Handled(v)'
    BY <1>1, <2>1 DEF Handled, Busy, InCache, Readable, HasThumb
  <2>4. \A v \in warm.urls : Handled(v)
    <3> SUFFICES ASSUME NEW v \in warm.urls PROVE Handled(v)
      OBVIOUS
    <3>1. Readable(v) \/ v \in excused
      BY <1>1 DEF Kept, InBatch, Held, NotWriting
    <3>2. Readable(v) => ~MakesThumb(v)
      BY <1>3 DEF is_image_cached, Readable
    <3> QED
      BY <3>1, <3>2 DEF Handled, InCache, MakesThumb
  <2>5. \A k \in Ids : Rank(k)' = Rank(k)
    BY <1>1 DEF Rank
  <2>6. ASSUME NEW k \in Ids, NEW v \in Urls, table'[k] = v
        PROVE  Handled(v)' \/ Ahead(k)'
    <3>1. table[k] = v /\ v # None
      BY <1>1, <2>6
    <3>2. Handled(v) \/ Ahead(k)
      BY <1>1, <3>1 DEF Kept, NothingForgotten
    <3>3. Ahead(k) => v \in warm.urls \/ Ahead(k)'
      BY <1>1, <2>1, <2>5, <3>1 DEF Ahead
    <3> QED
      BY <2>3, <2>4, <3>2, <3>3
  <2>7. NothingForgotten'
    BY <2>6, AllLots
  <2> QED
    BY <2>2, <2>7
<1> QED
  BY <1>2, <1>3

LEMMA WalkFails ==
  ASSUME Kept, TypeOK', WarmFails
  PROVE  Written' /\ InBatch' /\ NothingForgotten'
<1>1. /\ warm' = [warm EXCEPT !.at = "done"] /\ warm.at = "walk" /\ TypeOK
      /\ excused' = Urls /\ writing = NotWriting /\ writing' = writing
  BY DEF WarmFails, Running, Kept, IInv
<1>2. \A v \in Urls : Handled(v)'
  BY <1>1 DEF Handled
<1>3. InBatch'
  BY <1>1 DEF TypeOK, Kept, InBatch
<1>4. Written'
  BY <1>1 DEF Written, NotWriting
<1> QED
  BY <1>2, <1>3, <1>4, AllLots

-----------------------------------------------------------------------------
LEMMA RestKept == ASSUME Kept, [Next]_vars PROVE AtRest'
<1>1. TypeOK /\ (warm.at = "waiting" \/ ~up => warm = Waiting)
  BY DEF Kept, IInv, AtRest
<1>2. CASE UNCHANGED <<up, warm>>
  BY <1>1, <1>2 DEF AtRest
<1>3. CASE WarmStarts \/ WarmBatch \/ WarmBatchDone \/ WarmFails
  <2>1. up' /\ warm'.at # "waiting"
    <3>1. CASE WarmStarts
      BY <1>1, <3>1 DEF WarmStarts, Running, TypeOK
    <3>2. CASE WarmBatch
      BY <1>1, <3>2 DEF WarmBatch, Running, TypeOK
    <3>3. CASE WarmBatchDone
      BY <1>1, <3>3 DEF WarmBatchDone, Running
    <3>4. CASE WarmFails
      BY <1>1, <3>4 DEF WarmFails, Running, TypeOK
    <3> QED
      BY <1>3, <3>1, <3>2, <3>3, <3>4
  <2> QED
    BY <2>1 DEF AtRest
<1>4. CASE Crash \/ Start
  BY <1>1, <1>4 DEF Crash, Start, AtRest
<1> QED
  BY <1>2, <1>3, <1>4 DEF Next, Process, vars, WriteStep, Schedule, Begin, Downloaded,
     Downloading, WriteFails, DownloadFails, Request, IngestLot, DeleteLot

LEMMA InitKept == ASSUME Init PROVE Kept
<1>1. IInv
  BY InitIInv
<1>2. writing.url = None /\ warm = Waiting
  BY DEF Init, NotWriting
<1> QED
  BY <1>1, <1>2 DEF Kept, Written, AtRest, InBatch, NothingForgotten, Ahead, Waiting

LEMMA NextKept == ASSUME Kept, IInv', [Next]_vars PROVE Kept'
<1>1. AtRest' /\ TypeOK /\ TypeOK'
  BY RestKept DEF Kept, IInv
<1> SUFFICES Written' /\ InBatch' /\ NothingForgotten'
  BY <1>1 DEF Kept
<1>2. CASE WriteStep
  BY <1>2, WriteKeeps
<1>3. CASE Schedule
  BY <1>3, ScheduleKeeps
<1>4. CASE WarmStarts
  BY <1>1, <1>4, WalkStarts
<1>5. CASE WarmBatch
  BY <1>1, <1>5, BatchKeeps
<1>6. CASE WarmBatchDone
  BY <1>1, <1>6, BatchDoneKeeps
<1>7. CASE \E j \in jobs : Begin(j) \/ Downloaded(j)
  BY <1>7, BeginKeeps, DownloadKeeps
<1>8. CASE Start \/ Crash
  BY <1>1, <1>8, RestartKeeps
<1>9. CASE WriteFails
  BY <1>9, WriteFailsKeeps
<1>10. CASE WarmFails
  BY <1>1, <1>10, WalkFails
<1>11. CASE \E j \in jobs : DownloadFails(j)
  BY <1>11, DownloadKeeps
<1>12. CASE \E u \in Urls : Request(u) \/ \E l \in Ids : IngestLot(l, u)
  BY <1>1, <1>12, RequestKeeps, IngestKeeps
<1>13. CASE \E l \in Ids : DeleteLot(l)
  BY <1>1, <1>13, DeleteKeeps
<1>14. CASE UNCHANGED vars
  BY <1>14 DEF vars, Kept, Written, InBatch, Held, NothingForgotten, Handled, Busy,
     Ahead, Rank, InCache, Readable, HasThumb
<1> QED
  BY <1>2, <1>3, <1>4, <1>5, <1>6, <1>7, <1>8, <1>9, <1>10, <1>11, <1>12, <1>13, <1>14
     DEF Next, Process

\* As long as the backend runs, the image of every lot is in the cache, or
\* somebody is about to bring it there, or the walk is still to come to its lot,
\* unless a failure excuses it: what EveryImageCached waits for is never lost,
\* whatever crashes between the commit of a lot and the last file of its image.
THEOREM NothingIsForgotten == Spec => []NothingForgotten
<1>1. Init => Kept
  BY InitKept
<1>2. Kept /\ IInv' /\ [Next]_vars => Kept'
  BY NextKept
<1>3. Spec => []IInv
  BY AlwaysIInv
<1>4. Kept => NothingForgotten
  BY DEF Kept
<1> QED
  BY <1>1, <1>2, <1>3, <1>4, PTL DEF Spec

=============================================================================
