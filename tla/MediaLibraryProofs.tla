------------------------- MODULE MediaLibraryProofs -------------------------
(***************************************************************************)
(* Invariants of MediaLibrary, for any number of recordings, sessions,     *)
(* segments, deletions, kills and failures.                                *)
(***************************************************************************)
EXTENDS MediaLibrary, FiniteSetTheorems, TLAPS

-----------------------------------------------------------------------------
(* Type correctness.  One fact more is needed: work on a job has a job.    *)

HasJob == pp.pc \notin {"down", "next"} => pp.job \in Recs

DbType ==
  /\ chan \in {"idle", "active", "gone"}
  /\ rec \in [Recs -> Recording]
  /\ assets \in SUBSET Asset

JobsType == jobs \in Seq(Recs)

DiskType == disk \in [1 .. MaxSessions -> Directory]

WorkerType ==
  /\ session \in 0 .. MaxSessions
  /\ live \in BOOLEAN
  /\ capturing \in 0 .. MaxRecs
  /\ finished \in 0 .. MaxRecs

ApiType == del \in [Deleters -> Deletion] /\ asked \in SUBSET Recs

PpType == pp \in Position /\ todo \in SUBSET Recs /\ HasJob

LeftType == left \in [deletes : Nat, faults : Nat]

TypeInv ==
  /\ DbType /\ JobsType /\ DiskType /\ WorkerType /\ ApiType /\ PpType /\ LeftType

\* What the rows promise to the rest: a row that exists has a directory, and
\* the recording of a capture is open, unless it has gone with its channel;
\* only a deletion of the channel names it.
RowInv ==
  /\ \A r \in Recs : rec[r].st # "new" => rec[r].dir # 0
  /\ live => session # 0
  /\ capturing # 0 => /\ rec[capturing].st \in {"recording", "gone"}
                      /\ \A d \in Deleters :
                           capturing \in del[d].targets => del[d].chan

\* A deletion removes what it is to delete, and that exists; only one of the
\* whole channel queries for it.
DeletionInv ==
  \A d \in Deleters :
    /\ del[d].pc = "query" => del[d].chan
    /\ del[d].todo \subseteq del[d].targets
    /\ \A r \in del[d].targets : rec[r].st # "new"

\* Whatever waits for the post-process worker, or is in its hands, is a
\* recording that will not be written any more.
Closed(r) == rec[r].st \in {"completed", "gone"}

ClosedWork ==
  /\ \A k \in DOMAIN jobs : Closed(jobs[k])
  /\ finished # 0 => Closed(finished)
  /\ pp.job # 0 => Closed(pp.job)
  /\ \A r \in todo : Closed(r)

WorkInv == RowInv /\ DeletionInv /\ ClosedWork /\ CatalogueIsSound

LEMMA TypeInvMeaning == TypeInv => TypeOK
BY DEF TypeInv, TypeOK, DbType, JobsType, DiskType, WorkerType, ApiType, PpType,
       LeftType

LEMMA SpendType ==
  ASSUME LeftType, NEW k \in {"deletes", "faults"}, Spend(k)
  PROVE  LeftType'
BY DEF LeftType, Spend

LEMMA TypeInit == Init => TypeInv
<1> SUFFICES ASSUME Init PROVE TypeInv
  OBVIOUS
<1> USE LibraryAssumption DEF Init
<1>1. DbType
  BY DEF DbType, Recording, Recs
<1>2. JobsType
  BY DEF JobsType
<1>3. DiskType
  BY DEF DiskType, Directory, NoDirectory
<1>4. WorkerType
  <2>1. live \in BOOLEAN
    BY Zenon
  <2> QED
    BY <2>1 DEF WorkerType
<1>5. ApiType
  BY DEF ApiType, Deletion, NoDeletion
<1>6. PpType
  <2>1. pp = [pc |-> "down", mode |-> "catalog", job |-> 0, found |-> {},
              master |-> NoMaster, proxy |-> FALSE, thumb |-> FALSE]
    BY DEF Down, Idle
  <2>2. NoMaster \in Master
    BY DEF NoMaster, Master
  <2> QED
    BY <2>1, <2>2 DEF PpType, HasJob, Position
<1>7. LeftType
  BY DEF LeftType
<1> QED
  BY <1>1, <1>2, <1>3, <1>4, <1>5, <1>6, <1>7 DEF TypeInv

\* Writing to one directory, and what is written.
LEMMA DirectoryWritten ==
  ASSUME DiskType, NEW d, NEW content,
         d \in 1 .. MaxSessions => content \in Directory,
         disk' = [disk EXCEPT ![d] = content]
  PROVE  DiskType'
BY DEF DiskType

LEMMA DirectoryFields ==
  ASSUME NEW x \in Directory, NEW master \in SUBSET (Parts \cup {Cut})
  PROVE  /\ [x EXCEPT !.there = TRUE] \in Directory
         /\ [x EXCEPT !.derived = TRUE] \in Directory
         /\ [x EXCEPT !.there = TRUE, !.derived = TRUE] \in Directory
         /\ [x EXCEPT !.there = TRUE, !.master = master] \in Directory
BY DEF Directory

LEMMA TypeIngest == TypeInv /\ IngestNext => TypeInv'
<1> SUFFICES ASSUME TypeInv, IngestNext PROVE TypeInv'
  OBVIOUS
<1> USE LibraryAssumption DEF TypeInv, apiVars, ppVars, workerVars
<1>1. CASE Connect
  <2>1. DbType'
    BY <1>1 DEF Connect, DbType
  <2>2. live' \in BOOLEAN
    BY <1>1, Zenon DEF Connect, WorkerType
  <2>3. WorkerType'
    BY <1>1, <2>2 DEF Connect, WorkerType
  <2> QED
    BY <1>1, <2>1, <2>3 DEF Connect, JobsType, DiskType, ApiType, PpType, HasJob, LeftType
<1>2. CASE Disconnect
  <2>1. DbType'
    BY <1>2 DEF Disconnect, DbType
  <2>2. live' \in BOOLEAN
    BY <1>2, Zenon DEF Disconnect
  <2>3. WorkerType'
    BY <1>2, <2>2 DEF Disconnect, WorkerType
  <2> QED
    BY <1>2, <2>1, <2>3 DEF Disconnect, JobsType, DiskType, ApiType, PpType, HasJob, LeftType
<1>undo. CASE UndoStatus
  <2>1. DbType'
    BY <1>undo DEF UndoStatus, DbType
  <2>2. LeftType'
    BY <1>undo, SpendType DEF UndoStatus
  <2> QED
    BY <1>undo, <2>1, <2>2 DEF UndoStatus, JobsType, DiskType, WorkerType, ApiType, PpType,
       HasJob
<1>3. ASSUME NEW r \in Recs, StartRecording(r) PROVE TypeInv'
  <2>1. PICK base \in {0} \cup {rec[q].base + rec[q].n : q \in OfSession \cap {r - 1}} :
          rec' = [rec EXCEPT ![r] = [st |-> "recording", dir |-> session,
                                     n |-> 0, base |-> base]]
    BY <1>3 DEF StartRecording
  <2>2. base \in Nat
    BY <2>1 DEF OfSession, DbType, Recording
  <2>3. DbType'
    BY <1>3, <2>1, <2>2 DEF StartRecording, DbType, WorkerType, Recording
  <2>4. DiskType'
    <3>1. PICK content : content = [disk[session] EXCEPT !.there = TRUE]
      OBVIOUS
    <3>2. session \in 1 .. MaxSessions => content \in Directory
      BY <3>1, DirectoryFields DEF DiskType
    <3>3. disk' = [disk EXCEPT ![session] = content]
      BY <1>3, <3>1 DEF StartRecording
    <3> QED
      BY <3>2, <3>3, DirectoryWritten
  <2>5. WorkerType'
    BY <1>3 DEF StartRecording, WorkerType, Recs
  <2> QED
    BY <1>3, <2>3, <2>4, <2>5 DEF StartRecording, JobsType, ApiType, PpType, HasJob,
       LeftType
<1>4. CASE WriteSegment
  <2> DEFINE no == rec[capturing].base + rec[capturing].n + 1
             d  == rec[capturing].dir
  <2>1. capturing \in Recs /\ rec[capturing] \in Recording
    BY <1>4 DEF WriteSegment, WorkerType, DbType, Recs
  <2>2. no \in Nat \ {0}
    BY <2>1 DEF Recording
  <2>3. DbType'
    BY <1>4, <2>1 DEF WriteSegment, DbType, Recording
  <2>4. {<<no, capturing>>} \in SUBSET Parts
    BY <2>1, <2>2 DEF Parts, Numbers
  <2>5. disk' = [disk EXCEPT ![d].parts = {p \in @ : p[1] # no} \cup {<<no, capturing>>}]
    BY <1>4 DEF WriteSegment
  <2> HIDE DEF no, d
  <2>6. DiskType'
    BY <2>4, <2>5 DEF DiskType, Directory
  <2> QED
    BY <1>4, <2>3, <2>6 DEF WriteSegment, JobsType, WorkerType, ApiType, PpType,
       HasJob, LeftType
<1>5. CASE FinishRecording
  <2>0. capturing \in Recs
    BY <1>5 DEF FinishRecording, WorkerType, Recs
  <2>1. DbType'
    BY <1>5, <2>0 DEF FinishRecording, DbType, Recording
  <2>2. WorkerType'
    BY <1>5 DEF FinishRecording, WorkerType
  <2> QED
    BY <1>5, <2>1, <2>2 DEF FinishRecording, JobsType, DiskType, ApiType, PpType, HasJob,
       LeftType
<1>6. CASE Announce
  <2>1. finished \in Recs
    BY <1>6 DEF Announce, WorkerType, Recs
  <2>2. JobsType'
    BY <1>6, <2>1 DEF Announce, JobsType
  <2>3. WorkerType'
    BY <1>6 DEF Announce, WorkerType
  <2>4. LeftType'
    BY <1>6, SpendType DEF Announce, LeftType
  <2> QED
    BY <1>6, <2>2, <2>3, <2>4 DEF Announce, DbType, DiskType, ApiType, PpType, HasJob
<1>7. CASE LoseSession
  <2>1. DbType'
    BY <1>7 DEF LoseSession, DbType, Recording
  <2>2. WorkerType'
    <3>1. live' \in BOOLEAN
      BY <1>7, Zenon DEF LoseSession
    <3> QED
      BY <1>7, <3>1 DEF LoseSession, WorkerType
  <2>3. LeftType'
    BY <1>7, SpendType DEF LoseSession
  <2> QED
    BY <1>7, <2>1, <2>2, <2>3 DEF LoseSession, JobsType, DiskType, ApiType, PpType,
       HasJob
<1> QED
  BY <1>1, <1>2, <1>3, <1>4, <1>5, <1>6, <1>7, <1>undo DEF IngestNext

LEMMA NameType ==
  ASSUME TypeInv, NEW d \in Deleters, NEW rs \in SUBSET Recs, Name(d, rs), LeftType'
  PROVE  TypeInv'
<1> USE DEF TypeInv, ppVars, workerVars
<1>1. ApiType'
  BY DEF Name, ApiType, Deletion
<1> QED
  BY <1>1 DEF Name, DbType, JobsType, DiskType, WorkerType, PpType, HasJob

LEMMA TypeApi == TypeInv /\ MediaApiNext => TypeInv'
<1> SUFFICES ASSUME TypeInv, MediaApiNext PROVE TypeInv'
  OBVIOUS
<1> USE LibraryAssumption DEF TypeInv, ppVars, workerVars
<1>1. ASSUME NEW d \in Deleters, NEW r \in Recs,
             DeleteRecording(d, r) \/ DeleteAsset(d, r)
      PROVE  TypeInv'
  <2>1. Name(d, {r}) /\ Spend("deletes")
    BY <1>1 DEF DeleteRecording, DeleteAsset, Accept
  <2>2. LeftType'
    BY <2>1, SpendType
  <2> QED
    BY <2>1, <2>2, NameType
<1>2. ASSUME NEW d \in Deleters, ListRecordings(d) PROVE TypeInv'
  <2> DEFINE rs == {r \in Recs : Exists(r)}
  <2>1. Name(d, rs) /\ rs \in SUBSET Recs
    BY <1>2 DEF ListRecordings
  <2>2. LeftType'
    BY <1>2 DEF ListRecordings, LeftType
  <2> HIDE DEF rs
  <2> QED
    BY <2>1, <2>2, NameType
<1>6. ASSUME NEW d \in Deleters, DeleteChannel(d) PROVE TypeInv'
  <2>1. [NoDeletion EXCEPT !.pc = "query", !.chan = TRUE] \in Deletion
    BY DEF NoDeletion, Deletion
  <2>2. ApiType'
    BY <1>6, <2>1 DEF DeleteChannel, ApiType
  <2>3. LeftType'
    BY <1>6, SpendType DEF DeleteChannel
  <2> QED
    BY <1>6, <2>2, <2>3 DEF DeleteChannel, DbType, JobsType, DiskType, WorkerType, PpType,
       HasJob
<1>3. ASSUME NEW d \in Deleters, NEW r \in Recs, RemoveMedia(d, r) PROVE TypeInv'
  <2>1. ApiType'
    <3>1. del[d] \in Deletion
      BY DEF ApiType
    <3> DEFINE seen == IF Catalogued(r) THEN del[d].seen \cup {r} ELSE del[d].seen
               pc == IF del[d].todo = {r} THEN "commit" ELSE del[d].pc
    <3>2. seen \in SUBSET Recs /\ pc \in {"remove", "commit"}
      BY <1>3, <3>1 DEF RemoveMedia, Deletion
    <3>3. del' = [del EXCEPT ![d].todo = @ \ {r}, ![d].seen = seen, ![d].pc = pc]
      BY <1>3 DEF RemoveMedia
    <3>4. asked' = asked
      BY <1>3 DEF RemoveMedia
    <3> HIDE DEF seen, pc
    <3>5. [del[d] EXCEPT !.todo = @ \ {r}, !.seen = seen, !.pc = pc] \in Deletion
      BY <3>1, <3>2 DEF Deletion
    <3>6. del' = [del EXCEPT ![d] = [del[d] EXCEPT !.todo = @ \ {r}, !.seen = seen, !.pc = pc]]
      BY <3>3
    <3> QED
      BY <3>4, <3>5, <3>6 DEF ApiType
  <2>2. DiskType'
    <3>1. NoDirectory \in Directory
      BY DEF NoDirectory, Directory
    <3> QED
      BY <1>3, <3>1 DEF RemoveMedia, DiskType
  <2>3. LeftType'
    BY <1>3, SpendType DEF RemoveMedia, LeftType
  <2> QED
    BY <1>3, <2>1, <2>2, <2>3 DEF RemoveMedia, DbType, JobsType, WorkerType, PpType, HasJob
<1>4. ASSUME NEW d \in Deleters, Commit(d) PROVE TypeInv'
  <2>1. DbType'
    <3>1. CASE MayCommit(d)
      BY <1>4, <3>1 DEF Commit, DbType, Recording
    <3>2. CASE ~MayCommit(d)
      BY <1>4, <3>2 DEF Commit, DbType
    <3> QED
      BY <3>1, <3>2
  <2>2. ApiType'
    <3>1. NoDeletion \in Deletion
      BY DEF NoDeletion, Deletion
    <3> QED
      BY <1>4, <3>1 DEF Commit, ApiType
  <2> QED
    BY <1>4, <2>1, <2>2 DEF Commit, JobsType, DiskType, WorkerType, PpType, HasJob, LeftType
<1>5. CASE ApiDies
  <2>1. ApiType'
    <3>1. NoDeletion \in Deletion
      BY DEF NoDeletion, Deletion
    <3> QED
      BY <1>5, <3>1 DEF ApiDies, ApiType
  <2>2. LeftType'
    BY <1>5, SpendType DEF ApiDies
  <2> QED
    BY <1>5, <2>1, <2>2 DEF ApiDies, DbType, JobsType, DiskType, WorkerType, PpType, HasJob
<1> QED
  BY <1>1, <1>2, <1>3, <1>4, <1>5, <1>6 DEF MediaApiNext

-----------------------------------------------------------------------------

LEMMA PpFields ==
  ASSUME PpType
  PROVE  /\ pp.job \in 0 .. MaxRecs /\ pp.master \in Master
         /\ pp.found \in SUBSET Numbers
         /\ pp.proxy \in BOOLEAN /\ pp.thumb \in BOOLEAN
         /\ pp.mode \in {"catalog", "backfill", "queue"}
BY DEF PpType, Position

LEMMA NoMasterType == NoMaster \in Master
BY DEF NoMaster, Master

LEMMA IdleType ==
  ASSUME NEW mode \in {"catalog", "backfill", "queue"}, pp' = Idle(mode),
         todo' \in SUBSET Recs
  PROVE  PpType'
BY LibraryAssumption, NoMasterType DEF PpType, HasJob, Position, Idle

LEMMA FoundType ==
  ASSUME TypeInv, NEW r \in Recs, rec[r].dir # 0
  PROVE  FileNumbers(rec[r].dir) \in SUBSET Numbers
<1>1. rec[r].dir \in 1 .. MaxSessions
  BY LibraryAssumption DEF TypeInv, DbType, Recording
<1>2. disk[rec[r].dir].parts \in SUBSET Parts
  BY <1>1 DEF TypeInv, DiskType, Directory
<1> QED
  BY <1>2 DEF FileNumbers, Parts

\* A step of a job keeps the job.
LEMMA JobStepType ==
  ASSUME TypeInv, NEW pc \in {"load", "list", "concat", "fill", "proxy", "thumb", "store"},
         NEW job \in Recs, NEW found \in SUBSET Numbers, NEW master \in Master,
         NEW proxy \in BOOLEAN, NEW thumb \in BOOLEAN,
         pp' = [pp EXCEPT !.pc = pc, !.job = job, !.found = found, !.master = master,
                          !.proxy = proxy, !.thumb = thumb],
         todo' \in SUBSET Recs
  PROVE  PpType'
<1>1. job \in 0 .. MaxRecs
  BY LibraryAssumption DEF Recs
<1> QED
  BY <1>1 DEF TypeInv, PpType, HasJob, Position

LEMMA NextJobType ==
  ASSUME TypeInv, NEW pc \in {"load", "fill"}, NEW job \in Recs,
         pp' = [pp EXCEPT !.job = job, !.pc = pc], todo' \in SUBSET Recs
  PROVE  PpType'
<1>1. job \in 0 .. MaxRecs
  BY LibraryAssumption DEF Recs
<1> QED
  BY <1>1 DEF TypeInv, PpType, HasJob, Position

LEMMA DownType ==
  ASSUME pp' = Down, todo' = {}
  PROVE  PpType'
<1>1. pp' = [pc |-> "down", mode |-> "catalog", job |-> 0, found |-> {},
             master |-> NoMaster, proxy |-> FALSE, thumb |-> FALSE]
  BY DEF Down, Idle
<1> QED
  BY <1>1, NoMasterType, LibraryAssumption DEF PpType, HasJob, Position

LEMMA DoneType ==
  ASSUME TypeInv, Done, todo' = todo
  PROVE  PpType'
BY PpFields, IdleType DEF TypeInv, Done, PpType

LEMMA NewestType ==
  ASSUME NEW S PROVE Newest(S) \subseteq S
BY DEF Newest

\* What the work on a job does to the directory of its recording.
LEMMA WorkDiskType ==
  ASSUME DiskType, NEW d, NEW there \in BOOLEAN, NEW derived \in BOOLEAN,
         NEW master \in SUBSET (Parts \cup {Cut}),
         disk' = [disk EXCEPT ![d].there = there, ![d].master = master,
                              ![d].derived = derived]
  PROVE  DiskType'
<1>1. CASE d \in 1 .. MaxSessions
  <2>1. disk[d] \in Directory
    BY <1>1 DEF DiskType
  <2>2. [disk[d] EXCEPT !.there = there, !.master = master, !.derived = derived] \in Directory
    BY <2>1 DEF Directory
  <2> QED
    BY <1>1, <2>2 DEF DiskType
<1>2. CASE d \notin 1 .. MaxSessions
  BY <1>2 DEF DiskType
<1> QED
  BY <1>1, <1>2

LEMMA UpdatedType ==
  ASSUME PpType, NEW a \in Asset
  PROVE  [a EXCEPT !.proxy = @ \/ pp.proxy, !.thumb = @ \/ pp.thumb] \in Asset
<1> DEFINE proxy == a.proxy \/ pp.proxy
           thumb == a.thumb \/ pp.thumb
<1>1. proxy \in BOOLEAN /\ thumb \in BOOLEAN
  OBVIOUS
<1> HIDE DEF proxy, thumb
<1>2. [a EXCEPT !.proxy = proxy, !.thumb = thumb] \in Asset
  BY <1>1 DEF Asset
<1> QED
  BY <1>2 DEF proxy, thumb

LEMMA TypePp == TypeInv /\ WorkInv /\ PostProcessorNext => TypeInv'
<1> SUFFICES ASSUME TypeInv, WorkInv, PostProcessorNext PROVE TypeInv'
  OBVIOUS
<1> USE DEF TypeInv
<1> DEFINE OthersType == ApiType /\ WorkerType /\ chan \in {"idle", "active", "gone"}
                           /\ rec \in [Recs -> Recording]
<1>others. UNCHANGED libraryVars => OthersType'
  BY DEF libraryVars, workerVars, apiVars, ApiType, WorkerType, DbType
<1>enough. ASSUME UNCHANGED libraryVars, UNCHANGED <<assets, jobs, disk, left>>, PpType'
           PROVE  TypeInv'
  BY <1>enough, <1>others DEF DbType, JobsType, DiskType, LeftType
<1> HIDE DEF OthersType
<1>1. CASE StartUp
  <2>1. Newest(Uncatalogued) \in SUBSET Recs
    BY NewestType DEF Uncatalogued
  <2>2. PpType'
    BY <1>1, <2>1, IdleType DEF StartUp
  <2> QED
    BY <1>1, <2>2, <1>enough DEF StartUp
<1>2. CASE PostProcessorDies
  <2>1. PpType'
    BY <1>2, DownType DEF PostProcessorDies
  <2>2. LeftType'
    BY <1>2, SpendType DEF PostProcessorDies
  <2> QED
    BY <1>2, <2>1, <2>2, <1>others DEF PostProcessorDies, OthersType, DbType, JobsType, DiskType
<1>3. CASE StartBackfill
  <2>1. MissingMedia \in SUBSET Recs
    BY DEF MissingMedia, DbType, Asset
  <2>2. PpType'
    BY <1>3, <2>1, IdleType DEF StartBackfill
  <2> QED
    BY <1>3, <2>2, <1>enough DEF StartBackfill
<1>4. CASE StartQueue
  <2>1. PpType'
    BY <1>4, IdleType DEF StartQueue, PpType
  <2> QED
    BY <1>4, <2>1, <1>enough DEF StartQueue
<1>5. CASE NextOfBatch
  <2>1. PICK r \in todo :
           /\ pp' = [pp EXCEPT !.job = r, !.pc = IF pp.mode = "catalog" THEN "load" ELSE "fill"]
           /\ todo' = todo \ {r}
    BY <1>5 DEF NextOfBatch
  <2>2. PpType'
    <3>1. r \in Recs /\ todo' \in SUBSET Recs
      BY <2>1 DEF PpType
    <3>2. (IF pp.mode = "catalog" THEN "load" ELSE "fill") \in {"load", "fill"}
      OBVIOUS
    <3> QED
      BY <2>1, <3>1, <3>2, NextJobType
  <2> QED
    BY <1>5, <2>2, <1>enough DEF NextOfBatch
<1>6. CASE PopJob
  <2>1. Head(jobs) \in Recs /\ JobsType'
    BY <1>6 DEF PopJob, JobsType
  <2>2. pp' = [pp EXCEPT !.job = Head(jobs), !.pc = "load"] /\ todo' = todo
    BY <1>6 DEF PopJob
  <2>3. PpType'
    BY <2>1, <2>2, NextJobType DEF PpType
  <2> QED
    BY <1>6, <2>1, <2>3, <1>others DEF PopJob, OthersType, DbType, DiskType, LeftType
<1>7. CASE LoadRecording
  <2>1. PpType'
    <3>1. CASE pp' = [pp EXCEPT !.pc = "list"]
      BY <1>7, <3>1 DEF LoadRecording, PpType, HasJob, Position
    <3> QED
      BY <1>7, <3>1, DoneType DEF LoadRecording
  <2> QED
    BY <1>7, <2>1, <1>enough DEF LoadRecording
<1>8. CASE ListSegments
  <2> DEFINE found == FileNumbers(rec[pp.job].dir)
             pc == CASE found = {} -> "store"
                     [] Cardinality(found) = 1 -> "proxy"
                     [] OTHER -> "concat"
             master == IF Cardinality(found) = 1
                         THEN [kind |-> "segment", no |-> CHOOSE k \in found : TRUE]
                         ELSE NoMaster
  <2>1. pp.job \in Recs
    BY <1>8 DEF ListSegments, PpType, HasJob
  <2>2. pp' = [pp EXCEPT !.found = found, !.pc = pc, !.master = master] /\ todo' = todo
    BY <1>8 DEF ListSegments
  <2>3. pc \in {"store", "proxy", "concat"}
    OBVIOUS
  <2>4. found \in SUBSET Numbers
    <3>1. Closed(pp.job) /\ rec[pp.job].st # "new"
      BY <2>1 DEF WorkInv, ClosedWork, Closed, Recs
    <3>2. rec[pp.job].dir # 0
      BY <2>1, <3>1 DEF WorkInv, RowInv
    <3> QED
      BY FoundType, <2>1, <3>2
  <2>5. master \in Master
    <3>1. Cardinality(found) = 1 => found # {}
      BY FS_EmptySet
    <3>2. (CHOOSE k \in found : TRUE) \in found \/ found = {}
      OBVIOUS
    <3> HIDE DEF found
    <3> QED
      BY <2>4, <3>1, <3>2, NoMasterType DEF Master
  <2>6. PpType'
    <3> HIDE DEF found, pc, master
    <3> QED
      BY <2>1, <2>2, <2>3, <2>4, <2>5 DEF PpType, HasJob, Position
  <2> QED
    BY <1>8, <2>6, <1>enough DEF ListSegments
<1>9. CASE BeginConcat
  <2>1. PpType'
    BY <1>9 DEF BeginConcat, PpType, HasJob, Position, Master
  <2>2. DiskType'
    <3>1. {Cut} \in SUBSET (Parts \cup {Cut})
      OBVIOUS
    <3>2. PICK d : d = rec[pp.job].dir
      OBVIOUS
    <3>3. PICK content : content = [disk[d] EXCEPT !.there = TRUE, !.master = {Cut}]
      OBVIOUS
    <3>4. d \in 1 .. MaxSessions => content \in Directory
      BY <3>1, <3>3, DirectoryFields DEF DiskType
    <3>5. disk' = [disk EXCEPT ![d] = content]
      BY <1>9, <3>2, <3>3 DEF BeginConcat
    <3> QED
      BY <3>4, <3>5, DirectoryWritten
  <2> QED
    BY <1>9, <2>1, <2>2, <1>others DEF BeginConcat, OthersType, DbType, JobsType, LeftType
<1>10. CASE FinishConcat
  <2>1. PpType'
    <3>1. CASE pp' = [pp EXCEPT !.pc = "proxy"]
      BY <1>10, <3>1 DEF FinishConcat, PpType, HasJob, Position
    <3> QED
      BY <1>10, <3>1, DoneType DEF FinishConcat
  <2>2. DiskType'
    <3> DEFINE d == rec[pp.job].dir
               content == Content(d, pp.found)
    <3>1. CASE disk' = [disk EXCEPT ![d].master = content]
      <4>1. d \in 1 .. MaxSessions => content \in SUBSET (Parts \cup {Cut})
        BY DEF Content, DiskType, Directory
      <4> HIDE DEF content, d
      <4> QED
        BY <3>1, <4>1 DEF DiskType, Directory
    <3>2. CASE disk' = disk
      BY <3>2 DEF DiskType
    <3> QED
      BY <1>10, <3>1, <3>2 DEF FinishConcat
  <2> QED
    BY <1>10, <2>1, <2>2, <1>others DEF FinishConcat, OthersType, DbType, JobsType, LeftType
<1>11. CASE FillAsset
  <2>1. PpType'
    <3>1. ASSUME NEW a \in assets, pp' = [pp EXCEPT !.pc = "proxy", !.master = a.master]
          PROVE  PpType'
      <4>1. a.master \in Master
        BY DEF DbType, Asset
      <4> QED
        BY <1>11, <3>1, <4>1 DEF FillAsset, PpType, HasJob, Position
    <3> QED
      BY <1>11, <3>1, DoneType DEF FillAsset
  <2> QED
    BY <1>11, <2>1, <1>enough DEF FillAsset
<1>12. CASE MakeProxy
  <2> DEFINE d == rec[pp.job].dir
  <2>1. PpType'
    <3>1. CASE pp' = [pp EXCEPT !.pc = "store"]
      BY <1>12, <3>1 DEF MakeProxy, PpType, HasJob, Position
    <3>2. ASSUME NEW ok \in BOOLEAN, pp' = [pp EXCEPT !.pc = "thumb", !.proxy = ok]
          PROVE  PpType'
      BY <1>12, <3>2 DEF MakeProxy, PpType, HasJob, Position
    <3> QED
      BY <1>12, <3>1, <3>2 DEF MakeProxy
  <2>2. DiskType'
    <3>1. CASE disk' = [disk EXCEPT ![d].derived = TRUE]
      <4>1. PICK e, content : e = d /\ content = [disk[e] EXCEPT !.derived = TRUE]
        OBVIOUS
      <4>2. e \in 1 .. MaxSessions => content \in Directory
        BY <4>1, DirectoryFields DEF DiskType
      <4>3. disk' = [disk EXCEPT ![e] = content]
        BY <3>1, <4>1
      <4> QED
        BY <4>2, <4>3, DirectoryWritten
    <3> QED
      BY <1>12, <3>1 DEF MakeProxy, DiskType
  <2>3. LeftType'
    <3>1. ASSUME NEW ok \in BOOLEAN, Transcodes(ok) PROVE LeftType'
      BY <3>1, SpendType DEF Transcodes, LeftType
    <3> QED
      BY <1>12, <3>1 DEF MakeProxy, LeftType
  <2> QED
    BY <1>12, <2>1, <2>2, <2>3, <1>others DEF MakeProxy, OthersType, DbType, JobsType
<1>13. CASE MakeThumbnail
  <2> DEFINE d == rec[pp.job].dir
  <2>1. PICK ok \in BOOLEAN :
          /\ Transcodes(ok)
          /\ disk' = [disk EXCEPT ![d].there = TRUE, ![d].derived = TRUE]
          /\ pp' = [pp EXCEPT !.pc = "store", !.thumb = ok]
    BY <1>13 DEF MakeThumbnail
  <2>2. PpType'
    BY <1>13, <2>1 DEF MakeThumbnail, PpType, HasJob, Position
  <2>3. DiskType'
    <3>1. PICK e, content :
            e = d /\ content = [disk[e] EXCEPT !.there = TRUE, !.derived = TRUE]
      OBVIOUS
    <3>2. e \in 1 .. MaxSessions => content \in Directory
      BY <3>1, DirectoryFields DEF DiskType
    <3>3. disk' = [disk EXCEPT ![e] = content]
      BY <2>1, <3>1
    <3> QED
      BY <3>2, <3>3, DirectoryWritten
  <2>4. LeftType'
    BY <2>1, SpendType DEF Transcodes, LeftType
  <2> QED
    BY <1>13, <2>2, <2>3, <2>4, <1>others DEF MakeThumbnail, OthersType, DbType, JobsType
<1>14. CASE CreateAsset
  <2>1. PpType'
    BY <1>14, DoneType DEF CreateAsset
  <2>2. assets' \in SUBSET Asset
    <3>1. pp.job \in Recs
      BY <1>14 DEF CreateAsset, PpType, HasJob
    <3>2. ASSUME NEW at \in Recs
          PROVE  [rec |-> pp.job, at |-> at, master |-> pp.master,
                  proxy |-> pp.proxy, thumb |-> pp.thumb] \in Asset
      BY <3>1, PpFields DEF Asset
    <3> QED
      BY <1>14, <3>2 DEF CreateAsset, DbType
  <2> QED
    BY <1>14, <2>1, <2>2, <1>others DEF CreateAsset, OthersType, DbType, JobsType, DiskType,
       LeftType
<1>15. CASE UpdateAsset
  <2>1. PpType'
    BY <1>15, DoneType DEF UpdateAsset
  <2>2. assets' \in SUBSET Asset
    BY <1>15, UpdatedType DEF UpdateAsset, DbType
  <2> QED
    BY <1>15, <2>1, <2>2, <1>others DEF UpdateAsset, OthersType, DbType, JobsType, DiskType,
       LeftType
<1> QED
  BY <1>1, <1>2, <1>3, <1>4, <1>5, <1>6, <1>7, <1>8, <1>9, <1>10, <1>11, <1>12, <1>13,
     <1>14, <1>15
  DEF PostProcessorNext, PostProcessorStep

-----------------------------------------------------------------------------
(* The rest of the invariant.                                              *)

LEMMA WorkInit == Init => WorkInv
BY DEF Init, WorkInv, RowInv, DeletionInv, ClosedWork, CatalogueIsSound, Down, Idle,
       NoDeletion

\* A step that closes rows, or deletes closed ones, leaves the work closed.
LEMMA ClosedKept ==
  ASSUME TypeInv, ClosedWork, UNCHANGED <<jobs, pp, todo>>,
         \A r \in Recs : Closed(r) => Closed(r)',
         finished' # 0 => Closed(finished)'
  PROVE  ClosedWork'
<1>1. ASSUME NEW k \in DOMAIN jobs PROVE Closed(jobs[k])'
  <2>1. jobs[k] \in Recs
    BY DEF TypeInv, JobsType
  <2> QED
    BY <2>1 DEF ClosedWork, Closed
<1>2. pp.job # 0 => Closed(pp.job)'
  BY PpFields DEF TypeInv, ClosedWork, Closed, Recs
<1>3. \A r \in todo : Closed(r)'
  BY DEF TypeInv, PpType, ClosedWork, Closed
<1> QED
  BY <1>1, <1>2, <1>3 DEF ClosedWork, Closed

LEMMA WorkIngest == TypeInv /\ WorkInv /\ IngestNext => WorkInv'
<1> SUFFICES ASSUME TypeInv, WorkInv, IngestNext PROVE WorkInv'
  OBVIOUS
<1> USE DEF WorkInv, workerVars, apiVars, ppVars
<1>types. rec \in [Recs -> Recording] /\ session \in Nat /\ capturing \in 0 .. MaxRecs
  BY LibraryAssumption DEF TypeInv, DbType, WorkerType
<1>1. CASE Connect \/ Disconnect \/ UndoStatus
  <2>1. RowInv' /\ DeletionInv'
    BY <1>1, <1>types DEF Connect, Disconnect, UndoStatus, RowInv, DeletionInv
  <2>2. ClosedWork'
    BY <1>1 DEF Connect, Disconnect, UndoStatus, ClosedWork, Closed
  <2> QED
    BY <1>1, <2>1, <2>2 DEF Connect, Disconnect, UndoStatus, CatalogueIsSound
<1>2. ASSUME NEW r \in Recs, StartRecording(r) PROVE WorkInv'
  <2>1. PICK row : /\ row.st = "recording" /\ row.dir = session
                   /\ rec' = [rec EXCEPT ![r] = row]
    BY <1>2 DEF StartRecording
  <2>2. rec[r].st = "new" /\ capturing' = r /\ UNCHANGED <<session, live, del, assets>>
    BY <1>2 DEF StartRecording
  <2>3. RowInv'
    BY <1>2, <1>types, <2>1, <2>2 DEF RowInv, DeletionInv, StartRecording
  <2>4. DeletionInv'
    BY <1>types, <2>1, <2>2 DEF DeletionInv
  <2>5. \A q \in Recs : Closed(q) => Closed(q)'
    BY <1>types, <2>1, <2>2 DEF Closed
  <2>6. ClosedWork'
    BY <1>2, <2>5, ClosedKept DEF StartRecording
  <2>7. CatalogueIsSound'
    BY <1>types, <2>1, <2>2 DEF CatalogueIsSound, TypeInv, DbType, Asset
  <2> QED
    BY <2>3, <2>4, <2>6, <2>7
<1>3. CASE WriteSegment
  <2>1. \A q \in Recs : rec'[q].st = rec[q].st /\ rec'[q].dir = rec[q].dir
    BY <1>3, <1>types DEF WriteSegment, Recording
  <2>2. RowInv' /\ DeletionInv'
    BY <1>3, <1>types, <2>1 DEF WriteSegment, RowInv, DeletionInv, TypeInv, ApiType,
       Deletion, Recs
  <2>3. ClosedWork'
    BY <1>3, <2>1, ClosedKept DEF WriteSegment, ClosedWork, Closed, TypeInv, WorkerType, Recs
  <2>4. CatalogueIsSound'
    BY <1>3, <2>1 DEF WriteSegment, CatalogueIsSound, TypeInv, DbType, Asset
  <2> QED
    BY <2>2, <2>3, <2>4
<1>4. ASSUME NEW st,
             capturing \in Recs, capturing' = 0,
             st \in {"completed", "failed", rec[capturing].st},
             rec[capturing].st = "gone" => st = "gone",
             UNCHANGED <<assets, session, del, jobs, pp, todo>>,
             live' => live,
             finished' = finished \/ (finished' = capturing /\ st = "completed"),
             rec' = [rec EXCEPT ![capturing].st = st]
      PROVE  WorkInv'
  <2>1. rec[capturing].st \in {"recording", "gone"}
    BY <1>4, LibraryAssumption DEF RowInv, Recs
  <2>2. \A q \in Recs : rec'[q].dir = rec[q].dir /\ (q # capturing => rec'[q].st = rec[q].st)
    BY <1>4, <1>types, <2>1 DEF Recording
  <2>3. rec'[capturing].st = st
    BY <1>4, <1>types, <2>1 DEF Recording
  <2>4. RowInv'
    BY <1>4, <2>1, <2>2 DEF RowInv
  <2>5. DeletionInv'
    BY <1>4, <2>1, <2>2, <2>3 DEF DeletionInv, TypeInv, ApiType, Deletion
  <2>6. \A q \in Recs : Closed(q) => Closed(q)'
    BY <1>4, <2>1, <2>2, <2>3 DEF Closed
  <2>7. ClosedWork'
    <3>1. finished' # 0 => finished' \in Recs /\ rec'[finished'].st \in {"completed", "gone"}
      BY <1>4, <2>1, <2>3, <2>6 DEF ClosedWork, Closed, TypeInv, WorkerType, Recs
    <3> QED
      BY <1>4, <2>6, <3>1, ClosedKept DEF Closed
  <2>8. CatalogueIsSound'
    BY <1>4, <2>1, <2>2 DEF CatalogueIsSound, TypeInv, DbType, Asset
  <2> QED
    BY <2>4, <2>5, <2>7, <2>8
<1>5. CASE FinishRecording
  <2>1. capturing \in Recs
    BY <1>5, <1>types DEF FinishRecording, Recs
  <2>2. CASE Exists(capturing)
    BY <1>4, <1>5, <2>1, <2>2 DEF FinishRecording, Exists
  <2>3. CASE ~Exists(capturing)
    <3>1. rec' = [rec EXCEPT ![capturing].st = rec[capturing].st]
      BY <1>5, <1>types, <2>1, <2>3 DEF FinishRecording, Recording
    <3>2. finished' = finished
      BY <1>5, <2>3 DEF FinishRecording
    <3> QED
      BY <1>4, <1>5, <2>1, <3>1, <3>2 DEF FinishRecording
  <2> QED
    BY <2>2, <2>3
<1>6. CASE Announce
  <2>1. ClosedWork'
    <3>1. finished \in Recs /\ Closed(finished)
      BY <1>6 DEF Announce, TypeInv, WorkerType, Recs, ClosedWork
    <3>2. \A k \in DOMAIN jobs' : Closed(jobs'[k])
      BY <1>6, <3>1 DEF Announce, TypeInv, JobsType, ClosedWork
    <3> QED
      BY <1>6, <3>2 DEF Announce, ClosedWork, Closed
  <2> QED
    <3>1. UNCHANGED <<session, live, capturing, rec, del, assets>>
      BY <1>6 DEF Announce
    <3> QED
      BY <2>1, <3>1 DEF RowInv, DeletionInv, CatalogueIsSound
<1>7. CASE LoseSession
  <2>1. /\ capturing \in Recs /\ capturing' = 0 /\ live' = FALSE
        /\ UNCHANGED <<assets, session, del, jobs, pp, todo, finished>>
    BY <1>7, <1>types DEF LoseSession, Recs
  <2>2. CASE rec' = rec
    <3>1. rec' = [rec EXCEPT ![capturing].st = rec[capturing].st]
      BY <1>types, <2>1, <2>2 DEF Recording
    <3> QED
      BY <1>4, <2>1, <3>1
  <2>3. CASE Exists(capturing) /\ rec' = [rec EXCEPT ![capturing].st = "failed"]
    BY <1>4, <2>1, <2>3 DEF Exists
  <2> QED
    BY <1>7, <2>2, <2>3 DEF LoseSession
<1> QED
  BY <1>1, <1>2, <1>3, <1>5, <1>6, <1>7 DEF IngestNext

LEMMA WorkPp == TypeInv /\ WorkInv /\ PostProcessorNext => WorkInv'
<1> SUFFICES ASSUME TypeInv, WorkInv, PostProcessorNext PROVE WorkInv'
  OBVIOUS
<1> USE DEF WorkInv, libraryVars, workerVars, apiVars
<1>1. UNCHANGED libraryVars
  BY DEF PostProcessorNext, PostProcessorStep, StartUp, PostProcessorDies, StartBackfill,
     StartQueue, NextOfBatch, PopJob, LoadRecording, ListSegments, BeginConcat,
     FinishConcat, FillAsset, MakeProxy, MakeThumbnail, CreateAsset, UpdateAsset
<1>2. RowInv' /\ DeletionInv'
  BY <1>1 DEF RowInv, DeletionInv
<1>3. ClosedWork'
  <2>1. /\ \A k \in DOMAIN jobs' : \E i \in DOMAIN jobs : jobs'[k] = jobs[i]
        /\ \A r \in todo' : r \in todo \/ Closed(r)
        /\ pp'.job # 0 => \/ pp'.job = pp.job
                          \/ pp'.job \in todo
                          \/ \E i \in DOMAIN jobs : pp'.job = jobs[i]
    <3>1. ASSUME UNCHANGED <<jobs, todo>>, pp'.job \in {0, pp.job} PROVE <2>1!:
      BY <3>1
    <3>2. CASE StartUp
      <4>1. \A r \in Newest(Uncatalogued) : Closed(r)
        BY NewestType DEF Uncatalogued, Closed
      <4> QED
        BY <3>2, <4>1 DEF StartUp, Idle
    <3>3. CASE PostProcessorDies
      <4>1. Down.job = 0
        BY DEF Down, Idle
      <4> QED
        BY <3>3, <4>1 DEF PostProcessorDies
    <3>4. CASE StartBackfill
      <4>1. \A r \in MissingMedia : Closed(r)
        BY DEF MissingMedia, Closed, CatalogueIsSound
      <4> QED
        BY <3>4, <4>1 DEF StartBackfill, Idle
    <3>5. CASE StartQueue
      BY <3>5 DEF StartQueue, Idle
    <3>6. CASE NextOfBatch
      <4>1. PICK r \in todo : /\ pp' = [pp EXCEPT !.job = r, !.pc = IF pp.mode = "catalog" THEN "load" ELSE "fill"]
                              /\ todo' = todo \ {r}
        BY <3>6 DEF NextOfBatch
      <4>2. pp'.job = r
        BY <4>1 DEF TypeInv, PpType, Position
      <4> QED
        BY <3>6, <4>1, <4>2 DEF NextOfBatch
    <3>7. CASE PopJob
      <4>1. pp'.job = Head(jobs)
        BY <3>7 DEF PopJob, TypeInv, PpType, Position
      <4>2. jobs \in Seq(Recs) /\ jobs # <<>>
        BY <3>7 DEF PopJob, TypeInv, JobsType
      <4> QED
        BY <3>7, <4>1, <4>2 DEF PopJob
    <3>8. ASSUME Done PROVE pp'.job = 0
      BY <3>8 DEF Done, Idle
    <3>9. CASE LoadRecording \/ ListSegments \/ BeginConcat \/ FinishConcat
      BY <3>1, <3>8, <3>9
      DEF LoadRecording, ListSegments, BeginConcat, FinishConcat, TypeInv, PpType, Position
    <3>10. CASE FillAsset \/ MakeProxy \/ MakeThumbnail
      BY <3>1, <3>8, <3>10
      DEF FillAsset, MakeProxy, MakeThumbnail, TypeInv, PpType, Position
    <3>11. CASE CreateAsset \/ UpdateAsset
      BY <3>1, <3>8, <3>11 DEF CreateAsset, UpdateAsset
    <3> QED
      BY <3>2, <3>3, <3>4, <3>5, <3>6, <3>7, <3>9, <3>10, <3>11
      DEF PostProcessorNext, PostProcessorStep
  <2>2. rec' = rec /\ finished' = finished
    BY <1>1
  <2> QED
    BY <2>1, <2>2 DEF ClosedWork, Closed
<1>4. CatalogueIsSound'
  <2>1. rec' = rec
    BY <1>1
  <2>2. CASE assets' = assets
    BY <2>1, <2>2 DEF CatalogueIsSound
  <2>3. CASE CreateAsset
    <3>1. pp.job \in Recs
      BY <2>3 DEF CreateAsset, TypeInv, PpType, HasJob
    <3>2. Closed(pp.job)
      BY <3>1, LibraryAssumption DEF ClosedWork, Recs
    <3>3. Exists(pp.job) => rec[pp.job].st = "completed"
      BY <3>2 DEF Closed, Exists
    <3> QED
      BY <2>1, <2>2, <2>3, <3>3 DEF CreateAsset, CatalogueIsSound, Catalogued
  <2>4. CASE UpdateAsset
    <3> DEFINE new(a) == IF a.rec = pp.job
                           THEN [a EXCEPT !.proxy = @ \/ pp.proxy, !.thumb = @ \/ pp.thumb]
                           ELSE a
    <3>1. assets' = {new(a) : a \in assets}
      BY <2>4 DEF UpdateAsset
    <3>2. \A a \in assets : new(a).rec = a.rec
      BY DEF TypeInv, DbType, Asset
    <3> HIDE DEF new
    <3> QED
      BY <2>1, <3>1, <3>2 DEF CatalogueIsSound
  <2>5. assets' = assets \/ CreateAsset \/ UpdateAsset
    BY DEF PostProcessorNext, PostProcessorStep, StartUp, PostProcessorDies, StartBackfill,
       StartQueue, NextOfBatch, PopJob, LoadRecording, ListSegments, BeginConcat,
       FinishConcat, FillAsset, MakeProxy, MakeThumbnail
  <2> QED
    BY <2>2, <2>3, <2>4, <2>5
<1> QED
  BY <1>2, <1>3, <1>4

LEMMA NameWork ==
  ASSUME TypeInv, WorkInv, NEW d \in Deleters, NEW rs \in SUBSET Recs,
         \A r \in rs : Exists(r) /\ (r = capturing => del[d].chan),
         Name(d, rs)
  PROVE  WorkInv'
<1> USE DEF WorkInv, workerVars, ppVars
<1>1. UNCHANGED <<rec, assets, jobs, session, live, capturing, finished, pp, todo>>
  BY DEF Name
<1>2. PICK pc \in {"commit", "remove"} :
        del' = [del EXCEPT ![d] =
                          [pc |-> pc, todo |-> rs, targets |-> rs, seen |-> {},
                           chan |-> del[d].chan]]
  BY DEF Name
<1>3. \A e \in Deleters :
        /\ del'[e].chan = del[e].chan
        /\ \/ del'[e] = del[e]
           \/ /\ e = d /\ del'[e].pc # "query"
              /\ del'[e].todo = rs /\ del'[e].targets = rs
  BY <1>2 DEF TypeInv, ApiType
<1>4. RowInv'
  BY <1>1, <1>3 DEF RowInv
<1>5. DeletionInv'
  <2>1. \A r \in rs : rec[r].st # "new"
    BY DEF Exists
  <2> QED
    BY <1>1, <1>3, <2>1 DEF DeletionInv
<1>6. ClosedWork' /\ CatalogueIsSound'
  BY <1>1 DEF ClosedWork, Closed, CatalogueIsSound
<1> QED
  BY <1>4, <1>5, <1>6

LEMMA WorkApi == TypeInv /\ WorkInv /\ MediaApiNext => WorkInv'
<1> SUFFICES ASSUME TypeInv, WorkInv, MediaApiNext PROVE WorkInv'
  OBVIOUS
<1> USE DEF WorkInv, workerVars, ppVars
<1>1. ASSUME NEW d \in Deleters, NEW r \in Recs,
             DeleteRecording(d, r) \/ DeleteAsset(d, r)
      PROVE  WorkInv'
  <2>1. Name(d, {r}) /\ rec[r].st # "recording"
    BY <1>1 DEF DeleteRecording, DeleteAsset, Accept
  <2>2. Exists(r)
    BY <1>1 DEF DeleteRecording, DeleteAsset, Catalogued, CatalogueIsSound, Exists
  <2>3. r # capturing
    BY <2>1, <2>2, LibraryAssumption DEF RowInv, Recs, Exists
  <2>4. {r} \in SUBSET Recs /\ \A q \in {r} : Exists(q) /\ q # capturing
    BY <2>2, <2>3
  <2> HIDE DEF WorkInv
  <2> QED
    BY <2>1, <2>4, NameWork
<1>2. ASSUME NEW d \in Deleters, ListRecordings(d) PROVE WorkInv'
  <2> DEFINE rs == {r \in Recs : Exists(r)}
  <2>1. Name(d, rs) /\ del[d].chan
    BY <1>2 DEF ListRecordings, DeletionInv
  <2>2. rs \in SUBSET Recs /\ \A r \in rs : Exists(r)
    OBVIOUS
  <2> HIDE DEF rs
  <2> QED
    BY <2>1, <2>2, NameWork
<1>6. ASSUME NEW d \in Deleters, DeleteChannel(d) PROVE WorkInv'
  <2>1. UNCHANGED <<rec, assets, jobs, session, live, capturing, finished, pp, todo>>
    BY <1>6 DEF DeleteChannel
  <2>2. \A e \in Deleters : \/ del'[e] = del[e]
                            \/ del'[e].todo = {} /\ del'[e].targets = {} /\ del'[e].chan
    BY <1>6 DEF DeleteChannel, NoDeletion, TypeInv, ApiType
  <2>3. RowInv' /\ DeletionInv'
    BY <2>1, <2>2 DEF RowInv, DeletionInv
  <2> QED
    BY <2>1, <2>3 DEF ClosedWork, Closed, CatalogueIsSound
<1>3. ASSUME NEW d \in Deleters, NEW r \in Recs, RemoveMedia(d, r) PROVE WorkInv'
  <2>1. UNCHANGED <<rec, assets, jobs, session, live, capturing, finished, pp, todo>>
    BY <1>3 DEF RemoveMedia
  <2>2. \A e \in Deleters :
          /\ del'[e].todo \subseteq del[e].todo /\ del'[e].targets = del[e].targets
          /\ del'[e].chan = del[e].chan
          /\ del'[e].pc \in {del[e].pc, "commit"}
    BY <1>3 DEF RemoveMedia, TypeInv, ApiType, Deletion
  <2>3. RowInv' /\ DeletionInv'
    BY <2>1, <2>2 DEF RowInv, DeletionInv
  <2> QED
    BY <2>1, <2>3 DEF ClosedWork, Closed, CatalogueIsSound
<1>4. ASSUME NEW d \in Deleters, Commit(d) PROVE WorkInv'
  <2>1. UNCHANGED <<jobs, session, live, capturing, finished, pp, todo>>
    BY <1>4 DEF Commit
  <2>2. \A e \in Deleters :
          \/ del'[e] = del[e]
          \/ del'[e].pc = "free" /\ del'[e].todo = {} /\ del'[e].targets = {}
    BY <1>4 DEF Commit, NoDeletion, TypeInv, ApiType
  <2>3. CASE ~MayCommit(d)
    <3>1. UNCHANGED <<rec, assets>>
      BY <1>4, <2>3 DEF Commit
    <3>2. RowInv' /\ DeletionInv'
      BY <2>1, <2>2, <3>1 DEF RowInv, DeletionInv
    <3> QED
      BY <2>1, <3>1, <3>2 DEF ClosedWork, Closed, CatalogueIsSound
  <2>4. CASE MayCommit(d)
    <3>1. \A r \in Recs : /\ rec'[r].dir = rec[r].dir
                         /\ rec'[r].st = IF r \in del[d].targets THEN "gone" ELSE rec[r].st
      BY <1>4, <2>4 DEF Commit, TypeInv, DbType, Recording
    <3>2. assets' = {a \in assets : a.rec \notin del[d].targets}
      BY <1>4, <2>4 DEF Commit
    <3>3. RowInv'
      <4>1. \A r \in Recs : rec'[r].st # "new" => rec'[r].dir # 0
        BY <3>1 DEF RowInv, DeletionInv
      <4>2. ASSUME capturing # 0
            PROVE  /\ rec'[capturing].st \in {"recording", "gone"}
                   /\ \A e \in Deleters : capturing \in del'[e].targets => del'[e].chan
        <5>1. capturing \in Recs
          BY <4>2, LibraryAssumption DEF TypeInv, WorkerType, Recs
        <5> QED
          BY <2>2, <3>1, <4>2, <5>1 DEF RowInv
      <4> QED
        BY <2>1, <4>1, <4>2 DEF RowInv
    <3>4. DeletionInv'
      BY <2>2, <3>1 DEF DeletionInv, TypeInv, ApiType, Deletion
    <3>5. ClosedWork'
      <4>1. \A r \in Recs : Closed(r) => Closed(r)'
        BY <3>1 DEF Closed
      <4>2. finished' # 0 => Closed(finished)'
        BY <2>1, <4>1, LibraryAssumption DEF ClosedWork, Closed, TypeInv, WorkerType, Recs
      <4> QED
        BY <2>1, <4>1, <4>2, ClosedKept
    <3>6. CatalogueIsSound'
      BY <3>1, <3>2 DEF CatalogueIsSound, TypeInv, DbType, Asset
    <3> QED
      BY <3>3, <3>4, <3>5, <3>6
  <2> QED
    BY <2>3, <2>4
<1>5. CASE ApiDies
  <2>1. UNCHANGED <<rec, assets, jobs, session, live, capturing, finished, pp, todo>>
    BY <1>5 DEF ApiDies
  <2>2. \A e \in Deleters :
          del'[e].pc = "free" /\ del'[e].todo = {} /\ del'[e].targets = {}
    BY <1>5 DEF ApiDies, NoDeletion
  <2>3. RowInv' /\ DeletionInv'
    BY <2>1, <2>2 DEF RowInv, DeletionInv
  <2> QED
    BY <2>1, <2>3 DEF ClosedWork, Closed, CatalogueIsSound
<1> QED
  BY <1>1, <1>2, <1>3, <1>4, <1>5, <1>6 DEF MediaApiNext

-----------------------------------------------------------------------------
LEMMA Unchanged ==
  ASSUME TypeInv, WorkInv, UNCHANGED vars
  PROVE  TypeInv' /\ WorkInv'
<1> USE DEF vars, workerVars, apiVars, ppVars
<1>1. TypeInv'
  BY DEF TypeInv, DbType, JobsType, DiskType, WorkerType, ApiType, PpType, HasJob, LeftType
<1>2. WorkInv'
  BY DEF WorkInv, RowInv, DeletionInv, ClosedWork, Closed, CatalogueIsSound
<1> QED
  BY <1>1, <1>2

LEMMA Inductive == Spec => [](TypeInv /\ WorkInv)
<1>1. Init => TypeInv /\ WorkInv
  BY TypeInit, WorkInit
<1>2. TypeInv /\ WorkInv /\ [Next]_vars => (TypeInv /\ WorkInv)'
  BY TypeIngest, TypeApi, TypePp, WorkIngest, WorkApi, WorkPp, Unchanged DEF Next
<1> QED
  BY <1>1, <1>2, PTL DEF Spec

\* Rows, files, lists and positions have their types in every state.
THEOREM LibraryTypeCorrect == Spec => []TypeOK
<1>1. TypeInv => TypeOK
  BY TypeInvMeaning
<1> QED
  BY <1>1, Inductive, PTL

\* However often a recording is queued, found by the start-up batch, retried
\* or deleted meanwhile, it never gets two assets, and never one before it is
\* completed (CatalogueIsSound).
THEOREM OneAssetPerRecording == Spec => []CatalogueIsSound
<1>1. WorkInv => CatalogueIsSound
  BY DEF WorkInv
<1> QED
  BY <1>1, Inductive, PTL

-----------------------------------------------------------------------------
(* Captures and deletions.  With one recording to a session no two         *)
(* recordings have the same directory; with more the property fails.       *)

OwnDirectory ==
  /\ \A r \in Recs : rec[r].st # "new" => rec[r].dir \in 1 .. session
  /\ \A q, r \in Recs :
       rec[q].st # "new" /\ rec[r].st # "new" /\ rec[q].dir = rec[r].dir => q = r

\* Only rows change that keep their directory, or none.
LEMMA SameDirectories ==
  ASSUME OwnDirectory, session' \in Nat, session \in Nat, session <= session',
         \A r \in Recs : /\ rec'[r].dir = rec[r].dir
                         /\ rec[r].st = "new" <=> rec'[r].st = "new"
  PROVE  OwnDirectory'
BY DEF OwnDirectory

\* The rows after a step of FinishRecording or LoseSession.
LEMMA CaptureEnds ==
  ASSUME TypeInv, WorkInv, FinishRecording \/ LoseSession
  PROVE  \A r \in Recs : /\ rec'[r].dir = rec[r].dir /\ rec'[r].base = rec[r].base
                         /\ rec'[r].n = rec[r].n
                         /\ rec[r].st = "new" <=> rec'[r].st = "new"
<1>1. capturing \in Recs /\ rec[capturing].st # "new"
  BY LibraryAssumption
  DEF FinishRecording, LoseSession, WorkInv, RowInv, TypeInv, WorkerType, Recs
<1>2. PICK st \in {"completed", "failed"} :
        rec' = rec \/ rec' = [rec EXCEPT ![capturing].st = st]
  BY DEF FinishRecording, LoseSession
<1> QED
  BY <1>1, <1>2 DEF TypeInv, DbType, Recording

LEMMA OwnIngest ==
  ASSUME MaxPerSession = 1
  PROVE  TypeInv /\ WorkInv /\ OwnDirectory /\ IngestNext => OwnDirectory'
<1> SUFFICES ASSUME TypeInv, WorkInv, OwnDirectory, IngestNext PROVE OwnDirectory'
  OBVIOUS
<1> USE DEF workerVars, apiVars, ppVars
<1>types. /\ rec \in [Recs -> Recording] /\ session \in Nat /\ capturing \in 0 .. MaxRecs
          /\ session <= MaxSessions
  BY LibraryAssumption DEF TypeInv, DbType, WorkerType
<1>1. CASE Connect \/ Disconnect \/ UndoStatus \/ Announce
  <2>1. rec' = rec
    BY <1>1 DEF Connect, Disconnect, UndoStatus, Announce
  <2>2. session' \in {session, session + 1}
    BY <1>1 DEF Connect, Disconnect, UndoStatus, Announce
  <2> QED
    BY <1>types, <2>1, <2>2, SameDirectories
<1>2. ASSUME NEW r \in Recs, StartRecording(r) PROVE OwnDirectory'
  <2>1. PICK row : /\ row.st = "recording" /\ row.dir = session
                   /\ rec' = [rec EXCEPT ![r] = row]
    BY <1>2 DEF StartRecording
  <2>2. OfSession = {}
    <3>1. IsFiniteSet(Recs)
      BY FS_Interval, LibraryAssumption DEF Recs
    <3>2. IsFiniteSet(OfSession)
      BY <3>1, FS_Subset DEF OfSession
    <3>3. Cardinality(OfSession) = 0
      BY <1>2, <3>2, FS_CardinalityType DEF StartRecording
    <3> QED
      BY <3>2, <3>3, FS_EmptySet
  <2>3. session \in 1 .. MaxSessions /\ session' = session
    BY <1>2, <1>types DEF StartRecording, WorkInv, RowInv
  <2> QED
    BY <1>types, <2>1, <2>2, <2>3 DEF OwnDirectory, OfSession
<1>3. CASE WriteSegment
  <2>1. \A q \in Recs : rec'[q].st = rec[q].st /\ rec'[q].dir = rec[q].dir
    BY <1>3, <1>types DEF WriteSegment, Recording
  <2> QED
    BY <1>3, <1>types, <2>1, SameDirectories DEF WriteSegment
<1>4. CASE FinishRecording \/ LoseSession
  <2>1. session' = session
    BY <1>4 DEF FinishRecording, LoseSession
  <2> QED
    BY <1>4, <1>types, <2>1, CaptureEnds, SameDirectories
<1> QED
  BY <1>1, <1>2, <1>3, <1>4 DEF IngestNext

LEMMA OwnApi == TypeInv /\ WorkInv /\ OwnDirectory /\ MediaApiNext => OwnDirectory'
<1> SUFFICES ASSUME TypeInv, WorkInv, OwnDirectory, MediaApiNext PROVE OwnDirectory'
  OBVIOUS
<1> USE DEF workerVars, ppVars
<1>1. rec \in [Recs -> Recording] /\ session \in Nat
  BY LibraryAssumption DEF TypeInv, DbType, WorkerType
<1>2. ASSUME NEW d \in Deleters, Commit(d) PROVE OwnDirectory'
  <2>1. \A r \in Recs : rec'[r].dir = rec[r].dir /\ (rec[r].st = "new" <=> rec'[r].st = "new")
    BY <1>1, <1>2 DEF Commit, Recording, WorkInv, DeletionInv
  <2> QED
    BY <1>1, <1>2, <2>1, SameDirectories DEF Commit
<1>3. CASE UNCHANGED <<rec, session>>
  BY <1>3 DEF OwnDirectory
<1>4. ASSUME NEW d \in Deleters, NEW r \in Recs,
             DeleteRecording(d, r) \/ DeleteAsset(d, r) \/ RemoveMedia(d, r)
      PROVE  OwnDirectory'
  BY <1>3, <1>4 DEF DeleteRecording, DeleteAsset, Accept, Name, RemoveMedia
<1>5. ASSUME NEW d \in Deleters, DeleteChannel(d) \/ ListRecordings(d)
      PROVE  OwnDirectory'
  BY <1>3, <1>5 DEF DeleteChannel, ListRecordings, Name
<1>6. CASE ApiDies
  BY <1>3, <1>6 DEF ApiDies
<1> QED
  BY <1>2, <1>4, <1>5, <1>6 DEF MediaApiNext

LEMMA OwnPp == OwnDirectory /\ PostProcessorNext => OwnDirectory'
<1>1. PostProcessorNext => UNCHANGED <<rec, session>>
  BY DEF PostProcessorNext, PostProcessorStep, StartUp, PostProcessorDies, StartBackfill,
     StartQueue, NextOfBatch, PopJob, LoadRecording, ListSegments, BeginConcat,
     FinishConcat, FillAsset, MakeProxy, MakeThumbnail, CreateAsset, UpdateAsset,
     libraryVars, workerVars
<1> QED
  BY <1>1 DEF OwnDirectory

LEMMA OwnInductive ==
  ASSUME MaxPerSession = 1
  PROVE  Spec => [](TypeInv /\ WorkInv /\ OwnDirectory)
<1>1. Init => OwnDirectory
  BY DEF Init, OwnDirectory
<1>2. TypeInv /\ WorkInv /\ OwnDirectory /\ [Next]_vars => OwnDirectory'
  <2>1. OwnDirectory /\ UNCHANGED vars => OwnDirectory'
    BY DEF OwnDirectory, vars, workerVars
  <2> QED
    BY <2>1, OwnIngest, OwnApi, OwnPp DEF Next
<1> QED
  BY <1>1, <1>2, Inductive, PTL DEF Spec

\* Neither worker takes a directory away.
LEMMA DirectoriesIngest ==
  ASSUME TypeInv, IngestNext
  PROVE  \A d \in 1 .. MaxSessions : disk[d].there => disk'[d].there
<1> USE DEF apiVars, ppVars, workerVars
<1>1. ASSUME NEW r \in Recs, StartRecording(r)
      PROVE  \A d \in 1 .. MaxSessions : disk[d].there => disk'[d].there
  BY <1>1 DEF StartRecording, TypeInv, DiskType, Directory
<1>2. CASE WriteSegment
  <2>1. PICK d, parts : disk' = [disk EXCEPT ![d].parts = parts]
    BY <1>2 DEF WriteSegment
  <2> QED
    BY <2>1 DEF TypeInv, DiskType, Directory
<1>3. CASE disk' = disk
  BY <1>3
<1> QED
  BY <1>1, <1>2, <1>3
  DEF IngestNext, Connect, Disconnect, UndoStatus, FinishRecording, Announce, LoseSession

LEMMA DirectoriesPp ==
  ASSUME TypeInv, PostProcessorNext
  PROVE  \A d \in 1 .. MaxSessions : disk[d].there => disk'[d].there
<1> USE DEF libraryVars
<1>1. CASE disk' = disk
  BY <1>1
<1>2. CASE BeginConcat
  BY <1>2 DEF BeginConcat, TypeInv, DiskType, Directory
<1>3. CASE FinishConcat
  <2> DEFINE d == rec[pp.job].dir
             content == Content(d, pp.found)
  <2>1. disk' = disk \/ disk' = [disk EXCEPT ![d].master = content]
    BY <1>3 DEF FinishConcat
  <2> HIDE DEF d, content
  <2> QED
    BY <2>1 DEF TypeInv, DiskType, Directory
<1>4. CASE MakeProxy
  <2> DEFINE d == rec[pp.job].dir
  <2>1. disk' = disk \/ disk' = [disk EXCEPT ![d].derived = TRUE]
    BY <1>4 DEF MakeProxy
  <2> HIDE DEF d
  <2> QED
    BY <2>1 DEF TypeInv, DiskType, Directory
<1>5. CASE MakeThumbnail
  <2>1. PICK e : e = rec[pp.job].dir
    OBVIOUS
  <2>2. disk' = [disk EXCEPT ![e].there = TRUE, ![e].derived = TRUE]
    BY <1>5, <2>1 DEF MakeThumbnail
  <2>3. ASSUME NEW d \in 1 .. MaxSessions
        PROVE  disk'[d].there \in {TRUE, disk[d].there}
    <3>1. CASE d = e
      BY <2>2, <3>1 DEF TypeInv, DiskType, Directory
    <3>2. CASE d # e
      BY <2>2, <3>2 DEF TypeInv, DiskType
    <3> QED
      BY <3>1, <3>2
  <2> QED
    BY <2>3
<1> QED
  BY <1>1, <1>2, <1>3, <1>4, <1>5
  DEF PostProcessorNext, PostProcessorStep, StartUp, PostProcessorDies, StartBackfill,
   StartQueue, NextOfBatch, PopJob, LoadRecording, ListSegments, FillAsset, CreateAsset,
   UpdateAsset

\* The directory of a capture is removed under the name of its recording.
LEMMA CaptureApi ==
  ASSUME TypeInv, WorkInv, OwnDirectory, MediaApiNext, NEW r \in Recs, capturing = r,
         rec[r].dir \in 1 .. MaxSessions,
         disk[rec[r].dir].there, ~disk'[rec[r].dir].there
  PROVE  \E d \in Deleters : del[d].chan /\ r \in del[d].targets
<1>1. PICK d \in Deleters, q \in Recs : RemoveMedia(d, q)
  BY DEF MediaApiNext, DeleteRecording, DeleteAsset, Accept, Name, DeleteChannel,
     ListRecordings, Commit, ApiDies
<1>2. capturing # 0 /\ rec[r].st # "new"
  BY LibraryAssumption DEF WorkInv, RowInv, Recs
<1>3. q \in del[d].targets /\ rec[q].st # "new"
  BY <1>1 DEF RemoveMedia, WorkInv, DeletionInv
<1>4. rec[q].dir = rec[r].dir
  <2>1. disk' = disk \/ disk' = [disk EXCEPT ![rec[q].dir] = NoDirectory]
    BY <1>1 DEF RemoveMedia
  <2> QED
    BY <2>1 DEF TypeInv, DiskType
<1>5. q = r
  BY <1>2, <1>3, <1>4 DEF OwnDirectory
<1> QED
  BY <1>2, <1>3, <1>5 DEF WorkInv, RowInv

\* With one recording to a session, nothing the post-process worker does and
\* no deletion of a recording or an asset, before or after any step of the
\* worker, removes the directory of a running capture; a deletion of the
\* whole channel does so only if its query has named the recording
\* (CaptureKeepsDirectory).
THEOREM CaptureSurvivesDeletions ==
  ASSUME MaxPerSession = 1
  PROVE  Spec => CaptureKeepsDirectory
<1> DEFINE Kept == \A r \in Recs :
             /\ capturing = r /\ disk[rec[r].dir].there /\ ~disk'[rec[r].dir].there
             => \E d \in Deleters : del[d].chan /\ r \in del[d].targets
<1>1. TypeInv /\ WorkInv /\ OwnDirectory /\ [Next]_vars => [Kept]_vars
  <2> SUFFICES ASSUME TypeInv, WorkInv, OwnDirectory, Next, NEW r \in Recs, capturing = r,
                      disk[rec[r].dir].there, ~disk'[rec[r].dir].there
               PROVE  \E d \in Deleters : del[d].chan /\ r \in del[d].targets
    OBVIOUS
  <2>1. rec[r].dir \in 1 .. MaxSessions
    <3>1. rec[r].st # "new"
      BY LibraryAssumption DEF WorkInv, RowInv, Recs
    <3>2. rec[r].dir \in 1 .. session /\ session \in 0 .. MaxSessions
      BY <3>1 DEF OwnDirectory, TypeInv, WorkerType
    <3> QED
      BY <3>2, LibraryAssumption
  <2>2. MediaApiNext
    BY <2>1, DirectoriesIngest, DirectoriesPp DEF Next
  <2> QED
    BY <2>1, <2>2, CaptureApi
<1>2. Spec => [](TypeInv /\ WorkInv /\ OwnDirectory)
  BY OwnInductive
<1> QED
  BY <1>1, <1>2, PTL DEF Spec, CaptureKeepsDirectory
=============================================================================
