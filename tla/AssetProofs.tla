----------------------------- MODULE AssetProofs ----------------------------
(***************************************************************************)
(* An asset holds its recording: the segments that were written for it,    *)
(* all of them and no others.  Proved for every recording that shares its  *)
(* session directory with no other, whatever else happens: kills at any    *)
(* point, retries, transcodings and removals that fail, deletions of other *)
(* recordings, any number of them at once.                                 *)
(***************************************************************************)
EXTENDS MediaLibraryProofs

Started(r) == rec[r].st # "new"

Alone(r) ==
  /\ Started(r)
  /\ \A q \in Recs : q # r /\ Started(q) => rec[q].dir # rec[r].dir

\* A recording nobody has asked to delete, in a directory of its own.
Intact(r) == Alone(r) /\ r \notin asked

Segments(r) == disk[rec[r].dir].parts

HoldsAll(r, master) == Media(rec[r].dir, master) = Segments(r)

-----------------------------------------------------------------------------
(* The invariant.                                                          *)

\* A directory that no recording has been given yet is empty; numbering in a
\* directory begins at 1; what an intact recording has written is there.
SegmentsInv ==
  /\ \A r \in Recs : Started(r) => rec[r].dir \in 1 .. session
  /\ \A d \in 1 .. MaxSessions :
       (\A q \in Recs : Started(q) => rec[q].dir # d) => disk[d].parts = {}
  /\ \A r \in Recs : Alone(r) => rec[r].base = 0
  /\ \A r \in Recs : Intact(r) => Segments(r) = (1 .. rec[r].n) \X {r}

\* What a deletion is at has been asked for, and so has what is gone.
AskedInv ==
  /\ \A d \in Deleters : del[d].targets \subseteq asked
  /\ \A r \in Recs : rec[r].st = "gone" => r \in asked

\* What the post-process worker has found is all there is, and the master it
\* goes on with holds all of it.  It does not open master.ts of a recording
\* that has an asset.
InHandInv ==
  /\ pp.pc \in {"list", "concat"} => ~Catalogued(pp.job)
  /\ pp.pc = "concat" /\ Intact(pp.job) => pp.found = FileNumbers(rec[pp.job].dir)
  /\ pp.pc \in {"proxy", "thumb", "store"} /\ Intact(pp.job) =>
       HoldsAll(pp.job, pp.master)

MasterInv == \A a \in assets : Intact(a.rec) => HoldsAll(a.rec, a.master)

AssetInv == SegmentsInv /\ AskedInv /\ InHandInv /\ MasterInv

-----------------------------------------------------------------------------
(* Lemmas.                                                                 *)

LEMMA DirectoryOfStarted ==
  ASSUME TypeInv, SegmentsInv, NEW r \in Recs, Started(r)
  PROVE  rec[r].dir \in 1 .. MaxSessions
<1>1. session \in 0 .. MaxSessions
  BY DEF TypeInv, WorkerType
<1>2. rec[r].dir \in 1 .. session
  BY DEF SegmentsInv
<1>3. QED
  BY <1>1, <1>2, LibraryAssumption

\* A step that leaves segments and master.ts of r alone, or after which r is
\* no longer intact.
Keeps(r) ==
  Intact(r)' =>
    /\ Intact(r) /\ rec'[r].dir = rec[r].dir
    /\ disk'[rec[r].dir].parts = disk[rec[r].dir].parts
    /\ disk'[rec[r].dir].master = disk[rec[r].dir].master

LEMMA MediaKept ==
  ASSUME NEW r, NEW master, Keeps(r), Intact(r)'
  PROVE  /\ Intact(r)
         /\ HoldsAll(r, master) <=> HoldsAll(r, master)'
         /\ FileNumbers(rec[r].dir) = FileNumbers(rec[r].dir)'
BY DEF Keeps, HoldsAll, Segments, Media, Content, FileNumbers

LEMMA MasterKept ==
  ASSUME MasterInv, assets' \subseteq assets, \A a \in assets' : Keeps(a.rec)
  PROVE  MasterInv'
<1>1. ASSUME NEW a \in assets', Intact(a.rec)'
      PROVE  HoldsAll(a.rec, a.master)'
  <2>1. Intact(a.rec) /\ (HoldsAll(a.rec, a.master) <=> HoldsAll(a.rec, a.master)')
    BY <1>1, MediaKept
  <2>2. QED
    BY <1>1, <2>1 DEF MasterInv
<1>2. QED
  BY <1>1 DEF MasterInv

LEMMA InHandKept ==
  ASSUME InHandInv, pp' = pp, assets' \subseteq assets,
         pp.pc \in {"concat", "proxy", "thumb", "store"} => Keeps(pp.job)
  PROVE  InHandInv'
<1>1. pp.pc \in {"list", "concat"} => ~Catalogued(pp.job)'
  BY DEF InHandInv, Catalogued
<1>2. ASSUME pp.pc = "concat", Intact(pp.job)'
      PROVE  pp.found = FileNumbers(rec[pp.job].dir)'
  <2>1. Intact(pp.job) /\ FileNumbers(rec[pp.job].dir) = FileNumbers(rec[pp.job].dir)'
    BY <1>2, MediaKept
  <2>2. QED
    BY <1>2, <2>1 DEF InHandInv
<1>3. ASSUME pp.pc \in {"proxy", "thumb", "store"}, Intact(pp.job)'
      PROVE  HoldsAll(pp.job, pp.master)'
  <2>1. Intact(pp.job) /\ (HoldsAll(pp.job, pp.master) <=> HoldsAll(pp.job, pp.master)')
    BY <1>3, MediaKept
  <2>2. QED
    BY <1>3, <2>1 DEF InHandInv
<1>4. QED
  BY <1>1, <1>2, <1>3 DEF InHandInv

\* Assets and the recording in hand are closed: a step of the ingest worker
\* or the API only has to leave intact closed recordings alone.
LEMMA ClosedAreKept ==
  ASSUME TypeInv, WorkInv, AssetInv, pp' = pp, assets' \subseteq assets,
         \A r \in Recs : Closed(r) => Keeps(r)
  PROVE  MasterInv' /\ InHandInv'
<1>1. \A a \in assets' : Keeps(a.rec)
  <2>1. \A a \in assets : a.rec \in Recs /\ Closed(a.rec)
    BY DEF TypeInv, DbType, Asset, WorkInv, CatalogueIsSound, Closed
  <2>2. QED
    BY <2>1
<1>2. pp.pc \in {"concat", "proxy", "thumb", "store"} => Keeps(pp.job)
  <2> SUFFICES ASSUME pp.pc \in {"concat", "proxy", "thumb", "store"}
               PROVE  Keeps(pp.job)
    OBVIOUS
  <2>1. pp.job \in Recs
    BY DEF TypeInv, PpType, HasJob
  <2>2. Closed(pp.job)
    BY <2>1, LibraryAssumption DEF WorkInv, ClosedWork, Recs
  <2>3. QED
    BY <2>1, <2>2
<1>3. QED
  BY <1>1, <1>2, MasterKept, InHandKept DEF AssetInv

\* Rows that keep directory and segments, and stay started or not started.
LEMMA AloneKept ==
  ASSUME \A r \in Recs : /\ rec'[r].dir = rec[r].dir
                         /\ Started(r)' <=> Started(r),
         asked \subseteq asked'
  PROVE  \A r \in Recs : /\ Alone(r)' <=> Alone(r)
                         /\ Intact(r)' => Intact(r)
BY DEF Alone, Intact, Started

\* Such a step, when it takes segments only from what deletions name.
LEMMA SegmentsKept ==
  ASSUME TypeInv, SegmentsInv, asked \subseteq asked', session' \in Nat, session <= session',
         \A r \in Recs : /\ rec'[r].dir = rec[r].dir /\ rec'[r].base = rec[r].base
                         /\ rec'[r].n = rec[r].n
                         /\ Started(r)' <=> Started(r),
         \A d \in 1 .. MaxSessions : disk'[d].parts \in {disk[d].parts, {}},
         \A r \in Recs : Intact(r)' => disk'[rec[r].dir].parts = disk[rec[r].dir].parts
  PROVE  SegmentsInv'
<1>1. session \in Nat
  BY LibraryAssumption DEF TypeInv, WorkerType
<1>2. \A r \in Recs : /\ Alone(r)' <=> Alone(r)
                      /\ Intact(r)' => Intact(r)
  BY AloneKept
<1>3. \A r \in Recs : Started(r)' => rec'[r].dir \in 1 .. session'
  BY <1>1 DEF SegmentsInv
<1>4. \A d \in 1 .. MaxSessions :
        (\A q \in Recs : Started(q)' => rec'[q].dir # d) => disk'[d].parts = {}
  BY DEF SegmentsInv
<1>5. \A r \in Recs : Alone(r)' => rec'[r].base = 0
  BY <1>2 DEF SegmentsInv
<1>6. \A r \in Recs : Intact(r)' => disk'[rec'[r].dir].parts = (1 .. rec'[r].n) \X {r}
  BY <1>2 DEF SegmentsInv, Segments
<1>7. QED
  BY <1>3, <1>4, <1>5, <1>6 DEF SegmentsInv, Segments

-----------------------------------------------------------------------------
(* The ingest worker.                                                      *)

LEMMA AssetStart ==
  ASSUME TypeInv, WorkInv, AssetInv, NEW r \in Recs, StartRecording(r)
  PROVE  AssetInv'
<1> USE DEF workerVars, apiVars, ppVars
<1>1. PICK base \in {0} \cup {rec[q].base + rec[q].n : q \in OfSession \cap {r - 1}} :
        rec' = [rec EXCEPT ![r] = [st |-> "recording", dir |-> session,
                                   n |-> 0, base |-> base]]
  BY DEF StartRecording
<1>2. /\ rec[r].st = "new" /\ session \in 1 .. MaxSessions
      /\ UNCHANGED <<assets, session, asked, del, pp>>
      /\ disk' = [disk EXCEPT ![session].there = TRUE]
  BY LibraryAssumption DEF StartRecording, WorkInv, RowInv, TypeInv, WorkerType
<1>3. /\ rec'[r].st = "recording" /\ rec'[r].dir = session
      /\ rec'[r].n = 0 /\ rec'[r].base = base
      /\ \A q \in Recs : q # r => rec'[q] = rec[q]
  BY <1>1 DEF TypeInv, DbType
<1>4. \A d \in 1 .. MaxSessions : disk'[d].parts = disk[d].parts /\ disk'[d].master = disk[d].master
  BY <1>2 DEF TypeInv, DiskType, Directory
<1>5. \A q \in Recs : q # r /\ Alone(q)' => Alone(q) /\ (Intact(q)' => Intact(q))
  BY <1>2, <1>3 DEF Alone, Started, Intact
<1>6. Alone(r)' => OfSession = {}
  BY <1>2, <1>3 DEF Alone, Started, OfSession
<1>7. SegmentsInv'
  <2>1. \A q \in Recs : Started(q)' => rec'[q].dir \in 1 .. session'
    BY <1>2, <1>3 DEF SegmentsInv, AssetInv, Started
  <2>2. \A d \in 1 .. MaxSessions :
          (\A q \in Recs : Started(q)' => rec'[q].dir # d) => disk'[d].parts = {}
    BY <1>2, <1>3, <1>4 DEF SegmentsInv, AssetInv, Started
  <2>3. \A q \in Recs : Alone(q)' => rec'[q].base = 0
    BY <1>1, <1>3, <1>5, <1>6 DEF SegmentsInv, AssetInv
  <2>4. ASSUME NEW q \in Recs, q # r, Intact(q)'
        PROVE  disk'[rec'[q].dir].parts = (1 .. rec'[q].n) \X {q}
    <3>1. Intact(q) /\ Started(q)
      BY <1>5, <2>4 DEF Intact, Alone
    <3>2. rec[q].dir \in 1 .. MaxSessions
      BY <3>1, DirectoryOfStarted DEF AssetInv
    <3>3. QED
      BY <1>3, <1>4, <2>4, <3>1, <3>2 DEF SegmentsInv, AssetInv, Segments
  <2>5. Intact(r)' => disk'[rec'[r].dir].parts = (1 .. rec'[r].n) \X {r}
    <3>1. Intact(r)' => disk[session].parts = {}
      BY <1>2, <1>6 DEF SegmentsInv, AssetInv, OfSession, Started, Intact
    <3>2. (1 .. 0) \X {r} = {}
      OBVIOUS
    <3>3. QED
      BY <1>2, <1>3, <1>4, <3>1, <3>2
  <2>6. QED
    BY <2>1, <2>2, <2>3, <2>4, <2>5 DEF SegmentsInv, Segments
<1>8. \A q \in Recs : Closed(q) => Keeps(q)
  <2> SUFFICES ASSUME NEW q \in Recs, Closed(q), Intact(q)'
               PROVE  Keeps(q)
    BY DEF Keeps
  <2>1. q # r /\ Intact(q)
    BY <1>2, <1>5 DEF Closed, Intact
  <2>2. rec[q].dir \in 1 .. MaxSessions
    BY <2>1, DirectoryOfStarted DEF Intact, Alone, AssetInv
  <2>3. QED
    BY <1>3, <1>4, <2>1, <2>2 DEF Keeps
<1>9. AskedInv'
  BY <1>2, <1>3 DEF AssetInv, AskedInv
<1>10. QED
  BY <1>2, <1>7, <1>8, <1>9, ClosedAreKept DEF AssetInv

\* The segment goes to the directory of an open recording.  When that is
\* alone in it, its number is the next one.
LEMMA AssetWrite ==
  ASSUME TypeInv, WorkInv, AssetInv, WriteSegment
  PROVE  AssetInv'
<1> USE DEF workerVars, apiVars, ppVars
<1> DEFINE r  == capturing
           d  == rec[r].dir
           no == rec[r].base + rec[r].n + 1
<1>1. /\ r \in Recs /\ rec[r].st \in {"recording", "gone"}
      /\ UNCHANGED <<assets, session, capturing, asked, del, pp>>
      /\ disk' = [disk EXCEPT ![d].parts = {p \in @ : p[1] # no} \cup {<<no, r>>}]
      /\ rec' = [rec EXCEPT ![r].n = @ + 1]
  BY LibraryAssumption DEF WriteSegment, WorkInv, RowInv, TypeInv, WorkerType, Recs
<1>2. d \in 1 .. MaxSessions
  BY <1>1, DirectoryOfStarted DEF AssetInv, Started
<1>3. /\ \A q \in Recs : /\ rec'[q].st = rec[q].st /\ rec'[q].dir = rec[q].dir
                         /\ rec'[q].base = rec[q].base
                         /\ q # r => rec'[q].n = rec[q].n
      /\ rec'[r].n = rec[r].n + 1
  BY <1>1 DEF TypeInv, DbType, Recording
<1>4. /\ \A e \in 1 .. MaxSessions : e # d => disk'[e] = disk[e]
      /\ disk'[d].parts = {p \in disk[d].parts : p[1] # no} \cup {<<no, r>>}
  <2> HIDE DEF no
  <2>1. QED
    BY <1>1, <1>2 DEF TypeInv, DiskType, Directory
<1>5. \A q \in Recs : (Alone(q)' <=> Alone(q)) /\ (Intact(q)' => Intact(q))
  BY <1>1, <1>3 DEF Alone, Intact, Started
<1>6. ASSUME NEW q \in Recs, q # r, Intact(q)'
      PROVE  Intact(q) /\ rec[q].dir \in 1 .. MaxSessions /\ rec[q].dir # d
  <2>1. Intact(q) /\ Started(q) /\ Started(r)
    BY <1>1, <1>5, <1>6 DEF Intact, Alone, Started
  <2>2. QED
    BY <1>1, <1>6, <2>1, DirectoryOfStarted DEF Intact, Alone, AssetInv
<1>7. SegmentsInv'
  <2>1. \A q \in Recs : Started(q)' => rec'[q].dir \in 1 .. session'
    BY <1>1, <1>3 DEF SegmentsInv, AssetInv, Started
  <2>2. \A e \in 1 .. MaxSessions :
          (\A q \in Recs : Started(q)' => rec'[q].dir # e) => disk'[e].parts = {}
    BY <1>1, <1>3, <1>4 DEF SegmentsInv, AssetInv, Started
  <2>3. \A q \in Recs : Alone(q)' => rec'[q].base = 0
    BY <1>3, <1>5 DEF SegmentsInv, AssetInv
  <2>4. \A q \in Recs : q # r /\ Intact(q)' => disk'[rec'[q].dir].parts = (1 .. rec'[q].n) \X {q}
    BY <1>3, <1>4, <1>6 DEF SegmentsInv, AssetInv, Segments
  <2>5. ASSUME Intact(r)'
        PROVE  disk'[rec'[r].dir].parts = (1 .. rec'[r].n) \X {r}
    <3>1. Intact(r) /\ Alone(r)
      BY <1>1, <1>5, <2>5 DEF Intact
    <3>2. disk[d].parts = (1 .. rec[r].n) \X {r} /\ no = rec[r].n + 1 /\ rec[r].n \in Nat
      BY <1>1, <3>1, LibraryAssumption
      DEF SegmentsInv, AssetInv, Segments, TypeInv, DbType, Recording
    <3>3. {p \in (1 .. rec[r].n) \X {r} : p[1] # rec[r].n + 1} = (1 .. rec[r].n) \X {r}
      BY <3>2
    <3>4. 1 .. (rec[r].n + 1) = (1 .. rec[r].n) \cup {rec[r].n + 1}
      BY <3>2
    <3>5. (1 .. (rec[r].n + 1)) \X {r} = ((1 .. rec[r].n) \X {r}) \cup {<<rec[r].n + 1, r>>}
      BY <3>4
    <3>6. QED
      BY <1>1, <1>3, <1>4, <3>2, <3>3, <3>5
  <2>6. \A q \in Recs : Intact(q)' => disk'[rec'[q].dir].parts = (1 .. rec'[q].n) \X {q}
    BY <1>1, <2>4, <2>5
  <2> HIDE DEF r, d, no
  <2>7. QED
    BY <2>1, <2>2, <2>3, <2>6 DEF SegmentsInv, Segments
<1>8. \A q \in Recs : Closed(q) => Keeps(q)
  <2> SUFFICES ASSUME NEW q \in Recs, Closed(q), Intact(q)'
               PROVE  Keeps(q)
    BY DEF Keeps
  <2>1. rec[q].st # "gone"
    BY <1>5 DEF Intact, AssetInv, AskedInv
  <2>2. q # r
    BY <1>1, <2>1 DEF Closed
  <2>3. QED
    BY <1>3, <1>4, <1>6, <2>2 DEF Keeps
<1>9. AskedInv'
  BY <1>1, <1>3 DEF AssetInv, AskedInv
<1>10. QED
  BY <1>1, <1>7, <1>8, <1>9, ClosedAreKept DEF AssetInv

\* No other step of the ingest worker makes a row go.
LEMMA GoneStays ==
  ASSUME TypeInv, WorkInv,
         Connect \/ Disconnect \/ UndoStatus \/ Announce \/ FinishRecording \/ LoseSession
  PROVE  \A r \in Recs : rec'[r].st = "gone" => rec[r].st = "gone"
<1>1. CASE rec' = rec
  BY <1>1
<1>2. ASSUME NEW st \in {"completed", "failed"}, rec' = [rec EXCEPT ![capturing].st = st]
      PROVE  \A r \in Recs : rec'[r].st = "gone" => rec[r].st = "gone"
  BY <1>2 DEF TypeInv, DbType, Recording
<1>3. QED
  BY <1>1, <1>2
  DEF Connect, Disconnect, UndoStatus, Announce, FinishRecording, LoseSession

LEMMA AssetIngest == TypeInv /\ WorkInv /\ AssetInv /\ IngestNext => AssetInv'
<1> SUFFICES ASSUME TypeInv, WorkInv, AssetInv, IngestNext PROVE AssetInv'
  OBVIOUS
<1> USE DEF workerVars, apiVars, ppVars
<1>1. CASE \E r \in Recs : StartRecording(r)
  BY <1>1, AssetStart
<1>2. CASE WriteSegment
  BY <1>2, AssetWrite
<1>3. CASE Connect \/ Disconnect \/ UndoStatus \/ Announce \/ FinishRecording \/ LoseSession
  <2>1. UNCHANGED <<assets, disk, asked, del, pp>> /\ session' \in {session, session + 1}
    BY <1>3 DEF Connect, Disconnect, UndoStatus, Announce, FinishRecording, LoseSession
  <2>2. \A r \in Recs : /\ rec'[r].dir = rec[r].dir /\ rec'[r].base = rec[r].base
                        /\ rec'[r].n = rec[r].n
                        /\ Started(r)' <=> Started(r)
    <3>1. CASE rec' = rec
      BY <3>1 DEF Started
    <3>2. CASE FinishRecording \/ LoseSession
      BY <3>2, CaptureEnds DEF Started
    <3>3. QED
      BY <1>3, <3>1, <3>2 DEF Connect, Disconnect, UndoStatus, Announce
  <2>3. session \in Nat
    BY LibraryAssumption DEF TypeInv, WorkerType
  <2>4. SegmentsInv'
    BY <2>1, <2>2, <2>3, SegmentsKept DEF AssetInv
  <2>5. \A r \in Recs : Keeps(r)
    BY <2>1, <2>2, AloneKept DEF Keeps
  <2>6. AskedInv'
    BY <1>3, <2>1, CaptureEnds, GoneStays DEF AssetInv, AskedInv
  <2>7. QED
    BY <2>1, <2>4, <2>5, <2>6, ClosedAreKept DEF AssetInv
<1>4. QED
  BY <1>1, <1>2, <1>3 DEF IngestNext

-----------------------------------------------------------------------------
(* The API.                                                                *)

LEMMA AssetApi == TypeInv /\ WorkInv /\ AssetInv /\ MediaApiNext => AssetInv'
<1> SUFFICES ASSUME TypeInv, WorkInv, AssetInv, MediaApiNext PROVE AssetInv'
  OBVIOUS
<1> USE DEF workerVars, ppVars
<1>sess. session \in Nat
  BY LibraryAssumption DEF TypeInv, WorkerType
<1>1. ASSUME NEW d \in Deleters, NEW rs, Name(d, rs)
      PROVE  AssetInv'
  <2>1. UNCHANGED <<rec, assets, disk, session, pp>> /\ asked' = asked \cup rs
    BY <1>1 DEF Name
  <2>2. AskedInv'
    <3>1. \A e \in Deleters : del'[e] = del[e] \/ del'[e].targets = rs
      BY <1>1 DEF Name, TypeInv, ApiType
    <3>2. QED
      BY <2>1, <3>1 DEF AssetInv, AskedInv
  <2>3. \A r \in Recs : Keeps(r)
    BY <2>1 DEF Keeps, Intact, Alone, Started
  <2>4. SegmentsInv'
    BY <1>sess, <2>1, SegmentsKept DEF AssetInv, Started
  <2>5. QED
    BY <2>1, <2>2, <2>3, <2>4, ClosedAreKept DEF AssetInv
<1>2. ASSUME NEW d \in Deleters, NEW r \in Recs, RemoveMedia(d, r) PROVE AssetInv'
  <2>1. UNCHANGED <<rec, assets, session, asked, pp>>
    BY <1>2 DEF RemoveMedia
  <2>2. AskedInv'
    <3>1. \A e \in Deleters : del'[e].targets = del[e].targets
      BY <1>2 DEF RemoveMedia, TypeInv, ApiType, Deletion
    <3>2. QED
      BY <2>1, <3>1 DEF AssetInv, AskedInv
  <2>3. r \in asked /\ Started(r)
    BY <1>2 DEF RemoveMedia, WorkInv, DeletionInv, AssetInv, AskedInv, Started
  <2>4. /\ \A e \in 1 .. MaxSessions : e # rec[r].dir => disk'[e] = disk[e]
        /\ \A e \in 1 .. MaxSessions : disk'[e].parts \in {disk[e].parts, {}}
    <3>1. disk' = disk \/ disk' = [disk EXCEPT ![rec[r].dir] = NoDirectory]
      BY <1>2 DEF RemoveMedia
    <3>2. NoDirectory.parts = {}
      BY DEF NoDirectory
    <3>3. QED
      BY <3>1, <3>2 DEF TypeInv, DiskType
  <2>5. \A q \in Recs : Keeps(q)
    <3> SUFFICES ASSUME NEW q \in Recs, Intact(q)' PROVE Keeps(q)
      BY DEF Keeps
    <3>1. Intact(q) /\ q # r /\ Started(q)
      BY <2>1, <2>3 DEF Intact, Alone, Started
    <3>2. rec[q].dir # rec[r].dir
      BY <2>3, <3>1 DEF Intact, Alone
    <3>3. rec[q].dir \in 1 .. MaxSessions
      BY <3>1, DirectoryOfStarted DEF AssetInv
    <3>4. QED
      BY <2>1, <2>4, <3>1, <3>2, <3>3 DEF Keeps
  <2>6. SegmentsInv'
    <3>1. \A q \in Recs : Intact(q)' => disk'[rec[q].dir].parts = disk[rec[q].dir].parts
      BY <2>5 DEF Keeps
    <3>2. QED
      BY <1>sess, <2>1, <2>4, <3>1, SegmentsKept DEF AssetInv, Started
  <2>7. QED
    BY <2>1, <2>2, <2>5, <2>6, ClosedAreKept DEF AssetInv
<1>3. ASSUME NEW d \in Deleters, Commit(d) PROVE AssetInv'
  <2>1. UNCHANGED <<disk, session, asked, pp>> /\ assets' \subseteq assets
    BY <1>3 DEF Commit
  <2>2. AskedInv'
    <3>1. \A e \in Deleters : del'[e] = del[e] \/ del'[e].targets = {}
      BY <1>3 DEF Commit, NoDeletion, TypeInv, ApiType
    <3>2. \A r \in Recs : rec'[r].st = "gone" => rec[r].st = "gone" \/ r \in del[d].targets
      BY <1>3 DEF Commit, TypeInv, DbType
    <3>3. QED
      BY <2>1, <3>1, <3>2 DEF AssetInv, AskedInv
  <2>3. \A r \in Recs : /\ rec'[r].dir = rec[r].dir /\ rec'[r].base = rec[r].base
                        /\ rec'[r].n = rec[r].n
                        /\ Started(r)' <=> Started(r)
    <3>1. CASE rec' = rec
      BY <3>1 DEF Started
    <3>2. CASE rec' # rec
      <4>1. rec' = [r \in Recs |-> IF r \in del[d].targets THEN [rec[r] EXCEPT !.st = "gone"]
                                                           ELSE rec[r]]
        BY <1>3, <3>2 DEF Commit
      <4>2. QED
        BY <4>1 DEF TypeInv, DbType, Recording, Started, WorkInv, DeletionInv
    <3>3. QED
      BY <3>1, <3>2
  <2>4. \A r \in Recs : Keeps(r)
    BY <2>1, <2>3, AloneKept DEF Keeps
  <2>5. SegmentsInv'
    BY <1>sess, <2>1, <2>3, SegmentsKept DEF AssetInv
  <2>6. QED
    BY <2>1, <2>2, <2>4, <2>5, ClosedAreKept DEF AssetInv
<1>4. ASSUME ApiDies \/ \E d \in Deleters : DeleteChannel(d) PROVE AssetInv'
  <2>1. UNCHANGED <<rec, assets, disk, session, asked, pp>>
    BY <1>4 DEF ApiDies, DeleteChannel
  <2>2. AskedInv'
    <3>1. \A e \in Deleters : del'[e].targets \in {del[e].targets, {}}
      <4>1. CASE ApiDies
        BY <4>1 DEF ApiDies, NoDeletion
      <4>2. ASSUME NEW d \in Deleters, DeleteChannel(d)
            PROVE  \A e \in Deleters : del'[e].targets \in {del[e].targets, {}}
        <5>1. [NoDeletion EXCEPT !.pc = "query", !.chan = TRUE].targets = {}
          BY DEF NoDeletion
        <5>2. QED
          BY <4>2, <5>1 DEF DeleteChannel, TypeInv, ApiType
      <4>3. QED
        BY <1>4, <4>1, <4>2
    <3>2. QED
      BY <2>1, <3>1 DEF AssetInv, AskedInv
  <2>3. \A r \in Recs : Keeps(r)
    BY <2>1 DEF Keeps, Intact, Alone, Started
  <2>4. SegmentsInv'
    BY <1>sess, <2>1, SegmentsKept DEF AssetInv, Started
  <2>5. QED
    BY <2>1, <2>2, <2>3, <2>4, ClosedAreKept DEF AssetInv
<1>5. ASSUME NEW d \in Deleters, NEW r \in Recs, DeleteRecording(d, r) \/ DeleteAsset(d, r)
      PROVE  AssetInv'
  BY <1>1, <1>5 DEF DeleteRecording, DeleteAsset, Accept
<1>6. ASSUME NEW d \in Deleters, ListRecordings(d) PROVE AssetInv'
  BY <1>1, <1>6 DEF ListRecordings
<1>7. QED
  BY <1>2, <1>3, <1>4, <1>5, <1>6 DEF MediaApiNext

-----------------------------------------------------------------------------
(* The post-process worker.                                                *)

LEMMA PpRows == PostProcessorNext => UNCHANGED <<rec, asked, del, session>>
BY DEF PostProcessorNext, PostProcessorStep, StartUp, PostProcessorDies, StartBackfill,
   StartQueue, NextOfBatch, PopJob, LoadRecording, ListSegments, BeginConcat,
   FinishConcat, FillAsset, MakeProxy, MakeThumbnail, CreateAsset, UpdateAsset,
   libraryVars, workerVars, apiVars

LEMMA DerivedDisk ==
  ASSUME TypeInv, NEW d, NEW x, disk' = [disk EXCEPT ![d].derived = x]
  PROVE  \A e \in 1 .. MaxSessions :
           disk'[e].parts = disk[e].parts /\ disk'[e].master = disk[e].master
BY DEF TypeInv, DiskType, Directory

LEMMA ThereDerivedDisk ==
  ASSUME TypeInv, NEW d, NEW x, NEW y,
         disk' = [disk EXCEPT ![d].there = x, ![d].derived = y]
  PROVE  \A e \in 1 .. MaxSessions :
           disk'[e].parts = disk[e].parts /\ disk'[e].master = disk[e].master
BY DEF TypeInv, DiskType, Directory

LEMMA MasterDisk ==
  ASSUME TypeInv, NEW d, NEW x, disk' = [disk EXCEPT ![d].master = x]
  PROVE  /\ \A e \in 1 .. MaxSessions :
              /\ disk'[e].parts = disk[e].parts
              /\ e # d => disk'[e].master = disk[e].master
         /\ d \in 1 .. MaxSessions => disk'[d].master = x
BY DEF TypeInv, DiskType, Directory

\* No segment is touched; master.ts only by a concatenation, in the directory
\* of the recording in hand.
LEMMA PpDisk ==
  ASSUME TypeInv, PostProcessorNext, NEW e \in 1 .. MaxSessions
  PROVE  /\ disk'[e].parts = disk[e].parts
         /\ \/ disk'[e].master = disk[e].master
            \/ e = rec[pp.job].dir /\ pp.pc = "concat"
<1>1. CASE disk' = disk
  BY <1>1
<1>2. CASE BeginConcat
  <2>1. PICK d : d = rec[pp.job].dir
    OBVIOUS
  <2>2. pp.pc = "concat" /\ disk' = [disk EXCEPT ![d].there = TRUE, ![d].master = {Cut}]
    BY <1>2, <2>1 DEF BeginConcat
  <2>3. disk'[e].parts = disk[e].parts /\ (e # d => disk'[e].master = disk[e].master)
    BY <2>2 DEF TypeInv, DiskType, Directory
  <2>4. QED
    BY <2>1, <2>2, <2>3
<1>3. CASE FinishConcat
  <2>1. PICK d : d = rec[pp.job].dir
    OBVIOUS
  <2>2. PICK content : content = Content(d, pp.found)
    OBVIOUS
  <2>3. pp.pc = "concat" /\ (disk' = disk \/ disk' = [disk EXCEPT ![d].master = content])
    BY <1>3, <2>1, <2>2 DEF FinishConcat
  <2>4. CASE disk' = [disk EXCEPT ![d].master = content]
    <3>1. disk'[e].parts = disk[e].parts /\ (e # d => disk'[e].master = disk[e].master)
      BY <2>4, MasterDisk
    <3>2. QED
      BY <2>1, <2>3, <3>1
  <2>5. QED
    BY <1>1, <2>3, <2>4
<1>4. CASE MakeProxy
  <2>1. PICK d : d = rec[pp.job].dir
    OBVIOUS
  <2>2. disk' = disk \/ disk' = [disk EXCEPT ![d].derived = TRUE]
    BY <1>4, <2>1 DEF MakeProxy
  <2>3. QED
    BY <1>1, <2>2, DerivedDisk
<1>5. CASE MakeThumbnail
  <2>1. PICK d : d = rec[pp.job].dir
    OBVIOUS
  <2>2. disk' = [disk EXCEPT ![d].there = TRUE, ![d].derived = TRUE]
    BY <1>5, <2>1 DEF MakeThumbnail
  <2>3. QED
    BY <2>2, ThereDerivedDisk
<1>6. QED
  BY <1>1, <1>2, <1>3, <1>4, <1>5
  DEF PostProcessorNext, PostProcessorStep, StartUp, PostProcessorDies, StartBackfill,
     StartQueue, NextOfBatch, PopJob, LoadRecording, ListSegments, FillAsset, CreateAsset,
     UpdateAsset

LEMMA MastersPp ==
  ASSUME TypeInv, WorkInv, AssetInv, PostProcessorNext
  PROVE  MasterInv'
<1>rows. /\ UNCHANGED <<rec, asked, del, session>>
         /\ \A r : (Intact(r)' <=> Intact(r)) /\ (Alone(r)' <=> Alone(r))
  BY PpRows DEF Intact, Alone, Started
<1>old. \A a \in assets : Keeps(a.rec)
  <2> SUFFICES ASSUME NEW a \in assets, Intact(a.rec)'
               PROVE  Keeps(a.rec)
    BY DEF Keeps
  <2>1. a.rec \in Recs /\ Intact(a.rec) /\ Started(a.rec)
    BY <1>rows DEF TypeInv, DbType, Asset, Intact, Alone
  <2>2. rec[a.rec].dir \in 1 .. MaxSessions
    BY <2>1, DirectoryOfStarted DEF AssetInv
  <2>3. ~(pp.pc = "concat" /\ rec[a.rec].dir = rec[pp.job].dir)
    <3> SUFFICES ASSUME pp.pc = "concat" PROVE rec[a.rec].dir # rec[pp.job].dir
      OBVIOUS
    <3>1. pp.job \in Recs /\ ~Catalogued(pp.job)
      BY DEF AssetInv, InHandInv, TypeInv, PpType, HasJob
    <3>2. Started(pp.job)
      BY <3>1, LibraryAssumption DEF WorkInv, ClosedWork, Closed, Started, Recs
    <3>3. a.rec # pp.job
      BY <3>1 DEF Catalogued
    <3>4. QED
      BY <2>1, <3>1, <3>2, <3>3 DEF Intact, Alone
  <2>4. QED
    BY <1>rows, <2>1, <2>2, <2>3, PpDisk DEF Keeps
<1>1. CASE assets' = assets
  BY <1>1, <1>old, MasterKept DEF AssetInv
<1>2. CASE CreateAsset
  <2>1. disk' = disk /\ pp.pc = "store"
    BY <1>2 DEF CreateAsset
  <2>2. \A a \in assets' : a \in assets \/ (a.rec = pp.job /\ a.master = pp.master)
    BY <1>2 DEF CreateAsset
  <2>3. \A r, master : HoldsAll(r, master)' <=> HoldsAll(r, master)
    BY <1>rows, <2>1 DEF HoldsAll, Segments, Media, Content
  <2>4. Intact(pp.job) => HoldsAll(pp.job, pp.master)
    BY <2>1 DEF AssetInv, InHandInv
  <2>5. QED
    BY <1>rows, <2>2, <2>3, <2>4 DEF AssetInv, MasterInv
<1>3. CASE UpdateAsset
  <2> DEFINE new(a) == IF a.rec = pp.job
                         THEN [a EXCEPT !.proxy = @ \/ pp.proxy, !.thumb = @ \/ pp.thumb]
                         ELSE a
  <2>1. assets' = {new(a) : a \in assets} /\ disk' = disk
    BY <1>3 DEF UpdateAsset
  <2>2. \A a \in assets : new(a).rec = a.rec /\ new(a).master = a.master
    BY DEF TypeInv, DbType, Asset
  <2>3. \A r, master : HoldsAll(r, master)' <=> HoldsAll(r, master)
    BY <1>rows, <2>1 DEF HoldsAll, Segments, Media, Content
  <2> HIDE DEF new
  <2>4. QED
    BY <1>rows, <2>1, <2>2, <2>3 DEF AssetInv, MasterInv
<1>4. QED
  BY <1>1, <1>2, <1>3
  DEF PostProcessorNext, PostProcessorStep, StartUp, PostProcessorDies, StartBackfill,
     StartQueue, NextOfBatch, PopJob, LoadRecording, ListSegments, BeginConcat,
     FinishConcat, FillAsset, MakeProxy, MakeThumbnail

\* An intact recording has the segment files 1 to n.
LEMMA IntactFiles ==
  ASSUME TypeInv, SegmentsInv, NEW r \in Recs, Intact(r)
  PROVE  /\ rec[r].dir \in 1 .. MaxSessions
         /\ rec[r].n \in Nat
         /\ FileNumbers(rec[r].dir) = 1 .. rec[r].n
         /\ Content(rec[r].dir, FileNumbers(rec[r].dir)) = Segments(r)
<1>1. rec[r].dir \in 1 .. MaxSessions
  BY DirectoryOfStarted DEF Intact, Alone
<1>2. rec[r].n \in Nat
  BY LibraryAssumption DEF TypeInv, DbType, Recording
<1>3. disk[rec[r].dir].parts = (1 .. rec[r].n) \X {r}
  BY DEF SegmentsInv, Segments
<1>4. FileNumbers(rec[r].dir) = 1 .. rec[r].n
  <2>1. ASSUME NEW k \in 1 .. rec[r].n
        PROVE  \E p \in (1 .. rec[r].n) \X {r} : k = p[1]
    <3>1. <<k, r>> \in (1 .. rec[r].n) \X {r} /\ <<k, r>>[1] = k
      OBVIOUS
    <3>2. QED
      BY <3>1
  <2>2. \A p \in (1 .. rec[r].n) \X {r} : p[1] \in 1 .. rec[r].n
    OBVIOUS
  <2>3. QED
    BY <1>3, <2>1, <2>2 DEF FileNumbers
<1>5. Content(rec[r].dir, FileNumbers(rec[r].dir)) = Segments(r)
  BY DEF FileNumbers, Content, Segments
<1>6. QED
  BY <1>1, <1>2, <1>4, <1>5

LEMMA MediaByKind ==
  ASSUME NEW d, NEW master
  PROVE  /\ master.kind = "segment" => Media(d, master) = Content(d, {master.no})
         /\ master.kind = "concat" => Media(d, master) = disk[d].master
         /\ master.kind = "dir" => Media(d, master) = {}
<1>1. CASE master.kind = "segment"
  <2>1. master.kind # "concat" /\ master.kind # "dir"
    BY <1>1
  <2>2. QED
    BY <1>1, <2>1, Zenon DEF Media
<1>2. CASE master.kind = "concat"
  <2>1. master.kind # "segment" /\ master.kind # "dir"
    BY <1>2
  <2>2. QED
    BY <1>2, <2>1, Zenon DEF Media
<1>3. CASE master.kind = "dir"
  <2>1. master.kind # "concat" /\ master.kind # "segment"
    BY <1>3
  <2>2. QED
    BY <1>3, <2>1, Zenon DEF Media
<1>4. QED
  BY <1>1, <1>2, <1>3

\* The step that decides what becomes of the segments found.
LEMMA InHandList ==
  ASSUME TypeInv, WorkInv, AssetInv, ListSegments
  PROVE  InHandInv'
<1>job. PICK r : r = pp.job
  OBVIOUS
<1>files. PICK found : found = FileNumbers(rec[r].dir)
  OBVIOUS
<1>1. pp.pc = "list" /\ r \in Recs /\ ~Catalogued(r)
  BY <1>job DEF ListSegments, AssetInv, InHandInv, TypeInv, PpType, HasJob
<1>2. UNCHANGED <<rec, asked, disk, assets>> /\ pp'.job = r /\ pp'.found = found
  BY <1>job, <1>files DEF ListSegments, libraryVars, apiVars, TypeInv, PpType, Position
<1>3. /\ found = {} => pp'.pc = "store"
      /\ found # {} /\ Cardinality(found) = 1 => pp'.pc = "proxy"
      /\ found # {} /\ Cardinality(found) # 1 => pp'.pc = "concat"
      /\ Cardinality(found) = 1 =>
           pp'.master = [kind |-> "segment", no |-> CHOOSE k \in found : TRUE]
      /\ Cardinality(found) # 1 => pp'.master = NoMaster
  <2>1. pp' = [pp EXCEPT
         !.found = found,
         !.pc = CASE found = {} -> "store"
                  [] Cardinality(found) = 1 -> "proxy"
                  [] OTHER -> "concat",
         !.master = IF Cardinality(found) = 1
                      THEN [kind |-> "segment", no |-> CHOOSE k \in found : TRUE]
                      ELSE NoMaster]
    BY <1>job, <1>files DEF ListSegments
  <2>2. Cardinality({}) = 0
    BY FS_EmptySet
  <2>3. QED
    BY <2>1, <2>2 DEF TypeInv, PpType, Position
<1>4. ~Catalogued(pp.job)' /\ FileNumbers(rec[r].dir)' = found
  BY <1>1, <1>2, <1>files DEF Catalogued, FileNumbers
<1>5. ASSUME Intact(r), pp'.pc \in {"proxy", "store"}
      PROVE  Media(rec[r].dir, pp'.master) = Segments(r)
  <2>1. /\ found = 1 .. rec[r].n /\ rec[r].n \in Nat
        /\ Content(rec[r].dir, found) = Segments(r)
    BY <1>1, <1>5, <1>files, IntactFiles DEF AssetInv
  <2>2. CASE found = {}
    <3>1. Cardinality(found) = 0
      BY <2>2, FS_EmptySet
    <3>2. pp'.master = NoMaster
      BY <1>3, <3>1
    <3>3. Media(rec[r].dir, pp'.master) = {}
      BY <3>2, MediaByKind DEF NoMaster
    <3>4. Segments(r) = {}
      BY <2>1, <2>2 DEF Content
    <3>5. QED
      BY <3>3, <3>4
  <2>3. CASE found # {}
    <3>1. Cardinality(found) = 1
      BY <1>3, <1>5, <2>3
    <3>2. Cardinality(found) = rec[r].n
      BY <2>1, FS_Interval
    <3>3. found = {1}
      BY <2>1, <3>1, <3>2
    <3>4. pp'.master = [kind |-> "segment", no |-> 1]
      BY <1>3, <3>1, <3>3
    <3>5. Media(rec[r].dir, pp'.master) = Content(rec[r].dir, {1})
      BY <3>4, MediaByKind
    <3>6. QED
      BY <2>1, <3>3, <3>5
  <2>4. QED
    BY <2>2, <2>3
<1>6. Intact(r)' => Intact(r)
  BY <1>2 DEF Intact, Alone, Started
<1>7. \A master : HoldsAll(r, master)' <=> HoldsAll(r, master)
  BY <1>2 DEF HoldsAll, Segments, Media, Content
<1>8. pp'.pc \in {"proxy", "store", "concat"}
  BY <1>3
<1>9. Intact(pp.job)' /\ pp'.pc \in {"proxy", "store"} => HoldsAll(pp.job, pp.master)'
  BY <1>2, <1>5, <1>6, <1>7 DEF HoldsAll
<1>10. QED
  BY <1>2, <1>4, <1>8, <1>9, <1>job DEF InHandInv

LEMMA InHandConcat ==
  ASSUME TypeInv, WorkInv, AssetInv, FinishConcat, pp'.pc = "proxy"
  PROVE  InHandInv'
<1>job. PICK r : r = pp.job
  OBVIOUS
<1>dir. PICK d : d = rec[r].dir
  OBVIOUS
<1>content. PICK content : content = Content(d, pp.found)
  OBVIOUS
<1>1. /\ pp.pc = "concat" /\ pp.master.kind = "concat" /\ r \in Recs
      /\ UNCHANGED <<rec, asked, assets>>
      /\ pp'.job = r /\ pp'.master = pp.master
      /\ disk' = [disk EXCEPT ![d].master = content]
  BY <1>job, <1>dir, <1>content
  DEF FinishConcat, Done, libraryVars, apiVars, TypeInv, PpType, HasJob, Position, Idle
<1>2. ASSUME Intact(r) PROVE HoldsAll(r, pp.master)'
  <2>1. d \in 1 .. MaxSessions /\ content = Segments(r)
    BY <1>1, <1>2, <1>job, <1>dir, <1>content, IntactFiles DEF AssetInv, InHandInv
  <2>2. disk'[d].parts = disk[d].parts /\ disk'[d].master = content
    BY <1>1, <2>1, MasterDisk
  <2>3. Media(d, pp.master)' = disk'[d].master
    <3>1. pp'.master.kind = "concat"
      BY <1>1
    <3>2. pp'.master.kind # "segment"
      BY <3>1
    <3>3. QED
      BY <3>1, <3>2, Zenon DEF Media
  <2>4. QED
    BY <1>1, <1>dir, <2>1, <2>2, <2>3 DEF HoldsAll, Segments
<1>3. Intact(r)' => Intact(r)
  BY <1>1 DEF Intact, Alone, Started
<1>4. QED
  BY <1>1, <1>2, <1>3 DEF InHandInv

LEMMA InHandPp ==
  ASSUME TypeInv, WorkInv, AssetInv, PostProcessorNext
  PROVE  InHandInv'
<1>rows. UNCHANGED <<rec, asked>> /\ \A r : Intact(r)' <=> Intact(r)
  BY PpRows DEF Intact, Alone, Started
<1>job. PICK r : r = pp.job
  OBVIOUS
<1>idle. \A mode : Idle(mode).pc = "next"
  BY DEF Idle
<1>1. CASE pp'.pc \in {"next", "down", "load", "fill"}
  BY <1>1 DEF InHandInv
<1>2. CASE LoadRecording
  <2>1. CASE pp'.pc = "list"
    <3>1. ~Catalogued(pp.job) /\ pp'.job = pp.job /\ assets' = assets
      BY <1>2, <1>idle, <2>1 DEF LoadRecording, Done, TypeInv, PpType, Position
    <3>2. QED
      BY <2>1, <3>1 DEF InHandInv, Catalogued
  <2>2. QED
    BY <1>1, <1>2, <1>idle, <2>1 DEF LoadRecording, Done, TypeInv, PpType, Position
<1>3. CASE ListSegments
  BY <1>3, InHandList
<1>4. CASE BeginConcat
  <2>1. /\ pp.pc = "concat" /\ pp'.pc = "concat" /\ pp'.job = pp.job /\ pp'.found = pp.found
        /\ assets' = assets /\ pp.job \in Recs
    BY <1>4 DEF BeginConcat, TypeInv, PpType, HasJob, Position
  <2>2. ASSUME Intact(r) PROVE FileNumbers(rec[r].dir)' = pp.found
    <3>1. rec[r].dir \in 1 .. MaxSessions
      BY <1>job, <2>1, <2>2, IntactFiles DEF AssetInv
    <3>2. disk'[rec[r].dir].parts = disk[rec[r].dir].parts
      BY <3>1, PpDisk
    <3>3. FileNumbers(rec[r].dir) = pp.found
      BY <1>job, <2>1, <2>2 DEF AssetInv, InHandInv
    <3>4. QED
      BY <1>rows, <3>2, <3>3 DEF FileNumbers
  <2>3. Intact(pp.job)' => pp'.found = FileNumbers(rec[pp.job].dir)'
    BY <1>rows, <1>job, <2>1, <2>2 DEF FileNumbers
  <2>4. ~Catalogued(pp.job)'
    BY <2>1 DEF AssetInv, InHandInv, Catalogued
  <2>5. QED
    BY <2>1, <2>3, <2>4 DEF InHandInv
<1>5. CASE FinishConcat
  <2>1. pp'.pc \in {"proxy", "next"}
    BY <1>5, <1>idle DEF FinishConcat, Done, TypeInv, PpType, Position
  <2>2. QED
    BY <1>1, <1>5, <2>1, InHandConcat
<1>6. CASE FillAsset
  <2>1. CASE pp'.pc = "proxy"
    <3>1. PICK a \in assets : a.rec = pp.job /\ pp' = [pp EXCEPT !.pc = "proxy", !.master = a.master]
      BY <1>6, <1>idle, <2>1 DEF FillAsset, Done
    <3>2. pp'.job = pp.job /\ pp'.master = a.master /\ disk' = disk
      BY <1>6, <3>1 DEF FillAsset, TypeInv, PpType, Position
    <3>3. PICK m : m = a.master
      OBVIOUS
    <3>4. Intact(r) => HoldsAll(r, m)
      BY <1>job, <3>1, <3>3 DEF AssetInv, MasterInv
    <3>5. HoldsAll(r, m)' <=> HoldsAll(r, m)
      BY <1>rows, <3>2 DEF HoldsAll, Segments, Media, Content
    <3>6. Intact(pp.job)' => HoldsAll(pp.job, pp.master)'
      BY <1>rows, <1>job, <3>2, <3>3, <3>4, <3>5 DEF HoldsAll
    <3>7. QED
      BY <2>1, <3>6 DEF InHandInv
  <2>2. QED
    BY <1>1, <1>6, <1>idle, <2>1 DEF FillAsset, Done, TypeInv, PpType, Position
<1>7. CASE MakeProxy \/ MakeThumbnail
  <2>1. /\ pp.pc \in {"proxy", "thumb"} /\ pp'.pc \in {"thumb", "store"}
        /\ pp'.job = pp.job /\ pp'.master = pp.master /\ pp.job \in Recs
    BY <1>7 DEF MakeProxy, MakeThumbnail, TypeInv, PpType, HasJob, Position
  <2>2. PICK m : m = pp.master
    OBVIOUS
  <2>3. ASSUME Intact(r) PROVE HoldsAll(r, m)'
    <3>1. rec[r].dir \in 1 .. MaxSessions
      BY <1>job, <2>1, <2>3, IntactFiles DEF AssetInv
    <3>2. /\ disk'[rec[r].dir].parts = disk[rec[r].dir].parts
          /\ disk'[rec[r].dir].master = disk[rec[r].dir].master
      BY <1>job, <2>1, <3>1, PpDisk
    <3>3. HoldsAll(r, m)
      BY <1>job, <2>1, <2>2, <2>3 DEF AssetInv, InHandInv
    <3>4. QED
      BY <1>rows, <3>2, <3>3 DEF HoldsAll, Segments, Media, Content
  <2>4. Intact(pp.job)' => HoldsAll(pp.job, pp.master)'
    BY <1>rows, <1>job, <2>1, <2>2, <2>3 DEF HoldsAll
  <2>5. QED
    BY <2>1, <2>4 DEF InHandInv
<1>8. CASE StartUp \/ PostProcessorDies \/ StartBackfill \/ StartQueue \/ NextOfBatch
           \/ PopJob \/ CreateAsset \/ UpdateAsset
  <2>1. Down.pc = "down"
    BY DEF Down, Idle
  <2>2. pp'.pc \in {"next", "down", "load", "fill"}
    <3>1. CASE StartUp \/ StartBackfill \/ StartQueue
      BY <1>idle, <3>1 DEF StartUp, StartBackfill, StartQueue, TypeInv, PpType, Position
    <3>2. CASE NextOfBatch \/ PopJob
      BY <1>idle, <3>2 DEF NextOfBatch, PopJob, TypeInv, PpType, Position
    <3>3. CASE CreateAsset \/ UpdateAsset
      BY <1>idle, <3>3 DEF CreateAsset, UpdateAsset, Done, TypeInv, PpType, Position
    <3>4. CASE PostProcessorDies
      BY <2>1, <3>4 DEF PostProcessorDies
    <3>5. QED
      BY <1>8, <3>1, <3>2, <3>3, <3>4
  <2>3. QED
    BY <1>1, <2>2
<1>9. QED
  BY <1>2, <1>3, <1>4, <1>5, <1>6, <1>7, <1>8 DEF PostProcessorNext, PostProcessorStep

LEMMA AssetPp == TypeInv /\ WorkInv /\ AssetInv /\ PostProcessorNext => AssetInv'
<1> SUFFICES ASSUME TypeInv, WorkInv, AssetInv, PostProcessorNext PROVE AssetInv'
  OBVIOUS
<1>1. UNCHANGED <<rec, asked, del, session>> /\ session \in Nat
  BY PpRows, LibraryAssumption DEF TypeInv, WorkerType
<1>2. \A e \in 1 .. MaxSessions : disk'[e].parts = disk[e].parts
  BY PpDisk
<1>3. \A r \in Recs : Intact(r)' => disk'[rec[r].dir].parts = disk[rec[r].dir].parts
  <2> SUFFICES ASSUME NEW r \in Recs, Intact(r)'
               PROVE  disk'[rec[r].dir].parts = disk[rec[r].dir].parts
    OBVIOUS
  <2>1. Intact(r)
    BY <1>1 DEF Intact, Alone, Started
  <2>2. QED
    BY <1>2, <2>1, IntactFiles DEF AssetInv
<1>4. SegmentsInv'
  BY <1>1, <1>2, <1>3, SegmentsKept DEF AssetInv, Started
<1>5. QED
  BY <1>1, <1>4, MastersPp, InHandPp DEF AssetInv, AskedInv

-----------------------------------------------------------------------------
LEMMA AssetInit == Init => AssetInv
<1> SUFFICES ASSUME Init PROVE AssetInv
  OBVIOUS
<1>1. SegmentsInv
  BY DEF Init, SegmentsInv, Alone, Intact, Started, NoDirectory
<1>2. AskedInv
  BY DEF Init, AskedInv, NoDeletion
<1>3. InHandInv
  <2>1. pp.pc = "down"
    BY DEF Init, Down, Idle
  <2>2. QED
    BY <2>1 DEF InHandInv
<1>4. MasterInv
  BY DEF Init, MasterInv
<1>5. QED
  BY <1>1, <1>2, <1>3, <1>4 DEF AssetInv

LEMMA AssetUnchanged ==
  ASSUME TypeInv, WorkInv, AssetInv, UNCHANGED vars
  PROVE  AssetInv'
<1> USE DEF vars, workerVars, apiVars, ppVars
<1>1. session \in Nat
  BY LibraryAssumption DEF TypeInv, WorkerType
<1>2. \A r \in Recs : Keeps(r)
  BY DEF Keeps, Intact, Alone, Started
<1>3. SegmentsInv'
  BY <1>1, SegmentsKept DEF AssetInv, Started
<1>4. QED
  BY <1>2, <1>3, ClosedAreKept DEF AssetInv, AskedInv

LEMMA AssetInductive == Spec => [](TypeInv /\ WorkInv /\ AssetInv)
<1>1. TypeInv /\ WorkInv /\ AssetInv /\ [Next]_vars => AssetInv'
  BY AssetIngest, AssetApi, AssetPp, AssetUnchanged DEF Next
<1>2. QED
  BY <1>1, AssetInit, Inductive, PTL DEF Spec

\* What AssetIsWhole says, of the recordings that are alone in their directory.
LoneAssetIsWhole ==
  \A a \in assets :
    LET r == a.rec IN
    Intact(r) =>
      Media(rec[r].dir, a.master) =
        (rec[r].base + 1 .. rec[r].base + rec[r].n) \X {r}

LEMMA AssetMeaning == TypeInv /\ AssetInv => LoneAssetIsWhole
<1> SUFFICES ASSUME TypeInv, AssetInv, NEW a \in assets, Intact(a.rec)
             PROVE  Media(rec[a.rec].dir, a.master) =
                      (rec[a.rec].base + 1 .. rec[a.rec].base + rec[a.rec].n) \X {a.rec}
  BY DEF LoneAssetIsWhole
<1>1. a.rec \in Recs
  BY DEF TypeInv, DbType, Asset
<1>2. rec[a.rec].base = 0 /\ Segments(a.rec) = (1 .. rec[a.rec].n) \X {a.rec}
  BY <1>1 DEF AssetInv, SegmentsInv, Intact
<1>3. rec[a.rec].n \in Nat
  BY <1>1, IntactFiles DEF AssetInv
<1>4. Media(rec[a.rec].dir, a.master) = Segments(a.rec)
  BY DEF AssetInv, MasterInv, HoldsAll
<1>5. QED
  BY <1>2, <1>3, <1>4

\* However many recordings share other sessions: the asset of a recording
\* that is alone in its directory, and that nobody has asked to delete, holds
\* the segments written for it, all of them and no others (FinishConcat,
\* ListSegments and FillAsset of a post-process worker that may die anywhere).
THEOREM LoneAssetsAreWhole == Spec => []LoneAssetIsWhole
BY AssetInductive, AssetMeaning, PTL

\* With one recording to a session every asset is whole (AssetIsWhole).
THEOREM AssetsAreWhole ==
  ASSUME MaxPerSession = 1
  PROVE  Spec => []AssetIsWhole
<1>1. TypeInv /\ WorkInv /\ OwnDirectory /\ LoneAssetIsWhole => AssetIsWhole
  <2> SUFFICES ASSUME TypeInv, WorkInv, OwnDirectory, LoneAssetIsWhole,
                      NEW a \in assets, a.rec \notin asked
               PROVE  Media(rec[a.rec].dir, a.master) =
                        (rec[a.rec].base + 1 .. rec[a.rec].base + rec[a.rec].n) \X {a.rec}
    BY DEF AssetIsWhole
  <2>1. a.rec \in Recs /\ Started(a.rec)
    BY DEF TypeInv, DbType, Asset, WorkInv, CatalogueIsSound, Started
  <2>2. Alone(a.rec)
    BY <2>1 DEF OwnDirectory, Alone, Started
  <2>3. QED
    BY <2>2 DEF LoneAssetIsWhole, Intact
<1>2. Spec => [](TypeInv /\ WorkInv /\ OwnDirectory)
  BY OwnInductive
<1>3. QED
  BY <1>1, <1>2, LoneAssetsAreWhole, PTL
=============================================================================
