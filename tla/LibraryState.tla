---------------------------- MODULE LibraryState ----------------------------
(***************************************************************************)
(* The media library of one channel: recordings and assets in PostgreSQL,  *)
(* session directories on disk, the post-processing list, the requests     *)
(* that delete media (module MediaApi), and the post-process worker        *)
(* (module PostProcessor).  The ingest worker is seen from here only by    *)
(* what it does to rows, files and the list (module MediaLibrary).         *)
(*                                                                         *)
(* Recordings are numbered in the order of started_at, sessions in the     *)
(* order of their connects.  A session has one directory.                  *)
(***************************************************************************)
EXTENDS Naturals, Sequences, FiniteSets

CONSTANTS
  MaxRecs,        \* bound: recordings started
  MaxSessions,    \* bound: sessions connected
  MaxPerSession,  \* bound: recordings started in one session
  MaxParts,       \* bound: segments one recording writes
  Deleters,       \* request slots of the API for deletions
  BatchLimit,     \* BACKFILL_BATCH
  MaxDeletes,     \* bound: deletions accepted
  MaxFaults       \* bound: kills of any process, Redis errors, failed
                  \*   transcodings and failed removals, all together

ASSUME LibraryAssumption ==
  /\ MaxRecs \in Nat /\ MaxSessions \in Nat /\ MaxPerSession \in Nat
  /\ MaxParts \in Nat /\ BatchLimit \in Nat \ {0}
  /\ MaxDeletes \in Nat /\ MaxFaults \in Nat

VARIABLES
  \* PostgreSQL
  chan,       \* the channel: "idle" (or error), "active", "gone"
  rec,        \* the recordings
  assets,     \* the assets
  \* Redis
  jobs,       \* ingest:jobs:postprocess
  \* storage_root
  disk,       \* one directory per session
  \* ingest worker
  session,    \* the newest session
  live,       \* the newest session is still up
  capturing,  \* the recording being written, 0 when none is
  finished,   \* completed but not announced yet, 0 when none is
  \* API
  del,        \* one record per deletion slot
  asked,      \* recordings that an accepted deletion has named
  \* post-process worker
  pp,         \* its position, the recording in hand and what it found
  todo,       \* recordings of the start-up batch not looked at yet
  left        \* what is left of each bound

workerVars == <<session, live, capturing, finished>>
ppVars     == <<pp, todo>>
apiVars    == <<del, asked>>
vars == <<chan, rec, assets, jobs, disk, workerVars, apiVars, ppVars, left>>

-----------------------------------------------------------------------------
Recs == 1 .. MaxRecs

\* The numbers of the segment files in one directory.
Numbers == Nat \ {0}

\* A segment: the number of its file, and the recording it was written for.
Parts == Numbers \X Recs

\* What a master.ts that is still being written holds.
Cut == <<0, 0>>

\* A recordings row; "new" is a row that does not exist yet.  Of the segments
\* it had written n, the first with number base + 1.
Recording == [st : {"new", "recording", "completed", "failed", "gone"},
              dir : 0 .. MaxSessions, n : 0 .. MaxParts,
              base : Nat]

\* Where the master is: a segment file, the concatenated master.ts, or the
\* directory itself when there was no segment.
Master == [kind : {"segment", "concat", "dir"}, no : Numbers \cup {0}]

NoMaster == [kind |-> "dir", no |-> 0]

\* at stands for created_at; proxy and thumb tell whether proxy_path and
\* thumbnail_path are set.
Asset == [rec : Recs, at : Recs, master : Master, proxy : BOOLEAN, thumb : BOOLEAN]

\* A session directory: its segments, what master.ts holds ({}: no such
\* file), and whether derived/ exists.
Directory == [there : BOOLEAN, parts : SUBSET Parts,
              master : SUBSET (Parts \cup {Cut}), derived : BOOLEAN]

NoDirectory == [there |-> FALSE, parts |-> {}, master |-> {}, derived |-> FALSE]

Deletion == [pc : {"free", "query", "remove", "commit"}, todo : SUBSET Recs,
             targets : SUBSET Recs, seen : SUBSET Recs, chan : BOOLEAN]

NoDeletion == [pc |-> "free", todo |-> {}, targets |-> {}, seen |-> {},
               chan |-> FALSE]

\* mode: which loop of run() called the work.  job is 0 between jobs.
Position == [pc : {"down", "next", "load", "list", "concat", "fill",
                   "proxy", "thumb", "store"},
             mode : {"catalog", "backfill", "queue"},
             job : 0 .. MaxRecs, found : SUBSET Numbers, master : Master,
             proxy : BOOLEAN, thumb : BOOLEAN]

Idle(mode) == [pc |-> "next", mode |-> mode, job |-> 0, found |-> {},
               master |-> NoMaster, proxy |-> FALSE, thumb |-> FALSE]

Down == [Idle("catalog") EXCEPT !.pc = "down"]

-----------------------------------------------------------------------------
Exists(r) == rec[r].st \notin {"new", "gone"}

Catalogued(r) == \E a \in assets : a.rec = r

\* .order_by(....desc()).limit(limit), on a set of numbers.
Newest(S) == {x \in S : Cardinality({y \in S : y > x}) < BatchLimit}

FileNumbers(d) == {p[1] : p \in disk[d].parts}

\* The segments in the files with these numbers.
Content(d, nos) == {p \in disk[d].parts : p[1] \in nos}

\* master_path.is_file() for a master in directory d.
IsFile(d, master) ==
  \/ master.kind = "segment" /\ master.no \in FileNumbers(d)
  \/ master.kind = "concat" /\ disk[d].master # {}

\* What one reads from it.
Media(d, master) ==
  CASE master.kind = "segment" -> Content(d, {master.no})
    [] master.kind = "concat"  -> disk[d].master
    [] master.kind = "dir"     -> {}

Spend(kind) ==
  /\ left[kind] > 0
  /\ left' = [left EXCEPT ![kind] = @ - 1]

-----------------------------------------------------------------------------
TypeOK ==
  /\ chan \in {"idle", "active", "gone"}
  /\ rec \in [Recs -> Recording]
  /\ assets \in SUBSET Asset
  /\ jobs \in Seq(Recs)
  /\ disk \in [1 .. MaxSessions -> Directory]
  /\ session \in 0 .. MaxSessions
  /\ live \in BOOLEAN
  /\ capturing \in 0 .. MaxRecs
  /\ finished \in 0 .. MaxRecs
  /\ del \in [Deleters -> Deletion]
  /\ asked \in SUBSET Recs
  /\ pp \in Position
  /\ todo \in SUBSET Recs
  /\ left \in [deletes : Nat, faults : Nat]

\* A channel that has never been connected, and no post-process worker yet.
Init ==
  /\ chan = "idle"
  /\ rec = [r \in Recs |-> [st |-> "new", dir |-> 0, n |-> 0, base |-> 0]]
  /\ assets = {}
  /\ jobs = <<>>
  /\ disk = [d \in 1 .. MaxSessions |-> NoDirectory]
  /\ session = 0 /\ live = FALSE /\ capturing = 0 /\ finished = 0
  /\ del = [d \in Deleters |-> NoDeletion]
  /\ asked = {}
  /\ pp = Down
  /\ todo = {}
  /\ left = [deletes |-> MaxDeletes, faults |-> MaxFaults]
=============================================================================
