--------------------------- MODULE PostProcessor ---------------------------
(***************************************************************************)
(* PostProcessWorker: a batch of completed recordings without an asset, a  *)
(* batch of assets without proxy or thumbnail, then one job of the list    *)
(* after the other.  No session is held while media is worked on, so       *)
(* between any two steps rows and files may go.                            *)
(***************************************************************************)
EXTENDS LibraryState

\* Everything else.
libraryVars == <<chan, rec, workerVars, apiVars>>

\* Mutant of Uncatalogued: the query loses its filter on the status.
UncataloguedAny == {r \in Recs : Exists(r) /\ ~Catalogued(r)}

Uncatalogued == {r \in Recs : rec[r].st = "completed" /\ ~Catalogued(r)}

\* The newest assets that lack a proxy or a thumbnail.
MissingMedia ==
  LET missing == {a \in assets : ~a.proxy \/ ~a.thumb}
  IN  {a.rec : a \in {b \in missing : b.at \in Newest({c.at : c \in missing})}}

\* A job is done, or an exception ended it: run() goes on with the next.
Done == pp' = Idle(pp.mode)

\* Mutant of StartUp: no look for recordings whose job was lost.
StartUpEmpty ==
  /\ pp.pc = "down"
  /\ pp' = Idle("catalog")
  /\ todo' = {}
  /\ UNCHANGED <<libraryVars, assets, jobs, disk, left>>

StartUp ==
  /\ pp.pc = "down"
  /\ pp' = Idle("catalog")
  /\ todo' = Newest(Uncatalogued)
  /\ UNCHANGED <<libraryVars, assets, jobs, disk, left>>

\* The process is killed, or a Redis error ends the loop: blocking_pop only
\* catches the timeout.  What it had in hand is lost.
PostProcessorDies ==
  /\ pp.pc # "down"
  /\ Spend("faults")
  /\ pp' = Down
  /\ todo' = {}
  /\ UNCHANGED <<libraryVars, assets, jobs, disk>>

\* _catalog_uncataloged_recordings is through: _backfill_missing_media.
StartBackfill ==
  /\ pp.pc = "next" /\ pp.mode = "catalog" /\ todo = {}
  /\ pp' = Idle("backfill")
  /\ todo' = MissingMedia
  /\ UNCHANGED <<libraryVars, assets, jobs, disk, left>>

StartQueue ==
  /\ pp.pc = "next" /\ pp.mode = "backfill" /\ todo = {}
  /\ pp' = Idle("queue")
  /\ UNCHANGED <<libraryVars, assets, jobs, disk, todo, left>>

\* Recordings newest first; the order of a backfill batch is left open.
NextOfBatch ==
  /\ pp.pc = "next" /\ pp.mode # "queue"
  /\ \E r \in todo :
       /\ pp.mode = "catalog" => \A q \in todo : q <= r
       /\ pp' = [pp EXCEPT !.job = r,
                           !.pc = IF pp.mode = "catalog" THEN "load" ELSE "fill"]
       /\ todo' = todo \ {r}
  /\ UNCHANGED <<libraryVars, assets, jobs, disk, left>>

PopJob ==
  /\ pp.pc = "next" /\ pp.mode = "queue" /\ jobs # <<>>
  /\ pp' = [pp EXCEPT !.job = Head(jobs), !.pc = "load"]
  /\ jobs' = Tail(jobs)
  /\ UNCHANGED <<libraryVars, assets, disk, todo, left>>

\* Mutant of LoadRecording: it does not look for an asset of the recording.
LoadAnyway ==
  /\ pp.pc = "load"
  /\ IF Exists(pp.job) THEN pp' = [pp EXCEPT !.pc = "list"] ELSE Done
  /\ UNCHANGED <<libraryVars, assets, jobs, disk, todo, left>>

\* A recording that is gone, or has its asset already, is skipped.
LoadRecording ==
  /\ pp.pc = "load"
  /\ IF Exists(pp.job) /\ ~Catalogued(pp.job)
       THEN pp' = [pp EXCEPT !.pc = "list"]
       ELSE Done
  /\ UNCHANGED <<libraryVars, assets, jobs, disk, todo, left>>

\* Without a segment the asset is stored at once, with the directory for a
\* master; one segment is the master itself.
ListSegments ==
  LET found == FileNumbers(rec[pp.job].dir) IN
  /\ pp.pc = "list"
  /\ pp' = [pp EXCEPT
       !.found = found,
       !.pc = CASE found = {} -> "store"
                [] Cardinality(found) = 1 -> "proxy"
                [] OTHER -> "concat",
       !.master = IF Cardinality(found) = 1
                    THEN [kind |-> "segment", no |-> CHOOSE k \in found : TRUE]
                    ELSE NoMaster]
  /\ UNCHANGED <<libraryVars, assets, jobs, disk, todo, left>>

\* concat_mpegts_segments makes the directory and opens master.ts ...
BeginConcat ==
  LET d == rec[pp.job].dir IN
  /\ pp.pc = "concat" /\ pp.master = NoMaster
  /\ disk' = [disk EXCEPT ![d].there = TRUE, ![d].master = {Cut}]
  /\ pp' = [pp EXCEPT !.master = [kind |-> "concat", no |-> 0]]
  /\ UNCHANGED <<libraryVars, assets, jobs, todo, left>>

\* ... and copies the segments it has listed; one that is gone ends the job.
FinishConcat ==
  LET d == rec[pp.job].dir IN
  /\ pp.pc = "concat" /\ pp.master.kind = "concat"
  /\ IF pp.found \subseteq FileNumbers(d)
       THEN /\ pp' = [pp EXCEPT !.pc = "proxy"]
            /\ disk' = [disk EXCEPT ![d].master = Content(d, pp.found)]
       ELSE Done /\ UNCHANGED disk
  /\ UNCHANGED <<libraryVars, assets, jobs, todo, left>>

\* _backfill_missing_media takes the asset's master; one that is not a file
\* gets no more than a note in the asset's metadata.
FillAsset ==
  /\ pp.pc = "fill"
  /\ \/ \E a \in assets :
          /\ a.rec = pp.job
          /\ IF IsFile(rec[pp.job].dir, a.master)
               THEN pp' = [pp EXCEPT !.pc = "proxy", !.master = a.master]
               ELSE Done
     \/ ~Catalogued(pp.job) /\ Done
  /\ UNCHANGED <<libraryVars, assets, jobs, disk, todo, left>>

\* A transcoding succeeds if the master is there, or fails.
Transcodes(ok) ==
  \/ ok /\ IsFile(rec[pp.job].dir, pp.master) /\ UNCHANGED left
  \/ ~ok /\ IF IsFile(rec[pp.job].dir, pp.master) THEN Spend("faults")
                                                   ELSE UNCHANGED left

\* generate_hls_proxy, unless the master is not a file.
MakeProxy ==
  LET d == rec[pp.job].dir IN
  /\ pp.pc = "proxy"
  /\ IF IsFile(d, pp.master)
       THEN \E ok \in BOOLEAN :
              /\ Transcodes(ok)
              /\ disk' = [disk EXCEPT ![d].derived = TRUE]
              /\ pp' = [pp EXCEPT !.pc = "thumb", !.proxy = ok]
       ELSE /\ pp' = [pp EXCEPT !.pc = "store"]
            /\ UNCHANGED <<disk, left>>
  /\ UNCHANGED <<libraryVars, assets, jobs, todo>>

\* generate_thumbnail, without a second look at the master: it makes the
\* directories first, those of a deleted session too.
MakeThumbnail ==
  LET d == rec[pp.job].dir IN
  /\ pp.pc = "thumb"
  /\ \E ok \in BOOLEAN :
       /\ Transcodes(ok)
       /\ disk' = [disk EXCEPT ![d].there = TRUE, ![d].derived = TRUE]
       /\ pp' = [pp EXCEPT !.pc = "store", !.thumb = ok]
  /\ UNCHANGED <<libraryVars, assets, jobs, todo>>

\* _create_asset.  An asset that has come up meanwhile is left alone; the
\* foreign key refuses an asset for a recording that has gone meanwhile.
CreateAsset ==
  /\ pp.pc = "store" /\ pp.mode # "backfill"
  /\ IF Exists(pp.job) /\ ~Catalogued(pp.job)
       THEN \E at \in Recs :
              /\ \A a \in assets : a.at < at
              /\ at = 1 \/ \E a \in assets : a.at + 1 = at
              /\ assets' = assets \cup
                   {[rec |-> pp.job, at |-> at, master |-> pp.master,
                     proxy |-> pp.proxy, thumb |-> pp.thumb]}
       ELSE UNCHANGED assets
  /\ Done
  /\ UNCHANGED <<libraryVars, jobs, disk, todo, left>>

\* The second session of _backfill_missing_media.
UpdateAsset ==
  /\ pp.pc = "store" /\ pp.mode = "backfill"
  /\ assets' = {IF a.rec = pp.job
                  THEN [a EXCEPT !.proxy = @ \/ pp.proxy, !.thumb = @ \/ pp.thumb]
                  ELSE a : a \in assets}
  /\ Done
  /\ UNCHANGED <<libraryVars, jobs, disk, todo, left>>

\* Work that goes on by itself.
PostProcessorStep ==
  \/ StartBackfill \/ StartQueue \/ NextOfBatch \/ PopJob
  \/ LoadRecording \/ ListSegments \/ BeginConcat \/ FinishConcat
  \/ FillAsset \/ MakeProxy \/ MakeThumbnail \/ CreateAsset \/ UpdateAsset

PostProcessorNext == StartUp \/ PostProcessorStep \/ PostProcessorDies
=============================================================================
