---------------------------- MODULE MediaLibrary ----------------------------
(***************************************************************************)
(* The library as a whole: the ingest worker records and announces, the    *)
(* post-process worker catalogues, operators delete.                       *)
(***************************************************************************)
EXTENDS MediaApi, PostProcessor

-----------------------------------------------------------------------------
(* The ingest worker, as the library sees it.                              *)

\* A session that is still up is kept.
Connect ==
  /\ chan = "idle" /\ chan' = "active"
  /\ \/ live /\ UNCHANGED <<session, live>>
     \/ ~live /\ session < MaxSessions /\ session' = session + 1 /\ live' = TRUE
  /\ UNCHANGED <<rec, assets, jobs, disk, capturing, finished, apiVars, ppVars,
                 left>>

\* The session, if there is one, goes without a look at the status.
Disconnect ==
  /\ live \/ chan = "active"
  /\ capturing = 0 /\ finished = 0
  /\ live' = FALSE
  /\ chan' = IF chan = "active" THEN "idle" ELSE chan
  /\ UNCHANGED <<rec, assets, jobs, disk, session, capturing, finished, apiVars,
                 ppVars, left>>

\* The push of a job timed out, but Redis has taken it, and the worker has
\* applied it: the scheduler writes the status it had read before over
\* whatever there is now, "recording" too.
UndoStatus ==
  /\ session > 0 /\ Spend("faults")
  /\ \/ chan = "active" /\ chan' = "idle"
     \/ chan = "idle" /\ chan' = "active"
  /\ UNCHANGED <<rec, assets, jobs, disk, workerVars, apiVars, ppVars>>

OfSession == {q \in Recs : rec[q].st # "new" /\ rec[q].dir = session}

\* All recordings of a session go to one directory.  Whether multifilesink
\* then numbers its files from the beginning, or goes on where the session's
\* last recording stopped, is its own business.  The foreign key refuses the
\* row of a channel that is gone; any other status is overwritten.
StartRecording(r) ==
  /\ live /\ chan # "gone" /\ capturing = 0 /\ finished = 0
  /\ rec[r].st = "new" /\ \A q \in Recs : q < r => rec[q].st # "new"
  /\ Cardinality(OfSession) < MaxPerSession
  /\ \E base \in {0} \cup {rec[q].base + rec[q].n : q \in OfSession \cap {r - 1}} :
       rec' = [rec EXCEPT ![r] = [st |-> "recording", dir |-> session,
                                  n |-> 0, base |-> base]]
  /\ disk' = [disk EXCEPT ![session].there = TRUE]
  /\ capturing' = r /\ chan' = "active"
  /\ UNCHANGED <<assets, jobs, session, live, finished, apiVars, ppVars, left>>

\* The next file is opened, over one of that number if there is one.
WriteSegment ==
  LET r == capturing
      d == rec[r].dir
      no == rec[r].base + rec[r].n + 1
  IN
  /\ r # 0 /\ rec[r].n < MaxParts /\ disk[d].there
  /\ disk' = [disk EXCEPT ![d].parts = {p \in @ : p[1] # no} \cup {<<no, r>>}]
  /\ rec' = [rec EXCEPT ![r].n = @ + 1]
  /\ UNCHANGED <<chan, assets, jobs, workerVars, apiVars, ppVars, left>>

\* _finalize_recording: the row first, if it is still there (it goes only with
\* the channel, and then no other row is left to be closed in its place) ...
FinishRecording ==
  /\ capturing # 0 /\ capturing' = 0
  /\ \/ /\ Exists(capturing) /\ finished' = capturing
        /\ rec' = [rec EXCEPT ![capturing].st = "completed"]
     \/ ~Exists(capturing) /\ UNCHANGED <<rec, finished>>
  /\ UNCHANGED <<chan, assets, jobs, disk, session, live, apiVars, ppVars, left>>

\* Mutant of Announce: it takes the id from where it has been popped already.
AnnounceForgotten ==
  /\ finished # 0 /\ finished' = 0
  /\ \/ jobs' = Append(jobs, capturing) /\ UNCHANGED left
     \/ Spend("faults") /\ UNCHANGED jobs
  /\ UNCHANGED <<chan, rec, assets, disk, session, live, capturing, apiVars, ppVars>>

\* ... then the job, unless the worker is killed or Redis fails in between.
Announce ==
  /\ finished # 0 /\ finished' = 0
  /\ \/ jobs' = Append(jobs, finished) /\ UNCHANGED left
     \/ Spend("faults") /\ UNCHANGED jobs
  /\ UNCHANGED <<chan, rec, assets, disk, session, live, capturing, apiVars, ppVars>>

\* The session or the worker dies while recording.  The row is given up, or
\* nobody ever closes it.
LoseSession ==
  /\ capturing # 0 /\ capturing' = 0
  /\ live' = FALSE
  /\ Spend("faults")
  /\ \/ Exists(capturing) /\ rec' = [rec EXCEPT ![capturing].st = "failed"]
     \/ UNCHANGED rec
  /\ chan' = IF chan = "active" THEN "idle" ELSE chan
  /\ UNCHANGED <<assets, jobs, disk, session, finished, apiVars, ppVars>>

IngestNext ==
  \/ Connect \/ Disconnect \/ UndoStatus
  \/ \E r \in Recs : StartRecording(r)
  \/ WriteSegment \/ FinishRecording \/ Announce \/ LoseSession

-----------------------------------------------------------------------------
Next == IngestNext \/ MediaApiNext \/ PostProcessorNext

Spec == Init /\ [][Next]_vars

\* The post-process worker does not rest while it has work, and somebody
\* starts it when it is down (its compose service has no restart policy).
FairSpec == Spec /\ WF_vars(PostProcessorStep) /\ WF_vars(StartUp)

-----------------------------------------------------------------------------
\* A recording has at most one asset, and only one that was completed has
\* one: whatever the start-up batch and the list ask for at the same time.
CatalogueIsSound ==
  /\ \A a \in assets : rec[a.rec].st = "completed"
  /\ \A a, b \in assets : a.rec = b.rec => a = b

\* As long as nobody asks for its deletion, the master of an asset is on
\* disk, and holds the segments of its recording, all of them and no others:
\* no retry, crash or deletion of another recording takes from it or adds.
AssetIsWhole ==
  \A a \in assets :
    LET r == a.rec IN
    r \notin asked =>
      Media(rec[r].dir, a.master) =
        (rec[r].base + 1 .. rec[r].base + rec[r].n) \X {r}

\* The directory a capture writes to is not removed ("Cannot delete an active
\* recording"), but for one exception: a deletion of the whole channel whose
\* query has named the running recording, because the recording was started
\* between the idle check and the query, or because an undone status had let
\* the check pass.
CaptureKeepsDirectory ==
  [][\A r \in Recs :
       /\ capturing = r /\ disk[rec[r].dir].there /\ ~disk'[rec[r].dir].there
       => \E d \in Deleters : del[d].chan /\ r \in del[d].targets]_vars

\* Once the API and the post-process worker are at rest, a recording whose
\* deletion was asked for is there with its media or gone with it.
DeletionIsWhole ==
  /\ \A d \in Deleters : del[d].pc = "free"
  /\ pp.job = 0 /\ pp.pc # "down"
  => \A r \in asked : Exists(r) <=> disk[rec[r].dir].there

\* A completed recording whose job is queued gets its asset; so does one that
\* the post-process worker lost or never heard of, after it is started again.
CompletedIsCatalogued ==
  \A r \in Recs :
    /\ rec[r].st = "completed"
    /\ pp.pc = "down" \/ \E k \in DOMAIN jobs : jobs[k] = r
    ~> Catalogued(r) \/ r \in asked
=============================================================================
