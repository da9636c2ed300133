------------------------------ MODULE MediaApi ------------------------------
(***************************************************************************)
(* Deleting media through the API.  A request reads and checks, removes    *)
(* files recording by recording, and commits the deleted rows at the end,  *)
(* in one transaction.                                                     *)
(***************************************************************************)
EXTENDS LibraryState

\* Request d goes on to delete the recordings rs.
Name(d, rs) ==
  /\ del' = [del EXCEPT ![d] = [pc |-> IF rs = {} THEN "commit" ELSE "remove",
                                todo |-> rs, targets |-> rs, seen |-> {},
                                chan |-> del[d].chan]]
  /\ asked' = asked \cup rs
  /\ UNCHANGED <<chan, rec, assets, jobs, disk, workerVars, ppVars>>

\* The deletion of recording r, or of its asset, is accepted.
Accept(d, r) ==
  /\ del[d].pc = "free"
  /\ Spend("deletes")
  /\ Name(d, {r})

\* Mutant of DeleteRecording: without the guard on active recordings.
DeleteAnyRecording(d, r) == Exists(r) /\ Accept(d, r)

DeleteRecording(d, r) ==
  /\ Exists(r) /\ rec[r].st # "recording"
  /\ Accept(d, r)

\* The asset goes together with its recording.
DeleteAsset(d, r) ==
  /\ Catalogued(r) /\ rec[r].st # "recording"
  /\ Accept(d, r)

\* _require_idle_channel ...
DeleteChannel(d) ==
  /\ del[d].pc = "free" /\ chan = "idle"
  /\ Spend("deletes")
  /\ del' = [del EXCEPT ![d] = [NoDeletion EXCEPT !.pc = "query", !.chan = TRUE]]
  /\ UNCHANGED <<chan, rec, assets, jobs, disk, workerVars, asked, ppVars>>

\* ... then a query for the recordings of the channel, whatever their status:
\* one that was started since, or under a status that was undone, is among
\* them.
ListRecordings(d) ==
  /\ del[d].pc = "query"
  /\ Name(d, {r \in Recs : Exists(r)})
  /\ UNCHANGED left

\* _delete_recording: looks up the asset, then removes storage_path.  The
\* paths of an asset all lie below it.  A removal that fails is logged, and
\* the rows are deleted all the same.
RemoveMedia(d, r) ==
  /\ del[d].pc = "remove" /\ r \in del[d].todo
  /\ del' = [del EXCEPT ![d].todo = @ \ {r},
                        ![d].seen = IF Catalogued(r) THEN @ \cup {r} ELSE @,
                        ![d].pc = IF del[d].todo = {r} THEN "commit" ELSE @]
  /\ \/ /\ disk' = [disk EXCEPT ![rec[r].dir] = NoDirectory]
        /\ UNCHANGED left
     \/ /\ disk[rec[r].dir].there
        /\ Spend("faults")
        /\ UNCHANGED disk
  /\ UNCHANGED <<chan, rec, assets, jobs, workerVars, asked, ppVars>>

\* The foreign keys allow the transaction: no asset has come up that the
\* request did not see, and no recording of a channel that is deleted.
MayCommit(d) ==
  /\ \A r \in del[d].targets : Catalogued(r) => r \in del[d].seen
  /\ del[d].chan => \A r \in Recs : Exists(r) => r \in del[d].targets

Commit(d) ==
  /\ del[d].pc = "commit"
  /\ del' = [del EXCEPT ![d] = NoDeletion]
  /\ IF MayCommit(d)
       THEN /\ rec' = [r \in Recs |-> IF r \in del[d].targets
                                        THEN [rec[r] EXCEPT !.st = "gone"]
                                        ELSE rec[r]]
            /\ assets' = {a \in assets : a.rec \notin del[d].targets}
            /\ chan' = IF del[d].chan THEN "gone" ELSE chan
       ELSE UNCHANGED <<rec, assets, chan>>
  /\ UNCHANGED <<jobs, disk, workerVars, asked, ppVars, left>>

\* The API process is killed: its transactions are rolled back.
ApiDies ==
  /\ \E d \in Deleters : del[d].pc # "free"
  /\ Spend("faults")
  /\ del' = [d \in Deleters |-> NoDeletion]
  /\ UNCHANGED <<chan, rec, assets, jobs, disk, workerVars, asked, ppVars>>

MediaApiNext ==
  \/ \E d \in Deleters :
        \/ \E r \in Recs : \/ DeleteRecording(d, r)
                           \/ DeleteAsset(d, r)
                           \/ RemoveMedia(d, r)
        \/ DeleteChannel(d)
        \/ ListRecordings(d)
        \/ Commit(d)
  \/ ApiDies
=============================================================================
