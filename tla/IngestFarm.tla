----------------------------- MODULE IngestFarm ----------------------------
(***************************************************************************)
(* Control plane and ingest worker around one database and one Redis.      *)
(***************************************************************************)
EXTENDS Scheduler, IngestWorker

Next == SchedulerNext \/ WorkerNext

Spec == Init /\ [][Next]_vars

\* A request thread runs to its end, the worker is restarted when it is down
\* (compose: restart unless-stopped), and its main thread never rests inside
\* a handler.  Back in the loop GLib serves both of its sources: the tick
\* has the higher priority, and it is re-armed a full second after it ran,
\* which leaves time for the idle callbacks.
Fairness ==
  /\ \A r \in Requests : WF_vars(RequestStep(r))
  /\ WF_vars(Startup \/ HandlerStep \/ Exit)
  /\ WF_vars(PopConnect)
  /\ SF_vars(Heartbeat)
  /\ SF_vars(\E c \in Channels : ConnectJob(c))

FairSpec == Spec /\ Fairness

\* An operator who asks again for a disconnect of every channel that is not
\* idle, however often it takes.
AskAgain(r, c) ==
  /\ req[r].pc = "free"
  /\ status[c] \in Allowed("disconnect")
  /\ SetReq(r, Admitted("disconnect", c, status[c], FALSE))
  /\ UNCHANGED <<dbVars, redisVars, memVars, threadVars, mainVars, left>>

RecoverySpec ==
  /\ Init /\ [][Next \/ \E r \in Requests, c \in Channels : AskAgain(r, c)]_vars
  /\ Fairness
  /\ \A c \in Channels : SF_vars(\E r \in Requests : AskAgain(r, c))

-----------------------------------------------------------------------------
(* Vocabulary of the properties.                                           *)

InFlight(c) == \E r \in Requests : req[r].pc # "free" /\ req[r].chan = c

Queued(c) ==
  \/ \E i \in DOMAIN connectQ : connectQ[i] = c
  \/ \E i \in DOMAIN idleQ : idleQ[i] = c
  \/ \E o \in ControlLists : c \in ctlQ[o]
  \/ batch[c] # {}

\* Nothing about the channel is under way: no request, no job, no handler.
Quiet(c) == pc = "loop" /\ running /\ ~InFlight(c) /\ ~Queued(c)

ActiveRows(c) == {i \in DOMAIN rows : rows[i].chan = c /\ rows[i].st = "recording"}

-----------------------------------------------------------------------------
(* Safety.                                                                 *)

\* While a session writes segments the catalogue has an open row for that
\* channel and the worker remembers which, so a stop, a disconnect or the
\* session's death closes the right one.  (_handle_record_start opens the
\* row before it opens the valve, and undoes it when the valve stays shut.)
CaptureIsCatalogued ==
  \A c \in Channels : capturing[c] =>
    /\ recIds[c] \in DOMAIN rows
    /\ rows[recIds[c]] = [chan |-> c, st |-> "recording"]

\* No channel has two open rows: the newest-active-row lookups of
\* _finalize_recording and _fail_active_recording cannot miss one.
OneActiveRow ==
  \A c \in Channels : \A i, j \in ActiveRows(c) : i = j

\* The worker's achieved statuses are true whenever it is back in the loop:
\* a connected channel has a session, a recording one is writing.
AchievedIsReal ==
  pc = "loop" => \A c \in Channels :
    /\ status[c] \in {"connected", "recording"} => c \in registered
    /\ status[c] = "recording" => capturing[c]

\* A completed recording has its post-processing job, or is just getting it.
CompletedIsAnnounced ==
  \A i \in DOMAIN rows : rows[i].st = "completed" =>
    i \in {finRow, frame.finRow} \/ \E k \in DOMAIN postQ : postQ[k] = i

\* A start that came before its session is not left waiting beside it: when
\* the main thread is back in the loop, no remembered start (_pending_record)
\* is of a channel whose session runs, whichever way the session came up.
DeferredStartIsServed ==
  pc = "loop" => \A c \in pending : ~Live(c)

\* The capacity is tested before a connect and the session added up to 15
\* seconds later, with the batch and a SIGTERM in between at most: the worker
\* still never holds more sessions than it has room for.
CapacityHolds == Cardinality(registered) <= Capacity

\* A recording that was given up as failed is not completed later on.
FailedIsFinal ==
  [][\A i \in DOMAIN rows : rows[i].st = "failed" => rows'[i].st = "failed"]_vars

\* The first restart closes every row of a channel the stopped worker had
\* claimed, wherever in its handlers it was stopped and whatever requests came
\* while it was down: until then such a channel has one open row at most, and
\* an active status beside it.  There are two exceptions.  After a failed push
\* the undo may have written an idle status over a running recording, and
\* _startup passes that channel by; and a connect that replaces a dead session
\* leaves the old row open, where a disconnect and a second row may follow.
RestartClosesRow ==
  [][pc = "down" /\ pc' = "loop" /\ left.crashes = MaxCrashes - 1 =>
       \A c \in claimed : ActiveRows(c)' # {} =>
         \/ left.deaths < MaxDeaths
         \/ left.faults < MaxFaults /\ status[c] \in IdleStatuses]_vars

\* An idle channel at rest has no session running for it.
IdleHasNoSession ==
  \A c \in Channels : Quiet(c) /\ status[c] = "idle" => ~Live(c)

\* An idle channel at rest has no row left at "recording".
IdleHasNoOpenRow ==
  \A c \in Channels : Quiet(c) /\ status[c] = "idle" => ActiveRows(c) = {}

-----------------------------------------------------------------------------
(* The ledger of recordings.                                               *)

Ledger == INSTANCE RecordingLedger WITH ledger <- rows, jobs <- postQ

LedgerSpec == Ledger!Spec

-----------------------------------------------------------------------------
(* Liveness.                                                               *)

\* An accepted connect, disconnect or stop reaches an outcome: the intent is
\* committed before the job is queued, and the job's handler replaces it.
IntentSettles ==
  \A c \in Channels, s \in {"connecting", "disconnecting", "stopping"} :
    status[c] = s ~> status[c] # s

\* Connect jobs do not pile up: the connect-jobs thread takes them all.
ConnectJobsAreTaken == connectQ # <<>> ~> connectQ = <<>>

\* "Database status must never be left in a transitional state that nothing
\* can recover from": whatever was lost, asking for a disconnect again until
\* it is granted brings the channel back to idle or error.
OperatorRecovers ==
  \A c \in Channels : status[c] \in ActiveStatuses ~> status[c] \in IdleStatuses
=============================================================================
