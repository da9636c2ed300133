# Verification of ingest-farm

TLA+ models of the ingest farm (FastAPI control plane, GStreamer ingest worker,
PostgreSQL, Redis job lists), TLC configurations that check them on small instances and
TLAPS proofs of what must hold on every instance.

## 1. The system

| Component | Source | State it keeps | Operations |
| --- | --- | --- | --- |
| Control plane | `ingest_farm/orchestrator/scheduler.py`, `api/main.py` | none of its own; one thread and one SQLAlchemy session per request | connect, disconnect, record start, record stop, ETR 290 reset |
| Job lists | `ingest_farm/common/events.py` | one Redis list per job kind; no acknowledgement, no redelivery | push, blocking pop, try pop |
| Ingest worker | `ingest_farm/worker/main.py` | sessions, recording ids, pending starts | startup reconciliation, tick (heartbeat, control batch), connect handler, shutdown |
| Channel session | `ingest_farm/worker/recorder.py` | pipeline or SRT child, recording flag | connect, start and stop recording, disconnect |
| SRT child | `ingest_farm/worker/srt_session_proc.py` | pipeline, recording branch; command file, status file, ready file | record, stop, quit, ETR 290 reset, status |
| ETR 290 | `worker/etr290.py`, `worker/etr290_sidecar.py` | totals of the session, PID map; `etr290.json`, reset and stop files | accumulate, roll up, reset, publish, stop |
| Post-processor | `ingest_farm/postprocess/` | none beyond the database and the disk | catalogue, backfill, transcode |
| Media library | `api/main.py`, `common/cleanup.py`, `common/storage.py` | recordings, assets, files | edit, delete recording / asset / channel |
| Catalogue | `ingest_farm/models/__init__.py` | channels, recordings, assets, workers | |
| Web client | `web/src` | polled copies of the above | |

How they interact. A lifecycle request reads the channel's status, commits an intent
(`connecting`, `disconnecting`, `starting`, `stopping`), pushes a job and answers; when the
push fails it writes the old status back. The worker's `connect-jobs` thread hands connect
jobs to the GLib loop as idle callbacks; everything else is popped by a tick of that loop,
once a second, after the heartbeat. The handlers write achieved statuses (`connected`,
`recording`, `idle`, `error`), open and close recordings rows, and announce completed rows
to the post-processor.

What is hard: the lists have no common order; the status is read and written by many
threads and two processes without a condition on its present value; a popped job exists
only in a process; the worker may be killed inside any handler; a pipeline may die at any
moment and is noticed by the next heartbeat; Redis may fail between any two steps; SIGTERM
runs `_shutdown` on the main thread on top of whatever handler is half done. Worker and SRT
child talk through files that neither locks: the child reads the command file and truncates
it in a second step, the worker polls a status that may be older than its command, and only
some commands are waited for. The sidecar's HTTP threads and its loop share the totals, and
a reset is a file that is removed after it has been applied.

Properties that make the parts correct:

* *Worker and catalogue*: what is being written to disk is catalogued, a row is closed once
  and for good, a completed row is announced once, a channel has one open row.
* *Control plane*: an accepted intent is not left in place for ever; whatever was lost can
  be repaired through the API.
* *Session*: an idle channel has no running session.
* *SRT child*: what the worker believes is recorded is what is written; no child outlives
  its session; the status file comes to tell the truth.
* *Media library*: an asset's media exists as long as the asset; nothing is catalogued for
  a deleted recording.
* *ETR 290*: each interval is counted once in the totals since the last reset; the totals on
  show do not move back; a reset reaches them; a monitor that has failed does not look
  healthy; no monitor outlives its session.

## 2. Modules

| Module | Models |
| --- | --- |
| `FarmState` | the variables, grouped by owner (PostgreSQL, Redis, API, worker), statuses, row queries, `TypeOK`, `Init` |
| `Scheduler` | the request threads of the API |
| `IngestWorker` | the connect thread, the main thread, the faults that strike the worker |
| `IngestFarm` | the composition: `Next`, fairness, the properties |
| `RecordingLedger` | abstract: the life of a recording and of its post-processing job |
| `MCIngestFarm` | the symmetry set TLC uses |
| `IngestFarmProofs` | theorems about `IngestFarm` under every fault, and their proofs |
| `FarmSessionProofs` | theorems about the worker's sessions under every fault |
| `FarmOrderProofs` | theorems about `IngestFarm` when certain faults stay away |
| `CaptureGate` | abstract: what a session with its pipeline in another process promises its caller |
| `SrtSession` | the SRT session of one channel: the worker's `ChannelSession`, the child process, their files |
| `SrtSessionProofs` | theorems about `SrtSession`, and that it implements `CaptureGate` |
| `Etr290` | the ETR 290 arithmetic: rows of an interval, roll-up, totals, PID map |
| `Etr290Monitor` | the sidecar (HTTP stub and loop), the child that starts, stops and reads it, their files |
| `MCEtr290` | what TSDuck posts in TLC's instance, and further analyses for the PID map |
| `Etr290MonitorProofs` | theorems about the place and the order of `Etr290Monitor` |
| `Etr290Proofs` | theorems about the totals and the PID map, with the lemmas about `Etr290`'s functions |
| `LibraryState` | the media library of one channel: rows, assets, directories, the post-processing list, positions of the processes, `TypeOK`, `Init` |
| `MediaApi` | the requests that delete a recording, an asset or a channel |
| `PostProcessor` | the post-process worker: start-up batch, backfill, job loop, one recording |
| `MediaLibrary` | the composition, with the ingest worker reduced to its effects; properties |
| `MediaLibraryProofs` | theorems about the catalogue and the directories of `MediaLibrary` |
| `AssetProofs` | theorems about the media of an asset |

The two compositions meet in the completed row and its post-processing job. What
`RecordingLedger` promises of them (a row is completed once and for good, its job is pushed
after that) is how `MediaLibrary` writes its own `FinishRecording` and `Announce`. The farm's
`OpenCapture`, `StopCapture` and `Teardown` rest on what `CaptureGate` promises of a session,
and `SrtSession` is shown to keep that promise as long as every call was acknowledged. The
`reset` lines of `SrtSession` are the resets of `Etr290Monitor`; `LoseReset` there is the
truncation here.

### Code and model: the farm

* One `with get_session_factory()() as db:` block is one step, and so is one Redis
  command. Between such steps other request threads, the connect thread, the pipelines and
  a kill may come. A blocking call into the pipeline (`session.connect`,
  `start_recording`, `stop_recording`, `disconnect`) is a step of its own.
* A request occupies a slot of `req` from its guard to its answer: `Accept` /
  `AcceptAutoConnect` (guards of the four methods), `CommitIntent` (first commit; SQLAlchemy
  sends no UPDATE when an attribute is assigned the value it had), `Publish`,
  `PublishFails` (nothing queued, or queued although the client saw a timeout), `Undo`,
  `RefreshAndStart` (the second half of `start_recording` after its auto-connect).
* `connectQ` is a sequence. The four control lists are sets: a tick pops each until it is
  empty and drops repeats, so their order and multiplicity are lost in the code too. The
  order in which a batch is applied over channels is left open.
* `pc`, `cur` and `op` are the main thread's position. `loop` is the GLib loop; from there
  come `Heartbeat` (then `Drain` four times, then `apply`) and `ConnectJob`.
  `_handle_disconnect` is `BeginDisconnect`, `StopCapture`, `CloseRow`, `Announce`,
  `Teardown`, `MarkIdle`; `_handle_record_stop` is `BeginStop`, the same finalisation,
  `MarkStopped`, or `StopWithoutSession`; `_handle_record_start` is `BeginStart`, then
  `DeferStart`, `AlreadyRecording`, or `OpenRow` and `OpenCapture` / `OpenCaptureFails`;
  `_handle_connect` is `AlreadyConnected`, `AtCapacity`, or `BeginConnect` and
  `ConnectSucceeds` / `ConnectFails`.
* A reset is accepted, queued and drained like the other control jobs. Its handler only
  appends a line to the child's command file, which is no state of the farm, so `Drain` does
  not keep it for the batch; what the line does is in `SrtSession` and `Etr290Monitor`.
* An exception inside a tick drops the rest of the batch (`AbortTick`): `DrainFails`,
  `AnnounceFails`. `leaked` holds the pipelines that a failed announcement in
  `_handle_disconnect` leaves running.
* `pipe[c]` is the newest pipeline built for a channel: `live`, `dead` (bus error, end of
  stream, child exited) or `none`. `claimed` is `workers.active_channels`, written by
  `Startup` and by the heartbeat, with the keys from before the heartbeat drops anything.
* `Crash` is a kill at any point. `Shutdown` is SIGTERM with the main thread anywhere: the
  position, channel and row of the interrupted handler are kept in `frame`, the sessions are
  disconnected one by one with the same steps as above, then `Resume` goes back to the
  interrupted handler, which finishes with what it had read before; `Exit` follows when
  it has returned to the loop. `ApiCrash` forgets the requests in flight; `PopperDies` is the end of the connect
  thread on a Redis error.

### Code and model: the SRT session

* `wpc` is the call the worker's main thread is in: `Connect` (the state directory is
  emptied and the child spawned), `ConnectReady` / `ConnectFails`; `StartRecording` appends
  the command, `StartAcknowledged` / `StartUnacknowledged` is the end of the wait for
  `status.json`; `StopRecording` and `StopAcknowledged` / `StopUnacknowledged` likewise, and
  `Disconnect` is a last stop, `SendQuit` and `Teardown`. A deadline is an action that may
  be taken at any time, so a call may return before, between or after any steps of the child.
* `kid[g].ph` is where child `g` is: it clears the command file, builds the pipeline,
  announces itself, and from then on its timer runs `WriteStatus`, `ReadCmds`, `CutCmds` and
  one step per line (`StartRecord`, `StopRecord`, `ForwardReset`, `Quit`). Between any two
  the worker may append. `RelinkFails` and `CutFails` are the error paths.
* A recording is the number of its start (a *take*), so that a late or repeated command is
  told apart from the one the worker waits for. `capture` is the take whose directory is
  being written, `believed` the one `_recording` stands for.
* `orphans` and `trust` are history: the children that have outlived their session, and
  whether every call of the session was acknowledged with nobody else in the directory.

### Code and model: the ETR 290 monitor

* `Etr290` has the functions of `worker/etr290.py` under their own names, on rows whose text
  has been split; a missing value is an empty set.
* Sidecar `i` is the process session `i` has started. `Accumulate` is `do_POST`; the loop is
  `StopSeen`, `TspExitSeen`, `ResetSeen`, `UnlinkReset`, `Publish`, `Finish`, one step per
  file or lock it takes. The child's timer is `WriteStatus` (it starts the sidecar, reads
  `etr290.json` and chooses what to show) and `ForwardReset`; `ForwardResetFails` is its error
  path, which has cleared the last snapshot and leaves no file.
* Time is the age of a snapshot, in report intervals, up to `Stale`.
* `heard` and `era` are history carried by a snapshot: the intervals in its totals and the
  resets before them. `strays` are the sidecars whose child died without stopping them.

### Code and model: the library

* Recordings are numbers in the order of `started_at`, sessions numbers in the order of
  connects. Directory `d` of `disk` is `LocalStorage.session_dir` of session `d`: every
  recording of the session writes there. A segment is the number of its file and the
  recording it was written for, so that a directory shared by two recordings, a file
  written over and a master made of the wrong segments can be told apart. `Cut` is what an
  unfinished `master.ts` holds.
* Where `multifilesink` starts numbering in a session that records again is GStreamer's
  business; `StartRecording` allows both answers.
* `live` says whether the worker holds a session, which its handlers look at, and `chan` is
  the stored status, which the API looks at. `UndoStatus` takes them apart: the push of a job
  times out although Redis has taken the job, the worker applies it, and the scheduler writes
  back what it had read (`scheduler.py:53-58`).
* A deletion is `DeleteRecording`, `DeleteAsset` or `DeleteChannel` (the guards; the last is
  the idle check only, and `ListRecordings` the query that follows it), one
  `RemoveMedia` per recording (`_delete_recording`: looks for the asset, removes the
  directory; failures are only logged), and `Commit`, which the foreign keys may refuse:
  then the request fails and its rows stay. A channel is deleted recording by recording, and
  its rows go with it, that of a running capture too: `FinishRecording` then finds nothing.
* The post-process worker is one thread: `pp.mode` is the loop of `run()` it is in, `pp.pc`
  its place in the work on one recording. It holds no session while it works on media.
  `_load_recording` is `LoadRecording`; `_process` goes on with `ListSegments`, `BeginConcat`
  and `FinishConcat` when there is more than one segment, `MakeProxy`, `MakeThumbnail`,
  `CreateAsset`. The backfill is `FillAsset`, the same two, `UpdateAsset`. Any exception in
  between ends the job (`Done`) and nothing is queued again.
* The start-up batch is limited (`Newest`, `BACKFILL_BATCH`), both for recordings and for
  assets.
* `asked` remembers the recordings a deletion was accepted for; it only serves properties.

## 3. Runs

| Run | Question | Instance |
| --- | --- | --- |
| `farm_faults` | Is every capture catalogued, is a start that came early served with its session, does the capacity hold, does a restart close claimed rows, and do rows and jobs implement `RecordingLedger`, under every kind of fault? | 2 channels, capacity 1, 2 requests in 2 slots, 1 crash, 1 dead pipeline, 1 Redis error |
| `farm_races` | One open row, true achieved statuses, announced completions, final failures, and an outcome for every accepted connect, disconnect and stop, under any order of requests and handlers? | 1 channel, 3 requests in 2 slots, no faults |
| `farm_recovery` | Can every transitional state be left through the API? | 1 channel, 1 request, 1 crash, 1 dead pipeline, 1 Redis error, and disconnects without bound |
| `zombie_session` | (violated) an idle channel at rest has no session | 1 channel, 2 requests |
| `stranded_row` | (violated) an idle channel at rest has no open row | 1 channel, 3 requests, 1 crash |
| `redis_outage` | (violated) connect jobs are taken | 1 channel, 1 request, 1 Redis error |
| `library` | Is there one asset per completed recording, whole, and one in the end; does a capture keep its directory? | 2 recordings, 2 sessions of one recording each, 2 segments, 1 deletion, 1 fault of any kind (a kill, a Redis error, a failed transcoding or removal), batches of 2 |
| `shared_session` | (violated) a capture keeps its directory, with two recordings in a session | as `library`, 2 recordings to a session |
| `split_deletion` | (violated) after a deletion rows and media are both there or both gone | 1 recording, 2 segments, 1 deletion, no faults |
| `srt_session` | Is a recording the worker believes in written, is no child left behind, does the status come true, and does the file protocol implement `CaptureGate`? | 2 sessions, 2 takes, 1 reset, 1 fault of any kind |
| `etr290` | Are the totals on show right, do they move forward, and disappear when the monitor fails? | 1 session, 2 intervals out of 2 kinds, 1 reset, 1 fault of any kind |
| `etr290_sessions` | Does a monitor end with its session, and do resets reach it, whatever an earlier session has left? | 2 sessions in one directory, 2 resets, 1 fault of any kind, no intervals and no PID map |

Why these bounds. Two channels are enough for capacity 1 to refuse one of them, for a batch
with two entries and for one channel's handler to run while another's session dies; the
handlers share nothing else between channels. Two slots give every pair of overlapping
requests; three requests give connect, start and one more that overlaps either, or, since a
start with auto-connect is one request and two jobs, connect, start, stop and one more. The
safety properties of `farm_races` are proved for any number of requests. `RestartClosesRow`
needs two: with one there is no second status for an undo to fall behind. `farm_recovery` has
one request and the operator's disconnects in the same slot, so two requests never overlap
there: the second of two accepted starts, or an undo over another request's status, does not
occur in it. One fault of each kind can strike
at every point, and two of different kinds can follow each other. The liveness runs have no
symmetry reduction.

In `srt_session` two sessions are what it takes for a file, a command or a child of one to
meet the other; two takes for a late acknowledgement to be taken for the next start's; one
fault is enough to leave an orphan behind, and the lost command needs none. In `etr290` two
intervals show whether one is counted twice or lost, around the one reset; the two kinds of
interval have a counter given twice, rows that do not count and information rows, so that
both priorities, a repeated and an absent counter occur. `etr290_sessions` has the second session
of the directory, for what the first one's monitor may do to it, and the second reset, for
the gap between applying one and removing its file; totals are available after a reset too,
so it needs no intervals. `MonitorHasSession` and `ShownMovesForward` are proved for any
number of sessions.

In the library one recording can be written while the other is catalogued, backfilled or
deleted; one segment is used as it is and two are concatenated; a batch of two takes both
recordings or, when one was completed after the start, leaves it to the list. The one fault
can be a kill of the API or of either worker, the push between completion and announcement,
an undone status, or a failed transcoding or removal.
`AssetIsWhole` and `CaptureKeepsDirectory` are checked with one recording to a session
because they are false with two. `CompletedIsCatalogued` is given a limit that is large
enough for all recordings: with more lost recordings than `BACKFILL_BATCH` one start is not
enough. Deadlock is not checked: the bounds let everything come to rest.

`FailedIsFinal`, `OneActiveRow` and `AchievedIsReal` are checked without pipeline failures
because they are false with them: a connect that finds a dead session replaces it without
failing its recording, leaves the row open and its id remembered, and a later stop may
complete a row that was failed in between. `RecordingLedger` therefore lets a failed row be
completed, and nothing else.

Fairness. A request thread runs to its end, and the main thread never rests inside a
handler (weak fairness). `docker-compose.yml` restarts the worker (`restart:
unless-stopped`), so `Startup` is weakly fair too. The loop serves the tick and the idle
callbacks: strong fairness of `Heartbeat` and `ConnectJob`, because a tick is re-armed one
second after it was dispatched and idle callbacks run in between. The connect thread is
weakly fair as long as it lives. Crashes, deaths and errors have no fairness. In
`farm_recovery` an operator asks again for a disconnect whenever one is possible. In
`library` the post-process worker never rests while it has work, and is started again when
it is down: its compose service has no restart policy, so the second is what an operator
does, and the property says what a start repairs. The ingest worker, the API and faults have
no fairness there.

In `srt_session` every wait of the worker has a deadline and the child's GLib timer keeps
firing (weak fairness of `WorkerStep` and of each child's step); no new call is ever owed. In
`etr290` the child's timer, the sidecar's loop and time go on (weak fairness of `ReadsJson`,
`ForwardReset`, each `SidecarStep`, `Tick`); TSDuck owes nothing, and a read of a half-written
file is a fault.

## 4. What the runs found

* **zombie_session**: `_handle_connect` does not look at the status: a connect taken after
  the disconnect that followed it starts a session on an idle channel; a disconnect is then
  refused because the channel is not active.
* **stranded_row**: a session is claimed only by the next heartbeat. Killed before that, its
  row stays `recording`, and the disconnect that brings the channel back to idle does not
  touch it.
* **redis_outage**: a Redis error that is not a timeout ends the connect thread; the worker
  looks healthy and connects nothing until it is restarted.
* **shared_session**: recordings of one session share a directory, and deleting one removes
  it. The guard only looks at the status of the recording that is deleted, so the directory
  of the session's running capture goes with it. Without a deletion, an asset of such a
  session may also be made of the segments of both recordings, or its master may be
  overwritten by the next one's.
* **split_deletion**: files are removed before the rows are committed, from an asset read
  before that. An asset created in between makes the commit fail, with the media gone; a
  transcoding that goes on makes the directory of a deleted recording again.

Met while modelling and not a finding of a run, because nothing in the repository promises
otherwise or because the behaviour is an exception that a property names:

* The worker: the second of two accepted starts leaves `starting` on a channel that records
  (the handler returns before writing a status). A start that is deferred after a disconnect
  can leave `starting` on a channel without session until it is disconnected again. The undo
  of a failed push may write a status over one the worker has achieved since. A start in
  `_pending_record` outlives a connect that is refused or fails, and is served by the next.
  Conversely the branch of `_handle_connect` that serves a remembered start of a channel
  already connected is never taken: `DeferredStartIsServed` leaves it no state to run in. A
  connect that finds a dead session replaces it without failing its recording. SIGTERM
  during a connect: the session comes up after the shutdown and is never claimed, so
  its row and status are not repaired by the next start.
* The undo and the restart: a connect whose push timed out is applied all the same, a second
  request starts a recording, and then the first one's undo writes `idle` over `recording`
  (`scheduler.py:55`). When the worker is killed now, `_startup` passes the channel by, because
  its status is not active (`main.py:226`), and clears `active_channels`: the row stays open.
  The row of a dead session that a connect has replaced stays open in the same way when a
  disconnect follows. `RestartClosesRow` names both as its exceptions.
* The undo and the deletion: with the same `idle` over a running recording, or with a connect
  and a start accepted between the check of `delete_channel` and its query (`api/main.py:357`
  and `359`), the deletion of the channel removes the directory and the row of the running
  capture. `CaptureKeepsDirectory` names this as its exception: a deletion of a recording or
  an asset never does it when a session records once.
* The SRT session: a start that was not acknowledged stays in the command file and is
  carried out later; a lost stop leaves the status at recording, and the next start is
  acknowledged by it at once. `trust` excludes both, and `StatusCatchesUp` says what still
  holds. A killed worker, and one whose announcement fails in a disconnect, leaves its child
  behind. So `ChildHasSession` says nothing of such orphans, and `RecordingIsReal` and
  `GateSpec` nothing of a session with an unacknowledged start or an orphan in its directory:
  the code has no means against them, and these properties must not be read as if it had.
* ETR 290: a child that crashes or is killed leaves its sidecar, and a sidecar killed after 5
  seconds leaves its `tsp`; the sidecar goes on writing into the directory of the next
  session, whose snapshots then come from two monitors. README.md:172 of the repository says
  that the monitor is "stopped on disconnect". Such a stray also takes the `etr290_reset` of
  the next session for its own: it resets its totals and removes the file
  (`etr290_sidecar.py:174-182`), and the session's own monitor never resets. `MonitorHasSession`,
  `ShownMovesForward`, `FailureIsShown` and `ResetIsApplied` exempt strays by name. A second reset that arrives between the first
  one's being applied and its file's being removed is lost.
* The library: five assets whose master is not a file take the whole backfill batch at every
  start, and keep older ones from being filled.

## 5. Proofs

`IngestFarmProofs` proves, for any finite set of channels, any request slots, any capacity
and any number of requests, crashes, deaths and errors:

* `TypeCorrect`: `Spec => []TypeOK`. `TypeOK` is not inductive: a handler writes to the row
  and the session of `cur`, and a request commits `new`. `TypeInv` adds that a handler has
  a channel, that a request in flight has one, and that a request about to commit has an
  intent. It is split into one part per owner of variables, so that a step only has to
  prove the parts it touches.
* `CaptureSafe`: `Spec => []CaptureIsCatalogued`. The inductive invariant `IInv` adds:
  a stopped process has no sessions; a capturing session is in `_sessions` or in the hands
  of the disconnect that pops it; a remembered id names a row of that channel that is not
  completed; between row and capture of a start the row is open and nothing captures; a
  capture is stopped before its row is closed; the row being announced is completed and has
  no job; every job is of a completed row. Without the second a `StopWithoutSession` could
  fail the row of a running capture; without the third closing one channel's row could hit
  another's. Since SIGTERM may interrupt any handler, `NestedInv` says that the signal
  handler only disconnects, and that what the interrupted handler had established is still
  true when it goes on: the row it opened is open, the capture it stopped is stopped, the
  row it is about to announce is completed and has no job.
* `FarmImplementsLedger`: `Spec => LedgerSpec`, by `IInv`: `Startup`, `Heartbeat` and
  `StopWithoutSession` give up active rows, `OpenRow` opens, `CloseRow` completes,
  `OpenCaptureFails` gives up its own row, `Announce` hands over; all else stutters.

Assumptions: the constants' (`NoChannel` is not a channel, there are finitely many
channels, the bounds are naturals). `IInv` was checked by TLC on the instance of
`farm_faults` before it was proved.

`MediaLibraryProofs` proves, for any number of recordings, sessions, segments, deletion
slots, deletions, kills and failures, and any batch limit:

* `LibraryTypeCorrect`: `Spec => []TypeOK`. Work on a job has a job (`HasJob`), and the
  directory it reads exists as a number: the recording in hand has been started.
* `OneAssetPerRecording`: `Spec => []CatalogueIsSound`. The foreign keys know nothing of
  status, so the argument is about who may name a recording: whatever is in the list, in a
  batch, about to be announced or in hand is *closed* (completed, or deleted since) and a
  closed row is never opened again (`ClosedWork`). The insert then looks for an asset in the
  step that adds one. `RowInv` (a live session has a number; a capture's
  row is open or gone with its channel, and only a deletion of the channel names it) and
  `DeletionInv` (targets exist, and a query is a channel's) keep deletions from turning an
  open row into a deleted one behind a capture's back, or a row that does not exist into one.
* `CaptureSurvivesDeletions`: with `MaxPerSession = 1`, `Spec => CaptureKeepsDirectory`, an
  action property with the deletion of a whole channel as its exception. A removal is for a
  target of a deletion, and no two recordings have one directory (`OwnDirectory`): so it is the
  capture's directory only if the capture is a target, which by `RowInv` only a channel's
  deletion can have. `shared_session` shows that the assumption cannot be dropped.

The two invariants are proved together (`Inductive`): `TypeInv` needs `ClosedWork` for the
directory that `ListSegments` reads, and the other needs the types.

`AssetProofs` follows the post-process worker through the files:

* `AssetsAreWhole`: with `MaxPerSession = 1`, `Spec => []AssetIsWhole`; and
  `LoneAssetsAreWhole`, which needs no assumption and says the same of the recordings that
  are alone in their directory (`LoneAssetIsWhole`). The second is what is proved, the first
  follows from it and `OwnDirectory`; together with `shared_session` they say that a second
  recording of the session is the only thing that breaks an asset. Inductive form
  (`AssetInv`), of a recording that is *intact*, alone in its directory and not asked to be
  deleted: its directory holds the segments it has written, numbered from 1, and no others
  (`SegmentsInv`, which for that must say that a directory is empty until a recording is
  given it); a deletion only works on what was asked for, and what is gone was asked for (`AskedInv`); what the worker has
  listed is all there is, the master it goes on with holds all of it, and it does not open
  `master.ts` of a recording that has an asset (`InHandInv`); so does the master of every
  asset (`MasterInv`). A retry after a kill writes `master.ts` over the half-written one;
  without the guard in `InHandInv` it could be the one of an asset.

`FarmSessionProofs` proves two more invariants under every fault:

* `DeferredStartsAreServed`: `Spec => []DeferredStartIsServed`. Inductive form (`ServedInv`):
  a remembered start of a channel with a live session is just being served, by the main
  thread or by the handler that SIGTERM has interrupted (`ServingStart`). The second half is
  why the invariant speaks of `frame`: the signal handler itself is back in `apply`.
* `CapacityIsKept`: `Spec => []CapacityHolds`. While a connect is under way, in front or
  interrupted, there is room for one more session; nothing else adds one, and what comes in
  between (deaths, heartbeats, the shutdown) only removes some.

`FarmOrderProofs` proves what holds when certain faults stay away; each theorem has the
assumption in its statement (`MaxCrashes = 0` and so on), and the runs in section 4 and the
paragraph on bounds show what those faults do:

* `CompletedRowsGetJobs`, without crashes and Redis errors: a completed row has its job or
  is the one in hand.
* `OneRowPerChannel` and `FailedStaysFailed`, without crashes and dead pipelines. The
  invariant (`RaceInv`) ties rows to the worker's memory in both directions: an open row is
  the remembered one (`ActiveIsRemembered`), a remembered row is open and its channel
  captures, but for the steps in between (`RememberedIsActive`); with no dead pipelines
  (`NoneDead`) a channel without session therefore has no open row.
* `StatusIsReal`, without any of the three: a status of connected or recording is written
  only while the session or capture is there and is taken back by the handler that ends it
  (`StatusInv`); a request writes nothing but intents, for without Redis errors none undoes
  (`RequestsIntend`).

`SrtSessionProofs` proves, for any number of sessions, takes, resets and faults, from one
inductive invariant `SInv`:

* `SessionTypeCorrect`, `NoChildLeftBehind`, `TrustedRecordingIsReal`: type correctness with
  the line a child is about to apply (`TypeInv`), `ChildHasSession`, and `GateInv`, which is
  about trusted sessions: no other child is alive (`Sole`), a child that has not announced
  itself is still waited for (`Boots`), and the call the worker is in says what child and
  files are up to (`Tracks`). At rest the child does what the worker believes, the status
  does not contradict it, and nothing but resets is under way; in a start, stop or quit
  either its one command is under way, in the file or read from it, and nothing has
  changed yet, or it has been carried out and nothing is under way. So an acknowledgement
  means what the worker takes it for.
* `SessionImplementsGate`: `Spec => GateSpec`. Begin and End are the child's steps, Started
  and Stopped the acknowledged returns, Doubt every return without acknowledgement.

`Etr290MonitorProofs` proves, for any number of sessions, posts, resets and faults:

* `MonitorStaysWithSession`: a running sidecar that is no stray is the present session's, and
  its child has started it and runs (`PlaceInv`).
* `ShownNeverFallsBack`: totals flow one way, from the sidecar to its file, to what was last
  read, to what is on show; each is behind the one before (`FlowsForward`). That there is one
  sidecar to write the file is `PlaceInv`.

`Etr290Proofs` proves what the monitor shows, for any bodies and analyses TSDuck may produce
and any number of intervals, sessions, resets and faults, from one invariant
(`SnapsAreSound`: every copy of a snapshot is `Sound`):

* `ShownTotalsAreSums`: `Spec => []TotalsAreSums`. `TotalOver` is a recursive function over
  the intervals. That it obeys its recursion for every number of intervals (`SumExists`), that
  two sums that obey it agree (`SumsAgree`) and that appending an interval adds what it says
  (`TotalWithOneMore`) is proved from the least number for which it would fail
  (`LeastNumber`), which needs no induction scheme. `RollupSays` connects the two ways of
  choosing a counter's last row, `TotalsAreSound` gives what `accumulate_etr290_snapshot`
  keeps.
* `PidMapsAreWhole`: `Spec => []StructureIsWhole`. The sort puts a PID at the number of those
  up to it: different PIDs have different numbers (`PlacesGrow`), so every place is taken
  (`PlacesAreTaken`) and the list ascends (`SortedIsWhole`); `ExtractIsWhole` adds the labels
  and the null PID.
* `MonitorTypeCorrect`: `Spec => []TypeOK`, from the same invariant.

Assumptions beyond the bounds: the names of the counters are finitely many, priority 1 and 2
have none in common, a row's value is a natural number (TSDuck counts, and `_field_numeric`
refuses what is no number), PIDs are natural numbers, and TSDuck's analysis lists a PID once (`ReportsAssumption`): the code does not check
that, and a PID listed twice would be shown twice.

All state invariants of the passing runs are thereby proved, both refinements, and the action
properties `FailedIsFinal`, `CaptureKeepsDirectory` and `ShownMovesForward`. Only
model-checked are the action property `RestartClosesRow`, and all liveness, which needs
fairness and `ENABLED`, beyond the prover (`IntentSettles`, `OperatorRecovers`,
`CompletedIsCatalogued`, `StatusCatchesUp`, `ResetIsApplied`, `FailureIsShown`).

## 6. Not modelled

In the farm: statistics keys (written and read, nothing depends on them); database errors; a
second SIGTERM, and an announcement that fails inside the signal handler; retries inside the
Redis client; channels deleted or edited while a connect is under way. Of the session: the
element graph of the in-process kind and of the child, the numbers in its statistics,
`PipelineRecorder`, which nothing calls, and an `output_dir.mkdir` in the child that raises out
of its timer and so ends it (`srt_session_proc.py:481`; the worker has made the directory at
`recorder.py:390`). Of ETR 290: the text of the line protocol, the
services in the PID map, TSDuck itself. In the library: edits of a channel, titles and metadata (merged by read,
update and write), durations and probing, downloads and the check that a path lies below the
storage root, disk space, GStreamer's transcoding itself.

Not at all: playlists (rewriting of text line by line, without state, and covered by the
repository's tests/test_review_fixes.py); request schemas and queries; the construction of
GStreamer pipelines; settings and migrations; the web client.

## 7. Plan

Done: the farm with its abstract ledger, resets and SIGTERM in any handler; the media
library; the SRT session with its abstract specification; the ETR 290 monitor; the proofs of
section 5.

1. Deleted and edited channels in the farm: a connect that is served for a channel that is
   gone or has another source.
2. `UsePoll` (answers out of order in the web client) and the merge of metadata, once there
   is a promise to check them against.
