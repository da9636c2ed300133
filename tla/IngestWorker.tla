---------------------------- MODULE IngestWorker ---------------------------
(***************************************************************************)
(* The ingest worker.  Two threads matter: connect-jobs blocks on the      *)
(* connect list and hands each job to the GLib loop; the main thread runs  *)
(* that loop: a tick every second (heartbeat, then the control lists) and  *)
(* the connect jobs.  Handlers run to their end on the main thread, but    *)
(* the API, Redis and the pipelines move on between their steps, and the   *)
(* process can be killed there.                                            *)
(***************************************************************************)
EXTENDS FarmState

Live(c) == c \in registered /\ pipe[c] = "live"

SetStatus(c, s) == status' = [status EXCEPT ![c] = s]

\* Write s if the status is one of `from`, else leave the row alone.
SetStatusIf(c, from, s) ==
  status' = IF status[c] \in from THEN [status EXCEPT ![c] = s] ELSE status

\* Nothing of a stopped process survives: sessions, GStreamer pipelines,
\* the job in hand, jobs parked in the GLib loop, the batch being applied.
ForgetEverything ==
  /\ registered' = {} /\ pending' = {} /\ leaked' = {}
  /\ pipe' = [c \in Channels |-> "none"]
  /\ capturing' = [c \in Channels |-> FALSE]
  /\ recIds' = [c \in Channels |-> 0]
  /\ running' = TRUE /\ popper' = FALSE /\ idleQ' = <<>>
  /\ pc' = "down" /\ cur' = NoChannel /\ op' = "connect"
  /\ wantRec' = FALSE /\ finRow' = 0 /\ batch' = NoOps /\ frame' = NoFrame

\* The handler returns: connect to the loop, the others to their batch.
Return ==
  /\ pc' = IF op = "connect" THEN "loop" ELSE "apply"
  /\ cur' = NoChannel /\ op' = "connect" /\ wantRec' = FALSE /\ finRow' = 0
  /\ UNCHANGED <<batch, frame>>

Goto(label) == pc' = label /\ UNCHANGED <<cur, op, wantRec, finRow, batch, frame>>

\* The handler of one control op of channel c starts at the given label.
EnterHandler(c, kind, label) ==
  /\ pc' = label /\ cur' = c /\ op' = kind
  /\ batch' = [batch EXCEPT ![c] = {}]
  /\ UNCHANGED <<wantRec, finRow, frame>>

\* An exception inside a tick: _glib_tick logs it, the batch is forgotten.
AbortTick ==
  /\ pc' = "loop" /\ cur' = NoChannel /\ op' = "connect"
  /\ wantRec' = FALSE /\ finRow' = 0 /\ batch' = NoOps /\ frame' = NoFrame

UseFault == left.faults > 0 /\ left' = [left EXCEPT !.faults = @ - 1]

-----------------------------------------------------------------------------
(* Start, stop, death of the process.                                      *)

\* Mutant of Startup: claim the slot first, reconcile against the new list.
StartupRegisterFirst ==
  /\ pc = "down"
  /\ claimed' = registered
  /\ popper' = TRUE
  /\ Goto("loop")
  /\ UNCHANGED <<status, rows, redisVars, req, memVars, running, idleQ, left>>

\* _startup: reset what the previous run had claimed, then claim the slot
\* with the (empty) live session set.
Startup ==
  /\ pc = "down"
  /\ status' = [c \in Channels |->
                  IF c \in claimed \ registered /\ status[c] \in ActiveStatuses
                    THEN "idle" ELSE status[c]]
  /\ rows' = FailActive({c \in claimed \ registered : status[c] \in ActiveStatuses})
  /\ claimed' = registered
  /\ popper' = TRUE
  /\ Goto("loop")
  /\ UNCHANGED <<redisVars, req, memVars, running, idleQ, left>>

\* The process is killed, at any point of any handler.
Crash ==
  /\ pc # "down"
  /\ left.crashes > 0
  /\ left' = [left EXCEPT !.crashes = @ - 1]
  /\ ForgetEverything
  /\ UNCHANGED <<dbVars, redisVars, req>>

\* SIGTERM, in the loop or inside a handler: on the same thread, on top of
\* whatever it was doing, every session is disconnected.  A second signal is
\* left out.
Shutdown ==
  /\ pc # "down" /\ running
  /\ left.crashes > 0
  /\ left' = [left EXCEPT !.crashes = @ - 1]
  /\ running' = FALSE
  /\ frame' = [pc |-> pc, cur |-> cur, op |-> op,
               wantRec |-> wantRec, finRow |-> finRow, batch |-> batch]
  /\ pc' = "apply" /\ cur' = NoChannel /\ op' = "connect"
  /\ wantRec' = FALSE /\ finRow' = 0
  /\ batch' = [c \in Channels |-> IF c \in registered THEN {"disconnect"} ELSE {}]
  /\ UNCHANGED <<dbVars, redisVars, req, memVars, popper, idleQ>>

\* The signal handler returns to where the main thread was.
Resume ==
  /\ pc = "apply" /\ batch = NoOps /\ frame.pc # "down"
  /\ pc' = frame.pc /\ cur' = frame.cur /\ op' = frame.op
  /\ wantRec' = frame.wantRec /\ finRow' = frame.finRow /\ batch' = frame.batch
  /\ frame' = NoFrame
  /\ UNCHANGED <<dbVars, redisVars, req, memVars, threadVars, left>>

\* The loop has quit.
Exit ==
  /\ pc = "loop" /\ ~running
  /\ ForgetEverything
  /\ UNCHANGED <<dbVars, redisVars, req, left>>

\* A pipeline reports an error or end of stream, or the SRT child exits.
SessionDies(c) ==
  /\ pipe[c] = "live"
  /\ left.deaths > 0
  /\ left' = [left EXCEPT !.deaths = @ - 1]
  /\ pipe' = [pipe EXCEPT ![c] = "dead"]
  /\ UNCHANGED <<dbVars, redisVars, req, registered, capturing, recIds, pending,
                 leaked, threadVars, mainVars>>

-----------------------------------------------------------------------------
(* The connect-jobs thread.                                                *)

\* blocking_pop, then GLib.idle_add; the loop condition is tested after it.
PopConnect ==
  /\ popper
  /\ connectQ # <<>>
  /\ connectQ' = Tail(connectQ)
  /\ idleQ' = Append(idleQ, Head(connectQ))
  /\ popper' = running
  /\ UNCHANGED <<dbVars, ctlQ, postQ, req, memVars, running, mainVars, left>>

\* blocking_pop lets every Redis error but a timeout out, and nothing in the
\* thread catches it.  A job whose reply was lost is gone.
PopperDies ==
  /\ popper
  /\ UseFault
  /\ popper' = FALSE
  /\ \/ UNCHANGED connectQ
     \/ connectQ # <<>> /\ connectQ' = Tail(connectQ)
  /\ UNCHANGED <<dbVars, ctlQ, postQ, req, memVars, running, idleQ, mainVars>>

-----------------------------------------------------------------------------
(* The tick: heartbeat, then the control lists.                            *)

DeadSessions == {c \in registered : pipe[c] = "dead"}

\* Every dead session is dropped, its recording failed, its channel set to
\* error.  claimed takes the keys from before the drop.
Heartbeat ==
  /\ pc = "loop" /\ running
  /\ claimed' = registered
  /\ registered' = registered \ DeadSessions
  /\ pending' = pending \ DeadSessions
  /\ pipe' = [c \in Channels |-> IF c \in DeadSessions THEN "none" ELSE pipe[c]]
  /\ capturing' = [c \in Channels |-> capturing[c] /\ c \notin DeadSessions]
  /\ recIds' = [c \in Channels |-> IF c \in DeadSessions THEN 0 ELSE recIds[c]]
  /\ rows' = FailActive(DeadSessions)
  /\ status' = [c \in Channels |->
                  IF c \in DeadSessions /\ status[c] \in ActiveStatuses
                    THEN "error" ELSE status[c]]
  /\ Goto("drainDisconnect")
  /\ UNCHANGED <<redisVars, req, leaked, threadVars, left>>

DrainSteps == [drainDisconnect |-> [kind |-> "disconnect", next |-> "drainStop"],
               drainStop       |-> [kind |-> "stop",       next |-> "drainStart"],
               drainStart      |-> [kind |-> "start",      next |-> "drainReset"],
               drainReset      |-> [kind |-> "reset",      next |-> "apply"]]

\* Pop one control list until it is empty; repeats of a channel are dropped.
\* The batch is without the resets: all their handler does is to append a line
\* to the command file of the channel's child, if it has one.
Drain ==
  /\ pc \in DOMAIN DrainSteps
  /\ LET kind == DrainSteps[pc].kind IN
       /\ batch' = [c \in Channels |->
                      IF c \in ctlQ[kind] THEN batch[c] \cup ({kind} \cap ControlOps)
                                         ELSE batch[c]]
       /\ ctlQ' = [ctlQ EXCEPT ![kind] = {}]
  /\ pc' = DrainSteps[pc].next
  /\ UNCHANGED <<dbVars, connectQ, postQ, req, memVars, threadVars, cur, op,
                 wantRec, finRow, frame, left>>

\* try_pop raises part of the way: what was popped in this tick is gone.
DrainFails ==
  /\ pc \in DOMAIN DrainSteps
  /\ UseFault
  /\ \E popped \in SUBSET ctlQ[DrainSteps[pc].kind] :
       ctlQ' = [ctlQ EXCEPT ![DrainSteps[pc].kind] = @ \ popped]
  /\ AbortTick
  /\ UNCHANGED <<dbVars, connectQ, postQ, req, memVars, threadVars>>

\* _resolve_ops: disconnect supersedes; between start and stop the stored
\* status, the last intent accepted, decides.
Resolve(c) ==
  IF "disconnect" \in batch[c] THEN "disconnect"
  ELSE IF batch[c] = {"stop", "start"}
         THEN IF status[c] = "stopping" THEN "stop" ELSE "start"
  ELSE CHOOSE o \in batch[c] : TRUE

ApplyDone ==
  /\ pc = "apply" /\ batch = NoOps /\ frame.pc = "down"
  /\ Goto("loop")
  /\ UNCHANGED <<dbVars, redisVars, req, memVars, threadVars, left>>

-----------------------------------------------------------------------------
(* _handle_disconnect and _handle_record_stop up to the finalisation.      *)

\* Where the finalisation of the channel's session begins.
FinalizeLabel(c, otherwise) ==
  IF capturing[c] THEN "stopCapture"
  ELSE IF recIds[c] # 0 THEN "closeRow" ELSE otherwise

\* The session is popped first; only a session that says it is recording is
\* finalised.
BeginDisconnect(c) ==
  /\ pc = "apply" /\ batch[c] # {} /\ Resolve(c) = "disconnect"
  /\ pending' = pending \ {c}
  /\ registered' = registered \ {c}
  /\ EnterHandler(c, "disconnect",
       IF c \notin registered THEN "markIdle"
       ELSE IF capturing[c] THEN "stopCapture" ELSE "teardown")
  /\ UNCHANGED <<dbVars, redisVars, req, pipe, capturing, recIds, leaked,
                 threadVars, left>>

\* Mutant of BeginStop: the row is closed and the capture is left running.
BeginStopRowOnly(c) ==
  /\ pc = "apply" /\ batch[c] # {} /\ Resolve(c) = "stop"
  /\ c \in registered
  /\ pending' = pending \ {c}
  /\ EnterHandler(c, "stop", "closeRow")
  /\ UNCHANGED <<dbVars, redisVars, req, registered, pipe, capturing, recIds,
                 leaked, threadVars, left>>

BeginStop(c) ==
  /\ pc = "apply" /\ batch[c] # {} /\ Resolve(c) = "stop"
  /\ c \in registered
  /\ pending' = pending \ {c}
  /\ EnterHandler(c, "stop", FinalizeLabel(c, "markStopped"))
  /\ UNCHANGED <<dbVars, redisVars, req, registered, pipe, capturing, recIds,
                 leaked, threadVars, left>>

\* No session to stop: the row cannot be finished by anyone else.
StopWithoutSession(c) ==
  /\ pc = "apply" /\ batch[c] # {} /\ Resolve(c) = "stop"
  /\ c \notin registered
  /\ pending' = pending \ {c}
  /\ SetStatusIf(c, {"stopping", "recording", "starting"}, "idle")
  /\ rows' = FailActive({c})
  /\ batch' = [batch EXCEPT ![c] = {}]
  /\ UNCHANGED <<claimed, redisVars, req, registered, pipe, capturing, recIds,
                 leaked, threadVars, pc, cur, op, wantRec, finRow, frame, left>>

BeginStart(c) ==
  /\ pc = "apply" /\ batch[c] # {} /\ Resolve(c) = "start"
  /\ EnterHandler(c, "start", "openRow")
  /\ UNCHANGED <<dbVars, redisVars, req, memVars, threadVars, left>>

-----------------------------------------------------------------------------
(* _finalize_recording, then the rest of the handler that called it.       *)

AfterFinalize == IF op = "disconnect" THEN "teardown" ELSE "markStopped"

StopCapture ==
  /\ pc = "stopCapture"
  /\ capturing' = [capturing EXCEPT ![cur] = FALSE]
  /\ Goto("closeRow")
  /\ UNCHANGED <<dbVars, redisVars, req, registered, pipe, recIds, pending,
                 leaked, threadVars, left>>

CloseRow ==
  /\ pc = "closeRow"
  /\ recIds' = [recIds EXCEPT ![cur] = 0]
  /\ LET i == RowToFinalize(cur) IN
       IF i = 0
         THEN Goto(AfterFinalize) /\ UNCHANGED rows
         ELSE /\ rows' = SetRow(i, "completed")
              /\ finRow' = i /\ pc' = "announce"
              /\ UNCHANGED <<cur, op, wantRec, batch, frame>>
  /\ UNCHANGED <<status, claimed, redisVars, req, registered, pipe, capturing,
                 pending, leaked, threadVars, left>>

\* Mutant of Announce: a recording that a disconnect ended is not announced.
AnnounceStops ==
  /\ pc = "announce"
  /\ postQ' = IF op = "stop" THEN Append(postQ, finRow) ELSE postQ
  /\ finRow' = 0 /\ pc' = AfterFinalize
  /\ UNCHANGED <<dbVars, connectQ, ctlQ, req, memVars, threadVars, cur, op,
                 wantRec, batch, frame, left>>

\* recording_complete (nothing consumes it) and postprocess.
Announce ==
  /\ pc = "announce"
  /\ postQ' = Append(postQ, finRow)
  /\ finRow' = 0 /\ pc' = AfterFinalize
  /\ UNCHANGED <<dbVars, connectQ, ctlQ, req, memVars, threadVars, cur, op,
                 wantRec, batch, frame, left>>

\* publish_event raises.  Out of _handle_disconnect the popped session goes
\* with it, before session.disconnect().  Where a signal handler would carry
\* the exception into the handler below it is left out.
AnnounceFails(queued) ==
  /\ pc = "announce" /\ frame.pc \in {"down", "loop"}
  /\ UseFault
  /\ postQ' = IF queued THEN Append(postQ, finRow) ELSE postQ
  /\ IF op = "disconnect"
       THEN /\ leaked' = IF pipe[cur] = "live" THEN leaked \cup {cur} ELSE leaked
            /\ pipe' = [pipe EXCEPT ![cur] = "none"]
       ELSE UNCHANGED <<leaked, pipe>>
  /\ AbortTick
  /\ UNCHANGED <<dbVars, connectQ, ctlQ, req, registered, capturing, recIds,
                 pending, threadVars>>

Teardown ==
  /\ pc = "teardown"
  /\ pipe' = [pipe EXCEPT ![cur] = "none"]
  /\ Goto("markIdle")
  /\ UNCHANGED <<dbVars, redisVars, req, registered, capturing, recIds, pending,
                 leaked, threadVars, left>>

\* Mutant of MarkIdle: only the status the disconnect itself wrote is cleared.
MarkIdleIfDisconnecting ==
  /\ pc = "markIdle"
  /\ SetStatusIf(cur, {"disconnecting"}, "idle")
  /\ Return
  /\ UNCHANGED <<rows, claimed, redisVars, req, memVars, threadVars, left>>

MarkIdle ==
  /\ pc = "markIdle"
  /\ SetStatusIf(cur, ActiveStatuses, "idle")
  /\ Return
  /\ UNCHANGED <<rows, claimed, redisVars, req, memVars, threadVars, left>>

MarkStopped ==
  /\ pc = "markStopped"
  /\ SetStatus(cur, IF pipe[cur] = "live" THEN "connected" ELSE "idle")
  /\ Return
  /\ UNCHANGED <<rows, claimed, redisVars, req, memVars, threadVars, left>>

-----------------------------------------------------------------------------
(* _handle_record_start, from its own list or at the end of a connect.     *)

\* No usable session yet: remember the start until the channel connects.
DeferStart ==
  /\ pc = "openRow" /\ ~Live(cur)
  /\ pending' = pending \cup {cur}
  /\ Return
  /\ UNCHANGED <<dbVars, redisVars, req, registered, pipe, capturing, recIds,
                 leaked, threadVars, left>>

AlreadyRecording ==
  /\ pc = "openRow" /\ Live(cur) /\ capturing[cur]
  /\ pending' = pending \ {cur}
  /\ Return
  /\ UNCHANGED <<dbVars, redisVars, req, registered, pipe, capturing, recIds,
                 leaked, threadVars, left>>

\* Mutant of OpenRow: a second start of a recording session opens a new row.
OpenRowAgain ==
  /\ pc = "openRow" /\ Live(cur)
  /\ pending' = pending \ {cur}
  /\ rows' = Append(rows, [chan |-> cur, st |-> "recording"])
  /\ SetStatus(cur, "recording")
  /\ recIds' = [recIds EXCEPT ![cur] = Len(rows) + 1]
  /\ Goto("openCapture")
  /\ UNCHANGED <<claimed, redisVars, req, registered, pipe, capturing, leaked,
                 threadVars, left>>

\* The row, the status and the remembered id come before the capture.
OpenRow ==
  /\ pc = "openRow" /\ Live(cur) /\ ~capturing[cur]
  /\ pending' = pending \ {cur}
  /\ rows' = Append(rows, [chan |-> cur, st |-> "recording"])
  /\ SetStatus(cur, "recording")
  /\ recIds' = [recIds EXCEPT ![cur] = Len(rows) + 1]
  /\ Goto("openCapture")
  /\ UNCHANGED <<claimed, redisVars, req, registered, pipe, capturing, leaked,
                 threadVars, left>>

OpenCapture ==
  /\ pc = "openCapture" /\ Live(cur)
  /\ capturing' = [capturing EXCEPT ![cur] = TRUE]
  /\ Return
  /\ UNCHANGED <<dbVars, redisVars, req, registered, pipe, recIds, pending,
                 leaked, threadVars, left>>

\* Mutant of OpenCaptureFails: the remembered id is kept.
OpenCaptureFailsKeepsId ==
  /\ pc = "openCapture"
  /\ rows' = IF recIds[cur] # 0 THEN SetRow(recIds[cur], "failed") ELSE rows
  /\ SetStatus(cur, IF Live(cur) THEN "connected" ELSE "error")
  /\ Return
  /\ UNCHANGED <<claimed, redisVars, req, registered, pipe, capturing, recIds,
                 pending, leaked, threadVars, left>>

\* Mutant of OpenCaptureFails: the recording's status goes into the channel.
OpenCaptureFailsWrongRow ==
  /\ pc = "openCapture"
  /\ rows' = IF recIds[cur] # 0 THEN SetRow(recIds[cur], "failed") ELSE rows
  /\ recIds' = [recIds EXCEPT ![cur] = 0]
  /\ SetStatus(cur, "failed")
  /\ Return
  /\ UNCHANGED <<claimed, redisVars, req, registered, pipe, capturing, pending,
                 leaked, threadVars, left>>

\* session.start_recording raises: no SRT acknowledgement, the valve cannot
\* be linked, the session is gone.
OpenCaptureFails ==
  /\ pc = "openCapture"
  /\ rows' = IF recIds[cur] # 0 THEN SetRow(recIds[cur], "failed") ELSE rows
  /\ recIds' = [recIds EXCEPT ![cur] = 0]
  /\ SetStatus(cur, IF Live(cur) THEN "connected" ELSE "error")
  /\ Return
  /\ UNCHANGED <<claimed, redisVars, req, registered, pipe, capturing, pending,
                 leaked, threadVars, left>>

-----------------------------------------------------------------------------
(* _handle_connect, as an idle callback of the loop.                       *)

TakeConnectJob ==
  /\ pc = "loop"
  /\ idleQ # <<>>
  /\ idleQ' = Tail(idleQ)
  /\ UNCHANGED <<rows, claimed, redisVars, req, memVars, running, popper, finRow,
                 batch, frame, left>>

\* The callback ends at once, or goes on to the record start.
ConnectEnds(c, startNow) ==
  /\ pc' = IF startNow THEN "openRow" ELSE "loop"
  /\ cur' = IF startNow THEN c ELSE NoChannel
  /\ op' = "connect" /\ wantRec' = FALSE

\* Mutant of AlreadyConnected: the job is dropped and the intent stays.
AlreadyConnectedKeepsIntent(c) ==
  /\ TakeConnectJob /\ c = Head(idleQ) /\ Live(c)
  /\ ConnectEnds(c, c \in pending)
  /\ UNCHANGED status

AlreadyConnected(c) ==
  /\ TakeConnectJob /\ c = Head(idleQ) /\ Live(c)
  /\ SetStatusIf(c, {"connecting"}, "connected")
  /\ ConnectEnds(c, c \in pending)

AtCapacity(c) ==
  /\ TakeConnectJob /\ c = Head(idleQ) /\ ~Live(c)
  /\ Cardinality(registered) >= Capacity
  /\ SetStatusIf(c, {"connecting", "starting"}, "error")
  /\ ConnectEnds(c, FALSE)

\* Mutant of BeginConnect: the session that is being built is not counted.
BeginConnectOneMore(c) ==
  /\ TakeConnectJob /\ c = Head(idleQ) /\ ~Live(c)
  /\ Cardinality(registered) <= Capacity
  /\ wantRec' = (status[c] = "starting")
  /\ pc' = "connecting" /\ cur' = c /\ op' = "connect"
  /\ UNCHANGED status

\* session.connect() takes up to 15 seconds from here.
BeginConnect(c) ==
  /\ TakeConnectJob /\ c = Head(idleQ) /\ ~Live(c)
  /\ Cardinality(registered) < Capacity
  /\ wantRec' = (status[c] = "starting")
  /\ pc' = "connecting" /\ cur' = c /\ op' = "connect"
  /\ UNCHANGED status

\* Mutant of ConnectSucceeds: only the status says whether to record.
ConnectSucceedsByStatus ==
  /\ pc = "connecting"
  /\ registered' = registered \cup {cur}
  /\ pipe' = [pipe EXCEPT ![cur] = "live"]
  /\ capturing' = [capturing EXCEPT ![cur] = FALSE]
  /\ SetStatusIf(cur, {"connecting"}, "connected")
  /\ ConnectEnds(cur, wantRec)
  /\ UNCHANGED <<rows, claimed, redisVars, req, recIds, pending, leaked,
                 threadVars, finRow, batch, frame, left>>

\* A dead session of the channel is replaced; its row and id stay.
ConnectSucceeds ==
  /\ pc = "connecting"
  /\ registered' = registered \cup {cur}
  /\ pipe' = [pipe EXCEPT ![cur] = "live"]
  /\ capturing' = [capturing EXCEPT ![cur] = FALSE]
  /\ SetStatusIf(cur, {"connecting"}, "connected")
  /\ ConnectEnds(cur, wantRec \/ cur \in pending)
  /\ UNCHANGED <<rows, claimed, redisVars, req, recIds, pending, leaked,
                 threadVars, finRow, batch, frame, left>>

ConnectFails ==
  /\ pc = "connecting"
  /\ SetStatus(cur, "error")
  /\ ConnectEnds(cur, FALSE)
  /\ UNCHANGED <<rows, claimed, redisVars, req, memVars, threadVars, finRow,
                 batch, frame, left>>

-----------------------------------------------------------------------------
ConnectJob(c) == AlreadyConnected(c) \/ AtCapacity(c) \/ BeginConnect(c)

\* The main thread, wherever it is except idle in the loop.
HandlerStep ==
  \/ Drain \/ ApplyDone \/ Resume
  \/ \E c \in Channels :
       BeginDisconnect(c) \/ BeginStop(c) \/ StopWithoutSession(c) \/ BeginStart(c)
  \/ StopCapture \/ CloseRow \/ Announce \/ Teardown \/ MarkIdle \/ MarkStopped
  \/ DeferStart \/ AlreadyRecording \/ OpenRow \/ OpenCapture \/ OpenCaptureFails
  \/ ConnectSucceeds \/ ConnectFails

\* What the environment does to the worker.
WorkerFault ==
  \/ Crash \/ Shutdown
  \/ \E c \in Channels : SessionDies(c)
  \/ PopperDies \/ DrainFails
  \/ \E queued \in BOOLEAN : AnnounceFails(queued)

WorkerNext ==
  \/ Startup \/ Exit
  \/ PopConnect
  \/ Heartbeat
  \/ \E c \in Channels : ConnectJob(c)
  \/ HandlerStep
  \/ WorkerFault
=============================================================================
