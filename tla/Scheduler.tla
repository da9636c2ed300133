----------------------------- MODULE Scheduler -----------------------------
(***************************************************************************)
(* The control plane: lifecycle requests of the API, each served on a      *)
(* thread of its own with its own SQLAlchemy session.  A request           *)
(*                                                                         *)
(*   reads the channel and checks its guard         Accept...              *)
(*   commits the intent as the new status           CommitIntent           *)
(*   pushes the job                                 Publish                *)
(*   puts the old status back if the push raised    PublishFails, Undo     *)
(*                                                                         *)
(* and other requests and the worker may run between any two of these.     *)
(***************************************************************************)
EXTENDS FarmState

-----------------------------------------------------------------------------
(* What an accepted request of each kind means, given the status it read.  *)

\* Mutant of Allowed: a disconnect that was queued once is not queued again.
AllowedOnce(kind) ==
  CASE kind = "connect"    -> {"idle", "error"}
    [] kind = "disconnect" -> ActiveStatuses \ {"disconnecting"}
    [] kind = "start"      -> {"connected", "connecting", "starting"}
    [] kind = "stop"       -> {"recording", "starting", "stopping"}
    [] kind = "reset"      -> ActiveStatuses \ {"disconnecting"}

\* The statuses each scheduler method lets pass.  (A reset is for SRT only:
\* the channels of an instance may all be of that kind.)
Allowed(kind) ==
  CASE kind = "connect"    -> {"idle", "error"}
    [] kind = "disconnect" -> ActiveStatuses
    [] kind = "start"      -> {"connected", "connecting", "starting"}
    [] kind = "stop"       -> {"recording", "starting", "stopping"}
    [] kind = "reset"      -> ActiveStatuses \ {"disconnecting"}

\* The intent each method commits before it queues the job.
Intent(kind, old) ==
  CASE kind = "connect"    -> "connecting"
    [] kind = "disconnect" -> "disconnecting"
    [] kind = "stop"       -> "stopping"
    [] kind = "start"      -> IF old = "connected" THEN "starting" ELSE "keep"
    [] kind = "reset"      -> "keep"

\* A request that read status `old` of channel c and passed the guard.
Admitted(kind, c, old, then) ==
  LET new == Intent(kind, old)
  IN  [pc |-> IF new = "keep" THEN "publish" ELSE "commit",
       op |-> kind, chan |-> c, prev |-> old, new |-> new, then |-> then]

SetReq(r, v) == req' = [req EXCEPT ![r] = v]

-----------------------------------------------------------------------------
(* Steps of a request.                                                     *)

\* POST .../connect, .../disconnect, .../record/start, .../record/stop and
\* .../etr290/reset.
Accept(r, kind, c) ==
  /\ req[r].pc = "free"
  /\ left.requests > 0
  /\ status[c] \in Allowed(kind)
  /\ SetReq(r, Admitted(kind, c, status[c], FALSE))
  /\ left' = [left EXCEPT !.requests = @ - 1]
  /\ UNCHANGED <<dbVars, redisVars, memVars, threadVars, mainVars>>

\* POST .../record/start on an idle channel: connect first.
AcceptAutoConnect(r, c) ==
  /\ req[r].pc = "free"
  /\ left.requests > 0
  /\ status[c] = "idle"
  /\ SetReq(r, Admitted("connect", c, "idle", TRUE))
  /\ left' = [left EXCEPT !.requests = @ - 1]
  /\ UNCHANGED <<dbVars, redisVars, memVars, threadVars, mainVars>>

\* The first commit of _commit_then_publish.  The UPDATE carries no
\* condition on the row's present status, and the ORM sends none at all when
\* the attribute was set to the value it had loaded.
CommitIntent(r) ==
  /\ req[r].pc = "commit"
  /\ status' = IF req[r].new = req[r].prev
                 THEN status
                 ELSE [status EXCEPT ![req[r].chan] = req[r].new]
  /\ SetReq(r, [req[r] EXCEPT !.pc = "publish"])
  /\ UNCHANGED <<rows, claimed, redisVars, memVars, threadVars, mainVars, left>>

\* LPUSH of the request's job onto the list of its kind.
PushJob(r) ==
  IF req[r].op = "connect"
    THEN /\ connectQ' = Append(connectQ, req[r].chan)
         /\ UNCHANGED ctlQ
    ELSE /\ ctlQ' = [ctlQ EXCEPT ![req[r].op] = @ \cup {req[r].chan}]
         /\ UNCHANGED connectQ

Publish(r) ==
  /\ req[r].pc = "publish"
  /\ PushJob(r)
  /\ SetReq(r, IF req[r].then THEN [req[r] EXCEPT !.pc = "refresh"] ELSE FreeSlot)
  /\ UNCHANGED <<dbVars, postQ, memVars, threadVars, mainVars, left>>

\* start_recording after its auto-connect: db.refresh, guard, then the start.
RefreshAndStart(r) ==
  LET c == req[r].chan IN
  /\ req[r].pc = "refresh"
  /\ SetReq(r, IF status[c] \in Allowed("start")
                 THEN Admitted("start", c, status[c], FALSE)
                 ELSE FreeSlot)
  /\ UNCHANGED <<dbVars, redisVars, memVars, threadVars, mainVars, left>>

\* LPUSH raised a RedisError.  After a timeout the job may be in the list
\* all the same (queued).
PublishFails(r, queued) ==
  /\ req[r].pc = "publish"
  /\ left.faults > 0
  /\ IF queued THEN PushJob(r) ELSE UNCHANGED <<connectQ, ctlQ>>
  /\ SetReq(r, IF req[r].new = "keep" THEN FreeSlot
                                      ELSE [req[r] EXCEPT !.pc = "undo"])
  /\ left' = [left EXCEPT !.faults = @ - 1]
  /\ UNCHANGED <<dbVars, postQ, memVars, threadVars, mainVars>>

\* The except branch: write back what was read before the intent.
Undo(r) ==
  /\ req[r].pc = "undo"
  /\ status' = [status EXCEPT ![req[r].chan] = req[r].prev]
  /\ SetReq(r, FreeSlot)
  /\ UNCHANGED <<rows, claimed, redisVars, memVars, threadVars, mainVars, left>>

\* The API process dies: every request in flight is gone.
ApiCrash ==
  /\ left.crashes > 0
  /\ \E r \in Requests : req[r].pc # "free"
  /\ req' = [r \in Requests |-> FreeSlot]
  /\ left' = [left EXCEPT !.crashes = @ - 1]
  /\ UNCHANGED <<dbVars, redisVars, memVars, threadVars, mainVars>>

-----------------------------------------------------------------------------
\* What a request that was let in goes on to do.
RequestStep(r) ==
  \/ CommitIntent(r)
  \/ Publish(r)
  \/ RefreshAndStart(r)
  \/ Undo(r)

SchedulerNext ==
  \/ \E r \in Requests :
       \/ \E kind \in JobOps, c \in Channels : Accept(r, kind, c)
       \/ \E c \in Channels : AcceptAutoConnect(r, c)
       \/ RequestStep(r)
       \/ \E queued \in BOOLEAN : PublishFails(r, queued)
  \/ ApiCrash
=============================================================================
