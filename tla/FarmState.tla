----------------------------- MODULE FarmState -----------------------------
(***************************************************************************)
(* The state that the control plane (API process, module Scheduler) and    *)
(* the ingest worker (module IngestWorker) share or keep to themselves:    *)
(*                                                                         *)
(*   PostgreSQL   status, rows, claimed                                    *)
(*   Redis        connectQ, ctlQ, postQ                                    *)
(*   API          req                                                      *)
(*   worker       everything else                                          *)
(*                                                                         *)
(* One short SQLAlchemy session block of the code is one atomic step.      *)
(***************************************************************************)
EXTENDS Naturals, Sequences, FiniteSets

CONSTANTS
  Channels,      \* the channels of the farm
  NoChannel,     \* "no channel": the worker's main thread is between handlers
  Requests,      \* request slots: how many API requests may be in flight
  Capacity,      \* settings.worker_capacity
  MaxRequests,   \* bound: API requests accepted in one behaviour
  MaxCrashes,    \* bound: crashes of the worker or the API, and SIGTERMs
  MaxDeaths,     \* bound: pipelines that fail or end by themselves
  MaxFaults      \* bound: Redis errors

ASSUME NoChannelAssumption == NoChannel \notin Channels
ASSUME ChannelsAssumption == IsFiniteSet(Channels)
ASSUME BoundAssumption ==
  /\ Capacity \in Nat \ {0}
  /\ MaxRequests \in Nat /\ MaxCrashes \in Nat
  /\ MaxDeaths \in Nat /\ MaxFaults \in Nat

VARIABLES
  \* PostgreSQL
  status,      \* channels.status
  rows,        \* recordings, in insertion (started_at) order
  claimed,     \* workers.active_channels of this worker's row
  \* Redis
  connectQ,    \* ingest:jobs:connect
  ctlQ,        \* the other lists, from disconnect to etr290_reset
  postQ,       \* ingest:jobs:postprocess, as row numbers
  \* API process
  req,         \* one record per request slot
  \* worker process: sessions
  registered,  \* keys of _sessions
  pipe,        \* the newest pipeline built for each channel
  capturing,   \* that session's is_recording
  recIds,      \* _recording_ids, 0 where there is no entry
  pending,     \* _pending_record
  leaked,      \* channels with a running pipeline that nothing refers to
  \* worker process: threads
  running,     \* _running
  popper,      \* the connect-jobs thread is still looping
  idleQ,       \* connect jobs the thread handed to GLib.idle_add
  \* worker process: main thread
  pc, cur, op, \* position, and the channel and job of the handler it is in
  wantRec,     \* start_record_after of _handle_connect
  finRow,      \* the row _finalize_recording has just completed
  batch,       \* `pending` of _drain_control_queues: ops popped per channel
  frame,       \* all of these, where SIGTERM has interrupted them
  \* what is left of each bound
  left

dbVars     == <<status, rows, claimed>>
redisVars  == <<connectQ, ctlQ, postQ>>
memVars    == <<registered, pipe, capturing, recIds, pending, leaked>>
threadVars == <<running, popper, idleQ>>
mainVars   == <<pc, cur, op, wantRec, finRow, batch, frame>>
vars       == <<dbVars, redisVars, req, memVars, threadVars, mainVars, left>>

-----------------------------------------------------------------------------
(* Status vocabularies.                                                    *)

IdleStatuses == {"idle", "error"}

ActiveStatuses == {"connecting", "connected", "recording",
                   "disconnecting", "starting", "stopping"}

Statuses == IdleStatuses \cup ActiveStatuses

RowStatuses == {"recording", "completed", "failed"}

Row == [chan : Channels, st : RowStatuses]

\* The jobs that one tick collects per channel, and the lists it drains: the
\* last one holds the resets of the ETR 290 counters.
ControlOps == {"disconnect", "stop", "start"}

ControlLists == ControlOps \cup {"reset"}

JobOps == ControlLists \cup {"connect"}

\* A request slot. new = "keep" is new_status None; then = TRUE is the
\* auto-connect of start_recording, which goes on to queue the start.
Request == [pc   : {"free", "commit", "publish", "refresh", "undo"},
            op   : JobOps,
            chan : Channels \cup {NoChannel},
            prev : Statuses,
            new  : Statuses \cup {"keep"},
            then : BOOLEAN]

FreeSlot == [pc |-> "free", op |-> "connect", chan |-> NoChannel,
             prev |-> "idle", new |-> "keep", then |-> FALSE]

MainPcs == {"down", "loop",
            "drainDisconnect", "drainStop", "drainStart", "drainReset", "apply",
            "connecting", "openRow", "openCapture",
            "stopCapture", "closeRow", "announce",
            "teardown", "markIdle", "markStopped"}

\* The frame of an interrupted main thread; "down" when it is not.
Frame == [pc : MainPcs, cur : Channels \cup {NoChannel}, op : JobOps,
          wantRec : BOOLEAN, finRow : Nat, batch : [Channels -> SUBSET ControlOps]]

-----------------------------------------------------------------------------
(* Queries on the recordings table.                                        *)

\* Row i is the channel's newest row with status "recording".
IsLatestActive(i) ==
  /\ rows[i].st = "recording"
  /\ \A j \in DOMAIN rows :
        j > i => ~(rows[j].chan = rows[i].chan /\ rows[j].st = "recording")

\* Mutant of FailActive: the query loses its status filter.
FailAnyRow(cs) ==
  [i \in DOMAIN rows |->
     IF rows[i].chan \in cs THEN [rows[i] EXCEPT !.st = "failed"] ELSE rows[i]]

\* _fail_active_recording for every channel in cs: only the newest active
\* row of a channel is touched.
FailActive(cs) ==
  [i \in DOMAIN rows |->
     IF rows[i].chan \in cs /\ IsLatestActive(i)
       THEN [rows[i] EXCEPT !.st = "failed"]
       ELSE rows[i]]

SetRow(i, st) == [rows EXCEPT ![i].st = st]

\* The row _finalize_recording works on: the remembered id, or else the
\* newest active row of the channel; 0 when there is none.
RowToFinalize(c) ==
  IF recIds[c] # 0
    THEN recIds[c]
    ELSE LET found == {i \in DOMAIN rows : rows[i].chan = c /\ IsLatestActive(i)}
         IN  IF found = {} THEN 0 ELSE CHOOSE i \in found : TRUE

-----------------------------------------------------------------------------
NoOps == [c \in Channels |-> {}]

NoFrame == [pc |-> "down", cur |-> NoChannel, op |-> "connect",
            wantRec |-> FALSE, finRow |-> 0, batch |-> NoOps]

TypeOK ==
  /\ status \in [Channels -> Statuses]
  /\ rows \in Seq(Row)
  /\ claimed \in SUBSET Channels
  /\ connectQ \in Seq(Channels)
  /\ ctlQ \in [ControlLists -> SUBSET Channels]
  /\ postQ \in Seq(Nat)
  /\ req \in [Requests -> Request]
  /\ registered \in SUBSET Channels
  /\ pipe \in [Channels -> {"none", "live", "dead"}]
  /\ capturing \in [Channels -> BOOLEAN]
  /\ recIds \in [Channels -> Nat]
  /\ pending \in SUBSET Channels
  /\ leaked \in SUBSET Channels
  /\ running \in BOOLEAN
  /\ popper \in BOOLEAN
  /\ idleQ \in Seq(Channels)
  /\ pc \in MainPcs
  /\ cur \in Channels \cup {NoChannel}
  /\ op \in JobOps
  /\ wantRec \in BOOLEAN
  /\ finRow \in Nat
  /\ batch \in [Channels -> SUBSET ControlOps]
  /\ frame \in Frame
  /\ left \in [requests : Nat, crashes : Nat, deaths : Nat, faults : Nat]

\* A fresh installation with the worker not started yet.
Init ==
  /\ status = [c \in Channels |-> "idle"]
  /\ rows = <<>>
  /\ claimed = {}
  /\ connectQ = <<>>
  /\ ctlQ = [o \in ControlLists |-> {}]
  /\ postQ = <<>>
  /\ req = [r \in Requests |-> FreeSlot]
  /\ registered = {}
  /\ pipe = [c \in Channels |-> "none"]
  /\ capturing = [c \in Channels |-> FALSE]
  /\ recIds = [c \in Channels |-> 0]
  /\ pending = {}
  /\ leaked = {}
  /\ running = TRUE
  /\ popper = FALSE
  /\ idleQ = <<>>
  /\ pc = "down"
  /\ cur = NoChannel
  /\ op = "connect"
  /\ wantRec = FALSE
  /\ finRow = 0
  /\ batch = NoOps /\ frame = NoFrame
  /\ left = [requests |-> MaxRequests, crashes |-> MaxCrashes,
             deaths |-> MaxDeaths, faults |-> MaxFaults]
=============================================================================
