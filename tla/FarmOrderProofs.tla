-------------------------- MODULE FarmOrderProofs --------------------------
(***************************************************************************)
(* What IngestFarm keeps as long as certain faults stay away, for any      *)
(* channels, request slots and capacity, any number of requests and any    *)
(* order of requests, jobs and handlers.  Each theorem names the faults it *)
(* excludes; the runs stranded_row, zombie_session and redis_outage show   *)
(* what the others do.                                                     *)
(***************************************************************************)
EXTENDS IngestFarmProofs

-----------------------------------------------------------------------------
(* Behaviours without crashes, without deaths, without Redis errors.       *)

NoCrash == left.crashes = 0 /\ running /\ frame = NoFrame

NoDeath == left.deaths = 0

NoFault == left.faults = 0

\* A bound that is used up stays used up.
LEMMA LeftStaysZero ==
  ASSUME TypeInv, [Next]_vars
  PROVE  /\ left.crashes = 0 => left'.crashes = 0
         /\ left.deaths = 0 => left'.deaths = 0
         /\ left.faults = 0 => left'.faults = 0
<1> USE DEF TypeInv, LeftType, dbVars, redisVars, memVars, threadVars, mainVars
<1>1. CASE UNCHANGED left
  BY <1>1
<1>2. CASE SchedulerNext
  <2>1. CASE ApiCrash
    BY <2>1 DEF ApiCrash
  <2>2. ASSUME NEW r \in Requests, RequestStep(r)
        PROVE  UNCHANGED left
    BY <2>2 DEF RequestStep, CommitIntent, Publish, RefreshAndStart, Undo
  <2>3. ASSUME NEW r \in Requests, NEW c \in Channels, NEW kind \in JobOps,
               Accept(r, kind, c) \/ AcceptAutoConnect(r, c)
        PROVE  left' = [left EXCEPT !.requests = @ - 1]
    BY <2>3 DEF Accept, AcceptAutoConnect
  <2>4. ASSUME NEW r \in Requests, NEW queued \in BOOLEAN, PublishFails(r, queued)
        PROVE  left.faults > 0 /\ left' = [left EXCEPT !.faults = @ - 1]
    BY <2>4 DEF PublishFails
  <2>5. \/ ApiCrash \/ UNCHANGED left
        \/ left' = [left EXCEPT !.requests = @ - 1]
        \/ left.faults > 0 /\ left' = [left EXCEPT !.faults = @ - 1]
    <3>1. "connect" \in JobOps
      BY DEF JobOps
    <3>2. QED
      BY <1>2, <2>2, <2>3, <2>4, <3>1 DEF SchedulerNext
  <2>6. QED
    BY <1>1, <2>1, <2>5
<1>3. CASE Crash \/ Shutdown \/ (\E c \in Channels : SessionDies(c))
  BY <1>3 DEF Crash, Shutdown, SessionDies
<1>4. CASE PopperDies \/ DrainFails \/ \E queued \in BOOLEAN : AnnounceFails(queued)
  BY <1>4 DEF PopperDies, DrainFails, AnnounceFails, UseFault
<1>5. CASE Startup \/ Exit \/ PopConnect \/ Heartbeat \/ \E c \in Channels : ConnectJob(c)
  BY <1>1, <1>5
  DEF Startup, Exit, PopConnect, Heartbeat, ConnectJob, AlreadyConnected, AtCapacity,
      BeginConnect, TakeConnectJob
<1>6. CASE HandlerStep
  BY <1>1, <1>6
  DEF HandlerStep, Drain, ApplyDone, Resume, BeginDisconnect, BeginStop,
      StopWithoutSession, BeginStart, StopCapture, CloseRow, Announce, Teardown,
      MarkIdle, MarkStopped, DeferStart, AlreadyRecording, OpenRow, OpenCapture,
      OpenCaptureFails, ConnectSucceeds, ConnectFails
<1>7. CASE UNCHANGED vars
  BY <1>1, <1>7 DEF vars
<1>8. QED
  BY <1>2, <1>3, <1>4, <1>5, <1>6, <1>7 DEF Next, WorkerNext, WorkerFault

\* Only a start of the process and SIGTERM touch _running.
LEMMA RunningMoves ==
  ASSUME [Next]_vars
  PROVE  Shutdown \/ running' \/ UNCHANGED running
<1> USE DEF dbVars, redisVars, memVars, threadVars, mainVars
<1>1. CASE UNCHANGED vars
  BY <1>1 DEF vars
<1>2. CASE SchedulerNext
  BY <1>2
  DEF SchedulerNext, RequestStep, Accept, AcceptAutoConnect, CommitIntent, Publish,
      RefreshAndStart, PublishFails, Undo, ApiCrash
<1>3. CASE WorkerFault
  BY <1>3
  DEF WorkerFault, Crash, SessionDies, PopperDies, DrainFails, AnnounceFails,
      ForgetEverything
<1>4. CASE Startup \/ Exit \/ PopConnect \/ Heartbeat \/ \E c \in Channels : ConnectJob(c)
  BY <1>4
  DEF Startup, Exit, PopConnect, Heartbeat, ConnectJob, AlreadyConnected, AtCapacity,
      BeginConnect, TakeConnectJob, ForgetEverything
<1>5. CASE HandlerStep
  BY <1>5
  DEF HandlerStep, Drain, ApplyDone, Resume, BeginDisconnect, BeginStop,
      StopWithoutSession, BeginStart, StopCapture, CloseRow, Announce, Teardown,
      MarkIdle, MarkStopped, DeferStart, AlreadyRecording, OpenRow, OpenCapture,
      OpenCaptureFails, ConnectSucceeds, ConnectFails
<1>6. QED
  BY <1>1, <1>2, <1>3, <1>4, <1>5 DEF Next, WorkerNext

LEMMA NoCrashStep ==
  ASSUME TypeInv, NoCrash, [Next]_vars
  PROVE  NoCrash'
<1>1. left.crashes = 0 /\ running /\ frame = NoFrame
  BY DEF NoCrash
<1>2. ~Shutdown
  BY <1>1 DEF Shutdown
<1>3. left'.crashes = 0
  BY <1>1, LeftStaysZero
<1>4. running'
  BY <1>1, <1>2, RunningMoves
<1>5. frame' = NoFrame
  BY <1>1, <1>2, FrameMoves
<1>6. QED
  BY <1>3, <1>4, <1>5 DEF NoCrash

LEMMA NoCrashAlways ==
  ASSUME MaxCrashes = 0
  PROVE  Spec => []NoCrash
<1>1. Init => NoCrash
  BY DEF Init, NoCrash
<1>2. TypeInv /\ NoCrash /\ [Next]_vars => NoCrash'
  BY NoCrashStep
<1>3. IInv => TypeInv
  BY DEF IInv
<1>4. QED
  BY <1>1, <1>2, <1>3, InvariantAlways, PTL DEF Spec

LEMMA NoDeathAlways ==
  ASSUME MaxDeaths = 0
  PROVE  Spec => []NoDeath
<1>1. Init => NoDeath
  BY DEF Init, NoDeath
<1>2. TypeInv /\ NoDeath /\ [Next]_vars => NoDeath'
  BY LeftStaysZero DEF NoDeath
<1>3. IInv => TypeInv
  BY DEF IInv
<1>4. QED
  BY <1>1, <1>2, <1>3, InvariantAlways, PTL DEF Spec

LEMMA NoFaultAlways ==
  ASSUME MaxFaults = 0
  PROVE  Spec => []NoFault
<1>1. Init => NoFault
  BY DEF Init, NoFault
<1>2. TypeInv /\ NoFault /\ [Next]_vars => NoFault'
  BY LeftStaysZero DEF NoFault
<1>3. IInv => TypeInv
  BY DEF IInv
<1>4. QED
  BY <1>1, <1>2, <1>3, InvariantAlways, PTL DEF Spec

\* The steps a worker can take that is not killed or stopped.
LEMMA CrashFreeSteps ==
  ASSUME NoCrash, [Next]_vars
  PROVE  \/ UNCHANGED vars \/ (SchedulerNext /\ ~ApiCrash)
         \/ Startup \/ PopConnect \/ PopperDies \/ Heartbeat
         \/ \E c \in Channels : SessionDies(c) \/ ConnectJob(c)
         \/ Drain \/ DrainFails \/ ApplyDone
         \/ \E c \in Channels :
              BeginDisconnect(c) \/ BeginStop(c) \/ StopWithoutSession(c) \/ BeginStart(c)
         \/ StopCapture \/ CloseRow \/ Announce
         \/ \E queued \in BOOLEAN : AnnounceFails(queued)
         \/ Teardown \/ MarkIdle \/ MarkStopped
         \/ DeferStart \/ AlreadyRecording \/ OpenRow \/ OpenCapture \/ OpenCaptureFails
         \/ ConnectSucceeds \/ ConnectFails
<1>1. ~Crash /\ ~Shutdown /\ ~ApiCrash /\ ~Exit /\ ~Resume
  BY NoFrameType DEF NoCrash, Crash, Shutdown, ApiCrash, Exit, Resume
<1>2. QED
  BY <1>1 DEF Next, WorkerNext, HandlerStep, WorkerFault
-----------------------------------------------------------------------------
(* Every completed recording gets its job, unless the worker is stopped or *)
(* Redis fails.                                                            *)

\* A row is in hand only between its completion and its job.
RowInHand == finRow # 0 => pc = "announce"

AnnounceInv == RowInHand /\ CompletedIsAnnounced

\* Steps that complete no row, queue no job and drop no row in hand.
LEMMA NothingCompleted ==
  ASSUME AnnounceInv, NoCrash, NoCrash',
         UNCHANGED postQ,
         \/ UNCHANGED <<pc, finRow>>
         \/ pc # "announce" /\ finRow' \in {0, finRow},
         \A i \in DOMAIN rows' :
           rows'[i].st = "completed" => i \in DOMAIN rows /\ rows[i].st = "completed"
  PROVE  AnnounceInv'
<1>1. frame' = frame
  BY DEF NoCrash
<1>2. finRow' = finRow
  BY DEF AnnounceInv, RowInHand
<1>3. RowInHand'
  BY <1>2 DEF AnnounceInv, RowInHand
<1>4. CompletedIsAnnounced'
  BY <1>1, <1>2 DEF AnnounceInv, CompletedIsAnnounced
<1>5. QED
  BY <1>3, <1>4 DEF AnnounceInv

\* Where the main thread goes does not matter to rows and jobs.
LEMMA AnnounceFrame ==
  ASSUME AnnounceInv, NoCrash, NoCrash', UNCHANGED <<rows, postQ>>,
         \/ UNCHANGED <<pc, finRow>>
         \/ pc # "announce" /\ finRow' \in {0, finRow}
  PROVE  AnnounceInv'
BY NothingCompleted

\* Recordings that are given up are not completed.
LEMMA AnnounceGivesUp ==
  ASSUME AnnounceInv, NoCrash, NoCrash', rows \in Seq(Row), NEW cs,
         rows' = FailActive(cs), UNCHANGED <<postQ, finRow>>, pc # "announce"
  PROVE  AnnounceInv'
<1>1. \A i \in DOMAIN rows' :
        rows'[i].st = "completed" => i \in DOMAIN rows /\ rows[i].st = "completed"
  BY FailActiveProps
<1>2. QED
  BY <1>1, NothingCompleted

LEMMA AnnounceCloseRow ==
  ASSUME IInv, AnnounceInv, NoCrash, NoCrash', CloseRow
  PROVE  AnnounceInv'
<1> DEFINE i == RowToFinalize(cur)
<1>1. /\ pc = "closeRow" /\ UNCHANGED postQ
      /\ i = 0 => pc' # "closeRow" /\ UNCHANGED <<rows, finRow>>
      /\ i # 0 => rows' = SetRow(i, "completed") /\ finRow' = i /\ pc' = "announce"
  BY DEF CloseRow, Goto, AfterFinalize, redisVars
<1>2. /\ cur \in Channels /\ rows \in Seq(Row)
      /\ recIds \in [Channels -> Nat]
  BY <1>1 DEF IInv, TypeInv, DbType, MemType, MainType, HandlerHasChannel, HandlerPcs
<1>3. i # 0 => i \in DOMAIN rows
  BY <1>2, RowToFinalizeProps DEF IInv, CatalogueInv
<1> HIDE DEF i
<1>4. CASE i = 0
  BY <1>1, <1>4, AnnounceFrame
<1>5. CASE i # 0
  <2>1. DOMAIN rows' = DOMAIN rows /\ \A j \in DOMAIN rows : j # i => rows'[j] = rows[j]
    BY <1>1, <1>2, <1>3, <1>5, SetRowProps DEF RowStatuses
  <2>2. finRow = 0 /\ 0 \notin DOMAIN rows
    BY <1>1, <1>2 DEF AnnounceInv, RowInHand
  <2>3. CompletedIsAnnounced'
    <3>1. SUFFICES ASSUME NEW j \in DOMAIN rows, rows'[j].st = "completed", j # i
                   PROVE  j = frame'.finRow \/ \E k \in DOMAIN postQ : postQ[k] = j
      BY <1>1, <1>5, <2>1 DEF CompletedIsAnnounced
    <3>2. rows[j].st = "completed" /\ j # finRow
      BY <2>1, <2>2, <3>1
    <3>3. QED
      BY <3>2 DEF AnnounceInv, CompletedIsAnnounced, NoCrash
  <2>4. QED
    BY <1>1, <1>5, <2>3 DEF AnnounceInv, RowInHand
<1>6. QED
  BY <1>4, <1>5

LEMMA AnnounceJob ==
  ASSUME IInv, AnnounceInv, NoCrash, NoCrash', Announce
  PROVE  AnnounceInv'
<1>1. /\ postQ' = Append(postQ, finRow) /\ finRow' = 0 /\ UNCHANGED rows
      /\ postQ \in Seq(Nat) /\ finRow \in Nat
  BY DEF Announce, dbVars, IInv, TypeInv, RedisType, MainType
<1>2. /\ \A k \in DOMAIN postQ : k \in DOMAIN postQ' /\ postQ'[k] = postQ[k]
      /\ \E k \in DOMAIN postQ' : postQ'[k] = finRow
  <2>1. /\ Len(postQ) + 1 \in DOMAIN postQ'
        /\ postQ'[Len(postQ) + 1] = finRow
    BY <1>1
  <2>2. QED
    BY <1>1, <2>1
<1>3. CompletedIsAnnounced'
  BY <1>1, <1>2 DEF AnnounceInv, CompletedIsAnnounced, NoCrash
<1>4. QED
  BY <1>1, <1>3 DEF AnnounceInv, RowInHand

LEMMA AnnounceStep ==
  ASSUME IInv, AnnounceInv, NoCrash, NoFault, [Next]_vars
  PROVE  AnnounceInv'
<1> USE DEF dbVars, redisVars, memVars, threadVars, mainVars
<1>0. NoCrash' /\ rows \in Seq(Row)
  BY NoCrashStep DEF IInv, TypeInv, DbType
<1>1. CASE UNCHANGED vars
  BY <1>0, <1>1, AnnounceFrame DEF vars
<1>2. CASE SchedulerNext
  <2>1. UNCHANGED <<rows, postQ, pc, finRow>>
    BY <1>2
    DEF SchedulerNext, RequestStep, Accept, AcceptAutoConnect, CommitIntent, Publish,
        RefreshAndStart, PublishFails, Undo, ApiCrash
  <2>2. QED
    BY <1>0, <2>1, AnnounceFrame
<1>3. CASE Startup \/ Heartbeat \/ \E c \in Channels : StopWithoutSession(c)
  <2>1. /\ pc # "announce" /\ UNCHANGED <<postQ, finRow>>
        /\ \E cs \in SUBSET Channels : rows' = FailActive(cs)
    <3>1. ASSUME NEW c \in Channels
          PROVE  {c} \in SUBSET Channels
      OBVIOUS
    <3>2. /\ DeadSessions \in SUBSET Channels
          /\ {c \in claimed \ registered : status[c] \in ActiveStatuses} \in SUBSET Channels
      BY DEF DeadSessions, IInv, TypeInv, DbType, MemType
    <3>3. QED
      BY <1>3, <3>1, <3>2 DEF Startup, Heartbeat, StopWithoutSession, Goto
  <2>2. QED
    BY <1>0, <2>1, AnnounceGivesUp
<1>4. CASE \/ PopConnect \/ (\E c \in Channels : SessionDies(c) \/ ConnectJob(c))
           \/ Drain \/ ApplyDone
  BY <1>0, <1>4, AnnounceFrame
  DEF PopConnect, SessionDies, ConnectJob, AlreadyConnected, AtCapacity, BeginConnect,
      TakeConnectJob, Drain, DrainSteps, ApplyDone, Goto
<1>5. CASE PopperDies \/ DrainFails \/ \E queued \in BOOLEAN : AnnounceFails(queued)
  <2>1. ~(left.faults > 0)
    BY DEF NoFault
  <2>2. QED
    BY <1>5, <2>1 DEF PopperDies, DrainFails, AnnounceFails, UseFault
<1>6. CASE \E c \in Channels : BeginDisconnect(c) \/ BeginStop(c) \/ BeginStart(c)
  BY <1>0, <1>6, AnnounceFrame DEF BeginDisconnect, BeginStop, BeginStart, EnterHandler
<1>7. CASE StopCapture \/ Teardown \/ MarkIdle \/ MarkStopped \/ DeferStart
             \/ AlreadyRecording \/ OpenCapture \/ ConnectSucceeds \/ ConnectFails
  BY <1>0, <1>7, AnnounceFrame
  DEF StopCapture, Teardown, MarkIdle, MarkStopped, DeferStart, AlreadyRecording,
      OpenCapture, ConnectSucceeds, ConnectFails, ConnectEnds, Goto, Return
<1>8. CASE OpenRow
  <2>1. /\ pc # "announce" /\ UNCHANGED <<postQ, finRow>>
        /\ rows' = Append(rows, [chan |-> cur, st |-> "recording"])
    BY <1>8 DEF OpenRow, Goto
  <2>2. \A i \in DOMAIN rows' :
          rows'[i].st = "completed" => i \in DOMAIN rows /\ rows[i].st = "completed"
    BY <1>0, <2>1
  <2>3. QED
    BY <1>0, <2>1, <2>2, NothingCompleted
<1>9. CASE OpenCaptureFails
  <2>1. /\ pc # "announce" /\ UNCHANGED postQ /\ finRow' = 0
        /\ recIds[cur] \in DOMAIN rows /\ rows' = SetRow(recIds[cur], "failed")
    <3>1. /\ pc = "openCapture" /\ cur \in Channels /\ recIds[cur] # 0
      BY <1>9
      DEF OpenCaptureFails, IInv, TypeInv, MainType, HandlerHasChannel, HandlerPcs,
          CatalogueInv, StartInHand
    <3>2. QED
      BY <1>9, <3>1 DEF OpenCaptureFails, Return, IInv, CatalogueInv, IdsAreOpen
  <2>2. \A i \in DOMAIN rows' :
          rows'[i].st = "completed" => i \in DOMAIN rows /\ rows[i].st = "completed"
    BY <1>0, <2>1, SetRowProps, SMTT(20) DEF RowStatuses
  <2>3. QED
    BY <1>0, <2>1, <2>2, NothingCompleted
<1>10. QED
  BY <1>0, <1>1, <1>2, <1>3, <1>4, <1>5, <1>6, <1>7, <1>8, <1>9, AnnounceCloseRow,
     AnnounceJob, CrashFreeSteps

\* As long as the worker is not killed or stopped and Redis answers, every
\* completed recording has its post-processing job or is just getting it,
\* however many sessions die and whatever is requested in which order.
THEOREM CompletedRowsGetJobs ==
  ASSUME MaxCrashes = 0, MaxFaults = 0
  PROVE  Spec => []CompletedIsAnnounced
<1>1. Init => AnnounceInv
  BY DEF Init, AnnounceInv, RowInHand, CompletedIsAnnounced
<1>2. IInv /\ AnnounceInv /\ NoCrash /\ NoFault /\ [Next]_vars => AnnounceInv'
  BY AnnounceStep
<1>3. AnnounceInv => CompletedIsAnnounced
  BY DEF AnnounceInv
<1>4. Spec => []AnnounceInv
  BY <1>1, <1>2, InvariantAlways, NoCrashAlways, NoFaultAlways, PTL DEF Spec
<1>5. QED
  BY <1>3, <1>4, PTL
-----------------------------------------------------------------------------
(* One open row per channel, and failed rows stay failed, unless the       *)
(* worker is stopped or a session dies.                                    *)

NoneDead == \A c \in registered : pipe[c] = "live"

\* A channel that is being connected or disconnected is not in _sessions.
OutPcs == {"connecting", "teardown", "markIdle"}

HandIsOut ==
  (\/ pc \in OutPcs
   \/ pc \in {"stopCapture", "closeRow", "announce"} /\ op = "disconnect")
  => cur \notin registered

\* The worker remembers every open row ...
ActiveIsRemembered ==
  \A i \in DOMAIN rows : rows[i].st = "recording" => recIds[rows[i].chan] = i

\* ... and nothing else, and it captures, but for the steps between.
RememberedIsActive ==
  \A c \in Channels : recIds[c] # 0 =>
    /\ rows[recIds[c]].st = "recording"
    /\ capturing[c] \/ (pc \in {"openCapture", "closeRow"} /\ cur = c)

RowInv == ActiveIsRemembered /\ RememberedIsActive

RaceInv == NoneDead /\ HandIsOut /\ RowInv

LEMMA RowsHaveChannels ==
  ASSUME rows \in Seq(Row)
  PROVE  \A j \in DOMAIN rows : j # 0 /\ rows[j].chan \in Channels
<1>1. \A j \in DOMAIN rows : j # 0 /\ rows[j] \in Row
  OBVIOUS
<1>2. QED
  BY <1>1 DEF Row

\* A channel without an open row has none to give up.
LEMMA FailActiveIdle ==
  ASSUME rows \in Seq(Row), NEW cs,
         \A i \in DOMAIN rows : rows[i].chan \in cs => rows[i].st # "recording"
  PROVE  FailActive(cs) = rows
<1>1. \A i \in DOMAIN rows : ~(rows[i].chan \in cs /\ IsLatestActive(i))
  BY DEF IsLatestActive
<1>2. FailActive(cs) = [i \in DOMAIN rows |-> rows[i]]
  BY <1>1 DEF FailActive
<1>3. rows = [i \in DOMAIN rows |-> rows[i]]
  OBVIOUS
<1>4. QED
  BY <1>2, <1>3

\* Outside of a start and a finalisation an open row means a capture.
LEMMA NoCaptureNoRow ==
  ASSUME IInv, RowInv, NEW c \in Channels, ~capturing[c],
         pc \notin {"openCapture", "closeRow"} \/ cur # c
  PROVE  recIds[c] = 0 /\ \A i \in DOMAIN rows : rows[i].chan = c => rows[i].st # "recording"
<1>1. recIds[c] = 0
  BY DEF RowInv, RememberedIsActive
<1>2. \A i \in DOMAIN rows : i # 0
  BY DEF IInv, TypeInv, DbType
<1>3. QED
  BY <1>1, <1>2 DEF RowInv, ActiveIsRemembered

\* Without a session there is no capture, unless it is just being stopped.
LEMMA NoSessionNoRow ==
  ASSUME IInv, RowInv, NoCrash, NEW c \in Channels, c \notin registered,
         pc \notin {"stopCapture", "openCapture", "closeRow"}
  PROVE  /\ ~capturing[c] /\ recIds[c] = 0
         /\ \A i \in DOMAIN rows : rows[i].chan = c => rows[i].st # "recording"
<1>1. ~capturing[c]
  BY NoFrameType DEF IInv, CatalogueInv, CaptureIsOwned, NoCrash
<1>2. QED
  BY <1>1, NoCaptureNoRow

\* Steps that leave rows, ids and captures alone, and do not leave a place
\* where a row is open without a capture.
LEMMA RowFrame ==
  ASSUME RowInv, UNCHANGED <<rows, recIds, capturing>>,
         pc \notin {"openCapture", "closeRow"} \/ UNCHANGED <<pc, cur>>
  PROVE  RowInv'
BY DEF RowInv, ActiveIsRemembered, RememberedIsActive

LEMMA RowCloses ==
  ASSUME IInv, RowInv, CloseRow
  PROVE  RowInv' /\ \A i \in DOMAIN rows : rows[i].st = "failed" => rows'[i].st = "failed"
<1> DEFINE i == RowToFinalize(cur)
<1>1. /\ pc = "closeRow" /\ UNCHANGED <<capturing, cur>>
      /\ pc' \in {"announce", "teardown", "markStopped"}
      /\ i = 0 => UNCHANGED rows
      /\ i # 0 => rows' = SetRow(i, "completed")
      /\ recIds' = [recIds EXCEPT ![cur] = 0]
  BY DEF CloseRow, Goto, AfterFinalize
<1>2. /\ cur \in Channels /\ rows \in Seq(Row) /\ recIds \in [Channels -> Nat]
      /\ \A j \in DOMAIN rows : j # 0 /\ rows[j].chan \in Channels
  BY <1>1, RowsHaveChannels
  DEF IInv, TypeInv, DbType, MemType, MainType, HandlerHasChannel, HandlerPcs
<1>3. i = recIds[cur]
  <2>1. CASE recIds[cur] # 0
    BY <2>1 DEF RowToFinalize
  <2>2. CASE recIds[cur] = 0
    <3>1. {j \in DOMAIN rows : rows[j].chan = cur /\ IsLatestActive(j)} = {}
      BY <1>2, <2>2 DEF RowInv, ActiveIsRemembered, IsLatestActive
    <3>2. QED
      BY <2>2, <3>1 DEF RowToFinalize
  <2>3. QED
    BY <2>1, <2>2
<1>4. i # 0 => i \in DOMAIN rows /\ rows[i].chan = cur /\ rows[i].st = "recording"
  BY <1>2, <1>3 DEF IInv, CatalogueInv, IdsAreOpen, RowInv, RememberedIsActive
<1> HIDE DEF i
<1>5. /\ DOMAIN rows' = DOMAIN rows
      /\ i # 0 => rows'[i].st = "completed"
      /\ \A j \in DOMAIN rows : rows'[j].chan = rows[j].chan
      /\ \A j \in DOMAIN rows : j # i => rows'[j] = rows[j]
  BY <1>1, <1>2, <1>4, SetRowProps DEF RowStatuses
<1>6. ActiveIsRemembered'
  <2>1. SUFFICES ASSUME NEW j \in DOMAIN rows, rows'[j].st = "recording"
                 PROVE  recIds'[rows[j].chan] = j
    BY <1>5 DEF ActiveIsRemembered
  <2>2. j # i /\ rows[j].st = "recording"
    BY <1>2, <1>5, <2>1
  <2>3. recIds[rows[j].chan] = j
    BY <2>2 DEF RowInv, ActiveIsRemembered
  <2>4. rows[j].chan # cur
    BY <1>3, <2>2, <2>3
  <2>5. QED
    BY <1>1, <1>2, <2>3, <2>4
<1>7. RememberedIsActive'
  <2>1. SUFFICES ASSUME NEW c \in Channels, recIds'[c] # 0
                 PROVE  rows'[recIds'[c]].st = "recording" /\ capturing[c]
    BY <1>1 DEF RememberedIsActive
  <2>2. c # cur /\ recIds'[c] = recIds[c] /\ recIds[c] # 0
    BY <1>1, <1>2, <2>1
  <2>3. /\ recIds[c] \in DOMAIN rows /\ rows[recIds[c]].chan = c
        /\ rows[recIds[c]].st = "recording" /\ capturing[c]
    BY <2>2 DEF IInv, CatalogueInv, IdsAreOpen, RowInv, RememberedIsActive
  <2>4. recIds[c] # i
    BY <1>2, <1>4, <2>2, <2>3
  <2>5. QED
    BY <1>5, <2>2, <2>3, <2>4
<1>8. ASSUME NEW j \in DOMAIN rows, rows[j].st = "failed"
      PROVE  rows'[j].st = "failed"
  BY <1>2, <1>4, <1>5, <1>8
<1>9. QED
  BY <1>6, <1>7, <1>8 DEF RowInv

LEMMA RowOpens ==
  ASSUME IInv, RowInv, OpenRow
  PROVE  RowInv' /\ \A i \in DOMAIN rows : rows[i].st = "failed" => rows'[i].st = "failed"
<1>1. /\ pc = "openRow" /\ ~capturing[cur] /\ pc' = "openCapture"
      /\ UNCHANGED <<capturing, cur>>
      /\ rows' = Append(rows, [chan |-> cur, st |-> "recording"])
      /\ recIds' = [recIds EXCEPT ![cur] = Len(rows) + 1]
  BY DEF OpenRow, Goto
<1>2. /\ cur \in Channels /\ rows \in Seq(Row) /\ recIds \in [Channels -> Nat]
      /\ \A j \in DOMAIN rows : rows[j].chan \in Channels
  BY <1>1, RowsHaveChannels
  DEF IInv, TypeInv, DbType, MemType, MainType, HandlerHasChannel, HandlerPcs
<1>3. recIds[cur] = 0 /\ \A i \in DOMAIN rows : rows[i].chan = cur => rows[i].st # "recording"
  BY <1>1, <1>2, NoCaptureNoRow
<1>4. /\ DOMAIN rows' = DOMAIN rows \cup {Len(rows) + 1}
      /\ rows'[Len(rows) + 1] = [chan |-> cur, st |-> "recording"]
      /\ \A j \in DOMAIN rows : j # Len(rows) + 1 /\ rows'[j] = rows[j]
  BY <1>1, <1>2
<1>5. ActiveIsRemembered'
  <2>1. SUFFICES ASSUME NEW j \in DOMAIN rows', rows'[j].st = "recording"
                 PROVE  recIds'[rows'[j].chan] = j
    BY DEF ActiveIsRemembered
  <2>2. CASE j = Len(rows) + 1
    BY <1>1, <1>2, <1>4, <2>2
  <2>3. CASE j \in DOMAIN rows
    <3>1. rows[j].st = "recording" /\ rows[j].chan # cur
      BY <1>3, <1>4, <2>1, <2>3
    <3>2. QED
      BY <1>1, <1>2, <1>4, <2>3, <3>1 DEF RowInv, ActiveIsRemembered
  <2>4. QED
    BY <1>4, <2>2, <2>3
<1>6. RememberedIsActive'
  <2>1. SUFFICES ASSUME NEW c \in Channels, recIds'[c] # 0
                 PROVE  /\ rows'[recIds'[c]].st = "recording"
                        /\ capturing[c] \/ cur = c
    BY <1>1 DEF RememberedIsActive
  <2>2. CASE c = cur
    BY <1>1, <1>2, <1>4, <2>2
  <2>3. CASE c # cur
    <3>1. recIds'[c] = recIds[c]
      BY <1>1, <1>2, <2>3
    <3>2. /\ recIds[c] \in DOMAIN rows /\ rows[recIds[c]].st = "recording"
          /\ capturing[c]
      BY <1>1, <2>1, <3>1 DEF IInv, CatalogueInv, IdsAreOpen, RowInv, RememberedIsActive
    <3>3. QED
      BY <1>4, <3>1, <3>2
  <2>4. QED
    BY <2>2, <2>3
<1>7. QED
  BY <1>4, <1>5, <1>6 DEF RowInv

LEMMA RowFails ==
  ASSUME IInv, RowInv, OpenCaptureFails
  PROVE  RowInv' /\ \A i \in DOMAIN rows : rows[i].st = "failed" => rows'[i].st = "failed"
<1> DEFINE i == recIds[cur]
<1>1. /\ pc = "openCapture" /\ cur \in Channels /\ i # 0
      /\ pc' \notin {"openCapture", "closeRow"} /\ UNCHANGED capturing
      /\ rows' = SetRow(i, "failed")
      /\ recIds' = [recIds EXCEPT ![cur] = 0]
  BY DEF OpenCaptureFails, Return, IInv, TypeInv, MainType, HandlerHasChannel,
         HandlerPcs, CatalogueInv, StartInHand
<1>2. /\ rows \in Seq(Row) /\ recIds \in [Channels -> Nat]
      /\ i \in DOMAIN rows /\ rows[i].chan = cur
      /\ \A j \in DOMAIN rows : rows[j].chan \in Channels
  BY <1>1, RowsHaveChannels DEF IInv, TypeInv, DbType, MemType, CatalogueInv, IdsAreOpen
<1>3. /\ DOMAIN rows' = DOMAIN rows
      /\ rows'[i].st = "failed"
      /\ \A j \in DOMAIN rows : rows'[j].chan = rows[j].chan
      /\ \A j \in DOMAIN rows : j # i => rows'[j] = rows[j]
  BY <1>1, <1>2, SetRowProps DEF RowStatuses
<1>4. ActiveIsRemembered'
  <2>1. SUFFICES ASSUME NEW j \in DOMAIN rows, rows'[j].st = "recording"
                 PROVE  recIds'[rows[j].chan] = j
    BY <1>3 DEF ActiveIsRemembered
  <2>2. j # i /\ rows[j].st = "recording"
    BY <1>3, <2>1
  <2>3. recIds[rows[j].chan] = j /\ rows[j].chan # cur
    BY <2>2 DEF RowInv, ActiveIsRemembered
  <2>4. QED
    BY <1>1, <1>2, <2>3
<1>5. RememberedIsActive'
  <2>1. SUFFICES ASSUME NEW c \in Channels, recIds'[c] # 0
                 PROVE  rows'[recIds'[c]].st = "recording" /\ capturing[c]
    BY <1>1 DEF RememberedIsActive
  <2>2. c # cur /\ recIds'[c] = recIds[c] /\ recIds[c] # 0
    BY <1>1, <1>2, <2>1
  <2>3. /\ recIds[c] \in DOMAIN rows /\ rows[recIds[c]].chan = c
        /\ rows[recIds[c]].st = "recording" /\ capturing[c]
    BY <2>2 DEF IInv, CatalogueInv, IdsAreOpen, RowInv, RememberedIsActive
  <2>4. recIds[c] # i
    BY <1>2, <2>2, <2>3
  <2>5. QED
    BY <1>3, <2>2, <2>3, <2>4
<1>6. QED
  BY <1>3, <1>4, <1>5 DEF RowInv
\* Rows, and the failed ones among them.
RowsKept == RowInv' /\ \A i \in DOMAIN rows : rows[i].st = "failed" => rows'[i].st = "failed"

LEMMA RowsKeptFrame ==
  ASSUME RowInv, UNCHANGED <<rows, recIds, capturing>>,
         pc \notin {"openCapture", "closeRow"} \/ UNCHANGED <<pc, cur>>
  PROVE  RowsKept
BY RowFrame DEF RowsKept

\* Captures that begin or end on a channel whose row says so.
LEMMA RowsKeptCaptures ==
  ASSUME RowInv, UNCHANGED <<rows, recIds>>,
         \A c \in Channels : capturing[c] => capturing'[c] \/ (pc' = "closeRow" /\ cur' = c),
         \A c \in Channels :
           pc \in {"openCapture", "closeRow"} /\ cur = c =>
             (recIds[c] # 0 => capturing'[c])
  PROVE  RowsKept
BY DEF RowsKept, RowInv, ActiveIsRemembered, RememberedIsActive

LEMMA RowsKeptStep ==
  ASSUME IInv, RaceInv, NoCrash, NoDeath, [Next]_vars
  PROVE  RowsKept
<1> USE DEF dbVars, redisVars, memVars, threadVars, mainVars
<1>0. /\ rows \in Seq(Row) /\ capturing \in [Channels -> BOOLEAN]
      /\ recIds \in [Channels -> Nat] /\ RowInv
      /\ \A j \in DOMAIN rows : rows[j].chan \in Channels
      /\ pc \in HandlerPcs => cur \in Channels
  BY RowsHaveChannels
  DEF IInv, TypeInv, DbType, MemType, MainType, HandlerHasChannel, RaceInv
<1>1. CASE UNCHANGED vars
  BY <1>0, <1>1, RowsKeptFrame DEF vars
<1>2. CASE SchedulerNext
  <2>1. UNCHANGED <<rows, recIds, capturing, pc, cur>>
    BY <1>2
    DEF SchedulerNext, RequestStep, Accept, AcceptAutoConnect, CommitIntent, Publish,
        RefreshAndStart, PublishFails, Undo, ApiCrash
  <2>2. QED
    BY <1>0, <2>1, RowsKeptFrame
<1>3. CASE Startup
  <2>1. registered = {}
    BY <1>3 DEF Startup, IInv, CatalogueInv, DownHasNothing
  <2>2. \A i \in DOMAIN rows : rows[i].st # "recording"
    BY <1>0, <1>3, <2>1, NoSessionNoRow DEF Startup
  <2>3. rows' = rows
    BY <1>0, <1>3, <2>2, FailActiveIdle DEF Startup
  <2>4. QED
    BY <1>0, <1>3, <2>3, RowsKeptFrame DEF Startup
<1>4. CASE Heartbeat
  <2>1. DeadSessions = {}
    BY DEF RaceInv, NoneDead, DeadSessions
  <2>2. rows' = rows
    BY <1>0, <1>4, <2>1, FailActiveIdle DEF Heartbeat
  <2>3. UNCHANGED <<recIds, capturing>>
    BY <1>0, <1>4, <2>1 DEF Heartbeat
  <2>4. QED
    BY <1>0, <1>4, <2>2, <2>3, RowsKeptFrame DEF Heartbeat
<1>5. ASSUME NEW c \in Channels, StopWithoutSession(c)
      PROVE  RowsKept
  <2>1. pc = "apply" /\ c \notin registered /\ rows' = FailActive({c})
    BY <1>5 DEF StopWithoutSession
  <2>2. \A i \in DOMAIN rows : rows[i].chan \in {c} => rows[i].st # "recording"
    BY <1>0, <2>1, NoSessionNoRow
  <2>3. rows' = rows
    BY <1>0, <2>1, <2>2, FailActiveIdle
  <2>4. QED
    BY <1>0, <1>5, <2>1, <2>3, RowsKeptFrame DEF StopWithoutSession
<1>6. CASE StopCapture
  BY <1>0, <1>6, RowsKeptCaptures DEF StopCapture, Goto, HandlerPcs
<1>7. CASE OpenCapture
  BY <1>0, <1>7, RowsKeptCaptures DEF OpenCapture, HandlerPcs
<1>8. CASE ConnectSucceeds
  <2>1. /\ pc = "connecting" /\ cur \in Channels /\ cur \notin registered
        /\ capturing' = [capturing EXCEPT ![cur] = FALSE]
        /\ UNCHANGED <<rows, recIds>>
    BY <1>0, <1>8 DEF ConnectSucceeds, HandlerPcs, RaceInv, HandIsOut, OutPcs
  <2>2. ~capturing[cur]
    BY <1>0, <2>1, NoSessionNoRow
  <2>3. UNCHANGED capturing
    BY <1>0, <2>1, <2>2
  <2>4. QED
    BY <1>0, <2>1, <2>3, RowsKeptFrame
<1>9. CASE CloseRow \/ OpenRow \/ OpenCaptureFails
  BY <1>0, <1>9, RowCloses, RowOpens, RowFails DEF RowsKept
<1>10. CASE \E c \in Channels : SessionDies(c)
  BY <1>10 DEF SessionDies, NoDeath
<1>11. CASE PopConnect \/ PopperDies \/ Drain \/ DrainFails \/ ApplyDone
  BY <1>0, <1>11, RowsKeptFrame
  DEF PopConnect, PopperDies, Drain, DrainSteps, DrainFails, ApplyDone
<1>12. CASE \E c \in Channels :
              ConnectJob(c) \/ BeginDisconnect(c) \/ BeginStop(c) \/ BeginStart(c)
  BY <1>0, <1>12, RowsKeptFrame
  DEF ConnectJob, AlreadyConnected, AtCapacity, BeginConnect, TakeConnectJob,
      BeginDisconnect, BeginStop, BeginStart
<1>13. CASE Announce \/ \E queued \in BOOLEAN : AnnounceFails(queued)
  BY <1>0, <1>13, RowsKeptFrame DEF Announce, AnnounceFails
<1>14. CASE Teardown \/ MarkIdle \/ MarkStopped \/ DeferStart \/ AlreadyRecording
             \/ ConnectFails
  BY <1>0, <1>14, RowsKeptFrame
  DEF Teardown, MarkIdle, MarkStopped, DeferStart, AlreadyRecording, ConnectFails
<1>15. QED
  BY <1>1, <1>2, <1>3, <1>4, <1>5, <1>6, <1>7, <1>8, <1>9, <1>10, <1>11, <1>12, <1>13,
     <1>14, CrashFreeSteps

\* Steps of the main thread that touch no session.
LEMMA SessionFrame ==
  ASSUME NoneDead, UNCHANGED <<registered, pipe>>,
         \/ UNCHANGED <<pc, cur, op>> /\ HandIsOut
         \/ pc' \notin OutPcs \cup {"stopCapture", "closeRow", "announce"}
  PROVE  NoneDead' /\ HandIsOut'
BY DEF NoneDead, HandIsOut

LEMMA SessionStep ==
  ASSUME IInv, RaceInv, NoCrash, NoDeath, [Next]_vars
  PROVE  NoneDead' /\ HandIsOut'
<1> USE DEF dbVars, redisVars, memVars, threadVars, mainVars
<1>0. /\ NoneDead /\ HandIsOut /\ pipe \in [Channels -> {"none", "live", "dead"}]
      /\ registered \in SUBSET Channels
      /\ pc \in HandlerPcs => cur \in Channels
  BY DEF IInv, TypeInv, MemType, MainType, HandlerHasChannel, RaceInv
<1>1. CASE UNCHANGED vars
  BY <1>0, <1>1, SessionFrame DEF vars
<1>2. CASE SchedulerNext
  <2>1. UNCHANGED <<registered, pipe, pc, cur, op>>
    BY <1>2
    DEF SchedulerNext, RequestStep, Accept, AcceptAutoConnect, CommitIntent, Publish,
        RefreshAndStart, PublishFails, Undo, ApiCrash
  <2>2. QED
    BY <1>0, <2>1, SessionFrame
<1>3. CASE Startup
  BY <1>0, <1>3, SessionFrame DEF Startup, Goto, OutPcs
<1>4. CASE Heartbeat
  <2>1. DeadSessions = {}
    BY <1>0 DEF NoneDead, DeadSessions
  <2>2. UNCHANGED <<registered, pipe>> /\ pc' = "drainDisconnect"
    BY <1>0, <1>4, <2>1 DEF Heartbeat, Goto
  <2>3. QED
    BY <1>0, <2>2, SessionFrame DEF OutPcs
<1>5. CASE \E c \in Channels : SessionDies(c)
  BY <1>5 DEF SessionDies, NoDeath
<1>6. CASE PopConnect \/ PopperDies \/ Drain \/ DrainFails \/ ApplyDone
  BY <1>0, <1>6, SessionFrame
  DEF PopConnect, PopperDies, Drain, DrainSteps, DrainFails, AbortTick, ApplyDone, Goto,
      OutPcs
<1>7. ASSUME NEW c \in Channels, AlreadyConnected(c) \/ AtCapacity(c) \/ BeginStart(c)
      PROVE  NoneDead' /\ HandIsOut'
  BY <1>0, <1>7, SessionFrame
  DEF AlreadyConnected, AtCapacity, TakeConnectJob, ConnectEnds, BeginStart,
      EnterHandler,
      OutPcs
<1>8. ASSUME NEW c \in Channels, BeginConnect(c)
      PROVE  NoneDead' /\ HandIsOut'
  <2>1. /\ UNCHANGED <<registered, pipe>> /\ ~Live(c)
        /\ pc' = "connecting" /\ cur' = c /\ op' = "connect"
    BY <1>8 DEF BeginConnect, TakeConnectJob
  <2>2. c \notin registered
    BY <1>0, <2>1 DEF NoneDead, Live
  <2>3. QED
    BY <1>0, <2>1, <2>2 DEF NoneDead, HandIsOut, OutPcs
<1>9. ASSUME NEW c \in Channels, BeginDisconnect(c)
      PROVE  NoneDead' /\ HandIsOut'
  <2>1. registered' = registered \ {c} /\ UNCHANGED pipe /\ cur' = c
    BY <1>9 DEF BeginDisconnect, EnterHandler
  <2>2. QED
    BY <1>0, <2>1 DEF NoneDead, HandIsOut
<1>10. ASSUME NEW c \in Channels, BeginStop(c) \/ StopWithoutSession(c)
       PROVE  NoneDead' /\ HandIsOut'
  <2>1. /\ UNCHANGED <<registered, pipe>>
        /\ \/ op' = "stop" /\ pc' \notin OutPcs
           \/ UNCHANGED <<pc, cur, op>>
    BY <1>10
    DEF BeginStop, FinalizeLabel, StopWithoutSession, EnterHandler, OutPcs
  <2>2. QED
    BY <1>0, <2>1 DEF NoneDead, HandIsOut
<1>11. CASE StopCapture \/ CloseRow \/ Announce
  <2>1. /\ pc \in {"stopCapture", "closeRow", "announce"}
        /\ UNCHANGED <<registered, pipe, cur, op>>
        /\ pc' \in OutPcs => op = "disconnect"
    BY <1>11 DEF StopCapture, CloseRow, Announce, Goto, AfterFinalize, OutPcs
  <2>2. QED
    BY <1>0, <2>1 DEF NoneDead, HandIsOut
<1>12. ASSUME NEW queued \in BOOLEAN, AnnounceFails(queued)
       PROVE  NoneDead' /\ HandIsOut'
  <2>1. /\ pc = "announce" /\ UNCHANGED registered /\ pc' = "loop"
        /\ pipe' = pipe \/ (op = "disconnect" /\ pipe' = [pipe EXCEPT ![cur] = "none"])
    BY <1>12 DEF AnnounceFails, AbortTick
  <2>2. op = "disconnect" => cur \notin registered
    BY <1>0, <2>1 DEF HandIsOut
  <2>3. NoneDead'
    BY <1>0, <2>1, <2>2 DEF NoneDead
  <2>4. QED
    BY <2>1, <2>3 DEF HandIsOut, OutPcs
<1>13. CASE Teardown
  <2>1. /\ pc = "teardown" /\ cur \notin registered /\ pc' = "markIdle"
        /\ pipe' = [pipe EXCEPT ![cur] = "none"] /\ UNCHANGED <<registered, cur, op>>
    BY <1>0, <1>13 DEF Teardown, Goto, HandIsOut, OutPcs
  <2>2. QED
    BY <1>0, <2>1 DEF NoneDead, HandIsOut
<1>14. CASE \/ MarkIdle \/ MarkStopped \/ DeferStart \/ AlreadyRecording \/ OpenRow
            \/ OpenCapture \/ OpenCaptureFails \/ ConnectFails
  BY <1>0, <1>14, SessionFrame
  DEF MarkIdle, MarkStopped, DeferStart, AlreadyRecording, OpenRow, OpenCapture,
      OpenCaptureFails, ConnectFails, ConnectEnds, Goto, Return, OutPcs
<1>15. CASE ConnectSucceeds
  <2>1. /\ cur \in Channels /\ registered' = registered \cup {cur}
        /\ pipe' = [pipe EXCEPT ![cur] = "live"] /\ pc' \in {"openRow", "loop"}
    BY <1>0, <1>15 DEF ConnectSucceeds, ConnectEnds, HandlerPcs
  <2>2. QED
    BY <1>0, <2>1 DEF NoneDead, HandIsOut, OutPcs
<1>16. QED
  BY <1>1, <1>2, <1>3, <1>4, <1>5, <1>6, <1>7, <1>8, <1>9, <1>10, <1>11, <1>12, <1>13,
     <1>14, <1>15, CrashFreeSteps DEF ConnectJob

LEMMA RaceAlways ==
  ASSUME MaxCrashes = 0, MaxDeaths = 0
  PROVE  Spec => []RaceInv
<1>1. Init => RaceInv
  BY DEF Init, RaceInv, NoneDead, HandIsOut, OutPcs, RowInv, ActiveIsRemembered,
         RememberedIsActive
<1>2. IInv /\ RaceInv /\ NoCrash /\ NoDeath /\ [Next]_vars => RaceInv'
  BY RowsKeptStep, SessionStep DEF RaceInv, RowsKept
<1>3. QED
  BY <1>1, <1>2, InvariantAlways, NoCrashAlways, NoDeathAlways, PTL DEF Spec

\* As long as the worker is not killed or stopped and no session dies, no
\* channel has two open rows, so "the newest active row" is the only one,
\* whatever Redis loses and whatever is requested in which order.
THEOREM OneRowPerChannel ==
  ASSUME MaxCrashes = 0, MaxDeaths = 0
  PROVE  Spec => []OneActiveRow
<1>1. RaceInv => OneActiveRow
  BY DEF RaceInv, RowInv, ActiveIsRemembered, OneActiveRow, ActiveRows
<1>2. QED
  BY <1>1, RaceAlways, PTL

\* Under the same conditions a recording that was given up as failed is not
\* completed by a later stop or disconnect.
THEOREM FailedStaysFailed ==
  ASSUME MaxCrashes = 0, MaxDeaths = 0
  PROVE  Spec => FailedIsFinal
<1>1. IInv /\ RaceInv /\ NoCrash /\ NoDeath /\ [Next]_vars
      => [\A i \in DOMAIN rows : rows[i].st = "failed" => rows'[i].st = "failed"]_vars
  BY RowsKeptStep DEF RowsKept
<1>2. QED
  BY <1>1, InvariantAlways, RaceAlways, NoCrashAlways, NoDeathAlways, PTL
  DEF Spec, FailedIsFinal
-----------------------------------------------------------------------------
(* The achieved statuses are true, unless the worker is stopped, a session *)
(* dies or Redis fails.                                                    *)

Intents == {"connecting", "disconnecting", "stopping", "starting"}

\* A request writes an intent, and puts nothing back.
RequestsIntend ==
  \A r \in Requests :
    /\ req[r].pc # "undo"
    /\ req[r].pc = "commit" => req[r].new \in Intents

\* The label decides which job the handler in progress serves.
HandOp ==
  /\ pc \in {"stopCapture", "closeRow", "announce"} => op \in {"disconnect", "stop"}
  /\ pc \in {"teardown", "markIdle"} => op = "disconnect"
  /\ pc = "markStopped" => op = "stop"

EndPcs == {"stopCapture", "closeRow", "announce", "teardown", "markIdle", "markStopped"}

\* A stop works on a session.
StopHasSession == pc \in EndPcs /\ op = "stop" => cur \in registered

\* The disconnect, or the stop, that is about to replace the status.
Leaving(c) == pc \in EndPcs /\ op = "disconnect" /\ cur = c

Ending(c) == pc \in EndPcs \ {"stopCapture"} /\ op = "stop" /\ cur = c

ConnectedHasSession ==
  \A c \in Channels :
    status[c] \in {"connected", "recording"} => c \in registered \/ Leaving(c)

RecordingHasCapture ==
  \A c \in Channels : status[c] = "recording" =>
    capturing[c] \/ (pc = "openCapture" /\ cur = c) \/ Leaving(c) \/ Ending(c)

StatusInv == HandOp /\ StopHasSession /\ ConnectedHasSession /\ RecordingHasCapture

LEMMA RequestsIntendStep ==
  ASSUME TypeInv, RequestsIntend, NoFault, [Next]_vars
  PROVE  RequestsIntend'
<1>0. req \in [Requests -> Request] /\ FreeSlot.pc = "free"
  BY FreeSlotType DEF TypeInv, ReqType
<1>1. ASSUME NEW kind \in JobOps, NEW c \in Channels, NEW old, NEW then
      PROVE  /\ Admitted(kind, c, old, then).pc \in {"commit", "publish"}
             /\ Admitted(kind, c, old, then).pc = "commit" =>
                  Admitted(kind, c, old, then).new \in Intents
  BY DEF Admitted, Intent, JobOps, ControlLists, ControlOps, Intents
<1>2. ASSUME NEW r \in Requests, NEW v, SetReq(r, v),
             v.pc # "undo", v.pc = "commit" => v.new \in Intents
      PROVE  RequestsIntend'
  BY <1>0, <1>2 DEF SetReq, RequestsIntend
<1>3. ASSUME NEW r \in Requests, NEW kind \in JobOps, NEW c \in Channels,
             Accept(r, kind, c) \/ AcceptAutoConnect(r, c)
      PROVE  RequestsIntend'
  <2>1. "connect" \in JobOps
    BY DEF JobOps
  <2>2. QED
    BY <1>1, <1>2, <1>3, <2>1 DEF Accept, AcceptAutoConnect
<1>4. ASSUME NEW r \in Requests, CommitIntent(r) \/ Publish(r) \/ Undo(r)
      PROVE  RequestsIntend'
  <2>1. req[r] \in Request
    BY <1>0
  <2>2. \/ SetReq(r, FreeSlot)
        \/ SetReq(r, [req[r] EXCEPT !.pc = "publish"])
        \/ SetReq(r, [req[r] EXCEPT !.pc = "refresh"])
    BY <1>4 DEF CommitIntent, Publish, Undo
  <2>3. /\ [req[r] EXCEPT !.pc = "publish"].pc = "publish"
        /\ [req[r] EXCEPT !.pc = "refresh"].pc = "refresh"
    BY <2>1 DEF Request
  <2>4. QED
    BY <1>0, <1>2, <2>2, <2>3
<1>5. ASSUME NEW r \in Requests, RefreshAndStart(r)
      PROVE  RequestsIntend'
  <2>1. "start" \in JobOps /\ req[r].chan \in Channels
    BY <1>5
    DEF RefreshAndStart, JobOps, ControlLists, ControlOps, TypeInv, ReqType,
        RequestIsWhole
  <2>2. QED
    BY <1>0, <1>1, <1>2, <1>5, <2>1 DEF RefreshAndStart
<1>6. ASSUME NEW r \in Requests, NEW queued \in BOOLEAN, PublishFails(r, queued)
      PROVE  FALSE
  BY <1>6 DEF PublishFails, NoFault
<1>7. CASE ApiCrash
  BY <1>0, <1>7 DEF ApiCrash, RequestsIntend
<1>8. CASE UNCHANGED req
  BY <1>8 DEF RequestsIntend
<1>9. CASE WorkerNext
  <2>1. CASE Startup \/ Exit \/ PopConnect \/ Heartbeat \/ \E c \in Channels : ConnectJob(c)
    BY <1>8, <2>1
    DEF Startup, Exit, PopConnect, Heartbeat, ConnectJob, AlreadyConnected, AtCapacity,
        BeginConnect, TakeConnectJob
  <2>2. CASE HandlerStep
    BY <1>8, <2>2
    DEF HandlerStep, Drain, ApplyDone, Resume, BeginDisconnect, BeginStop,
        StopWithoutSession, BeginStart, StopCapture, CloseRow, Announce, Teardown,
        MarkIdle, MarkStopped, DeferStart, AlreadyRecording, OpenRow, OpenCapture,
        OpenCaptureFails, ConnectSucceeds, ConnectFails
  <2>3. CASE WorkerFault
    BY <1>8, <2>3
    DEF WorkerFault, Crash, Shutdown, SessionDies, PopperDies, DrainFails, AnnounceFails
  <2>4. QED
    BY <1>9, <2>1, <2>2, <2>3 DEF WorkerNext
<1>10. CASE SchedulerNext
  <2>1. "connect" \in JobOps
    BY DEF JobOps
  <2>2. QED
    BY <1>3, <1>4, <1>5, <1>6, <1>7, <1>10, <2>1 DEF SchedulerNext, RequestStep
<1>11. QED
  BY <1>8, <1>9, <1>10 DEF Next, vars

\* The labels that StatusInv is about.
HandPcs == EndPcs \cup {"openCapture"}

\* The worker moves outside of them, or not at all; a status stays, becomes
\* an intent or idle or error, or "connected" for a channel with a session.
LEMMA StatusFrame ==
  ASSUME StatusInv, UNCHANGED <<registered, capturing>>,
         \A c \in Channels :
           \/ status'[c] = status[c]
           \/ status'[c] \notin {"connected", "recording"}
           \/ status'[c] = "connected" /\ c \in registered,
         UNCHANGED <<pc, cur, op>> \/ (pc \notin HandPcs /\ pc' \notin HandPcs)
  PROVE  StatusInv'
<1> USE DEF HandPcs, EndPcs
<1>1. HandOp' /\ StopHasSession'
  BY DEF StatusInv, HandOp, StopHasSession
<1>2. ConnectedHasSession'
  BY DEF StatusInv, ConnectedHasSession, Leaving
<1>3. RecordingHasCapture'
  BY DEF StatusInv, RecordingHasCapture, Leaving, Ending
<1>4. QED
  BY <1>1, <1>2, <1>3 DEF StatusInv

\* From label to label of the same disconnect or stop.
LEMMA StatusHandover ==
  ASSUME StatusInv, UNCHANGED <<registered, status, cur, op>>,
         pc \in EndPcs, pc' \in EndPcs \ {"stopCapture"}, HandOp',
         \A c \in Channels : c # cur => capturing'[c] = capturing[c]
  PROVE  StatusInv'
<1> USE DEF EndPcs
<1>1. StopHasSession'
  BY DEF StatusInv, StopHasSession
<1>2. ConnectedHasSession'
  BY DEF StatusInv, ConnectedHasSession, Leaving
<1>3. RecordingHasCapture'
  BY DEF StatusInv, HandOp, RecordingHasCapture, Leaving, Ending
<1>4. QED
  BY <1>1, <1>2, <1>3 DEF StatusInv

\* The end of a handler: its channel's status is settled.
LEMMA StatusSettles ==
  ASSUME StatusInv, UNCHANGED <<registered, capturing>>, pc \in HandPcs,
         pc' \notin HandPcs,
         \A c \in Channels : c # cur => status'[c] = status[c],
         cur \in Channels,
         \/ status'[cur] \notin {"connected", "recording"}
         \/ status'[cur] = "connected" /\ cur \in registered
  PROVE  StatusInv'
<1> USE DEF HandPcs, EndPcs
<1>1. HandOp' /\ StopHasSession'
  BY DEF HandOp, StopHasSession
<1>2. ConnectedHasSession'
  BY DEF StatusInv, ConnectedHasSession, Leaving
<1>3. RecordingHasCapture'
  BY DEF StatusInv, RecordingHasCapture, Leaving, Ending
<1>4. QED
  BY <1>1, <1>2, <1>3 DEF StatusInv
LEMMA StatusRequests ==
  ASSUME TypeInv, StatusInv, RequestsIntend, SchedulerNext
  PROVE  StatusInv'
<1> USE DEF dbVars, redisVars, memVars, threadVars, mainVars
<1>0. status \in [Channels -> Statuses] /\ req \in [Requests -> Request] /\ RequestIsWhole
  BY DEF TypeInv, DbType, ReqType
<1>1. UNCHANGED <<registered, capturing, pc, cur, op>>
  BY DEF SchedulerNext, RequestStep, Accept, AcceptAutoConnect, CommitIntent, Publish,
         RefreshAndStart, PublishFails, Undo, ApiCrash
<1>2. ASSUME NEW r \in Requests, CommitIntent(r)
      PROVE  StatusInv'
  <2>1. /\ req[r].new \in Intents
        /\ status' = status \/ status' = [status EXCEPT ![req[r].chan] = req[r].new]
    BY <1>2 DEF CommitIntent, RequestsIntend
  <2>2. \A c \in Channels :
          status'[c] = status[c] \/ status'[c] \notin {"connected", "recording"}
    BY <1>0, <2>1 DEF Intents
  <2>3. QED
    BY <1>1, <2>2, StatusFrame
<1>3. CASE UNCHANGED status
  BY <1>1, <1>3, StatusFrame
<1>4. ASSUME NEW r \in Requests, Undo(r)
      PROVE  FALSE
  BY <1>4 DEF Undo, RequestsIntend
<1>5. UNCHANGED status \/ \E r \in Requests : CommitIntent(r) \/ Undo(r)
  BY DEF SchedulerNext, RequestStep, Accept, AcceptAutoConnect, Publish,
         RefreshAndStart, PublishFails, ApiCrash
<1>6. QED
  BY <1>2, <1>3, <1>4, <1>5

\* _handle_disconnect and _handle_record_stop.
LEMMA StatusFinalize ==
  ASSUME IInv, RaceInv, StatusInv, NoCrash,
         \/ \E c \in Channels : BeginDisconnect(c) \/ BeginStop(c) \/ StopWithoutSession(c)
         \/ StopCapture \/ CloseRow \/ Announce \/ Teardown \/ MarkIdle \/ MarkStopped
  PROVE  StatusInv'
<1> USE DEF dbVars, redisVars, memVars, threadVars, mainVars
<1>0. /\ status \in [Channels -> Statuses] /\ capturing \in [Channels -> BOOLEAN]
      /\ registered \in SUBSET Channels
      /\ pc \in HandlerPcs => cur \in Channels
  BY DEF IInv, TypeInv, DbType, MemType, MainType, HandlerHasChannel
<1>1. ASSUME NEW c \in Channels, BeginDisconnect(c)
      PROVE  StatusInv'
  <2>1. /\ pc = "apply" /\ registered' = registered \ {c}
        /\ cur' = c /\ op' = "disconnect"
        /\ pc' \in {"markIdle", "stopCapture", "teardown"}
        /\ UNCHANGED <<status, capturing>>
    BY <1>1 DEF BeginDisconnect, EnterHandler
  <2>2. HandOp' /\ StopHasSession'
    BY <2>1 DEF HandOp, StopHasSession
  <2>3. \A d \in Channels : Leaving(d)' <=> d = c
    BY <2>1 DEF Leaving, EndPcs
  <2>4. ConnectedHasSession'
    BY <2>1, <2>3 DEF StatusInv, ConnectedHasSession, Leaving, EndPcs
  <2>5. RecordingHasCapture'
    BY <2>1, <2>3 DEF StatusInv, RecordingHasCapture, Leaving, Ending, EndPcs
  <2>6. QED
    BY <2>2, <2>4, <2>5 DEF StatusInv
<1>2. ASSUME NEW c \in Channels, BeginStop(c)
      PROVE  StatusInv'
  <2>1. /\ pc = "apply" /\ c \in registered /\ cur' = c /\ op' = "stop"
        /\ pc' \in {"stopCapture", "closeRow", "markStopped"}
        /\ UNCHANGED <<status, registered, capturing>>
    BY <1>2 DEF BeginStop, EnterHandler, FinalizeLabel
  <2>2. HandOp' /\ StopHasSession'
    BY <2>1 DEF HandOp, StopHasSession
  <2>3. ConnectedHasSession' /\ RecordingHasCapture'
    BY <2>1
    DEF StatusInv, ConnectedHasSession, RecordingHasCapture, Leaving, Ending, EndPcs
  <2>4. QED
    BY <2>2, <2>3 DEF StatusInv
<1>3. ASSUME NEW c \in Channels, StopWithoutSession(c)
      PROVE  StatusInv'
  <2>1. /\ UNCHANGED <<registered, capturing, pc, cur, op>>
        /\ \A d \in Channels : status'[d] = status[d] \/ status'[d] = "idle"
    BY <1>0, <1>3 DEF StopWithoutSession, SetStatusIf
  <2>2. QED
    BY <2>1, StatusFrame
<1>4. CASE StopCapture \/ CloseRow \/ Announce \/ Teardown
  <2>1. /\ UNCHANGED <<registered, status, cur, op>>
        /\ pc \in EndPcs /\ pc' \in EndPcs \ {"stopCapture"}
        /\ \A c \in Channels : c # cur => capturing'[c] = capturing[c]
    BY <1>0, <1>4
    DEF StopCapture, CloseRow, Announce, Teardown, Goto, AfterFinalize, EndPcs
  <2>2. HandOp'
    BY <1>4
    DEF StatusInv, HandOp, StopCapture, CloseRow, Announce, Teardown, Goto,
        AfterFinalize
  <2>3. QED
    BY <2>1, <2>2, StatusHandover
<1>5. CASE MarkIdle \/ MarkStopped
  <2>1. /\ pc \in {"markIdle", "markStopped"} /\ pc' \in {"loop", "apply"}
        /\ UNCHANGED <<registered, capturing>>
    BY <1>5 DEF MarkIdle, MarkStopped, Return
  <2>2. cur \in Channels
    BY <1>0, <2>1 DEF HandlerPcs
  <2>3. CASE MarkIdle
    <3>1. /\ \A c \in Channels : c # cur => status'[c] = status[c]
          /\ status'[cur] \in IdleStatuses
      BY <1>0, <2>2, <2>3 DEF MarkIdle, SetStatusIf, Statuses, IdleStatuses
    <3>2. QED
      BY <2>1, <2>2, <3>1, StatusSettles DEF HandPcs, EndPcs, IdleStatuses
  <2>4. CASE MarkStopped
    <3>1. /\ \A c \in Channels : c # cur => status'[c] = status[c]
          /\ status'[cur] \in {"connected", "idle"}
      BY <1>0, <2>2, <2>4 DEF MarkStopped, SetStatus
    <3>2. cur \in registered
      BY <2>4 DEF MarkStopped, StatusInv, HandOp, StopHasSession, EndPcs
    <3>3. QED
      BY <2>1, <2>2, <3>1, <3>2, StatusSettles DEF HandPcs, EndPcs
  <2>5. QED
    BY <1>5, <2>3, <2>4
<1>6. QED
  BY <1>1, <1>2, <1>3, <1>4, <1>5

\* _handle_record_start and _handle_connect.
LEMMA StatusStarts ==
  ASSUME IInv, RaceInv, StatusInv, NoCrash,
         \/ \E c \in Channels : BeginStart(c) \/ ConnectJob(c)
         \/ DeferStart \/ AlreadyRecording \/ OpenRow \/ OpenCapture \/ OpenCaptureFails
         \/ ConnectSucceeds \/ ConnectFails
  PROVE  StatusInv'
<1> USE DEF dbVars, redisVars, memVars, threadVars, mainVars
<1>0. /\ status \in [Channels -> Statuses] /\ capturing \in [Channels -> BOOLEAN]
      /\ registered \in SUBSET Channels
      /\ pc \in HandlerPcs => cur \in Channels
  BY DEF IInv, TypeInv, DbType, MemType, MainType, HandlerHasChannel
<1>1. ASSUME NEW c \in Channels, BeginStart(c)
      PROVE  StatusInv'
  BY <1>1, StatusFrame DEF BeginStart, EnterHandler, HandPcs, EndPcs
<1>2. ASSUME NEW c \in Channels, ConnectJob(c)
      PROVE  StatusInv'
  <2>1. /\ pc = "loop" /\ pc' \in {"openRow", "loop", "connecting"}
        /\ UNCHANGED <<registered, capturing>>
    BY <1>2
    DEF ConnectJob, AlreadyConnected, AtCapacity, BeginConnect, TakeConnectJob,
        ConnectEnds
  <2>2. \A d \in Channels :
          \/ status'[d] = status[d] \/ status'[d] = "error"
          \/ status'[d] = "connected" /\ d \in registered
    BY <1>0, <1>2
    DEF ConnectJob, AlreadyConnected, AtCapacity, BeginConnect, SetStatusIf, Live
  <2>3. QED
    BY <2>1, <2>2, StatusFrame DEF HandPcs, EndPcs
<1>3. CASE DeferStart \/ AlreadyRecording
  BY <1>3, StatusFrame DEF DeferStart, AlreadyRecording, Return, HandPcs, EndPcs
<1>4. CASE OpenRow
  <2>1. /\ pc = "openRow" /\ pc' = "openCapture" /\ cur \in Channels
        /\ cur \in registered /\ UNCHANGED <<registered, capturing, cur, op>>
        /\ \A c \in Channels : c # cur => status'[c] = status[c]
    BY <1>0, <1>4 DEF OpenRow, Goto, Live, SetStatus, HandlerPcs
  <2>2. HandOp' /\ StopHasSession'
    BY <2>1 DEF HandOp, StopHasSession, EndPcs
  <2>3. ConnectedHasSession' /\ RecordingHasCapture'
    BY <2>1
    DEF StatusInv, ConnectedHasSession, RecordingHasCapture, Leaving, Ending, EndPcs
  <2>4. QED
    BY <2>2, <2>3 DEF StatusInv
<1>5. CASE OpenCapture
  <2>1. /\ pc = "openCapture" /\ pc' \in {"loop", "apply"} /\ cur \in Channels
        /\ UNCHANGED <<registered, status>>
        /\ capturing' = [capturing EXCEPT ![cur] = TRUE]
    BY <1>0, <1>5 DEF OpenCapture, Return, HandlerPcs
  <2>2. HandOp' /\ StopHasSession'
    BY <2>1 DEF HandOp, StopHasSession, EndPcs
  <2>3. ConnectedHasSession' /\ RecordingHasCapture'
    BY <1>0, <2>1
    DEF StatusInv, ConnectedHasSession, RecordingHasCapture, Leaving, Ending, EndPcs
  <2>4. QED
    BY <2>2, <2>3 DEF StatusInv
<1>6. CASE OpenCaptureFails
  <2>1. /\ pc = "openCapture" /\ pc' \in {"loop", "apply"} /\ cur \in Channels
        /\ UNCHANGED <<registered, capturing>>
        /\ \A c \in Channels : c # cur => status'[c] = status[c]
        /\ \/ status'[cur] = "error"
           \/ status'[cur] = "connected" /\ cur \in registered
    BY <1>0, <1>6 DEF OpenCaptureFails, Return, SetStatus, Live, HandlerPcs
  <2>2. QED
    BY <2>1, StatusSettles DEF HandPcs, EndPcs
<1>7. CASE ConnectSucceeds
  <2>1. /\ pc = "connecting" /\ pc' \in {"openRow", "loop"} /\ cur \in Channels
        /\ cur \notin registered /\ registered' = registered \cup {cur}
        /\ capturing' = [capturing EXCEPT ![cur] = FALSE]
        /\ \A c \in Channels : c # cur => status'[c] = status[c]
        /\ status'[cur] = status[cur] \/ status'[cur] = "connected"
    BY <1>0, <1>7
    DEF ConnectSucceeds, ConnectEnds, SetStatusIf, HandlerPcs, RaceInv, HandIsOut,
        OutPcs
  <2>2. ~capturing[cur]
    BY <2>1, NoSessionNoRow DEF RaceInv
  <2>3. UNCHANGED capturing
    BY <1>0, <2>1, <2>2
  <2>4. HandOp' /\ StopHasSession'
    BY <2>1 DEF HandOp, StopHasSession, EndPcs
  <2>5. ConnectedHasSession' /\ RecordingHasCapture'
    BY <2>1, <2>2, <2>3
    DEF StatusInv, ConnectedHasSession, RecordingHasCapture, Leaving, Ending, EndPcs
  <2>6. QED
    BY <2>4, <2>5 DEF StatusInv
<1>8. CASE ConnectFails
  <2>1. /\ pc = "connecting" /\ pc' = "loop" /\ UNCHANGED <<registered, capturing>>
        /\ \A c \in Channels : status'[c] = status[c] \/ status'[c] = "error"
    BY <1>0, <1>8 DEF ConnectFails, ConnectEnds, SetStatus
  <2>2. QED
    BY <2>1, StatusFrame DEF HandPcs, EndPcs
<1>9. QED
  BY <1>1, <1>2, <1>3, <1>4, <1>5, <1>6, <1>7, <1>8

LEMMA StatusStep ==
  ASSUME IInv, RaceInv, StatusInv, RequestsIntend, NoCrash, NoDeath, NoFault,
  [Next]_vars
  PROVE  StatusInv'
<1> USE DEF dbVars, redisVars, memVars, threadVars, mainVars
<1>0. /\ status \in [Channels -> Statuses] /\ capturing \in [Channels -> BOOLEAN]
      /\ TypeInv
  BY DEF IInv, TypeInv, DbType, MemType
<1>1. CASE UNCHANGED vars
  BY <1>1, StatusFrame DEF vars
<1>2. CASE SchedulerNext
  BY <1>0, <1>2, StatusRequests
<1>3. CASE Startup
  <2>1. /\ pc = "down" /\ pc' = "loop" /\ UNCHANGED <<registered, capturing>>
        /\ \A c \in Channels : status'[c] = status[c] \/ status'[c] = "idle"
    BY <1>3 DEF Startup, Goto
  <2>2. QED
    BY <2>1, StatusFrame DEF HandPcs, EndPcs
<1>4. CASE Heartbeat
  <2>1. DeadSessions = {}
    BY DEF RaceInv, NoneDead, DeadSessions
  <2>2. /\ pc = "loop" /\ pc' = "drainDisconnect" /\ UNCHANGED <<registered, capturing>>
        /\ \A c \in Channels : status'[c] = status[c]
    BY <1>0, <1>4, <2>1 DEF Heartbeat, Goto
  <2>3. QED
    BY <2>2, StatusFrame DEF HandPcs, EndPcs
<1>5. CASE PopConnect \/ Drain \/ ApplyDone
  BY <1>5, StatusFrame
  DEF PopConnect, Drain, DrainSteps, ApplyDone, Goto, HandPcs, EndPcs
<1>6. CASE \/ PopperDies \/ DrainFails \/ \E queued \in BOOLEAN : AnnounceFails(queued)
           \/ \E c \in Channels : SessionDies(c)
  BY <1>6 DEF PopperDies, DrainFails, AnnounceFails, UseFault, SessionDies, NoFault,
     NoDeath
<1>7. QED
  BY <1>1, <1>2, <1>3, <1>4, <1>5, <1>6, StatusFinalize, StatusStarts, CrashFreeSteps

\* As long as the worker is not killed or stopped, no session dies and Redis
\* answers, a channel shown as connected has a session and one shown as
\* recording has a session that captures, whenever the worker is back in its
\* loop: whatever is requested, and wherever the requests and the handlers
\* interleave.
THEOREM StatusIsReal ==
  ASSUME MaxCrashes = 0, MaxDeaths = 0, MaxFaults = 0
  PROVE  Spec => []AchievedIsReal
<1>1. Init => StatusInv /\ RequestsIntend
  BY DEF Init, StatusInv, RequestsIntend, HandOp, StopHasSession, EndPcs, FreeSlot,
         ConnectedHasSession, RecordingHasCapture
<1>2. IInv /\ RaceInv /\ StatusInv /\ RequestsIntend /\ NoCrash /\ NoDeath /\ NoFault
      /\ [Next]_vars => StatusInv' /\ RequestsIntend'
  BY StatusStep, RequestsIntendStep DEF IInv
<1>3. Spec => [](StatusInv /\ RequestsIntend)
  BY <1>1, <1>2, InvariantAlways, RaceAlways, NoCrashAlways, NoDeathAlways,
     NoFaultAlways, PTL DEF Spec
<1>4. StatusInv => AchievedIsReal
  BY DEF StatusInv, ConnectedHasSession, RecordingHasCapture, Leaving, Ending, EndPcs,
         AchievedIsReal
<1>5. QED
  BY <1>3, <1>4, PTL
=============================================================================
