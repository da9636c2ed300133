-------------------------- MODULE IngestFarmProofs -------------------------
(***************************************************************************)
(* Invariants of IngestFarm and its refinement of RecordingLedger, for any *)
(* channels, request slots, capacity and any number of requests, crashes,  *)
(* pipeline failures and Redis errors.                                     *)
(***************************************************************************)
EXTENDS IngestFarm, TLAPS

-----------------------------------------------------------------------------
(* Type correctness needs two facts beside the types: a handler always has *)
(* a channel, and a request in flight has one too, and an intent to commit *)
(* when that is its next step.                                             *)

HandlerPcs == {"connecting", "openRow", "openCapture", "stopCapture", "closeRow",
               "announce", "teardown", "markIdle", "markStopped"}

HandlerHasChannel == pc \in HandlerPcs => cur \in Channels

RequestIsWhole ==
  \A r \in Requests :
    /\ req[r].pc # "free" => req[r].chan \in Channels
    /\ req[r].pc = "commit" => req[r].new # "keep"

\* TypeOK and these two, one part for the variables of each owner.
DbType ==
  /\ status \in [Channels -> Statuses]
  /\ rows \in Seq(Row)
  /\ claimed \in SUBSET Channels

RedisType ==
  /\ connectQ \in Seq(Channels)
  /\ ctlQ \in [ControlLists -> SUBSET Channels]
  /\ postQ \in Seq(Nat)

ReqType == req \in [Requests -> Request] /\ RequestIsWhole

MemType ==
  /\ registered \in SUBSET Channels
  /\ pipe \in [Channels -> {"none", "live", "dead"}]
  /\ capturing \in [Channels -> BOOLEAN]
  /\ recIds \in [Channels -> Nat]
  /\ pending \in SUBSET Channels
  /\ leaked \in SUBSET Channels

ThreadType == running \in BOOLEAN /\ popper \in BOOLEAN /\ idleQ \in Seq(Channels)

MainType ==
  /\ pc \in MainPcs
  /\ cur \in Channels \cup {NoChannel}
  /\ op \in JobOps
  /\ wantRec \in BOOLEAN
  /\ finRow \in Nat
  /\ batch \in [Channels -> SUBSET ControlOps]
  /\ HandlerHasChannel

LeftType == left \in [requests : Nat, crashes : Nat, deaths : Nat, faults : Nat]

\* An interrupted handler has a channel too.
FrameType ==
  /\ frame \in Frame
  /\ frame.pc \in HandlerPcs => frame.cur \in Channels

TypeInv ==
  /\ DbType /\ RedisType /\ ReqType /\ MemType /\ ThreadType
  /\ MainType /\ LeftType
-----------------------------------------------------------------------------
(* The inductive invariant behind CaptureIsCatalogued and the refinement.  *)

\* A stopped process has no sessions.
DownHasNothing == pc = "down" => registered = {}

\* A session that captures can be found: in _sessions, or in the hands of
\* the disconnect that is about to stop it, interrupted or not.
CaptureIsOwned ==
  \A c \in Channels : capturing[c] =>
    \/ c \in registered
    \/ pc = "stopCapture" /\ op = "disconnect" /\ cur = c
    \/ frame.pc = "stopCapture" /\ frame.op = "disconnect" /\ frame.cur = c

\* A remembered id names a row of that channel that is not completed.
IdsAreOpen ==
  \A c \in Channels : recIds[c] # 0 =>
    /\ recIds[c] \in DOMAIN rows
    /\ rows[recIds[c]].chan = c
    /\ rows[recIds[c]].st # "completed"

\* Between the row and the capture of a start.
StartInHand ==
  pc = "openCapture" =>
    /\ ~capturing[cur]
    /\ recIds[cur] # 0
    /\ rows[recIds[cur]].st = "recording"

\* The capture is stopped before its row is closed.
ClosingIsStopped == pc = "closeRow" => ~capturing[cur]

\* The row to announce is completed and has no job yet.
AnnouncementIsDue ==
  pc = "announce" =>
    /\ finRow \in DOMAIN rows
    /\ rows[finRow].st = "completed"
    /\ \A k \in DOMAIN postQ : postQ[k] # finRow

JobsAreCompleted ==
  \A k \in DOMAIN postQ :
    postQ[k] \in DOMAIN rows /\ rows[postQ[k]].st = "completed"

CatalogueInv ==
  /\ DownHasNothing /\ CaptureIsOwned /\ IdsAreOpen /\ CaptureIsCatalogued
  /\ StartInHand /\ ClosingIsStopped /\ AnnouncementIsDue /\ JobsAreCompleted

\* While the signal handler runs it does nothing but disconnect sessions.
NestedPcs == {"apply", "stopCapture", "closeRow", "announce", "teardown", "markIdle"}

OnlyDisconnects ==
  frame.pc # "down" =>
    /\ ~running
    /\ pc \in NestedPcs
    /\ \A c \in Channels : batch[c] \subseteq {"disconnect"}
    /\ pc # "apply" => op = "disconnect"

\* What the interrupted handler had established is still true when it goes
\* on: the row it opened is open, the capture it stopped is stopped, the row
\* it completed has no job yet.
HeldStart ==
  frame.pc = "openCapture" =>
    /\ ~capturing[frame.cur]
    /\ recIds[frame.cur] # 0
    /\ rows[recIds[frame.cur]].st = "recording"
    /\ pc \in {"stopCapture", "closeRow"} => cur # frame.cur

HeldClosing == frame.pc = "closeRow" => ~capturing[frame.cur]

HeldAnnouncement ==
  frame.pc = "announce" =>
    /\ frame.finRow \in DOMAIN rows
    /\ rows[frame.finRow].st = "completed"
    /\ \A k \in DOMAIN postQ : postQ[k] # frame.finRow
    /\ pc = "announce" => finRow # frame.finRow

NestedInv == OnlyDisconnects /\ HeldStart /\ HeldClosing /\ HeldAnnouncement

IInv == TypeInv /\ FrameType /\ CatalogueInv /\ NestedInv

-----------------------------------------------------------------------------
(* Lemmas about the operators.                                             *)

\* A row keeps its channel and its place; only an active row of one of the
\* channels changes, and it becomes failed.
LEMMA FailActiveProps ==
  ASSUME rows \in Seq(Row), NEW cs
  PROVE  /\ FailActive(cs) \in Seq(Row)
         /\ DOMAIN FailActive(cs) = DOMAIN rows
         /\ \A i \in DOMAIN rows :
              /\ FailActive(cs)[i].chan = rows[i].chan
              /\ FailActive(cs)[i].st # rows[i].st =>
                   /\ rows[i].chan \in cs
                   /\ rows[i].st = "recording"
                   /\ FailActive(cs)[i].st = "failed"
<1>1. /\ DOMAIN rows = 1 .. Len(rows) /\ Len(rows) \in Nat
      /\ \A i \in DOMAIN rows : rows[i] \in Row
  OBVIOUS
<1>2. \A i \in DOMAIN rows : FailActive(cs)[i] \in Row
  BY <1>1 DEF FailActive, Row, RowStatuses
<1>3. FailActive(cs) \in Seq(Row)
  <2>1. DOMAIN FailActive(cs) = 1 .. Len(rows)
    BY <1>1 DEF FailActive
  <2>2. FailActive(cs) = [i \in 1 .. Len(rows) |-> FailActive(cs)[i]]
    BY <2>1 DEF FailActive
  <2>3. QED
    BY <1>1, <1>2, <2>2
<1>4. DOMAIN FailActive(cs) = DOMAIN rows
  BY DEF FailActive
<1>5. ASSUME NEW i \in DOMAIN rows
      PROVE  /\ FailActive(cs)[i].chan = rows[i].chan
             /\ FailActive(cs)[i].st # rows[i].st =>
                  /\ rows[i].chan \in cs
                  /\ rows[i].st = "recording"
                  /\ FailActive(cs)[i].st = "failed"
  BY <1>1, <1>5 DEF FailActive, IsLatestActive, Row
<1>6. QED
  BY <1>3, <1>4, <1>5

\* The same of a single row.
LEMMA SetRowProps ==
  ASSUME rows \in Seq(Row), NEW i \in DOMAIN rows, NEW st \in RowStatuses
  PROVE  /\ SetRow(i, st) \in Seq(Row)
         /\ DOMAIN SetRow(i, st) = DOMAIN rows
         /\ SetRow(i, st)[i].st = st
         /\ \A j \in DOMAIN rows : SetRow(i, st)[j].chan = rows[j].chan
         /\ \A j \in DOMAIN rows : j # i => SetRow(i, st)[j] = rows[j]
<1>1. /\ DOMAIN rows = 1 .. Len(rows) /\ Len(rows) \in Nat
      /\ \A j \in DOMAIN rows : rows[j] \in Row
  OBVIOUS
<1>2. \A j \in DOMAIN rows : SetRow(i, st)[j] \in Row
  BY <1>1 DEF SetRow, Row, RowStatuses
<1>3. SetRow(i, st) \in Seq(Row)
  BY <1>1, <1>2 DEF SetRow, Row
<1>4. QED
  BY <1>1, <1>3 DEF SetRow, Row

\* What _finalize_recording finds is a row, and one of the channel's own.
LEMMA RowToFinalizeProps ==
  ASSUME rows \in Seq(Row), NEW c \in Channels, recIds \in [Channels -> Nat],
         IdsAreOpen
  PROVE  /\ RowToFinalize(c) \in Nat
         /\ RowToFinalize(c) # 0 =>
              /\ RowToFinalize(c) \in DOMAIN rows
              /\ rows[RowToFinalize(c)].chan = c
              /\ rows[RowToFinalize(c)].st # "completed"
<1>1. DOMAIN rows = 1 .. Len(rows) /\ Len(rows) \in Nat
  OBVIOUS
<1>2. CASE recIds[c] # 0
  BY <1>1, <1>2 DEF RowToFinalize, IdsAreOpen
<1>3. CASE recIds[c] = 0
  <2> DEFINE found == {i \in DOMAIN rows : rows[i].chan = c /\ IsLatestActive(i)}
  <2>1. CASE found = {}
    BY <1>3, <2>1 DEF RowToFinalize
  <2>2. CASE found # {}
    <3>1. RowToFinalize(c) \in found
      BY <1>3, <2>2 DEF RowToFinalize
    <3>2. QED
      BY <1>1, <3>1 DEF IsLatestActive
  <2>3. QED
    BY <2>1, <2>2
<1>4. QED
  BY <1>2, <1>3

\* A request that was let in is a request about its channel.
LEMMA AdmittedType ==
  ASSUME NEW kind \in JobOps, NEW c \in Channels, NEW old \in Statuses,
         NEW then \in BOOLEAN
  PROVE  /\ Admitted(kind, c, old, then) \in Request
         /\ Admitted(kind, c, old, then).chan = c
         /\ Admitted(kind, c, old, then).pc = "commit" =>
              Admitted(kind, c, old, then).new # "keep"
<1>1. Intent(kind, old) \in Statuses \cup {"keep"}
  BY DEF Intent, JobOps, ControlLists, ControlOps, Statuses, IdleStatuses,
     ActiveStatuses
<1>2. QED
  BY <1>1 DEF Admitted, Request
\* Whatever its place, closing or failing a row leaves a table of rows.
LEMMA SetRowType ==
  ASSUME rows \in Seq(Row), NEW i \in Nat, NEW st \in RowStatuses
  PROVE  SetRow(i, st) \in Seq(Row)
<1>1. CASE i \in DOMAIN rows
  BY <1>1, SetRowProps
<1>2. CASE i \notin DOMAIN rows
  <2>1. SetRow(i, st) = rows
    BY <1>2 DEF SetRow
  <2>2. QED
    BY <2>1
<1>3. QED
  BY <1>1, <1>2

LEMMA RowToFinalizeType ==
  ASSUME rows \in Seq(Row), NEW c \in Channels, recIds \in [Channels -> Nat]
  PROVE  RowToFinalize(c) \in Nat
<1>1. DOMAIN rows = 1 .. Len(rows) /\ Len(rows) \in Nat
  OBVIOUS
<1>2. CASE recIds[c] # 0
  BY <1>2 DEF RowToFinalize
<1>3. CASE recIds[c] = 0
  <2> DEFINE found == {i \in DOMAIN rows : rows[i].chan = c /\ IsLatestActive(i)}
  <2>1. CASE found = {}
    BY <1>3, <2>1 DEF RowToFinalize
  <2>2. CASE found # {}
    <3>1. RowToFinalize(c) \in found
      BY <1>3, <2>2 DEF RowToFinalize
    <3>2. QED
      BY <1>1, <3>1
  <2>3. QED
    BY <2>1, <2>2
<1>4. QED
  BY <1>2, <1>3

-----------------------------------------------------------------------------
(* Type correctness.                                                       *)

LEMMA TypeInvIsTypeOK ==
  TypeInv /\ FrameType => TypeOK
BY DEF TypeInv, FrameType, TypeOK, DbType, RedisType, ReqType, MemType, ThreadType,
       MainType, LeftType

\* A part none of whose variables changes stays as it is.
LEMMA TypeFrames ==
  /\ DbType /\ UNCHANGED dbVars => DbType'
  /\ RedisType /\ UNCHANGED redisVars => RedisType'
  /\ ReqType /\ UNCHANGED req => ReqType'
  /\ MemType /\ UNCHANGED memVars => MemType'
  /\ ThreadType /\ UNCHANGED threadVars => ThreadType'
  /\ MainType /\ UNCHANGED mainVars => MainType'
  /\ LeftType /\ UNCHANGED left => LeftType'
BY DEF DbType, RedisType, ReqType, MemType, ThreadType, MainType, LeftType,
       RequestIsWhole, HandlerHasChannel,
       dbVars, redisVars, memVars, threadVars, mainVars

LEMMA FreeSlotType == FreeSlot \in Request /\ FreeSlot.pc = "free"
BY DEF FreeSlot, Request, JobOps, Statuses, IdleStatuses

\* A slot is taken by a request about a channel, or freed.
LEMMA SetReqType ==
  ASSUME ReqType, NEW r \in Requests, NEW v \in Request, SetReq(r, v),
         v.pc # "free" => v.chan \in Channels,
         v.pc = "commit" => v.new # "keep"
  PROVE  ReqType'
BY DEF ReqType, RequestIsWhole, SetReq

LEMMA PushJobType ==
  ASSUME RedisType, NEW r \in Requests, req[r] \in Request,
         req[r].chan \in Channels, PushJob(r), UNCHANGED postQ
  PROVE  RedisType'
<1>1. CASE req[r].op = "connect"
  <2>1. connectQ' = Append(connectQ, req[r].chan)
    BY <1>1 DEF PushJob
  <2>2. connectQ' \in Seq(Channels)
    BY <2>1 DEF RedisType
  <2>3. QED
    BY <1>1, <2>2 DEF RedisType, PushJob
<1>2. CASE req[r].op # "connect"
  <2>1. req[r].op \in ControlLists
    BY <1>2 DEF Request, JobOps
  <2>2. QED
    BY <1>2, <2>1 DEF RedisType, PushJob
<1>3. QED
  BY <1>1, <1>2

LEMMA SchedulerType ==
  ASSUME TypeInv, SchedulerNext
  PROVE  TypeInv'
<1> USE TypeFrames DEF dbVars, redisVars, memVars, threadVars, mainVars
<1>0. /\ DbType /\ RedisType /\ ReqType /\ MemType /\ ThreadType
      /\ MainType /\ LeftType
  BY DEF TypeInv
<1>1. ASSUME NEW r \in Requests, NEW kind \in JobOps, NEW c \in Channels,
             Accept(r, kind, c)
      PROVE  TypeInv'
  <2>1. status[c] \in Statuses
    BY <1>0 DEF DbType
  <2>2. ReqType'
    BY <1>0, <1>1, <2>1, AdmittedType, SetReqType DEF Accept
  <2>3. LeftType'
    BY <1>0, <1>1 DEF Accept, LeftType
  <2>4. QED
    BY <1>0, <1>1, <2>2, <2>3 DEF Accept, TypeInv
<1>2. ASSUME NEW r \in Requests, NEW c \in Channels, AcceptAutoConnect(r, c)
      PROVE  TypeInv'
  <2>1. ReqType'
    <3>1. "connect" \in JobOps /\ "idle" \in Statuses
      BY DEF JobOps, Statuses, IdleStatuses
    <3>2. QED
      BY <1>0, <1>2, <3>1, AdmittedType, SetReqType DEF AcceptAutoConnect
  <2>2. LeftType'
    BY <1>0, <1>2 DEF AcceptAutoConnect, LeftType
  <2>3. QED
    BY <1>0, <1>2, <2>1, <2>2 DEF AcceptAutoConnect, TypeInv
<1>3. ASSUME NEW r \in Requests, CommitIntent(r)
      PROVE  TypeInv'
  <2>1. req[r] \in Request /\ req[r].chan \in Channels
    BY <1>0, <1>3 DEF CommitIntent, ReqType, RequestIsWhole
  <2>2. DbType'
    BY <1>0, <1>3, <2>1 DEF CommitIntent, DbType, Request, ReqType, RequestIsWhole
  <2>3. ReqType'
    BY <1>0, <1>3, <2>1, SetReqType DEF CommitIntent, Request
  <2>4. QED
    BY <1>0, <1>3, <2>2, <2>3 DEF CommitIntent, TypeInv
<1>4. ASSUME NEW r \in Requests, Publish(r)
      PROVE  TypeInv'
  <2>1. req[r] \in Request /\ req[r].chan \in Channels
    BY <1>0, <1>4 DEF Publish, ReqType, RequestIsWhole
  <2>2. RedisType'
    BY <1>0, <1>4, <2>1, PushJobType DEF Publish
  <2>3. ReqType'
    BY <1>0, <1>4, <2>1, SetReqType, FreeSlotType DEF Publish, Request
  <2>4. QED
    BY <1>0, <1>4, <2>2, <2>3 DEF Publish, TypeInv
<1>5. ASSUME NEW r \in Requests, RefreshAndStart(r)
      PROVE  TypeInv'
  <2>1. req[r] \in Request /\ req[r].chan \in Channels
    BY <1>0, <1>5 DEF RefreshAndStart, ReqType, RequestIsWhole
  <2>2. ReqType'
    <3>1. "start" \in JobOps /\ status[req[r].chan] \in Statuses
      BY <1>0, <2>1 DEF JobOps, ControlLists, ControlOps, DbType
    <3>2. QED
      BY <1>0, <1>5, <2>1, <3>1, AdmittedType, SetReqType, FreeSlotType
      DEF RefreshAndStart
  <2>3. QED
    BY <1>0, <1>5, <2>2 DEF RefreshAndStart, TypeInv
<1>6. ASSUME NEW r \in Requests, NEW queued \in BOOLEAN, PublishFails(r, queued)
      PROVE  TypeInv'
  <2>1. req[r] \in Request /\ req[r].chan \in Channels
    BY <1>0, <1>6 DEF PublishFails, ReqType, RequestIsWhole
  <2>2. RedisType'
    BY <1>0, <1>6, <2>1, PushJobType DEF PublishFails, redisVars
  <2>3. ReqType'
    BY <1>0, <1>6, <2>1, SetReqType, FreeSlotType DEF PublishFails, Request
  <2>4. LeftType'
    BY <1>0, <1>6 DEF PublishFails, LeftType
  <2>5. QED
    BY <1>0, <1>6, <2>2, <2>3, <2>4 DEF PublishFails, TypeInv
<1>7. ASSUME NEW r \in Requests, Undo(r)
      PROVE  TypeInv'
  <2>1. req[r] \in Request /\ req[r].chan \in Channels
    BY <1>0, <1>7 DEF Undo, ReqType, RequestIsWhole
  <2>2. DbType'
    BY <1>0, <1>7, <2>1 DEF Undo, DbType, Request
  <2>3. ReqType'
    BY <1>0, <1>7, SetReqType, FreeSlotType DEF Undo
  <2>4. QED
    BY <1>0, <1>7, <2>2, <2>3 DEF Undo, TypeInv
<1>8. CASE ApiCrash
  <2>1. ReqType'
    BY <1>8, FreeSlotType DEF ApiCrash, ReqType, RequestIsWhole
  <2>2. LeftType'
    BY <1>0, <1>8 DEF ApiCrash, LeftType
  <2>3. QED
    BY <1>0, <1>8, <2>1, <2>2 DEF ApiCrash, TypeInv
<1>9. QED
  BY <1>1, <1>2, <1>3, <1>4, <1>5, <1>6, <1>7, <1>8
  DEF SchedulerNext, RequestStep

\* The shapes in which the worker's actions move the main thread.
LEMMA GotoType ==
  ASSUME MainType, NEW label \in MainPcs, Goto(label),
         label \in HandlerPcs => cur \in Channels
  PROVE  MainType'
BY DEF MainType, Goto, HandlerHasChannel

LEMMA ReturnType ==
  ASSUME MainType, Return
  PROVE  MainType'
BY DEF MainType, Return, HandlerHasChannel, HandlerPcs, MainPcs, JobOps

LEMMA EnterHandlerType ==
  ASSUME MainType, NEW c \in Channels, NEW kind \in JobOps, NEW label \in MainPcs,
         EnterHandler(c, kind, label)
  PROVE  MainType'
BY DEF MainType, EnterHandler, HandlerHasChannel

LEMMA AbortTickType ==
  ASSUME AbortTick
  PROVE  MainType'
BY DEF MainType, AbortTick, NoOps, HandlerHasChannel, HandlerPcs, MainPcs, JobOps

LEMMA ConnectEndsType ==
  ASSUME MainType, NEW c \in Channels, ConnectEnds(c, FALSE),
         UNCHANGED <<finRow, batch>>
  PROVE  MainType'
BY DEF MainType, ConnectEnds, HandlerHasChannel, HandlerPcs, MainPcs, JobOps

LEMMA ForgetType ==
  ASSUME ForgetEverything
  PROVE  MemType' /\ ThreadType' /\ MainType'
<1>1. MemType'
  BY DEF ForgetEverything, MemType
<1>2. ThreadType'
  <2>1. <<>> \in Seq(Channels)
    OBVIOUS
  <2>2. QED
    BY <2>1 DEF ForgetEverything, ThreadType
<1>3. MainType'
  BY DEF ForgetEverything, MainType, NoOps, HandlerHasChannel, HandlerPcs, MainPcs,
         JobOps
<1>4. QED
  BY <1>1, <1>2, <1>3

LEMMA UseFaultType ==
  ASSUME LeftType, UseFault
  PROVE  LeftType'
BY DEF LeftType, UseFault

LEMMA SetStatusType ==
  ASSUME DbType, NEW c \in Channels, NEW s \in Statuses, SetStatus(c, s),
         UNCHANGED <<rows, claimed>>
  PROVE  DbType'
BY DEF DbType, SetStatus

LEMMA SetStatusIfType ==
  ASSUME NEW c \in Channels, NEW s \in Statuses, NEW from,
         status \in [Channels -> Statuses], SetStatusIf(c, from, s)
  PROVE  status' \in [Channels -> Statuses]
BY DEF SetStatusIf

LEMMA TakeConnectJobType ==
  ASSUME ThreadType, TakeConnectJob
  PROVE  ThreadType' /\ Head(idleQ) \in Channels
<1>1. idleQ \in Seq(Channels) /\ idleQ # <<>>
  BY DEF ThreadType, TakeConnectJob
<1>2. Tail(idleQ) \in Seq(Channels) /\ Head(idleQ) \in Channels
  BY <1>1
<1>3. QED
  BY <1>2 DEF ThreadType, TakeConnectJob

\* Start, stop and death of the process, and the connect-jobs thread.
LEMMA ProcessType ==
  ASSUME TypeInv,
         \/ Startup \/ Crash \/ Shutdown \/ Exit
         \/ \E c \in Channels : SessionDies(c)
         \/ PopConnect \/ PopperDies
  PROVE  TypeInv'
<1> USE TypeFrames DEF dbVars, redisVars, memVars, threadVars, mainVars
<1>0. /\ DbType /\ RedisType /\ ReqType /\ MemType /\ ThreadType
      /\ MainType /\ LeftType
  BY DEF TypeInv
<1>1. CASE Startup
  <2>1. DbType'
    <3>1. rows' \in Seq(Row)
      BY <1>0, <1>1, FailActiveProps DEF Startup, DbType
    <3>2. status' \in [Channels -> Statuses]
      BY <1>0, <1>1 DEF Startup, DbType, Statuses, IdleStatuses
    <3>3. QED
      BY <1>0, <1>1, <3>1, <3>2 DEF Startup, DbType, MemType
  <2>2. MainType'
    BY <1>0, <1>1, GotoType DEF Startup, MainPcs, HandlerPcs
  <2>3. ThreadType'
    BY <1>0, <1>1 DEF Startup, ThreadType
  <2>4. QED
    BY <1>0, <1>1, <2>1, <2>2, <2>3 DEF Startup, TypeInv
<1>2. CASE Crash
  <2>1. LeftType'
    BY <1>0, <1>2 DEF Crash, LeftType
  <2>2. QED
    BY <1>0, <1>2, <2>1, ForgetType DEF Crash, TypeInv
<1>3. CASE Shutdown
  <2>1. LeftType'
    BY <1>0, <1>3 DEF Shutdown, LeftType
  <2>2. MainType'
    BY <1>0, <1>3 DEF Shutdown, MainType, MainPcs, HandlerPcs, HandlerHasChannel,
                      ControlLists, ControlOps, JobOps
  <2>3. ThreadType'
    BY <1>0, <1>3 DEF Shutdown, ThreadType
  <2>4. QED
    BY <1>0, <1>3, <2>1, <2>2, <2>3 DEF Shutdown, TypeInv
<1>4. CASE Exit
  BY <1>0, <1>4, ForgetType DEF Exit, TypeInv
<1>5. ASSUME NEW c \in Channels, SessionDies(c)
      PROVE  TypeInv'
  <2>1. LeftType' /\ MemType'
    BY <1>0, <1>5 DEF SessionDies, LeftType, MemType
  <2>2. QED
    BY <1>0, <1>5, <2>1 DEF SessionDies, TypeInv
<1>6. CASE PopConnect
  <2>1. connectQ' \in Seq(Channels) /\ idleQ' \in Seq(Channels)
    BY <1>0, <1>6 DEF PopConnect, RedisType, ThreadType
  <2>2. RedisType' /\ ThreadType'
    BY <1>0, <1>6, <2>1 DEF PopConnect, RedisType, ThreadType
  <2>3. QED
    BY <1>0, <1>6, <2>2 DEF PopConnect, TypeInv
<1>7. CASE PopperDies
  <2>1. connectQ' \in Seq(Channels)
    <3>1. \/ connectQ' = connectQ
          \/ connectQ # <<>> /\ connectQ' = Tail(connectQ)
      BY <1>7 DEF PopperDies
    <3>2. connectQ \in Seq(Channels)
      BY <1>0 DEF RedisType
    <3>3. QED
      BY <3>1, <3>2
  <2>2. RedisType'
    BY <1>0, <1>7, <2>1 DEF PopperDies, RedisType
  <2>3. ThreadType'
    BY <1>0, <1>7 DEF PopperDies, ThreadType
  <2>4. LeftType'
    BY <1>0, <1>7, UseFaultType DEF PopperDies
  <2>5. QED
    BY <1>0, <1>7, <2>2, <2>3, <2>4 DEF PopperDies, TypeInv
<1>8. QED
  BY <1>1, <1>2, <1>3, <1>4, <1>5, <1>6, <1>7

\* The tick, and the control handlers up to the finalisation.
LEMMA TickType ==
  ASSUME TypeInv,
         \/ Heartbeat \/ Drain \/ DrainFails \/ ApplyDone
         \/ \E c \in Channels :
              BeginDisconnect(c) \/ BeginStop(c) \/ StopWithoutSession(c) \/ BeginStart(c)
  PROVE  TypeInv'
<1> USE TypeFrames DEF dbVars, redisVars, memVars, threadVars, mainVars
<1>0. /\ DbType /\ RedisType /\ ReqType /\ MemType /\ ThreadType
      /\ MainType /\ LeftType
  BY DEF TypeInv
<1>1. CASE Heartbeat
  <2>1. DbType'
    <3>1. rows' \in Seq(Row)
      BY <1>0, <1>1, FailActiveProps DEF Heartbeat, DbType
    <3>2. status' \in [Channels -> Statuses]
      BY <1>0, <1>1 DEF Heartbeat, DbType, Statuses, IdleStatuses
    <3>3. QED
      BY <1>0, <1>1, <3>1, <3>2 DEF Heartbeat, DbType, MemType
  <2>2. MemType'
    BY <1>0, <1>1 DEF Heartbeat, MemType
  <2>3. MainType'
    BY <1>0, <1>1, GotoType DEF Heartbeat, MainPcs, HandlerPcs
  <2>4. QED
    BY <1>0, <1>1, <2>1, <2>2, <2>3 DEF Heartbeat, TypeInv
<1>2. CASE Drain
  <2>1. /\ DrainSteps[pc].kind \in ControlLists
        /\ DrainSteps[pc].next \in MainPcs \ HandlerPcs
    BY <1>2 DEF Drain, DrainSteps, ControlLists, ControlOps, MainPcs, HandlerPcs
  <2>2. MainType'
    BY <1>0, <1>2, <2>1 DEF Drain, MainType, HandlerHasChannel
  <2>3. RedisType'
    BY <1>0, <1>2, <2>1 DEF Drain, RedisType
  <2>4. QED
    BY <1>0, <1>2, <2>2, <2>3 DEF Drain, TypeInv
<1>3. CASE DrainFails
  <2>1. RedisType'
    BY <1>0, <1>3 DEF DrainFails, RedisType
  <2>2. QED
    BY <1>0, <1>3, <2>1, AbortTickType, UseFaultType DEF DrainFails, TypeInv
<1>4. CASE ApplyDone
  <2>1. MainType'
    BY <1>0, <1>4, GotoType DEF ApplyDone, MainPcs, HandlerPcs
  <2>2. QED
    BY <1>0, <1>4, <2>1 DEF ApplyDone, TypeInv
<1>5. ASSUME NEW c \in Channels, BeginDisconnect(c)
      PROVE  TypeInv'
  <2>1. MemType'
    BY <1>0, <1>5 DEF BeginDisconnect, MemType
  <2>2. MainType'
    BY <1>0, <1>5, EnterHandlerType DEF BeginDisconnect, MainPcs, JobOps, ControlLists,
       ControlOps
  <2>3. QED
    BY <1>0, <1>5, <2>1, <2>2 DEF BeginDisconnect, TypeInv
<1>6. ASSUME NEW c \in Channels, BeginStop(c)
      PROVE  TypeInv'
  <2>1. MemType'
    BY <1>0, <1>6 DEF BeginStop, MemType
  <2>2. MainType'
    BY <1>0, <1>6, EnterHandlerType
    DEF BeginStop, FinalizeLabel, MainPcs, JobOps, ControlLists, ControlOps
  <2>3. QED
    BY <1>0, <1>6, <2>1, <2>2 DEF BeginStop, TypeInv
<1>7. ASSUME NEW c \in Channels, StopWithoutSession(c)
      PROVE  TypeInv'
  <2>1. DbType'
    <3>1. rows' \in Seq(Row)
      BY <1>0, <1>7, FailActiveProps DEF StopWithoutSession, DbType
    <3>2. status' \in [Channels -> Statuses]
      BY <1>0, <1>7, SetStatusIfType
      DEF StopWithoutSession, DbType, Statuses, IdleStatuses
    <3>3. QED
      BY <1>0, <1>7, <3>1, <3>2 DEF StopWithoutSession, DbType
  <2>2. MemType'
    BY <1>0, <1>7 DEF StopWithoutSession, MemType
  <2>3. MainType'
    BY <1>0, <1>7 DEF StopWithoutSession, MainType, HandlerHasChannel
  <2>4. QED
    BY <1>0, <1>7, <2>1, <2>2, <2>3 DEF StopWithoutSession, TypeInv
<1>8. ASSUME NEW c \in Channels, BeginStart(c)
      PROVE  TypeInv'
  <2>1. MainType'
    BY <1>0, <1>8, EnterHandlerType DEF BeginStart, MainPcs, JobOps, ControlLists,
       ControlOps
  <2>2. QED
    BY <1>0, <1>8, <2>1 DEF BeginStart, TypeInv
<1>9. QED
  BY <1>1, <1>2, <1>3, <1>4, <1>5, <1>6, <1>7, <1>8

\* From the finalisation of a recording to the end of its handler.
LEMMA FinalizeType ==
  ASSUME TypeInv,
         \/ StopCapture \/ CloseRow \/ Announce
         \/ \E queued \in BOOLEAN : AnnounceFails(queued)
         \/ Teardown \/ MarkIdle \/ MarkStopped
  PROVE  TypeInv'
<1> USE TypeFrames DEF dbVars, redisVars, memVars, threadVars, mainVars
<1>0. /\ DbType /\ RedisType /\ ReqType /\ MemType /\ ThreadType
      /\ MainType /\ LeftType
  BY DEF TypeInv
<1>1. CASE StopCapture
  <2>1. cur \in Channels
    BY <1>0, <1>1 DEF StopCapture, MainType, HandlerHasChannel, HandlerPcs
  <2>2. MemType'
    BY <1>0, <1>1 DEF StopCapture, MemType
  <2>3. MainType'
    BY <1>0, <1>1, <2>1, GotoType DEF StopCapture, MainPcs
  <2>4. QED
    BY <1>0, <1>1, <2>2, <2>3 DEF StopCapture, TypeInv
<1>2. CASE CloseRow
  <2>1. cur \in Channels
    BY <1>0, <1>2 DEF CloseRow, MainType, HandlerHasChannel, HandlerPcs
  <2>2. RowToFinalize(cur) \in Nat
    BY <1>0, <2>1, RowToFinalizeType DEF DbType, MemType
  <2>3. DbType'
    <3>1. rows' = rows \/ rows' = SetRow(RowToFinalize(cur), "completed")
      BY <1>2 DEF CloseRow
    <3>2. SetRow(RowToFinalize(cur), "completed") \in Seq(Row)
      BY <1>0, <2>2, SetRowType DEF DbType, RowStatuses
    <3>3. QED
      BY <1>0, <1>2, <3>1, <3>2 DEF CloseRow, DbType
  <2>4. MemType'
    BY <1>0, <1>2 DEF CloseRow, MemType
  <2>5. MainType'
    <3>1. CASE RowToFinalize(cur) = 0
      BY <1>0, <1>2, <2>1, <3>1, GotoType DEF CloseRow, AfterFinalize, MainPcs
    <3>2. CASE RowToFinalize(cur) # 0
      BY <1>0, <1>2, <2>1, <2>2, <3>2
      DEF CloseRow, MainType, MainPcs, HandlerHasChannel
    <3>3. QED
      BY <3>1, <3>2
  <2>6. QED
    BY <1>0, <1>2, <2>3, <2>4, <2>5 DEF CloseRow, TypeInv
<1>3. CASE Announce
  <2>1. cur \in Channels /\ finRow \in Nat
    BY <1>0, <1>3 DEF Announce, MainType, HandlerHasChannel, HandlerPcs
  <2>2. RedisType'
    BY <1>0, <1>3, <2>1 DEF Announce, RedisType
  <2>3. MainType'
    BY <1>0, <1>3, <2>1
    DEF Announce, AfterFinalize, MainType, MainPcs, HandlerHasChannel
  <2>4. QED
    BY <1>0, <1>3, <2>2, <2>3 DEF Announce, TypeInv
<1>4. ASSUME NEW queued \in BOOLEAN, AnnounceFails(queued)
      PROVE  TypeInv'
  <2>1. cur \in Channels /\ finRow \in Nat
    BY <1>0, <1>4 DEF AnnounceFails, MainType, HandlerHasChannel, HandlerPcs
  <2>2. RedisType'
    BY <1>0, <1>4, <2>1 DEF AnnounceFails, RedisType
  <2>3. MemType'
    BY <1>0, <1>4, <2>1 DEF AnnounceFails, MemType
  <2>4. QED
    BY <1>0, <1>4, <2>2, <2>3, AbortTickType, UseFaultType
    DEF AnnounceFails, TypeInv
<1>5. CASE Teardown
  <2>1. cur \in Channels
    BY <1>0, <1>5 DEF Teardown, MainType, HandlerHasChannel, HandlerPcs
  <2>2. MemType'
    BY <1>0, <1>5 DEF Teardown, MemType
  <2>3. MainType'
    BY <1>0, <1>5, <2>1, GotoType DEF Teardown, MainPcs
  <2>4. QED
    BY <1>0, <1>5, <2>2, <2>3 DEF Teardown, TypeInv
<1>6. CASE MarkIdle
  <2>1. cur \in Channels
    BY <1>0, <1>6 DEF MarkIdle, MainType, HandlerHasChannel, HandlerPcs
  <2>2. DbType'
    BY <1>0, <1>6, <2>1, SetStatusIfType DEF MarkIdle, DbType, Statuses, IdleStatuses
  <2>3. QED
    BY <1>0, <1>6, <2>2, ReturnType DEF MarkIdle, TypeInv
<1>7. CASE MarkStopped
  <2>1. cur \in Channels
    BY <1>0, <1>7 DEF MarkStopped, MainType, HandlerHasChannel, HandlerPcs
  <2>2. DbType'
    BY <1>0, <1>7, <2>1, SetStatusType
    DEF MarkStopped, Statuses, IdleStatuses, ActiveStatuses
  <2>3. QED
    BY <1>0, <1>7, <2>2, ReturnType DEF MarkStopped, TypeInv
<1>8. QED
  BY <1>1, <1>2, <1>3, <1>4, <1>5, <1>6, <1>7

\* The start of a recording.
LEMMA StartType ==
  ASSUME TypeInv,
         DeferStart \/ AlreadyRecording \/ OpenRow \/ OpenCapture \/ OpenCaptureFails
  PROVE  TypeInv'
<1> USE TypeFrames DEF dbVars, redisVars, memVars, threadVars, mainVars
<1>0. /\ DbType /\ RedisType /\ ReqType /\ MemType /\ ThreadType
      /\ MainType /\ LeftType
  BY DEF TypeInv
<1>1. CASE DeferStart
  <2>1. MemType'
    BY <1>0, <1>1
    DEF DeferStart, MemType, MainType, HandlerHasChannel, HandlerPcs
  <2>2. QED
    BY <1>0, <1>1, <2>1, ReturnType DEF DeferStart, TypeInv
<1>2. CASE AlreadyRecording
  <2>1. MemType'
    BY <1>0, <1>2 DEF AlreadyRecording, MemType
  <2>2. QED
    BY <1>0, <1>2, <2>1, ReturnType DEF AlreadyRecording, TypeInv
<1>3. CASE OpenRow
  <2>1. cur \in Channels
    BY <1>0, <1>3 DEF OpenRow, MainType, HandlerHasChannel, HandlerPcs
  <2>2. DbType'
    <3>1. [chan |-> cur, st |-> "recording"] \in Row
      BY <2>1 DEF Row, RowStatuses
    <3>2. rows' \in Seq(Row)
      BY <1>0, <1>3, <3>1 DEF OpenRow, DbType
    <3>3. status' \in [Channels -> Statuses]
      BY <1>0, <1>3 DEF OpenRow, SetStatus, DbType, Statuses, ActiveStatuses
    <3>4. QED
      BY <1>0, <1>3, <3>2, <3>3 DEF OpenRow, DbType
  <2>3. MemType'
    <3>1. Len(rows) + 1 \in Nat
      BY <1>0 DEF DbType
    <3>2. QED
      BY <1>0, <1>3, <3>1 DEF OpenRow, MemType
  <2>4. MainType'
    BY <1>0, <1>3, <2>1, GotoType DEF OpenRow, MainPcs
  <2>5. QED
    BY <1>0, <1>3, <2>2, <2>3, <2>4 DEF OpenRow, TypeInv
<1>4. CASE OpenCapture
  <2>1. MemType'
    BY <1>0, <1>4 DEF OpenCapture, MemType
  <2>2. QED
    BY <1>0, <1>4, <2>1, ReturnType DEF OpenCapture, TypeInv
<1>5. CASE OpenCaptureFails
  <2>1. cur \in Channels
    BY <1>0, <1>5 DEF OpenCaptureFails, MainType, HandlerHasChannel, HandlerPcs
  <2>2. DbType'
    <3>1. SetRow(recIds[cur], "failed") \in Seq(Row)
      BY <1>0, <2>1, SetRowType DEF DbType, MemType, RowStatuses
    <3>2. rows' \in Seq(Row)
      BY <1>0, <1>5, <3>1 DEF OpenCaptureFails, DbType
    <3>3. status' \in [Channels -> Statuses]
      BY <1>0, <1>5
      DEF OpenCaptureFails, SetStatus, DbType, Statuses, ActiveStatuses, IdleStatuses
    <3>4. QED
      BY <1>0, <1>5, <3>2, <3>3 DEF OpenCaptureFails, DbType
  <2>3. MemType'
    BY <1>0, <1>5 DEF OpenCaptureFails, MemType
  <2>4. QED
    BY <1>0, <1>5, <2>2, <2>3, ReturnType DEF OpenCaptureFails, TypeInv
<1>6. QED
  BY <1>1, <1>2, <1>3, <1>4, <1>5

\* The idle callback that connects a channel.
LEMMA ConnectType ==
  ASSUME TypeInv,
         \/ \E c \in Channels : ConnectJob(c)
         \/ ConnectSucceeds \/ ConnectFails
  PROVE  TypeInv'
<1> USE TypeFrames DEF dbVars, redisVars, memVars, threadVars, mainVars
<1>0. /\ DbType /\ RedisType /\ ReqType /\ MemType /\ ThreadType
      /\ MainType /\ LeftType
  BY DEF TypeInv
<1>1. ASSUME NEW c \in Channels, AlreadyConnected(c)
      PROVE  TypeInv'
  <2>1. DbType'
    BY <1>0, <1>1, SetStatusIfType
    DEF AlreadyConnected, TakeConnectJob, DbType, Statuses, ActiveStatuses
  <2>2. MainType'
    BY <1>0, <1>1
    DEF AlreadyConnected, TakeConnectJob, ConnectEnds, MainType, HandlerHasChannel,
        HandlerPcs, MainPcs, JobOps
  <2>3. QED
    BY <1>0, <1>1, <2>1, <2>2, TakeConnectJobType
    DEF AlreadyConnected, TakeConnectJob, TypeInv
<1>2. ASSUME NEW c \in Channels, AtCapacity(c)
      PROVE  TypeInv'
  <2>1. DbType'
    BY <1>0, <1>2, SetStatusIfType
    DEF AtCapacity, TakeConnectJob, DbType, Statuses, IdleStatuses
  <2>2. MainType'
    BY <1>0, <1>2, ConnectEndsType DEF AtCapacity, TakeConnectJob
  <2>3. QED
    BY <1>0, <1>2, <2>1, <2>2, TakeConnectJobType
    DEF AtCapacity, TakeConnectJob, TypeInv
<1>3. ASSUME NEW c \in Channels, BeginConnect(c)
      PROVE  TypeInv'
  <2>1. DbType'
    BY <1>0, <1>3 DEF BeginConnect, TakeConnectJob, DbType
  <2>2. MainType'
    BY <1>0, <1>3
    DEF BeginConnect, TakeConnectJob, MainType, MainPcs, JobOps, HandlerHasChannel
  <2>3. QED
    BY <1>0, <1>3, <2>1, <2>2, TakeConnectJobType
    DEF BeginConnect, TakeConnectJob, TypeInv
<1>4. CASE ConnectSucceeds
  <2>1. cur \in Channels
    BY <1>0, <1>4 DEF ConnectSucceeds, MainType, HandlerHasChannel, HandlerPcs
  <2>2. DbType'
    BY <1>0, <1>4, <2>1, SetStatusIfType
    DEF ConnectSucceeds, DbType, Statuses, ActiveStatuses
  <2>3. MemType'
    BY <1>0, <1>4, <2>1 DEF ConnectSucceeds, MemType
  <2>4. MainType'
    BY <1>0, <1>4, <2>1
    DEF ConnectSucceeds, ConnectEnds, MainType, HandlerHasChannel, HandlerPcs, MainPcs,
        JobOps
  <2>5. QED
    BY <1>0, <1>4, <2>2, <2>3, <2>4 DEF ConnectSucceeds, TypeInv
<1>5. CASE ConnectFails
  <2>1. cur \in Channels
    BY <1>0, <1>5 DEF ConnectFails, MainType, HandlerHasChannel, HandlerPcs
  <2>2. DbType'
    BY <1>0, <1>5, <2>1, SetStatusType DEF ConnectFails, Statuses, IdleStatuses
  <2>3. MainType'
    BY <1>0, <1>5, <2>1, ConnectEndsType DEF ConnectFails
  <2>4. QED
    BY <1>0, <1>5, <2>2, <2>3 DEF ConnectFails, TypeInv
<1>6. QED
  BY <1>1, <1>2, <1>3, <1>4, <1>5 DEF ConnectJob

LEMMA NoFrameType == NoFrame \in Frame /\ NoFrame.pc = "down"
BY DEF NoFrame, Frame, NoOps, MainPcs, JobOps

LEMMA TypeInitially == Init => TypeInv /\ FrameType
<1> SUFFICES ASSUME Init
             PROVE  TypeInv /\ FrameType
  OBVIOUS
<1>1. DbType
  BY DEF Init, DbType, Statuses, IdleStatuses
<1>2. RedisType
  BY DEF Init, RedisType
<1>3. ReqType
  BY FreeSlotType DEF Init, ReqType, RequestIsWhole
<1>4. MemType
  BY DEF Init, MemType
<1>5. ThreadType
  <2>1. <<>> \in Seq(Channels)
    OBVIOUS
  <2>2. QED
    BY <2>1 DEF Init, ThreadType
<1>6. MainType
  BY DEF Init, MainType, NoOps, MainPcs, HandlerPcs, HandlerHasChannel, JobOps
<1>7. LeftType
  BY BoundAssumption DEF Init, LeftType
<1>8. FrameType
  BY NoFrameType DEF Init, FrameType, HandlerPcs
<1>9. QED
  BY <1>1, <1>2, <1>3, <1>4, <1>5, <1>6, <1>7, <1>8 DEF TypeInv

\* The frame is written by SIGTERM and given up when the main thread leaves
\* what it was doing.
LEMMA FrameMoves ==
  ASSUME [Next]_vars
  PROVE  Shutdown \/ frame' = NoFrame \/ UNCHANGED frame
<1> USE DEF dbVars, redisVars, memVars, threadVars, mainVars
<1>1. CASE UNCHANGED vars
  BY <1>1 DEF vars
<1>2. CASE SchedulerNext
  BY <1>2
  DEF SchedulerNext, RequestStep, Accept, AcceptAutoConnect, CommitIntent, Publish,
      RefreshAndStart, PublishFails, Undo, ApiCrash
<1>3. CASE \/ Startup \/ Exit \/ Crash \/ (\E c \in Channels : SessionDies(c))
           \/ PopConnect \/ PopperDies \/ Heartbeat
  BY <1>3
  DEF Startup, Exit, Crash, SessionDies, PopConnect, PopperDies, Heartbeat,
      ForgetEverything, Goto
<1>4. CASE \/ Drain \/ DrainFails \/ ApplyDone \/ Resume
           \/ \E c \in Channels :
                BeginDisconnect(c) \/ BeginStop(c) \/ StopWithoutSession(c)
                \/ BeginStart(c)
  BY <1>4
  DEF Drain, DrainFails, ApplyDone, Resume, BeginDisconnect, BeginStop,
      StopWithoutSession, BeginStart, EnterHandler, AbortTick, Goto
<1>5. CASE \/ StopCapture \/ CloseRow \/ Announce
           \/ (\E queued \in BOOLEAN : AnnounceFails(queued))
           \/ Teardown \/ MarkIdle \/ MarkStopped
  BY <1>5
  DEF StopCapture, CloseRow, Announce, AnnounceFails, Teardown, MarkIdle, MarkStopped,
      AbortTick, Goto, Return
<1>6. CASE DeferStart \/ AlreadyRecording \/ OpenRow \/ OpenCapture \/ OpenCaptureFails
  BY <1>6
  DEF DeferStart, AlreadyRecording, OpenRow, OpenCapture, OpenCaptureFails, Goto,
      Return
<1>7. CASE (\E c \in Channels : ConnectJob(c)) \/ ConnectSucceeds \/ ConnectFails
  BY <1>7
  DEF ConnectJob, AlreadyConnected, AtCapacity, BeginConnect, TakeConnectJob,
      ConnectSucceeds, ConnectFails
<1>8. QED
  BY <1>1, <1>2, <1>3, <1>4, <1>5, <1>6, <1>7
  DEF Next, WorkerNext, HandlerStep, WorkerFault

LEMMA FrameStep == TypeInv /\ FrameType /\ [Next]_vars => FrameType'
<1> SUFFICES ASSUME TypeInv, FrameType, [Next]_vars
             PROVE  FrameType'
  OBVIOUS
<1>1. CASE Shutdown
  BY <1>1 DEF Shutdown, TypeInv, MainType, HandlerHasChannel, FrameType, Frame
<1>2. CASE frame' = NoFrame
  BY <1>2, NoFrameType DEF FrameType, HandlerPcs
<1>3. CASE UNCHANGED frame
  BY <1>3 DEF FrameType
<1>4. QED
  BY <1>1, <1>2, <1>3, FrameMoves

LEMMA ResumeType ==
  ASSUME TypeInv, FrameType, Resume
  PROVE  TypeInv'
<1>1. MainType'
  BY DEF Resume, FrameType, Frame, MainType, HandlerHasChannel
<1>2. QED
  BY <1>1, TypeFrames DEF Resume, TypeInv

LEMMA TypeStep == TypeInv /\ FrameType /\ [Next]_vars => TypeInv' /\ FrameType'
<1> SUFFICES ASSUME TypeInv, FrameType, [Next]_vars
             PROVE  TypeInv'
  BY FrameStep
<1>1. CASE UNCHANGED vars
  BY <1>1, TypeFrames DEF vars, TypeInv
<1>2. CASE SchedulerNext
  BY <1>2, SchedulerType
<1>3. CASE WorkerNext
  BY <1>3, ProcessType, TickType, FinalizeType, StartType, ConnectType, ResumeType
  DEF WorkerNext, HandlerStep, WorkerFault
<1>4. QED
  BY <1>1, <1>2, <1>3 DEF Next

\* Every variable keeps to its type: no handler writes a status, a row or a
\* job that the rest of the system does not know.
THEOREM TypeCorrect == Spec => []TypeOK
<1>1. TypeInv /\ FrameType => TypeOK
  BY TypeInvIsTypeOK
<1>2. QED
  BY <1>1, TypeInitially, TypeStep, PTL DEF Spec

-----------------------------------------------------------------------------
(* The catalogue invariant.                                                *)

\* Steps that touch none of its variables.
LEMMA CatalogueFrame ==
  ASSUME CatalogueInv,
         UNCHANGED <<rows, postQ, registered, capturing, recIds, pc, cur, op, finRow,
                     frame>>
  PROVE  CatalogueInv'
<1> USE DEF CatalogueInv
<1>1. DownHasNothing' /\ CaptureIsOwned'
  BY DEF DownHasNothing, CaptureIsOwned
<1>2. IdsAreOpen' /\ CaptureIsCatalogued'
  BY DEF IdsAreOpen, CaptureIsCatalogued
<1>3. StartInHand' /\ ClosingIsStopped' /\ AnnouncementIsDue' /\ JobsAreCompleted'
  BY DEF StartInHand, ClosingIsStopped, AnnouncementIsDue, JobsAreCompleted
<1>4. QED
  BY <1>1, <1>2, <1>3

\* The labels that some conjunct of the invariant is about.
GuardedPcs == {"down", "stopCapture", "openCapture", "closeRow", "announce"}

\* Steps of the main thread between other labels, sessions and rows untouched.
LEMMA CatalogueMoves ==
  ASSUME CatalogueInv, pc \notin GuardedPcs, pc' \notin GuardedPcs,
         frame' = frame \/ frame.pc = "down",
         UNCHANGED <<rows, postQ, registered, capturing, recIds>>
  PROVE  CatalogueInv'
<1> USE DEF CatalogueInv, GuardedPcs
<1>1. DownHasNothing' /\ CaptureIsOwned'
  BY DEF DownHasNothing, CaptureIsOwned
<1>2. IdsAreOpen' /\ CaptureIsCatalogued'
  BY DEF IdsAreOpen, CaptureIsCatalogued
<1>3. StartInHand' /\ ClosingIsStopped' /\ AnnouncementIsDue' /\ JobsAreCompleted'
  BY DEF StartInHand, ClosingIsStopped, AnnouncementIsDue, JobsAreCompleted
<1>4. QED
  BY <1>1, <1>2, <1>3

\* Giving up the active rows of channels that do not capture any more.
LEMMA CatalogueGivesUp ==
  ASSUME IInv, NEW cs, rows' = FailActive(cs), UNCHANGED postQ,
         \A c \in Channels : capturing'[c] =>
           capturing[c] /\ c \notin cs /\ recIds'[c] = recIds[c],
         \A c \in Channels : recIds'[c] # 0 => recIds'[c] = recIds[c]
  PROVE  IdsAreOpen' /\ CaptureIsCatalogued' /\ JobsAreCompleted'
<1>1. rows \in Seq(Row)
  BY DEF IInv, TypeInv, DbType
<1>2. /\ rows' \in Seq(Row)
      /\ DOMAIN rows' = DOMAIN rows
      /\ \A i \in DOMAIN rows :
           /\ rows'[i].chan = rows[i].chan
           /\ rows'[i].st # rows[i].st =>
                /\ rows[i].chan \in cs
                /\ rows[i].st = "recording"
                /\ rows'[i].st = "failed"
  BY <1>1, FailActiveProps
<1>3. IdsAreOpen'
  BY <1>2 DEF IInv, CatalogueInv, IdsAreOpen
<1>4. CaptureIsCatalogued'
  <2>1. SUFFICES ASSUME NEW c \in Channels, capturing'[c]
                 PROVE  /\ recIds'[c] \in DOMAIN rows'
                        /\ rows'[recIds'[c]] = [chan |-> c, st |-> "recording"]
    BY DEF CaptureIsCatalogued
  <2>2. /\ recIds[c] \in DOMAIN rows
        /\ rows[recIds[c]].chan = c /\ rows[recIds[c]].st = "recording"
        /\ c \notin cs
        /\ recIds'[c] = recIds[c]
    <3>1. capturing[c] /\ c \notin cs /\ recIds'[c] = recIds[c]
      BY <2>1
    <3>2. rows[recIds[c]] = [chan |-> c, st |-> "recording"]
      BY <3>1 DEF IInv, CatalogueInv, CaptureIsCatalogued
    <3>3. QED
      BY <3>1, <3>2 DEF IInv, CatalogueInv, CaptureIsCatalogued
  <2>3. rows'[recIds[c]].chan = c /\ rows'[recIds[c]].st = "recording"
    BY <1>2, <2>2
  <2>4. rows'[recIds[c]] \in Row
    BY <1>2, <2>2
  <2>5. QED
    BY <1>2, <2>2, <2>3, <2>4 DEF Row
<1>5. JobsAreCompleted'
  BY <1>2 DEF IInv, CatalogueInv, JobsAreCompleted
<1>6. QED
  BY <1>3, <1>4, <1>5

\* Closing or failing row i of channel c while c does not capture: it
\* disturbs no other channel, and no job when the row was not completed.
LEMMA CatalogueSetsRow ==
  ASSUME IInv, NEW c \in Channels, NEW i \in DOMAIN rows,
         NEW st \in {"completed", "failed"},
         rows[i].chan = c, rows[i].st # "completed", ~capturing[c],
         rows' = SetRow(i, st), recIds' = [recIds EXCEPT ![c] = 0],
         UNCHANGED <<postQ, capturing>>
  PROVE  IdsAreOpen' /\ CaptureIsCatalogued' /\ JobsAreCompleted'
<1>1. rows \in Seq(Row) /\ recIds \in [Channels -> Nat]
  BY DEF IInv, TypeInv, DbType, MemType
<1>2. /\ DOMAIN rows' = DOMAIN rows
      /\ rows'[i].st = st
      /\ \A j \in DOMAIN rows : rows'[j].chan = rows[j].chan
      /\ \A j \in DOMAIN rows : j # i => rows'[j] = rows[j]
  BY <1>1, SetRowProps DEF RowStatuses
<1>3. IdsAreOpen'
  BY <1>1, <1>2, SMTT(20) DEF IInv, CatalogueInv, IdsAreOpen
<1>4. CaptureIsCatalogued'
  <2>1. SUFFICES ASSUME NEW d \in Channels, capturing'[d]
                 PROVE  /\ recIds'[d] \in DOMAIN rows'
                        /\ rows'[recIds'[d]] = [chan |-> d, st |-> "recording"]
    BY DEF CaptureIsCatalogued
  <2>2. /\ d # c
        /\ recIds[d] \in DOMAIN rows
        /\ rows[recIds[d]] = [chan |-> d, st |-> "recording"]
    <3>1. capturing[d]
      BY <2>1
    <3>2. QED
      BY <3>1 DEF IInv, CatalogueInv, CaptureIsCatalogued
  <2>3. recIds'[d] = recIds[d] /\ recIds[d] # i
    BY <1>1, <2>2
  <2>4. QED
    BY <1>2, <2>2, <2>3
<1>5. JobsAreCompleted'
  BY <1>2 DEF IInv, CatalogueInv, JobsAreCompleted
<1>6. QED
  BY <1>3, <1>4, <1>5

\* A stopped process remembers nothing.
LEMMA CatalogueForgets ==
  ASSUME IInv, ForgetEverything, UNCHANGED <<rows, postQ>>
  PROVE  CatalogueInv'
<1>1. DownHasNothing' /\ CaptureIsOwned' /\ CaptureIsCatalogued'
  BY DEF ForgetEverything, DownHasNothing, CaptureIsOwned, CaptureIsCatalogued
<1>2. IdsAreOpen' /\ JobsAreCompleted'
  BY DEF ForgetEverything, IdsAreOpen, JobsAreCompleted, IInv, CatalogueInv
<1>3. StartInHand' /\ ClosingIsStopped' /\ AnnouncementIsDue'
  BY DEF ForgetEverything, StartInHand, ClosingIsStopped, AnnouncementIsDue
<1>4. QED
  BY <1>1, <1>2, <1>3 DEF CatalogueInv

\* At a label where no signal handler can be, none is running.
LEMMA NestedPlace ==
  ASSUME NestedInv, pc \notin NestedPcs
  PROVE  frame.pc = "down"
BY DEF NestedInv, OnlyDisconnects

\* A stop or a start is not applied by a signal handler.
LEMMA NestedBatch ==
  ASSUME NestedInv, TypeInv, NEW c \in Channels, batch[c] # {},
         Resolve(c) # "disconnect"
  PROVE  frame.pc = "down"
BY DEF NestedInv, OnlyDisconnects, Resolve

\* Start, stop and death of the process, and the connect-jobs thread.
LEMMA ProcessCatalogue ==
  ASSUME IInv,
         \/ Startup \/ Crash \/ Shutdown \/ Exit
         \/ \E c \in Channels : SessionDies(c)
         \/ PopConnect \/ PopperDies
  PROVE  CatalogueInv'
<1> USE DEF IInv, dbVars, redisVars, memVars, threadVars, mainVars
<1>1. CASE Startup
  <2>1. /\ pc = "down" /\ pc' = "loop"
        /\ UNCHANGED <<postQ, registered, capturing, recIds>>
    BY <1>1 DEF Startup, Goto
  <2>2. \A c \in Channels : ~capturing[c]
    <3>1. frame.pc = "down"
      BY <2>1, NestedPlace DEF NestedPcs
    <3>2. QED
      BY <2>1, <3>1 DEF CatalogueInv, DownHasNothing, CaptureIsOwned
  <2>3. IdsAreOpen' /\ CaptureIsCatalogued' /\ JobsAreCompleted'
    <3> DEFINE cs == {c \in claimed \ registered : status[c] \in ActiveStatuses}
    <3>1. rows' = FailActive(cs)
      BY <1>1 DEF Startup
    <3> HIDE DEF cs
    <3>2. QED
      BY <2>1, <2>2, <3>1, CatalogueGivesUp
  <2>4. DownHasNothing' /\ CaptureIsOwned'
    BY <2>1, <2>2 DEF DownHasNothing, CaptureIsOwned
  <2>5. StartInHand' /\ ClosingIsStopped' /\ AnnouncementIsDue'
    BY <2>1 DEF StartInHand, ClosingIsStopped, AnnouncementIsDue
  <2>6. QED
    BY <2>3, <2>4, <2>5 DEF CatalogueInv
<1>2. CASE Crash
  BY <1>2, CatalogueForgets DEF Crash
<1>3. CASE Shutdown
  <2>1. /\ pc # "down" /\ pc' = "apply" /\ running
        /\ frame'.pc = pc /\ frame'.op = op /\ frame'.cur = cur
        /\ UNCHANGED <<rows, postQ, registered, capturing, recIds>>
    BY <1>3 DEF Shutdown
  <2>2. frame.pc = "down"
    BY <2>1 DEF NestedInv, OnlyDisconnects
  <2>3. DownHasNothing' /\ CaptureIsOwned'
    BY <2>1, <2>2 DEF CatalogueInv, DownHasNothing, CaptureIsOwned
  <2>4. IdsAreOpen' /\ CaptureIsCatalogued' /\ JobsAreCompleted'
    BY <2>1 DEF CatalogueInv, IdsAreOpen, CaptureIsCatalogued, JobsAreCompleted
  <2>5. StartInHand' /\ ClosingIsStopped' /\ AnnouncementIsDue'
    BY <2>1 DEF StartInHand, ClosingIsStopped, AnnouncementIsDue
  <2>6. QED
    BY <2>3, <2>4, <2>5 DEF CatalogueInv
<1>4. CASE Exit
  BY <1>4, CatalogueForgets DEF Exit
<1>5. ASSUME NEW c \in Channels, SessionDies(c)
      PROVE  CatalogueInv'
  BY <1>5, CatalogueFrame DEF SessionDies
<1>6. CASE PopConnect
  BY <1>6, CatalogueFrame DEF PopConnect
<1>7. CASE PopperDies
  BY <1>7, CatalogueFrame DEF PopperDies
<1>8. QED
  BY <1>1, <1>2, <1>3, <1>4, <1>5, <1>6, <1>7

\* The tick, and the control handlers up to the finalisation.
LEMMA TickCatalogue ==
  ASSUME IInv,
         \/ Heartbeat \/ Drain \/ DrainFails \/ ApplyDone
         \/ \E c \in Channels :
              BeginDisconnect(c) \/ BeginStop(c) \/ StopWithoutSession(c) \/ BeginStart(c)
  PROVE  CatalogueInv'
<1> USE DEF IInv, dbVars, redisVars, memVars, threadVars, mainVars
<1>1. CASE Heartbeat
  <2>1. /\ pc = "loop" /\ pc' = "drainDisconnect"
        /\ rows' = FailActive(DeadSessions)
        /\ registered' = registered \ DeadSessions
        /\ UNCHANGED postQ
    BY <1>1 DEF Heartbeat, Goto
  <2>2. \A c \in Channels :
          /\ capturing'[c] => capturing[c] /\ c \notin DeadSessions
                                /\ recIds'[c] = recIds[c]
          /\ recIds'[c] # 0 => recIds'[c] = recIds[c]
    BY <1>1 DEF Heartbeat
  <2>3. IdsAreOpen' /\ CaptureIsCatalogued' /\ JobsAreCompleted'
    BY <2>1, <2>2, CatalogueGivesUp
  <2>4. DownHasNothing' /\ CaptureIsOwned'
    <3>1. frame.pc = "down"
      BY <2>1, NestedPlace DEF NestedPcs
    <3>2. QED
      BY <2>1, <2>2, <3>1 DEF CatalogueInv, DownHasNothing, CaptureIsOwned
  <2>5. StartInHand' /\ ClosingIsStopped' /\ AnnouncementIsDue'
    BY <2>1 DEF StartInHand, ClosingIsStopped, AnnouncementIsDue
  <2>6. QED
    BY <2>3, <2>4, <2>5 DEF CatalogueInv
<1>2. CASE Drain
  <2>1. pc \notin GuardedPcs /\ pc' \notin GuardedPcs
    BY <1>2 DEF Drain, DrainSteps, GuardedPcs
  <2>2. QED
    BY <1>2, <2>1, CatalogueMoves DEF Drain
<1>3. CASE DrainFails
  <2>1. pc \notin GuardedPcs /\ pc' \notin GuardedPcs /\ pc \notin NestedPcs
    BY <1>3 DEF DrainFails, AbortTick, DrainSteps, GuardedPcs, NestedPcs
  <2>2. frame.pc = "down"
    BY <2>1, NestedPlace
  <2>3. QED
    BY <1>3, <2>1, <2>2, CatalogueMoves DEF DrainFails
<1>4. CASE ApplyDone
  BY <1>4, CatalogueMoves DEF ApplyDone, Goto, GuardedPcs
<1>5. ASSUME NEW c \in Channels, BeginDisconnect(c)
      PROVE  CatalogueInv'
  <2>1. /\ pc = "apply" /\ pc' \in {"markIdle", "stopCapture", "teardown"}
        /\ cur' = c /\ op' = "disconnect"
        /\ pc' = "stopCapture" <=> c \in registered /\ capturing[c]
        /\ registered' = registered \ {c}
        /\ UNCHANGED <<rows, postQ, capturing, recIds, frame>>
    BY <1>5 DEF BeginDisconnect, EnterHandler
  <2>2. DownHasNothing' /\ CaptureIsOwned'
    BY <2>1 DEF CatalogueInv, DownHasNothing, CaptureIsOwned
  <2>3. IdsAreOpen' /\ CaptureIsCatalogued' /\ JobsAreCompleted'
    BY <2>1 DEF CatalogueInv, IdsAreOpen, CaptureIsCatalogued, JobsAreCompleted
  <2>4. StartInHand' /\ ClosingIsStopped' /\ AnnouncementIsDue'
    BY <2>1 DEF StartInHand, ClosingIsStopped, AnnouncementIsDue
  <2>5. QED
    BY <2>2, <2>3, <2>4 DEF CatalogueInv
<1>6. ASSUME NEW c \in Channels, BeginStop(c)
      PROVE  CatalogueInv'
  <2>1. /\ pc = "apply" /\ pc' \in {"stopCapture", "closeRow", "markStopped"}
        /\ cur' = c
        /\ pc' = "closeRow" => ~capturing[c]
        /\ UNCHANGED <<rows, postQ, registered, capturing, recIds, frame>>
    BY <1>6 DEF BeginStop, EnterHandler, FinalizeLabel
  <2>2. DownHasNothing' /\ CaptureIsOwned'
    BY <2>1 DEF CatalogueInv, DownHasNothing, CaptureIsOwned
  <2>3. IdsAreOpen' /\ CaptureIsCatalogued' /\ JobsAreCompleted'
    BY <2>1 DEF CatalogueInv, IdsAreOpen, CaptureIsCatalogued, JobsAreCompleted
  <2>4. StartInHand' /\ ClosingIsStopped' /\ AnnouncementIsDue'
    BY <2>1 DEF StartInHand, ClosingIsStopped, AnnouncementIsDue
  <2>5. QED
    BY <2>2, <2>3, <2>4 DEF CatalogueInv
<1>7. ASSUME NEW c \in Channels, StopWithoutSession(c)
      PROVE  CatalogueInv'
  <2>1. /\ pc = "apply" /\ c \notin registered
        /\ rows' = FailActive({c})
        /\ UNCHANGED <<postQ, registered, capturing, recIds, pc>>
    BY <1>7 DEF StopWithoutSession
  <2>0. frame.pc = "down"
    BY <1>7, NestedBatch DEF StopWithoutSession
  <2>2. \A d \in Channels : capturing[d] => d \in registered /\ d \notin {c}
    BY <2>0, <2>1 DEF CatalogueInv, CaptureIsOwned
  <2>3. IdsAreOpen' /\ CaptureIsCatalogued' /\ JobsAreCompleted'
    BY <2>1, <2>2, CatalogueGivesUp
  <2>4. DownHasNothing' /\ CaptureIsOwned'
    BY <2>1, <2>2 DEF DownHasNothing, CaptureIsOwned
  <2>5. StartInHand' /\ ClosingIsStopped' /\ AnnouncementIsDue'
    BY <2>1 DEF StartInHand, ClosingIsStopped, AnnouncementIsDue
  <2>6. QED
    BY <2>3, <2>4, <2>5 DEF CatalogueInv
<1>8. ASSUME NEW c \in Channels, BeginStart(c)
      PROVE  CatalogueInv'
  BY <1>8, CatalogueMoves DEF BeginStart, EnterHandler, GuardedPcs
<1>9. QED
  BY <1>1, <1>2, <1>3, <1>4, <1>5, <1>6, <1>7, <1>8

\* Queueing the job that is due leaves only jobs of completed rows.
LEMMA AnnouncedJobs ==
  ASSUME IInv, pc = "announce", postQ' = Append(postQ, finRow), UNCHANGED rows
  PROVE  JobsAreCompleted'
<1>1. postQ \in Seq(Nat) /\ finRow \in Nat
  BY DEF IInv, TypeInv, RedisType, MainType
<1>2. /\ DOMAIN postQ = 1 .. Len(postQ) /\ Len(postQ) \in Nat
      /\ DOMAIN postQ' = 1 .. Len(postQ) + 1
      /\ \A k \in DOMAIN postQ : postQ'[k] = postQ[k]
      /\ postQ'[Len(postQ) + 1] = finRow
  BY <1>1
<1>3. \A k \in DOMAIN postQ' : k \in DOMAIN postQ \/ k = Len(postQ) + 1
  BY <1>2
<1>4. QED
  BY <1>2, <1>3
  DEF IInv, CatalogueInv, JobsAreCompleted, AnnouncementIsDue

\* From the finalisation of a recording to the end of its handler.
LEMMA FinalizeCatalogue ==
  ASSUME IInv,
         \/ StopCapture \/ CloseRow \/ Announce
         \/ \E queued \in BOOLEAN : AnnounceFails(queued)
         \/ Teardown \/ MarkIdle \/ MarkStopped
  PROVE  CatalogueInv'
<1> USE DEF IInv, dbVars, redisVars, memVars, threadVars, mainVars
<1>1. CASE StopCapture
  <2>1. /\ pc = "stopCapture" /\ pc' = "closeRow"
        /\ capturing' = [capturing EXCEPT ![cur] = FALSE]
        /\ UNCHANGED <<rows, postQ, registered, recIds, cur, op, frame>>
    BY <1>1 DEF StopCapture, Goto
  <2>2. /\ cur \in Channels
        /\ capturing \in [Channels -> BOOLEAN]
    BY <2>1 DEF TypeInv, MainType, MemType, HandlerHasChannel, HandlerPcs
  <2>3. ~capturing'[cur] /\ \A c \in Channels : capturing'[c] => capturing[c] /\ c # cur
    BY <2>1, <2>2
  <2>4. DownHasNothing' /\ CaptureIsOwned'
    BY <2>1, <2>3 DEF CatalogueInv, DownHasNothing, CaptureIsOwned
  <2>5. IdsAreOpen' /\ CaptureIsCatalogued' /\ JobsAreCompleted'
    BY <2>1, <2>3 DEF CatalogueInv, IdsAreOpen, CaptureIsCatalogued, JobsAreCompleted
  <2>6. StartInHand' /\ ClosingIsStopped' /\ AnnouncementIsDue'
    BY <2>1, <2>3 DEF StartInHand, ClosingIsStopped, AnnouncementIsDue
  <2>7. QED
    BY <2>4, <2>5, <2>6 DEF CatalogueInv
<1>2. CASE CloseRow
  <2> DEFINE i == RowToFinalize(cur)
  <2>1. /\ pc = "closeRow" /\ ~capturing[cur]
        /\ recIds' = [recIds EXCEPT ![cur] = 0]
        /\ UNCHANGED <<postQ, registered, capturing, cur, op, frame>>
    BY <1>2 DEF CloseRow, Goto, CatalogueInv, ClosingIsStopped
  <2>2. /\ cur \in Channels
        /\ recIds \in [Channels -> Nat]
        /\ rows \in Seq(Row)
    BY <2>1 DEF TypeInv, DbType, MainType, MemType, HandlerHasChannel, HandlerPcs
  <2>3. i # 0 => i \in DOMAIN rows /\ rows[i].chan = cur /\ rows[i].st # "completed"
    BY <2>2, RowToFinalizeProps DEF CatalogueInv
  <2>4. DownHasNothing' /\ CaptureIsOwned'
    <3>1. pc' # "down"
      BY <1>2 DEF CloseRow, Goto, AfterFinalize
    <3>2. QED
      BY <2>1, <3>1 DEF CatalogueInv, DownHasNothing, CaptureIsOwned
  <2>5. CASE i = 0
    <3>1. rows' = rows /\ pc' \in {"teardown", "markStopped"}
      BY <1>2, <2>5 DEF CloseRow, Goto, AfterFinalize
    <3>2. \A c \in Channels :
            /\ recIds'[c] # 0 => recIds'[c] = recIds[c]
            /\ capturing'[c] => capturing[c] /\ recIds'[c] = recIds[c]
      BY <2>1, <2>2
    <3>3. IdsAreOpen' /\ CaptureIsCatalogued' /\ JobsAreCompleted'
      BY <2>1, <3>1, <3>2
      DEF CatalogueInv, IdsAreOpen, CaptureIsCatalogued, JobsAreCompleted
    <3>4. StartInHand' /\ ClosingIsStopped' /\ AnnouncementIsDue'
      BY <3>1 DEF StartInHand, ClosingIsStopped, AnnouncementIsDue
    <3>5. QED
      BY <2>4, <3>3, <3>4 DEF CatalogueInv
  <2>6. CASE i # 0
    <3>1. rows' = SetRow(i, "completed") /\ finRow' = i /\ pc' = "announce"
      BY <1>2, <2>6 DEF CloseRow
    <3>2. IdsAreOpen' /\ CaptureIsCatalogued' /\ JobsAreCompleted'
      BY <2>1, <2>2, <2>3, <2>6, <3>1, CatalogueSetsRow
    <3>3. AnnouncementIsDue'
      <4>1. i \in DOMAIN rows' /\ rows'[i].st = "completed"
        BY <2>2, <2>3, <2>6, <3>1, SetRowProps DEF RowStatuses
      <4>2. \A k \in DOMAIN postQ : postQ[k] # i
        BY <2>3, <2>6 DEF CatalogueInv, JobsAreCompleted
      <4>3. QED
        BY <2>1, <3>1, <4>1, <4>2 DEF AnnouncementIsDue
    <3>4. StartInHand' /\ ClosingIsStopped'
      BY <3>1 DEF StartInHand, ClosingIsStopped
    <3>5. QED
      BY <2>4, <3>2, <3>3, <3>4 DEF CatalogueInv
  <2>7. QED
    BY <2>5, <2>6
<1>3. CASE Announce
  <2>1. /\ pc = "announce" /\ pc' \in {"teardown", "markStopped"}
        /\ postQ' = Append(postQ, finRow)
        /\ UNCHANGED <<rows, registered, capturing, recIds, frame>>
    BY <1>3 DEF Announce, AfterFinalize
  <2>2. JobsAreCompleted'
    BY <2>1, AnnouncedJobs
  <2>3. DownHasNothing' /\ CaptureIsOwned'
    BY <2>1 DEF CatalogueInv, DownHasNothing, CaptureIsOwned
  <2>4. IdsAreOpen' /\ CaptureIsCatalogued'
    BY <2>1 DEF CatalogueInv, IdsAreOpen, CaptureIsCatalogued
  <2>5. StartInHand' /\ ClosingIsStopped' /\ AnnouncementIsDue'
    BY <2>1 DEF StartInHand, ClosingIsStopped, AnnouncementIsDue
  <2>6. QED
    BY <2>2, <2>3, <2>4, <2>5 DEF CatalogueInv
<1>4. ASSUME NEW queued \in BOOLEAN, AnnounceFails(queued)
      PROVE  CatalogueInv'
  <2>1. /\ pc = "announce" /\ pc' = "loop" /\ frame.pc \in {"down", "loop"}
        /\ postQ' = Append(postQ, finRow) \/ postQ' = postQ
        /\ UNCHANGED <<rows, registered, capturing, recIds>>
    BY <1>4 DEF AnnounceFails, AbortTick
  <2>2. JobsAreCompleted'
    <3>1. CASE postQ' = postQ
      BY <2>1, <3>1 DEF CatalogueInv, JobsAreCompleted
    <3>2. CASE postQ' = Append(postQ, finRow)
      BY <2>1, <3>2, AnnouncedJobs
    <3>3. QED
      BY <2>1, <3>1, <3>2
  <2>3. DownHasNothing' /\ CaptureIsOwned'
    BY <2>1 DEF CatalogueInv, DownHasNothing, CaptureIsOwned
  <2>4. IdsAreOpen' /\ CaptureIsCatalogued'
    BY <2>1 DEF CatalogueInv, IdsAreOpen, CaptureIsCatalogued
  <2>5. StartInHand' /\ ClosingIsStopped' /\ AnnouncementIsDue'
    BY <2>1 DEF StartInHand, ClosingIsStopped, AnnouncementIsDue
  <2>6. QED
    BY <2>2, <2>3, <2>4, <2>5 DEF CatalogueInv
<1>5. CASE Teardown
  BY <1>5, CatalogueMoves DEF Teardown, Goto, GuardedPcs
<1>6. CASE MarkIdle
  BY <1>6, CatalogueMoves DEF MarkIdle, Return, GuardedPcs
<1>7. CASE MarkStopped
  BY <1>7, CatalogueMoves DEF MarkStopped, Return, GuardedPcs
<1>8. QED
  BY <1>1, <1>2, <1>3, <1>4, <1>5, <1>6, <1>7

\* The start of a recording.
LEMMA StartCatalogue ==
  ASSUME IInv,
         DeferStart \/ AlreadyRecording \/ OpenRow \/ OpenCapture \/ OpenCaptureFails
  PROVE  CatalogueInv'
<1> USE DEF IInv, dbVars, redisVars, memVars, threadVars, mainVars
<1>0. /\ rows \in Seq(Row)
      /\ recIds \in [Channels -> Nat] /\ capturing \in [Channels -> BOOLEAN]
  BY DEF TypeInv, DbType, MemType
<1>1. CASE DeferStart
  BY <1>1, CatalogueMoves DEF DeferStart, Return, GuardedPcs
<1>2. CASE AlreadyRecording
  BY <1>2, CatalogueMoves DEF AlreadyRecording, Return, GuardedPcs
<1>3. CASE OpenRow
  <2> DEFINE new == [chan |-> cur, st |-> "recording"]
  <2>1. /\ pc = "openRow" /\ pc' = "openCapture" /\ ~capturing[cur]
        /\ rows' = Append(rows, new)
        /\ recIds' = [recIds EXCEPT ![cur] = Len(rows) + 1]
        /\ UNCHANGED <<postQ, registered, capturing, cur, frame>>
    BY <1>3 DEF OpenRow, Goto
  <2>2. cur \in Channels
    BY <2>1 DEF TypeInv, MainType, HandlerHasChannel, HandlerPcs
  <2>3. /\ Len(rows) \in Nat /\ DOMAIN rows = 1 .. Len(rows)
        /\ DOMAIN rows' = 1 .. Len(rows) + 1
        /\ \A i \in DOMAIN rows : i \in DOMAIN rows' /\ rows'[i] = rows[i]
        /\ Len(rows) + 1 \in DOMAIN rows' /\ rows'[Len(rows) + 1] = new
    <3>1. new \in Row
      BY <2>2 DEF Row, RowStatuses
    <3> HIDE DEF new
    <3>2. QED
      BY <1>0, <2>1, <3>1
  <2>4. \A c \in Channels : c # cur => recIds'[c] = recIds[c]
    BY <1>0, <2>1
  <2>5. recIds'[cur] = Len(rows) + 1
    BY <1>0, <2>1, <2>2
  <2>6. IdsAreOpen'
    <3>1. SUFFICES ASSUME NEW c \in Channels, recIds'[c] # 0
                   PROVE  /\ recIds'[c] \in DOMAIN rows'
                          /\ rows'[recIds'[c]].chan = c
                          /\ rows'[recIds'[c]].st # "completed"
      BY DEF IdsAreOpen
    <3>2. CASE c = cur
      BY <2>3, <2>5, <3>2
    <3>3. CASE c # cur
      BY <2>3, <2>4, <3>1, <3>3 DEF CatalogueInv, IdsAreOpen
    <3>4. QED
      BY <3>2, <3>3
  <2>7. CaptureIsCatalogued'
    <3>1. \A c \in Channels : capturing'[c] => capturing[c] /\ c # cur
      BY <2>1
    <3>2. QED
      BY <2>3, <2>4, <3>1 DEF CatalogueInv, CaptureIsCatalogued
  <2>8. DownHasNothing' /\ CaptureIsOwned' /\ JobsAreCompleted'
    BY <2>1, <2>3 DEF CatalogueInv, DownHasNothing, CaptureIsOwned, JobsAreCompleted
  <2>9. StartInHand' /\ ClosingIsStopped' /\ AnnouncementIsDue'
    BY <2>1, <2>3, <2>5 DEF StartInHand, ClosingIsStopped, AnnouncementIsDue
  <2>10. QED
    BY <2>6, <2>7, <2>8, <2>9 DEF CatalogueInv
<1>4. CASE OpenCapture
  <2>1. /\ pc = "openCapture" /\ pc' \in {"loop", "apply"} /\ cur \in registered
        /\ capturing' = [capturing EXCEPT ![cur] = TRUE]
        /\ UNCHANGED <<rows, postQ, registered, recIds, frame>>
    BY <1>4 DEF OpenCapture, Return, Live
  <2>2. cur \in Channels
    BY <2>1 DEF TypeInv, MainType, HandlerHasChannel, HandlerPcs
  <2>3. recIds[cur] \in DOMAIN rows
          /\ rows[recIds[cur]] = [chan |-> cur, st |-> "recording"]
    <3>1. /\ recIds[cur] \in DOMAIN rows /\ rows[recIds[cur]].chan = cur
          /\ rows[recIds[cur]].st = "recording"
      BY <2>1, <2>2 DEF CatalogueInv, StartInHand, IdsAreOpen
    <3>2. rows[recIds[cur]] \in Row
      BY <1>0, <3>1
    <3>3. QED
      BY <3>1, <3>2 DEF Row
  <2>4. \A c \in Channels : capturing'[c] => c = cur \/ capturing[c]
    BY <1>0, <2>1
  <2>5. CaptureIsCatalogued'
    BY <2>1, <2>3, <2>4 DEF CatalogueInv, CaptureIsCatalogued
  <2>6. DownHasNothing' /\ CaptureIsOwned'
    BY <2>1, <2>4 DEF CatalogueInv, DownHasNothing, CaptureIsOwned
  <2>7. IdsAreOpen' /\ JobsAreCompleted'
    BY <2>1 DEF CatalogueInv, IdsAreOpen, JobsAreCompleted
  <2>8. StartInHand' /\ ClosingIsStopped' /\ AnnouncementIsDue'
    BY <2>1 DEF StartInHand, ClosingIsStopped, AnnouncementIsDue
  <2>9. QED
    BY <2>5, <2>6, <2>7, <2>8 DEF CatalogueInv
<1>5. CASE OpenCaptureFails
  <2>1. /\ pc = "openCapture" /\ pc' \in {"loop", "apply"} /\ ~capturing[cur]
        /\ rows[recIds[cur]].st = "recording"
        /\ rows' = SetRow(recIds[cur], "failed")
        /\ recIds' = [recIds EXCEPT ![cur] = 0]
        /\ UNCHANGED <<postQ, registered, capturing, frame>>
    BY <1>5 DEF OpenCaptureFails, Return, CatalogueInv, StartInHand
  <2>2. cur \in Channels
    BY <2>1 DEF TypeInv, MainType, HandlerHasChannel, HandlerPcs
  <2>3. recIds[cur] \in DOMAIN rows /\ rows[recIds[cur]].chan = cur
    BY <2>1, <2>2 DEF CatalogueInv, StartInHand, IdsAreOpen
  <2>4. IdsAreOpen' /\ CaptureIsCatalogued' /\ JobsAreCompleted'
    BY <2>1, <2>2, <2>3, CatalogueSetsRow
  <2>5. DownHasNothing' /\ CaptureIsOwned'
    BY <2>1 DEF CatalogueInv, DownHasNothing, CaptureIsOwned
  <2>6. StartInHand' /\ ClosingIsStopped' /\ AnnouncementIsDue'
    BY <2>1 DEF StartInHand, ClosingIsStopped, AnnouncementIsDue
  <2>7. QED
    BY <2>4, <2>5, <2>6 DEF CatalogueInv
<1>6. QED
  BY <1>1, <1>2, <1>3, <1>4, <1>5

\* The idle callback that connects a channel.
LEMMA ConnectCatalogue ==
  ASSUME IInv,
         \/ \E c \in Channels : ConnectJob(c)
         \/ ConnectSucceeds \/ ConnectFails
  PROVE  CatalogueInv'
<1> USE DEF IInv, dbVars, redisVars, memVars, threadVars, mainVars
<1>1. ASSUME NEW c \in Channels, ConnectJob(c)
      PROVE  CatalogueInv'
  <2>1. /\ pc = "loop" /\ pc' \in {"loop", "openRow", "connecting"}
        /\ UNCHANGED <<rows, postQ, registered, capturing, recIds, frame>>
    BY <1>1 DEF ConnectJob, AlreadyConnected, AtCapacity, BeginConnect,
                TakeConnectJob, ConnectEnds
  <2>2. QED
    BY <2>1, CatalogueMoves DEF GuardedPcs
<1>2. CASE ConnectSucceeds
  <2>1. /\ pc = "connecting" /\ pc' \in {"loop", "openRow"}
        /\ registered' = registered \cup {cur}
        /\ capturing' = [capturing EXCEPT ![cur] = FALSE]
        /\ UNCHANGED <<rows, postQ, recIds, frame>>
    BY <1>2 DEF ConnectSucceeds, ConnectEnds
  <2>2. \A c \in Channels : capturing'[c] => capturing[c]
    BY <2>1 DEF TypeInv, MemType
  <2>3. DownHasNothing' /\ CaptureIsOwned'
    BY <2>1, <2>2 DEF CatalogueInv, DownHasNothing, CaptureIsOwned
  <2>4. IdsAreOpen' /\ CaptureIsCatalogued' /\ JobsAreCompleted'
    BY <2>1, <2>2 DEF CatalogueInv, IdsAreOpen, CaptureIsCatalogued, JobsAreCompleted
  <2>5. StartInHand' /\ ClosingIsStopped' /\ AnnouncementIsDue'
    BY <2>1 DEF StartInHand, ClosingIsStopped, AnnouncementIsDue
  <2>6. QED
    BY <2>3, <2>4, <2>5 DEF CatalogueInv
<1>3. CASE ConnectFails
  BY <1>3, CatalogueMoves DEF ConnectFails, ConnectEnds, GuardedPcs
<1>4. QED
  BY <1>1, <1>2, <1>3

\* The interrupted handler goes on where it was.
LEMMA ResumeCatalogue ==
  ASSUME IInv, Resume
  PROVE  CatalogueInv'
<1> USE DEF IInv
<1>1. /\ pc = "apply" /\ frame.pc # "down" /\ pc' = frame.pc
      /\ cur' = frame.cur /\ op' = frame.op /\ finRow' = frame.finRow
      /\ UNCHANGED <<rows, postQ, registered, capturing, recIds>>
  BY DEF Resume, dbVars, redisVars, memVars
<1>2. DownHasNothing' /\ CaptureIsOwned'
  BY <1>1 DEF CatalogueInv, DownHasNothing, CaptureIsOwned
<1>3. IdsAreOpen' /\ CaptureIsCatalogued' /\ JobsAreCompleted'
  BY <1>1 DEF CatalogueInv, IdsAreOpen, CaptureIsCatalogued, JobsAreCompleted
<1>4. StartInHand' /\ ClosingIsStopped' /\ AnnouncementIsDue'
  BY <1>1 DEF NestedInv, HeldStart, HeldClosing, HeldAnnouncement, StartInHand,
              ClosingIsStopped, AnnouncementIsDue
<1>5. QED
  BY <1>2, <1>3, <1>4 DEF CatalogueInv

LEMMA CatalogueInitially == Init => CatalogueInv
BY DEF Init, CatalogueInv, DownHasNothing, CaptureIsOwned, IdsAreOpen,
       CaptureIsCatalogued, StartInHand, ClosingIsStopped, AnnouncementIsDue,
       JobsAreCompleted

LEMMA CatalogueStep == IInv /\ [Next]_vars => CatalogueInv'
<1> SUFFICES ASSUME IInv, [Next]_vars
             PROVE  CatalogueInv'
  OBVIOUS
<1> USE DEF dbVars, redisVars, memVars, threadVars, mainVars
<1>1. CASE UNCHANGED vars
  BY <1>1, CatalogueFrame DEF vars, IInv
<1>2. CASE SchedulerNext
  <2>1. UNCHANGED <<rows, postQ, registered, capturing, recIds, pc, cur, op, finRow,
                    frame>>
    BY <1>2
    DEF SchedulerNext, RequestStep, Accept, AcceptAutoConnect, CommitIntent, Publish,
        RefreshAndStart, PublishFails, Undo, ApiCrash
  <2>2. QED
    BY <2>1, CatalogueFrame DEF IInv
<1>3. CASE WorkerNext
  BY <1>3, ProcessCatalogue, TickCatalogue, FinalizeCatalogue, StartCatalogue,
     ConnectCatalogue, ResumeCatalogue
  DEF WorkerNext, HandlerStep, WorkerFault
<1>4. QED
  BY <1>1, <1>2, <1>3 DEF Next

-----------------------------------------------------------------------------
(* What holds while a signal handler runs.                                 *)

LEMMA NestedInitially == Init => NestedInv
BY DEF Init, NoFrame, NestedInv, OnlyDisconnects, HeldStart, HeldClosing,
       HeldAnnouncement

\* Without a signal handler there is nothing to show.
LEMMA NestedVacuous ==
  ASSUME frame'.pc = "down"
  PROVE  NestedInv'
BY DEF NestedInv, OnlyDisconnects, HeldStart, HeldClosing, HeldAnnouncement

\* The signal finds the interrupted handler's facts in the invariant.
LEMMA NestedBegins ==
  ASSUME IInv, Shutdown
  PROVE  NestedInv'
<1>1. /\ frame'.pc = pc /\ frame'.cur = cur /\ frame'.finRow = finRow
      /\ pc' = "apply" /\ ~running'
      /\ batch' = [c \in Channels |-> IF c \in registered THEN {"disconnect"} ELSE {}]
      /\ UNCHANGED <<rows, postQ, capturing, recIds>>
  BY DEF Shutdown, dbVars, redisVars, memVars
<1>2. OnlyDisconnects'
  BY <1>1 DEF OnlyDisconnects, NestedPcs
<1>3. HeldStart' /\ HeldClosing' /\ HeldAnnouncement'
  BY <1>1
  DEF IInv, CatalogueInv, StartInHand, ClosingIsStopped, AnnouncementIsDue,
      HeldStart, HeldClosing, HeldAnnouncement
<1>4. QED
  BY <1>2, <1>3 DEF NestedInv

\* What can happen while a signal handler runs: it ends, it disconnects a
\* session, or the rest of the farm moves on around it.
LEMMA NestedSteps ==
  ASSUME IInv, frame.pc # "down", [Next]_vars
  PROVE  \/ frame' = NoFrame
         \/ UNCHANGED <<rows, postQ, capturing, recIds, running, mainVars>>
         \/ \E c \in Channels : BeginDisconnect(c)
         \/ StopCapture \/ CloseRow \/ Announce \/ Teardown \/ MarkIdle
<1> USE DEF dbVars, redisVars, memVars, threadVars
<1>0. ~running /\ pc \in NestedPcs
  BY DEF IInv, NestedInv, OnlyDisconnects
<1>1. CASE UNCHANGED vars
  BY <1>1 DEF vars
<1>2. CASE SchedulerNext
  <2>1. CASE ApiCrash
    BY <2>1 DEF ApiCrash
  <2>2. ASSUME NEW r \in Requests,
               \/ RequestStep(r)
               \/ \E queued \in BOOLEAN : PublishFails(r, queued)
        PROVE  UNCHANGED <<rows, postQ, capturing, recIds, running, mainVars>>
    BY <2>2 DEF RequestStep, CommitIntent, Publish, RefreshAndStart, Undo, PublishFails
  <2>3. ASSUME NEW r \in Requests,
               \/ \E kind \in JobOps, c \in Channels : Accept(r, kind, c)
               \/ \E c \in Channels : AcceptAutoConnect(r, c)
        PROVE  UNCHANGED <<rows, postQ, capturing, recIds, running, mainVars>>
    BY <2>3 DEF Accept, AcceptAutoConnect
  <2>4. QED
    BY <1>2, <2>1, <2>2, <2>3 DEF SchedulerNext
<1>3. CASE Crash \/ Resume \/ DrainFails \/ \E queued \in BOOLEAN : AnnounceFails(queued)
  BY <1>3 DEF Crash, Resume, DrainFails, AnnounceFails, ForgetEverything, AbortTick
<1>4. CASE (\E c \in Channels : SessionDies(c)) \/ PopConnect \/ PopperDies
  BY <1>4 DEF SessionDies, PopConnect, PopperDies
<1>5. CASE Startup \/ Shutdown \/ Exit \/ Heartbeat \/ Drain \/ ApplyDone
  BY <1>0, <1>5
  DEF Startup, Shutdown, Exit, Heartbeat, Drain, DrainSteps, ApplyDone, NestedPcs
<1>6. ASSUME NEW c \in Channels, BeginStop(c) \/ StopWithoutSession(c) \/ BeginStart(c)
      PROVE  FALSE
  BY <1>6, NestedBatch DEF IInv, BeginStop, StopWithoutSession, BeginStart
<1>7. CASE MarkStopped
  BY <1>0, <1>7 DEF MarkStopped, NestedPcs
<1>8. CASE DeferStart \/ AlreadyRecording \/ OpenRow \/ OpenCapture \/ OpenCaptureFails
  BY <1>0, <1>8
  DEF DeferStart, AlreadyRecording, OpenRow, OpenCapture, OpenCaptureFails, NestedPcs
<1>9. CASE (\E c \in Channels : ConnectJob(c)) \/ ConnectSucceeds \/ ConnectFails
  BY <1>0, <1>9
  DEF ConnectJob, AlreadyConnected, AtCapacity, BeginConnect, TakeConnectJob,
      ConnectSucceeds, ConnectFails, NestedPcs
<1>10. QED
  BY <1>1, <1>2, <1>3, <1>4, <1>5, <1>6, <1>7, <1>8, <1>9
  DEF Next, WorkerNext, HandlerStep, WorkerFault

\* Steps of the signal handler away from rows and captures.
LEMMA NestedMoves ==
  ASSUME NestedInv, OnlyDisconnects', pc' \notin {"closeRow", "announce"},
         pc' = "stopCapture" => capturing[cur'],
         UNCHANGED <<rows, postQ, capturing, recIds, frame>>
  PROVE  NestedInv'
<1>1. HeldStart'
  BY DEF NestedInv, HeldStart
<1>2. HeldClosing' /\ HeldAnnouncement'
  BY DEF NestedInv, HeldClosing, HeldAnnouncement
<1>3. QED
  BY <1>1, <1>2 DEF NestedInv

\* The signal handler closes another row than the interrupted start opened
\* or the interrupted stop completed.
LEMMA NestedCloseRow ==
  ASSUME IInv, frame.pc # "down", CloseRow
  PROVE  NestedInv'
<1> DEFINE i == RowToFinalize(cur)
<1>1. /\ pc = "closeRow" /\ op = "disconnect" /\ ~running
      /\ pc' \in {"teardown", "announce"}
      /\ pc' = "announce" => i # 0 /\ finRow' = i
      /\ recIds' = [recIds EXCEPT ![cur] = 0]
      /\ i = 0 => rows' = rows
      /\ i # 0 => rows' = SetRow(i, "completed")
      /\ UNCHANGED <<postQ, capturing, running, cur, op, batch, frame>>
  BY DEF CloseRow, Goto, AfterFinalize, IInv, NestedInv, OnlyDisconnects, redisVars,
         threadVars
<1>2. /\ cur \in Channels /\ rows \in Seq(Row)
      /\ recIds \in [Channels -> Nat]
  BY <1>1 DEF IInv, TypeInv, DbType, MemType, MainType, HandlerHasChannel, HandlerPcs
<1>3. i # 0 => i \in DOMAIN rows /\ rows[i].chan = cur /\ rows[i].st # "completed"
  BY <1>2, RowToFinalizeProps DEF IInv, CatalogueInv
<1> HIDE DEF i
<1>4. DOMAIN rows' = DOMAIN rows /\ \A j \in DOMAIN rows : j # i => rows'[j] = rows[j]
  BY <1>1, <1>2, <1>3, SetRowProps DEF RowStatuses
<1>5. OnlyDisconnects'
  BY <1>1 DEF IInv, NestedInv, OnlyDisconnects, NestedPcs
<1>6. HeldStart'
  <2>1. SUFFICES ASSUME frame.pc = "openCapture"
                 PROVE  HeldStart'
    BY <1>1 DEF HeldStart
  <2>2. /\ frame.cur \in Channels /\ frame.cur # cur
        /\ ~capturing[frame.cur] /\ recIds[frame.cur] # 0
        /\ rows[recIds[frame.cur]].st = "recording"
    BY <1>1, <2>1
    DEF IInv, FrameType, HandlerPcs, NestedInv, HeldStart
  <2>3. recIds[frame.cur] \in DOMAIN rows /\ rows[recIds[frame.cur]].chan = frame.cur
    BY <2>2 DEF IInv, CatalogueInv, IdsAreOpen
  <2>4. recIds[frame.cur] # i
    BY <1>2, <1>3, <2>2, <2>3
  <2>5. recIds'[frame.cur] = recIds[frame.cur]
    BY <1>1, <1>2, <2>2
  <2>6. rows'[recIds'[frame.cur]].st = "recording"
    BY <1>4, <2>2, <2>3, <2>4, <2>5
  <2>7. QED
    BY <1>1, <2>2, <2>5, <2>6 DEF HeldStart
<1>7. HeldClosing'
  BY <1>1 DEF IInv, NestedInv, HeldClosing
<1>8. HeldAnnouncement'
  <2>1. SUFFICES ASSUME frame.pc = "announce"
                 PROVE  HeldAnnouncement'
    BY <1>1 DEF HeldAnnouncement
  <2>2. /\ frame.finRow \in DOMAIN rows
        /\ rows[frame.finRow].st = "completed"
        /\ \A k \in DOMAIN postQ : postQ[k] # frame.finRow
    BY <2>1 DEF IInv, NestedInv, HeldAnnouncement
  <2>3. i # 0 => frame.finRow # i
    BY <1>3, <2>2
  <2>4. rows'[frame.finRow] = rows[frame.finRow]
    BY <1>1, <1>4, <2>2, <2>3
  <2>5. QED
    BY <1>1, <1>4, <2>2, <2>3, <2>4 DEF HeldAnnouncement
<1>9. QED
  BY <1>5, <1>6, <1>7, <1>8 DEF NestedInv

LEMMA NestedAnnounce ==
  ASSUME IInv, frame.pc # "down", Announce
  PROVE  NestedInv'
<1>1. /\ pc = "announce" /\ op = "disconnect" /\ ~running /\ pc' = "teardown"
      /\ postQ' = Append(postQ, finRow)
      /\ UNCHANGED <<rows, capturing, recIds, running, cur, op, batch, frame>>
  BY DEF Announce, AfterFinalize, IInv, NestedInv, OnlyDisconnects, dbVars, memVars,
         threadVars
<1>2. OnlyDisconnects'
  BY <1>1 DEF IInv, NestedInv, OnlyDisconnects, NestedPcs
<1>3. HeldStart' /\ HeldClosing'
  BY <1>1 DEF IInv, NestedInv, HeldStart, HeldClosing
<1>4. HeldAnnouncement'
  <2>1. postQ \in Seq(Nat) /\ finRow \in Nat
    BY DEF IInv, TypeInv, RedisType, MainType
  <2>2. \A k \in DOMAIN postQ' :
          \/ postQ'[k] = finRow
          \/ k \in DOMAIN postQ /\ postQ'[k] = postQ[k]
    BY <1>1, <2>1
  <2>3. QED
    BY <1>1, <2>2 DEF IInv, NestedInv, HeldAnnouncement
<1>5. QED
  BY <1>2, <1>3, <1>4 DEF NestedInv

LEMMA NestedStopCapture ==
  ASSUME IInv, frame.pc # "down", StopCapture
  PROVE  NestedInv'
<1>1. /\ pc = "stopCapture" /\ pc' = "closeRow" /\ op = "disconnect" /\ ~running
      /\ capturing' = [capturing EXCEPT ![cur] = FALSE]
      /\ UNCHANGED <<rows, postQ, recIds, running, cur, op, finRow, batch, frame>>
  BY DEF StopCapture, Goto, IInv, NestedInv, OnlyDisconnects, dbVars, redisVars,
         threadVars
<1>2. \A c \in Channels : capturing'[c] => capturing[c]
  BY <1>1 DEF IInv, TypeInv, MemType
<1>3. OnlyDisconnects'
  BY <1>1 DEF IInv, NestedInv, OnlyDisconnects, NestedPcs
<1>4. HeldStart' /\ HeldClosing'
  BY <1>1, <1>2
  DEF IInv, NestedInv, HeldStart, HeldClosing, FrameType, HandlerPcs
<1>5. HeldAnnouncement'
  BY <1>1 DEF IInv, NestedInv, HeldAnnouncement
<1>6. QED
  BY <1>3, <1>4, <1>5 DEF NestedInv

LEMMA NestedStep == IInv /\ [Next]_vars => NestedInv'
<1> SUFFICES ASSUME IInv, [Next]_vars
             PROVE  NestedInv'
  OBVIOUS
<1>1. CASE Shutdown
  BY <1>1, NestedBegins
<1>2. CASE frame' = NoFrame
  BY <1>2, NoFrameType, NestedVacuous
<1>3. CASE UNCHANGED frame /\ frame.pc = "down"
  BY <1>3, NestedVacuous
<1>4. CASE frame.pc # "down"
  <2> USE <1>4 DEF dbVars, redisVars, memVars, threadVars, mainVars
  <2>1. CASE UNCHANGED <<rows, postQ, capturing, recIds, running, mainVars>>
    BY <2>1
    DEF IInv, NestedInv, OnlyDisconnects, HeldStart, HeldClosing, HeldAnnouncement
  <2>2. ASSUME NEW c \in Channels, BeginDisconnect(c)
        PROVE  NestedInv'
    <3>1. /\ pc' \in {"markIdle", "stopCapture", "teardown"}
          /\ cur' = c /\ op' = "disconnect"
          /\ pc' = "stopCapture" => capturing[c]
          /\ batch' = [batch EXCEPT ![c] = {}]
          /\ UNCHANGED <<rows, postQ, capturing, recIds, running, frame>>
      BY <2>2 DEF BeginDisconnect, EnterHandler
    <3>2. OnlyDisconnects'
      <4>1. \A d \in Channels : batch'[d] \subseteq batch[d]
        BY <3>1 DEF IInv, TypeInv, MainType
      <4>2. QED
        BY <3>1, <4>1 DEF IInv, NestedInv, OnlyDisconnects, NestedPcs
    <3>3. QED
      BY <3>1, <3>2, NestedMoves DEF IInv
  <2>3. CASE Teardown \/ MarkIdle
    <3>1. /\ pc' \in {"markIdle", "apply"} /\ (pc' = "markIdle" => op' = op)
          /\ op = "disconnect"
          /\ UNCHANGED <<rows, postQ, capturing, recIds, running, batch, frame>>
      BY <2>3
      DEF Teardown, MarkIdle, Goto, Return, IInv, NestedInv, OnlyDisconnects
    <3>2. OnlyDisconnects'
      BY <3>1 DEF IInv, NestedInv, OnlyDisconnects, NestedPcs
    <3>3. QED
      BY <3>1, <3>2, NestedMoves DEF IInv
  <2>4. QED
    BY <1>2, <2>1, <2>2, <2>3, NestedSteps, NestedCloseRow, NestedAnnounce,
       NestedStopCapture
<1>5. QED
  BY <1>1, <1>2, <1>3, <1>4, FrameMoves

LEMMA InvariantAlways == Spec => []IInv
<1>1. Init => IInv
  BY TypeInitially, CatalogueInitially, NestedInitially DEF IInv
<1>2. IInv /\ [Next]_vars => IInv'
  BY TypeStep, CatalogueStep, NestedStep DEF IInv
<1>3. QED
  BY <1>1, <1>2, PTL DEF Spec

\* Whatever crashes, dies, times out or is asked for, and with any number of
\* channels, a session that writes segments has an open row of its channel,
\* and the worker knows which one.
THEOREM CaptureSafe == Spec => []CaptureIsCatalogued
<1>1. IInv => CaptureIsCatalogued
  BY DEF IInv, CatalogueInv
<1>2. QED
  BY <1>1, InvariantAlways, PTL

-----------------------------------------------------------------------------
(* The farm implements the ledger.                                         *)

\* _fail_active_recording gives up a set of active rows.
LEMMA FailActiveGivesUp ==
  ASSUME rows \in Seq(Row), NEW cs, rows' = FailActive(cs), UNCHANGED postQ
  PROVE  Ledger!Next
<1> DEFINE lost == {i \in DOMAIN rows : rows[i].chan \in cs /\ IsLatestActive(i)}
<1>1. lost \in SUBSET DOMAIN rows
  OBVIOUS
<1>2. \A i \in lost : Ledger!Active(i)
  BY DEF Ledger!Active, IsLatestActive
<1>3. rows' = [i \in DOMAIN rows |->
                 IF i \in lost THEN [rows[i] EXCEPT !.st = "failed"] ELSE rows[i]]
  BY DEF FailActive
<1> HIDE DEF lost
<1>4. Ledger!GiveUp(lost)
  BY <1>2, <1>3 DEF Ledger!GiveUp
<1>5. QED
  BY <1>1, <1>4 DEF Ledger!Next

LEMMA LedgerStep == IInv /\ [Next]_vars => [Ledger!Next]_<<rows, postQ>>
<1> SUFFICES ASSUME IInv, [Next]_vars
             PROVE  Ledger!Next \/ UNCHANGED <<rows, postQ>>
  OBVIOUS
<1> USE DEF dbVars, redisVars, memVars, threadVars, mainVars
<1>0. /\ rows \in Seq(Row) /\ cur \in Channels \cup {NoChannel}
      /\ recIds \in [Channels -> Nat]
      /\ pc \in HandlerPcs => cur \in Channels
  BY DEF IInv, TypeInv, DbType, MemType, MainType, HandlerHasChannel
<1>1. CASE Startup \/ Heartbeat \/ \E c \in Channels : StopWithoutSession(c)
  BY <1>0, <1>1, FailActiveGivesUp DEF Startup, Heartbeat, StopWithoutSession
<1>2. CASE CloseRow
  <2> DEFINE i == RowToFinalize(cur)
  <2>1. CASE i = 0
    BY <1>2, <2>1 DEF CloseRow
  <2>2. CASE i # 0
    <3>1. i \in DOMAIN rows /\ rows[i].st # "completed"
      BY <1>0, <1>2, <2>2, RowToFinalizeProps DEF CloseRow, HandlerPcs, IInv,
         CatalogueInv
    <3>2. rows' = SetRow(i, "completed") /\ UNCHANGED postQ
      BY <1>2, <2>2 DEF CloseRow
    <3> HIDE DEF i
    <3>3. Ledger!Complete(i)
      BY <3>1, <3>2 DEF Ledger!Complete, SetRow
    <3>4. QED
      BY <3>1, <3>3 DEF Ledger!Next
  <2>3. QED
    BY <2>1, <2>2
<1>3. CASE Announce \/ \E queued \in BOOLEAN : AnnounceFails(queued)
  <2>1. /\ pc = "announce" /\ UNCHANGED rows
        /\ postQ' = postQ \/ postQ' = Append(postQ, finRow)
    BY <1>3 DEF Announce, AnnounceFails
  <2>2. CASE postQ' = postQ
    BY <2>1, <2>2
  <2>3. CASE postQ' = Append(postQ, finRow)
    <3>1. /\ finRow \in DOMAIN rows /\ rows[finRow].st = "completed"
          /\ \A k \in DOMAIN postQ : postQ[k] # finRow
      BY <2>1 DEF IInv, CatalogueInv, AnnouncementIsDue
    <3>2. Ledger!Hand(finRow)
      BY <2>1, <2>3, <3>1 DEF Ledger!Hand
    <3>3. QED
      BY <3>1, <3>2 DEF Ledger!Next
  <2>4. QED
    BY <2>1, <2>2, <2>3
<1>4. CASE OpenRow
  <2>1. cur \in Channels
    BY <1>0, <1>4 DEF OpenRow, HandlerPcs
  <2>2. Ledger!Open(cur)
    BY <1>4 DEF OpenRow, Ledger!Open
  <2>3. QED
    BY <2>1, <2>2 DEF Ledger!Next
<1>5. CASE OpenCaptureFails
  <2> DEFINE i == recIds[cur]
  <2>1. /\ i # 0 /\ rows[i].st = "recording"
        /\ rows' = SetRow(i, "failed") /\ UNCHANGED postQ
    BY <1>5 DEF OpenCaptureFails, IInv, CatalogueInv, StartInHand
  <2>2. i \in DOMAIN rows
    BY <1>0, <1>5, <2>1
    DEF OpenCaptureFails, HandlerPcs, IInv, CatalogueInv, IdsAreOpen
  <2> HIDE DEF i
  <2>3. rows' = [j \in DOMAIN rows |->
                   IF j \in {i} THEN [rows[j] EXCEPT !.st = "failed"] ELSE rows[j]]
    BY <2>1, <2>2 DEF SetRow
  <2>4. Ledger!GiveUp({i})
    BY <2>1, <2>2, <2>3 DEF Ledger!GiveUp, Ledger!Active
  <2>5. {i} \in SUBSET DOMAIN rows
    BY <2>2
  <2>6. QED
    BY <2>4, <2>5 DEF Ledger!Next
<1>6. CASE UNCHANGED vars
  BY <1>6 DEF vars
<1>7. CASE SchedulerNext
  BY <1>7
  DEF SchedulerNext, RequestStep, Accept, AcceptAutoConnect, CommitIntent, Publish,
      RefreshAndStart, PublishFails, Undo, ApiCrash
<1>8. CASE Crash \/ Shutdown \/ Resume \/ Exit \/ (\E c \in Channels : SessionDies(c))
             \/ PopConnect \/ PopperDies
  BY <1>8 DEF Crash, Shutdown, Resume, Exit, SessionDies, PopConnect, PopperDies
<1>9. CASE \/ Drain \/ DrainFails \/ ApplyDone
           \/ \E c \in Channels : BeginDisconnect(c) \/ BeginStop(c) \/ BeginStart(c)
  BY <1>9 DEF Drain, DrainFails, ApplyDone, BeginDisconnect, BeginStop, BeginStart
<1>10. CASE \/ StopCapture \/ Teardown \/ MarkIdle \/ MarkStopped
            \/ DeferStart \/ AlreadyRecording \/ OpenCapture
  BY <1>10 DEF StopCapture, Teardown, MarkIdle, MarkStopped, DeferStart,
               AlreadyRecording, OpenCapture
<1>11. CASE (\E c \in Channels : ConnectJob(c)) \/ ConnectSucceeds \/ ConnectFails
  BY <1>11 DEF ConnectJob, AlreadyConnected, AtCapacity, BeginConnect, TakeConnectJob,
               ConnectSucceeds, ConnectFails
<1>12. QED
  BY <1>1, <1>2, <1>3, <1>4, <1>5, <1>6, <1>7, <1>8, <1>9, <1>10, <1>11
  DEF Next, WorkerNext, HandlerStep, WorkerFault

\* Control plane and worker together keep the ledger's promises: no row is
\* reopened, a completed row is final, only an active row is given up, and a
\* post-processing job is queued at most once and only for a completed row.
THEOREM FarmImplementsLedger == Spec => LedgerSpec
<1>1. Init => Ledger!Init
  BY DEF Init, Ledger!Init
<1>2. QED
  BY <1>1, InvariantAlways, LedgerStep, PTL DEF Spec, LedgerSpec, Ledger!Spec
=============================================================================
