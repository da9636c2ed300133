------------------------- MODULE FarmSessionProofs -------------------------
(***************************************************************************)
(* What the worker's sessions keep in IngestFarm under every kind of       *)
(* fault, for any channels, request slots and capacity: there are never    *)
(* more of them than the capacity, and a start that came before its        *)
(* session is not left waiting beside it.                                  *)
(***************************************************************************)
EXTENDS IngestFarmProofs, FiniteSetTheorems

\* Outside the signal handler nothing is interrupted.
LEMMA NotInterrupted ==
  ASSUME IInv, pc \notin NestedPcs \/ running
  PROVE  frame.pc = "down"
BY DEF IInv, NestedInv, OnlyDisconnects

\* The steps of Next, once its disjunctions are opened.
LEMMA FarmSteps ==
  ASSUME [Next]_vars
  PROVE  \/ UNCHANGED vars \/ SchedulerNext \/ Startup \/ Exit \/ Crash \/ Shutdown
         \/ Resume \/ PopConnect \/ PopperDies \/ Heartbeat
         \/ \E c \in Channels : SessionDies(c)
         \/ \E c \in Channels : AlreadyConnected(c) \/ AtCapacity(c)
         \/ \E c \in Channels : BeginConnect(c)
         \/ Drain \/ DrainFails \/ ApplyDone
         \/ \E c \in Channels :
              BeginDisconnect(c) \/ BeginStop(c) \/ StopWithoutSession(c)
         \/ \E c \in Channels : BeginStart(c)
         \/ StopCapture \/ CloseRow \/ Announce
         \/ \E queued \in BOOLEAN : AnnounceFails(queued)
         \/ Teardown \/ MarkIdle \/ MarkStopped
         \/ DeferStart \/ AlreadyRecording \/ OpenRow \/ OpenCapture \/ OpenCaptureFails
         \/ ConnectSucceeds \/ ConnectFails
BY DEF Next, WorkerNext, HandlerStep, WorkerFault, ConnectJob
-----------------------------------------------------------------------------
(* A start that waits for its session.                                     *)

\* The main thread, or the handler that SIGTERM has interrupted, is about to
\* serve the start of channel c.
ServingStart(c) ==
  \/ pc = "openRow" /\ cur = c
  \/ frame.pc = "openRow" /\ frame.cur = c

ServedInv == \A c \in pending : Live(c) => ServingStart(c)

\* Steps that leave a place where no start is served, add no start that waits
\* and bring up no session.
LEMMA ServedElsewhere ==
  ASSUME ServedInv, pc # "openRow", pending' \subseteq pending,
         \A c \in pending' : Live(c)' => Live(c),
         frame.pc = "openRow" => frame' = frame
  PROVE  ServedInv'
BY DEF ServedInv, ServingStart

\* The same where the main thread stays where it is.
LEMMA ServedFrame ==
  ASSUME ServedInv, UNCHANGED <<pending, pc, cur, frame>>,
         \A c \in pending : Live(c)' => Live(c)
  PROVE  ServedInv'
BY DEF ServedInv, ServingStart

LEMMA ServedProcess ==
  ASSUME IInv, ServedInv,
         Startup \/ Exit \/ Crash \/ Shutdown \/ Resume \/ \E c \in Channels : SessionDies(c)
  PROVE  ServedInv'
<1> USE DEF dbVars, redisVars, memVars, threadVars, mainVars
<1>1. CASE Startup
  BY <1>1, ServedElsewhere DEF Startup, Goto, Live
<1>2. CASE Exit \/ Crash
  <2>1. pending' = {}
    BY <1>2 DEF Exit, Crash, ForgetEverything
  <2>2. QED
    BY <2>1 DEF ServedInv
<1>3. CASE Shutdown
  <2>1. frame.pc = "down"
    BY <1>3, NotInterrupted DEF Shutdown
  <2>2. /\ UNCHANGED <<pending, registered, pipe>>
        /\ frame'.pc = pc /\ frame'.cur = cur
    BY <1>3 DEF Shutdown
  <2>3. QED
    BY <2>1, <2>2 DEF ServedInv, ServingStart, Live
<1>4. CASE Resume
  BY <1>4 DEF Resume, ServedInv, ServingStart, Live
<1>5. CASE \E c \in Channels : SessionDies(c)
  <2>1. PICK d \in Channels : SessionDies(d)
    BY <1>5
  <2>2. UNCHANGED <<pending, registered, pc, cur, frame>>
    BY <2>1 DEF SessionDies
  <2>3. \A c \in pending : pipe'[c] = "live" => pipe[c] = "live"
    BY <2>1 DEF SessionDies, IInv, TypeInv, MemType
  <2>4. QED
    BY <2>2, <2>3, ServedFrame DEF Live
<1>6. QED
  BY <1>1, <1>2, <1>3, <1>4, <1>5

LEMMA ServedTick ==
  ASSUME IInv, ServedInv,
         \/ Heartbeat \/ Drain \/ DrainFails \/ ApplyDone
         \/ \E c \in Channels :
              BeginDisconnect(c) \/ BeginStop(c) \/ StopWithoutSession(c) \/ BeginStart(c)
  PROVE  ServedInv'
<1> USE DEF dbVars, redisVars, memVars, threadVars, mainVars
<1>1. CASE Heartbeat
  <2>1. /\ pc = "loop" /\ pending' \subseteq pending /\ registered' \subseteq registered
        /\ UNCHANGED frame
        /\ pipe' = [c \in Channels |-> IF c \in DeadSessions THEN "none" ELSE pipe[c]]
    BY <1>1 DEF Heartbeat, Goto
  <2>2. pending \subseteq Channels
    BY DEF IInv, TypeInv, MemType
  <2>3. \A c \in pending' : pipe'[c] = "live" => pipe[c] = "live"
    BY <2>1, <2>2
  <2>4. QED
    BY <2>1, <2>3, ServedElsewhere DEF Live
<1>2. CASE Drain \/ ApplyDone
  BY <1>2, ServedElsewhere DEF Drain, DrainSteps, ApplyDone, Goto, Live
<1>3. CASE DrainFails
  <2>1. frame.pc = "down"
    BY <1>3, NotInterrupted DEF DrainFails, DrainSteps, NestedPcs
  <2>2. pc # "openRow" /\ UNCHANGED <<pending, registered, pipe>>
    BY <1>3 DEF DrainFails, DrainSteps
  <2>3. QED
    BY <2>1, <2>2, ServedElsewhere DEF Live
<1>4. CASE \E c \in Channels :
             BeginDisconnect(c) \/ BeginStop(c) \/ StopWithoutSession(c) \/ BeginStart(c)
  <2>1. /\ pc = "apply" /\ pending' \subseteq pending /\ registered' \subseteq registered
        /\ UNCHANGED <<pipe, frame>>
    BY <1>4 DEF BeginDisconnect, BeginStop, StopWithoutSession, BeginStart, EnterHandler
  <2>2. QED
    BY <2>1, ServedElsewhere DEF Live
<1>5. QED
  BY <1>1, <1>2, <1>3, <1>4

LEMMA ServedHandlers ==
  ASSUME IInv, ServedInv,
         \/ StopCapture \/ CloseRow \/ Announce \/ Teardown \/ MarkIdle \/ MarkStopped
         \/ \E queued \in BOOLEAN : AnnounceFails(queued)
         \/ DeferStart \/ AlreadyRecording \/ OpenRow \/ OpenCapture \/ OpenCaptureFails
  PROVE  ServedInv'
<1> USE DEF dbVars, redisVars, memVars, threadVars, mainVars
<1>1. CASE StopCapture \/ CloseRow \/ Announce \/ MarkIdle \/ MarkStopped
             \/ OpenCapture \/ OpenCaptureFails
  <2>1. pc # "openRow" /\ UNCHANGED <<pending, registered, pipe, frame>>
    BY <1>1 DEF StopCapture, CloseRow, Announce, MarkIdle, MarkStopped, OpenCapture,
                OpenCaptureFails, Goto, Return
  <2>2. QED
    BY <2>1, ServedElsewhere DEF Live
<1>2. CASE Teardown \/ \E queued \in BOOLEAN : AnnounceFails(queued)
  <2>1. /\ pc # "openRow" /\ UNCHANGED <<pending, registered>>
        /\ pipe' = pipe \/ pipe' = [pipe EXCEPT ![cur] = "none"]
        /\ UNCHANGED frame \/ frame.pc \in {"down", "loop"}
    BY <1>2 DEF Teardown, AnnounceFails, Goto
  <2>2. \A c \in pending : pipe'[c] = "live" => pipe[c] = "live"
    BY <2>1 DEF IInv, TypeInv, MemType
  <2>3. QED
    BY <2>1, <2>2, ServedElsewhere DEF Live
<1>3. CASE DeferStart \/ AlreadyRecording \/ OpenRow
  <2>1. /\ pc = "openRow" /\ UNCHANGED <<registered, pipe, frame>>
        /\ \A c \in pending' : Live(c) => c # cur /\ c \in pending
    BY <1>3 DEF DeferStart, AlreadyRecording, OpenRow, Goto, Return
  <2>2. QED
    BY <2>1 DEF ServedInv, ServingStart, Live
<1>4. QED
  BY <1>1, <1>2, <1>3

LEMMA ServedConnects ==
  ASSUME IInv, ServedInv,
         \/ \E c \in Channels : AlreadyConnected(c) \/ AtCapacity(c) \/ BeginConnect(c)
         \/ ConnectSucceeds \/ ConnectFails
  PROVE  ServedInv'
<1> USE DEF dbVars, redisVars, memVars, threadVars, mainVars
<1>1. CASE \/ \E c \in Channels : AlreadyConnected(c) \/ AtCapacity(c) \/ BeginConnect(c)
           \/ ConnectFails
  <2>1. pc # "openRow" /\ UNCHANGED <<pending, registered, pipe, frame>>
    BY <1>1 DEF AlreadyConnected, AtCapacity, BeginConnect, ConnectFails, TakeConnectJob
  <2>2. QED
    BY <2>1, ServedElsewhere DEF Live
<1>2. CASE ConnectSucceeds
  <2>1. /\ pc = "connecting" /\ UNCHANGED <<pending, frame>>
        /\ registered' = registered \cup {cur}
        /\ pipe' = [pipe EXCEPT ![cur] = "live"]
        /\ cur \in pending => pc' = "openRow" /\ cur' = cur
    BY <1>2 DEF ConnectSucceeds, ConnectEnds
  <2>2. \A c \in pending : c # cur /\ Live(c)' => Live(c)
    BY <2>1 DEF Live, IInv, TypeInv, MemType
  <2>3. QED
    BY <2>1, <2>2 DEF ServedInv, ServingStart
<1>3. QED
  BY <1>1, <1>2

LEMMA ServedStep == IInv /\ ServedInv /\ [Next]_vars => ServedInv'
<1> SUFFICES ASSUME IInv, ServedInv, [Next]_vars
             PROVE  ServedInv'
  OBVIOUS
<1>1. CASE UNCHANGED vars \/ SchedulerNext \/ PopConnect \/ PopperDies
  <2>1. UNCHANGED <<pending, registered, pipe, pc, cur, frame>>
    BY <1>1
    DEF vars, dbVars, redisVars, memVars, threadVars, mainVars, SchedulerNext,
        RequestStep, Accept, AcceptAutoConnect, CommitIntent, Publish, RefreshAndStart,
        PublishFails, Undo, ApiCrash, PopConnect, PopperDies
  <2>2. QED
    BY <2>1, ServedFrame DEF Live
<1>2. QED
  BY <1>1, ServedProcess, ServedTick, ServedHandlers, ServedConnects, FarmSteps

\* Whenever the main thread is back in the loop, no start waits beside a
\* running session of its channel: sessions may die, requests overlap, Redis
\* fail and signals interrupt any handler.
THEOREM DeferredStartsAreServed == Spec => []DeferredStartIsServed
<1>1. Init => ServedInv
  BY DEF Init, ServedInv
<1>2. IInv /\ ServedInv => DeferredStartIsServed
  <2> SUFFICES ASSUME IInv, ServedInv, pc = "loop", NEW c \in pending, Live(c)
               PROVE  FALSE
    BY DEF DeferredStartIsServed
  <2>1. frame.pc = "down"
    BY NotInterrupted DEF NestedPcs
  <2>2. QED
    BY <2>1 DEF ServedInv, ServingStart
<1>3. QED
  BY <1>1, <1>2, ServedStep, InvariantAlways, PTL DEF Spec
-----------------------------------------------------------------------------
(* The capacity.                                                           *)

\* A connect that is under way, or that SIGTERM has interrupted, still has
\* the room it had found.
Room == Cardinality(registered) < Capacity

CapacityInv ==
  /\ Cardinality(registered) <= Capacity
  /\ pc = "connecting" \/ frame.pc = "connecting" => Room

\* Sessions may go, and nothing begins to connect.
LEMMA CapacityShrinks ==
  ASSUME IInv, CapacityInv, registered' \subseteq registered,
         pc' = "connecting" \/ frame'.pc = "connecting" =>
           pc = "connecting" \/ frame.pc = "connecting"
  PROVE  CapacityInv'
<1>1. IsFiniteSet(registered)
  BY ChannelsAssumption, FS_Subset DEF IInv, TypeInv, MemType
<1>2. /\ Cardinality(registered) \in Nat /\ Cardinality(registered') \in Nat
      /\ Cardinality(registered') <= Cardinality(registered)
  BY <1>1, FS_Subset, FS_CardinalityType
<1>3. QED
  BY <1>2, BoundAssumption DEF CapacityInv, Room

LEMMA CapacityGrows ==
  ASSUME IInv, CapacityInv, ConnectSucceeds
  PROVE  CapacityInv'
<1>1. /\ pc = "connecting" /\ pc' # "connecting" /\ UNCHANGED frame
      /\ registered' = registered \cup {cur}
  BY DEF ConnectSucceeds, ConnectEnds
<1>2. frame.pc = "down"
  BY <1>1, NotInterrupted DEF NestedPcs
<1>3. IsFiniteSet(registered)
  BY ChannelsAssumption, FS_Subset DEF IInv, TypeInv, MemType
<1>4. Cardinality(registered) \in Nat
  BY <1>3, FS_CardinalityType
<1>5. \/ Cardinality(registered') = Cardinality(registered)
      \/ Cardinality(registered') = Cardinality(registered) + 1
  <2>1. Cardinality(registered \cup {cur}) =
          IF cur \in registered THEN Cardinality(registered) ELSE Cardinality(registered) + 1
    BY <1>3, FS_AddElement
  <2>2. QED
    BY <1>1, <2>1
<1>6. QED
  BY <1>1, <1>2, <1>4, <1>5, BoundAssumption DEF CapacityInv, Room

LEMMA CapacityStep == IInv /\ CapacityInv /\ [Next]_vars => CapacityInv'
<1> SUFFICES ASSUME IInv, CapacityInv, [Next]_vars
             PROVE  CapacityInv'
  OBVIOUS
<1> USE DEF dbVars, redisVars, memVars, threadVars, mainVars
<1>1. CASE UNCHANGED vars \/ SchedulerNext \/ PopConnect \/ PopperDies
           \/ \E c \in Channels : SessionDies(c)
  <2>1. UNCHANGED <<registered, pc, frame>>
    BY <1>1
    DEF vars, SchedulerNext, RequestStep, Accept, AcceptAutoConnect, CommitIntent,
        Publish, RefreshAndStart, PublishFails, Undo, ApiCrash, PopConnect, PopperDies,
        SessionDies
  <2>2. QED
    BY <2>1, CapacityShrinks
<1>2. CASE Startup \/ Exit \/ Crash \/ Shutdown \/ Resume
  <2>1. /\ registered' = registered \/ registered' = {}
        /\ pc' = "connecting" \/ frame'.pc = "connecting" =>
             pc = "connecting" \/ frame.pc = "connecting"
    BY <1>2 DEF Startup, Exit, Crash, Shutdown, Resume, ForgetEverything, Goto, NoFrame
  <2>2. QED
    BY <2>1, CapacityShrinks
<1>3. CASE \/ Heartbeat \/ Drain \/ DrainFails \/ ApplyDone
           \/ \E c \in Channels : BeginDisconnect(c) \/ BeginStop(c) \/ StopWithoutSession(c)
           \/ \E c \in Channels : BeginStart(c)
  <2>1. /\ registered' \subseteq registered
        /\ frame' = frame \/ frame' = NoFrame
    BY <1>3
    DEF Heartbeat, Drain, DrainFails, ApplyDone, BeginDisconnect, BeginStop,
        StopWithoutSession, BeginStart, EnterHandler, AbortTick, Goto
  <2>2. pc' # "connecting"
    <3>1. CASE Heartbeat \/ Drain \/ DrainFails \/ ApplyDone
      BY <3>1 DEF Heartbeat, Drain, DrainSteps, DrainFails, ApplyDone, AbortTick, Goto
    <3>2. ASSUME NEW c \in Channels
          PROVE  FinalizeLabel(c, "markStopped") # "connecting"
      BY DEF FinalizeLabel
    <3>3. CASE \E c \in Channels : \/ BeginDisconnect(c) \/ BeginStop(c)
                                  \/ StopWithoutSession(c) \/ BeginStart(c)
      BY <3>2, <3>3
      DEF BeginDisconnect, BeginStop, StopWithoutSession, BeginStart, EnterHandler
    <3>4. QED
      BY <1>3, <3>1, <3>3
  <2>3. QED
    BY <2>1, <2>2, CapacityShrinks DEF NoFrame
<1>4. CASE \/ StopCapture \/ CloseRow \/ Announce \/ Teardown \/ MarkIdle \/ MarkStopped
           \/ \E queued \in BOOLEAN : AnnounceFails(queued)
  <2>1. /\ UNCHANGED registered /\ pc' # "connecting"
        /\ frame' = frame \/ frame' = NoFrame
    BY <1>4
    DEF StopCapture, CloseRow, Announce, Teardown, MarkIdle, MarkStopped, AnnounceFails,
        AfterFinalize, AbortTick, Goto, Return
  <2>2. QED
    BY <2>1, CapacityShrinks DEF NoFrame
<1>5. CASE \/ DeferStart \/ AlreadyRecording \/ OpenRow \/ OpenCapture \/ OpenCaptureFails
           \/ ConnectFails
           \/ \E c \in Channels : AlreadyConnected(c) \/ AtCapacity(c)
  <2>1. UNCHANGED <<registered, frame>> /\ pc' # "connecting"
    BY <1>5
    DEF DeferStart, AlreadyRecording, OpenRow, OpenCapture, OpenCaptureFails,
        ConnectFails, AlreadyConnected, AtCapacity, TakeConnectJob, ConnectEnds, Goto,
        Return
  <2>2. QED
    BY <2>1, CapacityShrinks
<1>6. CASE \E c \in Channels : BeginConnect(c)
  <2>1. UNCHANGED registered /\ Room
    BY <1>6 DEF BeginConnect, TakeConnectJob, Room
  <2>2. QED
    BY <2>1 DEF CapacityInv, Room
<1>7. QED
  BY <1>1, <1>2, <1>3, <1>4, <1>5, <1>6, CapacityGrows, FarmSteps

\* The worker never holds more sessions than its capacity, although the room
\* is looked for long before the session is added.
THEOREM CapacityIsKept == Spec => []CapacityHolds
<1>1. Init => CapacityInv
  <2> SUFFICES ASSUME Init
               PROVE  CapacityInv
    OBVIOUS
  <2>1. registered = {} /\ Cardinality({}) = 0
    BY FS_EmptySet DEF Init
  <2>2. QED
    BY <2>1, BoundAssumption DEF CapacityInv, Room
<1>2. CapacityInv => CapacityHolds
  BY DEF CapacityInv, CapacityHolds
<1>3. QED
  BY <1>1, <1>2, CapacityStep, InvariantAlways, PTL DEF Spec
=============================================================================
