--------------------------- MODULE SrtSessionProofs -------------------------
(***************************************************************************)
(* Invariants of SrtSession and its refinement of CaptureGate, for any     *)
(* number of sessions, recordings, resets and faults.                      *)
(***************************************************************************)
EXTENDS SrtSession, TLAPS

-----------------------------------------------------------------------------
(* The inductive invariant.                                                *)

\* A child that cuts or applies has lines to apply.
IsWhole(k) == k \in Kid /\ (k.ph \in {"cut", "apply"} => k.lines # <<>>)

\* TypeOK and that, one part for each owner.  Children not yet spawned are as
\* Init made them.
WorkerType ==
  /\ wpc \in {"none", "spawning", "up", "starting", "stopping", "lastStop",
              "leaving", "quitting"}
  /\ gen \in 0 .. MaxSessions
  /\ wpc # "none" => gen \in Kids
  /\ believed \in Nat /\ takes \in Nat

FilesType ==
  /\ cmds \in Seq(Line)
  /\ ready \in BOOLEAN /\ resetFile \in BOOLEAN
  /\ shown \in {"absent", "no", "yes"}

KidsType ==
  /\ kid \in [Kids -> Kid]
  /\ \A g \in Kids : IsWhole(kid[g]) /\ (g > gen => kid[g] = Unborn)

HistoryType == trust \in BOOLEAN /\ orphans \subseteq Kids

LeftType == left \in [resets : Nat, faults : Nat]

TypeInv == WorkerType /\ FilesType /\ KidsType /\ HistoryType /\ LeftType

\* What the worker believes follows from the call it is in.
Believes ==
  /\ wpc \in {"none", "spawning", "starting", "leaving", "quitting"} => believed = 0
  /\ StopWaits => believed # 0
  /\ wpc = "starting" => takes # 0

\* A trusted session is alone.
Sole == trust => \A g \in Kids : Alive(g) => g = gen /\ wpc # "none"

\* Until it has announced itself, nobody has: the connect still waits.
Boots ==
  trust /\ Own /\ kid[gen].ph \in {"boot", "build"} => wpc = "spawning" /\ ~ready

\* Lines that nothing waits for, and lines with one command, of the present
\* call.
Quiet(s) == \A i \in DOMAIN s : s[i].op = "reset"

OneOf(s, op, take) ==
  /\ \A i \in DOMAIN s : s[i].op = "reset" \/ (s[i].op = op /\ s[i].take = take)
  /\ \A i, j \in DOMAIN s : s[i].op # "reset" /\ s[j].op # "reset" => i = j

\* The child writes this take, or none.
Holds(b) == kid[gen].capture = b /\ kid[gen].flag = (b # 0)

\* status.json does not contradict that.
Says(b) == shown \in IF b # 0 THEN {"yes"} ELSE {"absent", "no"}

NothingAsked == Quiet(cmds) /\ Quiet(kid[gen].lines)

\* At most one command is under way: in the file, or read from it.
Asked(op, take) ==
  /\ OneOf(cmds, op, take) /\ OneOf(kid[gen].lines, op, take)
  /\ kid[gen].ph # "cut" => Quiet(cmds) \/ Quiet(kid[gen].lines)

AtRest == Holds(believed) /\ Says(believed) /\ NothingAsked

Starting ==
  \/ Holds(0) /\ Says(0) /\ Asked("record", takes)
  \/ Holds(takes) /\ NothingAsked

Stopping ==
  \/ Holds(believed) /\ Says(believed) /\ Asked("stop", 0)
  \/ Holds(0) /\ NothingAsked

Leaving == Holds(0) /\ Asked("quit", 0)

\* What child and files are up to follows from the call the worker is in.
Tracks ==
  trust /\ Own =>
    /\ wpc \in {"spawning", "up", "leaving"} => AtRest
    /\ wpc = "starting" => Starting
    /\ StopWaits => Stopping
    /\ wpc = "quitting" => Leaving

GateInv == Believes /\ Sole /\ Boots /\ Tracks

SInv == TypeInv /\ ChildHasSession /\ GateInv
-----------------------------------------------------------------------------
(* Type correctness: lemmas about the parts of the state.                  *)

LEMMA KidPhases ==
  Unborn \in Kid /\ Gone \in Kid /\ Unborn.ph = "unborn" /\ Gone.ph = "gone"
  <1>1. <<>> \in Seq(Line)
    OBVIOUS
  <1>2. Unborn \in Kid /\ Unborn.ph = "unborn"
    BY <1>1 DEF Unborn, Kid, Phases
  <1>3. Gone \in Kid /\ Gone.ph = "gone"
    BY <1>2 DEF Gone, Kid, Phases
  <1> QED BY <1>2, <1>3

\* Only spawned children run.
LEMMA AliveIsSpawned ==
  ASSUME TypeInv, NEW g \in Kids, Alive(g)
  PROVE  g <= gen
  BY DEF TypeInv, WorkerType, KidsType, Alive, Unborn, Kids

LEMMA KidChanges ==
  ASSUME TypeInv, NEW g \in Kids, g <= gen, NEW k, IsWhole(k),
         kid' = [kid EXCEPT ![g] = k], gen' = gen
  PROVE  KidsType'
  <1>1. kid' \in [Kids -> Kid]
    BY DEF TypeInv, KidsType, IsWhole
  <1>2. ASSUME NEW h \in Kids PROVE IsWhole(kid'[h])
    BY DEF TypeInv, KidsType
  <1>3. ASSUME NEW h \in Kids, h > gen PROVE kid'[h] = Unborn
    <2>1. h # g BY <1>3 DEF TypeInv, WorkerType, Kids
    <2> QED BY <1>3, <2>1 DEF TypeInv, KidsType
  <1> QED BY <1>1, <1>2, <1>3 DEF KidsType, IsWhole

LEMMA KidsStay ==
  ASSUME TypeInv, kid' = kid, gen' = gen
  PROVE  KidsType'
  BY DEF TypeInv, KidsType, IsWhole

LEMMA CutKidIsWhole ==
  ASSUME TypeInv, NEW g \in Kids, NEW p \in Phases \ {"cut", "apply"}
  PROVE  IsWhole([kid[g] EXCEPT !.ph = p])
  BY DEF TypeInv, KidsType, IsWhole, Kid

LEMMA SpendsLeft ==
  ASSUME TypeInv, NEW b \in {"resets", "faults"}, Spend(b)
  PROVE  LeftType'
  BY DEF TypeInv, LeftType, Spend

LEMMA SendsLine ==
  ASSUME TypeInv, NEW op \in {"record", "stop", "quit", "reset"}, NEW take \in Nat,
         Send(op, take)
  PROVE  cmds' \in Seq(Line)
  <1>1. [op |-> op, take |-> take] \in Line BY DEF Line
  <1> QED BY <1>1 DEF TypeInv, FilesType, Send

LEMMA TypeInit == Init => TypeInv
  <1> SUFFICES ASSUME Init PROVE TypeInv
    OBVIOUS
  <1>1. KidsType BY KidPhases DEF Init, KidsType, IsWhole
  <1>2. FilesType
    <2>1. cmds \in Seq(Line) BY DEF Init
    <2> QED BY <2>1 DEF Init, FilesType
  <1> QED
    BY <1>1, <1>2, BoundAssumption DEF Init, TypeInv, WorkerType, HistoryType, LeftType

LEMMA TypeImplies == TypeInv => TypeOK
  BY DEF TypeInv, TypeOK, WorkerType, FilesType, KidsType, HistoryType, LeftType

-----------------------------------------------------------------------------
(* Type correctness: the worker.                                           *)

LEMMA TypeConnect == TypeInv /\ Connect => TypeInv'
  <1> SUFFICES ASSUME TypeInv, Connect PROVE TypeInv'
    OBVIOUS
  <1>1. gen + 1 \in Kids /\ gen' = gen + 1 /\ gen \in Nat
    BY BoundAssumption DEF TypeInv, WorkerType, Connect, Kids
  <1>2. kid' = [kid EXCEPT ![gen + 1] = [kid[gen + 1] EXCEPT !.ph = "boot"]]
    BY DEF Connect
  <1>3. IsWhole([kid[gen + 1] EXCEPT !.ph = "boot"])
    BY <1>1, CutKidIsWhole DEF Phases
  <1>4. KidsType'
    <2>1. kid' \in [Kids -> Kid]
      BY <1>2, <1>3 DEF TypeInv, KidsType, IsWhole
    <2>2. ASSUME NEW h \in Kids PROVE IsWhole(kid'[h])
      BY <1>2, <1>3 DEF TypeInv, KidsType
    <2>3. ASSUME NEW h \in Kids, h > gen + 1 PROVE kid'[h] = Unborn
      <3>1. h > gen /\ h # gen + 1 BY <1>1, <2>3 DEF Kids
      <3> QED BY <1>2, <3>1 DEF TypeInv, KidsType
    <2> QED BY <1>1, <2>1, <2>2, <2>3 DEF KidsType, IsWhole
  <1>5. WorkerType'
    BY <1>1, BoundAssumption DEF TypeInv, WorkerType, Connect, Kids
  <1>6. trust' \in BOOLEAN BY DEF Connect
  <1>7. FilesType'
    <2>1. cmds' \in Seq(Line) BY DEF Connect
    <2> QED BY <2>1 DEF FilesType, Connect
  <1> QED
    BY <1>4, <1>5, <1>6, <1>7 DEF TypeInv, HistoryType, LeftType, Connect

LEMMA TypeConnectReady == TypeInv /\ ConnectReady => TypeInv'
  <1> SUFFICES ASSUME TypeInv, ConnectReady PROVE TypeInv'
    OBVIOUS
  <1>1. KidsType' BY KidsStay DEF ConnectReady, workerVars
  <1> QED
    BY <1>1 DEF ConnectReady, TypeInv, WorkerType, FilesType, HistoryType, LeftType,
       workerVars, fileVars, history

LEMMA TypeConnectFails == TypeInv /\ ConnectFails => TypeInv'
  <1> SUFFICES ASSUME TypeInv, ConnectFails PROVE TypeInv'
    OBVIOUS
  <1>1. gen \in Kids BY DEF TypeInv, WorkerType, ConnectFails
  <1>2. IsWhole(Gone) BY KidPhases DEF IsWhole, Gone
  <1>3. gen <= gen /\ gen' = gen /\ kid' = [kid EXCEPT ![gen] = Gone]
    BY <1>1 DEF ConnectFails, Kids
  <1>4. KidsType' BY <1>1, <1>2, <1>3, KidChanges
  <1> QED
    BY <1>4 DEF ConnectFails, TypeInv, WorkerType, FilesType, HistoryType, LeftType,
       fileVars, history

LEMMA TypeStartRecording == TypeInv /\ StartRecording => TypeInv'
  <1> SUFFICES ASSUME TypeInv, StartRecording PROVE TypeInv'
    OBVIOUS
  <1>1. KidsType' BY KidsStay DEF StartRecording, workerVars
  <1>2. cmds' \in Seq(Line) BY SendsLine DEF StartRecording, TypeInv, WorkerType
  <1> QED
    BY <1>1, <1>2 DEF StartRecording, TypeInv, WorkerType, FilesType, HistoryType,
       LeftType,
       workerVars, fileVars, history

LEMMA TypeStartAcknowledged == TypeInv /\ StartAcknowledged => TypeInv'
  <1> SUFFICES ASSUME TypeInv, StartAcknowledged PROVE TypeInv'
    OBVIOUS
  <1>1. KidsType' BY KidsStay DEF StartAcknowledged, workerVars
  <1> QED
    BY <1>1 DEF StartAcknowledged, TypeInv, WorkerType, FilesType, HistoryType,
       LeftType,
       workerVars, fileVars, history

LEMMA TypeStartUnacknowledged == TypeInv /\ StartUnacknowledged => TypeInv'
  <1> SUFFICES ASSUME TypeInv, StartUnacknowledged PROVE TypeInv'
    OBVIOUS
  <1>1. KidsType' BY KidsStay DEF StartUnacknowledged, workerVars
  <1> QED
    BY <1>1 DEF StartUnacknowledged, TypeInv, WorkerType, FilesType, HistoryType,
       LeftType,
       workerVars, fileVars, history

LEMMA TypeStopRecording == TypeInv /\ StopRecording => TypeInv'
  <1> SUFFICES ASSUME TypeInv, StopRecording PROVE TypeInv'
    OBVIOUS
  <1>1. KidsType' BY KidsStay DEF StopRecording, workerVars
  <1>2. cmds' \in Seq(Line) BY SendsLine DEF StopRecording, TypeInv, WorkerType
  <1> QED
    BY <1>1, <1>2 DEF StopRecording, TypeInv, WorkerType, FilesType, HistoryType,
       LeftType,
       workerVars, fileVars, history

LEMMA TypeStopAcknowledged == TypeInv /\ StopAcknowledged => TypeInv'
  <1> SUFFICES ASSUME TypeInv, StopAcknowledged PROVE TypeInv'
    OBVIOUS
  <1>1. KidsType' BY KidsStay DEF StopAcknowledged, workerVars, StopWaits, StopReturns
  <1> QED
    BY <1>1 DEF StopAcknowledged, TypeInv, WorkerType, FilesType, HistoryType, LeftType,
       workerVars, fileVars, history, StopWaits, StopReturns

LEMMA TypeStopUnacknowledged == TypeInv /\ StopUnacknowledged => TypeInv'
  <1> SUFFICES ASSUME TypeInv, StopUnacknowledged PROVE TypeInv'
    OBVIOUS
  <1>1. KidsType' BY KidsStay DEF StopUnacknowledged, workerVars, StopWaits, StopReturns
  <1> QED
    BY <1>1 DEF StopUnacknowledged, TypeInv, WorkerType, FilesType, HistoryType,
       LeftType,
       workerVars, fileVars, history, StopWaits, StopReturns

LEMMA TypeResetEtr290 == TypeInv /\ ResetEtr290 => TypeInv'
  <1> SUFFICES ASSUME TypeInv, ResetEtr290 PROVE TypeInv'
    OBVIOUS
  <1>1. KidsType' BY KidsStay DEF ResetEtr290, workerVars
  <1>2. cmds' \in Seq(Line) /\ LeftType' BY SendsLine, SpendsLeft DEF ResetEtr290
  <1> QED
    BY <1>1, <1>2 DEF ResetEtr290, TypeInv, WorkerType, FilesType, HistoryType,
       LeftType,
       workerVars, fileVars, history

LEMMA TypeDisconnect == TypeInv /\ Disconnect => TypeInv'
  <1> SUFFICES ASSUME TypeInv, Disconnect PROVE TypeInv'
    OBVIOUS
  <1>1. KidsType' BY KidsStay DEF Disconnect, workerVars
  <1>2. cmds' \in Seq(Line)
    BY SendsLine DEF Disconnect, TypeInv, FilesType
  <1> QED
    BY <1>1, <1>2 DEF Disconnect, TypeInv, WorkerType, FilesType, HistoryType, LeftType,
       workerVars, fileVars, history

LEMMA TypeSendQuit == TypeInv /\ SendQuit => TypeInv'
  <1> SUFFICES ASSUME TypeInv, SendQuit PROVE TypeInv'
    OBVIOUS
  <1>1. KidsType' BY KidsStay DEF SendQuit, workerVars
  <1>2. cmds' \in Seq(Line) BY SendsLine DEF SendQuit, TypeInv, WorkerType
  <1> QED
    BY <1>1, <1>2 DEF SendQuit, TypeInv, WorkerType, FilesType, HistoryType, LeftType,
       workerVars, fileVars, history

LEMMA TypeTeardown == TypeInv /\ Teardown => TypeInv'
  <1> SUFFICES ASSUME TypeInv, Teardown PROVE TypeInv'
    OBVIOUS
  <1>1. gen \in Kids BY DEF TypeInv, WorkerType, Teardown
  <1>2. IsWhole(Gone) BY KidPhases DEF IsWhole, Gone
  <1>3. gen <= gen /\ gen' = gen /\ kid' = [kid EXCEPT ![gen] = Gone]
    BY <1>1 DEF Teardown, Kids
  <1>4. KidsType' BY <1>1, <1>2, <1>3, KidChanges
  <1> QED
    BY <1>4 DEF Teardown, TypeInv, WorkerType, FilesType, HistoryType, LeftType,
       fileVars, history

LEMMA TypeWorkerDies == TypeInv /\ WorkerDies => TypeInv'
  <1> SUFFICES ASSUME TypeInv, WorkerDies PROVE TypeInv'
    OBVIOUS
  <1>1. LeftType' BY SpendsLeft DEF WorkerDies
  <1>2. KidsType' /\ orphans' \subseteq Kids
    <2>1. CASE kid' = [g \in Kids |-> IF Alive(g) THEN Gone ELSE kid[g]] /\ UNCHANGED orphans
      <3>1. ASSUME NEW h \in Kids
            PROVE  /\ kid'[h] \in Kid /\ IsWhole(kid'[h])
                   /\ h > gen => kid'[h] = Unborn
        <4>1. CASE Alive(h)
          <5>1. kid'[h] = Gone BY <2>1, <4>1
          <5>2. h <= gen BY <4>1, AliveIsSpawned
          <5> QED BY <5>1, <5>2, KidPhases DEF IsWhole, TypeInv, WorkerType, Kids
        <4>2. CASE ~Alive(h)
          <5>1. kid'[h] = kid[h] BY <2>1, <4>2
          <5> QED BY <5>1 DEF TypeInv, KidsType, IsWhole
        <4> QED BY <4>1, <4>2
      <3>2. kid' \in [Kids -> Kid] BY <2>1, <3>1
      <3> QED
        BY <2>1, <3>1, <3>2 DEF KidsType, IsWhole, WorkerDies, TypeInv, HistoryType
    <2>2. CASE orphans' = {g \in Kids : Alive(g)} /\ UNCHANGED kid
      BY <2>2, KidsStay DEF WorkerDies
    <2> QED BY <2>1, <2>2 DEF WorkerDies
  <1> QED
    BY <1>1, <1>2 DEF WorkerDies, TypeInv, WorkerType, FilesType, HistoryType, fileVars

LEMMA TypeSessionLost == TypeInv /\ SessionLost => TypeInv'
  <1> SUFFICES ASSUME TypeInv, SessionLost PROVE TypeInv'
    OBVIOUS
  <1>1. KidsType' BY KidsStay DEF SessionLost, workerVars
  <1>2. LeftType' BY SpendsLeft DEF SessionLost
  <1> QED
    BY <1>1, <1>2 DEF SessionLost, TypeInv, WorkerType, FilesType, HistoryType,
       LeftType,
       workerVars, fileVars, history

LEMMA TypeDropDead == TypeInv /\ DropDead => TypeInv'
  <1> SUFFICES ASSUME TypeInv, DropDead PROVE TypeInv'
    OBVIOUS
  <1>1. KidsType' BY KidsStay DEF DropDead, workerVars
  <1> QED
    BY <1>1 DEF DropDead, TypeInv, WorkerType, FilesType, HistoryType, LeftType,
       workerVars, fileVars, history

LEMMA TypeMonitorTakesReset == TypeInv /\ MonitorTakesReset => TypeInv'
  <1> SUFFICES ASSUME TypeInv, MonitorTakesReset PROVE TypeInv'
    OBVIOUS
  <1>1. KidsType' BY KidsStay DEF MonitorTakesReset, workerVars
  <1> QED
    BY <1>1 DEF MonitorTakesReset, TypeInv, WorkerType, FilesType, HistoryType,
       LeftType,
       workerVars, fileVars, history

-----------------------------------------------------------------------------
(* Type correctness: a child.                                              *)

\* A step of a child leaves worker and history alone.
LEMMA TypeChild ==
  ASSUME TypeInv, NEW g \in Kids, Alive(g), NEW k, IsWhole(k),
         kid' = [kid EXCEPT ![g] = k], UNCHANGED <<workerVars, history>>,
         FilesType', LeftType'
  PROVE  TypeInv'
  <1>1. KidsType' BY AliveIsSpawned, KidChanges DEF workerVars
  <1> QED
    BY <1>1 DEF TypeInv, WorkerType, HistoryType, workerVars, history

LEMMA TypeClearCmds ==
  ASSUME TypeInv, NEW g \in Kids, ClearCmds(g)
  PROVE  TypeInv'
  <1> DEFINE k == [kid[g] EXCEPT !.ph = "build"]
  <1>1. Alive(g) /\ kid' = [kid EXCEPT ![g] = k]
    BY DEF ClearCmds, Alive, At, To, Applies, Applied
  <1>2. IsWhole(k)
    BY CutKidIsWhole DEF Phases
  <1>3. FilesType' BY DEF TypeInv, FilesType, fileVars, ClearCmds
  <1>4. LeftType' BY DEF TypeInv, LeftType, ClearCmds
  <1> HIDE DEF k
  <1> QED BY <1>1, <1>2, <1>3, <1>4, TypeChild DEF ClearCmds

LEMMA TypeBuildFails ==
  ASSUME TypeInv, NEW g \in Kids, BuildFails(g)
  PROVE  TypeInv'
  <1> DEFINE k == Gone
  <1>1. Alive(g) /\ kid' = [kid EXCEPT ![g] = k]
    BY DEF BuildFails, Alive, At, To, Applies, Applied
  <1>2. IsWhole(k)
    BY KidPhases DEF IsWhole, Gone
  <1>3. FilesType' BY DEF TypeInv, FilesType, fileVars, BuildFails
  <1>4. LeftType' BY SpendsLeft DEF BuildFails
  <1> HIDE DEF k
  <1> QED BY <1>1, <1>2, <1>3, <1>4, TypeChild DEF BuildFails

LEMMA TypeAnnounce ==
  ASSUME TypeInv, NEW g \in Kids, Announce(g)
  PROVE  TypeInv'
  <1> DEFINE k == [kid[g] EXCEPT !.ph = "announced"]
  <1>1. Alive(g) /\ kid' = [kid EXCEPT ![g] = k]
    BY DEF Announce, Alive, At, To, Applies, Applied
  <1>2. IsWhole(k)
    BY CutKidIsWhole DEF Phases
  <1>3. FilesType' BY DEF TypeInv, FilesType, fileVars, Announce
  <1>4. LeftType' BY DEF TypeInv, LeftType, Announce
  <1> HIDE DEF k
  <1> QED BY <1>1, <1>2, <1>3, <1>4, TypeChild DEF Announce

LEMMA TypeWriteStatus ==
  ASSUME TypeInv, NEW g \in Kids, WriteStatus(g)
  PROVE  TypeInv'
  <1> DEFINE k == IF At(g, "announced") THEN [kid[g] EXCEPT !.ph = "show"]
              ELSE [kid[g] EXCEPT !.ph = "read"]
  <1>1. Alive(g) /\ kid' = [kid EXCEPT ![g] = k]
    BY DEF WriteStatus, Alive, At, To, Applies, Applied
  <1>2. IsWhole(k)
    BY CutKidIsWhole DEF Phases
  <1>3. FilesType' BY DEF TypeInv, FilesType, fileVars, WriteStatus, StatusOf
  <1>4. LeftType' BY DEF TypeInv, LeftType, WriteStatus
  <1> HIDE DEF k
  <1> QED BY <1>1, <1>2, <1>3, <1>4, TypeChild DEF WriteStatus

LEMMA TypeReadCmds ==
  ASSUME TypeInv, NEW g \in Kids, ReadCmds(g)
  PROVE  TypeInv'
  <1> DEFINE k == [kid[g] EXCEPT !.lines = cmds,
                             !.ph = IF cmds = <<>> THEN "show" ELSE "cut"]
  <1>1. Alive(g) /\ kid' = [kid EXCEPT ![g] = k]
    BY DEF ReadCmds, Alive, At, To, Applies, Applied
  <1>2. IsWhole(k)
    <2>1. cmds \in Seq(Line) /\ kid[g] \in Kid
      BY DEF TypeInv, KidsType, FilesType
    <2>2. CASE cmds = <<>> BY <2>1, <2>2 DEF IsWhole, Kid, Phases
    <2>3. CASE cmds # <<>> BY <2>1, <2>3 DEF IsWhole, Kid, Phases
    <2> QED BY <2>2, <2>3
  <1>3. FilesType' BY DEF TypeInv, FilesType, fileVars, ReadCmds
  <1>4. LeftType' BY DEF TypeInv, LeftType, ReadCmds
  <1> HIDE DEF k
  <1> QED BY <1>1, <1>2, <1>3, <1>4, TypeChild DEF ReadCmds

LEMMA TypeCutCmds ==
  ASSUME TypeInv, NEW g \in Kids, CutCmds(g)
  PROVE  TypeInv'
  <1> DEFINE k == [kid[g] EXCEPT !.ph = "apply"]
  <1>1. Alive(g) /\ kid' = [kid EXCEPT ![g] = k]
    BY DEF CutCmds, Alive, At, To, Applies, Applied
  <1>2. IsWhole(k)
    BY DEF TypeInv, KidsType, IsWhole, Kid, Phases, CutCmds, At
  <1>3. FilesType' BY DEF TypeInv, FilesType, fileVars, CutCmds
  <1>4. LeftType' BY DEF TypeInv, LeftType, CutCmds
  <1> HIDE DEF k
  <1> QED BY <1>1, <1>2, <1>3, <1>4, TypeChild DEF CutCmds

LEMMA TypeCutFails ==
  ASSUME TypeInv, NEW g \in Kids, CutFails(g)
  PROVE  TypeInv'
  <1> DEFINE k == [kid[g] EXCEPT !.lines = <<>>, !.ph = "show"]
  <1>1. Alive(g) /\ kid' = [kid EXCEPT ![g] = k]
    BY DEF CutFails, Alive, At, To, Applies, Applied
  <1>2. IsWhole(k)
    <2>1. <<>> \in Seq(Line) /\ kid[g] \in Kid
      BY DEF TypeInv, KidsType
    <2> QED BY <2>1 DEF IsWhole, Kid, Phases
  <1>3. FilesType' BY DEF TypeInv, FilesType, fileVars, CutFails
  <1>4. LeftType' BY SpendsLeft DEF CutFails
  <1> HIDE DEF k
  <1> QED BY <1>1, <1>2, <1>3, <1>4, TypeChild DEF CutFails

\* What is left of the lines, and the recording, after a line has been applied.
LEMMA AppliedIsWhole ==
  ASSUME TypeInv, NEW g \in Kids, kid[g].ph = "apply",
         NEW flag \in BOOLEAN, NEW capture \in Nat
  PROVE  /\ Head(kid[g].lines) \in Line /\ kid[g].lines # <<>>
         /\ IsWhole([ph |-> IF Tail(kid[g].lines) = <<>> THEN "show" ELSE "apply",
                     lines |-> Tail(kid[g].lines), flag |-> flag, capture |-> capture])
  <1>1. kid[g].lines \in Seq(Line) /\ kid[g].lines # <<>>
    BY DEF TypeInv, KidsType, IsWhole, Kid
  <1>2. Head(kid[g].lines) \in Line /\ Tail(kid[g].lines) \in Seq(Line)
    BY <1>1
  <1> QED BY <1>1, <1>2 DEF IsWhole, Kid, Phases

LEMMA TypeStartRecord ==
  ASSUME TypeInv, NEW g \in Kids, StartRecord(g)
  PROVE  TypeInv'
  <1> DEFINE k == [ph |-> IF Tail(kid[g].lines) = <<>> THEN "show" ELSE "apply",
                   lines |-> Tail(kid[g].lines), flag |-> TRUE,
                   capture |-> Head(kid[g].lines).take]
  <1>1. Alive(g) /\ kid' = [kid EXCEPT ![g] = k]
    BY DEF StartRecord, Alive, At, To, Applies, Applied
  <1>2. IsWhole(k)
    BY AppliedIsWhole DEF StartRecord, Applies, At, TypeInv, KidsType, Kid, Line
  <1>3. FilesType' BY DEF TypeInv, FilesType, fileVars, StartRecord
  <1>4. LeftType' BY DEF TypeInv, LeftType, StartRecord
  <1> HIDE DEF k
  <1> QED BY <1>1, <1>2, <1>3, <1>4, TypeChild DEF StartRecord

LEMMA TypeRelinkFails ==
  ASSUME TypeInv, NEW g \in Kids, RelinkFails(g)
  PROVE  TypeInv'
  <1> DEFINE k == [ph |-> IF Tail(kid[g].lines) = <<>> THEN "show" ELSE "apply",
                   lines |-> Tail(kid[g].lines), flag |-> kid[g].flag, capture |-> 0]
  <1>1. Alive(g) /\ kid' = [kid EXCEPT ![g] = k]
    BY DEF RelinkFails, Alive, At, To, Applies, Applied
  <1>2. IsWhole(k)
    BY AppliedIsWhole DEF RelinkFails, Applies, At, TypeInv, KidsType, Kid, Line
  <1>3. FilesType' BY DEF TypeInv, FilesType, fileVars, RelinkFails
  <1>4. LeftType' BY SpendsLeft DEF RelinkFails
  <1> HIDE DEF k
  <1> QED BY <1>1, <1>2, <1>3, <1>4, TypeChild DEF RelinkFails

LEMMA TypeStopRecord ==
  ASSUME TypeInv, NEW g \in Kids, StopRecord(g)
  PROVE  TypeInv'
  <1> DEFINE k == [ph |-> IF Tail(kid[g].lines) = <<>> THEN "show" ELSE "apply",
                   lines |-> Tail(kid[g].lines), flag |-> FALSE, capture |-> 0]
  <1>1. Alive(g) /\ kid' = [kid EXCEPT ![g] = k]
    BY DEF StopRecord, Alive, At, To, Applies, Applied
  <1>2. IsWhole(k)
    BY AppliedIsWhole DEF StopRecord, Applies, At, TypeInv, KidsType, Kid, Line
  <1>3. FilesType' BY DEF TypeInv, FilesType, fileVars, StopRecord
  <1>4. LeftType' BY DEF TypeInv, LeftType, StopRecord
  <1> HIDE DEF k
  <1> QED BY <1>1, <1>2, <1>3, <1>4, TypeChild DEF StopRecord

LEMMA TypeForwardReset ==
  ASSUME TypeInv, NEW g \in Kids, ForwardReset(g)
  PROVE  TypeInv'
  <1> DEFINE k == [ph |-> IF Tail(kid[g].lines) = <<>> THEN "show" ELSE "apply",
                   lines |-> Tail(kid[g].lines), flag |-> kid[g].flag,
                   capture |-> kid[g].capture]
  <1>1. Alive(g) /\ kid' = [kid EXCEPT ![g] = k]
    BY DEF ForwardReset, Alive, At, To, Applies, Applied
  <1>2. IsWhole(k)
    BY AppliedIsWhole DEF ForwardReset, Applies, At, TypeInv, KidsType, Kid, Line
  <1>3. FilesType' BY DEF TypeInv, FilesType, fileVars, ForwardReset
  <1>4. LeftType' BY DEF TypeInv, LeftType, ForwardReset
  <1> HIDE DEF k
  <1> QED BY <1>1, <1>2, <1>3, <1>4, TypeChild DEF ForwardReset

LEMMA TypeQuit ==
  ASSUME TypeInv, NEW g \in Kids, Quit(g)
  PROVE  TypeInv'
  <1> DEFINE k == [Unborn EXCEPT !.ph = "closing"]
  <1>1. Alive(g) /\ kid' = [kid EXCEPT ![g] = k]
    BY DEF Quit, Alive, At, To, Applies, Applied
  <1>2. IsWhole(k)
    <2>1. k.ph = "closing" /\ k \in Kid BY KidPhases DEF Kid, Phases
    <2> QED BY <2>1 DEF IsWhole
  <1>3. FilesType' BY DEF TypeInv, FilesType, fileVars, Quit
  <1>4. LeftType' BY DEF TypeInv, LeftType, Quit
  <1> HIDE DEF k
  <1> QED BY <1>1, <1>2, <1>3, <1>4, TypeChild DEF Quit

LEMMA TypeExit ==
  ASSUME TypeInv, NEW g \in Kids, Exit(g)
  PROVE  TypeInv'
  <1> DEFINE k == Gone
  <1>1. Alive(g) /\ kid' = [kid EXCEPT ![g] = k]
    BY DEF Exit, Alive, At, To, Applies, Applied
  <1>2. IsWhole(k)
    BY KidPhases DEF IsWhole, Gone
  <1>3. FilesType' BY DEF TypeInv, FilesType, fileVars, Exit
  <1>4. LeftType' BY DEF TypeInv, LeftType, Exit
  <1> HIDE DEF k
  <1> QED BY <1>1, <1>2, <1>3, <1>4, TypeChild DEF Exit

LEMMA TypeChildDies ==
  ASSUME TypeInv, NEW g \in Kids, ChildDies(g)
  PROVE  TypeInv'
  <1> DEFINE k == Gone
  <1>1. Alive(g) /\ kid' = [kid EXCEPT ![g] = k]
    BY DEF ChildDies, Alive, At, To, Applies, Applied
  <1>2. IsWhole(k)
    BY KidPhases DEF IsWhole, Gone
  <1>3. FilesType' BY DEF TypeInv, FilesType, fileVars, ChildDies
  <1>4. LeftType' BY SpendsLeft DEF ChildDies
  <1> HIDE DEF k
  <1> QED BY <1>1, <1>2, <1>3, <1>4, TypeChild DEF ChildDies

-----------------------------------------------------------------------------
(* Type correctness: every step.                                           *)

\* All that a child may do, faults included.
KidStep(g) ==
  \/ ChildStep(g)
  \/ BuildFails(g) \/ CutFails(g) \/ RelinkFails(g) \/ ChildDies(g)

LEMMA TypeKidStep ==
  ASSUME TypeInv, NEW g \in Kids, KidStep(g)
  PROVE  TypeInv'
  BY TypeClearCmds, TypeBuildFails, TypeAnnounce, TypeWriteStatus, TypeReadCmds,
     TypeCutCmds, TypeCutFails, TypeStartRecord,
     TypeRelinkFails, TypeStopRecord, TypeForwardReset, TypeQuit, TypeExit,
     TypeChildDies
  DEF KidStep, ChildStep

LEMMA TypeStutter == TypeInv /\ UNCHANGED vars => TypeInv'
  BY DEF TypeInv, WorkerType, FilesType, KidsType, HistoryType, LeftType, IsWhole, vars,
     workerVars, fileVars, history

LEMMA TypeNext == TypeInv /\ [Next]_vars => TypeInv'
  BY TypeConnect, TypeConnectReady, TypeConnectFails, TypeStartRecording,
     TypeStartAcknowledged, TypeStartUnacknowledged,
     TypeStopRecording, TypeStopAcknowledged, TypeStopUnacknowledged, TypeResetEtr290,
     TypeDisconnect, TypeSendQuit,
     TypeTeardown, TypeWorkerDies, TypeSessionLost, TypeDropDead, TypeMonitorTakesReset,
     TypeKidStep, TypeStutter
  DEF Next, WorkerCall, WorkerStep, Fault, KidStep

\* The worker, the files and the children keep to their types, for any bounds.
THEOREM SessionTypeCorrect == Spec => []TypeOK
  <1>1. Spec => []TypeInv
    BY TypeInit, TypeNext, PTL DEF Spec
  <1> QED BY <1>1, TypeImplies, PTL

-----------------------------------------------------------------------------
(* Children and sessions.                                                  *)

\* A step of a child changes no other child, and neither worker nor history.
LEMMA KidFrame ==
  ASSUME TypeInv, NEW g \in Kids, KidStep(g)
  PROVE  /\ Alive(g)
         /\ \A h \in Kids \ {g} : kid'[h] = kid[h]
         /\ UNCHANGED <<workerVars, history>>
  <1>1. PICK k : kid' = [kid EXCEPT ![g] = k]
    BY DEF KidStep, ChildStep, ClearCmds, BuildFails, Announce, WriteStatus, ReadCmds,
       CutCmds, CutFails, StartRecord,
       RelinkFails, StopRecord, ForwardReset, Quit, Exit, ChildDies, To, Applied
  <1>2. \A h \in Kids \ {g} : kid'[h] = kid[h]
    BY <1>1 DEF TypeInv, KidsType
  <1>3. Alive(g)
    BY DEF KidStep, ChildStep, ClearCmds, BuildFails, Announce, WriteStatus, ReadCmds,
       CutCmds, CutFails, StartRecord,
       RelinkFails, StopRecord, ForwardReset, Quit, Exit, ChildDies, Alive, At, Applies
  <1>4. UNCHANGED <<workerVars, history>>
    BY DEF KidStep, ChildStep, ClearCmds, BuildFails, Announce, WriteStatus, ReadCmds,
       CutCmds, CutFails, StartRecord,
       RelinkFails, StopRecord, ForwardReset, Quit, Exit, ChildDies
  <1> QED BY <1>2, <1>3, <1>4

\* What the worker and the monitor do to the children: nothing, unless a
\* session begins or ends.
CallStep ==
  \/ ConnectReady \/ StartRecording \/ StartAcknowledged
  \/ StartUnacknowledged \/ StopRecording \/ StopAcknowledged
  \/ StopUnacknowledged \/ ResetEtr290
  \/ Disconnect \/ SendQuit \/ MonitorTakesReset

LEMMA CallFrame ==
  CallStep => /\ UNCHANGED <<kid, gen, orphans>>
              /\ wpc' = "none" <=> wpc = "none"
              /\ trust' => trust
  BY DEF CallStep, ConnectReady, StartRecording, StartAcknowledged,
     StartUnacknowledged, StopRecording,
     StopAcknowledged, StopUnacknowledged, ResetEtr290, Disconnect, SendQuit,
     MonitorTakesReset, StopWaits, StopReturns,
     workerVars, fileVars, history

\* The steps of the specification, by what they do to the children.
LEMMA NextCases ==
  [Next]_vars =>
    \/ Connect \/ ConnectFails \/ Teardown \/ WorkerDies \/ SessionLost \/ DropDead
    \/ CallStep
    \/ \E g \in Kids : KidStep(g)
    \/ UNCHANGED vars
  BY DEF Next, WorkerCall, WorkerStep, Fault, KidStep, CallStep

LEMMA ChildHasSessionNext ==
  ASSUME TypeInv, ChildHasSession, [Next]_vars
  PROVE  ChildHasSession'
  <1>1. CASE Connect
    <2>1. gen \in Nat /\ gen + 1 \in Kids
      BY <1>1, BoundAssumption DEF TypeInv, WorkerType, Connect, Kids
    <2>2. ASSUME NEW h \in Kids, h # gen + 1, Alive(h)' PROVE h \in orphans'
      BY <1>1, <2>1, <2>2 DEF Connect, ChildHasSession, Alive, TypeInv, KidsType
    <2> QED BY <1>1, <2>1, <2>2 DEF ChildHasSession, Connect
  <1>2. CASE ConnectFails \/ Teardown
    <2>1. gen \in Kids /\ kid' = [kid EXCEPT ![gen] = Gone] /\ UNCHANGED <<gen,
    orphans>>
      BY <1>2 DEF ConnectFails, Teardown, TypeInv, WorkerType, history
    <2>2. ASSUME NEW h \in Kids, Alive(h)' PROVE h # gen /\ Alive(h)
      BY <2>1, <2>2, KidPhases DEF Alive, TypeInv, KidsType
    <2> QED BY <2>1, <2>2 DEF ChildHasSession
  <1>3. CASE WorkerDies
    <2>1. CASE kid' = [g \in Kids |-> IF Alive(g) THEN Gone ELSE kid[g]]
      <3>1. \A h \in Kids : ~Alive(h)'
        BY <2>1, KidPhases DEF Alive
      <3> QED BY <3>1 DEF ChildHasSession
    <2>2. CASE orphans' = {g \in Kids : Alive(g)} /\ UNCHANGED kid
      BY <2>2 DEF ChildHasSession, Alive
    <2> QED BY <1>3, <2>1, <2>2 DEF WorkerDies
  <1>4. CASE SessionLost
    BY <1>4 DEF SessionLost, ChildHasSession, Alive
  <1>5. CASE DropDead
    BY <1>5 DEF DropDead, ChildHasSession, Alive, history
  <1>6. CASE CallStep
    BY <1>6, CallFrame DEF ChildHasSession, Alive
  <1>7. ASSUME NEW g \in Kids, KidStep(g) PROVE ChildHasSession'
    <2>1. \A h \in Kids : Alive(h)' => Alive(h)
      BY <1>7, KidFrame DEF Alive
    <2> QED BY <1>7, <2>1, KidFrame DEF ChildHasSession, workerVars, history
  <1>8. CASE UNCHANGED vars
    BY <1>8 DEF ChildHasSession, Alive, vars, workerVars, history
  <1> QED BY <1>1, <1>2, <1>3, <1>4, <1>5, <1>6, <1>7, <1>8, NextCases

\* However connects, disconnects, failures and deaths follow each other, a
\* child runs only inside its session or as an orphan of a killed worker or a
\* lost session: no other step leaves one behind.
THEOREM NoChildLeftBehind == Spec => []ChildHasSession
  <1>1. Init => TypeInv /\ ChildHasSession
    BY TypeInit DEF Init, ChildHasSession, Alive, Unborn
  <1>2. TypeInv /\ ChildHasSession /\ [Next]_vars => (TypeInv /\ ChildHasSession)'
    BY TypeNext, ChildHasSessionNext
  <1> QED BY <1>1, <1>2, PTL DEF Spec

-----------------------------------------------------------------------------
(* Lemmas about lines.                                                     *)

LEMMA QuietEmpty == Quiet(<<>>) /\ \A op, take : OneOf(<<>>, op, take)
  BY DEF Quiet, OneOf

LEMMA QuietIsOneOf ==
  ASSUME NEW s, Quiet(s), NEW op, NEW take PROVE OneOf(s, op, take)
  BY DEF Quiet, OneOf

LEMMA AppendCommand ==
  ASSUME NEW s \in Seq(Line), Quiet(s),
         NEW op \in {"record", "stop", "quit", "reset"}, NEW take \in Nat
  PROVE  OneOf(Append(s, [op |-> op, take |-> take]), op, take)
  <1> DEFINE t == Append(s, [op |-> op, take |-> take])
  <1>1. DOMAIN s = 1 .. Len(s) /\ DOMAIN t = 1 .. Len(s) + 1 /\ Len(s) \in Nat
    OBVIOUS
  <1>2. t[Len(s) + 1] = [op |-> op, take |-> take]
    OBVIOUS
  <1>3. \A i \in 1 .. Len(s) : t[i] = s[i]
    OBVIOUS
  <1>4. \A i \in 1 .. Len(s) : t[i].op = "reset"
    BY <1>1, <1>3 DEF Quiet
  <1> HIDE DEF t
  <1>5. \A i \in DOMAIN t : t[i].op = "reset" \/ i = Len(s) + 1
    BY <1>1, <1>4
  <1>6. OneOf(t, op, take)
    BY <1>2, <1>5 DEF OneOf
  <1> QED BY <1>6 DEF t

LEMMA AppendReset ==
  ASSUME NEW s \in Seq(Line), Quiet(s), NEW take \in Nat
  PROVE  Quiet(Append(s, [op |-> "reset", take |-> take]))
  <1> DEFINE t == Append(s, [op |-> "reset", take |-> take])
  <1>1. DOMAIN s = 1 .. Len(s) /\ DOMAIN t = 1 .. Len(s) + 1 /\ Len(s) \in Nat
    OBVIOUS
  <1>2. t[Len(s) + 1] = [op |-> "reset", take |-> take]
    OBVIOUS
  <1>3. \A i \in 1 .. Len(s) : t[i] = s[i]
    OBVIOUS
  <1> HIDE DEF t
  <1>4. Quiet(t)
    BY <1>1, <1>2, <1>3 DEF Quiet
  <1> QED BY <1>4 DEF t

LEMMA TailElements ==
  ASSUME NEW s \in Seq(Line), s # <<>>
  PROVE  /\ 1 \in DOMAIN s /\ Head(s) = s[1]
         /\ \A i \in DOMAIN Tail(s) :
              i + 1 \in DOMAIN s /\ i + 1 # 1 /\ Tail(s)[i] = s[i + 1]
         /\ \A i, j \in DOMAIN Tail(s) : i + 1 = j + 1 => i = j
  <1>1. Len(s) \in Nat \ {0} /\ DOMAIN s = 1 .. Len(s)
    OBVIOUS
  <1>2. Len(Tail(s)) = Len(s) - 1 /\ DOMAIN Tail(s) = 1 .. Len(s) - 1
    BY <1>1
  <1> QED BY <1>1, <1>2

LEMMA QuietLines ==
  ASSUME NEW s \in Seq(Line), s # <<>>, Quiet(s)
  PROVE  Head(s).op = "reset" /\ Quiet(Tail(s))
  BY TailElements DEF Quiet

LEMMA OneOfTail ==
  ASSUME NEW s \in Seq(Line), s # <<>>, NEW op, NEW take, OneOf(s, op, take)
  PROVE  OneOf(Tail(s), op, take)
  BY TailElements DEF OneOf

\* Behind the one command there is no other.
LEMMA OneOfHead ==
  ASSUME NEW s \in Seq(Line), s # <<>>, NEW op, NEW take, OneOf(s, op, take),
         Head(s).op # "reset"
  PROVE  /\ Head(s).op = op /\ Head(s).take = take
         /\ Quiet(Tail(s)) /\ ~Quiet(s)
  <1>1. Head(s).op = op /\ Head(s).take = take /\ ~Quiet(s)
    BY TailElements DEF OneOf, Quiet
  <1>2. Quiet(Tail(s))
    BY TailElements DEF OneOf, Quiet
  <1> QED BY <1>1, <1>2

-----------------------------------------------------------------------------
(* The invariant: what the worker believes, and who is there.              *)

LEMMA BelievesNext ==
  ASSUME TypeInv, Believes, [Next]_vars PROVE Believes'
  <1>1. CASE Connect BY <1>1 DEF Connect, Believes, StopWaits
  <1>2. CASE ConnectFails \/ Teardown
    BY <1>2 DEF ConnectFails, Teardown, Believes, StopWaits
  <1>3. CASE WorkerDies BY <1>3 DEF WorkerDies, Believes, StopWaits
  <1>4. CASE SessionLost BY <1>4 DEF SessionLost, Believes, StopWaits
  <1>5. CASE DropDead BY <1>5 DEF DropDead, Believes, StopWaits
  <1>6. CASE CallStep
    <2>1. CASE ConnectReady \/ StartUnacknowledged \/ SendQuit
      BY <2>1 DEF ConnectReady, StartUnacknowledged, SendQuit, Believes, StopWaits
    <2>2. CASE StartRecording
      BY <2>2 DEF StartRecording, Believes, StopWaits, TypeInv, WorkerType
    <2>3. CASE StartAcknowledged
      BY <2>3 DEF StartAcknowledged, Believes, StopWaits
    <2>4. CASE StopRecording \/ Disconnect
      BY <2>4 DEF StopRecording, Disconnect, Believes, StopWaits
    <2>5. CASE StopAcknowledged \/ StopUnacknowledged
      BY <2>5 DEF StopAcknowledged, StopUnacknowledged, StopReturns, Believes, StopWaits
    <2>6. CASE ResetEtr290 \/ MonitorTakesReset
      BY <2>6 DEF ResetEtr290, MonitorTakesReset, Believes, StopWaits, workerVars
    <2> QED BY <1>6, <2>1, <2>2, <2>3, <2>4, <2>5, <2>6 DEF CallStep
  <1>7. ASSUME NEW g \in Kids, KidStep(g) PROVE Believes'
    BY <1>7, KidFrame DEF Believes, StopWaits, workerVars
  <1>8. CASE UNCHANGED vars
    BY <1>8 DEF Believes, StopWaits, vars, workerVars
  <1> QED BY <1>1, <1>2, <1>3, <1>4, <1>5, <1>6, <1>7, <1>8, NextCases

LEMMA SoleNext ==
  ASSUME TypeInv, ChildHasSession, Sole, [Next]_vars PROVE Sole'
  <1>1. CASE Connect
    <2>1. gen \in Nat /\ gen + 1 \in Kids
      BY <1>1, BoundAssumption DEF TypeInv, WorkerType, Connect, Kids
    <2>2. ASSUME trust', NEW h \in Kids, h # gen + 1 PROVE ~Alive(h)'
      <3>1. kid'[h] = kid[h]
        BY <1>1, <2>1, <2>2 DEF Connect, TypeInv, KidsType
      <3>2. Alive(h) => h \in orphans
        BY <1>1 DEF Connect, ChildHasSession
      <3>3. \A g \in orphans : ~Alive(g)
        BY <1>1, <2>2 DEF Connect
      <3> QED BY <3>1, <3>2, <3>3 DEF Alive
    <2> QED BY <1>1, <2>1, <2>2 DEF Sole, Connect
  <1>2. CASE ConnectFails \/ Teardown
    <2>1. gen \in Kids /\ kid' = [kid EXCEPT ![gen] = Gone] /\ trust' = trust
      BY <1>2 DEF ConnectFails, Teardown, TypeInv, WorkerType, history
    <2>2. ASSUME NEW h \in Kids, Alive(h)' PROVE h # gen /\ Alive(h)
      BY <2>1, <2>2, KidPhases DEF Alive, TypeInv, KidsType
    <2> QED BY <2>1, <2>2 DEF Sole
  <1>3. CASE WorkerDies \/ SessionLost
    BY <1>3 DEF WorkerDies, SessionLost, Sole
  <1>4. CASE DropDead
    BY <1>4 DEF DropDead, Sole, Alive, history
  <1>5. CASE CallStep
    BY <1>5, CallFrame DEF Sole, Alive
  <1>6. ASSUME NEW g \in Kids, KidStep(g) PROVE Sole'
    <2>1. \A h \in Kids : Alive(h)' => Alive(h)
      BY <1>6, KidFrame DEF Alive
    <2> QED BY <1>6, <2>1, KidFrame DEF Sole, workerVars, history
  <1>7. CASE UNCHANGED vars
    BY <1>7 DEF Sole, Alive, vars, workerVars, history
  <1> QED BY <1>1, <1>2, <1>3, <1>4, <1>5, <1>6, <1>7, NextCases

\* In a trusted session only its own child takes steps.
LEMMA OnlyOwn ==
  ASSUME TypeInv, Sole, trust, NEW g \in Kids, KidStep(g)
  PROVE  g = gen /\ wpc # "none" /\ Own
  BY KidFrame DEF Sole, Own

LEMMA BootsNext ==
  ASSUME TypeInv, Sole, Boots, [Next]_vars PROVE Boots'
  <1>1. CASE Connect BY <1>1 DEF Connect, Boots
  <1>2. CASE ConnectFails \/ Teardown \/ WorkerDies \/ SessionLost \/ DropDead
    BY <1>2 DEF ConnectFails, Teardown, WorkerDies, SessionLost, DropDead, Boots, Own
  <1>3. CASE CallStep
    <2>1. kid' = kid /\ gen' = gen /\ (trust' => trust) /\ (Own' <=> Own)
      BY <1>3, CallFrame DEF Own, Alive
    <2>2. CASE ConnectReady
      BY <2>1, <2>2 DEF ConnectReady, Boots
    <2>3. CASE ~ConnectReady
      <3>1. ready' = ready /\ (wpc = "spawning" => wpc' = "spawning")
        BY <1>3, <2>3 DEF CallStep, StartRecording, StartAcknowledged,
           StartUnacknowledged,
           StopRecording, StopAcknowledged, StopUnacknowledged, ResetEtr290, Disconnect,
           SendQuit, MonitorTakesReset, StopWaits, StopReturns, workerVars, fileVars
      <3> QED BY <2>1, <3>1 DEF Boots
    <2> QED BY <2>2, <2>3
  <1>4. ASSUME NEW g \in Kids, KidStep(g), trust' PROVE Boots'
    <2>1. g = gen /\ Own /\ trust /\ UNCHANGED <<workerVars, history>> /\ gen \in Kids
      BY <1>4, KidFrame, OnlyOwn DEF history
    <2>2. CASE Announce(g) \/ BuildFails(g) \/ Exit(g) \/ ChildDies(g) \/ Quit(g)
      <3>1. kid'[gen].ph \in {"announced", "gone", "closing"}
        <4>1. CASE Announce(g)
          BY <2>1, <4>1 DEF Announce, To, TypeInv, KidsType, IsWhole, Kid
        <4>2. CASE BuildFails(g) \/ Exit(g) \/ ChildDies(g)
          BY <2>1, <4>2, KidPhases DEF BuildFails, Exit, ChildDies, TypeInv, KidsType
        <4>3. CASE Quit(g)
          <5>1. kid'[gen] = [Unborn EXCEPT !.ph = "closing"]
            BY <2>1, <4>3 DEF Quit, TypeInv, KidsType
          <5> QED BY <5>1 DEF Unborn
        <4> QED BY <2>2, <4>1, <4>2, <4>3
      <3>2. gen' = gen BY <2>1 DEF workerVars
      <3> QED BY <3>1, <3>2 DEF Boots
    <2>3. CASE ClearCmds(g)
      BY <2>1, <2>3 DEF ClearCmds, At, To, Boots, workerVars, Own, Alive, TypeInv,
         KidsType,
         IsWhole, Kid
    <2>4. CASE WriteStatus(g) \/ ReadCmds(g) \/ CutCmds(g) \/ CutFails(g)
      BY <2>1, <2>4
      DEF WriteStatus, ReadCmds, CutCmds, CutFails, To, Boots, TypeInv, KidsType,
          IsWhole,
          Kid, workerVars
    <2>5. CASE StartRecord(g) \/ RelinkFails(g) \/ StopRecord(g) \/ ForwardReset(g)
      BY <2>1, <2>5
      DEF StartRecord, RelinkFails, StopRecord, ForwardReset, Applied, Boots, TypeInv,
          KidsType, workerVars
    <2> QED BY <1>4, <2>2, <2>3, <2>4, <2>5 DEF KidStep, ChildStep
  <1>5. ASSUME NEW g \in Kids, KidStep(g), ~trust' PROVE Boots'
    BY <1>5 DEF Boots
  <1>6. CASE UNCHANGED vars
    BY <1>6 DEF Boots, Own, Alive, vars, workerVars, fileVars, history
  <1> QED BY <1>1, <1>2, <1>3, <1>4, <1>5, <1>6, NextCases

-----------------------------------------------------------------------------
(* The invariant: what child and files are up to.                          *)

LEMMA LinesType ==
  ASSUME TypeInv, wpc # "none"
  PROVE  /\ gen \in Kids /\ kid[gen] \in Kid
         /\ cmds \in Seq(Line) /\ kid[gen].lines \in Seq(Line)
  BY DEF TypeInv, WorkerType, FilesType, KidsType, IsWhole, Kid

LEMMA TracksConnect ==
  ASSUME TypeInv, Believes, Connect PROVE Tracks'
  <1>1. gen \in Nat /\ gen + 1 \in Kids /\ gen + 1 > gen
    BY BoundAssumption DEF TypeInv, WorkerType, Connect, Kids
  <1>2. kid[gen + 1] = Unborn BY <1>1 DEF TypeInv, KidsType
  <1>3. kid'[gen'] = [Unborn EXCEPT !.ph = "boot"]
    BY <1>1, <1>2 DEF Connect, TypeInv, KidsType
  <1>4. kid'[gen'].capture = 0 /\ kid'[gen'].flag = FALSE /\ kid'[gen'].lines = <<>>
    BY <1>3 DEF Unborn
  <1>5. believed' = 0 /\ cmds' = <<>> /\ shown' = "absent" /\ wpc' = "spawning"
    BY DEF Connect, Believes
  <1>6. AtRest'
    BY <1>4, <1>5, QuietEmpty DEF AtRest, Holds, Says, NothingAsked
  <1> QED BY <1>5, <1>6 DEF Tracks, StopWaits

LEMMA TracksCall ==
  ASSUME TypeInv, Believes, Tracks, CallStep PROVE Tracks'
  <1> SUFFICES ASSUME trust', Own' PROVE (wpc' \in {"spawning", "up",
  "leaving"} => AtRest')
                                   /\ (wpc' = "starting" => Starting')
                                   /\ (StopWaits' => Stopping')
                                   /\ (wpc' = "quitting" => Leaving')
    BY DEF Tracks
  <1>1. kid' = kid /\ gen' = gen /\ trust /\ Own /\ wpc # "none"
    BY CallFrame DEF Own, Alive
  <1>2. gen \in Kids /\ cmds \in Seq(Line) /\ kid[gen].lines \in Seq(Line)
    BY <1>1, LinesType
  <1>3. CASE ConnectReady
    <2>1. AtRest BY <1>1, <1>3 DEF ConnectReady, Tracks
    <2>2. AtRest'
      BY <1>1, <1>3, <2>1 DEF ConnectReady, AtRest, Holds, Says, NothingAsked, fileVars
    <2> QED BY <1>3, <2>2 DEF ConnectReady, StopWaits
  <1>4. CASE StartRecording
    <2>1. AtRest /\ believed = 0 BY <1>1, <1>4 DEF StartRecording, Tracks
    <2>2. takes' = takes + 1 /\ takes' \in Nat /\ shown' = shown /\ wpc' = "starting"
      BY <1>4 DEF StartRecording, TypeInv, WorkerType
    <2>3. OneOf(cmds', "record", takes')
      BY <1>2, <1>4, <2>1, <2>2, AppendCommand
      DEF StartRecording, Send, AtRest, NothingAsked
    <2>4. Asked("record", takes)'
      BY <1>1, <2>1, <2>3, QuietIsOneOf DEF Asked, AtRest, NothingAsked
    <2>5. Starting'
      BY <1>1, <2>1, <2>2, <2>4 DEF Starting, AtRest, Holds, Says
    <2> QED BY <2>2, <2>5 DEF StopWaits
  <1>5. CASE StartAcknowledged
    <2>1. Starting /\ takes # 0 /\ shown = "yes"
      BY <1>1, <1>5 DEF StartAcknowledged, Tracks, Believes
    <2>2. Holds(takes) /\ NothingAsked BY <2>1 DEF Starting, Says
    <2>3. AtRest'
      BY <1>1, <1>5, <2>1, <2>2
      DEF StartAcknowledged, AtRest, Holds, Says, NothingAsked, fileVars
    <2> QED BY <1>5, <2>3 DEF StartAcknowledged, StopWaits
  <1>6. CASE StartUnacknowledged \/ StopUnacknowledged
    BY <1>6 DEF StartUnacknowledged, StopUnacknowledged
  <1>7. CASE StopRecording \/ (Disconnect /\ believed # 0)
    <2>1. AtRest /\ believed # 0 BY <1>1, <1>7 DEF StopRecording, Disconnect, Tracks
    <2>2. wpc' \in {"stopping", "lastStop"} /\ shown' = shown /\ believed' = believed
      BY <1>7 DEF StopRecording, Disconnect
    <2>3. OneOf(cmds', "stop", 0)
      BY <1>2, <1>7, <2>1, AppendCommand
      DEF StopRecording, Disconnect, Send, AtRest, NothingAsked
    <2>4. Asked("stop", 0)'
      BY <1>1, <2>1, <2>3, QuietIsOneOf DEF Asked, AtRest, NothingAsked
    <2>5. Stopping'
      BY <1>1, <2>1, <2>2, <2>4 DEF Stopping, AtRest, Holds, Says
    <2> QED BY <2>2, <2>5
  <1>8. CASE StopAcknowledged
    <2>1. Stopping /\ believed # 0 /\ shown = "no"
      BY <1>1, <1>8 DEF StopAcknowledged, Tracks, Believes
    <2>2. Holds(0) /\ NothingAsked BY <2>1 DEF Stopping, Says
    <2>3. believed' = 0 /\ shown' = shown /\ cmds' = cmds /\ wpc' \in {"leaving", "up"}
      BY <1>8 DEF StopAcknowledged, StopReturns, fileVars
    <2>4. AtRest'
      BY <1>1, <2>1, <2>2, <2>3 DEF AtRest, Holds, Says, NothingAsked
    <2> QED BY <2>3, <2>4 DEF StopWaits
  <1>9. CASE ResetEtr290
    <2>1. AtRest BY <1>1, <1>9 DEF ResetEtr290, Tracks
    <2>2. Quiet(cmds')
      BY <1>2, <1>9, <2>1, AppendReset DEF ResetEtr290, Send, AtRest, NothingAsked
    <2>3. AtRest'
      BY <1>1, <1>9, <2>1, <2>2
      DEF ResetEtr290, AtRest, Holds, Says, NothingAsked, workerVars
    <2> QED BY <1>9, <2>3 DEF ResetEtr290, StopWaits, workerVars
  <1>10. CASE Disconnect /\ believed = 0
    <2>1. AtRest BY <1>1, <1>10 DEF Disconnect, Tracks
    <2>2. AtRest'
      BY <1>1, <1>10, <2>1 DEF Disconnect, AtRest, Holds, Says, NothingAsked
    <2> QED BY <1>10, <2>2 DEF Disconnect, StopWaits
  <1>11. CASE SendQuit
    <2>1. AtRest /\ believed = 0 BY <1>1, <1>11 DEF SendQuit, Tracks, Believes
    <2>2. OneOf(cmds', "quit", 0)
      BY <1>2, <1>11, <2>1, AppendCommand DEF SendQuit, Send, AtRest, NothingAsked
    <2>3. Asked("quit", 0)'
      BY <1>1, <2>1, <2>2, QuietIsOneOf DEF Asked, AtRest, NothingAsked
    <2>4. Leaving'
      BY <1>1, <2>1, <2>3 DEF Leaving, AtRest, Holds
    <2> QED BY <1>11, <2>4 DEF SendQuit, StopWaits
  <1>12. CASE MonitorTakesReset
    BY <1>1, <1>12
    DEF MonitorTakesReset, workerVars, Tracks, AtRest, Starting, Stopping, Leaving,
        StopWaits, Holds, Says, NothingAsked, Asked
  <1> QED
    BY <1>3, <1>4, <1>5, <1>6, <1>7, <1>8, <1>9, <1>10, <1>11, <1>12 DEF CallStep

\* The child's side of a step that leaves the recording alone.
LEMMA TracksSteady ==
  ASSUME TypeInv, Tracks, trust, Own, UNCHANGED <<workerVars, history>>,
         kid'[gen].capture = kid[gen].capture, kid'[gen].flag = kid[gen].flag,
         shown' = shown \/ shown' = StatusOf(kid[gen].flag),
         \A op, take : Asked(op, take) => Asked(op, take)',
         NothingAsked => NothingAsked'
  PROVE  Tracks'
  <1>1. gen' = gen /\ wpc' = wpc /\ believed' = believed /\ takes' = takes
    BY DEF workerVars
  <1>2. ASSUME NEW b, Holds(b) PROVE Holds(b)' /\ (Says(b) => Says(b)')
    BY <1>1, <1>2 DEF Holds, Says, StatusOf
  <1>3. AtRest => AtRest' BY <1>1, <1>2 DEF AtRest
  <1>4. Starting => Starting' BY <1>1, <1>2 DEF Starting
  <1>5. Stopping => Stopping' BY <1>1, <1>2 DEF Stopping
  <1>6. Leaving => Leaving' BY <1>1, <1>2 DEF Leaving
  <1> QED BY <1>1, <1>3, <1>4, <1>5, <1>6 DEF Tracks, StopWaits

\* The child's steps that do so.
LEMMA TracksLoop ==
  ASSUME TypeInv, Tracks, trust, Own, NEW g \in Kids, g = gen,
         \/ ClearCmds(g) \/ Announce(g) \/ WriteStatus(g) \/ ReadCmds(g)
         \/ CutCmds(g) \/ CutFails(g) \/ ForwardReset(g)
  PROVE  Tracks'
  <1>1. UNCHANGED <<workerVars, history>> /\ gen' = gen
    BY DEF ClearCmds, Announce, WriteStatus, ReadCmds, CutCmds, CutFails, ForwardReset,
       workerVars
  <1>2. kid[gen] \in Kid /\ kid[gen].lines \in Seq(Line) /\ cmds \in Seq(Line)
    BY LinesType DEF Own
  <1> DEFINE k == kid[gen]
             l == kid'[gen]
             Same == l.capture = k.capture /\ l.flag = k.flag
             Shows == shown' = shown \/ shown' = StatusOf(k.flag)
             Asks == \A op, take : Asked(op, take) => Asked(op, take)'
             Nothing == NothingAsked => NothingAsked'
  <1> SUFFICES Same /\ Shows /\ Asks /\ Nothing
    BY <1>1, TracksSteady
  <1>3. CASE ClearCmds(g) \/ CutCmds(g)
    <2>1. cmds' = <<>> /\ l.lines = k.lines /\ Same /\ Shows
      BY <1>2, <1>3 DEF ClearCmds, CutCmds, To, TypeInv, KidsType, Kid
    <2> QED BY <1>1, <2>1, QuietEmpty DEF Asked, NothingAsked
  <1>4. CASE Announce(g) \/ WriteStatus(g)
    <2>1. cmds' = cmds /\ l.lines = k.lines /\ k.ph # "cut" /\ Same /\ Shows
      BY <1>2, <1>4 DEF Announce, WriteStatus, At, To, TypeInv, KidsType, Kid
    <2> QED BY <1>1, <2>1 DEF Asked, NothingAsked
  <1>5. CASE ReadCmds(g)
    <2>1. /\ cmds' = cmds /\ l.lines = cmds /\ Same /\ Shows
          /\ l.ph = IF cmds = <<>> THEN "show" ELSE "cut"
      BY <1>2, <1>5 DEF ReadCmds, fileVars, TypeInv, KidsType, Kid
    <2> QED BY <1>1, <2>1, QuietEmpty DEF Asked, NothingAsked
  <1>6. CASE CutFails(g)
    <2>1. cmds' = cmds /\ l.lines = <<>> /\ Same /\ Shows
      BY <1>2, <1>6 DEF CutFails, fileVars, TypeInv, KidsType, Kid
    <2> QED BY <1>1, <2>1, QuietEmpty DEF Asked, NothingAsked
  <1>7. CASE ForwardReset(g)
    <2>1. k.ph = "apply" /\ k.lines # <<>>
      BY <1>7, AppliedIsWhole DEF ForwardReset, Applies, At, TypeInv, KidsType, Kid
    <2>2. cmds' = cmds /\ l.lines = Tail(k.lines) /\ Same /\ Shows
      BY <1>2, <1>7 DEF ForwardReset, Applied, TypeInv, KidsType, Kid
    <2>3. Asks
      BY <1>1, <1>2, <2>1, <2>2, OneOfTail, QuietLines DEF Asked
    <2>4. Nothing
      BY <1>1, <1>2, <2>1, <2>2, QuietLines DEF NothingAsked
    <2> QED BY <2>2, <2>3, <2>4
  <1> QED BY <1>3, <1>4, <1>5, <1>6, <1>7

\* A line that is no reset is the command that the worker waits for.
LEMMA AppliesAsked ==
  ASSUME TypeInv, Tracks, trust, Own, kid[gen].ph = "apply",
         Head(kid[gen].lines).op # "reset"
  PROVE  /\ Quiet(cmds) /\ Quiet(Tail(kid[gen].lines))
         /\ \/ /\ wpc = "starting" /\ Holds(0) /\ Says(0)
               /\ Asked("record", takes)
               /\ Head(kid[gen].lines).op = "record"
               /\ Head(kid[gen].lines).take = takes
            \/ /\ StopWaits /\ Asked("stop", 0)
               /\ Head(kid[gen].lines).op = "stop"
            \/ /\ wpc = "quitting" /\ Holds(0) /\ Asked("quit", 0)
               /\ Head(kid[gen].lines).op = "quit"
  <1> DEFINE s == kid[gen].lines
  <1>1. wpc # "none" /\ gen \in Kids BY LinesType DEF Own
  <1>2. s \in Seq(Line) /\ s # <<>>
    BY <1>1, LinesType DEF TypeInv, KidsType, IsWhole
  <1>3. ~NothingAsked BY <1>2, QuietLines DEF NothingAsked
  <1>4. ASSUME NEW op, NEW take, Asked(op, take)
        PROVE  Head(s).op = op /\ Head(s).take = take /\ Quiet(Tail(s)) /\ Quiet(cmds)
    BY <1>2, <1>4, OneOfHead DEF Asked
  <1>5. wpc \notin {"spawning", "up", "leaving"} BY <1>3 DEF Tracks, AtRest
  <1>6. wpc \in {"starting", "quitting"} \/ StopWaits
    BY <1>1, <1>5 DEF TypeInv, WorkerType, StopWaits
  <1>7. CASE wpc = "starting"
    <2>1. Holds(0) /\ Says(0) /\ Asked("record", takes)
      BY <1>3, <1>7 DEF Tracks, Starting
    <2> QED BY <1>4, <1>7, <2>1
  <1>8. CASE StopWaits
    <2>1. Asked("stop", 0) BY <1>3, <1>8 DEF Tracks, Stopping
    <2> QED BY <1>4, <1>8, <2>1
  <1>9. CASE wpc = "quitting"
    <2>1. Holds(0) /\ Asked("quit", 0) BY <1>9 DEF Tracks, Leaving
    <2> QED BY <1>4, <1>9, <2>1
  <1> QED BY <1>6, <1>7, <1>8, <1>9

LEMMA TracksKid ==
  ASSUME TypeInv, Believes, Sole, Tracks, NEW g \in Kids, KidStep(g), trust'
  PROVE  Tracks'
  <1>1. g = gen /\ Own /\ trust /\ wpc # "none"
    BY KidFrame, OnlyOwn DEF history
  <1>2. gen' = gen /\ wpc' = wpc /\ believed' = believed /\ takes' = takes
    BY KidFrame DEF workerVars
  <1>3. kid[gen] \in Kid /\ kid \in [Kids -> Kid] /\ takes \in Nat
    BY <1>1, LinesType DEF TypeInv, KidsType, WorkerType
  <1>4. CASE \/ ClearCmds(g) \/ Announce(g) \/ WriteStatus(g) \/ ReadCmds(g)
             \/ CutCmds(g) \/ CutFails(g) \/ ForwardReset(g)
    BY <1>1, <1>4, TracksLoop
  <1>5. CASE BuildFails(g) \/ Exit(g) \/ ChildDies(g)
    <2>1. kid'[gen].ph = "gone"
      BY <1>1, <1>3, <1>5, KidPhases DEF BuildFails, Exit, ChildDies
    <2> QED BY <1>2, <2>1 DEF Tracks, Own, Alive
  <1>6. CASE StartRecord(g)
    <2>1. kid[gen].ph = "apply" /\ Head(kid[gen].lines).op = "record"
      BY <1>1, <1>6 DEF StartRecord, Applies, At
    <2>2. /\ wpc = "starting" /\ Head(kid[gen].lines).take = takes
          /\ Quiet(cmds) /\ Quiet(Tail(kid[gen].lines))
      BY <1>1, <2>1, AppliesAsked
    <2>3. /\ kid'[gen].flag = TRUE /\ kid'[gen].capture = takes
          /\ kid'[gen].lines = Tail(kid[gen].lines) /\ cmds' = cmds
      BY <1>1, <1>3, <1>6, <2>2 DEF StartRecord, Applied, fileVars
    <2>4. takes # 0 BY <2>2 DEF Believes
    <2>5. Starting'
      BY <1>2, <2>2, <2>3, <2>4 DEF Starting, Holds, NothingAsked
    <2> QED BY <1>2, <2>2, <2>5 DEF Tracks, StopWaits
  <1>7. CASE RelinkFails(g)
    <2>1. kid[gen].ph = "apply" /\ Head(kid[gen].lines).op = "record"
      BY <1>1, <1>7 DEF RelinkFails, Applies, At
    <2>2. /\ wpc = "starting" /\ Holds(0) /\ Says(0) /\ Asked("record", takes)
          /\ Quiet(cmds) /\ Quiet(Tail(kid[gen].lines))
      BY <1>1, <2>1, AppliesAsked
    <2>3. /\ kid'[gen].flag = kid[gen].flag /\ kid'[gen].capture = 0
          /\ kid'[gen].lines = Tail(kid[gen].lines) /\ cmds' = cmds /\ shown' = shown
      BY <1>1, <1>3, <1>7 DEF RelinkFails, Applied, fileVars
    <2>4. Asked("record", takes)'
      BY <1>2, <2>2, <2>3, QuietIsOneOf DEF Asked
    <2>5. Starting'
      BY <1>2, <2>2, <2>3, <2>4 DEF Starting, Holds, Says
    <2> QED BY <1>2, <2>2, <2>5 DEF Tracks, StopWaits
  <1>8. CASE StopRecord(g)
    <2>1. kid[gen].ph = "apply" /\ Head(kid[gen].lines).op = "stop"
      BY <1>1, <1>8 DEF StopRecord, Applies, At
    <2>2. StopWaits /\ Quiet(cmds) /\ Quiet(Tail(kid[gen].lines))
      BY <1>1, <2>1, AppliesAsked
    <2>3. /\ kid'[gen].flag = FALSE /\ kid'[gen].capture = 0
          /\ kid'[gen].lines = Tail(kid[gen].lines) /\ cmds' = cmds
      BY <1>1, <1>3, <1>8 DEF StopRecord, Applied, fileVars
    <2>4. Stopping'
      BY <1>2, <2>2, <2>3 DEF Stopping, Holds, NothingAsked
    <2> QED BY <1>2, <2>2, <2>4 DEF Tracks, StopWaits
  <1>9. CASE Quit(g)
    <2>1. kid[gen].ph = "apply" /\ Head(kid[gen].lines).op = "quit"
      BY <1>1, <1>9 DEF Quit, Applies, At
    <2>2. wpc = "quitting" /\ Quiet(cmds)
      BY <1>1, <2>1, AppliesAsked
    <2>3. kid'[gen] = [Unborn EXCEPT !.ph = "closing"] /\ cmds' = cmds
      BY <1>1, <1>3, <1>9 DEF Quit, fileVars
    <2>4. kid'[gen].flag = FALSE /\ kid'[gen].capture = 0 /\ kid'[gen].lines = <<>>
      BY <2>3 DEF Unborn
    <2>5. Leaving'
      BY <1>2, <2>2, <2>3, <2>4, QuietEmpty, QuietIsOneOf DEF Leaving, Holds, Asked
    <2> QED BY <1>2, <2>2, <2>5 DEF Tracks, StopWaits
  <1> QED
    BY <1>4, <1>5, <1>6, <1>7, <1>8, <1>9 DEF KidStep, ChildStep

LEMMA TracksNext ==
  ASSUME TypeInv, Believes, Sole, Tracks, [Next]_vars PROVE Tracks'
  <1>1. CASE Connect BY <1>1, TracksConnect
  <1>2. CASE ConnectFails \/ Teardown \/ WorkerDies \/ SessionLost \/ DropDead
    BY <1>2 DEF ConnectFails, Teardown, WorkerDies, SessionLost, DropDead, Tracks, Own
  <1>3. CASE CallStep BY <1>3, TracksCall
  <1>4. ASSUME NEW g \in Kids, KidStep(g) PROVE Tracks'
    BY <1>4, TracksKid DEF Tracks
  <1>5. CASE UNCHANGED vars
    BY <1>5
    DEF vars, workerVars, fileVars, history, Tracks, Own, Alive, StopWaits, AtRest,
        Starting, Stopping, Leaving, Holds, Says, NothingAsked, Asked
  <1> QED BY <1>1, <1>2, <1>3, <1>4, <1>5, NextCases

-----------------------------------------------------------------------------
(* The invariant, and the recording.                                       *)

LEMMA SInvInit == Init => SInv
  <1> SUFFICES ASSUME Init PROVE SInv
    OBVIOUS
  <1>1. wpc = "none" /\ believed = 0 /\ \A g \in Kids : ~Alive(g)
    BY DEF Init, Alive, Unborn
  <1>2. ~Own BY <1>1 DEF Own
  <1> QED
    BY <1>1, <1>2, TypeInit
    DEF SInv, GateInv, ChildHasSession, Believes, StopWaits, Sole, Boots, Tracks

LEMMA SInvNext == SInv /\ [Next]_vars => SInv'
  BY TypeNext, ChildHasSessionNext, BelievesNext, SoleNext, BootsNext, TracksNext
  DEF SInv, GateInv

LEMMA SInvAlways == Spec => []SInv
  BY SInvInit, SInvNext, PTL DEF Spec

\* While every call was acknowledged and nobody shares the state directory,
\* what the child writes between two calls is what the worker believes: the
\* take it started, or nothing.
THEOREM TrustedRecordingIsReal == Spec => []RecordingIsReal
  <1>1. SInv => RecordingIsReal
    BY DEF SInv, GateInv, Tracks, AtRest, Holds, RecordingIsReal, Written
  <1> QED BY <1>1, SInvAlways, PTL

-----------------------------------------------------------------------------
(* The refinement of CaptureGate.                                          *)

GateStutters == UNCHANGED <<Call, believed, Written, Own, trust>>

\* What the caller sees of a step that touches neither child nor trust.
LEMMA GateFrame ==
  ASSUME CallStep PROVE Written' = Written /\ Own' = Own
  BY CallFrame DEF Own, Written, Alive

LEMMA GateConnect ==
  ASSUME TypeInv, Connect PROVE Gate!Launch
  <1>1. gen \in Nat /\ gen + 1 \in Kids /\ gen + 1 > gen
    BY BoundAssumption DEF TypeInv, WorkerType, Connect, Kids
  <1>2. kid[gen + 1] = Unborn BY <1>1 DEF TypeInv, KidsType
  <1>3. kid'[gen'] = [Unborn EXCEPT !.ph = "boot"]
    BY <1>1, <1>2 DEF Connect, TypeInv, KidsType
  <1>4. kid'[gen'].ph = "boot" /\ kid'[gen'].capture = 0
    BY <1>3 DEF Unborn
  <1>5. wpc' = "spawning" /\ wpc = "none" /\ trust' \in BOOLEAN /\ believed' = believed
    BY DEF Connect
  <1>6. Own' = TRUE /\ Written' = 0 BY <1>4, <1>5 DEF Own, Written, Alive
  <1>7. Call = "closed" /\ Call' = "closed" BY <1>5 DEF Call
  <1> QED BY <1>5, <1>6, <1>7 DEF Gate!Launch

LEMMA GateCall ==
  ASSUME TypeInv, Believes, Tracks, trust, CallStep
  PROVE  \/ Gate!Open \/ Gate!Ask \/ Gate!Started \/ Gate!Stopped \/ Gate!Doubt
         \/ GateStutters
  <1>1. Written' = Written /\ Own' = Own BY GateFrame
  <1>2. CASE ConnectReady
    <2>1. Call = "closed" /\ Call' = "rest" /\ believed' = believed /\ trust' = trust
      BY <1>2 DEF ConnectReady, Call, history
    <2> QED BY <1>1, <2>1 DEF Gate!Open
  <1>3. CASE StartRecording
    <2>1. /\ Call = "rest" /\ Call' = "start" /\ believed = 0
          /\ believed' = believed /\ trust' = trust
      BY <1>3 DEF StartRecording, Call, history
    <2> QED BY <1>1, <2>1 DEF Gate!Ask
  <1>4. CASE StopRecording
    <2>1. /\ Call = "rest" /\ Call' = "stop" /\ believed # 0
          /\ believed' = believed /\ trust' = trust
      BY <1>4 DEF StopRecording, Call, history
    <2> QED BY <1>1, <2>1 DEF Gate!Ask
  <1>5. CASE Disconnect
    <2>1. /\ Call = "rest" /\ Call' = (IF believed = 0 THEN "leave" ELSE "stop")
          /\ believed' = believed /\ trust' = trust
      BY <1>5 DEF Disconnect, Call, history
    <2> QED BY <1>1, <2>1 DEF Gate!Ask
  <1>6. CASE StartAcknowledged
    <2>1. Call = "start" /\ Call' = "rest" /\ believed' = takes /\ trust' = trust
      BY <1>6 DEF StartAcknowledged, Call, history
    <2>2. takes \in Nat \ {0}
      BY <1>6 DEF StartAcknowledged, Believes, TypeInv, WorkerType
    <2>3. Own => Written = takes
      BY <1>6, <2>2 DEF StartAcknowledged, Tracks, Starting, Says, Holds, Written
    <2> QED BY <1>1, <2>1, <2>2, <2>3 DEF Gate!Started
  <1>7. CASE StopAcknowledged
    <2>1. Call = "stop" /\ Call' \in {"rest",
    "leave"} /\ believed' = 0 /\ trust' = trust
      BY <1>7 DEF StopAcknowledged, StopWaits, StopReturns, Call
    <2>2. Own => Written = 0
      BY <1>7 DEF StopAcknowledged, Believes, Tracks, Stopping, Says, Holds, Written
    <2> QED BY <1>1, <2>1, <2>2 DEF Gate!Stopped
  <1>8. CASE StartUnacknowledged \/ StopUnacknowledged
    BY <1>8 DEF StartUnacknowledged, StopUnacknowledged, Gate!Doubt
  <1>9. CASE ResetEtr290 \/ MonitorTakesReset
    <2>1. wpc' = wpc /\ believed' = believed /\ trust' = trust
      BY <1>9 DEF ResetEtr290, MonitorTakesReset, workerVars, history
    <2> QED BY <1>1, <2>1 DEF GateStutters, Call
  <1>10. CASE SendQuit
    <2>1. /\ wpc = "leaving" /\ wpc' = "quitting"
          /\ believed' = believed /\ trust' = trust
      BY <1>10 DEF SendQuit, history
    <2> QED BY <1>1, <2>1 DEF GateStutters, Call
  <1> QED
    BY <1>2, <1>3, <1>4, <1>5, <1>6, <1>7, <1>8, <1>9, <1>10 DEF CallStep

LEMMA GateEnds ==
  ASSUME Believes, trust,
         ConnectFails \/ Teardown \/ WorkerDies \/ SessionLost \/ DropDead
  PROVE  Gate!Close \/ Gate!Doubt \/ Gate!Drop
  <1>1. wpc' = "none"
    BY DEF ConnectFails, Teardown, WorkerDies, SessionLost, DropDead
  <1>2. Call' = "closed" /\ Own' = FALSE /\ Written' = 0
    BY <1>1 DEF Call, Own, Written
  <1>3. CASE ConnectFails \/ Teardown
    <2>1. Call \in {"closed", "leave"} /\ believed' = believed /\ trust' = trust
      BY <1>3 DEF ConnectFails, Teardown, Call, history
    <2> QED BY <1>2, <2>1 DEF Gate!Close
  <1>4. CASE WorkerDies \/ SessionLost
    BY <1>4 DEF WorkerDies, SessionLost, Gate!Doubt
  <1>5. CASE DropDead
    <2>1. /\ Call = "rest" /\ Own = FALSE /\ Written = 0
          /\ believed' = 0 /\ trust' = trust
      BY <1>5 DEF DropDead, Call, Own, Written, history
    <2> QED BY <1>2, <2>1 DEF Gate!Drop
  <1> QED BY <1>3, <1>4, <1>5

LEMMA GateKid ==
  ASSUME TypeInv, Believes, Sole, Tracks, trust, NEW g \in Kids, KidStep(g)
  PROVE  Gate!Begin \/ Gate!End \/ Gate!Die \/ GateStutters
  <1>1. g = gen /\ Own /\ wpc # "none"
    BY OnlyOwn
  <1>2. gen' = gen /\ wpc' = wpc /\ believed' = believed /\ trust' = trust
    BY KidFrame DEF workerVars, history
  <1>3. kid[gen] \in Kid /\ kid \in [Kids -> Kid] /\ takes \in Nat
    BY <1>1, LinesType DEF TypeInv, KidsType, WorkerType
  <1>4. Call' = Call BY <1>2 DEF Call
  <1>5. CASE \/ ClearCmds(g) \/ Announce(g) \/ WriteStatus(g) \/ ReadCmds(g)
             \/ CutCmds(g) \/ CutFails(g) \/ ForwardReset(g)
    <2>1. /\ kid'[gen].capture = kid[gen].capture
          /\ kid'[gen].ph \notin {"unborn", "gone"}
      BY <1>1, <1>3, <1>5
      DEF ClearCmds, Announce, WriteStatus, ReadCmds, CutCmds, CutFails, ForwardReset,
          Applied, To, Kid
    <2>2. Own' = Own /\ Written' = Written
      BY <1>1, <1>2, <2>1 DEF Own, Written, Alive
    <2> QED BY <1>2, <1>4, <2>2 DEF GateStutters
  <1>6. CASE BuildFails(g) \/ Exit(g) \/ ChildDies(g)
    <2>1. kid'[gen].ph = "gone"
      BY <1>1, <1>3, <1>6, KidPhases DEF BuildFails, Exit, ChildDies
    <2>2. Own' = FALSE /\ Written' = 0
      BY <1>2, <2>1 DEF Own, Written, Alive
    <2> QED BY <1>2, <1>4, <2>2 DEF Gate!Die
  <1>7. CASE StartRecord(g)
    <2>1. kid[gen].ph = "apply" /\ Head(kid[gen].lines).op = "record"
      BY <1>1, <1>7 DEF StartRecord, Applies, At
    <2>2. wpc = "starting" /\ Holds(0) /\ Head(kid[gen].lines).take = takes
      BY <1>1, <2>1, AppliesAsked
    <2>3. /\ kid'[gen].capture = takes
          /\ kid'[gen].ph \in {"show", "apply"}
      BY <1>1, <1>3, <1>7, <2>2 DEF StartRecord, Applied
    <2>4. /\ Own' = TRUE /\ Own = TRUE /\ Written = 0
          /\ Written' = takes /\ takes \in Nat \ {0} /\ Call = "start"
      BY <1>1, <1>2, <1>3, <2>2, <2>3 DEF Own, Written, Alive, Holds, Call, Believes
    <2> QED BY <1>2, <1>4, <2>4 DEF Gate!Begin
  <1>8. CASE RelinkFails(g)
    <2>1. kid[gen].ph = "apply" /\ Head(kid[gen].lines).op = "record"
      BY <1>1, <1>8 DEF RelinkFails, Applies, At
    <2>2. Holds(0)
      BY <1>1, <2>1, AppliesAsked
    <2>3. /\ kid'[gen].capture = 0
          /\ kid'[gen].ph \in {"show", "apply"}
      BY <1>1, <1>3, <1>8 DEF RelinkFails, Applied
    <2>4. Own' = Own /\ Written' = Written
      BY <1>1, <1>2, <2>2, <2>3 DEF Own, Written, Alive, Holds
    <2> QED BY <1>2, <1>4, <2>4 DEF GateStutters
  <1>9. CASE StopRecord(g)
    <2>1. kid[gen].ph = "apply" /\ Head(kid[gen].lines).op = "stop"
      BY <1>1, <1>9 DEF StopRecord, Applies, At
    <2>2. StopWaits
      BY <1>1, <2>1, AppliesAsked
    <2>3. /\ kid'[gen].capture = 0
          /\ kid'[gen].ph \in {"show", "apply"}
      BY <1>1, <1>3, <1>9 DEF StopRecord, Applied
    <2>4. Own' = Own /\ Written' = 0 /\ Call = "stop"
      BY <1>1, <1>2, <2>2, <2>3 DEF Own, Written, Alive, Call, StopWaits
    <2> QED BY <1>2, <1>4, <2>4 DEF Gate!End
  <1>10. CASE Quit(g)
    <2>1. kid[gen].ph = "apply" /\ Head(kid[gen].lines).op = "quit"
      BY <1>1, <1>10 DEF Quit, Applies, At
    <2>2. Holds(0)
      BY <1>1, <2>1, AppliesAsked
    <2>3. kid'[gen] = [Unborn EXCEPT !.ph = "closing"]
      BY <1>1, <1>3, <1>10 DEF Quit
    <2>4. kid'[gen].ph = "closing" /\ kid'[gen].capture = 0
      BY <2>3 DEF Unborn
    <2>5. Own' = Own /\ Written' = Written
      BY <1>1, <1>2, <2>2, <2>4 DEF Own, Written, Alive, Holds
    <2> QED BY <1>2, <1>4, <2>5 DEF GateStutters
  <1> QED
    BY <1>5, <1>6, <1>7, <1>8, <1>9, <1>10 DEF KidStep, ChildStep

\* Trust is lost for good, until the next session.
LEMMA TrustStays ==
  ASSUME TypeInv, [Next]_vars, ~Connect PROVE trust' => trust
  <1>1. CASE ConnectFails \/ Teardown \/ WorkerDies \/ SessionLost \/ DropDead
    BY <1>1 DEF ConnectFails, Teardown, WorkerDies, SessionLost, DropDead, history
  <1>2. CASE CallStep BY <1>2, CallFrame
  <1>3. ASSUME NEW g \in Kids, KidStep(g) PROVE trust' => trust
    BY <1>3, KidFrame DEF history
  <1>4. CASE UNCHANGED vars BY <1>4 DEF vars, history
  <1> QED BY <1>1, <1>2, <1>3, <1>4, NextCases

LEMMA GateNext ==
  ASSUME SInv, [Next]_vars PROVE Gate!Next \/ GateStutters
  <1> USE DEF SInv, GateInv
  <1>1. CASE Connect BY <1>1, GateConnect DEF Gate!Next
  <1>2. CASE ~Connect /\ ~trust
    BY <1>2, TrustStays DEF Gate!Next
  <1>3. CASE ~Connect /\ trust
    <2>1. CASE ConnectFails \/ Teardown \/ WorkerDies \/ SessionLost \/ DropDead
      BY <1>3, <2>1, GateEnds DEF Gate!Next
    <2>2. CASE CallStep
      BY <1>3, <2>2, GateCall DEF Gate!Next
    <2>3. ASSUME NEW g \in Kids, KidStep(g) PROVE Gate!Next \/ GateStutters
      BY <1>3, <2>3, GateKid DEF Gate!Next
    <2>4. CASE UNCHANGED vars
      BY <2>4
      DEF GateStutters, vars, workerVars, history, Call, Written, Own, Alive
    <2> QED BY <1>3, <2>1, <2>2, <2>3, <2>4, NextCases
  <1> QED BY <1>1, <1>2, <1>3

\* Whatever the two processes and the files between them do, the caller sees
\* the promise of CaptureGate: a trusted start returns after its capture has
\* begun, a trusted stop after it has ended, and no capture begins or ends
\* outside those calls.
THEOREM SessionImplementsGate == Spec => GateSpec
  <1>1. Init => Gate!Init
    BY DEF Init, Gate!Init, Call, Own, Written
  <1>2. SInv /\ [Next]_vars => [Gate!Next]_(Gate!vars)
    BY GateNext DEF GateStutters, Gate!vars
  <1> QED BY <1>1, <1>2, SInvAlways, PTL DEF Spec, GateSpec, Gate!Spec
=============================================================================
