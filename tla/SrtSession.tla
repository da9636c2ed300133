----------------------------- MODULE SrtSession ----------------------------
(***************************************************************************)
(* The SRT session of one channel: ChannelSession in the ingest worker and *)
(* the child process that holds the pipeline, srt_session_proc.  They talk *)
(* through files of one state directory: the worker appends commands to    *)
(* cmds; the child reads and then truncates that file on a timer, and      *)
(* writes status.json before each read.  A call waits for the status it    *)
(* wants, for at most a few seconds.                                       *)
(*                                                                         *)
(* A deadline is an action without a clock: it may pass at any moment.     *)
(* Children are numbered; the newest is the session's own.                 *)
(***************************************************************************)
EXTENDS Naturals, Sequences

CONSTANTS
  MaxSessions,  \* bound: connects
  MaxTakes,     \* bound: record starts
  MaxResets,    \* bound: ETR 290 resets
  MaxFaults     \* bound: kills of the worker, sessions it loses, children
                \* that end by themselves, pipelines and links that fail

ASSUME BoundAssumption ==
  /\ MaxSessions \in Nat /\ MaxTakes \in Nat
  /\ MaxResets \in Nat /\ MaxFaults \in Nat

VARIABLES
  \* worker
  wpc,        \* the call the worker is in
  gen,        \* children spawned so far; the newest is the session's
  believed,   \* the take _recording stands for, 0 = not recording
  takes,      \* record commands sent so far; a take is its number
  \* state directory
  cmds, ready,
  shown,      \* status.json: no file, "no" or "yes" for its key recording
  resetFile,  \* etr290_reset, for the monitor
  \* children
  kid,
  \* history
  trust,      \* every call of the session was acknowledged, nobody else is here
  orphans,    \* children that have outlived their session
  \* what is left of the two bounds
  left

workerVars == <<wpc, gen, believed, takes>>
fileVars   == <<cmds, ready, shown, resetFile>>
history    == <<trust, orphans>>
vars       == <<workerVars, fileVars, kid, history, left>>

-----------------------------------------------------------------------------
Kids == 1 .. MaxSessions

Line == [op : {"record", "stop", "quit", "reset"}, take : Nat]

Phases == {"unborn", "boot", "build", "announced", "show", "read", "cut",
           "apply", "closing", "gone"}

\* lines: read from cmds and not yet applied.  flag: the child's variable
\* recording.  capture: the take whose directory the valve lets data into.
Kid == [ph : Phases, lines : Seq(Line), flag : BOOLEAN, capture : Nat]

Unborn == [ph |-> "unborn", lines |-> <<>>, flag |-> FALSE, capture |-> 0]

Gone == [Unborn EXCEPT !.ph = "gone"]

Alive(g) == kid[g].ph \notin {"unborn", "gone"}

TypeOK ==
  /\ wpc \in {"none", "spawning", "up", "starting", "stopping", "lastStop",
              "leaving", "quitting"}
  /\ gen \in 0 .. MaxSessions
  /\ wpc # "none" => gen \in Kids
  /\ believed \in Nat /\ takes \in Nat
  /\ cmds \in Seq(Line)
  /\ ready \in BOOLEAN /\ resetFile \in BOOLEAN
  /\ shown \in {"absent", "no", "yes"}
  /\ kid \in [Kids -> Kid]
  /\ trust \in BOOLEAN /\ orphans \subseteq Kids
  /\ left \in [resets : Nat, faults : Nat]

Init ==
  /\ wpc = "none" /\ gen = 0 /\ believed = 0 /\ takes = 0
  /\ cmds = <<>> /\ ready = FALSE /\ shown = "absent" /\ resetFile = FALSE
  /\ kid = [g \in Kids |-> Unborn]
  /\ trust = TRUE /\ orphans = {}
  /\ left = [resets |-> MaxResets, faults |-> MaxFaults]

Spend(b) == left[b] > 0 /\ left' = [left EXCEPT ![b] = @ - 1]

-----------------------------------------------------------------------------
(* The worker: connect.                                                    *)

\* Mutant of Connect: the files of the last session stay.
ConnectKeepsFiles ==
  /\ wpc = "none" /\ gen < MaxSessions
  /\ gen' = gen + 1
  /\ kid' = [kid EXCEPT ![gen + 1].ph = "boot"]
  /\ wpc' = "spawning"
  /\ trust' = \A g \in orphans : ~Alive(g)
  /\ UNCHANGED <<believed, takes, fileVars, orphans, left>>

\* The state directory is emptied before the child is spawned.
Connect ==
  /\ wpc = "none" /\ gen < MaxSessions
  /\ cmds' = <<>> /\ ready' = FALSE /\ shown' = "absent" /\ resetFile' = FALSE
  /\ gen' = gen + 1
  /\ kid' = [kid EXCEPT ![gen + 1].ph = "boot"]
  /\ wpc' = "spawning"
  /\ trust' = \A g \in orphans : ~Alive(g)
  /\ UNCHANGED <<believed, takes, orphans, left>>

ConnectReady ==
  /\ wpc = "spawning" /\ Alive(gen) /\ ready
  /\ wpc' = "up"
  /\ UNCHANGED <<gen, believed, takes, fileVars, kid, history, left>>

\* The child has exited, or is not ready after 15 seconds and is killed.
ConnectFails ==
  /\ wpc = "spawning"
  /\ kid' = [kid EXCEPT ![gen] = Gone]
  /\ wpc' = "none"
  /\ UNCHANGED <<gen, believed, takes, fileVars, history, left>>

-----------------------------------------------------------------------------
(* The worker: record start, record stop, reset.                           *)

\* Mutant of Send: a command without its argument.
SendBare(op, take) == cmds' = Append(cmds, [op |-> op])

Send(op, take) == cmds' = Append(cmds, [op |-> op, take |-> take])

StartRecording ==
  /\ wpc = "up" /\ Alive(gen) /\ believed = 0
  /\ takes < MaxTakes
  /\ takes' = takes + 1
  /\ Send("record", takes + 1)
  /\ wpc' = "starting"
  /\ UNCHANGED <<gen, believed, ready, shown, resetFile, kid, history, left>>

StartAcknowledged ==
  /\ wpc = "starting" /\ shown = "yes"
  /\ believed' = takes
  /\ wpc' = "up"
  /\ UNCHANGED <<gen, takes, fileVars, kid, history, left>>

\* 5 seconds have passed or the child is gone: the caller gets an error, and
\* the command stays where it is.
StartUnacknowledged ==
  /\ wpc = "starting"
  /\ wpc' = "up" /\ trust' = FALSE
  /\ UNCHANGED <<gen, believed, takes, fileVars, kid, orphans, left>>

StopRecording ==
  /\ wpc = "up" /\ believed # 0
  /\ Send("stop", 0)
  /\ wpc' = "stopping"
  /\ UNCHANGED <<gen, believed, takes, ready, shown, resetFile, kid, history, left>>

StopWaits == wpc \in {"stopping", "lastStop"}

StopReturns ==
  /\ believed' = 0
  /\ wpc' = IF wpc = "lastStop" THEN "leaving" ELSE "up"
  /\ UNCHANGED <<gen, takes, fileVars, kid, orphans, left>>

StopAcknowledged == StopWaits /\ shown = "no" /\ StopReturns /\ UNCHANGED trust

\* 3 seconds have passed or the child is gone: only a warning.
StopUnacknowledged == StopWaits /\ StopReturns /\ trust' = FALSE

\* Nothing acknowledges a reset.
ResetEtr290 ==
  /\ wpc = "up"
  /\ Spend("resets")
  /\ Send("reset", 0)
  /\ UNCHANGED <<workerVars, ready, shown, resetFile, kid, history>>

-----------------------------------------------------------------------------
(* The worker: disconnect, and its death.                                  *)

Disconnect ==
  /\ wpc = "up"
  /\ IF believed # 0
       THEN Send("stop", 0) /\ wpc' = "lastStop"
       ELSE wpc' = "leaving" /\ UNCHANGED cmds
  /\ UNCHANGED <<gen, believed, takes, ready, shown, resetFile, kid, history, left>>

SendQuit ==
  /\ wpc = "leaving"
  /\ Send("quit", 0)
  /\ wpc' = "quitting"
  /\ UNCHANGED <<gen, believed, takes, ready, shown, resetFile, kid, history, left>>

\* Mutant of Teardown: after 8 seconds the worker gives up.
TeardownGivesUp ==
  /\ wpc = "quitting"
  /\ wpc' = "none"
  /\ UNCHANGED <<gen, believed, takes, fileVars, kid, history, left>>

\* The child has exited, or does not within 8 seconds and is killed.
Teardown ==
  /\ wpc = "quitting"
  /\ kid' = [kid EXCEPT ![gen] = Gone]
  /\ wpc' = "none"
  /\ UNCHANGED <<gen, believed, takes, fileVars, history, left>>

\* The worker is killed.  In its container everything goes with it; started
\* by hand it leaves its children behind.
WorkerDies ==
  /\ wpc # "none"
  /\ Spend("faults")
  /\ wpc' = "none" /\ believed' = 0
  /\ \/ kid' = [g \in Kids |-> IF Alive(g) THEN Gone ELSE kid[g]] /\ UNCHANGED orphans
     \/ orphans' = {g \in Kids : Alive(g)} /\ UNCHANGED kid
  /\ trust' = FALSE
  /\ UNCHANGED <<gen, takes, fileVars>>

\* _handle_disconnect raises between popping the session and disconnecting
\* it: the child goes on without a session.
SessionLost ==
  /\ wpc = "up" /\ believed = 0
  /\ Spend("faults")
  /\ wpc' = "none" /\ trust' = FALSE
  /\ orphans' = {g \in Kids : Alive(g)}
  /\ UNCHANGED <<gen, believed, takes, fileVars, kid>>

\* The heartbeat finds the child gone and drops the session as it is.
DropDead ==
  /\ wpc = "up" /\ ~Alive(gen)
  /\ wpc' = "none" /\ believed' = 0
  /\ UNCHANGED <<gen, takes, fileVars, kid, history, left>>

-----------------------------------------------------------------------------
(* The child: from its start to the loop.                                  *)

At(g, phase) == kid[g].ph = phase

To(g, phase) == kid' = [kid EXCEPT ![g].ph = phase]

ClearCmds(g) ==
  /\ At(g, "boot") /\ To(g, "build")
  /\ cmds' = <<>>
  /\ UNCHANGED <<workerVars, ready, shown, resetFile, history, left>>

\* Elements are missing, or the pipeline does not go to PLAYING: exit 1.
BuildFails(g) ==
  /\ At(g, "build")
  /\ Spend("faults")
  /\ kid' = [kid EXCEPT ![g] = Gone]
  /\ UNCHANGED <<workerVars, fileVars, history>>

Announce(g) ==
  /\ At(g, "build") /\ To(g, "announced")
  /\ ready' = TRUE
  /\ UNCHANGED <<workerVars, cmds, shown, resetFile, history, left>>

StatusOf(flag) == IF flag THEN "yes" ELSE "no"

\* Mutant of WriteStatus: the timer only reads commands.
WriteStatusOnce(g) ==
  /\ \/ At(g, "announced") /\ To(g, "show") /\ shown' = StatusOf(kid[g].flag)
     \/ At(g, "show") /\ To(g, "read") /\ UNCHANGED shown
  /\ UNCHANGED <<workerVars, cmds, ready, resetFile, history, left>>

\* Once before the loop, then at the head of every _poll_cmd.
WriteStatus(g) ==
  /\ \/ At(g, "announced") /\ To(g, "show")
     \/ At(g, "show") /\ To(g, "read")
  /\ shown' = StatusOf(kid[g].flag)
  /\ UNCHANGED <<workerVars, cmds, ready, resetFile, history, left>>

-----------------------------------------------------------------------------
(* The child: _drain_cmds.                                                 *)

ReadCmds(g) ==
  /\ At(g, "read")
  /\ kid' = [kid EXCEPT ![g].lines = cmds,
                        ![g].ph = IF cmds = <<>> THEN "show" ELSE "cut"]
  /\ UNCHANGED <<workerVars, fileVars, history, left>>

\* What was appended since the read is lost.
CutCmds(g) ==
  /\ At(g, "cut") /\ To(g, "apply")
  /\ cmds' = <<>>
  /\ UNCHANGED <<workerVars, ready, shown, resetFile, history, left>>

\* The file cannot be written: the same lines are read again later.
CutFails(g) ==
  /\ At(g, "cut")
  /\ Spend("faults")
  /\ kid' = [kid EXCEPT ![g].lines = <<>>, ![g].ph = "show"]
  /\ UNCHANGED <<workerVars, fileVars, history>>

\* The next line to apply is of this kind.
Applies(g, op) == At(g, "apply") /\ Head(kid[g].lines).op = op

\* The line has been applied, with this effect on the recording.
Applied(g, flag, capture) ==
  LET rest == Tail(kid[g].lines) IN
    kid' = [kid EXCEPT ![g] =
              [ph |-> IF rest = <<>> THEN "show" ELSE "apply", lines |-> rest,
               flag |-> flag, capture |-> capture]]

StartRecord(g) ==
  /\ Applies(g, "record")
  /\ Applied(g, TRUE, Head(kid[g].lines).take)
  /\ UNCHANGED <<workerVars, fileVars, history, left>>

\* Mutant of RelinkFails: the flag is set before the link is tried.
RelinkFailsUnseen(g) ==
  /\ Applies(g, "record")
  /\ Spend("faults")
  /\ Applied(g, TRUE, 0)
  /\ UNCHANGED <<workerVars, fileVars, history>>

\* The old sink has been unlinked and the new one cannot be linked.
RelinkFails(g) ==
  /\ Applies(g, "record")
  /\ Spend("faults")
  /\ Applied(g, kid[g].flag, 0)
  /\ UNCHANGED <<workerVars, fileVars, history>>

StopRecord(g) ==
  /\ Applies(g, "stop")
  /\ Applied(g, FALSE, 0)
  /\ UNCHANGED <<workerVars, fileVars, history, left>>

ForwardReset(g) ==
  /\ Applies(g, "reset")
  /\ Applied(g, kid[g].flag, kid[g].capture)
  /\ resetFile' = TRUE
  /\ UNCHANGED <<workerVars, cmds, ready, shown, history, left>>

\* The capture is closed, the monitor and the pipeline are stopped; lines
\* behind the quit are dropped.
Quit(g) ==
  /\ Applies(g, "quit")
  /\ kid' = [kid EXCEPT ![g] = [Unborn EXCEPT !.ph = "closing"]]
  /\ UNCHANGED <<workerVars, fileVars, history, left>>

\* Behind the loop: the last status has no key recording.
Exit(g) ==
  /\ At(g, "closing")
  /\ kid' = [kid EXCEPT ![g] = Gone]
  /\ ready' = FALSE /\ shown' = "no"
  /\ UNCHANGED <<workerVars, cmds, resetFile, history, left>>

ChildDies(g) ==
  /\ Alive(g)
  /\ Spend("faults")
  /\ kid' = [kid EXCEPT ![g] = Gone]
  /\ UNCHANGED <<workerVars, fileVars, history>>

-----------------------------------------------------------------------------
\* The ETR 290 monitor takes the reset file (module Etr290Monitor).
MonitorTakesReset ==
  /\ resetFile /\ resetFile' = FALSE
  /\ UNCHANGED <<workerVars, cmds, ready, shown, kid, history, left>>

WorkerCall ==
  \/ Connect \/ StartRecording \/ StopRecording \/ ResetEtr290 \/ Disconnect

\* A call of the worker goes on or returns.
WorkerStep ==
  \/ ConnectReady \/ ConnectFails
  \/ StartAcknowledged \/ StartUnacknowledged
  \/ StopAcknowledged \/ StopUnacknowledged
  \/ SendQuit \/ Teardown \/ DropDead

\* What a running child does by itself.
ChildStep(g) ==
  \/ ClearCmds(g) \/ Announce(g) \/ WriteStatus(g) \/ ReadCmds(g) \/ CutCmds(g)
  \/ StartRecord(g) \/ StopRecord(g) \/ ForwardReset(g) \/ Quit(g) \/ Exit(g)

Fault ==
  \/ WorkerDies \/ SessionLost
  \/ \E g \in Kids : BuildFails(g) \/ CutFails(g) \/ RelinkFails(g) \/ ChildDies(g)

Next ==
  \/ WorkerCall \/ WorkerStep
  \/ \E g \in Kids : ChildStep(g)
  \/ MonitorTakesReset
  \/ Fault

\* A child's timer keeps firing, and every wait of the worker has a deadline.
Fairness ==
  /\ WF_vars(WorkerStep)
  /\ \A g \in Kids : WF_vars(ChildStep(g))

Spec == Init /\ [][Next]_vars /\ Fairness

-----------------------------------------------------------------------------
(* What the session promises.                                              *)

\* The child of the session, when it runs, and what it writes.
Own == wpc # "none" /\ Alive(gen)

Written == IF Own THEN kid[gen].capture ELSE 0

\* While the session is trusted: a recording the worker believes in is being
\* written into its own directory, and nothing is written when it believes in
\* none.
RecordingIsReal ==
  trust /\ wpc = "up" /\ Own => Written = believed

\* A child runs only inside its session, unless its worker was killed or has
\* lost the session.
ChildHasSession ==
  \A g \in Kids : Alive(g) => g \in orphans \/ (g = gen /\ wpc # "none")

\* Whatever went unacknowledged: status.json comes to say what the child does,
\* or the child changes or ends.
StatusCatchesUp ==
  \A g \in Kids : \A f \in BOOLEAN :
    Own /\ gen = g /\ kid[g].flag = f
      ~> shown = StatusOf(f) \/ kid[g].flag # f \/ ~Alive(g)

\* Where the worker is, as its caller sees it.
Call ==
  CASE wpc \in {"none", "spawning"}       -> "closed"
    [] wpc = "up"                         -> "rest"
    [] wpc = "starting"                   -> "start"
    [] wpc \in {"stopping", "lastStop"}   -> "stop"
    [] wpc \in {"leaving", "quitting"}    -> "leave"

Gate == INSTANCE CaptureGate WITH
          call <- Call, written <- Written, alive <- Own, trusted <- trust

\* The session implements the promise that IngestWorker's OpenCapture and
\* StopCapture rest on.
GateSpec == Gate!Spec
=============================================================================
