--------------------------- MODULE Etr290Monitor ---------------------------
(***************************************************************************)
(* The ETR 290 monitor of one channel.  TSDuck posts each interval to the  *)
(* sidecar, whose HTTP threads add it to the session totals; the sidecar's *)
(* loop writes the totals to etr290.json and takes resets and the stop     *)
(* from files; the SRT child starts and stops the sidecar, forwards resets *)
(* and copies the totals into status.json.  Sessions follow each other in  *)
(* one state directory; sidecar n is the one session n started.            *)
(*                                                                         *)
(* Time is the age of a snapshot, in report intervals, up to Stale.        *)
(***************************************************************************)
EXTENDS Etr290

CONSTANTS
  Bodies,       \* what TSDuck may post
  Reports,      \* what TSDuck may write to analyze.json
  Stale,        \* the first age at which a snapshot is not fresh
  MaxSessions,  \* bound: connects
  MaxPosts,     \* bound: posts of one behaviour
  MaxResets,    \* bound: resets
  MaxFaults     \* bound: children, sidecars and tsps that are killed or die,
                \* resets lost, files read half written

ASSUME BoundAssumption ==
  /\ Stale \in Nat \ {0} /\ MaxSessions \in Nat /\ MaxPosts \in Nat
  /\ MaxResets \in Nat /\ MaxFaults \in Nat

\* A body is a sequence of rows, the value of a row a number.
ASSUME BodiesAssumption ==
  \A body \in Bodies :
    /\ body \in Seq({body[k] : k \in DOMAIN body})
    /\ \A k \in DOMAIN body : body[k].value \in Nat

\* TSDuck lists a PID once.
ASSUME ReportsAssumption ==
  \A report \in Reports :
    /\ report \in Seq({report[k] : k \in DOMAIN report})
    /\ \A i \in DOMAIN report : report[i].id \in Nat
    /\ \A i, j \in DOMAIN report : report[i].id = report[j].id => i = j

VARIABLES
  \* the SRT child and the worker's view of it
  session,   \* sessions connected so far; the newest is the present one
  child,     \* "none" (no session), "run", "quit", "dead" (not yet noticed)
  live,      \* media arrived in the last two seconds
  started,   \* the child has started its sidecar (etr290_proc)
  asked,     \* resets in the command file
  last,      \* etr290_last
  shown,     \* the key etr290 of status.json, without its age
  \* state directory
  json, analyze, resetFile, stopFile,
  \* sidecars
  pc,        \* where the loop of each is
  tsp,       \* the tsp of each is running
  snap,      \* its snapshot
  strays,    \* history: sidecars whose child died without stopping them
  left

childVars   == <<session, child, live, started, asked, last, shown>>
fileVars    == <<json, analyze, resetFile, stopFile>>
sidecarVars == <<pc, tsp, snap, strays>>
vars        == <<childVars, fileVars, sidecarVars, left>>

Sidecars == 1 .. MaxSessions

-----------------------------------------------------------------------------
(* Snapshots.  heard and era are not in the code: the bodies that went     *)
(* into the totals, and the resets applied before.                         *)

Reasons == {"nothing", "no interval yet", "stale", "failed"}

Blank(kind) ==
  [kind |-> kind, totals |-> empty_etr290_session, structure |-> <<>>,
   age |-> 0, era |-> 0, heard |-> <<>>]

Available(s) == s.kind = "session"

\* snapshot_is_fresh
Fresh(s) == Available(s) /\ s.age < Stale

Older(s) == [s EXCEPT !.age = IF @ < Stale THEN @ + 1 ELSE @]

Running(i) == pc[i] \notin {"unborn", "ended"}

TypeOK ==
  /\ session \in 0 .. MaxSessions
  /\ child \in {"none", "run", "quit", "dead"}
  /\ live \in BOOLEAN /\ started \in BOOLEAN /\ asked \in Nat
  /\ resetFile \in BOOLEAN /\ stopFile \in BOOLEAN
  /\ analyze \in Reports \cup {<<>>}
  /\ pc \in [Sidecars -> {"unborn", "top", "unlink", "publish", "ending", "ended"}]
  /\ tsp \in [Sidecars -> BOOLEAN]
  /\ \A s \in {last, shown, json} \cup {snap[i] : i \in Sidecars} :
        /\ s.kind \in Reasons \cup {"session"} /\ s.age \in 0 .. Stale
        /\ \A n \in ALL_P12_COUNTERS :
             s.totals.counters[n] \in [value : Nat, severity : {1, 2}]
        /\ s.totals.worst \in 0 .. 2
        /\ s.totals.errors \subseteq Nat /\ Cardinality(s.totals.errors) = 1
  /\ strays \subseteq Sidecars
  /\ left \in [posts : Nat, resets : Nat, faults : Nat]

Init ==
  /\ session = 0 /\ child = "none" /\ live = FALSE /\ started = FALSE /\ asked = 0
  /\ last = Blank("nothing") /\ shown = Blank("nothing")
  /\ json = Blank("nothing") /\ analyze = <<>>
  /\ resetFile = FALSE /\ stopFile = FALSE
  /\ pc = [i \in Sidecars |-> "unborn"] /\ tsp = [i \in Sidecars |-> FALSE]
  /\ snap = [i \in Sidecars |-> Blank("no interval yet")]
  /\ strays = {}
  /\ left = [posts |-> MaxPosts, resets |-> MaxResets, faults |-> MaxFaults]

Spend(b) == left[b] > 0 /\ left' = [left EXCEPT ![b] = @ - 1]

-----------------------------------------------------------------------------
(* The worker: connect, reset, disconnect.                                 *)

\* The state directory is emptied; the child starts from nothing.
Connect ==
  /\ child = "none" /\ session < MaxSessions
  /\ session' = session + 1 /\ child' = "run"
  /\ live' = FALSE /\ started' = FALSE /\ asked' = 0
  /\ last' = Blank("nothing") /\ shown' = Blank("nothing")
  /\ json' = Blank("nothing") /\ analyze' = <<>>
  /\ resetFile' = FALSE /\ stopFile' = FALSE
  /\ UNCHANGED <<sidecarVars, left>>

Reset ==
  /\ child = "run"
  /\ Spend("resets")
  /\ asked' = asked + 1
  /\ UNCHANGED <<session, child, live, started, last, shown, fileVars, sidecarVars>>

\* The quit command: the child asks its sidecar to stop and waits for it.
Quit ==
  /\ child = "run" /\ child' = "quit"
  /\ stopFile' = (stopFile \/ started)
  /\ UNCHANGED <<session, live, started, asked, last, shown, json, analyze,
                 resetFile, sidecarVars, left>>

\* Mutant of QuitEnds: the child does not wait for its sidecar.
QuitEndsAtOnce ==
  /\ child = "quit" /\ child' = "none"
  /\ shown' = Blank("nothing")
  /\ stopFile' = (stopFile \/ started)
  /\ UNCHANGED <<session, live, started, asked, last, json, analyze, resetFile,
                 sidecarVars, left>>

\* The sidecar has ended, or is killed after 5 seconds.  Behind the loop the
\* child asks once more, and writes a status without etr290.
QuitEnds ==
  /\ child = "quit" /\ child' = "none"
  /\ shown' = Blank("nothing")
  /\ stopFile' = (stopFile \/ started)
  /\ pc' = [pc EXCEPT ![session] = IF started THEN "ended" ELSE @]
  /\ UNCHANGED <<session, live, started, asked, last, json, analyze, resetFile,
                 tsp, snap, strays, left>>

\* The child is killed or crashes; its sidecar is another process.
ChildDies ==
  /\ child \in {"run", "quit"} /\ child' = "dead"
  /\ Spend("faults")
  /\ strays' = strays \cup {i \in Sidecars : Running(i)}
  /\ UNCHANGED <<session, live, started, asked, last, shown, fileVars, pc, tsp,
                 snap>>

\* The worker notices, or disconnects: there is nobody left to ask.
DropDead ==
  /\ child = "dead" /\ child' = "none"
  /\ UNCHANGED <<session, live, started, asked, last, shown, fileVars,
                 sidecarVars, left>>

-----------------------------------------------------------------------------
(* The child's timer: _write_status, _drain_cmds.                          *)

MediaComesAndGoes ==
  /\ child = "run"
  /\ live' = ~live
  /\ UNCHANGED <<session, child, started, asked, last, shown, fileVars,
                 sidecarVars, left>>

\* Mutant of Payload: what was shown last is shown until there is better.
PayloadHoldsLast(data) ==
  IF ~live THEN Blank("nothing")
  ELSE IF data.kind = "nothing" \/ (Available(data) /\ ~Fresh(data)) THEN last
  ELSE data

\* _etr290_status_payload; data = "nothing" when the file is missing or
\* cannot be read.
Payload(data) ==
  IF ~live THEN Blank("nothing")
  ELSE IF data.kind = "nothing"
         THEN IF Fresh(last) THEN last
              ELSE IF Available(last) THEN Blank("stale") ELSE Blank("nothing")
  ELSE IF Available(data) /\ ~Fresh(data) THEN Blank("stale")
  ELSE data

\* The sidecar is started the first time media is seen, and never again.
StartsSidecar == live /\ ~started

WriteStatus(data) ==
  /\ child = "run"
  /\ IF StartsSidecar
       THEN /\ started' = TRUE /\ stopFile' = FALSE
            /\ pc' = [pc EXCEPT ![session] = "top"]
            /\ tsp' = [tsp EXCEPT ![session] = TRUE]
       ELSE UNCHANGED <<started, stopFile, pc, tsp>>
  /\ LET payload == Payload(data) IN
       /\ shown' = [payload EXCEPT !.age = 0]
       /\ last' = IF Available(payload) THEN payload ELSE last
  /\ UNCHANGED <<session, child, live, asked, json, analyze, resetFile,
                 snap, strays>>

ReadsJson == WriteStatus(json) /\ UNCHANGED left

\* The replacement of the file failed and it was written in place.
ReadsHalfWritten == WriteStatus(Blank("nothing")) /\ Spend("faults")

ForwardReset ==
  /\ child = "run" /\ asked > 0
  /\ asked' = asked - 1
  /\ last' = Blank("nothing")
  /\ resetFile' = TRUE
  /\ UNCHANGED <<session, child, live, started, shown, json, analyze, stopFile,
                 sidecarVars, left>>

\* The command was appended between the child's read and its truncation of
\* the file (module SrtSession).
LoseReset ==
  /\ child = "run" /\ asked > 0
  /\ Spend("faults")
  /\ asked' = asked - 1
  /\ UNCHANGED <<session, child, live, started, last, shown, fileVars, sidecarVars>>

\* The reset file cannot be written: the child has cleared its last snapshot
\* by then, and says nothing.
ForwardResetFails ==
  /\ child = "run" /\ asked > 0
  /\ Spend("faults")
  /\ asked' = asked - 1
  /\ last' = Blank("nothing")
  /\ UNCHANGED <<session, child, live, started, shown, fileVars, sidecarVars>>

-----------------------------------------------------------------------------
(* The sidecar: the HTTP stub.                                             *)

\* do_POST: an interval is added to the totals, under the lock.
Accumulate(i, body) ==
  /\ Running(i) /\ tsp[i]
  /\ Spend("posts")
  /\ LET parsed == parse_influx_body(body)
         old    == snap[i]
         new    == [old EXCEPT !.kind = "session", !.age = 0,
                       !.totals = accumulate_etr290_snapshot(
                                    @, rollup_etr290_snapshot(parsed)),
                       !.heard = Append(@, body)]
     IN  snap' = IF Counts(parsed) THEN [snap EXCEPT ![i] = new] ELSE snap
  /\ UNCHANGED <<childVars, fileVars, pc, tsp, strays>>

-----------------------------------------------------------------------------
(* The sidecar: its loop.                                                  *)

At(i, label) == pc[i] = label

Goto(i, label) == pc' = [pc EXCEPT ![i] = label]

StopSeen(i) ==
  /\ At(i, "top") /\ stopFile
  /\ Goto(i, "ending")
  /\ UNCHANGED <<childVars, fileVars, tsp, snap, strays, left>>

TspExitSeen(i) ==
  /\ At(i, "top") /\ ~stopFile /\ ~tsp[i]
  /\ json' = Blank("failed")
  /\ Goto(i, "ending")
  /\ UNCHANGED <<childVars, analyze, resetFile, stopFile, tsp, snap,
                 strays, left>>

\* Mutant of ResetSeen: the loop binds its name to new totals, and the HTTP
\* threads keep the old ones.
ResetSeenRebinds(i) ==
  /\ At(i, "top") /\ ~stopFile /\ tsp[i]
  /\ IF resetFile
       THEN /\ Goto(i, "unlink")
            /\ json' = [Blank("session") EXCEPT !.structure = snap[i].structure,
                                                !.era = snap[i].era + 1]
       ELSE Goto(i, "publish") /\ UNCHANGED json
  /\ UNCHANGED <<childVars, analyze, resetFile, stopFile, tsp, snap,
                 strays, left>>

\* Mutant of ResetSeen: only totals that exist are reset.
ResetSeenIfAvailable(i) ==
  /\ At(i, "top") /\ ~stopFile /\ tsp[i]
  /\ IF resetFile
       THEN /\ Goto(i, "unlink")
            /\ IF Available(snap[i])
                 THEN /\ snap' = [snap EXCEPT ![i] =
                           [Blank("session") EXCEPT !.structure = snap[i].structure,
                                                    !.era = snap[i].era + 1]]
                      /\ json' = snap'[i]
                 ELSE UNCHANGED <<snap, json>>
       ELSE Goto(i, "publish") /\ UNCHANGED <<snap, json>>
  /\ UNCHANGED <<childVars, analyze, resetFile, stopFile, tsp, strays, left>>

\* A reset zeroes the totals, in memory and in the file; the PID map stays.
ResetSeen(i) ==
  /\ At(i, "top") /\ ~stopFile /\ tsp[i]
  /\ IF resetFile
       THEN /\ Goto(i, "unlink")
            /\ snap' = [snap EXCEPT ![i] =
                 [Blank("session") EXCEPT !.structure = snap[i].structure,
                                          !.era = snap[i].era + 1]]
            /\ json' = snap'[i]
       ELSE Goto(i, "publish") /\ UNCHANGED <<snap, json>>
  /\ UNCHANGED <<childVars, analyze, resetFile, stopFile, tsp, strays, left>>

\* A reset that came since it was seen goes with the file.
UnlinkReset(i) ==
  /\ At(i, "unlink")
  /\ resetFile' = FALSE
  /\ Goto(i, "publish")
  /\ UNCHANGED <<childVars, json, analyze, stopFile, tsp, snap, strays, left>>

\* The PID map in the file, when there is one.
load_pid_structure == [report \in Reports |-> extract_pid_structure(report)]

\* The PID map is read, and the totals written if there are any.
Publish(i) ==
  /\ At(i, "publish")
  /\ snap' = [snap EXCEPT ![i].structure =
                IF analyze = <<>> THEN @ ELSE load_pid_structure[analyze]]
  /\ json' = IF Available(snap[i]) THEN snap'[i] ELSE json
  /\ Goto(i, "top")
  /\ UNCHANGED <<childVars, analyze, resetFile, stopFile, tsp, strays, left>>

\* tsp is terminated and the files are removed, etr290.json apart.
Finish(i) ==
  /\ At(i, "ending")
  /\ Goto(i, "ended")
  /\ tsp' = [tsp EXCEPT ![i] = FALSE]
  /\ stopFile' = FALSE /\ resetFile' = FALSE /\ analyze' = <<>>
  /\ UNCHANGED <<childVars, json, snap, strays, left>>

-----------------------------------------------------------------------------
(* tsp, faults and time.                                                   *)

Analyze(i, report) ==
  /\ tsp[i]
  /\ analyze # report
  /\ analyze' = report
  /\ UNCHANGED <<childVars, json, resetFile, stopFile, sidecarVars, left>>

TspDies(i) ==
  /\ Running(i) /\ tsp[i]
  /\ Spend("faults")
  /\ tsp' = [tsp EXCEPT ![i] = FALSE]
  /\ UNCHANGED <<childVars, fileVars, pc, snap, strays>>

SidecarDies(i) ==
  /\ Running(i)
  /\ Spend("faults")
  /\ Goto(i, "ended")
  /\ UNCHANGED <<childVars, fileVars, tsp, snap, strays>>

Tick ==
  /\ json' = Older(json) /\ last' = Older(last)
  /\ snap' = [i \in Sidecars |-> Older(snap[i])]
  /\ UNCHANGED <<session, child, live, started, asked, shown, analyze, resetFile,
                 stopFile, pc, tsp, strays, left>>

Poll == ReadsJson \/ ForwardReset

SidecarStep(i) ==
  \/ StopSeen(i) \/ TspExitSeen(i) \/ ResetSeen(i) \/ UnlinkReset(i)
  \/ Publish(i) \/ Finish(i)

Fault ==
  \/ ReadsHalfWritten \/ LoseReset \/ ForwardResetFails \/ ChildDies
  \/ \E i \in Sidecars : TspDies(i) \/ SidecarDies(i)

Next ==
  \/ Connect \/ Reset \/ Quit \/ QuitEnds \/ DropDead
  \/ MediaComesAndGoes \/ Poll
  \/ \E i \in Sidecars :
       \/ \E body \in Bodies : Accumulate(i, body)
       \/ SidecarStep(i)
       \/ \E report \in Reports : Analyze(i, report)
  \/ Fault \/ Tick

\* The timers of child and sidecar keep firing, and time passes.
Fairness ==
  /\ WF_vars(ReadsJson) /\ WF_vars(ForwardReset) /\ WF_vars(Tick)
  /\ \A i \in Sidecars : WF_vars(SidecarStep(i))

Spec == Init /\ [][Next]_vars /\ Fairness

-----------------------------------------------------------------------------
(* What the monitor promises.                                              *)

Copies == {json, last, shown} \cup {snap[i] : i \in Sidecars}

\* What one body says of a counter: its last valid row.
Said(body, n) ==
  LET rows == {k \in DOMAIN body : IsCounter(body[k]) /\ body[k].name = n}
  IN  IF rows = {} THEN 0
      ELSE body[CHOOSE k \in rows : \A j \in rows : j <= k].value

TotalOver(bodies, n) ==
  LET sum[k \in 0 .. Len(bodies)] ==
        IF k = 0 THEN 0 ELSE sum[k - 1] + Said(bodies[k], n)
  IN  sum[Len(bodies)]

\* Wherever totals are shown, they are the sums over all intervals since the
\* last reset that was applied, each counted once, and the worst severity is
\* that of the totals.
TotalsAreSums ==
  \A s \in Copies : Available(s) =>
    /\ \A n \in ALL_P12_COUNTERS :
         s.totals.counters[n].value = TotalOver(s.heard, n)
    /\ s.totals.worst = WorstSeverity(s.totals.counters)

IsWhole(map) ==
  /\ \A i, j \in DOMAIN map : i < j => map[i].id < map[j].id
  /\ \E i \in DOMAIN map : map[i].id = MPEG_TS_NULL_PID
  /\ \A i \in DOMAIN map : map[i].stuffing <=> map[i].id = MPEG_TS_NULL_PID

\* The PID map is always in the order of the PIDs and has the null PID, once
\* and flagged as stuffing, whether or not TSDuck saw it.
StructureIsWhole ==
  \A s \in Copies : s.structure # <<>> => IsWhole(s.structure)

\* Within a session the totals on show never go back behind a reset that
\* was on show before, nor lose an interval without a reset.  A monitor that
\* was left behind in the directory spoils this.
ShownMovesForward ==
  [][Available(shown) /\ Available(shown') /\ strays = {} =>
       \/ shown'.era > shown.era
       \/ /\ shown'.era = shown.era
          /\ Len(shown'.heard) >= Len(shown.heard)]_vars

\* The monitor runs only inside its session, unless the SRT child that could
\* stop it was killed or crashed: nobody else stops it.
MonitorHasSession ==
  \A i \in Sidecars :
    Running(i) => i \in strays \/ (i = session /\ child # "none")

\* No monitor but i runs in the state directory.
Alone(i) == \A k \in Sidecars \ {i} : ~Running(k)

\* A reset file that the child has written reaches the totals, unless the
\* monitor or the session ends first, and whether or not there are totals
\* yet.  There are two exceptions, both of the file that is removed without
\* having been applied: a reset that arrives between the last one's being
\* applied and its file's being removed, and a monitor left behind by an
\* earlier child in the same directory, which takes the file for its own.
ResetIsApplied ==
  \A i \in Sidecars : \A e \in 0 .. MaxResets :
    ( /\ resetFile /\ session = i /\ Alone(i)
      /\ pc[i] \in {"top", "publish"} /\ snap[i].era = e )
    ~> snap[i].era > e \/ ~Running(i) \/ session # i

\* A monitor that has failed does not look healthy for long.
FailureIsShown ==
  \A i \in Sidecars :
    (session = i /\ started /\ pc[i] = "ended" /\ strays = {})
      ~> [](child = "run" /\ session = i => ~Available(shown))
=============================================================================
