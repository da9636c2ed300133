------------------------- MODULE Etr290MonitorProofs -----------------------
(***************************************************************************)
(* What the ETR 290 monitor keeps for any number of sessions, intervals,   *)
(* resets and faults, whatever TSDuck posts: a sidecar stays with its      *)
(* session, and what is on show does not move back.                        *)
(***************************************************************************)
EXTENDS Etr290Monitor, TLAPS

-----------------------------------------------------------------------------
(* The sidecar and its session.                                            *)

PlaceType ==
  /\ session \in 0 .. MaxSessions
  /\ pc \in [Sidecars -> {"unborn", "top", "unlink", "publish", "ending", "ended"}]
  /\ strays \subseteq Sidecars
  /\ child \in {"none", "run", "quit", "dead"}
  /\ child # "none" => session \in Sidecars

\* A sidecar that is nobody's stray belongs to the child that has started it
\* and still runs.
SidecarIsOwned ==
  \A i \in Sidecars :
    Running(i) => i \in strays \/ (i = session /\ child \in {"run", "quit"} /\ started)

PlaceInv == PlaceType /\ SidecarIsOwned

\* Steps that start no sidecar and end no child.
LEMMA PlaceFrame ==
  ASSUME PlaceInv, UNCHANGED <<session, child, started, strays>>,
         pc' = pc \/ \E i \in Sidecars : Running(i) /\
                       \E label \in {"top", "unlink", "publish", "ending", "ended"} :
                         pc' = [pc EXCEPT ![i] = label]
  PROVE  PlaceInv'
BY DEF PlaceInv, PlaceType, SidecarIsOwned, Running

LEMMA PlaceConnect ==
  ASSUME PlaceInv, Connect
  PROVE  PlaceInv'
<1>1. session' = session + 1 /\ session' \in Sidecars
  BY BoundAssumption DEF Connect, PlaceInv, PlaceType, Sidecars
<1>2. \A i \in Sidecars : Running(i) => i \in strays
  BY DEF Connect, PlaceInv, SidecarIsOwned
<1>3. child' = "run" /\ UNCHANGED <<pc, strays>>
  BY DEF Connect, sidecarVars
<1>4. PlaceType'
  BY <1>1, <1>3, BoundAssumption DEF PlaceInv, PlaceType, Sidecars
<1>5. SidecarIsOwned'
  BY <1>2, <1>3 DEF SidecarIsOwned, Running
<1>6. QED
  BY <1>4, <1>5 DEF PlaceInv

LEMMA PlaceStep == PlaceInv /\ [Next]_vars => PlaceInv'
<1> SUFFICES ASSUME PlaceInv, [Next]_vars
             PROVE  PlaceInv'
  OBVIOUS
<1> USE DEF childVars, fileVars, sidecarVars
<1>1. CASE UNCHANGED vars \/ Reset \/ MediaComesAndGoes \/ ForwardReset \/ LoseReset
           \/ ForwardResetFails \/ Tick
  BY <1>1, PlaceFrame
  DEF vars, Reset, MediaComesAndGoes, ForwardReset, LoseReset, ForwardResetFails, Tick
<1>2. CASE Quit
  BY <1>2 DEF Quit, PlaceInv, PlaceType, SidecarIsOwned, Running
<1>3. CASE QuitEnds
  <2>1. session \in Sidecars
    BY <1>3 DEF QuitEnds, PlaceInv, PlaceType
  <2>2. PlaceType'
    BY <1>3 DEF QuitEnds, PlaceInv, PlaceType
  <2>3. SidecarIsOwned'
    BY <1>3, <2>1 DEF QuitEnds, PlaceInv, PlaceType, SidecarIsOwned, Running
  <2>4. QED
    BY <2>2, <2>3 DEF PlaceInv
<1>4. CASE ChildDies
  BY <1>4 DEF ChildDies, PlaceInv, PlaceType, SidecarIsOwned, Running
<1>5. CASE DropDead
  BY <1>5 DEF DropDead, PlaceInv, PlaceType, SidecarIsOwned, Running
<1>6. CASE ReadsJson \/ ReadsHalfWritten
  <2>1. PICK data : WriteStatus(data)
    BY <1>6 DEF ReadsJson, ReadsHalfWritten
  <2>2. PlaceType'
    BY <2>1 DEF WriteStatus, PlaceInv, PlaceType
  <2>3. SidecarIsOwned'
    BY <2>1 DEF WriteStatus, PlaceInv, PlaceType, SidecarIsOwned, Running
  <2>4. QED
    BY <2>2, <2>3 DEF PlaceInv
<1>7. ASSUME NEW i \in Sidecars, SidecarStep(i)
      PROVE  PlaceInv'
  <2>1. /\ UNCHANGED <<session, child, started, strays>> /\ Running(i)
        /\ \E label \in {"top", "unlink", "publish", "ending", "ended"} :
             pc' = [pc EXCEPT ![i] = label]
    BY <1>7 DEF SidecarStep, StopSeen, TspExitSeen, ResetSeen, UnlinkReset, Publish,
                Finish, At, Goto, Running
  <2>2. QED
    BY <2>1, PlaceFrame
<1>8. ASSUME NEW i \in Sidecars,
             \/ \E body \in Bodies : Accumulate(i, body)
             \/ \E report \in Reports : Analyze(i, report)
             \/ TspDies(i) \/ SidecarDies(i)
      PROVE  PlaceInv'
  <2>1. /\ UNCHANGED <<session, child, started, strays>>
        /\ pc' = pc \/ (Running(i) /\ pc' = [pc EXCEPT ![i] = "ended"])
    BY <1>8 DEF Accumulate, Analyze, TspDies, SidecarDies, Goto
  <2>2. QED
    BY <2>1, PlaceFrame
<1>9. CASE Connect
  BY <1>9, PlaceConnect
<1>10. ASSUME \E i \in Sidecars :
                \/ \E body \in Bodies : Accumulate(i, body)
                \/ SidecarStep(i)
                \/ \E report \in Reports : Analyze(i, report)
       PROVE  PlaceInv'
  BY <1>7, <1>8, <1>10, Zenon
<1>11. CASE Fault
  <2>1. CASE ReadsHalfWritten \/ LoseReset \/ ForwardResetFails \/ ChildDies
    BY <1>1, <1>4, <1>6, <2>1
  <2>2. CASE \E i \in Sidecars : TspDies(i) \/ SidecarDies(i)
    BY <1>8, <2>2, Zenon
  <2>3. QED
    BY <1>11, <2>1, <2>2 DEF Fault
<1>12. CASE Poll
  BY <1>1, <1>6, <1>12 DEF Poll
<1>13. QED
  <2>1. UNCHANGED vars \/ Next
    OBVIOUS
  <2>2. CASE Next
    BY <1>1, <1>2, <1>3, <1>5, <1>9, <1>10, <1>11, <1>12, <2>2, Zenon DEF Next
  <2>3. QED
    BY <1>1, <2>1, <2>2

LEMMA PlaceAlways == Spec => []PlaceInv
<1>1. ASSUME Init PROVE PlaceInv
  <2>1. /\ session = 0 /\ child = "none" /\ strays = {}
        /\ pc = [i \in Sidecars |-> "unborn"]
    BY <1>1 DEF Init
  <2>2. PlaceType
    BY <2>1, BoundAssumption DEF PlaceType
  <2>3. SidecarIsOwned
    BY <2>1 DEF SidecarIsOwned, Running
  <2>4. QED
    BY <2>2, <2>3 DEF PlaceInv
<1>2. QED
  BY <1>1, PlaceStep, PTL DEF Spec

\* A sidecar runs inside its session only, unless its child was killed or
\* crashed: no order of connects, quits, resets and failures leaves another.
THEOREM MonitorStaysWithSession == Spec => []MonitorHasSession
<1>1. PlaceInv => MonitorHasSession
  BY DEF PlaceInv, SidecarIsOwned, MonitorHasSession
<1>2. QED
  BY <1>1, PlaceAlways, PTL

-----------------------------------------------------------------------------
(* What is on show does not move back.                                     *)

\* A snapshot, as far as the order of snapshots is concerned.
IsSnap(s) ==
  /\ s = [kind |-> s.kind, totals |-> s.totals, structure |-> s.structure,
          age |-> s.age, era |-> s.era, heard |-> s.heard]
  /\ s.era \in Nat
  /\ s.heard \in Seq(Bodies)

SnapsAreSnaps ==
  /\ IsSnap(json) /\ IsSnap(shown) /\ IsSnap(last)
  /\ snap = [i \in Sidecars |-> snap[i]]
  /\ \A i \in Sidecars : IsSnap(snap[i])

\* t has had the resets and the intervals of s, or a later reset.
NotAfter(s, t) ==
  s.era < t.era \/ (s.era = t.era /\ Len(s.heard) <= Len(t.heard))

Behind(s, t) == Available(s) => NotAfter(s, t)

\* Totals flow from the sidecar to its file, from there to what was last read
\* and from there to what is on show.
FlowsForward ==
  /\ Behind(json, snap[session])
  /\ Behind(last, snap[session]) /\ Behind(shown, snap[session])
  /\ Available(json) => Behind(last, json) /\ Behind(shown, json)
  /\ Available(last) => Behind(shown, last)

ForwardInv ==
  SnapsAreSnaps /\ (strays = {} /\ session \in Sidecars => FlowsForward)

LEMMA BlankIsSnap ==
  ASSUME NEW kind \in Reasons
  PROVE  IsSnap(Blank(kind)) /\ ~Available(Blank(kind))
<1>1. IsSnap(Blank(kind))
  <2>1. <<>> \in Seq(Bodies)
    OBVIOUS
  <2>2. Blank(kind).era = 0 /\ Blank(kind).heard = <<>> /\ Blank(kind).kind = kind
    BY DEF Blank
  <2>3. QED
    BY <2>1, <2>2 DEF IsSnap, Blank
<1>2. kind # "session"
  BY DEF Reasons
<1>3. QED
  BY <1>1, <1>2 DEF Available, Blank

\* Only the age of a snapshot changes.
LEMMA OtherAge ==
  ASSUME NEW s, IsSnap(s), NEW age
  PROVE  LET t == [s EXCEPT !.age = age] IN
           IsSnap(t) /\ t.kind = s.kind /\ t.era = s.era /\ t.heard = s.heard
BY DEF IsSnap

LEMMA NotAfterOrders ==
  ASSUME NEW r, NEW s, NEW t, IsSnap(r), IsSnap(s), IsSnap(t)
  PROVE  /\ NotAfter(s, s)
         /\ NotAfter(r, s) /\ NotAfter(s, t) => NotAfter(r, t)
<1>1. Len(r.heard) \in Nat /\ Len(s.heard) \in Nat /\ Len(t.heard) \in Nat
  BY DEF IsSnap
<1>2. QED
  BY <1>1 DEF IsSnap, NotAfter

\* What is written to status.json is the file's totals, the last ones, or none.
LEMMA PayloadComesFrom ==
  ASSUME SnapsAreSnaps, NEW data, IsSnap(data)
  PROVE  LET payload == Payload(data) IN
           /\ IsSnap(payload)
           /\ Available(payload) =>
                payload = data \/ (data.kind = "nothing" /\ payload = last)
<1>1. \A kind \in {"nothing", "stale"} : IsSnap(Blank(kind)) /\ ~Available(Blank(kind))
  BY BlankIsSnap DEF Reasons
<1>2. Payload(data) \in {Blank("nothing"), Blank("stale"), data}
        \/ (data.kind = "nothing" /\ Payload(data) = last)
  BY DEF Payload
<1>3. QED
  BY <1>1, <1>2 DEF SnapsAreSnaps

\* The history of strays only grows.
LEMMA StraysGrow == [Next]_vars => strays \subseteq strays'
<1> SUFFICES ASSUME [Next]_vars PROVE strays \subseteq strays'
  OBVIOUS
<1> USE DEF sidecarVars
<1>1. CASE UNCHANGED vars
  BY <1>1 DEF vars
<1>2. CASE Connect \/ Reset \/ Quit \/ QuitEnds \/ DropDead \/ MediaComesAndGoes \/ Tick
  BY <1>2 DEF Connect, Reset, Quit, QuitEnds, DropDead, MediaComesAndGoes, Tick
<1>3. CASE Poll \/ ReadsHalfWritten \/ LoseReset \/ ForwardResetFails \/ ChildDies
  BY <1>3 DEF Poll, ReadsJson, ReadsHalfWritten, WriteStatus, ForwardReset, LoseReset,
              ForwardResetFails, ChildDies
<1>4. ASSUME NEW i \in Sidecars, SidecarStep(i)
      PROVE  strays \subseteq strays'
  BY <1>4 DEF SidecarStep, StopSeen, TspExitSeen, ResetSeen, UnlinkReset, Publish,
     Finish
<1>5. ASSUME NEW i \in Sidecars, TspDies(i) \/ SidecarDies(i)
      PROVE  strays \subseteq strays'
  BY <1>5 DEF TspDies, SidecarDies
<1>6. ASSUME NEW i \in Sidecars, NEW body \in Bodies, Accumulate(i, body)
      PROVE  strays \subseteq strays'
  BY <1>6 DEF Accumulate
<1>7. ASSUME NEW i \in Sidecars, NEW report \in Reports, Analyze(i, report)
      PROVE  strays \subseteq strays'
  BY <1>7 DEF Analyze
<1>8. CASE Fault
  BY <1>3, <1>5, <1>8 DEF Fault
<1>9. QED
  BY <1>1, <1>2, <1>3, <1>4, <1>6, <1>7, <1>8, Zenon DEF Next

\* Steps that touch no snapshot.
LEMMA ForwardFrame ==
  ASSUME ForwardInv, UNCHANGED <<session, json, shown, last, snap>>,
  strays \subseteq strays'
  PROVE  ForwardInv'
BY DEF ForwardInv, SnapsAreSnaps, FlowsForward, Behind, NotAfter, IsSnap, Available

\* A snapshot that is not available says nothing.
LEMMA ForwardBlanks ==
  ASSUME ForwardInv,
  Connect \/ QuitEnds \/ ForwardReset \/ ForwardResetFails
    \/ \E i \in Sidecars : TspExitSeen(i)
  PROVE  ForwardInv'
<1>1. \A kind \in {"nothing", "failed"} : IsSnap(Blank(kind)) /\ ~Available(Blank(kind))
  BY BlankIsSnap DEF Reasons
<1>2. CASE Connect
  <2>1. /\ json' = Blank("nothing") /\ shown' = Blank("nothing")
        /\ last' = Blank("nothing") /\ snap' = snap
    BY <1>2 DEF Connect, sidecarVars
  <2>2. QED
    BY <1>1, <2>1 DEF ForwardInv, SnapsAreSnaps, FlowsForward, Behind
<1>3. CASE QuitEnds
  <2>1. shown' = Blank("nothing") /\ UNCHANGED <<session, json, last, snap, strays>>
    BY <1>3 DEF QuitEnds
  <2>2. QED
    BY <1>1, <2>1 DEF ForwardInv, SnapsAreSnaps, FlowsForward, Behind
<1>4. CASE ForwardReset \/ ForwardResetFails
  <2>1. last' = Blank("nothing") /\ UNCHANGED <<session, json, shown, snap, strays>>
    BY <1>4 DEF ForwardReset, ForwardResetFails, fileVars, sidecarVars
  <2>2. QED
    BY <1>1, <2>1 DEF ForwardInv, SnapsAreSnaps, FlowsForward, Behind
<1>5. CASE \E i \in Sidecars : TspExitSeen(i)
  <2>1. json' = Blank("failed") /\ UNCHANGED <<session, last, shown, snap, strays>>
    BY <1>5 DEF TspExitSeen, childVars
  <2>2. QED
    BY <1>1, <2>1 DEF ForwardInv, SnapsAreSnaps, FlowsForward, Behind
<1>6. QED
  BY <1>2, <1>3, <1>4, <1>5

\* What WriteStatus is given: the file, or nothing when it cannot be read.
LEMMA ForwardWrite ==
  ASSUME PlaceInv, ForwardInv, NEW data, data = json \/ data = Blank("nothing"),
         WriteStatus(data)
  PROVE  /\ ForwardInv'
         /\ strays = {} /\ Available(shown) /\ Available(shown') =>
              NotAfter(shown, shown')
<1> DEFINE payload == Payload(data)
<1>1. IsSnap(data) /\ (Available(data) => data = json)
  BY BlankIsSnap DEF Reasons, ForwardInv, SnapsAreSnaps
<1>2. /\ IsSnap(payload)
      /\ Available(payload) => (payload = json /\ Available(json)) \/ payload = last
  BY <1>1, PayloadComesFrom DEF ForwardInv
<1>3. /\ shown' = [payload EXCEPT !.age = 0]
      /\ last' = IF Available(payload) THEN payload ELSE last
      /\ UNCHANGED <<session, json, snap, strays>>
  BY DEF WriteStatus
<1>4. /\ IsSnap(shown') /\ shown'.kind = payload.kind
      /\ shown'.era = payload.era /\ shown'.heard = payload.heard
  BY <1>2, <1>3, OtherAge
<1>5. Available(shown') <=> Available(payload)
  BY <1>4 DEF Available
<1>6. SnapsAreSnaps'
  BY <1>2, <1>3, <1>4 DEF ForwardInv, SnapsAreSnaps
<1>7. session \in Sidecars
  BY DEF WriteStatus, PlaceInv, PlaceType
<1>8. IsSnap(snap[session]) /\ IsSnap(json) /\ IsSnap(last) /\ IsSnap(shown)
  BY <1>7 DEF ForwardInv, SnapsAreSnaps
<1>9. CASE ~Available(payload)
  BY <1>3, <1>5, <1>6, <1>9 DEF ForwardInv, FlowsForward, Behind
<1>10. ASSUME Available(payload), strays = {}, session \in Sidecars
       PROVE  FlowsForward' /\ (Available(shown) => NotAfter(shown, payload))
  <2>1. NotAfter(payload, snap[session]) /\ (Available(json) => NotAfter(payload, json))
    BY <1>2, <1>8, <1>10, NotAfterOrders DEF ForwardInv, FlowsForward, Behind
  <2>2. Available(shown) => NotAfter(shown, payload)
    BY <1>2, <1>10 DEF ForwardInv, FlowsForward, Behind
  <2>3. last' = payload
    BY <1>3, <1>10
  <2>4. \A t : NotAfter(payload, t) => NotAfter(shown', t)
    BY <1>4 DEF NotAfter
  <2>5. NotAfter(shown', payload)
    BY <1>2, <2>4, NotAfterOrders
  <2>6. Behind(json, snap[session])
    BY <1>10 DEF ForwardInv, FlowsForward
  <2>7. QED
    BY <1>3, <2>1, <2>2, <2>3, <2>4, <2>5, <2>6 DEF FlowsForward, Behind
<1>11. \A t : NotAfter(t, payload) => NotAfter(t, shown')
  BY <1>4 DEF NotAfter
<1>12. QED
  BY <1>3, <1>5, <1>6, <1>7, <1>9, <1>10, <1>11 DEF ForwardInv

LEMMA OtherHeard ==
  ASSUME NEW s, IsSnap(s), NEW heard \in Seq(Bodies)
  PROVE  LET t == [s EXCEPT !.heard = heard] IN
           IsSnap(t) /\ t.era = s.era /\ t.heard = heard
<1>1. PICK kind, totals, structure, age, era, h :
        s = [kind |-> kind, totals |-> totals, structure |-> structure,
             age |-> age, era |-> era, heard |-> h]
  BY Zenon DEF IsSnap
<1>2. era = s.era /\ era \in Nat
  BY <1>1 DEF IsSnap
<1>3. PICK t : t = [kind |-> kind, totals |-> totals, structure |-> structure,
                    age |-> age, era |-> era, heard |-> heard]
  OBVIOUS
<1>4. [s EXCEPT !.heard = heard] = t
  BY <1>1, <1>3
<1>5. IsSnap(t) /\ t.era = s.era /\ t.heard = heard
  BY <1>2, <1>3 DEF IsSnap
<1>6. QED
  BY <1>4, <1>5, Zenon

LEMMA OtherStructure ==
  ASSUME NEW s, IsSnap(s), NEW structure
  PROVE  LET t == [s EXCEPT !.structure = structure] IN
           IsSnap(t) /\ t.era = s.era /\ t.heard = s.heard
<1>1. PICK kind, totals, map, age, era, heard :
        s = [kind |-> kind, totals |-> totals, structure |-> map,
             age |-> age, era |-> era, heard |-> heard]
  BY Zenon DEF IsSnap
<1>2. era = s.era /\ era \in Nat /\ heard = s.heard /\ heard \in Seq(Bodies)
  BY <1>1 DEF IsSnap
<1>3. PICK t : t = [kind |-> kind, totals |-> totals, structure |-> structure,
                    age |-> age, era |-> era, heard |-> heard]
  OBVIOUS
<1>4. [s EXCEPT !.structure = structure] = t
  BY <1>1, <1>3
<1>5. IsSnap(t) /\ t.era = s.era /\ t.heard = s.heard
  BY <1>2, <1>3 DEF IsSnap
<1>6. QED
  BY <1>4, <1>5, Zenon

\* A snapshot with an interval more, and one after a reset.
LEMMA OneMoreInterval ==
  ASSUME NEW s, IsSnap(s), NEW totals, NEW body \in Bodies
  PROVE  LET t == [s EXCEPT !.kind = "session", !.age = 0, !.totals = totals,
                            !.heard = Append(s.heard, body)]
         IN  IsSnap(t) /\ NotAfter(s, t)
<1> DEFINE u == [s EXCEPT !.kind = "session"]
<1> DEFINE v == [u EXCEPT !.age = 0]
<1> DEFINE w == [v EXCEPT !.totals = totals]
<1> DEFINE t == [w EXCEPT !.heard = Append(s.heard, body)]
<1>1. /\ Append(s.heard, body) \in Seq(Bodies)
      /\ Len(s.heard) <= Len(Append(s.heard, body))
  BY DEF IsSnap
<1>2. IsSnap(u) /\ u.era = s.era
  BY DEF IsSnap
<1>3. IsSnap(v) /\ v.era = s.era
  <2> HIDE DEF u
  <2>1. QED
    BY <1>2 DEF IsSnap
<1>4. IsSnap(w) /\ w.era = s.era
  <2> HIDE DEF v
  <2>1. QED
    BY <1>3 DEF IsSnap
<1>5. IsSnap(t) /\ t.era = s.era /\ t.heard = Append(s.heard, body)
  <2> HIDE DEF w
  <2>1. QED
    BY <1>1, <1>4, OtherHeard
<1>6. t = [s EXCEPT !.kind = "session", !.age = 0, !.totals = totals,
                    !.heard = Append(s.heard, body)]
  OBVIOUS
<1>7. QED
  BY <1>1, <1>5, <1>6 DEF NotAfter

LEMMA OneMoreReset ==
  ASSUME NEW s, IsSnap(s), NEW structure
  PROVE  LET t == [Blank("session") EXCEPT !.structure = structure, !.era = s.era + 1]
         IN  IsSnap(t) /\ NotAfter(s, t)
<1> DEFINE b == Blank("session")
<1> DEFINE u == [b EXCEPT !.structure = structure]
<1> DEFINE t == [u EXCEPT !.era = s.era + 1]
<1>1. s.era \in Nat /\ s.era < s.era + 1
  BY DEF IsSnap
<1>2. <<>> \in Seq(Bodies)
  OBVIOUS
<1>3. IsSnap(b)
  BY <1>2 DEF IsSnap, Blank
<1>4. IsSnap(u)
  <2> HIDE DEF b
  <2>1. QED
    BY <1>3 DEF IsSnap
<1>5. IsSnap(t) /\ t.era = s.era + 1
  <2> HIDE DEF u
  <2>1. QED
    BY <1>1, <1>4 DEF IsSnap
<1>6. t = [b EXCEPT !.structure = structure, !.era = s.era + 1]
  OBVIOUS
<1>7. QED
  BY <1>1, <1>5, <1>6 DEF NotAfter

\* The running sidecar is the session's: its totals move on, and its file
\* after them.
LEMMA ForwardSidecar ==
  ASSUME PlaceInv, ForwardInv, NEW i \in Sidecars,
         \/ \E body \in Bodies : Accumulate(i, body)
         \/ ResetSeen(i) \/ Publish(i)
  PROVE  ForwardInv'
<1>1. Running(i) /\ UNCHANGED <<session, last, shown, strays>>
  BY DEF Accumulate, ResetSeen, Publish, At, Running, childVars
<1>2. strays = {} => i = session
  BY <1>1 DEF PlaceInv, SidecarIsOwned
<1>3. IsSnap(snap[i]) /\ IsSnap(json) /\ IsSnap(last) /\ IsSnap(shown)
  BY DEF ForwardInv, SnapsAreSnaps
<1> DEFINE MovesOn == \E t : /\ IsSnap(t) /\ NotAfter(snap[i], t)
                             /\ snap' = [snap EXCEPT ![i] = t]
                             /\ json' = json \/ json' = t
<1>4. MovesOn
  <2>1. ASSUME NEW body \in Bodies, Accumulate(i, body)
        PROVE  MovesOn
    <3>1. CASE snap' = snap
      <4>1. snap' = [snap EXCEPT ![i] = snap[i]] /\ json' = json
        BY <2>1, <3>1 DEF Accumulate, fileVars, ForwardInv, SnapsAreSnaps
      <4>2. QED
        BY <1>3, <4>1, NotAfterOrders
    <3>2. CASE snap' # snap
      <4>1. PICK totals :
              snap' = [snap EXCEPT ![i] =
                        [snap[i] EXCEPT !.kind = "session", !.age = 0,
                           !.totals = totals, !.heard = Append(snap[i].heard, body)]]
        BY <2>1, <3>2 DEF Accumulate
      <4> DEFINE t == [snap[i] EXCEPT !.kind = "session", !.age = 0,
                         !.totals = totals, !.heard = Append(snap[i].heard, body)]
      <4>5. IsSnap(t) /\ NotAfter(snap[i], t)
        BY <1>3, OneMoreInterval
      <4>6. snap' = [snap EXCEPT ![i] = t] /\ json' = json
        BY <2>1, <4>1 DEF Accumulate, fileVars
      <4>7. QED
        BY <4>5, <4>6
    <3>3. QED
      BY <3>1, <3>2
  <2>2. CASE ResetSeen(i)
    <3>1. CASE snap' = snap /\ json' = json
      <4>1. snap' = [snap EXCEPT ![i] = snap[i]] /\ json' = json
        BY <3>1 DEF ForwardInv, SnapsAreSnaps
      <4>2. QED
        BY <1>3, <4>1, NotAfterOrders
    <3>2. CASE ~(snap' = snap /\ json' = json)
      <4> DEFINE t == [Blank("session") EXCEPT !.structure = snap[i].structure,
                                               !.era = snap[i].era + 1]
      <4>1. snap' = [snap EXCEPT ![i] = t] /\ json' = snap'[i]
        BY <2>2, <3>2 DEF ResetSeen
      <4>2. json' = t
        BY <4>1 DEF ForwardInv, SnapsAreSnaps
      <4>5. IsSnap(t) /\ NotAfter(snap[i], t)
        BY <1>3, OneMoreReset
      <4>6. QED
        BY <4>1, <4>2, <4>5
    <3>3. QED
      BY <3>1, <3>2
  <2>3. CASE Publish(i)
    <3>1. PICK structure : snap' = [snap EXCEPT ![i].structure = structure]
      BY <2>3 DEF Publish
    <3> DEFINE t == [snap[i] EXCEPT !.structure = structure]
    <3>2. snap' = [snap EXCEPT ![i] = t]
      BY <3>1
    <3>3. json' = json \/ json' = t
      BY <2>3, <3>2 DEF Publish, ForwardInv, SnapsAreSnaps
    <3>4. IsSnap(t) /\ t.era = snap[i].era /\ t.heard = snap[i].heard
      BY <1>3, OtherStructure
    <3>5. NotAfter(snap[i], t)
      BY <1>3, <3>4, NotAfterOrders DEF NotAfter
    <3>6. QED
      BY <3>2, <3>3, <3>4, <3>5
  <2>4. QED
    BY <2>1, <2>2, <2>3
<1>5. PICK t : /\ IsSnap(t) /\ NotAfter(snap[i], t)
               /\ snap' = [snap EXCEPT ![i] = t]
               /\ json' = json \/ json' = t
  BY <1>4
<1>6. SnapsAreSnaps'
  BY <1>1, <1>3, <1>5 DEF ForwardInv, SnapsAreSnaps
<1>7. ASSUME strays = {}, session \in Sidecars
      PROVE  FlowsForward'
  <2>0. FlowsForward
    BY <1>7 DEF ForwardInv
  <2>1. snap'[session] = t
    BY <1>2, <1>5, <1>7 DEF ForwardInv, SnapsAreSnaps
  <2>2. ASSUME NEW s, IsSnap(s), Behind(s, snap[session])
        PROVE  Behind(s, t)
    BY <1>2, <1>3, <1>5, <1>7, <2>2, NotAfterOrders DEF Behind
  <2>3. Behind(json, t) /\ Behind(last, t) /\ Behind(shown, t) /\ Behind(t, t)
    BY <1>3, <1>5, <1>7, <2>0, <2>2, NotAfterOrders DEF FlowsForward, Behind
  <2>4. QED
    BY <1>1, <1>5, <2>0, <2>1, <2>3 DEF FlowsForward
<1>8. QED
  BY <1>1, <1>6, <1>7 DEF ForwardInv

\* Time changes no order.
LEMMA ForwardTick ==
  ASSUME ForwardInv, Tick
  PROVE  ForwardInv'
<1>1. ASSUME NEW s, IsSnap(s)
      PROVE  /\ IsSnap(Older(s)) /\ Older(s).kind = s.kind
             /\ Older(s).era = s.era /\ Older(s).heard = s.heard
  <2>1. PICK age : Older(s) = [s EXCEPT !.age = age]
    BY DEF Older
  <2>2. QED
    BY <1>1, <2>1, OtherAge
<1>2. /\ json' = Older(json) /\ last' = Older(last) /\ shown' = shown
      /\ snap' = [i \in Sidecars |-> Older(snap[i])]
      /\ UNCHANGED <<session, strays>>
  BY DEF Tick
<1>3. SnapsAreSnaps'
  BY <1>1, <1>2 DEF ForwardInv, SnapsAreSnaps
<1>4. ASSUME strays = {}, session \in Sidecars
      PROVE  FlowsForward'
  <2>1. ASSUME NEW s, NEW t, NEW older, NEW other, Behind(s, t),
               older.kind = s.kind, older.era = s.era, older.heard = s.heard,
               other.era = t.era, other.heard = t.heard
        PROVE  Behind(older, other)
    BY <2>1 DEF Behind, NotAfter, Available
  <2>2. snap'[session] = Older(snap[session])
    BY <1>2, <1>4
  <2>3. /\ IsSnap(json) /\ IsSnap(last) /\ IsSnap(shown) /\ IsSnap(snap[session])
    BY <1>4 DEF ForwardInv, SnapsAreSnaps
  <2>4. FlowsForward
    BY <1>4 DEF ForwardInv
  <2>5. (Available(json') <=> Available(json)) /\ (Available(last') <=> Available(last))
    BY <1>1, <1>2, <2>3 DEF Available
  <2>6. Behind(json', snap'[session]) /\ Behind(last', snap'[session])
    BY <1>1, <1>2, <2>1, <2>2, <2>3, <2>4 DEF FlowsForward
  <2>7. Behind(shown', snap'[session])
    BY <1>1, <1>2, <2>1, <2>2, <2>3, <2>4 DEF FlowsForward
  <2>8. Available(json') => Behind(last', json') /\ Behind(shown', json')
    BY <1>1, <1>2, <2>1, <2>3, <2>4, <2>5 DEF FlowsForward
  <2>9. Available(last') => Behind(shown', last')
    BY <1>1, <1>2, <2>1, <2>3, <2>4, <2>5 DEF FlowsForward
  <2>10. QED
    BY <1>2, <2>6, <2>7, <2>8, <2>9 DEF FlowsForward
<1>5. QED
  BY <1>2, <1>3, <1>4 DEF ForwardInv

\* Every step keeps the order, and what is on show moves on.
LEMMA ForwardStep ==
  ASSUME PlaceInv, ForwardInv, [Next]_vars
  PROVE  /\ ForwardInv'
         /\ Available(shown) /\ Available(shown') /\ strays = {} =>
              NotAfter(shown, shown')
<1> USE DEF childVars, fileVars, sidecarVars
<1> DEFINE Kept == ForwardInv' /\ shown' = shown
<1>1. strays \subseteq strays'
  BY StraysGrow
<1>2. ASSUME UNCHANGED vars \/ Reset \/ Quit \/ DropDead \/ MediaComesAndGoes
               \/ LoseReset \/ ChildDies
      PROVE  Kept
  <2>1. UNCHANGED <<session, json, shown, last, snap>>
    BY <1>2 DEF vars, Reset, Quit, DropDead, MediaComesAndGoes, LoseReset, ChildDies
  <2>2. QED
    BY <1>1, <2>1, ForwardFrame
<1>3. ASSUME NEW i \in Sidecars,
             \/ StopSeen(i) \/ UnlinkReset(i) \/ Finish(i) \/ TspDies(i) \/ SidecarDies(i)
             \/ \E report \in Reports : Analyze(i, report)
      PROVE  Kept
  <2>1. UNCHANGED <<session, json, shown, last, snap>>
    BY <1>3 DEF StopSeen, UnlinkReset, Finish, TspDies, SidecarDies, Analyze
  <2>2. QED
    BY <1>1, <2>1, ForwardFrame
<1>4. ASSUME NEW i \in Sidecars,
             \/ \E body \in Bodies : Accumulate(i, body)
             \/ ResetSeen(i) \/ Publish(i)
      PROVE  Kept
  BY <1>4, ForwardSidecar DEF Accumulate, ResetSeen, Publish
<1>5. ASSUME NEW i \in Sidecars, TspExitSeen(i)
      PROVE  Kept
  BY <1>5, ForwardBlanks DEF TspExitSeen
<1>6. CASE Kept
  <2>1. Available(shown) => NotAfter(shown, shown)
    BY NotAfterOrders DEF ForwardInv, SnapsAreSnaps
  <2>2. QED
    BY <1>6, <2>1
<1>7. CASE Connect \/ QuitEnds
  <2>1. shown' = Blank("nothing")
    BY <1>7 DEF Connect, QuitEnds
  <2>2. ~Available(shown')
    BY <2>1, BlankIsSnap DEF Reasons
  <2>3. QED
    BY <1>7, <2>2, ForwardBlanks
<1>8. CASE ForwardReset \/ ForwardResetFails
  BY <1>6, <1>8, ForwardBlanks DEF ForwardReset, ForwardResetFails
<1>9. CASE ReadsJson \/ ReadsHalfWritten
  BY <1>9, ForwardWrite DEF ReadsJson, ReadsHalfWritten
<1>10. CASE Tick
  BY <1>6, <1>10, ForwardTick DEF Tick
<1>11. CASE Fault
  <2>1. CASE \E i \in Sidecars : TspDies(i) \/ SidecarDies(i)
    BY <1>3, <1>6, <2>1
  <2>2. QED
    BY <1>2, <1>6, <1>8, <1>9, <1>11, <2>1 DEF Fault
<1>12. CASE \E i \in Sidecars :
              \/ \E body \in Bodies : Accumulate(i, body)
              \/ SidecarStep(i)
              \/ \E report \in Reports : Analyze(i, report)
  <2>1. PICK i \in Sidecars :
              \/ \E body \in Bodies : Accumulate(i, body)
              \/ SidecarStep(i)
              \/ \E report \in Reports : Analyze(i, report)
    BY <1>12
  <2>2. Kept
    BY <1>3, <1>4, <1>5, <2>1 DEF SidecarStep
  <2>3. QED
    BY <1>6, <2>2
<1>13. QED
  <2>1. UNCHANGED vars \/ Next
    OBVIOUS
  <2>2. CASE Next
    BY <1>2, <1>6, <1>7, <1>8, <1>9, <1>10, <1>11, <1>12, <2>2, Zenon DEF Next, Poll
  <2>3. QED
    BY <1>2, <1>6, <2>1, <2>2

\* Whatever TSDuck posts, however often the monitor is reset and its session
\* renewed: totals on show never fall behind what was on show before, as long
\* as no monitor was left behind in the directory.
THEOREM ShownNeverFallsBack == Spec => ShownMovesForward
<1>1. ASSUME Init
      PROVE  ForwardInv
  <2>1. /\ json = Blank("nothing") /\ shown = Blank("nothing") /\ last = Blank("nothing")
        /\ snap = [i \in Sidecars |-> Blank("no interval yet")]
    BY <1>1 DEF Init
  <2>2. \A kind \in Reasons : IsSnap(Blank(kind)) /\ ~Available(Blank(kind))
    BY BlankIsSnap
  <2>3. SnapsAreSnaps
    BY <2>1, <2>2 DEF SnapsAreSnaps, Reasons
  <2>4. FlowsForward
    BY <2>1, <2>2 DEF FlowsForward, Behind, Reasons
  <2>5. QED
    BY <2>3, <2>4 DEF ForwardInv
<1>2. PlaceInv /\ ForwardInv /\ [Next]_vars => ForwardInv'
  BY ForwardStep
<1>3. PlaceInv /\ ForwardInv /\ [Next]_vars =>
        [Available(shown) /\ Available(shown') /\ strays = {} =>
           \/ shown'.era > shown.era
           \/ /\ shown'.era = shown.era
              /\ Len(shown'.heard) >= Len(shown.heard)]_vars
  <2> SUFFICES ASSUME PlaceInv, ForwardInv, [Next]_vars,
                      Available(shown), Available(shown'), strays = {}
               PROVE  \/ shown'.era > shown.era
                      \/ /\ shown'.era = shown.era
                         /\ Len(shown'.heard) >= Len(shown.heard)
    OBVIOUS
  <2>1. NotAfter(shown, shown') /\ IsSnap(shown) /\ IsSnap(shown')
    BY ForwardStep DEF ForwardInv, SnapsAreSnaps
  <2>2. Len(shown.heard) \in Nat /\ Len(shown'.heard) \in Nat
    BY <2>1 DEF IsSnap
  <2>3. QED
    BY <2>1, <2>2 DEF IsSnap, NotAfter
<1>4. QED
  BY <1>1, <1>2, <1>3, PlaceAlways, PTL DEF Spec, ShownMovesForward
=============================================================================
