---------------------------- MODULE CaptureGate ----------------------------
(***************************************************************************)
(* What a session with its pipeline in another process promises the worker *)
(* that calls it: the start of a recording returns after the capture has   *)
(* begun, the stop after it has ended, and in between the two agree.  The  *)
(* promise holds as long as the session is trusted: every call so far was  *)
(* acknowledged, and no other process shares the session's files.          *)
(***************************************************************************)
EXTENDS Naturals

VARIABLES
  call,      \* where the caller is: no session, at rest, or in a call
  believed,  \* the take the caller thinks is being written, 0 = none
  written,   \* the take that is being written, 0 = none
  alive,     \* the process that writes is running
  trusted

vars == <<call, believed, written, alive, trusted>>

Calls == {"closed", "rest", "start", "stop", "leave"}

TypeOK ==
  /\ call \in Calls
  /\ believed \in Nat /\ written \in Nat
  /\ alive \in BOOLEAN /\ trusted \in BOOLEAN

Init ==
  /\ call = "closed" /\ believed = 0 /\ written = 0
  /\ alive = FALSE /\ trusted = TRUE

\* A new process, which writes nothing.
Launch ==
  /\ call = "closed"
  /\ alive' = TRUE /\ written' = 0 /\ trusted' \in BOOLEAN
  /\ UNCHANGED <<call, believed>>

Open ==
  /\ call = "closed" /\ call' = "rest"
  /\ UNCHANGED <<believed, written, alive, trusted>>

Ask ==
  /\ call = "rest"
  /\ call' \in IF believed = 0 THEN {"start", "leave"} ELSE {"stop"}
  /\ UNCHANGED <<believed, written, alive, trusted>>

\* Only a start makes a capture begin, and one begins after the other ended.
Begin ==
  /\ call = "start" /\ alive /\ written = 0
  /\ written' \in Nat \ {0}
  /\ UNCHANGED <<call, believed, alive, trusted>>

\* The start returns: what runs is what was asked for.
Started ==
  /\ call = "start" /\ call' = "rest"
  /\ believed' \in Nat \ {0}
  /\ alive => written = believed'
  /\ UNCHANGED <<written, alive, trusted>>

\* Only a stop or the end of the session makes a capture end.
End ==
  /\ call \in {"stop", "leave"}
  /\ written' = 0
  /\ UNCHANGED <<call, believed, alive, trusted>>

\* The stop returns, to the caller or to the rest of the disconnect.
Stopped ==
  /\ call = "stop" /\ call' \in {"rest", "leave"}
  /\ alive => written = 0
  /\ believed' = 0
  /\ UNCHANGED <<written, alive, trusted>>

\* The process ends by itself, or is killed.
Die == alive' = FALSE /\ written' = 0 /\ UNCHANGED <<call, believed, trusted>>

\* The session ends, and the process with it.
Close ==
  /\ call \in {"closed", "leave"}
  /\ call' = "closed" /\ alive' = FALSE /\ written' = 0
  /\ UNCHANGED <<believed, trusted>>

\* The caller finds the process gone and forgets the session.
Drop ==
  /\ call = "rest" /\ ~alive
  /\ call' = "closed" /\ believed' = 0
  /\ UNCHANGED <<written, alive, trusted>>

\* A call returns without an acknowledgement, or the caller is killed.
Doubt == trusted' = FALSE

Next ==
  \/ Launch
  \/ /\ trusted
     /\ \/ Open \/ Ask \/ Begin \/ Started \/ End \/ Stopped
        \/ Die \/ Close \/ Drop
        \/ Doubt
  \/ ~trusted /\ ~trusted'

Spec == Init /\ [][Next]_vars
=============================================================================
