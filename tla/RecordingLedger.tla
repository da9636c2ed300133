-------------------------- MODULE RecordingLedger --------------------------
(***************************************************************************)
(* What the catalogue promises about recordings, whatever happens to the   *)
(* processes: a row is opened as "recording" and never reopened; once it   *)
(* is completed it stays so; only an active row is given up as failed; a   *)
(* post-processing job exists only for a completed row, and at most once.  *)
(***************************************************************************)
EXTENDS Naturals, Sequences

CONSTANT Channels

VARIABLES
  ledger,   \* the rows, in the order they were opened
  jobs      \* the post-processing jobs ever queued, as row numbers

Active(i) == i \in DOMAIN ledger /\ ledger[i].st = "recording"

Init == ledger = <<>> /\ jobs = <<>>

Open(c) ==
  /\ ledger' = Append(ledger, [chan |-> c, st |-> "recording"])
  /\ UNCHANGED jobs

\* A row that was given up may still be completed, by a worker whose
\* remembered id outlived the session; a completed one is final.
Complete(i) ==
  /\ ledger[i].st # "completed"
  /\ ledger' = [ledger EXCEPT ![i].st = "completed"]
  /\ UNCHANGED jobs

\* Nothing but an active row can be given up.  One step of the system may give up recordings of several channels.
GiveUp(lost) ==
  /\ \A i \in lost : Active(i)
  /\ ledger' = [i \in DOMAIN ledger |->
                  IF i \in lost THEN [ledger[i] EXCEPT !.st = "failed"]
                                ELSE ledger[i]]
  /\ UNCHANGED jobs

Hand(i) ==
  /\ i \in DOMAIN ledger /\ ledger[i].st = "completed"
  /\ \A k \in DOMAIN jobs : jobs[k] # i
  /\ jobs' = Append(jobs, i)
  /\ UNCHANGED ledger

Next ==
  \/ \E c \in Channels : Open(c)
  \/ \E i \in DOMAIN ledger : Complete(i) \/ Hand(i)
  \/ \E lost \in SUBSET DOMAIN ledger : GiveUp(lost)

Spec == Init /\ [][Next]_<<ledger, jobs>>
=============================================================================
