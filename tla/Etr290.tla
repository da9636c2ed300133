------------------------------- MODULE Etr290 ------------------------------
(***************************************************************************)
(* The ETR 290 arithmetic of worker/etr290.py: from the rows TSDuck posts  *)
(* for one interval to the session's totals, and from its analysis to the  *)
(* PID map.  A row is taken after the text of the line protocol has been   *)
(* split.  An optional value is a set with at most one element.            *)
(***************************************************************************)
EXTENDS Naturals, Sequences, FiniteSets

CONSTANTS
  P1_COUNTERS, P2_COUNTERS,  \* names of the priority 1 and 2 counters
  MPEG_TS_NULL_PID

ALL_P12_COUNTERS == P1_COUNTERS \cup P2_COUNTERS

ASSUME CountersAssumption ==
  /\ IsFiniteSet(ALL_P12_COUNTERS)
  /\ P1_COUNTERS \cap P2_COUNTERS = {}
  /\ MPEG_TS_NULL_PID \in Nat

-----------------------------------------------------------------------------
(* parse_influx_line, parse_influx_body.                                   *)

IsBitrate(row) == row.scope = "ts" /\ row.measurement = "bitrate"

IsCounter(row) ==
  /\ row.scope = "ts" /\ row.measurement = "counter"
  /\ row.severity \in {1, 2} /\ row.name \in ALL_P12_COUNTERS

IsInfo(row, name) ==
  /\ row.scope = "ts" /\ row.measurement = "counter"
  /\ row.severity = 4 /\ row.name = name

\* The value of the last row that passes the test.
LastValue(rows, Test(_)) ==
  LET hits == {i \in DOMAIN rows : Test(rows[i])} IN
    {rows[i].value : i \in {j \in hits : \A k \in hits : k <= j}}

\* The rows of counters keep their places in the body.
parse_influx_body(rows) ==
  [counters |-> [i \in {k \in DOMAIN rows : IsCounter(rows[k])} |-> rows[i]],
   bitrate  |-> LastValue(rows, IsBitrate),
   packets  |-> LastValue(rows, LAMBDA r : IsInfo(r, "packet_count")),
   errors   |-> LastValue(rows, LAMBDA r : IsInfo(r, "error_count"))]

\* A body without any of these is answered and forgotten.
Counts(parsed) == parsed.counters # <<>> \/ parsed.packets # {}

-----------------------------------------------------------------------------
(* rollup, empty session, accumulate.                                      *)

ZeroCounters == [n \in ALL_P12_COUNTERS |->
                   [value |-> 0, severity |-> IF n \in P1_COUNTERS THEN 1 ELSE 2]]

\* 1 before 2 before nothing.
WorstSeverity(counters) ==
  LET raised == {counters[n].severity :
                   n \in {m \in DOMAIN counters : counters[m].value > 0}}
  IN  IF 1 \in raised THEN 1 ELSE IF 2 \in raised THEN 2 ELSE 0

\* The counters of an interval: the last row of a name counts.
rollup_etr290_snapshot(parsed) ==
  LET rows     == parsed.counters
      of(n)    == {i \in DOMAIN rows : rows[i].name = n}
      counters == [n \in ALL_P12_COUNTERS |->
                     IF of(n) = {} THEN ZeroCounters[n]
                     ELSE LET r == rows[CHOOSE i \in of(n) : \A j \in of(n) : j <= i]
                          IN  [value |-> r.value, severity |-> r.severity]]
  IN  [counters |-> counters, worst |-> WorstSeverity(counters),
       errors |-> parsed.errors, packets |-> parsed.packets,
       bitrate |-> parsed.bitrate]

empty_etr290_session ==
  [counters |-> ZeroCounters, worst |-> 0, errors |-> {0}, packets |-> {},
   bitrate |-> {}]

OrElse(opt, default) == IF opt # {} THEN opt ELSE default

Number(opt) == IF opt = {} THEN 0 ELSE CHOOSE v \in opt : TRUE

\* Mutant of accumulate_etr290_snapshot: the worst severity is the interval's.
AccumulateLastWorst(session, interval) ==
  [counters |-> [n \in ALL_P12_COUNTERS |->
                   [value    |-> session.counters[n].value + interval.counters[n].value,
                    severity |-> interval.counters[n].severity]],
   worst    |-> interval.worst,
   errors   |-> {Number(session.errors) + Number(interval.errors)},
   packets  |-> OrElse(interval.packets, session.packets),
   bitrate  |-> OrElse(interval.bitrate, session.bitrate)]

\* Mutant of accumulate_etr290_snapshot: errors are passed on when the interval
\* has them.
AccumulateErrorsIfAny(session, interval) ==
  LET counters == [n \in ALL_P12_COUNTERS |->
                     [value |-> session.counters[n].value + interval.counters[n].value,
                      severity |-> interval.counters[n].severity]]
  IN  [counters |-> counters, worst |-> WorstSeverity(counters),
       errors   |-> {Number(session.errors) + e : e \in interval.errors},
       packets  |-> OrElse(interval.packets, session.packets),
       bitrate  |-> OrElse(interval.bitrate, session.bitrate)]

\* Counters and errors add up; packets and bitrate are the last that came.
accumulate_etr290_snapshot(session, interval) ==
  LET counters == [n \in ALL_P12_COUNTERS |->
                     [value |-> session.counters[n].value + interval.counters[n].value,
                      severity |-> interval.counters[n].severity]]
  IN  [counters |-> counters, worst |-> WorstSeverity(counters),
       errors   |-> {Number(session.errors) + Number(interval.errors)},
       packets  |-> OrElse(interval.packets, session.packets),
       bitrate  |-> OrElse(interval.bitrate, session.bitrate)]

-----------------------------------------------------------------------------
(* extract_pid_structure: here a PID has a number, a description (of which *)
(* "stuffing" and "unknown" are relabelled, and perhaps a bitrate.         *)

NullPadding == [id |-> MPEG_TS_NULL_PID, description |-> "Null padding",
                bitrate |-> {0}, stuffing |-> TRUE]

Labelled(pid) ==
  IF pid.id # MPEG_TS_NULL_PID
    THEN [id |-> pid.id, description |-> pid.description,
          bitrate |-> pid.bitrate, stuffing |-> FALSE]
    ELSE [id |-> pid.id, bitrate |-> pid.bitrate, stuffing |-> TRUE,
          description |-> IF pid.description \in {"stuffing", "unknown"}
                            THEN "Null padding" ELSE pid.description]

\* pids_out.sort: by number, and as listed among equals.
SortedById(pids) ==
  LET place == [i \in DOMAIN pids |->
                  Cardinality({j \in DOMAIN pids :
                                 \/ pids[j].id < pids[i].id
                                 \/ pids[j].id = pids[i].id /\ j <= i})]
  IN  [k \in DOMAIN pids |-> pids[CHOOSE i \in DOMAIN pids : place[i] = k]]

\* Mutant of extract_pid_structure: only what was analysed is listed.
ExtractAnalysedOnly(report) ==
  SortedById([i \in DOMAIN report |-> Labelled(report[i])])

extract_pid_structure(report) ==
  LET known == [i \in DOMAIN report |-> Labelled(report[i])]
  IN  SortedById(IF \E i \in DOMAIN known : known[i].id = MPEG_TS_NULL_PID
                   THEN known ELSE Append(known, NullPadding))
=============================================================================
