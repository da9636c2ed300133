------------------------------ MODULE MCEtr290 -----------------------------
EXTENDS Etr290Monitor

Row(scope, measurement, severity, name, value) ==
  [scope |-> scope, measurement |-> measurement, severity |-> severity,
   name |-> name, value |-> value]

\* An interval with a counter given twice and the information rows; one with
\* rows that do not count; one that TSDuck has nothing to say of.
BodiesDef ==
  {<<Row("ts", "counter", 1, "pat_error", 2), Row("ts", "counter", 1, "pat_error", 1),
     Row("ts", "counter", 4, "packet_count", 7), Row("ts", "counter", 4, "error_count", 1)>>,
   <<Row("ts", "counter", 2, "pcr_error", 1), Row("pid", "counter", 1, "pat_error", 1),
     Row("ts", "counter", 3, "pat_error", 1), Row("ts", "bitrate", 0, "none", 5)>>}

Pid(id, description) == [id |-> id, description |-> description, bitrate |-> {1}]

ReportsDef == {<<Pid(32, "video"), Pid(16, "audio")>>}

\* More reports than the run has room for.
MoreReports ==
  {<<Pid(MPEG_TS_NULL_PID, name), Pid(16, "audio")>> : name \in {"stuffing", "teletext"}}
    \cup {<<Pid(17, "unknown"), Pid(MPEG_TS_NULL_PID, "unknown"), Pid(0, "pat")>>}

\* extract_pid_structure makes a whole map of each.
ASSUME ExtractIsWhole == \A r \in MoreReports : IsWhole(extract_pid_structure(r))
=============================================================================
