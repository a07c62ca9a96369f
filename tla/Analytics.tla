------------------------------ MODULE Analytics ------------------------------
(***************************************************************************)
(* What the gateway computes from stored executions                        *)
(* (analytics/service.ts and the queries of db/repositories): the peaks of *)
(* one, the comparison of two, the overview and the profile per command of *)
(* all.  An execution is its row (id, command, status, success, exit,      *)
(* signal, duration, day) with its events.  The five metrics of            *)
(* TelemetryViews stand for those of the code; an average is in whole      *)
(* units.                                                                  *)
(***************************************************************************)
EXTENDS TelemetryViews

TerminalStatuses == {"COMPLETED", "FAILED", "TIMED_OUT", "CANCELLED"}

(* listForAnalytics: the executions that are over. *)
ListForAnalytics(db) == SelectSeq(db, LAMBDA x : x.status \in TerminalStatuses)

SamplesOfExecution(x) == Samples(x.events)

(* percentile: the value at the rank rounded up, in an ascending list. *)
Percentile(sorted, p) ==
  IF sorted = <<>> THEN None
  ELSE LET rank == (p * Len(sorted) + 99) \div 100
       IN  sorted[IF rank < 1 THEN 1 ELSE IF rank > Len(sorted) THEN Len(sorted) ELSE rank]

Added(values) == FoldLeft(LAMBDA sum, v : sum + v, 0, values)

Mean(values) == IF values = <<>> THEN None ELSE Added(values) \div Len(values)

(* How often a column has each of its values that is not null. *)
Tally(column) ==
  [v \in ToSet(column) \ {None} |-> Cardinality({k \in DOMAIN column : column[k] = v})]

Count(rows, Test(_)) == Cardinality({k \in DOMAIN rows : Test(rows[k])})

------------------------------------------------------------------------------
(* One execution, and two. *)

(* The first of the highest values of a metric. *)
Peak(samples, m) ==
  LET k == Highest(samples, m) IN IF k = 0 THEN NoPeak ELSE [value |-> samples[k].of[m], t |-> samples[k].t]

(* latestValue, over all samples: the last valid observation. *)
LastKnown(samples, m) == LET known == Readings(samples, m) IN IF known = <<>> THEN None ELSE known[Len(known)]

(* computeRuntimePeaks *)
ComputeRuntimePeaks(samples) ==
  [count |-> Len(samples),
   first |-> IF samples = <<>> THEN None ELSE samples[1].t,
   last  |-> IF samples = <<>> THEN None ELSE samples[Len(samples)].t,
   cpu |-> Peak(samples, "cpu"), rss |-> Peak(samples, "rss"),
   read |-> Peak(samples, "read"), write |-> Peak(samples, "write"),
   medianRss |-> MiddleOf(Readings(samples, "rss")), cpuTime |-> LastKnown(samples, "cpuTime")]

(* comparisonSide: the quantities that can be compared. *)
ComparisonSide(x) ==
  LET peaks == ComputeRuntimePeaks(SamplesOfExecution(x))
  IN  [duration |-> x.duration, events |-> Len(x.events), snapshots |-> peaks.count,
       peakRss |-> peaks.rss.value, medianRss |-> peaks.medianRss, peakCpu |-> peaks.cpu.value,
       cpuTime |-> peaks.cpuTime, peakRead |-> peaks.read.value, peakWrite |-> peaks.write.value]

(* What a comparison subtracts; the median and the peak of the CPU are     *)
(* shown side by side only.                                                *)
Subtracted == {"duration", "events", "snapshots", "peakRss", "cpuTime", "peakRead", "peakWrite"}

(* delta: a sequence of one number, or of none when a side lacks it. *)
Delta(a, b) == IF a = None \/ b = None THEN <<>> ELSE <<b - a>>

CompareSessions(a, b) ==
  LET left == ComparisonSide(a)
      right == ComparisonSide(b)
  IN  [left |-> left, right |-> right,
       shared |-> [command |-> a.command = b.command, exit |-> a.exit # None /\ a.exit = b.exit,
                   signal |-> a.signal # None /\ a.signal = b.signal, status |-> a.status = b.status],
       deltas |-> [q \in Subtracted |-> Delta(left[q], right[q])]]

(* GET /api/analytics/compare of a list of ids. *)
Compare(db, ids) ==
  LET found(id) == {k \in DOMAIN db : db[k].id = id}
  IN  IF Len(ids) # 2 THEN [error |-> "INVALID_ARGUMENT"]
      ELSE IF ids[1] = ids[2] THEN [error |-> "INVALID_ARGUMENT"]
      ELSE IF \E n \in 1 .. 2 : found(ids[n]) = {} THEN [error |-> "NOT_FOUND"]
      ELSE [error |-> "none",
            comparison |-> CompareSessions(db[Only(found(ids[1]))], db[Only(found(ids[2]))])]

------------------------------------------------------------------------------
(* All executions. *)

(* The readings of a metric in all samples of some executions. *)
AllReadings(db, m) == FlattenSeq([k \in DOMAIN db |-> Readings(SamplesOfExecution(db[k]), m)])

(* A mean needs two observations. *)
MeanOfTwo(values) == IF Len(values) < 2 THEN None ELSE Mean(values)

(* aggregateProcessTelemetry: over every stored sample.  The CPU time of   *)
(* an execution is that of its newest sample, if that has one.             *)
AggregateProcessTelemetry(db) ==
  LET sampled == SelectSeq(db, LAMBDA x : SamplesOfExecution(x) # <<>>)
      newest  == [k \in DOMAIN sampled |-> LET s == SamplesOfExecution(sampled[k]) IN s[Len(s)].of["cpuTime"]]
      cpu     == SelectSeq(newest, LAMBDA v : v # None)
  IN  [sampleCount |-> Added([k \in DOMAIN db |-> Len(SamplesOfExecution(db[k]))]),
       executionsSampled |-> Len(sampled),
       samples |-> [m \in Metrics \ {"cpuTime"} |-> Len(AllReadings(db, m))],
       average |-> [m \in Metrics \ {"cpuTime"} |-> MeanOfTwo(AllReadings(db, m))],
       max     |-> [m \in Metrics \ {"cpuTime"} |-> Largest(ToSet(AllReadings(db, m)))],
       cpuTimeExecutions |-> Len(cpu), averageCpuTime |-> MeanOfTwo(cpu)]

Durations(rows) == Ascending(SelectSeq([k \in DOMAIN rows |-> rows[k].duration], LAMBDA d : d # None /\ d >= 0))

(* computeAnalytics: the rows that are over, and every stored sample. *)
ComputeAnalytics(db) ==
  LET rows == ListForAnalytics(db)
      agg  == AggregateProcessTelemetry(db)
      days == {rows[k].day : k \in DOMAIN rows}
  IN  [total |-> Len(rows), successful |-> Count(rows, LAMBDA x : x.success),
       failed |-> Count(rows, LAMBDA x : ~x.success), signalled |-> Count(rows, LAMBDA x : x.signal # None),
       byExitCode |-> Tally([k \in DOMAIN rows |-> rows[k].exit]), bySignal |-> Tally([k \in DOMAIN rows |-> rows[k].signal]),
       byCommand |-> Tally([k \in DOMAIN rows |-> rows[k].command]),
       byDay |-> [d \in days |-> [count |-> Count(rows, LAMBDA x : x.day = d),
                                  success |-> Count(rows, LAMBDA x : x.day = d /\ x.success)]],
       average |-> Mean(Durations(rows)),
       percentiles |-> [p \in {50, 95, 99} |-> Percentile(Durations(rows), p)],
       telemetry |-> agg,
       ioRateSamples |-> IF agg.samples["read"] < agg.samples["write"] THEN agg.samples["read"] ELSE agg.samples["write"]]

(* collectSnapshots: what was sampled of some executions. *)
CollectSnapshots(rows, m) == Ascending(AllReadings(rows, m))

(* computeCommandProfiles: one profile of each command that was run. *)
CommandProfile(runs) ==
  LET durations == Durations(runs)
      rss == CollectSnapshots(runs, "rss")
  IN  [runs |-> Len(runs), successful |-> Count(runs, LAMBDA x : x.success),
       failed |-> Count(runs, LAMBDA x : ~x.success), signalled |-> Count(runs, LAMBDA x : x.signal # None),
       successRate |-> (100 * Count(runs, LAMBDA x : x.success)) \div Len(runs),
       average |-> Mean(durations), median |-> Percentile(durations, 50), p95 |-> Percentile(durations, 95),
       shortest |-> Percentile(durations, 0), longest |-> Percentile(durations, 100),
       rssSamples |-> Len(rss), medianRss |-> MiddleOf(rss), peakRss |-> Percentile(rss, 100)]

ComputeCommandProfiles(db) ==
  LET rows == ListForAnalytics(db)
  IN  [c \in {rows[k].command : k \in DOMAIN rows} |-> CommandProfile(SelectSeq(rows, LAMBDA x : x.command = c))]
=============================================================================
