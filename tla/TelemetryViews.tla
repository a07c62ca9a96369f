---------------------------- MODULE TelemetryViews ----------------------------
(***************************************************************************)
(* What the frontend draws from the samples of a record                    *)
(* (lib/telemetry.ts): the resource tracks and their thinning, the         *)
(* inspector, the visual state of a process relative to the peaks of its   *)
(* record, the summary of an execution.  A sample carries five metrics     *)
(* that stand for the twelve of the code, which treats those of one track  *)
(* alike; None is a metric that is unavailable.                            *)
(***************************************************************************)
EXTENDS EvidenceCorrelation

(* cpu: a rate; rss: a level; cpuTime: a counter that only grows; read and *)
(* write: two rates of one track.                                          *)
Metrics == {"cpu", "rss", "cpuTime", "read", "write"}

Tracks == [cpu |-> <<"cpu">>, memory |-> <<"rss">>, io |-> <<"read", "write">>]

(* collectSamples: every sample that was recorded, whether or not anything *)
(* could be read.                                                          *)
Samples(events) ==
  LET taken == SelectSeq(events, LAMBDA e : e.type = "process.snapshot")
  IN  [k \in DOMAIN taken |-> [seq |-> taken[k].seq, t |-> CursorOf(taken[k], events), of |-> taken[k].values]]

Gap(a, b) == IF a < b THEN b - a ELSE a - b

(* sampleAt: the nearest in time, the earlier of two; the last one when no *)
(* time is asked for.                                                      *)
SampleAt(samples, t) ==
  IF samples = <<>> THEN 0
  ELSE IF t = None THEN Len(samples)
  ELSE CHOOSE k \in DOMAIN samples :
         /\ \A j \in DOMAIN samples : Gap(samples[k].t, t) <= Gap(samples[j].t, t)
         /\ \A j \in 1 .. k - 1 : Gap(samples[j].t, t) > Gap(samples[k].t, t)

------------------------------------------------------------------------------
(* Tracks. *)

(* The sample where a metric is first at its highest; 0 if it has none. *)
Highest(samples, m) ==
  LET known == {k \in DOMAIN samples : samples[k].of[m] # None}
  IN  IF known = {} THEN 0
      ELSE CHOOSE k \in known :
             /\ \A j \in known : samples[j].of[m] <= samples[k].of[m]
             /\ \A j \in known : j < k => samples[j].of[m] < samples[k].of[m]

(* trackDomain: the highest of the series of a track, the first of equals. *)
TrackPeak(samples, series) ==
  LET known == {s \in DOMAIN series : Highest(samples, series[s]) # 0}
      value(s) == samples[Highest(samples, series[s])].of[series[s]]
      best == CHOOSE s \in known : \A r \in known : value(r) <= value(s) /\ (r < s => value(r) < value(s))
  IN  IF known = {} THEN [series |-> "none", value |-> None, t |-> None]
      ELSE [series |-> series[best], value |-> value(best), t |-> samples[Highest(samples, series[best])].t]

(* The samples that must be kept: those at the peak of some track. *)
PeakSamples(samples) ==
  {k \in DOMAIN samples : \E x \in DOMAIN Tracks :
     LET peak == TrackPeak(samples, Tracks[x])
     IN  peak.value # None /\ samples[k].t = peak.t /\ samples[k].of[peak.series] = peak.value}

(* Mutant: an even stride, and nothing else. *)
ThinIndices_Evenly(count, maxPoints, mustKeep) ==
  IF count <= maxPoints THEN 1 .. count
  ELSE {1, count} \cup {((i * count) \div maxPoints) + 1 : i \in 0 .. maxPoints - 1}

(* thinIndices *)
ThinIndices(count, maxPoints, mustKeep) ==
  IF count <= maxPoints THEN 1 .. count
  ELSE {1, count} \cup mustKeep \cup {((i * count) \div maxPoints) + 1 : i \in 0 .. maxPoints - 1}

(* The samples at some indices, in their order. *)
At(samples, kept) ==
  LET order == SetToSortSeq(kept, LAMBDA i, j : i < j) IN [k \in DOMAIN order |-> samples[order[k]]]

(* buildResourceTracks: the samples drawn, and the peak of each track. *)
ResourceTracks(samples, maxPoints) ==
  LET drawn == At(samples, ThinIndices(Len(samples), maxPoints, PeakSamples(samples)))
  IN  [drawn |-> drawn, peaks |-> [x \in DOMAIN Tracks |-> TrackPeak(drawn, Tracks[x])],
       thinned |-> Len(drawn) < Len(samples)]

------------------------------------------------------------------------------
(* The state of a process at a sample, relative to the peaks. *)

Largest(values) ==
  IF values \ {None} = {} THEN None ELSE CHOOSE v \in values \ {None} : \A w \in values : w <= v

(* The one number a channel shows of a sample. *)
Channel(sample, x) == Largest({sample.of[Tracks[x][s]] : s \in DOMAIN Tracks[x]})

(* visualStatePeaks *)
ChannelPeak(samples, x) == Largest({Channel(samples[k], x) : k \in DOMAIN samples})

(* ratio, in hundredths *)
Ratio(value, peak) ==
  IF value = None \/ peak = None \/ peak <= 0 THEN None
  ELSE IF value >= peak THEN 100 ELSE (100 * value) \div peak

(* buildVisualState: the channels, and the metrics reported unavailable. *)
VisualState(samples, k) ==
  [level |-> [x \in DOMAIN Tracks |-> Ratio(Channel(samples[k], x), ChannelPeak(samples, x))],
   unavailable |-> {m \in Metrics : samples[k].of[m] = None}]

(* buildVisualStates, and latestVisualState: the last of them, if any. *)
VisualStates(samples) == [k \in DOMAIN samples |-> VisualState(samples, k)]

LatestVisualState(samples) == IF samples = <<>> THEN <<>> ELSE <<VisualState(samples, Len(samples))>>

(* buildInspector: the sample shown at a time, and what it lacks. *)
Inspector(samples, t) ==
  LET k == SampleAt(samples, t)
  IN  [sample |-> k, unavailable |-> IF k = 0 THEN {} ELSE {m \in Metrics : samples[k].of[m] = None}]

------------------------------------------------------------------------------
(* deriveRuntimePeaks: one pass over the record.  A peak keeps the first   *)
(* time it was reached; a counter keeps what it last was, whichever        *)
(* process it was read of; the median needs two values.                    *)

NoPeak == [value |-> None, t |-> None]

NoPeaks == [count |-> 0, first |-> None, last |-> None, cpu |-> NoPeak, rss |-> NoPeak, read |-> NoPeak,
            write |-> NoPeak, cpuTime |-> None]

Higher(peak, value, t) ==
  IF value # None /\ (peak.value = None \/ value > peak.value) THEN [value |-> value, t |-> t] ELSE peak

PeaksWith(peaks, s) ==
  [count   |-> peaks.count + 1,
   first   |-> OrElse(peaks.first, s.t),
   last    |-> s.t,
   cpu     |-> Higher(peaks.cpu, s.of["cpu"], s.t),
   rss     |-> Higher(peaks.rss, s.of["rss"], s.t),
   read    |-> Higher(peaks.read, s.of["read"], s.t),
   write   |-> Higher(peaks.write, s.of["write"], s.t),
   cpuTime |-> OrElse(s.of["cpuTime"], peaks.cpuTime)]

(* What the samples know of a metric, in their order. *)
Readings(samples, m) ==
  SelectSeq([k \in DOMAIN samples |-> samples[k].of[m]], LAMBDA v : v # None)

Ascending(values) == SortSeq(values, LAMBDA v, w : v < w)

MiddleOf(values) == IF Len(values) < 2 THEN None ELSE Ascending(values)[(Len(values) \div 2) + 1]

RuntimePeaks(samples) ==
  FoldLeft(PeaksWith, NoPeaks, samples) @@ [medianRss |-> MiddleOf(Readings(samples, "rss"))]

(* buildAnnotations: the marks beside the tracks. *)
AnnotationTones ==
  [t \in {"process.started", "redirection.opened"} |-> "start"]
  @@ [t \in {"process.exec_error", "execution.failed", "signal.received"} |-> "signal"]
  @@ [t \in {"process.exited"} |-> "end"] @@ [t \in {"redirection.failed", "execution.timeout"} |-> "event"]

Annotations(events) ==
  LET marked == SelectSeq(events, LAMBDA e : e.type \in DOMAIN AnnotationTones)
  IN  [k \in DOMAIN marked |-> [t |-> CursorOf(marked[k], events), tone |-> AnnotationTones[marked[k].type],
                                type |-> marked[k].type]]

(* sequenceIntegrity: what is missing between the first event and the last *)
MissingSequences(events) ==
  FoldLeft(LAMBDA sum, k : sum + events[k + 1].seq - events[k].seq - 1, 0,
           [k \in 1 .. Len(events) - 1 |-> k])
=============================================================================
