------------------------- MODULE EvidenceProperties -------------------------
(***************************************************************************)
(* What the views of an execution promise about the processes in it: each  *)
(* piece of evidence is shown with the process it is about, a selection    *)
(* stays with the process it was made for, and thinning hides no peak.     *)
(***************************************************************************)
EXTENDS Evidence, Analytics

MaxPoints == 2     \* the samples a track draws; 240 in the code

(* The numbers of the events of some types about stage i, in order. *)
EventsOf(types, i) ==
  LET mine == SelectSeq([k \in DOMAIN record |-> k], LAMBDA k : record[k].type \in types /\ about[k] = i)
  IN  [n \in DOMAIN mine |-> record[mine[n]].seq]

FirstOf(seqs) == IF seqs = <<>> THEN None ELSE seqs[1]
LastOf(seqs) == IF seqs = <<>> THEN None ELSE seqs[Len(seqs)]

SampleSeqs(i) == EventsOf({"process.snapshot"}, i)

WithCommand(i) == SelectSeq(SampleSeqs(i), LAMBDA n : record[n + 1].command # None)

(* All that is known of stage i stands in its one entry. *)
TellsOf(p, i, procs) ==
  /\ p.id.session = "here" /\ p.first = FirstOf(EventsOf({"process.started"}, i))
  /\ p.samples = Len(SampleSeqs(i)) /\ p.firstSample = FirstOf(SampleSeqs(i))
  /\ p.end = LastOf(EventsOf({"process.exited", "process.exec_error"}, i))
  /\ p.signal = FirstOf(EventsOf({"signal.received"}, i))
  /\ ExecTransition(p.id, procs) = FirstOf(WithCommand(i))
  /\ p.command = IF WithCommand(i) = <<>> THEN None ELSE record[LastOf(WithCommand(i)) + 1].command
  /\ p.id.start = IF StartTimes(record, Pid(i)) = {} THEN None ELSE CHOOSE t \in StartTimes(record, Pid(i)) : TRUE
  /\ p.ppid = IF p.id.start = None THEN None ELSE EnginePid
  /\ SampleRange(p.id, record) \in {<<>>, <<FirstOf(SampleSeqs(i)), LastOf(SampleSeqs(i))>>} \/ i \in taken

StageApart(i, procs) ==
  LET mine == OfPid(procs, "child", Pid(i))
  IN  IF EventsOf({"process.started"}, i) = <<>> THEN mine = {}
      ELSE IF Pid(i) \in Collisions(record)
      THEN ~boot /\ Cardinality(mine) = Cardinality(StartTimes(record, Pid(i)))
      ELSE Cardinality(mine) = 1 /\ \A j \in mine : TellsOf(procs[j], i, procs)

EngineApart(procs) ==
  /\ \E k \in DOMAIN record : record[k].type = "process.snapshot" /\ record[k].engine # None
  <=> OfPid(procs, "caps-engine", EnginePid) # {}

(* buildEvidenceIndex gives every process that was started one entry of    *)
(* its own, made when its pid was all that was known and kept when its     *)
(* start time is learnt, and every sample, signal and end goes to the      *)
(* entry of its process.  Only without btime, when start times are         *)
(* guesses, may one pid have several, and then it is declared a collision. *)
ProcessesStayApart ==
  choices = 0 =>
  /\ EngineApart(Processes(record))
  /\ \A i \in Stages : StageApart(i, Processes(record))

(* What resolution r of the reader's selection may be while `events` is    *)
(* shown. *)
StaysPut(r, events, procs) ==
  /\ r.at # 0 =>
       /\ chosen # None /\ StageOf(procs[r.at].id) = chosen
       /\ r.confidence # "none"
       /\ \A j \in r.related : r.at \in Related(j, procs)
       /\ \A at \in {None, r.cursor} :
            LET n == Nearest(r.id, events, procs, at) IN n # None => about[n + 1] = chosen
  /\ r.event # None => r.cursor = CursorOf(record[r.event + 1], events)
  /\ Kind(r, procs) = "exec" => record[r.event + 1].type = "process.snapshot" /\ record[r.event + 1].command # None
  /\ (r.at = 0 /\ store.id # NoProcess) =>
       \/ ~boot
       \/ \A j \in DOMAIN procs : StageOf(procs[j].id) = chosen => procs[j].id.start = None

(* resolveSelection: whatever part of the record is on the screen, and     *)
(* whatever was observed since the choice was made, a selection resolves   *)
(* to the process it was made for or to none; to none only while the       *)
(* process, with the start time it was chosen with, is not on the screen,  *)
(* or when start times are guesses.  What was chosen in another execution  *)
(* never resolves here.                                                    *)
SelectionStaysPut ==
  store.session = "here" =>
    \A events \in Shown :
      StaysPut(ResolveSelection(store, events, Processes(events)), events, Processes(events))

PeaksKept(samples, tracks, peaks) ==
  /\ \A x \in DOMAIN Tracks : tracks.peaks[x] = TrackPeak(samples, Tracks[x])
  /\ samples # <<>> => tracks.drawn[1] = samples[1] /\ tracks.drawn[Len(tracks.drawn)] = samples[Len(samples)]
  /\ tracks.thinned => Len(tracks.drawn) < Len(samples)
  /\ peaks.count = Len(samples)
  /\ peaks.cpu.value = tracks.peaks.cpu.value /\ peaks.cpu.t = tracks.peaks.cpu.t
  /\ peaks.rss.value = tracks.peaks.memory.value /\ peaks.rss.t = tracks.peaks.memory.t
  /\ LET rss == Readings(samples, "rss")
     IN  /\ peaks.medianRss = None <=> Len(rss) < 2
         /\ peaks.medianRss # None =>
              /\ 2 * Cardinality({k \in DOMAIN rss : rss[k] <= peaks.medianRss}) > Len(rss)
              /\ 2 * Cardinality({k \in DOMAIN rss : rss[k] >= peaks.medianRss}) >= Len(rss)

(* What is lit fully is what has the peak, and the inspector opened at the *)
(* time of a peak shows a sample of that time.                             *)
PeaksShown(samples, tracks) ==
  \A x \in DOMAIN Tracks :
    /\ \A k \in DOMAIN samples :
         LET level == VisualState(samples, k).level[x]
         IN  level \in {None} \cup 0 .. 100
             /\ (level = 100 <=> tracks.peaks[x].value > 0 /\ Channel(samples[k], x) = tracks.peaks[x].value)
             /\ LensRaw(samples[k], x) = Channel(samples[k], x)
    /\ tracks.peaks[x].value # None =>
         samples[Inspector(samples, tracks.peaks[x].t).sample].t = tracks.peaks[x].t

(* The last state drawn is that of the last sample, and every event the    *)
(* timeline marks is marked at its own time.                               *)
TimelineIsOfTheRecord(events) ==
  LET samples == Samples(events)
      marks   == Annotations(events)
  IN  /\ samples # <<>> => LatestVisualState(samples) = <<VisualStates(samples)[SampleAt(samples, None)]>>
      /\ \A e \in ToSet(events) : e.type \in DOMAIN AnnotationTones =>
           \E k \in DOMAIN marks : marks[k].type = e.type /\ marks[k].t = CursorOf(e, events)
      /\ \A k \in DOMAIN marks : marks[k].tone = "end" => \E j \in 1 .. k : marks[j].tone = "start"

------------------------------------------------------------------------------
(* The archive: this execution as it was finalized, and an earlier one     *)
(* that went the same way until its first n events were recorded and was   *)
(* then cancelled; for odd n it was of the same command.                   *)

StatusOf(verdict) ==
  CASE verdict = "execution.completed" -> "COMPLETED" [] verdict = "execution.failed" -> "FAILED"
    [] verdict = "execution.timeout" -> "TIMED_OUT"   [] verdict = "execution.cancelled" -> "CANCELLED"

Filed(id, command, events, verdict) ==
  [id |-> id, command |-> command, events |-> events, status |-> StatusOf(verdict), day |-> 1,
   success |-> verdict = "execution.completed",
   exit |-> IF verdict = "execution.completed" THEN 0 ELSE None,
   signal |-> IF \E e \in ToSet(events) : e.type = "signal.received" THEN 9 ELSE None,
   duration |-> CursorOf(events[Len(events)], events)]

CutShort(n) ==
  Append(Stepped(record, n), [seq |-> n, type |-> "execution.cancelled", session |-> "here", pid |-> None,
                              at |-> record[n].at])

Archives ==
  {<<Filed("earlier", n % 2, CutShort(n), "execution.cancelled"),
     Filed("here", 1, record, record[Len(record)].type)>> : n \in 1 .. Len(record) - 1}

(* A comparison read from either side says the same, subtracts what both   *)
(* sides know and nothing else, and the execution that was cut short has   *)
(* no more samples and no higher peak.                                     *)
ComparisonIsFair(db) ==
  LET there == Compare(db, <<"earlier", "here">>)
      back  == Compare(db, <<"here", "earlier">>)
      forth == there.comparison
  IN  /\ there.error = "none" /\ back.error = "none"
      /\ back.comparison.shared = forth.shared
      /\ \A q \in Subtracted :
           /\ forth.deltas[q] = <<>> <=> forth.left[q] = None \/ forth.right[q] = None
           /\ Added(forth.deltas[q]) + Added(back.comparison.deltas[q]) = 0
      /\ \A q \in {"snapshots", "peakRss", "peakRead", "peakWrite"} : Added(forth.deltas[q]) >= 0
      /\ forth.left.medianRss # None => forth.left.medianRss <= forth.left.peakRss
      /\ Compare(db, <<"here", "here">>).error # "none" /\ Compare(db, <<"here", "lost">>).error # "none"

(* The overview, aggregated by queries over stored samples, the profiles,  *)
(* grouped by command, and the peaks of each execution tell the same; but  *)
(* for the CPU time, where the overview drops an execution whose last      *)
(* sample could not be read although an earlier one could.                 *)
AnalyticsAgree(db) ==
  LET overview == ComputeAnalytics(db)
      profiles == ComputeCommandProfiles(db)
      sum(field(_)) == MapThenSumSet(LAMBDA c : field(profiles[c]), DOMAIN profiles)
      peaks == [k \in DOMAIN db |-> ComputeRuntimePeaks(SamplesOfExecution(db[k]))]
      timed == {k \in DOMAIN db : peaks[k].cpuTime # None}
      lost == {k \in timed : LET s == SamplesOfExecution(db[k]) IN s[Len(s)].of["cpuTime"] = None}
  IN  /\ overview.total = Len(db) /\ sum(LAMBDA p : p.runs) = Len(db)
      /\ sum(LAMBDA p : p.successful) = overview.successful /\ sum(LAMBDA p : p.failed) = overview.failed
      /\ sum(LAMBDA p : p.signalled) = overview.signalled /\ overview.successful + overview.failed = Len(db)
      /\ MapThenSumSet(LAMBDA d : overview.byDay[d].count, DOMAIN overview.byDay) = Len(db)
      /\ \A c \in DOMAIN profiles : profiles[c].runs = overview.byCommand[c]
      /\ sum(LAMBDA p : p.rssSamples) = overview.telemetry.samples["rss"]
      /\ overview.telemetry.max["rss"] = Largest({profiles[c].peakRss : c \in DOMAIN profiles})
      /\ \A m \in {"rss", "cpu", "read", "write"} :
           overview.telemetry.max[m] = Largest({peaks[k][m].value : k \in DOMAIN db})
      /\ overview.telemetry.executionsSampled = Cardinality({k \in DOMAIN db : peaks[k].count > 0})
      /\ overview.telemetry.sampleCount = Added([k \in DOMAIN db |-> peaks[k].count])
      /\ overview.telemetry.cpuTimeExecutions = Cardinality(timed \ lost)
      /\ \A c \in DOMAIN profiles :
           LET p == profiles[c]
           IN  p.shortest <= p.median /\ p.median <= p.p95 /\ p.p95 <= p.longest /\ p.shortest <= p.average
      /\ overview.percentiles[50] <= overview.percentiles[95] /\ overview.percentiles[95] <= overview.percentiles[99]

(* Thinning the tracks (thinIndices) keeps every track's peak at its value *)
(* and time, so the tracks, the summary of the execution, the visual state *)
(* and the inspector agree on it; the summary the gateway computes of the  *)
(* same record (computeRuntimePeaks) is the browser's, and what it tells   *)
(* of several executions (compareSessions, computeAnalytics,               *)
(* computeCommandProfiles) agrees with the peaks of each; and the record   *)
(* they read has no gap.                                                   *)
PeaksSurviveThinning ==
  choices = 0 =>
  /\ PeaksKept(Samples(record), ResourceTracks(Samples(record), MaxPoints), RuntimePeaks(Samples(record)))
  /\ PeaksShown(Samples(record), ResourceTracks(Samples(record), MaxPoints))
  /\ TimelineIsOfTheRecord(record)
  /\ ComputeRuntimePeaks(Samples(record)) = RuntimePeaks(Samples(record))
  /\ Closed => \A db \in Archives : ComparisonIsFair(db) /\ AnalyticsAgree(db)
  /\ MissingSequences(record) = 0

------------------------------------------------------------------------------
InOrderOfTime == \A k \in 1 .. Len(record) - 1 : record[k].at <= record[k + 1].at

(* The nodes and edges of the scene are those of the index. *)
SceneIsIndexed(nodes, procs) ==
  Collisions(record) = {} =>
    /\ Cardinality({SpaceKey(nodes[i]) : i \in DOMAIN nodes}) = Len(nodes)
    /\ {SpaceKey(nodes[i]) : i \in DOMAIN nodes} = {NodeKey(procs[j].id) : j \in DOMAIN procs}
    /\ SpaceEdges(nodes) =
         {<<NodeKey(procs[j].id), NodeKey(procs[k].id)>> :
            <<j, k>> \in {p \in (DOMAIN procs) \X (DOMAIN procs) :
                            procs[p[1]].id.role = "caps-engine" /\ p[2] \in Related(p[1], procs)}}

(* At the end of the record a process whose end was read is shown as       *)
(* ended, in the way it ended, and no other is.                            *)
SceneEnds(nodes) ==
  \A i \in Stages, k \in DOMAIN nodes : nodes[k].pid = Pid(i) =>
    LET state == NodeStateAt(record, nodes[k], None)
        ended == EventsOf(EndTypes, i) # <<>>
    IN  /\ ended <=> state \notin {"PENDING", "STARTING", "RUNNING"}
        /\ ended /\ EventsOf({"process.exec_error"}, i) # <<>> => state = "FAILED"
        /\ ended /\ EventsOf({"signal.received"}, i) # <<>> => state = "SIGNALED"
        /\ state = "SIGNALED" => EventsOf({"signal.received"}, i) # <<>>
        /\ state = "STARTING" => SampleSeqs(i) = <<>> \/ i \in taken

(* Looking at a moment of the whole record and replaying the record up to  *)
(* that moment show the same processes in the same states, but for the     *)
(* verdict, which the replay has not reached.                              *)
SceneReplays(nodes, t, events) ==
  \A k \in DOMAIN nodes :
    LET mine == {n \in ToSet(SpaceNodes(events)) : n.role = nodes[k].role /\ n.pid = nodes[k].pid}
        sought == NodeStateAt(record, nodes[k], t)
    IN  nodes[k].role = "child" =>
          /\ (mine = {} <=> sought = "PENDING")
          /\ \A n \in mine :
               LET replayed == NodeStateAt(events, n, t)
               IN  sought = replayed \/ (replayed = "COMPLETED" /\ sought \in {"FAILED", "TIMED_OUT"} /\ Closed)

(* What a lens shows of a node at a moment is of that process, is within   *)
(* its bounds, largest at the peak only, smallest when nothing was         *)
(* observed, and dark when the process has ended.                          *)
LensesAreHonest(nodes, t) ==
  LET samples == Samples(record) IN
  \A k \in DOMAIN nodes :
    LET at == NodeAt(record, nodes[k], t) IN
    /\ at.terminal <=> at.state \notin {"PENDING", "STARTING", "RUNNING"}
    /\ at.state = "STARTING" => at.sample = 0
    /\ at.sample # 0 =>
         /\ at.age >= 0 /\ (t # None => samples[at.sample].t <= t)
         /\ nodes[k].role = "child" => Pid(about[samples[at.sample].seq + 1]) = nodes[k].pid
    /\ \A lens \in DOMAIN LensSpecs :
         LET raw    == IF at.sample = 0 THEN None ELSE LensRaw(samples[at.sample], LensSpecs[lens])
             radius == RadiusForMode(samples, at, lens)
             value  == LensValue(samples, at, lens)
         IN  /\ radius \in RadiusMin .. RadiusMax
             /\ raw = None => value = None /\ radius = RadiusMin
             /\ value = None => raw \in {None, 0}
             /\ (value = 100 <=> raw # None /\ raw > 0 /\ raw = ChannelPeak(samples, LensSpecs[lens]))
             /\ lens = "io" => (radius = RadiusMax <=> value = 100)
             /\ LensIntensity(samples, at, lens) \in (IF at.terminal THEN {0} ELSE 0 .. 100)
    /\ at.terminal => CpuIntensity(samples, at) = 0

(* Every event of a process is marked at its node; the marks at a node say *)
(* how it ended.                                                           *)
MarkersTellEnds(nodes) ==
  LET markers == Markers(record, nodes)
      at(k, tone) == {m \in DOMAIN markers : markers[m].node = k /\ markers[m].tone = tone}
  IN  /\ \A e \in ToSet(record) : e.type \in MarkedTypes =>
           \E m \in DOMAIN markers : markers[m].seq = e.seq /\ markers[m].node # 0 /\ nodes[markers[m].node].pid = e.pid
      /\ \A k \in DOMAIN nodes :
           LET state == NodeAt(record, nodes[k], None).state
           IN  nodes[k].role = "child" =>
                 /\ at(k, "red") # {} => state = "FAILED"
                 /\ at(k, "amber") # {} /\ at(k, "green") # {} => state = "SIGNALED"
                 /\ state \in {"COMPLETED", "SIGNALED"} => at(k, "green") # {}
                 /\ \E m \in at(k, "cyan") : markers[m].kind = "exec" /\ markers[m].t = nodes[k].created

(* The ticks of the ruler are few and reach the end, up to half a step. *)
RulerReaches ==
  \A span \in {0, 999, 2000, 2001, 90000, 4000000, 28800000} :
    LET ruler == Ruler(span)
    IN  /\ Cardinality(ruler.ticks) \in 2 .. 10
        /\ \E tick \in ruler.ticks : 2 * tick + ruler.step > 2 * span

(* buildProcessSpace and nodeStateAt: the scene has the processes and the  *)
(* edges of the index, shows at the end of the record what became of each, *)
(* marks it there, shows through every lens at every moment values of the  *)
(* process itself, and does not depend on whether a moment is sought or    *)
(* replayed; all but the first as long as the clock was not set back.      *)
SceneTellsTheRecord ==
  choices = 0 =>
  /\ SceneIsIndexed(SpaceNodes(record), Processes(record))
  /\ RulerReaches
  /\ InOrderOfTime =>
       /\ SceneEnds(SpaceNodes(record))
       /\ MarkersTellEnds(SpaceNodes(record))
       /\ \A t \in {None} \cup 0 .. clock : LensesAreHonest(SpaceNodes(record), t)
       /\ \A t \in 0 .. clock : SceneReplays(SpaceNodes(record), t, Played(record, t))
=============================================================================
