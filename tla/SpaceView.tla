------------------------------ MODULE SpaceView ------------------------------
(***************************************************************************)
(* The scene the frontend draws of an execution (lib/processSpace.ts): a   *)
(* node for the engine and for every process that was started, edges where *)
(* an observed parent pid is the engine's, markers for the events, and the *)
(* state of a node at a moment; and the events the replay shows            *)
(* (ReplayPanel.tsx).  A scene is built from whatever part of the record   *)
(* is on the screen.  None as a moment is the end of the record.           *)
(***************************************************************************)
EXTENDS TelemetryViews

(* ReplayPanel: the events up to a time, which is no prefix of the record  *)
(* when the clock was set back; or the first few when stepping.            *)
Played(events, t) == SelectSeq(events, LAMBDA e : e.at <= events[1].at + t)

Stepped(events, n) == SubSeq(events, 1, n)

EndTypes == {"process.exited", "process.exec_error", "process.wait_failed"}

ExecutionTerminals == {"execution.completed", "execution.failed", "execution.timeout"}

Snapshots(events, pid) == SelectSeq(events, LAMBDA e : e.type = "process.snapshot" /\ e.subject = pid)

(* The last of what the samples of a pid say, and None if they do not. *)
Latest(values) == FoldLeft(LAMBDA last, v : OrElse(v, last), None, values)

(* The engine's pid is the one the last sample that has one gives. *)
EnginePidOf(events) ==
  LET taken == SelectSeq(events, LAMBDA e : e.type = "process.snapshot")
  IN  Latest([k \in DOMAIN taken |-> taken[k].engine])

FirstWhere(events, Test(_)) ==
  LET found == SelectSeq(events, Test) IN IF found = <<>> THEN None ELSE found[1].seq

TimeOf(events, seq) == IF seq = None THEN None ELSE CursorOf(EventAt(events, seq), events)

(* collectRawNodes: the last start, the first end, the first program seen. *)
ChildNode(events, pid) ==
  LET mine    == Snapshots(events, pid)
      starts  == SelectSeq(events, LAMBDA e : e.type = "process.started" /\ e.pid = pid)
      parent  == Latest([k \in DOMAIN mine |-> mine[k].ppid])
  IN  [role |-> "child", pid |-> pid, start |-> Latest([k \in DOMAIN mine |-> mine[k].start]),
       created |-> CursorOf(starts[Len(starts)], events), first |-> starts[Len(starts)].seq,
       exec |-> FirstWhere(mine, LAMBDA e : e.command # None),
       ended |-> TimeOf(events, FirstWhere(events, LAMBDA e : e.type \in EndTypes /\ e.pid = pid)),
       parent |-> IF parent = EnginePidOf(events) THEN parent ELSE None]

(* The last event that ends the execution; a cancelled one has none here. *)
Terminal(events) ==
  LET ends == SelectSeq(events, LAMBDA e : e.type \in ExecutionTerminals)
  IN  IF ends = <<>> THEN [type |-> "none", t |-> None]
      ELSE [type |-> ends[Len(ends)].type, t |-> CursorOf(ends[Len(ends)], events)]

EngineNode(events) ==
  [role |-> "caps-engine", pid |-> EnginePidOf(events), start |-> None, created |-> 0, first |-> 0,
   exec |-> None, ended |-> Terminal(events).t, parent |-> None]

StartedPids(events) == {e.pid : e \in {f \in ToSet(events) : f.type = "process.started"}} \ {None}

(* buildProcessSpace: the engine first, the children as they were created. *)
SpaceNodes(events) ==
  LET children == {ChildNode(events, pid) : pid \in StartedPids(events)}
      before(a, b) == a.created < b.created \/ (a.created = b.created /\ a.first < b.first)
  IN  (IF EnginePidOf(events) = None THEN <<>> ELSE <<EngineNode(events)>>)
        \o SetToSortSeq(children, before)

SpaceKey(node) == NodeKey(Identity("here", node.pid, node.start, node.role))

(* The verified edges: <<parent, child>>. *)
SpaceEdges(nodes) ==
  {<<SpaceKey(nodes[i]), SpaceKey(nodes[j])>> :
     <<i, j>> \in {p \in (DOMAIN nodes) \X (DOMAIN nodes) :
                     /\ nodes[p[1]].role = "caps-engine" /\ nodes[p[2]].role = "child"
                     /\ nodes[p[2]].parent # None /\ nodes[p[2]].parent = nodes[p[1]].pid}}

(* MARKER_TONES: the events that are marked at a node.  A failed wait is   *)
(* not among them.                                                         *)
MarkedTypes == {"process.started", "signal.received", "process.exited", "process.exec_error"}

Marked(events, node, types) ==
  SelectSeq(events, LAMBDA e : e.type \in types \cap MarkedTypes /\ e.pid = node.pid)

Span(events) ==
  LET taken == SelectSeq(events, LAMBDA e : e.type = "process.snapshot")
      last  == CursorOf(events[Len(events)], events)
  IN  IF taken = <<>> THEN last ELSE Largest({last, CursorOf(taken[Len(taken)], events)})

(* The last sample of a node up to a moment; a later one hides those after *)
(* it.                                                                     *)
VisualAt(events, node, t) ==
  FoldLeft(LAMBDA seen, e :
             IF seen.stop \/ CursorOf(e, events) > t THEN [seen EXCEPT !.stop = TRUE] ELSE [seen EXCEPT !.seq = e.seq],
           [stop |-> FALSE, seq |-> None], Snapshots(events, node.pid)).seq

(* How a node that has ended is shown: what is marked at it, then the      *)
(* verdict on the whole execution.                                         *)
EndedState(events, node) ==
  LET ends == Marked(events, node, {"process.exited", "process.exec_error"})
  IN  IF ends # <<>> /\ ends[Len(ends)].type = "process.exec_error" THEN "FAILED"
      ELSE IF Marked(events, node, {"signal.received"}) # <<>> THEN "SIGNALED"
      ELSE IF Terminal(events).type = "execution.timeout" THEN "TIMED_OUT"
      ELSE IF Terminal(events).type = "execution.failed" THEN "FAILED" ELSE "COMPLETED"

StateAt(events, node, t) ==
  IF t < node.created THEN "PENDING"
  ELSE IF node.ended # None /\ t >= node.ended THEN EndedState(events, node)
  ELSE IF node.role = "child" /\ VisualAt(events, node, t) = None THEN "STARTING" ELSE "RUNNING"

(* Mutant: no moment is the moment of the last sample. *)
NodeStateAt_LastSample(events, node, t) ==
  LET taken == SelectSeq(events, LAMBDA e : e.type = "process.snapshot")
  IN  StateAt(events, node, IF t # None THEN t
                            ELSE IF taken = <<>> THEN Span(events) ELSE CursorOf(taken[Len(taken)], events))

(* nodeStateAt *)
NodeStateAt(events, node, t) == StateAt(events, node, IF t = None THEN Span(events) ELSE t)

(* nodeStateAt, all of it: a node not there yet shows nothing, one that    *)
(* ended is settled, and the sample shown is the last one up to the        *)
(* moment, written as its index among the samples; 0 is none.              *)
IndexOfSample(samples, seq) == Only({k \in DOMAIN samples : samples[k].seq = seq})

NodeAt(events, node, t) ==
  LET at      == IF t = None THEN Span(events) ELSE t
      present == at >= node.created
      k       == IF present /\ node.pid # None
                 THEN IndexOfSample(Samples(events), VisualAt(events, node, at)) ELSE 0
  IN  [role |-> node.role, present |-> present, state |-> NodeStateAt(events, node, t), sample |-> k,
       age |-> IF k = 0 THEN None ELSE at - Samples(events)[k].t,
       terminal |-> present /\ node.ended # None /\ at >= node.ended]

------------------------------------------------------------------------------
(* The lenses: which one quantity sizes and lights the nodes. *)

(* lensRawMetric: the counter a lens shows the value of. *)
LensRaw(sample, x) ==
  LET known == SelectSeq(Tracks[x], LAMBDA m : sample.of[m] # None)
  IN  IF known = <<>> THEN None
      ELSE sample.of[FoldLeft(LAMBDA best, m : IF sample.of[m] > sample.of[best] THEN m ELSE best, known[1], known)]

(* LENS_SPECS: the one family of metrics each lens reads. *)
LensSpecs == [normal |-> "memory", cpu |-> "cpu", memory |-> "memory", io |-> "io"]

(* Radii in thousandths. *)
RadiusMin == 500
RadiusMax == 1900

(* A share in hundredths of the span between the radii. *)
Radius(share) ==
  LET r == RadiusMin + (share * (RadiusMax - RadiusMin)) \div 100
  IN  IF r < RadiusMin THEN RadiusMin ELSE IF r > RadiusMax THEN RadiusMax ELSE r

(* nodeRadius: logarithmic in the resident memory, in whole doublings of   *)
(* 1 MiB, of which twelve reach the largest radius.                        *)
NodeRadius(mib) ==
  IF mib = None \/ mib <= 0 THEN RadiusMin
  ELSE Radius((100 * Cardinality({k \in 1 .. 12 : 2 ^ k <= mib + 1})) \div 12)

(* lensValue: the share of the peak, if there is one. *)
LensValue(samples, at, lens) ==
  IF at.sample = 0 THEN None ELSE VisualState(samples, at.sample).level[LensSpecs[lens]]

(* radiusForMode: the CPU is a share of one core, the memory as above,     *)
(* anything else a share of its peak.                                      *)
RadiusForMode(samples, at, lens) ==
  LET value == LensValue(samples, at, lens)
  IN  IF at.role = "caps-engine" \/ at.sample = 0 THEN RadiusMin
      ELSE IF LensSpecs[lens] = "memory" THEN NodeRadius(samples[at.sample].of["rss"])
      ELSE IF lens = "cpu"
      THEN IF samples[at.sample].of["cpu"] = None THEN RadiusMin ELSE Radius(samples[at.sample].of["cpu"])
      ELSE IF value = None THEN RadiusMin ELSE Radius(value)

(* lensIntensity, cpuIntensity: what has ended no longer works. *)
LensIntensity(samples, at, lens) ==
  IF at.terminal \/ LensValue(samples, at, lens) = None THEN 0 ELSE LensValue(samples, at, lens)

CpuIntensity(samples, at) ==
  IF at.terminal \/ at.sample = 0 THEN 0
  ELSE LET cpu == samples[at.sample].of["cpu"] IN IF cpu = None THEN 0 ELSE IF cpu > 100 THEN 100 ELSE cpu

------------------------------------------------------------------------------
(* Markers and the ruler. *)

(* MARKER_TONES: the events that are marked, and how. *)
MarkerTones ==
  [t \in {"execution.created", "execution.started", "process.started", "redirection.opened"} |-> "cyan"]
  @@ [t \in {"redirection.failed", "signal.received", "execution.timeout"} |-> "amber"]
  @@ [t \in {"process.exited", "execution.completed"} |-> "green"]
  @@ [t \in {"process.exec_error", "execution.failed"} |-> "red"]

MarkerKind(type) ==
  CASE type = "signal.received" -> "signal" [] type = "process.started" -> "exec"
    [] type \in {"execution.created", "execution.started", "execution.completed", "execution.failed",
                 "execution.timeout"} -> "execution"
    [] OTHER -> "lifecycle"

(* buildMarkers: every marked event, at the node of its pid if it has one. *)
Markers(events, nodes) ==
  LET marked == SelectSeq(events, LAMBDA e : e.type \in DOMAIN MarkerTones)
      nodeOf(e) == {k \in DOMAIN nodes : e.pid # None /\ nodes[k].pid = e.pid}
  IN  [m \in DOMAIN marked |->
         [seq |-> marked[m].seq, tone |-> MarkerTones[marked[m].type], kind |-> MarkerKind(marked[m].type),
          t |-> CursorOf(marked[m], events), node |-> Largest(nodeOf(marked[m]) \cup {0})]]

(* rulerStep: the first step that needs at most eight labels, in ms. *)
RulerSteps == <<250, 500, 1000, 2000, 5000, 10000, 15000, 30000, 60000, 120000, 300000, 600000, 1800000, 3600000>>

RulerStep(span) ==
  LET fits == {k \in DOMAIN RulerSteps : span <= 8 * RulerSteps[k]}
  IN  IF fits = {} THEN RulerSteps[Len(RulerSteps)]
      ELSE RulerSteps[CHOOSE k \in fits : \A j \in fits : k <= j]

(* buildRuler: the ticks, up to half a step beyond the span. *)
Ruler(span) ==
  LET length == IF span < 1000 THEN 1000 ELSE span
      step   == RulerStep(length)
  IN  [step |-> step, ticks |-> {k * step : k \in 0 .. (length + step \div 2) \div step}]
=============================================================================
