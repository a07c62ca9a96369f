------------------------- MODULE EvidenceCorrelation -------------------------
(***************************************************************************)
(* How the frontend tells the processes of a record apart                  *)
(* (lib/evidenceCorrelation.ts): the index of observed processes built     *)
(* from the events, and what a selection (an event, a process, a moment)   *)
(* resolves to in it.  The node map of the code holds the one process with *)
(* a given key, and the role-and-pid map every process with a given role   *)
(* and pid in order; both are read off the list of processes here.         *)
(***************************************************************************)
EXTENDS Integers, SequencesExt

None == -1

NoProcess == [session |-> "none", pid |-> None, start |-> None, role |-> "none"]

Identity(session, pid, start, role) == [session |-> session, pid |-> pid, start |-> start, role |-> role]

(* nodeKeyFor: an identity without its session. *)
NodeKey(id) == <<id.role, id.pid, id.start>>

(* Mutant: a start time that is not known differs from one that is. *)
MatchConfidence_Strict(a, b) ==
  IF a = NoProcess \/ b = NoProcess \/ a.session # b.session \/ a.pid # b.pid THEN "none"
  ELSE IF a.start # b.start THEN "none" ELSE "session+pid+start"

(* Which of two identities agree, and how surely.  The start time decides  *)
(* only when both have one.                                                *)
MatchConfidence(a, b) ==
  IF a = NoProcess \/ b = NoProcess \/ a.session # b.session \/ a.pid # b.pid THEN "none"
  ELSE IF a.start = None \/ b.start = None THEN "session+pid"
  ELSE IF a.start = b.start THEN "session+pid+start" ELSE "none"

------------------------------------------------------------------------------
(* The processes of a record.  Numbers of events stand for their times.    *)

NewProcess(id, e) ==
  [id |-> id, first |-> e.seq, firstType |-> e.type, firstSample |-> None, samples |-> 0,
   end |-> None, ppid |-> None, command |-> None, exec |-> None, signal |-> None]

Keyed(procs, key) == {i \in DOMAIN procs : NodeKey(procs[i].id) = key}

OfPid(procs, role, pid) == {i \in DOMAIN procs : procs[i].id.role = role /\ procs[i].id.pid = pid}

(* The one element of a set, or 0: a pid that two processes had names none *)
(* of them.                                                                *)
Only(S) == IF Cardinality(S) = 1 THEN CHOOSE i \in S : TRUE ELSE 0

Child(procs, pid) == Only(OfPid(procs, "child", pid))

(* touch: the process of a key, created by the first event about it. *)
Touch(procs, id, e) ==
  IF Keyed(procs, NodeKey(id)) # {} THEN procs ELSE Append(procs, NewProcess(id, e))

Subject(e) == IF e.subject # None THEN e.subject ELSE e.pid

Role(e) == IF e.engine # None /\ Subject(e) = e.engine THEN "caps-engine" ELSE "child"

(* Mutant: a sample whose start time is new is always a new process. *)
WithSample_NoPromotion(procs, e) ==
  LET exact == Keyed(procs, <<Role(e), Subject(e), e.start>>)
  IN  IF exact # {} THEN [procs |-> procs, at |-> Only(exact)]
      ELSE [procs |-> Append(procs, NewProcess(Identity(e.session, Subject(e), e.start, Role(e)), e)),
            at    |-> Len(procs) + 1]

(* recordForSnapshot: the process a sample is of.  One whose start time    *)
(* was unknown takes the first that is observed.                           *)
WithSample(procs, e) ==
  LET exact       == Keyed(procs, <<Role(e), Subject(e), e.start>>)
      provisional == Keyed(procs, <<Role(e), Subject(e), None>>)
  IN  IF e.start = None THEN [procs |-> procs, at |-> Only(OfPid(procs, Role(e), Subject(e)))]
      ELSE IF exact # {} THEN [procs |-> procs, at |-> Only(exact)]
      ELSE IF provisional # {}
      THEN [procs |-> [procs EXCEPT ![Only(provisional)].id.start = e.start], at |-> Only(provisional)]
      ELSE [procs |-> Append(procs, NewProcess(Identity(e.session, Subject(e), e.start, Role(e)), e)),
            at    |-> Len(procs) + 1]

OrElse(x, y) == IF x = None THEN y ELSE x

(* What a sample adds to its process. *)
Sampled(p, e) ==
  [p EXCEPT !.ppid = OrElse(e.ppid, @), !.command = OrElse(e.command, @),
            !.exec = IF e.command = None THEN @ ELSE OrElse(@, e.seq),
            !.samples = @ + 1, !.firstSample = OrElse(@, e.seq)]

ObserveSample(procs, e) ==
  LET found == WithSample(procs, e)
  IN  IF found.at = 0 THEN found.procs
      ELSE [found.procs EXCEPT ![found.at] = Sampled(@, e)]

ObserveLine(procs, e) ==
  LET i == Child(procs, e.pid)
  IN  IF i = 0 THEN procs
      ELSE CASE e.type = "signal.received" -> [procs EXCEPT ![i].signal = OrElse(@, e.seq)]
             [] e.type \in {"process.exited", "process.exec_error", "process.wait_failed"} ->
                  [procs EXCEPT ![i].end = e.seq]
             [] OTHER -> procs

(* buildEvidenceIndex: the children that were started, then the engine of  *)
(* the samples, then every event in turn.                                  *)
Processes(events) ==
  LET started(procs, e) ==
        IF e.type # "process.started" \/ e.pid = None THEN procs
        ELSE Touch(procs, Identity(e.session, e.pid, None, "child"), e)
      engines(procs, e) ==
        IF e.type # "process.snapshot" \/ e.engine = None THEN procs
        ELSE Touch(procs, Identity(e.session, e.engine, None, "caps-engine"), e)
      observed(procs, e) ==
        IF e.type # "process.snapshot" THEN ObserveLine(procs, e)
        ELSE IF Subject(e) = None THEN procs ELSE ObserveSample(procs, e)
  IN  FoldLeft(observed, FoldLeft(engines, FoldLeft(started, <<>>, events), events), events)

(* The start times observed of a pid; more than one is a collision. *)
StartTimes(events, pid) ==
  {e.start : e \in {f \in ToSet(events) : f.type = "process.snapshot" /\ Subject(f) = pid}} \ {None}

Collisions(events) ==
  {pid \in {Subject(e) : e \in {f \in ToSet(events) : f.type = "process.snapshot"}} :
     Cardinality(StartTimes(events, pid)) > 1}

------------------------------------------------------------------------------
(* Reading the index. *)

(* The process an identity names: by its start time where it has one,      *)
(* otherwise by role and pid when that leaves no doubt.                    *)
RecordFor(id, procs) ==
  IF id = NoProcess THEN 0
  ELSE IF id.start # None THEN Only(Keyed(procs, NodeKey(id)))
  ELSE Only(OfPid(procs, id.role, id.pid))

IdentityAt(i, procs) == IF i = 0 THEN NoProcess ELSE procs[i].id

LifecycleEvents ==
  {"process.started", "process.exited", "process.exec_error", "process.wait_failed", "signal.received"}

(* eventIdentity: the process an event is about, if it is about one. *)
EventIdentity(e, procs) ==
  IF e.type = "process.snapshot" /\ Subject(e) # None
  THEN IF e.start # None THEN IdentityAt(Only(Keyed(procs, <<Role(e), Subject(e), e.start>>)), procs)
       ELSE IdentityAt(Only(OfPid(procs, Role(e), Subject(e))), procs)
  ELSE IF e.type \in LifecycleEvents /\ e.pid # None THEN IdentityAt(Child(procs, e.pid), procs)
  ELSE NoProcess

(* eventCursorMs: the clock may have been set back since the record began. *)
CursorOf(e, events) == IF e.at < events[1].at THEN 0 ELSE e.at - events[1].at

EventAt(events, seq) ==
  LET found == {e \in ToSet(events) : e.seq = seq} IN CHOOSE e \in found : TRUE

Has(events, seq) == \E e \in ToSet(events) : e.seq = seq

(* nearestEventForIdentity *)
Nearest(id, events, procs, at) ==
  LET mine   == SelectSeq(events, LAMBDA e : MatchConfidence(EventIdentity(e, procs), id) # "none")
      before == SelectSeq(mine, LAMBDA e : at = None \/ CursorOf(e, events) <= at)
  IN  IF RecordFor(id, procs) = 0 \/ mine = <<>> THEN None
      ELSE IF before = <<>> THEN mine[1].seq ELSE before[Len(before)].seq

(* cursorMsForIdentity: where selecting a process takes the reader. *)
CursorFor(id, events, procs) ==
  LET i == RecordFor(id, procs)
  IN  IF i = 0 THEN None
      ELSE CursorOf(EventAt(events, OrElse(procs[i].firstSample, procs[i].first)), events)

ExecTransition(id, procs) == IF RecordFor(id, procs) = 0 THEN None ELSE procs[RecordFor(id, procs)].exec

IdentityMatchesSample(id, e) ==
  e.subject = id.pid /\ (id.start = None \/ e.start = None \/ id.start = e.start)

(* sampleRangeForIdentity: the samples of a pid, when the outermost two    *)
(* are both of this process.                                               *)
SampleRange(id, events) ==
  LET mine == SelectSeq(events, LAMBDA e : e.type = "process.snapshot" /\ e.subject = id.pid)
  IN  IF mine = <<>> THEN <<>>
      ELSE IF ~IdentityMatchesSample(id, mine[1]) \/ ~IdentityMatchesSample(id, mine[Len(mine)]) THEN <<>>
      ELSE <<mine[1].seq, mine[Len(mine)].seq>>

------------------------------------------------------------------------------
(* resolveSelection.  A selection is [session, cursor, id, event]. *)

(* The identity that was selected, unless it is of another session, and    *)
(* else the one of the selected event.                                     *)
Resolved(selection, events, procs) ==
  LET kept == IF selection.id # NoProcess /\ selection.id.session # selection.session
              THEN NoProcess ELSE selection.id
  IN  IF kept = NoProcess /\ selection.event # None /\ Has(events, selection.event)
      THEN EventIdentity(EventAt(events, selection.event), procs)
      ELSE kept

(* The confidence shown: against the event where there is one and it       *)
(* agrees, against the index otherwise.                                    *)
Confidence(selection, id, events, procs) ==
  LET fromEvent == IF selection.event # None /\ Has(events, selection.event)
                   THEN EventIdentity(EventAt(events, selection.event), procs) ELSE NoProcess
      against   == MatchConfidence(id, IdentityAt(RecordFor(id, procs), procs))
  IN  IF MatchConfidence(id, fromEvent) # "none" /\ id = selection.id
      THEN MatchConfidence(id, fromEvent) ELSE against

(* The processes an edge joins to process i: a child and its engine. *)
Related(i, procs) ==
  IF i = 0 THEN {}
  ELSE {j \in DOMAIN procs \ {i} :
          \/ procs[i].id.role = "caps-engine" /\ procs[j].id.role = "child" /\ procs[j].ppid = procs[i].id.pid
          \/ procs[j].id.role = "caps-engine" /\ procs[i].id.role = "child" /\ procs[i].ppid = procs[j].id.pid}

Cursor(selection, id, events, procs) ==
  LET here == IF selection.event # None /\ Has(events, selection.event)
              THEN CursorOf(EventAt(events, selection.event), events) ELSE CursorFor(id, events, procs)
  IN  OrElse(here, selection.cursor)

ResolveSelection(selection, events, procs) ==
  LET id == Resolved(selection, events, procs)
  IN  [id |-> id, at |-> RecordFor(id, procs), confidence |-> Confidence(selection, id, events, procs),
       event |-> IF Has(events, selection.event) THEN selection.event ELSE None,
       related |-> Related(RecordFor(id, procs), procs), cursor |-> Cursor(selection, id, events, procs)]

(* describeSelection: an event is "exec" when it is where some process's   *)
(* image was first seen (isExecEvent).                                     *)
Kind(resolution, procs) ==
  IF resolution.event # None
  THEN IF \E i \in DOMAIN procs : procs[i].exec = resolution.event THEN "exec" ELSE "event"
  ELSE IF resolution.id # NoProcess THEN "process" ELSE "none"
=============================================================================
