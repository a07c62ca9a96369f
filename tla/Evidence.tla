------------------------------ MODULE Evidence ------------------------------
(***************************************************************************)
(* An execution while a reader watches it.  The engine forks the stages of *)
(* a line and reaps them in order; the gateway reads its lines, starts and *)
(* stops a sampler per process, and records both; the browser builds its   *)
(* index from the events it shows, which in replay is any prefix of the    *)
(* record, and keeps what the reader selected (store/investigation.ts).    *)
(* What each event is really about is kept beside the record.              *)
(***************************************************************************)
EXTENDS SpaceView

CONSTANT
  Plans    \* the executions looked at, records of
           \*   stages   how many stages the line has
           \*   load     what its samples read, one after the other: functions from
           \*            Metrics; their number bounds the samples
           \*   skews    bound: events read when the clock has not gone on
           \*   choices  bound: what the reader does

ASSUME PlansAssumption ==
  \A p \in Plans : p.stages \in Nat \ {0} /\ p.skews \in Nat /\ p.choices \in Nat

EnginePid == 1
Pid(i) == 10 + i

VARIABLES
  plan,       \* the execution
  boot,       \* the kernel publishes btime
  stage,      \* what became of the process of each stage
  image,      \* the program each process runs: 0 is the engine's own
  taken,      \* the stages whose pid another process has by now
  pending,    \* lines the engine has written and the gateway has not read
  sampling,   \* the stages whose sampler runs
  clock,      \* the wall clock of the gateway
  skews,      \* counts the times it stood still or was set back
  record,     \* the events recorded
  about,      \* about[k]: the stage event k is about, or None
  store,      \* the reader's selection
  chosen,     \* the process it was made for: a stage, TheEngine, or None
  choices     \* counts what the reader did

Stages == 1 .. plan.stages

engine == <<boot, stage, image, taken>>
reader == <<store, chosen, choices>>
time == <<clock, skews>>
vars == <<engine, pending, sampling, plan, time, record, about, reader>>

TheEngine == 0      \* in about and chosen

NoSelection == [session |-> "none", cursor |-> None, pinned |-> FALSE, source |-> "live",
                id |-> NoProcess, event |-> None]

Init ==
  /\ plan \in Plans
  /\ boot \in BOOLEAN
  /\ stage = [i \in Stages |-> "none"] /\ image = [i \in Stages |-> 0]
  /\ taken = {} /\ pending = <<>> /\ sampling = {}
  /\ clock = 0 /\ skews = 0
  /\ record = <<[seq |-> 0, type |-> "execution.created", session |-> "here", pid |-> None, at |-> 0]>>
  /\ about = <<None>>
  /\ store = NoSelection /\ chosen = None /\ choices = 0

------------------------------------------------------------------------------
(* The engine and its processes. *)

Unchanged_Gateway == UNCHANGED <<sampling, plan, time, record, about, reader>>

(* The stages are forked one after the other; nothing else of the line is  *)
(* written meanwhile.                                                      *)
Fork ==
  /\ \A i \in Stages : stage[i] = "none"
  /\ stage' = [i \in Stages |-> "forked"]
  /\ pending' = [i \in Stages |-> [type |-> "process.started", of |-> i]]
  /\ UNCHANGED <<boot, image, taken>> /\ Unchanged_Gateway

Exec(i) ==
  /\ stage[i] = "forked"
  /\ stage' = [stage EXCEPT ![i] = "running"] /\ image' = [image EXCEPT ![i] = i]
  /\ UNCHANGED <<boot, taken, pending>> /\ Unchanged_Gateway

(* A process ends: refused before exec, by itself after it, killed anyhow. *)
End(i) ==
  /\ stage[i] \in {"forked", "running"}
  /\ \E how \in {"killed", IF stage[i] = "forked" THEN "refused" ELSE "exited"} :
       stage' = [stage EXCEPT ![i] = how]
  /\ UNCHANGED <<boot, image, taken, pending>> /\ Unchanged_Gateway

(* The stages are reaped in order. *)
Reap(i) ==
  /\ stage[i] \in {"killed", "refused", "exited"}
  /\ \A j \in 1 .. i - 1 : stage[j] = "reaped"
  /\ stage' = [stage EXCEPT ![i] = "reaped"]
  /\ pending' = pending \o
       (CASE stage[i] = "refused" -> <<[type |-> "process.exec_error", of |-> i]>>
          [] stage[i] = "exited"  -> <<[type |-> "process.exited", of |-> i]>>
          [] stage[i] = "killed"  -> <<[type |-> "signal.received", of |-> i], [type |-> "process.exited", of |-> i]>>)
  /\ UNCHANGED <<boot, image, taken>> /\ Unchanged_Gateway

(* The kernel gives the pid of a reaped process to another one. *)
Reuse(i) ==
  /\ stage[i] = "reaped" /\ i \notin taken /\ i \in sampling
  /\ taken' = taken \cup {i}
  /\ UNCHANGED <<boot, stage, image, pending>> /\ Unchanged_Gateway

------------------------------------------------------------------------------
(* The gateway. *)

(* The time of an event read now: the clock goes on, stands still or is    *)
(* set back.                                                               *)
Passes(t) ==
  /\ t \in clock - 1 .. clock + 1 /\ clock' = t
  /\ skews' = IF t > clock THEN skews ELSE skews + 1
  /\ skews' <= plan.skews

Times == clock - 1 .. clock + 1

SamplesOf(i) == {k \in DOMAIN record : record[k].type = "process.snapshot" /\ about[k] = i}

LineEvent(seq, type, i, t) ==
  [seq |-> seq, type |-> type, session |-> "here", pid |-> Pid(i), at |-> t]

Total == Cardinality({k \in DOMAIN record : record[k].type = "process.snapshot"})

NoReading == [m \in Metrics |-> None]

(* A first sample has no rates, a process that has ended no memory. *)
Values(i, reading) ==
  [m \in Metrics |->
     IF m = "cpuTime" THEN Cardinality(SamplesOf(i))
     ELSE IF m = "rss" THEN (IF stage[i] \in {"forked", "running"} THEN reading["rss"] ELSE None)
     ELSE IF SamplesOf(i) = {} THEN None ELSE reading[m]]

(* The snapshot of stage i.  While the process is there, everything can be *)
(* read, and the start time is derived from btime, or else from the wall   *)
(* clock, which may have been set since.  When it has gone, only the pid   *)
(* asked for is recorded; of a stranger, nothing.                          *)
Snapshot(seq, i, t) ==
  LET there == stage[i] # "reaped"
  IN  [seq |-> seq, type |-> "process.snapshot", session |-> "here", pid |-> Pid(i), at |-> t,
       subject |-> IF i \in taken THEN None ELSE Pid(i),
       engine  |-> IF i \in taken THEN None ELSE EnginePid,
       start   |-> IF ~there THEN None ELSE IF boot THEN i ELSE i + skews,
       ppid    |-> IF there THEN EnginePid ELSE None,
       command |-> IF there THEN image[i] ELSE None,
       values  |-> IF there THEN Values(i, plan.load[Total + 1]) ELSE NoReading]

Recorded(events, of) == record' = record \o events /\ about' = about \o of

(* A start is recorded, and its process sampled for the first time at      *)
(* once; an end is recorded and stops the sampler.                         *)
Read ==
  /\ pending # <<>> /\ pending' = Tail(pending)
  /\ \E t \in Times :
       LET i == Head(pending).of
           line == LineEvent(Len(record), Head(pending).type, i, t)
       IN  /\ Passes(t)
           /\ IF line.type = "process.started" /\ Total < Len(plan.load)
              THEN /\ Recorded(<<line, Snapshot(Len(record) + 1, i, t)>>, <<i, i>>)
                   /\ sampling' = IF stage[i] = "reaped" THEN sampling ELSE sampling \cup {i}
              ELSE Recorded(<<line>>, <<i>>) /\ sampling' = sampling \ {i}
  /\ UNCHANGED <<engine, plan, reader>>

(* A sampler's timer. *)
Sample(i) ==
  /\ i \in sampling /\ Total < Len(plan.load)
  /\ \E t \in Times : Passes(t) /\ Recorded(<<Snapshot(Len(record), i, t)>>, <<i>>)
  /\ sampling' = IF stage[i] = "reaped" THEN sampling \ {i} ELSE sampling
  /\ UNCHANGED <<engine, pending, plan, reader>>

Over == pending = <<>> /\ sampling = {} /\ \A i \in Stages : stage[i] = "reaped"

Verdicts == {"execution.completed", "execution.failed", "execution.timeout", "execution.cancelled"}

Closed == record[Len(record)].type \in Verdicts

(* The execution is finalized; it has succeeded only if no process was     *)
(* refused or killed.                                                      *)
Finish ==
  /\ Over /\ ~Closed /\ choices = 0
  /\ \E t \in Times, verdict \in Verdicts :
       /\ verdict = "execution.completed" =>
            \A k \in DOMAIN record : record[k].type \notin {"process.exec_error", "signal.received"}
       /\ Passes(t)
       /\ Recorded(<<[seq |-> Len(record), type |-> verdict, session |-> "here", pid |-> None, at |-> t]>>, <<None>>)
  /\ UNCHANGED <<engine, pending, sampling, plan, reader>>

------------------------------------------------------------------------------
(* The reader.  A choice made while the record grows is one made in a      *)
(* replay of what there was, so the reader is let in once the execution is *)
(* over; the verdict is about no process and can be left out then.         *)

(* What may be on the screen: a replay step by step, or by time. *)
Shown == {Stepped(record, n) : n \in 1 .. Len(record)} \cup {Played(record, t) : t \in 0 .. clock}

(* adoptSession: another session's selection is forgotten. *)
Adopted(session) ==
  IF store.session = session THEN store ELSE [NoSelection EXCEPT !.session = session]

Chooses(selection, process) ==
  /\ Over /\ ~Closed /\ choices < plan.choices /\ choices' = choices + 1
  /\ store' = selection /\ chosen' = process
  /\ UNCHANGED <<engine, pending, sampling, plan, time, record, about>>

StageOf(id) == IF id.role = "caps-engine" THEN TheEngine ELSE id.pid - 10

(* selectEvidence: one write for what, which and when. *)
Selected(event, id, cursor) ==
  [Adopted("here") EXCEPT !.event = event, !.id = id, !.cursor = cursor, !.pinned = cursor # None,
     !.source = IF cursor = None THEN "live" ELSE IF @ = "replay" THEN "replay" ELSE "user"]

(* A node of what is shown: selectProcess, or with the time it was first   *)
(* seen.                                                                   *)
SelectNode ==
  \E events \in Shown : \E p \in ToSet(Processes(events)) :
    \/ Chooses([Adopted("here") EXCEPT !.id = p.id, !.event = None], StageOf(p.id))
    \/ Chooses(Selected(None, p.id, CursorFor(p.id, events, Processes(events))), StageOf(p.id))

SelectEvent ==
  \E events \in Shown :
    LET e == events[Len(events)]
    IN  Chooses(Selected(e.seq, EventIdentity(e, Processes(events)), CursorOf(e, events)), about[e.seq + 1])

(* The reader looks at another execution, one of whose processes has the   *)
(* same pid, and comes back.                                               *)
SelectElsewhere ==
  \E i \in Stages : \E start \in {None, i} :
    Chooses([Adopted("there") EXCEPT !.id = Identity("there", Pid(i), start, "child"), !.event = None], None)

OpenSession == store.session # "here" /\ Chooses(Adopted("here"), None)

(* moveCursor, by the reader or by the replay, and releaseCursor. *)
MoveCursor ==
  \/ \E t \in {CursorOf(e, record) : e \in ToSet(record)}, source \in {"user", "replay"} :
       Chooses([Adopted("here") EXCEPT !.cursor = t, !.pinned = TRUE, !.source = source],
               IF store.session = "here" THEN chosen ELSE None)
  \/ /\ store.session = "here" /\ store.pinned
     /\ Chooses([store EXCEPT !.cursor = None, !.pinned = FALSE, !.source = "live"], chosen)

(* clearEvent, clearAll: a clear that names another session does nothing. *)
Clear ==
  /\ store.session = "here"
  /\ \/ Chooses([store EXCEPT !.event = None], IF store.id = NoProcess THEN None ELSE chosen)
     \/ Chooses([store EXCEPT !.event = None, !.id = NoProcess], None)

Next ==
  \/ Fork
  \/ \E i \in Stages : Exec(i) \/ End(i) \/ Reap(i) \/ Reuse(i) \/ Sample(i)
  \/ Read \/ Finish
  \/ SelectNode \/ SelectEvent \/ SelectElsewhere \/ OpenSession \/ MoveCursor \/ Clear

Spec == Init /\ [][Next]_vars
=============================================================================
