------------------------------ MODULE Gateway ------------------------------
(***************************************************************************)
(* One gateway process running executions: the runner and its registry,    *)
(* the SQLite rows and events it writes, the engine and the program it     *)
(* spawns for each session, the event streams browsers hold open, and the  *)
(* shutdown, crash and boot of the gateway itself.                         *)
(*                                                                         *)
(* Node runs one callback at a time, so each callback is one action.  What *)
(* interleaves is everything outside that thread: the engine, the program, *)
(* the stderr pipe between them and the gateway, the timers, the HTTP      *)
(* requests, and a crash, which may fall between any two callbacks.        *)
(***************************************************************************)
EXTENDS CanonicalEvents, FiniteSets, Sequences

CONSTANTS
  Sessions,       \* session ids; each is used at most once
  MaxConcurrent,  \* config.maxConcurrent
  Clients,        \* browsers that follow one session over SSE
  Dashboards,     \* open global streams (/api/live/stream, /api/system/stream)
  Disturbances,   \* which of AllDisturbances may happen
  MaxFaults,      \* bound: steps in which a database write fails
  MaxBoots,       \* bound: how often the gateway is started again
  MaxSeq          \* bound: no periodic telemetry sample from this number on

AllDisturbances == {"crash", "delete", "holder", "refuse", "shutdown", "sweep", "terminate", "waitfail"}

ASSUME GatewayAssumption ==
  /\ MaxConcurrent \in Nat \ {0}
  /\ MaxFaults \in Nat
  /\ MaxBoots \in Nat
  /\ MaxSeq \in Nat
  /\ Disturbances \subseteq AllDisturbances

VARIABLES
  gw,          \* phase of the gateway process
  awaited,     \* sessions whose escalation the shutdown is waiting for
  row,         \* sessions.status of each session, in the database
  log,         \* the events table: [seq, type] entries of each session
  registry,    \* sessions in ExecutionRegistry
  open,        \* sessions whose ActiveSession exists and is not finalized
  nextSeq,     \* ActiveSession.nextSeq
  active,      \* the rest of the ActiveSession record
  engine,      \* the caps process of each session
  prog,        \* the program the engine forked
  killed,      \* a SIGKILL was delivered to the program
  held,        \* a descendant of the program still holds stderr open
  pipe,        \* monitor lines written and not yet read by the gateway
  client,      \* the browsers' streams
  dashboards,  \* open global streams
  faults,      \* steps with a failed write so far
  boots        \* restarts so far

db      == <<row, log>>
memory  == <<registry, open, nextSeq, active>>
os      == <<engine, prog, killed, held, pipe>>
control == <<gw, awaited, dashboards, boots>>
vars    == <<gw, awaited, row, log, registry, open, nextSeq, active, engine, prog,
             killed, held, pipe, client, dashboards, faults, boots>>

(* A row of the events table. *)
Entry == [seq : Nat, type : EventTypes]

Event(n, type) == [seq |-> n, type |-> type]

ActiveSession ==
  [state : {"RUNNING", "TIMED_OUT"}, timedOut : BOOLEAN, terminateRequested : BOOLEAN,
   identity : BOOLEAN, sampling : BOOLEAN, escalation : {"none", "pending"},
   evidence : Evidence]

NoActive ==
  [state              |-> "RUNNING",   \* ActiveSession.state
   timedOut           |-> FALSE,
   terminateRequested |-> FALSE,
   identity           |-> FALSE,       \* start ticks of the program were captured
   sampling           |-> FALSE,       \* a telemetry loop runs for the program
   escalation         |-> "none",      \* "pending": a SIGKILL timer is armed
   evidence           |-> NoEvidence]

NoStream == [watch |-> "nobody", live |-> FALSE, got |-> {}]

Init ==
  /\ gw = "up"
  /\ awaited = {}
  /\ row = [s \in Sessions |-> "NONE"]
  /\ log = [s \in Sessions |-> {}]
  /\ registry = {}
  /\ open = {}
  /\ nextSeq = [s \in Sessions |-> 0]
  /\ active = [s \in Sessions |-> NoActive]
  /\ engine = [s \in Sessions |-> "none"]
  /\ prog = [s \in Sessions |-> "none"]
  /\ killed = [s \in Sessions |-> FALSE]
  /\ held = [s \in Sessions |-> FALSE]
  /\ pipe = [s \in Sessions |-> <<>>]
  /\ client = [c \in Clients |-> NoStream]
  /\ dashboards = {}
  /\ faults = 0
  /\ boots = 0

-----------------------------------------------------------------------------
(* Building blocks. *)

RowExists(s) == row[s] \notin {"NONE", "DELETED"}

(* The gateway process runs, and so do its callbacks. *)
Running == gw # "down"

(* Routes answer until app.close(): a shutdown still accepts requests      *)
(* while it waits for the escalations.                                     *)
Serving == gw \in {"up", "draining"}

(* registry.hasCapacity(): a session in a terminal state does not count.   *)
Occupying == {s \in registry : active[s].state \notin TerminalStatuses}
HasCapacity == Cardinality(Occupying) < MaxConcurrent

(* The database accepts an event of a row that exists (foreign key), under *)
(* a number no other event of the session has (unique constraint).         *)
Accepts(s, e) == RowExists(s) /\ \A f \in log[s] : f.seq # e.seq

(* Of several writes that the database would accept, all are done, or some *)
(* fail: the one way a step meets a failing disk.                          *)
Written(done, accepted) ==
  \/ done = accepted /\ faults' = faults
  \/ done # accepted /\ faults < MaxFaults /\ faults' = faults + 1

(* Mutant: a terminal event does not end the streams it is sent to. *)
Persist_NeverEnds(stored) ==
  /\ log' = [s \in Sessions |-> log[s] \cup stored[s]]
  /\ client' = [c \in Clients |->
       IF client[c].live
       THEN [client[c] EXCEPT !.got = @ \cup {e.seq : e \in stored[client[c].watch]}]
       ELSE client[c]]

(* Events just stored, per session, reach the table and the bus in that    *)
(* order; a session's stream takes each of them and ends with a terminal   *)
(* one.                                                                    *)
Persist(stored) ==
  /\ log' = [s \in Sessions |-> log[s] \cup stored[s]]
  /\ client' = [c \in Clients |->
       IF client[c].live
       THEN LET new == stored[client[c].watch]
            IN  [client[c] EXCEPT !.got = @ \cup {e.seq : e \in new},
                                  !.live = \A e \in new : e.type \notin TerminalEvents]
       ELSE client[c]]

Only(s, events) == [t \in Sessions |-> IF t = s THEN events ELSE {}]

(* emit(): an event that could not be stored is not published either.      *)
Emit(s, sent) ==
  \E stored \in SUBSET {e \in sent : Accepts(s, e)} :
    /\ Written(stored, {e \in sent : Accepts(s, e)})
    /\ Persist(Only(s, stored))

(* The program can be signalled: its identity was captured, and the engine *)
(* has not reaped it, so /proc still shows the captured start ticks.       *)
Signalable(s) == active[s].identity /\ engine[s] = "running"

-----------------------------------------------------------------------------
(* Starting an execution. *)

Created == Event(0, "execution.created")

(* Mutants: both first events are counted twice; the session is spawned    *)
(* but not registered.                                                     *)
Register_Skips(s) ==
  registry' = registry \cup {s} /\ open' = open \cup {s} /\ nextSeq' = [nextSeq EXCEPT ![s] = 3]

Register_Forgets(s) ==
  registry' = registry /\ open' = open \cup {s} /\ nextSeq' = [nextSeq EXCEPT ![s] = 2]

(* registry.add(), and the counter after the two first events. *)
Register(s) ==
  /\ registry' = registry \cup {s}
  /\ open' = open \cup {s}
  /\ nextSeq' = [nextSeq EXCEPT ![s] = 2]

(* start(): the row and its first event are one transaction (when it fails *)
(* nothing is kept), then spawnFor() registers the session, announces      *)
(* execution.started and arms the timer.                                   *)
Admit(s) ==
  /\ Serving /\ HasCapacity /\ row[s] = "NONE"
  /\ row' = [row EXCEPT ![s] = "CREATED"]
  /\ \E kept \in SUBSET {Event(1, "execution.started")} :
       /\ Written(kept, {Event(1, "execution.started")})
       /\ Persist(Only(s, {Created} \cup kept))
  /\ Register(s)
  /\ engine' = [engine EXCEPT ![s] = "launching"]
  /\ UNCHANGED <<active, prog, killed, held, pipe, control>>

(* A spawn that throws, or a thermal refusal: failBeforeStart() finalizes  *)
(* the row and then inserts the terminal event, each on its own.           *)
RefuseStart(s) ==
  /\ "refuse" \in Disturbances
  /\ Serving /\ HasCapacity /\ row[s] = "NONE"
  /\ row' = [row EXCEPT ![s] = "FAILED"]
  /\ \E kept \in SUBSET {Event(1, "execution.failed")} :
       /\ Written(kept, {Event(1, "execution.failed")})
       /\ Persist(Only(s, {Created} \cup kept))
  /\ UNCHANGED <<memory, os, control>>

-----------------------------------------------------------------------------
(* Endings. *)

(* finalizeFailed(): the row first, then the event through emit().         *)
FinalizeFailed(s) ==
  /\ row' = IF RowExists(s) THEN [row EXCEPT ![s] = "FAILED"] ELSE row
  /\ Emit(s, {Event(nextSeq[s], "execution.failed")})
  /\ nextSeq' = [nextSeq EXCEPT ![s] = @ + 1]
  /\ open' = open \ {s}
  /\ registry' = registry \ {s}
  /\ active' = [active EXCEPT ![s].sampling = FALSE]

(* child 'error': the caps executable could not be spawned.                *)
SpawnError(s) ==
  /\ "refuse" \in Disturbances
  /\ Running /\ engine[s] = "launching" /\ s \in open
  /\ FinalizeFailed(s)
  /\ engine' = [engine EXCEPT ![s] = "done"]
  /\ UNCHANGED <<prog, killed, held, pipe, control>>

Verdict(s) == DecideStatus(active[s].timedOut, active[s].terminateRequested, active[s].evidence)

(* finalize(): row, output and terminal event are one transaction; when it *)
(* fails the session still leaves the registry and nothing is published.   *)
Finalize(s) ==
  /\ LET final    == Event(nextSeq[s], FinalType(Verdict(s)))
         accepted == {e \in {final} : Accepts(s, e)}
     IN  \E stored \in SUBSET accepted :
           /\ Written(stored, accepted)
           /\ Persist(Only(s, stored))
           /\ row' = IF stored = {} THEN row ELSE [row EXCEPT ![s] = Verdict(s)]
           /\ nextSeq' = [nextSeq EXCEPT ![s] = @ + IF stored = {} THEN 2 ELSE 1]
  /\ open' = open \ {s}
  /\ registry' = registry \ {s}
  /\ active' = [active EXCEPT ![s].sampling = FALSE]

(* The engine has exited and stderr is at its end. *)
StreamAtEnd(s) == engine[s] = "done" /\ pipe[s] = <<>> /\ ~held[s]

(* Mutant: finalize() without its check of active.finalized. *)
Close_Again(s) == Running /\ StreamAtEnd(s) /\ Finalize(s) /\ UNCHANGED <<os, control>>

(* child 'close'. *)
Close(s) == Running /\ StreamAtEnd(s) /\ s \in open /\ Finalize(s) /\ UNCHANGED <<os, control>>

-----------------------------------------------------------------------------
(* Observing an execution. *)

EndOfProcess ==
  {"process.exited", "process.exec_error", "process.wait_failed", "process.launch_failed"}

(* Mutant: the report of an end leaves the telemetry loop running. *)
Observed_KeepsSampling(a, line, alive) ==
  LET starts == line.type = "process.started"
  IN  [a EXCEPT
        !.evidence = Observe(@, line),
        !.state    = IF starts THEN "RUNNING" ELSE @,
        !.identity = IF starts THEN alive ELSE @,
        !.sampling = IF starts THEN alive ELSE @]

(* observe(): a start captures the identity /proc still shows and starts a *)
(* telemetry loop; an end of the process stops the loop.                   *)
Observed(a, line, alive) ==
  LET starts == line.type = "process.started"
  IN  [a EXCEPT
        !.evidence = Observe(@, line),
        !.state    = IF starts THEN "RUNNING" ELSE @,
        !.identity = IF starts THEN alive ELSE @,
        !.sampling = IF starts THEN alive ELSE @ /\ line.type \notin EndOfProcess]

(* The line at hand also starts a telemetry loop. *)
StartsLoop(s) == s \in registry /\ Head(pipe[s]).type = "process.started"

(* Mutant: the first sample does not advance the counter. *)
NumbersUsed_One(s) == IF s \in registry THEN 1 ELSE 0

(* How far the line at hand advances the counter: emit() leaves it alone   *)
(* for a session that has left the registry.                               *)
NumbersUsed(s) == IF s \notin registry THEN 0 ELSE IF StartsLoop(s) THEN 2 ELSE 1

(* onStderr(), one protocol line: emit() and then observe().  Starting the *)
(* telemetry loop takes its first sample at once.  observe() does nothing  *)
(* for a session that has left the registry.                               *)
DeliverLine(s) ==
  /\ Running /\ pipe[s] # <<>>
  /\ Emit(s, {Event(nextSeq[s], Head(pipe[s]).type)} \cup
             (IF StartsLoop(s) THEN {Event(nextSeq[s] + 1, "process.snapshot")} ELSE {}))
  /\ nextSeq' = [nextSeq EXCEPT ![s] = @ + NumbersUsed(s)]
  /\ active' = IF s \in registry
               THEN [active EXCEPT ![s] = Observed(@, Head(pipe[s]), engine[s] = "running")]
               ELSE active
  /\ pipe' = [pipe EXCEPT ![s] = Tail(@)]
  /\ UNCHANGED <<row, registry, open, engine, prog, killed, held, control>>

(* Mutant: a sample is stored under a number that stays free. *)
Sample_SameNumber(s) ==
  /\ Running /\ s \in registry /\ active[s].sampling
  /\ nextSeq[s] < MaxSeq
  /\ Emit(s, {Event(nextSeq[s], "process.snapshot")})
  /\ active' = [active EXCEPT ![s].sampling = engine[s] = "running"]
  /\ UNCHANGED <<row, nextSeq, registry, open, os, control>>

(* A periodic telemetry sample.  A program that has gone is reported once  *)
(* as unavailable, and its loop stops.                                     *)
Sample(s) ==
  /\ Running /\ s \in registry /\ active[s].sampling
  /\ nextSeq[s] < MaxSeq
  /\ Emit(s, {Event(nextSeq[s], "process.snapshot")})
  /\ nextSeq' = [nextSeq EXCEPT ![s] = @ + 1]
  /\ active' = [active EXCEPT ![s].sampling = engine[s] = "running"]
  /\ UNCHANGED <<row, registry, open, os, control>>

-----------------------------------------------------------------------------
(* Stopping an execution. *)

(* Mutant: the timeout announces itself, as an earlier version did.        *)
Timeout_Announces(s) ==
  /\ Running /\ s \in registry /\ ~active[s].timedOut
  /\ active' = [active EXCEPT ![s].timedOut = TRUE, ![s].state = "TIMED_OUT"]
  /\ Emit(s, {Event(nextSeq[s], "execution.timeout")})
  /\ nextSeq' = [nextSeq EXCEPT ![s] = @ + 1]
  /\ UNCHANGED <<row, registry, open, os, control>>

(* handleTimeout(): the timer is armed until it fires or the session       *)
(* leaves the registry.  SIGTERM goes to a program that can be signalled,  *)
(* and only then is a SIGKILL armed.                                       *)
Timeout(s) ==
  /\ Running /\ s \in registry /\ ~active[s].timedOut
  /\ active' = [active EXCEPT
       ![s].timedOut = TRUE,
       ![s].state = "TIMED_OUT",
       ![s].escalation = IF Signalable(s) THEN "pending" ELSE @]
  /\ UNCHANGED <<db, registry, open, nextSeq, os, client, faults, control>>

(* POST terminate: refused for a session in a terminal state; the caller's *)
(* signal may be SIGKILL itself.                                           *)
Terminate(s) ==
  /\ "terminate" \in Disturbances
  /\ Serving /\ s \in Occupying /\ Signalable(s)
  /\ active' = [active EXCEPT ![s].terminateRequested = TRUE, ![s].escalation = "pending"]
  /\ \E kill \in BOOLEAN : killed' = [killed EXCEPT ![s] = @ \/ (kill /\ prog[s] = "running")]
  /\ UNCHANGED <<db, registry, open, nextSeq, engine, prog, held, pipe, client, faults, control>>

(* Mutant: the escalation finds no identity to check and declines. *)
Escalated_Never(s) == killed

(* SIGKILL reaches the program if the identity still matches. *)
Escalated(s) == [killed EXCEPT ![s] = @ \/ (Signalable(s) /\ prog[s] = "running")]

(* The grace period is over: SIGKILL, if the identity still matches.  The  *)
(* timer outlives the session's place in the registry.                     *)
Escalate(s) ==
  /\ Running /\ active[s].escalation = "pending"
  /\ active' = [active EXCEPT ![s].escalation = "none"]
  /\ killed' = Escalated(s)
  /\ awaited' = awaited \ {s}
  /\ UNCHANGED <<db, registry, open, nextSeq, engine, prog, held, pipe, client, faults,
                 gw, dashboards, boots>>

-----------------------------------------------------------------------------
(* Housekeeping requests and timers. *)

(* registry.sweep(): the engine has exited and nothing was read for two    *)
(* minutes, which takes a descendant that keeps stderr open.               *)
Sweep(s) ==
  /\ "sweep" \in Disturbances
  /\ gw = "up" /\ s \in registry /\ engine[s] = "done" /\ pipe[s] = <<>> /\ held[s]
  /\ registry' = registry \ {s}
  /\ UNCHANGED <<db, open, nextSeq, active, os, client, faults, control>>

(* DELETE /api/sessions/:id: refused only while the registry shows the     *)
(* session in a state that is not terminal.                                *)
Delete(s) ==
  /\ "delete" \in Disturbances
  /\ Serving /\ RowExists(s) /\ s \notin Occupying
  /\ row' = [row EXCEPT ![s] = "DELETED"]
  /\ log' = [log EXCEPT ![s] = {}]
  /\ UNCHANGED <<memory, os, client, faults, control>>

-----------------------------------------------------------------------------
(* The engine and its program (one command; pipelines are modelled in      *)
(* PipelineEngine).  An orphan runs on after its gateway has died, and     *)
(* nobody reads what it writes.                                            *)

Summary == Line("session.summary", "none")

(* What the gateway will read of lines written now. *)
Reported(s, lines) ==
  pipe' = IF engine[s] = "orphan" THEN pipe ELSE [pipe EXCEPT ![s] = @ \o lines]

(* fork() succeeds: PROCESS_STARTED is written before the engine knows     *)
(* whether the child will reach its program ("noexec": it will not).       *)
EngineFork(s) ==
  /\ engine[s] \in {"launching", "orphan"} /\ prog[s] = "none"
  /\ \E child \in {"running", "noexec"} : prog' = [prog EXCEPT ![s] = child]
  /\ engine' = [engine EXCEPT ![s] = IF @ = "orphan" THEN @ ELSE "running"]
  /\ Reported(s, <<Line("process.started", "none")>>)
  /\ UNCHANGED <<db, memory, killed, held, client, faults, control>>

(* A redirection that cannot be opened, or a fork() that fails: no process *)
(* is started.                                                             *)
EngineRefuse(s) ==
  /\ engine[s] = "launching"
  /\ \E line \in {Line("redirection.failed", "none"), Line("process.launch_failed", "LAUNCH_FAILED")} :
       Reported(s, <<line, Summary>>)
  /\ engine' = [engine EXCEPT ![s] = "done"]
  /\ UNCHANGED <<db, memory, prog, killed, held, client, faults, control>>

(* The program ends by itself, or by a signal it did not catch; it may     *)
(* leave a descendant behind that keeps stderr open.                       *)
ProgramEnds(s) ==
  /\ prog[s] = "running"
  /\ \E how \in {"ok", "failed", "signaled"} : prog' = [prog EXCEPT ![s] = how]
  /\ \E left \in (IF "holder" \in Disturbances THEN BOOLEAN ELSE {FALSE}) :
       held' = [held EXCEPT ![s] = left]
  /\ UNCHANGED <<db, memory, engine, killed, pipe, client, faults, control>>

KillTakesEffect(s) ==
  /\ prog[s] = "running" /\ killed[s]
  /\ prog' = [prog EXCEPT ![s] = "signaled"]
  /\ UNCHANGED <<db, memory, engine, killed, held, pipe, client, faults, control>>

HolderEnds(s) ==
  /\ held[s]
  /\ held' = [held EXCEPT ![s] = FALSE]
  /\ UNCHANGED <<db, memory, engine, prog, killed, pipe, client, faults, control>>

(* What the engine writes about a process it has waited for. *)
ExitLines(how) ==
  CASE how = "ok"       -> <<Line("process.exited", "COMPLETED")>>
    [] how = "failed"   -> <<Line("process.exited", "EXITED")>>
    [] how = "signaled" -> <<Line("signal.received", "SIGNALED"), Line("process.exited", "SIGNALED")>>
    [] how = "noexec"   -> <<Line("process.exec_error", "EXEC_FAILED")>>
    [] how = "unknown"  -> <<Line("process.wait_failed", "WAIT_FAILED")>>

(* waitpid() returns, or fails for good; the engine reports and exits.     *)
EngineReap(s) ==
  /\ engine[s] = "running" /\ prog[s] \notin {"none", "running"}
  /\ \E how \in {prog[s]} \cup (IF "waitfail" \in Disturbances THEN {"unknown"} ELSE {}) :
       Reported(s, Append(ExitLines(how), Summary))
  /\ engine' = [engine EXCEPT ![s] = "done"]
  /\ UNCHANGED <<db, memory, prog, killed, held, client, faults, control>>

-----------------------------------------------------------------------------
(* Streams. *)

(* Mutant: a stream resumes one event too late. *)
Connect_SkipsOne(c, s) ==
  /\ Serving /\ RowExists(s)
  /\ ~client[c].live /\ client[c].watch \in {"nobody", s}
  /\ LET backlog == {e \in log[s] : \A n \in client[c].got : n + 1 < e.seq}
     IN  client' = [client EXCEPT ![c] =
           [watch |-> s,
            live  |-> backlog \cap [seq : Nat, type : TerminalEvents] = {}
                      /\ row[s] \notin TerminalStatuses,
            got   |-> @.got \cup {e.seq : e \in backlog}]]
  /\ UNCHANGED <<db, memory, os, faults, control>>

(* GET /api/sessions/:id/events, first time or with the Last-Event-ID of   *)
(* the last frame received: the backlog up to a terminal event, and the    *)
(* live feed if neither the backlog nor the row is at its end.             *)
Connect(c, s) ==
  /\ Serving /\ RowExists(s)
  /\ ~client[c].live /\ client[c].watch \in {"nobody", s}
  /\ LET backlog == {e \in log[s] : \A n \in client[c].got : n < e.seq}
         ends    == {e \in backlog : e.type \in TerminalEvents}
         sent    == {e \in backlog : \A t \in ends : e.seq <= t.seq}
     IN  client' = [client EXCEPT ![c] =
           [watch |-> s,
            live  |-> ends = {} /\ row[s] \notin TerminalStatuses,
            got   |-> @.got \cup {e.seq : e \in sent}]]
  /\ UNCHANGED <<db, memory, os, faults, control>>

Disconnect(c) ==
  /\ client[c].live
  /\ client' = [client EXCEPT ![c].live = FALSE]
  /\ UNCHANGED <<db, memory, os, faults, control>>

OpenDashboard(d) ==
  /\ Serving /\ d \notin dashboards
  /\ dashboards' = dashboards \cup {d}
  /\ UNCHANGED <<gw, awaited, boots, db, memory, os, client, faults>>

CloseDashboard(d) ==
  /\ d \in dashboards
  /\ dashboards' = dashboards \ {d}
  /\ UNCHANGED <<gw, awaited, boots, db, memory, os, client, faults>>

-----------------------------------------------------------------------------
(* The life of the gateway process. *)

(* SIGTERM, first synchronous part of shutdownGracefully(): every          *)
(* registered execution that can be signalled is asked to terminate; the   *)
(* escalations then pending are awaited.  Routes stay open.                *)
ShutdownBegin ==
  /\ "shutdown" \in Disturbances
  /\ gw = "up"
  /\ gw' = "draining"
  /\ active' = [s \in Sessions |->
       IF s \in registry /\ Signalable(s)
       THEN [active[s] EXCEPT !.terminateRequested = TRUE, !.escalation = "pending"]
       ELSE active[s]]
  /\ awaited' = {s \in registry : active'[s].escalation = "pending"}
  /\ UNCHANGED <<db, registry, open, nextSeq, os, client, faults, dashboards, boots>>

(* maxSequence() + 1, or 0 for a session without events. *)
NextNumber(s) ==
  IF log[s] = {} THEN 0 ELSE (CHOOSE e \in log[s] : \A f \in log[s] : f.seq <= e.seq).seq + 1

(* finalizeAbandoned() of a row no ActiveSession answers for.  Row and     *)
(* event are one transaction.                                              *)
Recovery(s) == Event(NextNumber(s), "execution.failed")

(* Mutant: finalizeAbandoned() without its check of the row's status. *)
Stale_AnyRow(s) == RowExists(s) /\ s \notin registry

(* The rows listNonTerminal() finds that no ActiveSession answers for. *)
Stale(s) == row[s] = "CREATED" /\ s \notin registry

(* Last synchronous part: finalizeAbandoned() of every registered session  *)
(* and of every other row still CREATED; then runner.close() ends the      *)
(* telemetry and app.close() stops accepting requests.                     *)
ShutdownFinalize ==
  /\ gw = "draining" /\ awaited = {}
  /\ gw' = "closing"
  /\ LET last(s)  == IF s \in registry THEN Event(nextSeq[s], "execution.failed") ELSE Recovery(s)
         accepted == {s \in Sessions : (s \in registry \/ Stale(s)) /\ Accepts(s, last(s))}
     IN  \E kept \in SUBSET accepted :
           /\ Written(kept, accepted)
           /\ Persist([s \in Sessions |-> IF s \in kept THEN {last(s)} ELSE {}])
           /\ row' = [s \in Sessions |->
                IF s \in kept \/ (s \in registry /\ RowExists(s)) THEN "FAILED" ELSE row[s]]
  /\ nextSeq' = [s \in Sessions |-> IF s \in registry THEN nextSeq[s] + 1 ELSE nextSeq[s]]
  /\ open' = open \ registry
  /\ registry' = {}
  /\ active' = [s \in Sessions |-> [active[s] EXCEPT !.sampling = FALSE]]
  /\ UNCHANGED <<awaited, os, dashboards, boots>>

(* The process is gone: its memory, its end of every pipe and its sockets  *)
(* go with it.  Engines and programs run on.                               *)
Halt ==
  /\ gw' = "down"
  /\ awaited' = {}
  /\ registry' = {}
  /\ open' = {}
  /\ active' = [s \in Sessions |-> IF s \in open THEN NoActive ELSE [active[s] EXCEPT !.escalation = "none"]]
  /\ engine' = [s \in Sessions |-> IF engine[s] \in {"launching", "running"} THEN "orphan" ELSE engine[s]]
  /\ pipe' = [s \in Sessions |-> <<>>]
  /\ client' = [c \in Clients |-> [client[c] EXCEPT !.live = FALSE]]
  /\ dashboards' = {}
  /\ UNCHANGED <<db, nextSeq, prog, killed, held, faults, boots>>

(* app.close() resolves once no connection is left; then the process exits.*)
ShutdownExit ==
  /\ gw = "closing" /\ dashboards = {} /\ \A c \in Clients : ~client[c].live
  /\ Halt

Crash == "crash" \in Disturbances /\ Running /\ Halt

(* startServer(): every row still CREATED is recovered before listening.   *)
Boot ==
  /\ gw = "down" /\ boots < MaxBoots
  /\ gw' = "up"
  /\ boots' = boots + 1
  /\ LET accepted == {s \in Sessions : Stale(s) /\ Accepts(s, Recovery(s))}
     IN  \E kept \in SUBSET accepted :
           /\ Written(kept, accepted)
           /\ Persist([s \in Sessions |-> IF s \in kept THEN {Recovery(s)} ELSE {}])
           /\ row' = [s \in Sessions |-> IF s \in kept THEN "FAILED" ELSE row[s]]
  /\ UNCHANGED <<awaited, dashboards, memory, os>>

-----------------------------------------------------------------------------
(* What happens to one session. *)
SessionStep(s) ==
  \/ Admit(s) \/ RefuseStart(s) \/ SpawnError(s) \/ Close(s)
  \/ DeliverLine(s) \/ Sample(s)
  \/ Timeout(s) \/ Terminate(s) \/ Escalate(s)
  \/ Sweep(s) \/ Delete(s)
  \/ EngineFork(s) \/ EngineRefuse(s) \/ EngineReap(s)
  \/ ProgramEnds(s) \/ KillTakesEffect(s) \/ HolderEnds(s)

Next ==
  \/ \E s \in Sessions : SessionStep(s)
  \/ \E c \in Clients : Disconnect(c) \/ \E s \in Sessions : Connect(c, s)
  \/ \E d \in Dashboards : OpenDashboard(d) \/ CloseDashboard(d)
  \/ ShutdownBegin \/ ShutdownFinalize \/ ShutdownExit
  \/ Crash \/ Boot

Spec == Init /\ [][Next]_vars

(* The event loop runs the callbacks that are due, the kernel runs the     *)
(* engine and kills what was sent SIGKILL, and a shutdown goes on.  A      *)
(* program, a descendant of it and a browser owe nothing.                  *)
Fairness ==
  /\ \A s \in Sessions :
       /\ WF_vars(EngineFork(s) \/ EngineRefuse(s))
       /\ WF_vars(EngineReap(s))
       /\ WF_vars(KillTakesEffect(s))
       /\ WF_vars(DeliverLine(s))
       /\ WF_vars(Timeout(s))
       /\ WF_vars(Escalate(s))
       /\ WF_vars(Close(s))
  /\ WF_vars(ShutdownFinalize)
  /\ WF_vars(ShutdownExit)

LiveSpec == Spec /\ Fairness

-----------------------------------------------------------------------------
Phases == {"up", "draining", "closing", "down"}

(* Every variable has the shape of the state it stands for (the gateway's  *)
(* memory, the two tables, the processes and the streams).                 *)
TypeOK ==
  /\ gw \in Phases
  /\ awaited \subseteq Sessions
  /\ row \in [Sessions -> RowStatuses]
  /\ log \in [Sessions -> SUBSET Entry]
  /\ registry \subseteq Sessions
  /\ open \subseteq Sessions
  /\ nextSeq \in [Sessions -> Nat]
  /\ active \in [Sessions -> ActiveSession]
  /\ engine \in [Sessions -> {"none", "launching", "running", "done", "orphan"}]
  /\ prog \in [Sessions -> {"none", "running", "noexec", "ok", "failed", "signaled"}]
  /\ killed \in [Sessions -> BOOLEAN]
  /\ held \in [Sessions -> BOOLEAN]
  /\ pipe \in [Sessions -> Seq(Lines)]
  /\ client \in [Clients -> [watch : Sessions \cup {"nobody"}, live : BOOLEAN, got : SUBSET Nat]]
  /\ \A c \in Clients : client[c].live => client[c].watch \in Sessions
  /\ dashboards \subseteq Dashboards
  /\ faults \in Nat
  /\ boots \in Nat
=============================================================================
