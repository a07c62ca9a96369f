-------------------------- MODULE CanonicalEvents --------------------------
(***************************************************************************)
(* The vocabulary the gateway and the engine share: canonical event types, *)
(* session statuses, the monitor lines the engine writes on stderr, and    *)
(* the pure part of the runner that turns those lines into a verdict       *)
(* (observe and decideStatus of web/backend/src/execution/runner.ts).      *)
(***************************************************************************)
EXTENDS Naturals

(* The four event types that end a stream, and the status each announces.  *)
TerminalEvents ==
  {"execution.completed", "execution.failed", "execution.timeout", "execution.cancelled"}

TerminalStatuses == {"COMPLETED", "FAILED", "TIMED_OUT", "CANCELLED"}

(* A row stays CREATED for as long as its execution runs: nothing ever     *)
(* writes STARTING or RUNNING to the database.  NONE: no row has been      *)
(* created; DELETED: it was deleted (session ids are never reused).        *)
RowStatuses == {"NONE", "CREATED", "DELETED"} \cup TerminalStatuses

(* The event types that are recorded while an execution is open.           *)
EngineEvents ==
  {"process.started", "process.exited", "process.exec_error", "process.wait_failed",
   "process.launch_failed", "signal.received", "redirection.failed", "session.summary"}

GatewayEvents == {"execution.created", "execution.started", "process.snapshot"}

OpenEvents == EngineEvents \cup GatewayEvents

EventTypes == OpenEvents \cup TerminalEvents

(* The one terminal event type of a terminal status. *)
FinalType(status) ==
  CASE status = "TIMED_OUT" -> "execution.timeout"
    [] status = "CANCELLED" -> "execution.cancelled"
    [] status = "COMPLETED" -> "execution.completed"
    [] OTHER                -> "execution.failed"

(* How the engine says a process ended; "none" until a line says so. *)
Outcomes == {"none", "COMPLETED", "EXITED", "SIGNALED", "EXEC_FAILED", "WAIT_FAILED", "LAUNCH_FAILED"}

(* A protocol line: its canonical type after normalisation, and the        *)
(* outcome field of its payload ("none" when the line carries none).       *)
Lines == [type : EngineEvents, outcome : Outcomes]

Line(type, outcome) == [type |-> type, outcome |-> outcome]

(***************************************************************************)
(* Evidence: which kinds of line were seen (the sticky flags signal,       *)
(* sawExecError, sawWaitFailure, sawLaunchFailure) and the last outcome a  *)
(* line carried.                                                           *)
(***************************************************************************)
Marks == {"signal.received", "process.exec_error", "process.wait_failed", "process.launch_failed"}

Evidence == [saw : SUBSET Marks, outcome : Outcomes]

NoEvidence == [saw |-> {}, outcome |-> "none"]

(* What one line adds to the evidence.  session.summary adds nothing: it   *)
(* only says that the monitor reached the end of its input.                *)
Observe(ev, line) ==
  [saw     |-> ev.saw \cup ({line.type} \cap Marks),
   outcome |-> IF line.outcome = "none" THEN ev.outcome ELSE line.outcome]

(* Mutant: an outcome nobody reported is read as success. *)
DecideStatus_Optimist(timedOut, terminateRequested, ev) ==
  IF timedOut THEN "TIMED_OUT"
  ELSE IF terminateRequested /\ "signal.received" \in ev.saw THEN "CANCELLED"
  ELSE IF ev.saw = {} /\ ev.outcome # "EXITED" THEN "COMPLETED"
  ELSE "FAILED"

(* The verdict.  The runner asks in this order; every branch it has after  *)
(* these three (an exec, wait or launch failure, a signal nobody asked     *)
(* for, a non-zero exit, no verdict at all) answers FAILED.                *)
DecideStatus(timedOut, terminateRequested, ev) ==
  IF timedOut THEN "TIMED_OUT"
  ELSE IF terminateRequested /\ "signal.received" \in ev.saw THEN "CANCELLED"
  ELSE IF ev.saw = {} /\ ev.outcome = "COMPLETED" THEN "COMPLETED"
  ELSE "FAILED"
=============================================================================
