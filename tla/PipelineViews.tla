---------------------------- MODULE PipelineViews ----------------------------
(***************************************************************************)
(* From the engine to the reader: the lines PipelineEngine writes become   *)
(* the stored record of an execution, which the gateway's validator judges *)
(* and the frontend's views reduce.  What both say is compared here with   *)
(* what became of the processes.                                           *)
(***************************************************************************)
EXTENDS PipelineVerdict, StageViews

NoPid == -2

(* The verdict the gateway reaches from the lines it has read. *)
Verdict == DecideStatus(FALSE, FALSE, evidence)

GatewayEvent(type, seq) == StoredEvent("session", seq, type, NoPid, -1, 0, "none")

Exit(l) ==
  CASE l.type # "process.exited" -> "none"
    [] l.type = "process.exited" -> IF l.outcome = "COMPLETED" THEN "zero" ELSE "nonzero"

(* The record of the lines ls, as it stands while the execution is open.   *)
(* A stage that never started is written under pid 0, which is a number    *)
(* and no process: Engine.                                                 *)
OpenRecord(ls) ==
  <<GatewayEvent("execution.created", 0), GatewayEvent("execution.started", 1)>>
    \o [k \in DOMAIN ls |->
          StoredEvent("session", k + 1, ls[k].type, ls[k].proc, ls[k].stage, ls[k].stages, Exit(ls[k]))]

ClosedRecord(ls) == Append(OpenRecord(ls), GatewayEvent(FinalType(Verdict), Len(ls) + 2))

(* The record and its status once the gateway has read what there is.      *)
CaughtUp == told = Len(lines)

Record == IF Closed THEN ClosedRecord(lines) ELSE OpenRecord(lines)

Status == IF Closed THEN Verdict ELSE "RUNNING"

Valid(s) == ValidateEventStream(s, Status, NoPid).valid

Without(s, k) == RemoveAt(s, k)

------------------------------------------------------------------------------
(* Every stage was launched and its end was observed, or the line ended    *)
(* before it had any process.                                              *)
AllObserved ==
  \/ lines = <<>> \/ (n = 1 /\ ~Launched(0))
  \/ \A i \in 0 .. n - 1 : status[i] # "unknown" /\ i \notin execFailed

(* The validator can be relied on.  It accepts the record of an execution  *)
(* whose processes were all observed; of a record it accepts, it notices   *)
(* that any one event is missing, is there twice, or belongs to another    *)
(* session; and of a pipeline also that a line about a process's start or  *)
(* end never reached the gateway, where the numbers show no gap.           *)
LossIsNoticed ==
  Closed =>
    /\ AllObserved => Valid(Record)
    /\ Valid(Record) => \A k \in DOMAIN Record :
         /\ ~Valid(Without(Record, k))
         /\ ~Valid(Append(Record, Record[k]))
         /\ ~Valid([Record EXCEPT ![k].session = "another"])
    /\ Valid(Record) /\ n > 1 => \A k \in DOMAIN lines :
         lines[k].type \in {"process.started", "process.exited"} =>
           ~Valid(ClosedRecord(Without(lines, k)))

(* What the views say is so, once the gateway has read what the engine     *)
(* wrote.  The table: a stage without a row never started; one that stays  *)
(* INCOMPLETE was refused or its end was lost; the exit code shown is that *)
(* of the process, and the one shown for the whole line is zero only if    *)
(* the last stage's was and the engine returned zero.  The strip and the   *)
(* chain: a good result is shown only of a line whose last program         *)
(* succeeded, a failed exec only if something was refused or could not be  *)
(* launched, and a failed wait only if one was lost.  The report: an exit  *)
(* is its outcome only if every program ran and nothing was lost, "no      *)
(* program ran" is so of a single command, and an end goes unreported only *)
(* if no program's was observed.  The summary: every stage counted as      *)
(* completed was observed to end, unless a fork failed, and evidence is    *)
(* said to be short only while a stage has not started.                    *)
ViewsTellTheTruth ==
  LET record == Record
      chain  == Chain(record)
      summary == Summarised(record)
  IN  CaughtUp =>
    /\ \A i \in 0 .. n - 1 :
         LET row == StageRow(record, i)
         IN  /\ row.lifecycle = "NOT_STARTED" => ~Launched(i)
             /\ row.lifecycle = "INCOMPLETE" =>
                  Launched(i) /\ (at = "returned" => i \in execFailed \/ status[i] = "unknown")
             /\ row.lifecycle = "COMPLETED" => ~Launched(i) \/ (Ended(i) /\ status[i] # "unknown")
             /\ row.exit = "zero" <=> row.lifecycle = "COMPLETED" /\ child[i] = "ok"
    /\ at = "returned" =>
         /\ n > 1 /\ lines # <<>> => WithEvidence(record) = 0 .. n - 1
         /\ PipelineExit(record) = "zero" => child[n - 1] = "ok" /\ (launchFailed \/ result = "zero")
         /\ StripState(record, "result", Status) = "done" => child[n - 1] = "ok" /\ result = "zero"
         /\ chain.summary = "observed" => child[n - 1] = "ok" /\ result = "zero"
         /\ ReportedEnd(record) = "unavailable" =>
              \A i \in Stages : Ended(i) => status[i] = "unknown" \/ i \in execFailed
         /\ n > 1 /\ lines # <<>> => ~summary.short
    /\ summary.short => \E i \in 0 .. n - 1 : ~Launched(i)
    /\ summary.count["COMPLETED"] = n /\ ~launchFailed =>
         \A i \in 0 .. n - 1 : Ended(i) /\ status[i] # "unknown"
    /\ CASE ReportedOutcome(record) = "process.exec_error" -> execFailed # {} /\ (n = 1 => child[0] # "ok")
         [] ReportedOutcome(record) = "process.wait_failed" -> \E i \in Stages : Ended(i) /\ status[i] = "unknown"
         [] ReportedOutcome(record) = "process.launch_failed" -> launchFailed
         [] ReportedOutcome(record) = "process.exited" ->
              /\ launchFailed \/ \E i \in Stages : Ended(i)
              /\ at = "returned" => execFailed = {} /\ \A i \in Stages : Ended(i) => status[i] # "unknown"
         [] OTHER -> at # "returned" \/ \A i \in Stages : ~Ended(i)
    /\ chain.fork = "observed" <=> \E i \in Stages : Launched(i)
    /\ chain.exit = "failed" => execFailed # {} \/ chain.wait = "failed"
    /\ chain.exec = "failed" => execFailed # {} \/ launchFailed
    /\ chain.wait = "failed" => \E i \in Stages : Ended(i) /\ status[i] = "unknown"
    /\ StripState(record, "fork", Status) = "error" => launchFailed

(* invariants.ts: "I11 every process.exited / process.exec_error /         *)
(* process.wait_failed has a preceding process.started for the same pid",  *)
(* and for a single command the stage "is -1 on every event".  So the      *)
(* record of any line the engine ran through would be valid.               *)
OriginalRecordsAreValid == Closed => Valid(Record)
=============================================================================
