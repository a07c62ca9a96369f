----------------------------- MODULE StageViews -----------------------------
(***************************************************************************)
(* What the frontend shows of a recorded execution: the stage table        *)
(* (lib/pipelineEvidence.ts), the strip of lifecycle stages                *)
(* (lib/stages.ts) and the chain of evidence (lib/evidenceChain.ts).  Each *)
(* is a function of the events alone, whose states are modelled; wording,  *)
(* clocks and argv are not.                                                *)
(***************************************************************************)
EXTENDS ReplayValidator

Types(s) == {s[k].type : k \in DOMAIN s}

------------------------------------------------------------------------------
(* pipelineEvidence.ts *)

NotStarted == [pid |-> "none", lifecycle |-> "NOT_STARTED", exit |-> "none", signal |-> FALSE]

(* Mutant: an exit records its code and leaves the state of the row. *)
Reduced_KeepsState(view, e) ==
  CASE e.type = "process.started" -> [view EXCEPT !.pid = e.pid, !.lifecycle = "INCOMPLETE"]
    [] e.type = "process.exited" ->
         [view EXCEPT !.pid = e.pid, !.exit = e.exit]
    [] e.type = "signal.received" -> [view EXCEPT !.lifecycle = "SIGNALED", !.signal = TRUE]
    [] e.type \in {"process.exec_error", "process.wait_failed"} -> [view EXCEPT !.lifecycle = "SIGNALED"]
    [] OTHER -> view

(* What one event changes in the row of its stage.  The engine's           *)
(* PROCESS_EXITED carries no signal, so the row of a killed stage is       *)
(* SIGNALED only until that event, which always follows.                   *)
Reduced(view, e) ==
  CASE e.type = "process.started" -> [view EXCEPT !.pid = e.pid, !.lifecycle = "INCOMPLETE"]
    [] e.type = "process.exited" ->
         [pid |-> e.pid, lifecycle |-> "COMPLETED", exit |-> e.exit, signal |-> FALSE]
    [] e.type = "signal.received" -> [view EXCEPT !.lifecycle = "SIGNALED", !.signal = TRUE]
    [] e.type \in {"process.exec_error", "process.wait_failed"} -> [view EXCEPT !.lifecycle = "SIGNALED"]
    [] OTHER -> view

(* The loop: the row of stage i after each event, those of others passed over. *)
RowAfter(s, i) ==
  LET row[k \in 0 .. Len(s)] ==
        IF k = 0 THEN NotStarted
        ELSE IF s[k].stage = i THEN Reduced(row[k - 1], s[k]) ELSE row[k - 1]
  IN  row

StageRow(s, i) == RowAfter(s, i)[Len(s)]

DeclaredStages(s) ==
  CHOOSE d \in {0} \cup {s[k].stages : k \in DOMAIN s} : \A k \in DOMAIN s : s[k].stages <= d

(* The stages the table has a row for. *)
Rows(s) == {i \in {s[k].stage : k \in DOMAIN s} : i >= 0} \cup 0 .. DeclaredStages(s) - 1

(* countStagesWithEvidence *)
WithEvidence(s) == {i \in Rows(s) : StageRow(s, i) # NotStarted}

(* summarisePipeline: how many rows ended how, and whether it adds that    *)
(* the engine declared more stages than there is evidence of.              *)
Summarised(s) ==
  [count |-> [l \in {"COMPLETED", "SIGNALED", "NOT_STARTED", "INCOMPLETE"} |->
                Cardinality({i \in Rows(s) : StageRow(s, i).lifecycle = l})],
   short |-> Cardinality(WithEvidence(s)) < DeclaredStages(s)]

(* pipelineExitStatus: that of the last row. *)
PipelineExit(s) ==
  IF Rows(s) = {} THEN "none"
  ELSE StageRow(s, CHOOSE i \in Rows(s) : \A j \in Rows(s) : j <= i).exit

------------------------------------------------------------------------------
(* stages.ts: the strip.  "input" to "result", in that order. *)

CompletesOn ==
  [fork |-> {"process.started"}, exec |-> {}, run |-> {}, wait |-> {"process.exited"},
   result |-> {"process.exited", "session.summary", "execution.completed", "execution.failed", "execution.timeout"}]

ErrorsOn ==
  [fork |-> {"redirection.failed"}, exec |-> {"process.exec_error", "process.launch_failed"},
   run |-> {}, wait |-> {},
   result |-> {"process.exec_error", "process.wait_failed", "execution.failed", "execution.cancelled"}]

(* An exit that no signal preceded settles the exec stage before any error *)
(* is looked at.                                                           *)
StripState(s, x, status) ==
  LET types == Types(s)
      exited == "process.exited" \in types
      waiting == x \in {"run", "wait"} /\ status = "RUNNING" /\ "process.started" \in types
  IN  IF x = "exec" /\ exited /\ "signal.received" \notin types THEN "derived"
      ELSE IF ErrorsOn[x] \cap types # {} THEN "error"
      ELSE IF CompletesOn[x] \cap types # {} THEN "done"
      ELSE IF x = "exec" THEN "unavailable"
      ELSE IF x = "run" /\ exited THEN "done"
      ELSE IF waiting THEN "derived"
      ELSE IF status \in TerminalStatuses THEN "skipped" ELSE "pending"

------------------------------------------------------------------------------
(* evidenceChain.ts: the states of the chain, from the whole record. *)

ChainExec(s) ==
  LET types == Types(s)
  IN  IF types \cap {"process.exec_error", "process.launch_failed"} # {} THEN "failed"
      ELSE IF \/ "process.started" \notin types
              \/ "signal.received" \in types /\ "process.exited" \notin types THEN "unavailable"
      ELSE "derived"

ChainExit(s) ==
  IF Types(s) \cap {"process.exec_error", "process.wait_failed"} # {} THEN "failed"
  ELSE IF "process.exited" \in Types(s) THEN "observed" ELSE "unavailable"

ChainWait(s) ==
  IF "process.wait_failed" \in Types(s) THEN "failed"
  ELSE IF "process.exited" \in Types(s) THEN "observed" ELSE "unavailable"

ChainSummary(s) ==
  IF "execution.failed" \in Types(s) THEN "failed"
  ELSE IF Types(s) \cap TerminalEvents # {} THEN "observed" ELSE "unavailable"

ChainFork(s) == IF "process.started" \in Types(s) THEN "observed" ELSE "unavailable"

Chain(s) ==
  [fork |-> ChainFork(s), exec |-> ChainExec(s), exit |-> ChainExit(s),
   wait |-> ChainWait(s), summary |-> ChainSummary(s)]

------------------------------------------------------------------------------
(* routes.ts: the lines of the observation report on how it went.  Each    *)
(* quotes the first event of its type, whichever stage that was about.     *)

(* The first of the types that is present, in the order the report asks.   *)
FirstPresent(s, types) ==
  LET found == {k \in DOMAIN types : types[k] \in Types(s)}
  IN  IF found = {} THEN "unavailable" ELSE types[CHOOSE k \in found : \A j \in found : k <= j]

ReportedOutcome(s) ==
  FirstPresent(s, <<"process.exec_error", "process.wait_failed", "process.launch_failed", "process.exited">>)

ReportedEnd(s) == FirstPresent(s, <<"process.exited", "signal.received">>)
=============================================================================
