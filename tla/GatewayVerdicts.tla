-------------------------- MODULE GatewayVerdicts --------------------------
(***************************************************************************)
(* What the record says of a program is what became of it.  The verdict is *)
(* read off flags that lines set one by one, long after the engine wrote   *)
(* them; the invariants say what the lines read and the lines still in the *)
(* pipe tell together.                                                     *)
(***************************************************************************)
EXTENDS GatewayNumbering, SequenceTheorems

(* The lines on their way, and what they and those that were read tell.    *)
Unread(s)     == Range(pipe[s])
MarksOf(s)    == active[s].evidence.saw \cup {line.type : line \in Unread(s)}
OutcomesOf(s) == {active[s].evidence.outcome} \cup {line.outcome : line \in Unread(s)}

(* The evidence of an open session, read and unread, is of its program.    *)
Told(s) ==
  /\ "signal.received" \in MarksOf(s) => prog[s] = "signaled"
  /\ "COMPLETED" \in OutcomesOf(s) => prog[s] = "ok"
  /\ engine[s] = "done" /\ prog[s] = "ok" /\ "process.wait_failed" \notin MarksOf(s) =>
       /\ MarksOf(s) \cap Marks = {}
       /\ "COMPLETED" \in OutcomesOf(s) /\ OutcomesOf(s) \subseteq {"none", "COMPLETED"}
  /\ engine[s] # "done" =>
       /\ active[s].evidence = NoEvidence
       /\ \A line \in Unread(s) : line = Line("process.started", "none")

(* How far row, engine and program are.                                    *)
InStep(s) ==
  /\ row[s] = "NONE" => engine[s] = "none" /\ active[s].evidence = NoEvidence
  /\ engine[s] \in {"none", "launching"} => prog[s] = "none" /\ pipe[s] = <<>>
  /\ engine[s] = "done" => prog[s] # "running"
  /\ row[s] \in {"COMPLETED", "CANCELLED"} => engine[s] = "done"
  /\ row[s] = "FAILED" /\ gw = "up" /\ boots = 0 => engine[s] \in {"none", "done"}

(* VerdictIsHonest for one session. *)
Verified(s) ==
  /\ row[s] = "COMPLETED" => prog[s] = "ok" /\ ~active[s].timedOut
  /\ row[s] = "CANCELLED" => prog[s] = "signaled" /\ active[s].terminateRequested
  /\ row[s] = "FAILED" /\ prog[s] = "ok" /\ gw = "up" /\ boots = 0 =>
       "process.wait_failed" \in active[s].evidence.saw

Honest(s) ==
  /\ InStep(s)
  /\ s \in open => engine[s] \notin {"none", "orphan"} /\ Told(s)
  /\ Verified(s)

HonestInv == \A s \in Sessions : Honest(s)

-----------------------------------------------------------------------------
(* The lines of a pipe.                                                    *)

LEMMA FewLines ==
  /\ Range(<<>>) = {}
  /\ \A a : Range(<<a>>) = {a}
  /\ \A a, b : Range(<<a, b>>) = {a, b}
<1>1. Range(<<>>) = {}
  BY DEF Range
<1>2. ASSUME NEW a PROVE Range(<<a>>) = {a}
  BY DEF Range
<1>3. ASSUME NEW a, NEW b PROVE Range(<<a, b>>) = {a, b}
  BY DEF Range
<1> QED
  BY <1>1, <1>2, <1>3

LEMMA FirstOut ==
  ASSUME NEW q \in Seq(Lines), q # <<>>
  PROVE  Head(q) \in Lines /\ Range(q) = {Head(q)} \cup Range(Tail(q))
<1>1. Head(q) \in Lines /\ Tail(q) \in Seq(Lines) /\ q = <<Head(q)>> \o Tail(q)
  OBVIOUS
<1>2. <<Head(q)>> \in Seq(Lines)
  BY <1>1
<1>3. Range(q) = Range(<<Head(q)>>) \cup Range(Tail(q))
  BY <1>1, <1>2, RangeConcatenation
<1> QED
  BY <1>1, <1>3, FewLines

-----------------------------------------------------------------------------
(* A step that leaves the row, the processes and the evidence of a session *)
(* alone.                                                                  *)
LEMMA HonestSame ==
  ASSUME NEW t \in Sessions, Honest(t),
         row'[t] = row[t], engine'[t] = engine[t], prog'[t] = prog[t], pipe'[t] = pipe[t],
         active'[t].evidence = active[t].evidence,
         row[t] \in TerminalStatuses => /\ active'[t].timedOut = active[t].timedOut
                                        /\ active'[t].terminateRequested = active[t].terminateRequested,
         t \in open' => t \in open,
         gw' = "up" /\ boots' = 0 => gw = "up" /\ boots = 0
  PROVE  Honest(t)'
<1>1. Unread(t)' = Unread(t)
  BY DEF Unread
<1>2. MarksOf(t)' = MarksOf(t) /\ OutcomesOf(t)' = OutcomesOf(t)
  BY <1>1 DEF MarksOf, OutcomesOf
<1>3. Told(t) => Told(t)'
  BY <1>1, <1>2 DEF Told
<1> QED
  BY <1>3 DEF Honest, InStep, Verified, TerminalStatuses

(* A session that is open, or was never started, has no verdict yet.       *)
LEMMA Undecided ==
  ASSUME TypeInv, RecordInv, NEW s \in Sessions, s \in open \/ s \in registry
  PROVE  row[s] \in {"CREATED", "DELETED"} /\ row[s] \notin TerminalStatuses /\ s \in open
BY DEF RecordInv, RecordOf, Owned, TerminalStatuses

LEMMA Shapes ==
  ASSUME TypeInv
  PROVE  /\ row \in [Sessions -> RowStatuses]
         /\ engine \in [Sessions -> {"none", "launching", "running", "done", "orphan"}]
         /\ prog \in [Sessions -> {"none", "running", "noexec", "ok", "failed", "signaled"}]
         /\ pipe \in [Sessions -> Seq(Lines)]
         /\ active \in [Sessions -> ActiveSession]
         /\ boots \in Nat
BY DEF TypeInv, TypeOK

LEMMA HonestStart ==
  ASSUME TypeInv, RecordInv, NEW s \in Sessions, Admit(s) \/ RefuseStart(s), HonestInv
  PROVE  HonestInv'
<1>1. /\ row[s] = "NONE" /\ UNCHANGED <<active, prog, pipe, gw, boots>>
      /\ \A t \in Sessions : t # s => row'[t] = row[t] /\ engine'[t] = engine[t]
      /\ open' \subseteq open \cup {s}
  BY Shapes DEF Admit, RefuseStart, Register, memory, os, control
<1>2. engine[s] = "none" /\ active[s].evidence = NoEvidence /\ prog[s] = "none" /\ pipe[s] = <<>>
  BY <1>1 DEF HonestInv, Honest, InStep
<1>3. Honest(s)'
  <2>1. CASE Admit(s)
    <3>1. engine'[s] = "launching" /\ row'[s] = "CREATED"
      BY <2>1, Shapes DEF Admit
    <3>2. Unread(s)' = {}
      BY <1>1, <1>2, FewLines DEF Unread
    <3>3. MarksOf(s)' = {} /\ OutcomesOf(s)' = {"none"}
      BY <1>1, <1>2, <3>2 DEF MarksOf, OutcomesOf, NoEvidence
    <3> QED
      BY <1>1, <1>2, <3>1, <3>2, <3>3 DEF Honest, InStep, Told, Verified
  <2>2. CASE RefuseStart(s)
    <3>1. engine' = engine /\ row'[s] = "FAILED" /\ open' = open
      BY <2>2, Shapes DEF RefuseStart, os, memory
    <3>2. s \notin open
      BY <1>1, Undecided
    <3> QED
      BY <1>1, <1>2, <3>1, <3>2 DEF Honest, InStep, Verified
  <2> QED
    BY <2>1, <2>2
<1>4. ASSUME NEW t \in Sessions, t # s PROVE Honest(t)'
  BY <1>1, <1>4, HonestSame DEF HonestInv
<1> QED
  BY <1>3, <1>4 DEF HonestInv

LEMMA HonestSpawnError ==
  ASSUME TypeInv, RecordInv, NEW s \in Sessions, SpawnError(s), HonestInv
  PROVE  HonestInv'
<1>1. /\ engine[s] = "launching" /\ engine' = [engine EXCEPT ![s] = "done"]
      /\ UNCHANGED <<prog, pipe, gw, boots>>
      /\ row' = IF RowExists(s) THEN [row EXCEPT ![s] = "FAILED"] ELSE row
      /\ open' = open \ {s}
      /\ active' = [active EXCEPT ![s].sampling = FALSE]
      /\ s \in open
  BY DEF SpawnError, FinalizeFailed, control
<1>2. prog[s] = "none"
  BY <1>1 DEF HonestInv, Honest, InStep
<1>3. row'[s] \in {"FAILED", "DELETED"} /\ engine'[s] = "done"
  BY <1>1, Shapes, Undecided DEF RowExists
<1>4. Honest(s)'
  BY <1>1, <1>2, <1>3 DEF Honest, InStep, Verified
<1>5. ASSUME NEW t \in Sessions, t # s PROVE Honest(t)'
  <2>1. active'[t] = active[t] /\ row'[t] = row[t] /\ engine'[t] = engine[t]
    BY <1>1, <1>5, Shapes
  <2> QED
    BY <1>1, <2>1, HonestSame DEF HonestInv
<1> QED
  BY <1>4, <1>5 DEF HonestInv

(* The decision: everything the engine wrote has been read.                *)
LEMMA HonestClose ==
  ASSUME TypeInv, RecordInv, NEW s \in Sessions, Close(s), HonestInv
  PROVE  HonestInv'
<1>1. /\ engine[s] = "done" /\ pipe[s] = <<>> /\ s \in open
      /\ UNCHANGED <<engine, prog, pipe, gw, boots>>
      /\ row' \in {row, [row EXCEPT ![s] = Verdict(s)]}
      /\ open' = open \ {s}
      /\ active' = [active EXCEPT ![s].sampling = FALSE]
  BY DEF Close, Finalize, StreamAtEnd, os, control
<1>2. /\ active'[s].evidence = active[s].evidence /\ active'[s].timedOut = active[s].timedOut
      /\ active'[s].terminateRequested = active[s].terminateRequested
  BY <1>1, Shapes DEF ActiveSession
<1>3. Told(s) /\ InStep(s)
  BY <1>1 DEF HonestInv, Honest
<1>4. MarksOf(s) = active[s].evidence.saw /\ OutcomesOf(s) = {active[s].evidence.outcome}
  BY <1>1, FewLines DEF MarksOf, OutcomesOf, Unread
<1>5. active[s].evidence.saw \subseteq Marks
  BY Shapes DEF ActiveSession, Evidence
<1>6. /\ Verdict(s) = "COMPLETED" => prog[s] = "ok" /\ ~active[s].timedOut
      /\ Verdict(s) = "CANCELLED" => prog[s] = "signaled" /\ active[s].terminateRequested
      /\ Verdict(s) = "FAILED" /\ prog[s] = "ok" => "process.wait_failed" \in active[s].evidence.saw
  BY <1>1, <1>3, <1>4, <1>5 DEF Verdict, DecideStatus, Told
<1>7. row'[s] \in {"CREATED", "DELETED", Verdict(s)}
  BY <1>1, Shapes, Undecided
<1>8. Verdict(s) \in TerminalStatuses
  BY DEF Verdict, DecideStatus, TerminalStatuses
<1>9. Honest(s)'
  BY <1>1, <1>2, <1>3, <1>6, <1>7, <1>8 DEF Honest, InStep, Verified, TerminalStatuses
<1>10. ASSUME NEW t \in Sessions, t # s PROVE Honest(t)'
  <2>1. active'[t] = active[t] /\ row'[t] = row[t]
    BY <1>1, <1>10, Shapes
  <2> QED
    BY <1>1, <2>1, HonestSame DEF HonestInv
<1> QED
  BY <1>9, <1>10 DEF HonestInv

(* Reading a line moves what it tells from the pipe to the evidence.       *)
LEMMA HonestLine ==
  ASSUME TypeInv, RecordInv, NEW s \in Sessions, DeliverLine(s), HonestInv
  PROVE  HonestInv'
<1> DEFINE line == Head(pipe[s])
<1>1. /\ pipe[s] # <<>> /\ pipe' = [pipe EXCEPT ![s] = Tail(@)]
      /\ UNCHANGED <<row, engine, prog, open, registry, gw, boots>>
      /\ active' = IF s \in registry THEN [active EXCEPT ![s] = Observed(@, line, engine[s] = "running")]
                   ELSE active
  BY DEF DeliverLine, control
<1>2. line \in Lines /\ Unread(s) = {line} \cup Unread(s)'
  <2>1. pipe[s] \in Seq(Lines) /\ pipe'[s] = Tail(pipe[s])
    BY <1>1, Shapes
  <2> QED
    BY <1>1, <2>1, FirstOut DEF Unread
<1>3. \A t \in Sessions : t # s => pipe'[t] = pipe[t] /\ active'[t] = active[t]
  BY <1>1, Shapes
<1>4. ASSUME NEW t \in Sessions, t # s PROVE Honest(t)'
  BY <1>1, <1>3, <1>4, HonestSame DEF HonestInv
<1>5. Honest(s)
  BY DEF HonestInv
<1>6. s \in open => s \in registry
  <2>1. pipe[s] # <<>> /\ RecordOf(s)
    BY <1>1 DEF RecordInv
  <2> QED
    BY <2>1 DEF RecordOf, Owned
<1>7. CASE s \notin open
  <2>1. s \notin registry
    BY <1>7, Undecided
  <2>2. active' = active /\ engine[s] \notin {"none", "launching"}
    BY <1>1, <1>5, <2>1 DEF Honest, InStep
  <2> QED
    BY <1>1, <1>4, <1>5, <1>7, <2>2 DEF HonestInv, Honest, InStep, Verified
<1>8. CASE s \in open
  <2>1. /\ Told(s) /\ row[s] \in {"CREATED", "DELETED"}
        /\ active[s] \in ActiveSession /\ active[s].evidence \in Evidence
    BY <1>5, <1>8, Undecided, Shapes DEF Honest, ActiveSession
  <2>2. active'[s].evidence = Observe(active[s].evidence, line)
    BY <1>1, <1>6, <1>8, <2>1, Shapes DEF Observed, ActiveSession
  <2>3. /\ active'[s].evidence.saw = active[s].evidence.saw \cup ({line.type} \cap Marks)
        /\ active'[s].evidence.outcome = IF line.outcome = "none" THEN active[s].evidence.outcome ELSE line.outcome
    BY <2>2 DEF Observe
  <2> HIDE DEF line
  <2>4. MarksOf(s)' \subseteq MarksOf(s) /\ MarksOf(s)' \cap Marks = MarksOf(s) \cap Marks
    BY <1>2, <2>3 DEF MarksOf
  <2>5. OutcomesOf(s)' \subseteq OutcomesOf(s)
    BY <1>2, <2>3 DEF OutcomesOf
  <2>6. "COMPLETED" \in OutcomesOf(s) /\ OutcomesOf(s) \subseteq {"none", "COMPLETED"}
        => "COMPLETED" \in OutcomesOf(s)'
    BY <1>2, <2>3 DEF OutcomesOf
  <2>7. "process.wait_failed" \in MarksOf(s) => "process.wait_failed" \in MarksOf(s)'
    BY <2>4 DEF Marks
  <2>8. engine[s] # "done" => /\ active'[s].evidence = NoEvidence
                              /\ \A l \in Unread(s)' : l = Line("process.started", "none")
    <3>1. engine[s] # "done" => line = Line("process.started", "none") /\ active[s].evidence = NoEvidence
      BY <1>2, <2>1 DEF Told
    <3> QED
      BY <1>2, <2>1, <2>2, <3>1 DEF Told, Observe, NoEvidence, Line, Marks
  <2>9. Told(s)'
    BY <1>1, <2>1, <2>4, <2>5, <2>6, <2>7, <2>8 DEF Told
  <2>10. engine[s] \notin {"none", "launching"}
    BY <1>1, <1>5 DEF Honest, InStep
  <2> QED
    BY <1>1, <1>4, <1>5, <1>8, <2>1, <2>9, <2>10 DEF HonestInv, Honest, InStep, Verified
<1> QED
  BY <1>7, <1>8

-----------------------------------------------------------------------------
(* The engine and its program. *)

(* What a reaped process leaves in the pipe. *)
Exit(how) == Append(ExitLines(how), Summary)

LEMMA ExitTells ==
  ASSUME NEW how \in {"ok", "failed", "signaled", "noexec", "unknown"}
  PROVE  /\ Exit(how) \in Seq(Lines)
         /\ \A line \in Range(Exit(how)) :
              /\ line.type # "process.started"
              /\ line.type = "signal.received" => how = "signaled"
              /\ line.outcome = "COMPLETED" => how = "ok"
              /\ how = "ok" => line.type \notin Marks /\ line.outcome \in {"none", "COMPLETED"}
         /\ how = "ok" => \E line \in Range(Exit(how)) : line.outcome = "COMPLETED"
         /\ how = "unknown" => \E line \in Range(Exit(how)) : line.type = "process.wait_failed"
<1>1. Exit(how) \in Seq(Lines)
  BY ExitLinesTyped DEF Exit
<1>2. ExitLines(how) \in Seq(Lines) /\ <<Summary>> \in Seq(Lines)
  <2>1. Summary \in Lines
    BY DEF Summary, Line, Lines, EngineEvents, Outcomes
  <2> QED
    BY <2>1, ExitLinesTyped
<1>3. Range(Exit(how)) = Range(ExitLines(how)) \cup {Summary}
  <2>1. Exit(how) = ExitLines(how) \o <<Summary>>
    BY <1>2 DEF Exit
  <2>2. Range(ExitLines(how) \o <<Summary>>) = Range(ExitLines(how)) \cup Range(<<Summary>>)
    BY <1>2, RangeConcatenation
  <2> QED
    BY <2>1, <2>2, FewLines
<1>4. CASE how = "ok"
  <2>1. ExitLines(how) = <<Line("process.exited", "COMPLETED")>>
    BY <1>4 DEF ExitLines
  <2>2. Range(Exit(how)) = {Line("process.exited", "COMPLETED"), Summary}
    BY <1>3, <2>1, FewLines
  <2>3. Line("process.exited", "COMPLETED") \in Range(Exit(how))
    BY <2>2
  <2>4. \A line \in Range(Exit(how)) : line \in {Line("process.exited", "COMPLETED"), Summary}
    BY <2>2
  <2> HIDE DEF Exit
  <2> QED
    BY <1>1, <1>4, <2>3, <2>4 DEF Summary, Line, Marks
<1>5. CASE how = "failed"
  <2>1. ExitLines(how) = <<Line("process.exited", "EXITED")>>
    BY <1>5 DEF ExitLines
  <2>2. Range(Exit(how)) = {Line("process.exited", "EXITED"), Summary}
    BY <1>3, <2>1, FewLines
  <2> QED
    BY <1>1, <1>5, <2>2 DEF Summary, Line, Marks
<1>6. CASE how = "signaled"
  <2>1. ExitLines(how) = <<Line("signal.received", "SIGNALED"), Line("process.exited", "SIGNALED")>>
    BY <1>6 DEF ExitLines
  <2>2. Range(Exit(how)) = {Line("signal.received", "SIGNALED"), Line("process.exited", "SIGNALED"), Summary}
    BY <1>3, <2>1, FewLines
  <2> QED
    BY <1>1, <1>6, <2>2 DEF Summary, Line, Marks
<1>7. CASE how = "noexec"
  <2>1. ExitLines(how) = <<Line("process.exec_error", "EXEC_FAILED")>>
    BY <1>7 DEF ExitLines
  <2>2. Range(Exit(how)) = {Line("process.exec_error", "EXEC_FAILED"), Summary}
    BY <1>3, <2>1, FewLines
  <2> QED
    BY <1>1, <1>7, <2>2 DEF Summary, Line, Marks
<1>8. CASE how = "unknown"
  <2>1. ExitLines(how) = <<Line("process.wait_failed", "WAIT_FAILED")>>
    BY <1>8 DEF ExitLines
  <2>2. Range(Exit(how)) = {Line("process.wait_failed", "WAIT_FAILED"), Summary}
    BY <1>3, <2>1, FewLines
  <2>3. Line("process.wait_failed", "WAIT_FAILED") \in Range(Exit(how))
    BY <2>2
  <2>4. \A line \in Range(Exit(how)) : line \in {Line("process.wait_failed", "WAIT_FAILED"), Summary}
    BY <2>2
  <2> HIDE DEF Exit
  <2> QED
    BY <1>1, <1>8, <2>3, <2>4 DEF Summary, Line, Marks
<1> QED
  BY <1>4, <1>5, <1>6, <1>7, <1>8

LEMMA HonestFork ==
  ASSUME TypeInv, RecordInv, NEW s \in Sessions, EngineFork(s), HonestInv
  PROVE  HonestInv'
<1> DEFINE started == Line("process.started", "none")
<1>1. /\ engine[s] \in {"launching", "orphan"} /\ prog[s] = "none"
      /\ prog' \in {[prog EXCEPT ![s] = "running"], [prog EXCEPT ![s] = "noexec"]}
      /\ engine' = [engine EXCEPT ![s] = IF @ = "orphan" THEN @ ELSE "running"]
      /\ pipe' = IF engine[s] = "orphan" THEN pipe ELSE [pipe EXCEPT ![s] = @ \o <<started>>]
      /\ UNCHANGED <<row, open, active, gw, boots>>
  BY DEF EngineFork, Reported, db, memory, control
<1>2. InStep(s) /\ Verified(s) /\ (s \in open => engine[s] # "orphan" /\ Told(s))
  BY DEF HonestInv, Honest
<1>3. prog'[s] \in {"running", "noexec"} /\ engine'[s] \in {"running", "orphan"}
  BY <1>1, Shapes
<1>4. s \in open => Told(s)'
  <2> SUFFICES ASSUME s \in open PROVE Told(s)'
    OBVIOUS
  <2>1. engine[s] = "launching" /\ pipe[s] = <<>> /\ active[s].evidence = NoEvidence
    BY <1>1, <1>2 DEF InStep, Told
  <2>2. started \in Lines
    BY DEF Line, Lines, EngineEvents, Outcomes
  <2>3. pipe'[s] = <<started>>
    BY <1>1, <2>1, Shapes
  <2>4. Unread(s)' = {started}
    BY <2>3, FewLines DEF Unread
  <2>5. MarksOf(s)' = {"process.started"} /\ OutcomesOf(s)' = {"none"}
    BY <1>1, <2>1, <2>4 DEF MarksOf, OutcomesOf, NoEvidence, Line
  <2> QED
    BY <1>1, <1>3, <2>1, <2>4, <2>5 DEF Told
<1>5. Honest(s)'
  BY <1>1, <1>2, <1>3, <1>4, Shapes DEF Honest, InStep, Verified
<1>6. ASSUME NEW t \in Sessions, t # s PROVE Honest(t)'
  <2>1. prog'[t] = prog[t] /\ engine'[t] = engine[t] /\ pipe'[t] = pipe[t]
    BY <1>1, <1>6, Shapes
  <2> QED
    BY <1>1, <2>1, HonestSame DEF HonestInv
<1> QED
  BY <1>5, <1>6 DEF HonestInv

LEMMA HonestRefusal ==
  ASSUME TypeInv, RecordInv, NEW s \in Sessions, EngineRefuse(s), HonestInv
  PROVE  HonestInv'
<1>1. PICK line \in {Line("redirection.failed", "none"), Line("process.launch_failed", "LAUNCH_FAILED")} :
        pipe' = [pipe EXCEPT ![s] = @ \o <<line, Summary>>]
  BY DEF EngineRefuse, Reported
<1>2. /\ engine[s] = "launching" /\ engine' = [engine EXCEPT ![s] = "done"]
      /\ UNCHANGED <<row, open, active, prog, gw, boots>>
  BY DEF EngineRefuse, db, memory, control
<1>3. InStep(s) /\ Verified(s) /\ (s \in open => Told(s))
  BY DEF HonestInv, Honest
<1>4. prog[s] = "none" /\ engine'[s] = "done" /\ pipe[s] = <<>>
  BY <1>2, <1>3, Shapes DEF InStep
<1>5. s \in open => Told(s)'
  <2> SUFFICES ASSUME s \in open PROVE Told(s)'
    OBVIOUS
  <2>1. active[s].evidence = NoEvidence
    BY <1>2, <1>3 DEF Told
  <2>2. pipe'[s] = <<line, Summary>>
    BY <1>1, <1>4, Shapes
  <2>3. Unread(s)' = {line, Summary}
    BY <2>2, FewLines DEF Unread
  <2>4. MarksOf(s)' = {line.type, "session.summary"} /\ OutcomesOf(s)' = {"none", line.outcome}
    BY <1>2, <2>1, <2>3 DEF MarksOf, OutcomesOf, NoEvidence, Line, Summary
  <2>5. line.type # "signal.received" /\ line.outcome # "COMPLETED"
    BY DEF Line
  <2> QED
    BY <1>2, <1>4, <2>4, <2>5 DEF Told
<1>6. Honest(s)'
  BY <1>2, <1>3, <1>4, <1>5, Shapes DEF Honest, InStep, Verified
<1>7. ASSUME NEW t \in Sessions, t # s PROVE Honest(t)'
  <2>1. engine'[t] = engine[t] /\ pipe'[t] = pipe[t]
    BY <1>1, <1>2, <1>7, Shapes
  <2> QED
    BY <1>2, <2>1, HonestSame DEF HonestInv
<1> QED
  BY <1>6, <1>7 DEF HonestInv

LEMMA HonestReap ==
  ASSUME TypeInv, RecordInv, NEW s \in Sessions, EngineReap(s), HonestInv
  PROVE  HonestInv'
<1>1. PICK how \in {prog[s], "unknown"} : pipe' = [pipe EXCEPT ![s] = @ \o Exit(how)]
  BY DEF EngineReap, Reported, Exit
<1>2. /\ engine[s] = "running" /\ engine' = [engine EXCEPT ![s] = "done"]
      /\ prog[s] \in {"noexec", "ok", "failed", "signaled"}
      /\ UNCHANGED <<row, open, active, prog, gw, boots>>
  BY Shapes DEF EngineReap, db, memory, control
<1>3. InStep(s) /\ Verified(s) /\ (s \in open => Told(s))
  BY DEF HonestInv, Honest
<1>4. engine'[s] = "done" /\ pipe'[s] = pipe[s] \o Exit(how)
  BY <1>1, <1>2, Shapes
<1>5. how \in {"ok", "failed", "signaled", "noexec", "unknown"}
  BY <1>2
<1>6. s \in open => Told(s)'
  <2> SUFFICES ASSUME s \in open PROVE Told(s)'
    OBVIOUS
  <2> DEFINE new == Range(Exit(how))
  <2>1. active[s].evidence = NoEvidence /\ \A line \in Unread(s) : line = Line("process.started", "none")
    BY <1>2, <1>3 DEF Told
  <2>2. Unread(s)' = Unread(s) \cup new
    <3>1. pipe[s] \in Seq(Lines) /\ Exit(how) \in Seq(Lines)
      BY <1>5, ExitTells, Shapes
    <3> QED
      BY <1>4, <3>1, RangeConcatenation DEF Unread
  <2>3. /\ \A line \in new :
             /\ line.type = "signal.received" => how = "signaled"
             /\ line.outcome = "COMPLETED" => how = "ok"
             /\ how = "ok" => line.type \notin Marks /\ line.outcome \in {"none", "COMPLETED"}
        /\ how = "ok" => \E line \in new : line.outcome = "COMPLETED"
        /\ how = "unknown" => \E line \in new : line.type = "process.wait_failed"
    BY <1>5, ExitTells
  <2> HIDE DEF new
  <2>4. \A m \in MarksOf(s)' : m = "process.started" \/ \E line \in new : m = line.type
    BY <1>2, <2>1, <2>2 DEF MarksOf, NoEvidence, Line
  <2>5. \A o \in OutcomesOf(s)' : o = "none" \/ \E line \in new : o = line.outcome
    BY <1>2, <2>1, <2>2 DEF OutcomesOf, NoEvidence, Line
  <2>6. \A line \in new : line.type \in MarksOf(s)' /\ line.outcome \in OutcomesOf(s)'
    BY <2>2 DEF MarksOf, OutcomesOf
  <2>7. "signal.received" \in MarksOf(s)' => prog[s] = "signaled"
    BY <1>1, <2>3, <2>4
  <2>8. "COMPLETED" \in OutcomesOf(s)' => prog[s] = "ok"
    BY <1>1, <2>3, <2>5
  <2>9. prog[s] = "ok" /\ "process.wait_failed" \notin MarksOf(s)' => how = "ok"
    BY <1>1, <2>3, <2>6
  <2>10. how = "ok" => /\ MarksOf(s)' \cap Marks = {}
                       /\ "COMPLETED" \in OutcomesOf(s)' /\ OutcomesOf(s)' \subseteq {"none", "COMPLETED"}
    <3>1. "process.started" \notin Marks
      BY DEF Marks
    <3> QED
      BY <2>3, <2>4, <2>5, <2>6, <3>1
  <2> QED
    BY <1>2, <1>4, <2>7, <2>8, <2>9, <2>10 DEF Told
<1>7. Honest(s)'
  BY <1>2, <1>3, <1>4, <1>6, Shapes DEF Honest, InStep, Verified
<1>8. ASSUME NEW t \in Sessions, t # s PROVE Honest(t)'
  <2>1. engine'[t] = engine[t] /\ pipe'[t] = pipe[t]
    BY <1>1, <1>2, <1>8, Shapes
  <2> QED
    BY <1>2, <2>1, HonestSame DEF HonestInv
<1> QED
  BY <1>7, <1>8 DEF HonestInv

(* A program that ends runs under an engine that has not reported it yet.  *)
LEMMA HonestEnd ==
  ASSUME TypeInv, RecordInv, NEW s \in Sessions, ProgramEnds(s) \/ KillTakesEffect(s), HonestInv
  PROVE  HonestInv'
<1>1. /\ prog[s] = "running" /\ prog'[s] \in {"ok", "failed", "signaled"}
      /\ \A t \in Sessions : t # s => prog'[t] = prog[t]
      /\ UNCHANGED <<row, open, active, engine, pipe, gw, boots>>
  BY Shapes DEF ProgramEnds, KillTakesEffect, db, memory, control
<1>2. InStep(s) /\ Verified(s) /\ (s \in open => engine[s] \notin {"none", "orphan"} /\ Told(s))
  BY DEF HonestInv, Honest
<1>3. engine[s] \in {"running", "orphan"}
  BY <1>1, <1>2, Shapes DEF InStep
<1>4. s \in open => Told(s)'
  <2> SUFFICES ASSUME s \in open PROVE Told(s)'
    OBVIOUS
  <2>1. active[s].evidence = NoEvidence /\ \A line \in Unread(s) : line = Line("process.started", "none")
    BY <1>2, <1>3 DEF Told
  <2>2. Unread(s)' = Unread(s)
    BY <1>1 DEF Unread
  <2>3. "signal.received" \notin MarksOf(s)' /\ "COMPLETED" \notin OutcomesOf(s)'
    BY <1>1, <2>1, <2>2 DEF MarksOf, OutcomesOf, NoEvidence, Line
  <2> QED
    BY <1>1, <1>3, <2>1, <2>2, <2>3 DEF Told
<1>5. Honest(s)'
  BY <1>1, <1>2, <1>3, <1>4 DEF Honest, InStep, Verified
<1>6. ASSUME NEW t \in Sessions, t # s PROVE Honest(t)'
  BY <1>1, <1>6, HonestSame DEF HonestInv
<1> QED
  BY <1>5, <1>6 DEF HonestInv

-----------------------------------------------------------------------------
(* Requests, timers, streams and the gateway's own life.                   *)

(* A step that leaves rows, engines, programs and pipes alone, and changes *)
(* flags of undecided sessions only.                                       *)
LEMMA HonestQuiet ==
  ASSUME HonestInv, UNCHANGED <<row, engine, prog, pipe, boots>>,
         open' \subseteq open, gw' = "up" => gw = "up",
         \A t \in Sessions : active'[t].evidence = active[t].evidence,
         \A t \in Sessions : row[t] \in TerminalStatuses =>
           /\ active'[t].timedOut = active[t].timedOut
           /\ active'[t].terminateRequested = active[t].terminateRequested
  PROVE  HonestInv'
BY HonestSame DEF HonestInv

LEMMA HonestTimer ==
  ASSUME TypeInv, RecordInv, NEW s \in Sessions, HonestInv,
         Timeout(s) \/ Terminate(s) \/ Escalate(s) \/ Sample(s)
  PROVE  HonestInv'
<1>1. /\ UNCHANGED <<row, engine, prog, pipe, boots, open, gw>>
      /\ \/ s \in registry /\ \A t \in Sessions : t # s => active'[t] = active[t]
         \/ active' = [active EXCEPT ![s].escalation = "none"]
         \/ \E b : active' = [active EXCEPT ![s].sampling = b]
      /\ active'[s].evidence = active[s].evidence
  BY Shapes DEF Timeout, Terminate, Escalate, Sample, Occupying, ActiveSession, db, os, control
<1>2. s \in registry => row[s] \notin TerminalStatuses
  BY Undecided
<1>3. ASSUME NEW t \in Sessions
      PROVE  /\ active'[t].evidence = active[t].evidence
             /\ row[t] \in TerminalStatuses =>
                  /\ active'[t].timedOut = active[t].timedOut
                  /\ active'[t].terminateRequested = active[t].terminateRequested
  <2>1. CASE s \in registry /\ \A u \in Sessions : u # s => active'[u] = active[u]
    BY <1>1, <1>2, <2>1
  <2>2. CASE active' = [active EXCEPT ![s].escalation = "none"]
    BY <2>2, Shapes DEF ActiveSession
  <2>3. CASE \E b : active' = [active EXCEPT ![s].sampling = b]
    BY <2>3, Shapes DEF ActiveSession
  <2> QED
    BY <1>1, <2>1, <2>2, <2>3
<1> QED
  BY <1>1, <1>3, HonestQuiet

LEMMA HonestDelete ==
  ASSUME TypeInv, RecordInv, NEW s \in Sessions, Delete(s), HonestInv
  PROVE  HonestInv'
<1>1. /\ row[s] \notin {"NONE", "DELETED"} /\ row' = [row EXCEPT ![s] = "DELETED"]
      /\ UNCHANGED <<open, active, engine, prog, pipe, gw, boots>>
  BY DEF Delete, RowExists, memory, os, control
<1>2. Told(s) => Told(s)'
  BY <1>1 DEF Told, MarksOf, OutcomesOf, Unread
<1>3. row'[s] = "DELETED"
  BY <1>1, Shapes
<1>4. Honest(s)'
  BY <1>1, <1>2, <1>3 DEF HonestInv, Honest, InStep, Verified
<1>5. ASSUME NEW t \in Sessions, t # s PROVE Honest(t)'
  <2>1. row'[t] = row[t]
    BY <1>1, <1>5
  <2> QED
    BY <1>1, <2>1, HonestSame DEF HonestInv
<1> QED
  BY <1>4, <1>5 DEF HonestInv

LEMMA HonestShutdownBegin ==
  ASSUME TypeInv, RecordInv, ShutdownBegin, HonestInv PROVE HonestInv'
<1>1. /\ UNCHANGED <<row, engine, prog, pipe, boots, open>> /\ gw' = "draining"
      /\ active' = [s \in Sessions |->
           IF s \in registry /\ Signalable(s)
           THEN [active[s] EXCEPT !.terminateRequested = TRUE, !.escalation = "pending"]
           ELSE active[s]]
  BY DEF ShutdownBegin, db, os
<1>2. ASSUME NEW t \in Sessions
      PROVE  /\ active'[t].evidence = active[t].evidence
             /\ row[t] \in TerminalStatuses =>
                  /\ active'[t].timedOut = active[t].timedOut
                  /\ active'[t].terminateRequested = active[t].terminateRequested
  <2>1. t \in registry => row[t] \notin TerminalStatuses
    BY Undecided
  <2> QED
    BY <1>1, <2>1, Shapes DEF ActiveSession
<1> QED
  BY <1>1, <1>2, HonestQuiet

(* A gateway that finalizes what it abandons says FAILED, and it is no     *)
(* longer up when it does.                                                 *)
LEMMA HonestShutdownFinalize ==
  ASSUME NoSweepAtShutdown, TypeInv, RecordInv, ShutdownFinalize, HonestInv PROVE HonestInv'
<1>1. /\ UNCHANGED <<engine, prog, pipe, boots>> /\ gw = "draining" /\ gw' = "closing"
      /\ open' = open \ registry
      /\ active' = [s \in Sessions |-> [active[s] EXCEPT !.sampling = FALSE]]
  BY DEF ShutdownFinalize, os
<1>2. open' = {}
  BY <1>1 DEF NoSweepAtShutdown, RecordInv
<1>3. ASSUME NEW t \in Sessions PROVE row'[t] = row[t] \/ (row'[t] = "FAILED" /\ row[t] # "NONE")
  BY DEF ShutdownFinalize, Accepts, RowExists
<1>4. ASSUME NEW t \in Sessions PROVE Honest(t)'
  <2>1. /\ active'[t].evidence = active[t].evidence /\ active'[t].timedOut = active[t].timedOut
        /\ active'[t].terminateRequested = active[t].terminateRequested
    BY <1>1, Shapes DEF ActiveSession
  <2> QED
    BY <1>1, <1>2, <1>3, <2>1 DEF HonestInv, Honest, InStep, Verified
<1> QED
  BY <1>4 DEF HonestInv

LEMMA HonestHalt ==
  ASSUME TypeInv, RecordInv, Halt, HonestInv PROVE HonestInv'
<1>1. /\ UNCHANGED <<row, prog, boots>> /\ gw' = "down" /\ open' = {}
      /\ active' = [s \in Sessions |->
           IF s \in open THEN NoActive ELSE [active[s] EXCEPT !.escalation = "none"]]
      /\ engine' = [s \in Sessions |-> IF engine[s] \in {"launching", "running"} THEN "orphan" ELSE engine[s]]
      /\ pipe' = [s \in Sessions |-> <<>>]
  BY DEF Halt, db
<1>2. ASSUME NEW t \in Sessions PROVE Honest(t)'
  <2>1. Honest(t)
    BY DEF HonestInv
  <2>2. row[t] = "NONE" \/ row[t] \in {"COMPLETED", "CANCELLED"} => t \notin open
    BY Undecided
  <2>3. t \notin open => /\ active'[t].evidence = active[t].evidence /\ active'[t].timedOut = active[t].timedOut
                         /\ active'[t].terminateRequested = active[t].terminateRequested
    BY <1>1, Shapes DEF ActiveSession
  <2>4. pipe'[t] = <<>> /\ engine'[t] = IF engine[t] \in {"launching", "running"} THEN "orphan" ELSE engine[t]
    BY <1>1
  <2> QED
    BY <1>1, <2>1, <2>2, <2>3, <2>4 DEF Honest, InStep, Verified
<1> QED
  BY <1>2 DEF HonestInv

LEMMA HonestBoot ==
  ASSUME TypeInv, RecordInv, Boot, HonestInv PROVE HonestInv'
<1>1. /\ UNCHANGED <<active, open, engine, prog, pipe>> /\ gw = "down" /\ boots' = boots + 1
  BY DEF Boot, memory, os
<1>2. open = {} /\ boots' # 0
  BY <1>1, Shapes DEF RecordInv
<1>3. ASSUME NEW t \in Sessions PROVE row'[t] = row[t] \/ (row'[t] = "FAILED" /\ row[t] = "CREATED")
  BY DEF Boot, Stale
<1>4. ASSUME NEW t \in Sessions PROVE Honest(t)'
  BY <1>1, <1>2, <1>3 DEF HonestInv, Honest, InStep, Verified
<1> QED
  BY <1>4 DEF HonestInv

-----------------------------------------------------------------------------
LEMMA HonestInit == Init => HonestInv
BY DEF Init, HonestInv, Honest, InStep, Verified, NoActive

LEMMA HonestNext ==
  ASSUME NoSweepAtShutdown, TypeInv, RecordInv, HonestInv, Next PROVE HonestInv'
<1>1. ASSUME NEW s \in Sessions, SessionStep(s) PROVE HonestInv'
  <2>1. CASE Admit(s) \/ RefuseStart(s) \/ SpawnError(s) \/ Close(s)
    BY <2>1, HonestStart, HonestSpawnError, HonestClose
  <2>2. CASE DeliverLine(s) \/ Sample(s) \/ Timeout(s) \/ Terminate(s) \/ Escalate(s) \/ Delete(s)
    BY <2>2, HonestLine, HonestTimer, HonestDelete
  <2>3. CASE Sweep(s) \/ HolderEnds(s)
    <3>1. UNCHANGED <<row, engine, prog, pipe, boots, open, gw, active>>
      BY <2>3 DEF Sweep, HolderEnds, db, memory, os, control
    <3> QED
      BY <3>1, HonestQuiet
  <2>4. CASE EngineFork(s) \/ EngineRefuse(s) \/ EngineReap(s) \/ ProgramEnds(s) \/ KillTakesEffect(s)
    BY <2>4, HonestFork, HonestRefusal, HonestReap, HonestEnd
  <2> QED
    BY <1>1, <2>1, <2>2, <2>3, <2>4 DEF SessionStep
<1>2. CASE \/ \E c \in Clients : Disconnect(c) \/ \E s \in Sessions : Connect(c, s)
           \/ \E d \in Dashboards : OpenDashboard(d) \/ CloseDashboard(d)
  <2>1. UNCHANGED <<row, engine, prog, pipe, boots, open, gw, active>>
    BY <1>2 DEF Disconnect, Connect, OpenDashboard, CloseDashboard, db, memory, os, control
  <2> QED
    BY <2>1, HonestQuiet
<1>3. CASE ShutdownBegin \/ ShutdownFinalize
  BY <1>3, HonestShutdownBegin, HonestShutdownFinalize
<1>4. CASE ShutdownExit \/ Crash \/ Boot
  BY <1>4, HonestHalt, HonestBoot DEF ShutdownExit, Crash
<1> QED
  BY <1>1, <1>2, <1>3, <1>4 DEF Next

LEMMA HonestInvariant ==
  ASSUME NoSweepAtShutdown PROVE Spec => []HonestInv
<1>1. TypeInv /\ RecordInv /\ HonestInv /\ [Next]_vars => HonestInv'
  <2> SUFFICES ASSUME TypeInv, RecordInv, HonestInv, [Next]_vars PROVE HonestInv'
    OBVIOUS
  <2>1. CASE Next
    BY <2>1, HonestNext
  <2>2. CASE UNCHANGED vars
    BY <2>2, HonestQuiet DEF vars
  <2> QED
    BY <2>1, <2>2
<1> QED
  BY <1>1, HonestInit, RecordInvariant, PTL DEF Spec

(* A terminal status tells the truth about the program: COMPLETED only of  *)
(* a program that exited with 0 before its deadline, CANCELLED only of one *)
(* that died of a signal after somebody asked, and FAILED of a program     *)
(* that exited with 0 only when waitpid() lost it, as long as the gateway  *)
(* was neither shut down nor restarted.                                    *)
THEOREM VerdictsAreHonest ==
  ASSUME NoSweepAtShutdown PROVE Spec => []VerdictIsHonest
<1>1. HonestInv => VerdictIsHonest
  BY DEF HonestInv, Honest, Verified, VerdictIsHonest
<1> QED
  BY <1>1, HonestInvariant, PTL

-----------------------------------------------------------------------------
(* A telemetry sample lies inside the life of its process: after its start *)
(* and before every report of its end.                                     *)

Inside(h) ==
  \A e \in h : e.type = "process.snapshot" =>
    /\ \E f \in h : f.type = "process.started" /\ f.seq < e.seq
    /\ \A f \in h : f.type \in EndOfProcess \cup TerminalEvents => e.seq < f.seq

NoEnd(s)    == \A e \in log[s] : e.type \notin EndOfProcess
HasStart(s) == \E e \in log[s] : e.type = "process.started"

(* The start is the first line of an engine, so no end was recorded before *)
(* it; and a telemetry loop runs only between the start and the end.       *)
Sampled(s) ==
  /\ faults = 0 => Inside(log[s])
  /\ \A i \in 2 .. Len(pipe[s]) : pipe[s][i].type # "process.started"
  /\ engine[s] \in {"none", "launching"} \/ (pipe[s] # <<>> /\ Head(pipe[s]).type = "process.started") => NoEnd(s)
  /\ row[s] = "NONE" => ~active[s].sampling
  /\ faults = 0 /\ s \in registry /\ active[s].sampling /\ RowExists(s) => NoEnd(s) /\ HasStart(s)

SampledInv == \A s \in Sessions : Sampled(s)

LEMMA InsideGrow ==
  ASSUME NEW h, Inside(h), NEW new,
         \A e \in new : e.type # "process.snapshot", \A e \in new : \A f \in h : f.seq < e.seq
  PROVE  Inside(h \cup new)
BY DEF Inside

LEMMA InsideSample ==
  ASSUME NEW h, Inside(h), NEW y, y.type = "process.snapshot", \A f \in h : f.seq < y.seq,
         \E f \in h : f.type = "process.started",
         \A f \in h : f.type \notin EndOfProcess \cup TerminalEvents
  PROVE  Inside(h \cup {y})
<1>1. y.type \notin EndOfProcess \cup TerminalEvents
  BY DEF EndOfProcess, TerminalEvents
<1> QED
  BY <1>1 DEF Inside

LEMMA SampledSame ==
  ASSUME NEW t \in Sessions, Sampled(t), log'[t] = log[t], pipe'[t] = pipe[t], row'[t] = row[t],
         engine'[t] \in {"none", "launching"} => engine[t] \in {"none", "launching"},
         t \in registry' => t \in registry, active'[t].sampling => active[t].sampling,
         faults' = 0 => faults = 0
  PROVE  Sampled(t)'
BY DEF Sampled, NoEnd, HasStart, RowExists

(* Events that are neither samples nor ends of a process join the history, *)
(* and no telemetry loop runs.                                             *)
LEMMA SampledMore ==
  ASSUME NEW t \in Sessions, Sampled(t), NEW new, log'[t] = log[t] \cup new,
         \A e \in new : e.type # "process.snapshot" /\ e.type \notin EndOfProcess,
         \A e \in new : \A f \in log[t] : f.seq < e.seq,
         pipe'[t] = pipe[t],
         engine'[t] \in {"none", "launching"} => engine[t] \in {"none", "launching"},
         t \in registry' => ~active'[t].sampling, row'[t] = "NONE" => ~active'[t].sampling,
         faults' = 0 => faults = 0
  PROVE  Sampled(t)'
<1>1. faults' = 0 => Inside(log'[t])
  BY InsideGrow DEF Sampled
<1>2. NoEnd(t) => NoEnd(t)'
  BY DEF NoEnd
<1> QED
  BY <1>1, <1>2 DEF Sampled

LEMMA EndingTypes ==
  /\ \A type \in TerminalEvents : type # "process.snapshot" /\ type \notin EndOfProcess
  /\ "execution.created" \notin EndOfProcess /\ "execution.started" \notin EndOfProcess
  /\ "execution.failed" \in TerminalEvents /\ \A status : FinalType(status) \in TerminalEvents
  /\ "process.started" \notin EndOfProcess \cup TerminalEvents
  /\ "process.snapshot" \notin EndOfProcess \cup TerminalEvents
BY DEF TerminalEvents, EndOfProcess, FinalType

LEMMA SampledStart ==
  ASSUME TypeInv, RecordInv, SampledInv, NEW s \in Sessions, Admit(s) \/ RefuseStart(s)
  PROVE  SampledInv'
<1>1. /\ row[s] = "NONE" /\ log[s] = {} /\ UNCHANGED <<active, pipe>>
      /\ \A t \in Sessions : t # s => row'[t] = row[t] /\ engine'[t] = engine[t] /\ (t \in registry' => t \in registry)
      /\ row'[s] # "NONE" /\ engine'[s] \in {engine[s], "launching"}
  BY Shapes DEF Admit, RefuseStart, Register, memory, os, RecordInv, RecordOf
<1>2. PICK second \in {"execution.started", "execution.failed"} : \E kept \in SUBSET {Event(1, second)} :
        Written(kept, {Event(1, second)}) /\ Persist(Only(s, {Created} \cup kept))
  BY DEF Admit, RefuseStart
<1>3. PICK kept \in SUBSET {Event(1, second)} :
        Written(kept, {Event(1, second)}) /\ Persist(Only(s, {Created} \cup kept))
  BY <1>2
<1>4. \A t \in Sessions : log'[t] = log[t] \cup Only(s, {Created} \cup kept)[t]
  BY <1>3, PersistEffect
<1>5. faults' = 0 => faults = 0
  BY <1>3, WrittenEffect
<1>6. engine[s] \in {"none", "launching"} \/ engine'[s] \notin {"none", "launching"} \/ NoEnd(s)
  BY <1>1 DEF NoEnd
<1>7. Sampled(s)'
  <2>1. log'[s] = {Created} \cup kept
    BY <1>1, <1>4 DEF Only
  <2>2. \A e \in log'[s] : e.type # "process.snapshot" /\ e.type \notin EndOfProcess
    BY <1>2, <1>3, <2>1, EventFields, EndingTypes DEF Created
  <2>3. Sampled(s)
    BY DEF SampledInv
  <2> QED
    BY <1>1, <2>2, <2>3 DEF Sampled, Inside, NoEnd
<1>8. ASSUME NEW t \in Sessions, t # s PROVE Sampled(t)'
  <2>1. log'[t] = log[t]
    BY <1>4, <1>8 DEF Only
  <2> QED
    BY <1>1, <1>5, <1>8, <2>1, SampledSame DEF SampledInv
<1> QED
  BY <1>7, <1>8 DEF SampledInv

LEMMA SampledEnding ==
  ASSUME TypeInv, RecordInv, SampledInv, NEW s \in Sessions, SpawnError(s) \/ Close(s)
  PROVE  SampledInv'
<1>1. /\ s \in open /\ registry' = registry \ {s} /\ pipe' = pipe
      /\ active' = [active EXCEPT ![s].sampling = FALSE]
      /\ \A t \in Sessions : t # s => engine'[t] = engine[t] /\ row'[t] = row[t]
      /\ engine'[s] \in {engine[s], "done"}
  BY Shapes DEF SpawnError, Close, FinalizeFailed, Finalize, os
<1>2. ~active'[s].sampling /\ \A t \in Sessions : t # s => active'[t] = active[t]
  BY <1>1, Shapes DEF ActiveSession
<1>3. \E type \in TerminalEvents : Emit(s, {Event(nextSeq[s], type)})
  <2>1. CASE SpawnError(s)
    BY <2>1, EndingTypes DEF SpawnError, FinalizeFailed
  <2>2. CASE Close(s)
    BY <2>2, EndingTypes DEF Close, Finalize, Emit
  <2> QED
    BY <2>1, <2>2
<1>4. PICK type \in TerminalEvents : Emit(s, {Event(nextSeq[s], type)})
  BY <1>3
<1>5. PICK stored \in SUBSET {e \in {Event(nextSeq[s], type)} : Accepts(s, e)} :
        /\ \A t \in Sessions : log'[t] = IF t = s THEN log[s] \cup stored ELSE log[t]
        /\ faults' = 0 => faults = 0
  BY <1>4, EmitEffect
<1>6. \A e \in stored : e.seq = nextSeq[s] /\ e.type = type
  BY <1>5, EventFields
<1>7. Sampled(s)'
  <2>1. Sampled(s)
    BY DEF SampledInv
  <2>2. \A e \in stored : \A f \in log[s] : f.seq < e.seq
    BY <1>1, <1>6, OpenAbove
  <2>3. \A e \in stored : e.type # "process.snapshot" /\ e.type \notin EndOfProcess
    BY <1>6, EndingTypes
  <2>4. log'[s] = log[s] \cup stored
    BY <1>5
  <2> QED
    BY <1>1, <1>2, <1>5, <2>1, <2>2, <2>3, <2>4, SampledMore
<1>8. ASSUME NEW t \in Sessions, t # s PROVE Sampled(t)'
  <2>1. log'[t] = log[t]
    BY <1>5, <1>8
  <2> QED
    BY <1>1, <1>2, <1>5, <1>8, <2>1, SampledSame DEF SampledInv
<1> QED
  BY <1>7, <1>8 DEF SampledInv

(* The history of an open session has no terminal event.                   *)
LEMMA OpenHasNoEnding ==
  ASSUME TypeInv, RecordInv, NEW s \in Sessions, s \in open
  PROVE  \A f \in log[s] : f.type \notin TerminalEvents
BY DEF RecordInv, RecordOf, Owned, Terminals

LEMMA SampledSample ==
  ASSUME TypeInv, RecordInv, SampledInv, NEW s \in Sessions, Sample(s)
  PROVE  SampledInv'
<1> DEFINE y == Event(nextSeq[s], "process.snapshot")
<1>1. /\ s \in registry /\ s \in open /\ active[s].sampling /\ Emit(s, {y})
      /\ UNCHANGED <<row, registry, pipe, engine>>
      /\ \A t \in Sessions : t # s => active'[t] = active[t]
  BY Shapes DEF Sample, RecordInv, os
<1>2. PICK stored \in SUBSET {e \in {y} : Accepts(s, e)} :
        /\ \A t \in Sessions : log'[t] = IF t = s THEN log[s] \cup stored ELSE log[t]
        /\ faults' = 0 => faults = 0 /\ stored = {e \in {y} : Accepts(s, e)}
  BY <1>1, EmitEffect
<1>3. y.seq = nextSeq[s] /\ y.type = "process.snapshot"
  BY EventFields
<1> HIDE DEF y
<1>4. Sampled(s) /\ row[s] # "NONE"
  BY <1>1, OpenAbove DEF SampledInv
<1>5. stored = {} \/ stored = {y}
  BY <1>2
<1>6. NoEnd(s) => NoEnd(s)'
  BY <1>2, <1>3, <1>5, EndingTypes DEF NoEnd
<1>7. HasStart(s) => HasStart(s)'
  BY <1>2 DEF HasStart
<1>8. faults' = 0 => Inside(log'[s])
  <2>1. CASE stored = {}
    BY <1>2, <1>4, <2>1 DEF Sampled
  <2>2. CASE stored = {y}
    <3> SUFFICES ASSUME faults' = 0 PROVE Inside(log'[s])
      OBVIOUS
    <3>1. RowExists(s) /\ faults = 0
      BY <1>2, <2>2 DEF Accepts
    <3>2. NoEnd(s) /\ HasStart(s) /\ Inside(log[s])
      BY <1>1, <1>4, <3>1 DEF Sampled
    <3>3. \A f \in log[s] : f.seq < y.seq /\ f.type \notin TerminalEvents
      BY <1>1, <1>3, OpenAbove, OpenHasNoEnding
    <3>4. log'[s] = log[s] \cup {y}
      BY <1>2, <2>2
    <3> QED
      BY <1>3, <3>2, <3>3, <3>4, InsideSample DEF NoEnd, HasStart
  <2> QED
    BY <1>5, <2>1, <2>2
<1>9. Sampled(s)'
  BY <1>1, <1>2, <1>4, <1>6, <1>7, <1>8 DEF Sampled, RowExists
<1>10. ASSUME NEW t \in Sessions, t # s PROVE Sampled(t)'
  BY <1>1, <1>2, <1>10, SampledSame DEF SampledInv
<1> QED
  BY <1>9, <1>10 DEF SampledInv

(* A line that starts a telemetry loop, a line read for an open session,   *)
(* and a line read late.                                                   *)
LEMMA SampledLine ==
  ASSUME TypeInv, RecordInv, ReadingInv, HonestInv, SampledInv, NEW s \in Sessions, DeliverLine(s)
  PROVE  SampledInv'
<1> DEFINE line == Head(pipe[s])
           x    == Event(nextSeq[s], line.type)
           y    == Event(nextSeq[s] + 1, "process.snapshot")
<1>1. /\ pipe[s] # <<>> /\ pipe' = [pipe EXCEPT ![s] = Tail(@)]
      /\ UNCHANGED <<row, engine, registry>>
      /\ Emit(s, {x} \cup (IF StartsLoop(s) THEN {y} ELSE {}))
      /\ active' = IF s \in registry THEN [active EXCEPT ![s] = Observed(@, line, engine[s] = "running")]
                   ELSE active
  BY DEF DeliverLine
<1>2. x.seq = nextSeq[s] /\ x.type = line.type /\ y.seq = nextSeq[s] + 1 /\ y.type = "process.snapshot"
  BY EventFields
<1>3. /\ pipe'[s] = Tail(pipe[s]) /\ pipe[s] \in Seq(Lines) /\ line \in Lines
      /\ \A t \in Sessions : t # s => pipe'[t] = pipe[t] /\ active'[t] = active[t]
  BY <1>1, Shapes
<1>4. Sampled(s)
  BY DEF SampledInv
<1>5. /\ engine[s] \notin {"none", "launching"} /\ nextSeq[s] \in Nat
      /\ \A f \in log[s] : f.seq <= nextSeq[s] /\ f.seq \in Nat
  <2>1. nextSeq[s] \in Nat /\ \A f \in log[s] : f.seq \in Nat
    BY DEF TypeInv, TypeOK, Entry
  <2> QED
    BY <1>1, <2>1 DEF HonestInv, Honest, InStep, ReadingInv, Reading, BeingRead
<1>6. /\ \A i \in 2 .. Len(pipe'[s]) : pipe'[s][i].type # "process.started"
      /\ pipe'[s] # <<>> => Head(pipe'[s]).type # "process.started"
  <2>1. Len(pipe'[s]) = Len(pipe[s]) - 1 /\ Len(pipe[s]) \in Nat
        /\ \A i \in 1 .. Len(pipe'[s]) : pipe'[s][i] = pipe[s][i + 1]
    <3>1. pipe[s] # <<>>
      BY <1>1
    <3>2. Len(pipe[s]) \in Nat
      BY <1>3
    <3> QED
      BY <1>3, <3>1, <3>2, HeadTailProperties
  <2>2. \A i \in 1 .. Len(pipe'[s]) : pipe'[s][i].type # "process.started"
    BY <1>4, <2>1 DEF Sampled
  <2>3. pipe'[s] # <<>> => Head(pipe'[s]) = pipe'[s][1] /\ 1 \in 1 .. Len(pipe'[s])
    BY <1>3
  <2> QED
    BY <2>1, <2>2, <2>3
<1>7. s \in registry => s \in open
  BY DEF RecordInv
<1>8. row[s] # "NONE" \/ s \notin registry
  BY <1>7, OpenAbove
<1>9. /\ s \notin registry => active'[s] = active[s]
      /\ s \in registry =>
           active'[s].sampling = IF line.type = "process.started" THEN engine[s] = "running"
                                 ELSE active[s].sampling /\ line.type \notin EndOfProcess
  BY <1>1, Shapes DEF Observed, ActiveSession
<1>10. ASSUME NEW t \in Sessions, t # s PROVE Sampled(t)'
  <2>1. log'[t] = log[t] /\ (faults' = 0 => faults = 0)
    BY <1>1, <1>10, EmitEffect
  <2> QED
    BY <1>1, <1>3, <1>10, <2>1, SampledSame DEF SampledInv
<1> HIDE DEF x, y, line
<1>11. CASE ~StartsLoop(s)
  <2>1. Emit(s, {x})
    <3>1. {x} \cup (IF StartsLoop(s) THEN {y} ELSE {}) = {x}
      BY <1>11
    <3> QED
      BY <1>1, <3>1
  <2>2. PICK stored \in SUBSET {e \in {x} : Accepts(s, e)} :
          /\ \A t \in Sessions : log'[t] = IF t = s THEN log[s] \cup stored ELSE log[t]
          /\ faults' = 0 => faults = 0 /\ stored = {e \in {x} : Accepts(s, e)}
    BY <2>1, EmitEffect
  <2>3. \A e \in stored : e = x /\ \A f \in log[s] : f.seq < e.seq
    <3>1. \A e \in stored : e = x /\ \A f \in log[s] : f.seq # e.seq
      BY <2>2 DEF Accepts
    <3> QED
      BY <1>2, <1>5, <3>1
  <2>4. x.type # "process.snapshot"
    BY <1>2, <1>3 DEF Lines, EngineEvents
  <2>5. faults' = 0 => Inside(log'[s])
    <3>1. log'[s] = log[s] \cup stored /\ \A e \in stored : e.type # "process.snapshot"
      BY <2>2, <2>3, <2>4
    <3>2. faults' = 0 => Inside(log[s])
      BY <1>4, <2>2 DEF Sampled
    <3>3. Inside(log[s]) => Inside(log[s] \cup stored)
      BY <2>3, <3>1, InsideGrow
    <3> QED
      BY <3>1, <3>2, <3>3
  <2>6. s \in registry => line.type # "process.started"
    BY <1>11 DEF StartsLoop, line
  <2>7. s \in registry /\ active'[s].sampling => active[s].sampling /\ line.type \notin EndOfProcess
    BY <1>9, <2>6
  <2>8. line.type \notin EndOfProcess /\ NoEnd(s) => NoEnd(s)'
    BY <1>2, <2>2, <2>3 DEF NoEnd
  <2>9. HasStart(s) => HasStart(s)'
    BY <2>2 DEF HasStart
  <2>10. Sampled(s)'
    BY <1>1, <1>4, <1>5, <1>6, <1>8, <1>9, <2>2, <2>5, <2>7, <2>8, <2>9 DEF Sampled, RowExists
  <2> QED
    BY <1>10, <2>10 DEF SampledInv
<1>12. CASE StartsLoop(s)
  <2>1. s \in registry /\ s \in open /\ line.type = "process.started"
    BY <1>7, <1>12 DEF StartsLoop, line
  <2>2. PICK stored \in SUBSET {e \in {x, y} : Accepts(s, e)} :
          /\ \A t \in Sessions : log'[t] = IF t = s THEN log[s] \cup stored ELSE log[t]
          /\ faults' = 0 => faults = 0 /\ stored = {e \in {x, y} : Accepts(s, e)}
    <3>1. {x} \cup (IF StartsLoop(s) THEN {y} ELSE {}) = {x, y}
      BY <1>12
    <3>2. Emit(s, {x, y})
      BY <1>1, <3>1
    <3> QED
      BY <3>2, EmitEffect
  <2>3. NoEnd(s)
    BY <1>1, <1>4, <2>1 DEF Sampled, line
  <2>4. /\ nextSeq[s] \in Nat
        /\ \A f \in log[s] : f.seq < nextSeq[s] /\ f.seq < nextSeq[s] + 1 /\ f.type \notin TerminalEvents
    BY <2>1, OpenAbove, OpenHasNoEnding
  <2>5. NoEnd(s)'
    BY <1>2, <2>1, <2>2, <2>3, EndingTypes DEF NoEnd
  <2>6. faults' = 0 => Inside(log'[s]) /\ (RowExists(s) => HasStart(s)')
    <3> SUFFICES ASSUME faults' = 0 PROVE Inside(log'[s]) /\ (RowExists(s) => HasStart(s)')
      OBVIOUS
    <3>1. Inside(log[s])
      BY <1>4, <2>2 DEF Sampled
    <3>2. CASE ~RowExists(s)
      <4>1. stored = {}
        BY <2>2, <3>2 DEF Accepts
      <4> QED
        BY <2>2, <3>1, <3>2, <4>1
    <3>3. CASE RowExists(s)
      <4>1. Accepts(s, x) /\ Accepts(s, y)
        BY <1>2, <2>1, <2>4, <3>3, OpenAccepts
      <4>2. log'[s] = (log[s] \cup {x}) \cup {y}
        BY <2>2, <4>1
      <4>3. Inside(log[s] \cup {x})
        <5>1. x.type # "process.snapshot"
          BY <1>2, <2>1
        <5>2. \A e \in {x} : \A f \in log[s] : f.seq < e.seq
          BY <1>2, <2>4
        <5> QED
          BY <3>1, <5>1, <5>2, InsideGrow
      <4>4. \A f \in log[s] \cup {x} : f.seq < y.seq
        BY <1>2, <2>4
      <4>5. \A f \in log[s] \cup {x} : f.type \notin EndOfProcess \cup TerminalEvents
        BY <1>2, <2>1, <2>3, <2>4, EndingTypes DEF NoEnd
      <4>6. \E f \in log[s] \cup {x} : f.type = "process.started"
        BY <1>2, <2>1
      <4>7. Inside(log'[s])
        BY <1>2, <4>2, <4>3, <4>4, <4>5, <4>6, InsideSample
      <4> QED
        BY <1>2, <2>1, <4>2, <4>7 DEF HasStart
    <3> QED
      BY <3>2, <3>3
  <2>7. Sampled(s)'
    BY <1>1, <1>6, <1>8, <2>1, <2>2, <2>5, <2>6 DEF Sampled, RowExists
  <2> QED
    BY <1>10, <2>7 DEF SampledInv
<1> QED
  BY <1>11, <1>12

(* The engine writes the start first, and never again.                     *)
LEMMA SampledEngine ==
  ASSUME TypeInv, HonestInv, SampledInv, NEW s \in Sessions, EngineFork(s) \/ EngineRefuse(s) \/ EngineReap(s)
  PROVE  SampledInv'
<1>1. /\ UNCHANGED <<row, log, registry, active, faults>>
      /\ \A t \in Sessions : t # s => engine'[t] = engine[t] /\ pipe'[t] = pipe[t]
      /\ engine'[s] \notin {"none", "launching"}
  BY Shapes DEF EngineFork, EngineRefuse, EngineReap, Reported, memory, db
<1>2. Sampled(s) /\ InStep(s) /\ pipe[s] \in Seq(Lines)
  BY Shapes DEF SampledInv, HonestInv, Honest
<1>3. ASSUME NEW t \in Sessions, t # s PROVE Sampled(t)'
  BY <1>1, <1>3, SampledSame DEF SampledInv
<1>4. /\ \A i \in 2 .. Len(pipe'[s]) : pipe'[s][i].type # "process.started"
      /\ pipe'[s] # <<>> /\ Head(pipe'[s]).type = "process.started" => NoEnd(s)
  <2>1. CASE EngineFork(s)
    <3>1. CASE engine[s] = "orphan"
      BY <1>2, <2>1, <3>1 DEF EngineFork, Reported, Sampled
    <3>2. CASE engine[s] # "orphan"
      <4>1. engine[s] = "launching" /\ pipe[s] = <<>>
        BY <1>2, <2>1, <3>2 DEF EngineFork, InStep
      <4>2. pipe'[s] = <<Line("process.started", "none")>>
        BY <2>1, <3>2, <4>1, Shapes DEF EngineFork, Reported
      <4> QED
        BY <1>2, <4>1, <4>2 DEF Sampled
    <3> QED
      BY <3>1, <3>2
  <2>2. CASE EngineRefuse(s)
    <3>1. engine[s] = "launching" /\ pipe[s] = <<>>
      BY <1>2, <2>2 DEF EngineRefuse, InStep
    <3>2. \E line : pipe'[s] = <<line, Summary>>
      BY <2>2, <3>1, Shapes DEF EngineRefuse, Reported
    <3>3. PICK line : pipe'[s] = <<line, Summary>>
      BY <3>2
    <3>4. \A i \in 2 .. Len(pipe'[s]) : pipe'[s][i] = Summary
      BY <3>3
    <3> QED
      BY <1>2, <3>1, <3>4 DEF Sampled, Summary, Line
  <2>3. CASE EngineReap(s)
    <3>1. PICK how \in {prog[s], "unknown"} : pipe' = [pipe EXCEPT ![s] = @ \o Exit(how)]
      BY <2>3 DEF EngineReap, Reported, Exit
    <3>2. how \in {"ok", "failed", "signaled", "noexec", "unknown"}
      BY <2>3, <3>1, Shapes DEF EngineReap
    <3>3. Exit(how) \in Seq(Lines) /\ \A i \in 1 .. Len(Exit(how)) : Exit(how)[i].type # "process.started"
      <4>1. Exit(how) \in Seq(Lines) /\ \A line \in Range(Exit(how)) : line.type # "process.started"
        BY <3>2, ExitTells
      <4>2. \A i \in 1 .. Len(Exit(how)) : Exit(how)[i] \in Range(Exit(how))
        BY <4>1, RangeEquality
      <4> QED
        BY <4>1, <4>2
    <3>4. pipe'[s] = pipe[s] \o Exit(how)
      BY <3>1, Shapes
    <3>5. /\ Len(pipe'[s]) = Len(pipe[s]) + Len(Exit(how)) /\ Len(pipe[s]) \in Nat /\ Len(Exit(how)) \in Nat
          /\ \A i \in 1 .. Len(pipe'[s]) :
               \/ i \in 1 .. Len(pipe[s]) /\ pipe'[s][i] = pipe[s][i]
               \/ i - Len(pipe[s]) \in 1 .. Len(Exit(how)) /\ pipe'[s][i] = Exit(how)[i - Len(pipe[s])]
      BY <1>2, <3>3, <3>4
    <3>6. \A i \in 2 .. Len(pipe'[s]) : pipe'[s][i].type # "process.started"
      <4> TAKE i \in 2 .. Len(pipe'[s])
      <4>1. i \in 1 .. Len(pipe'[s]) /\ (i \in 1 .. Len(pipe[s]) => i \in 2 .. Len(pipe[s]))
        BY <3>5
      <4> QED
        BY <1>2, <3>3, <3>5, <4>1 DEF Sampled
    <3>7. pipe'[s] # <<>> /\ Head(pipe'[s]).type = "process.started" =>
            pipe[s] # <<>> /\ Head(pipe[s]).type = "process.started"
      <4>1. pipe'[s] \in Seq(Lines)
        BY <1>2, <3>3, <3>4
      <4>2. pipe'[s] # <<>> => Head(pipe'[s]) = pipe'[s][1] /\ 1 \in 1 .. Len(pipe'[s])
        BY <4>1
      <4>3. pipe[s] # <<>> => Head(pipe[s]) = pipe[s][1]
        BY <1>2
      <4>4. 1 \in 1 .. Len(pipe[s]) => pipe[s] # <<>>
        BY <1>2
      <4> QED
        BY <3>3, <3>5, <4>2, <4>3, <4>4
    <3> QED
      BY <1>2, <3>6, <3>7 DEF Sampled
  <2> QED
    BY <2>1, <2>2, <2>3
<1>5. Sampled(s)'
  BY <1>1, <1>2, <1>4 DEF Sampled, NoEnd, HasStart, RowExists
<1> QED
  BY <1>3, <1>5 DEF SampledInv

LEMMA SampledDelete ==
  ASSUME TypeInv, SampledInv, NEW s \in Sessions, Delete(s) PROVE SampledInv'
<1>1. /\ row'[s] = "DELETED" /\ log'[s] = {} /\ UNCHANGED <<registry, active, engine, pipe, faults>>
      /\ \A t \in Sessions : t # s => row'[t] = row[t] /\ log'[t] = log[t]
  BY Shapes DEF Delete, memory, os, TypeInv, TypeOK
<1>2. Sampled(s)'
  BY <1>1 DEF SampledInv, Sampled, Inside, NoEnd, RowExists
<1>3. ASSUME NEW t \in Sessions, t # s PROVE Sampled(t)'
  BY <1>1, <1>3, SampledSame DEF SampledInv
<1> QED
  BY <1>2, <1>3 DEF SampledInv

(* A shutdown and a boot add endings, above all that was recorded.         *)
LEMMA SampledAbandoned ==
  ASSUME TypeInv, RecordInv, SampledInv, ShutdownFinalize \/ Boot PROVE SampledInv'
<1>1. PICK stored :
        /\ Persist(stored) /\ (faults' = 0 => faults = 0)
        /\ \A s \in Sessions : \A e \in stored[s] :
             e.type = "execution.failed" /\ \A f \in log[s] : f.seq < e.seq
  <2>1. CASE ShutdownFinalize
    <3> DEFINE last(s)  == IF s \in registry THEN Event(nextSeq[s], "execution.failed") ELSE Recovery(s)
               accepted == {s \in Sessions : (s \in registry \/ Stale(s)) /\ Accepts(s, last(s))}
    <3>1. PICK kept \in SUBSET accepted :
            /\ Written(kept, accepted)
            /\ Persist([s \in Sessions |-> IF s \in kept THEN {last(s)} ELSE {}])
      BY <2>1 DEF ShutdownFinalize
    <3>2. ASSUME NEW s \in Sessions
          PROVE  last(s).type = "execution.failed" /\ \A f \in log[s] : f.seq < last(s).seq
      <4>1. s \in registry => s \in open
        BY DEF RecordInv
      <4>2. Recovery(s).type = "execution.failed"
        BY EventFields DEF Recovery
      <4> QED
        BY <4>1, <4>2, OpenAbove, RecoveryAbove, EventFields
    <3>3. faults' = 0 => faults = 0
      BY <3>1, WrittenEffect
    <3> HIDE DEF last, accepted
    <3> WITNESS [s \in Sessions |-> IF s \in kept THEN {last(s)} ELSE {}]
    <3> QED
      BY <3>1, <3>2, <3>3
  <2>2. CASE Boot
    <3> DEFINE accepted == {s \in Sessions : Stale(s) /\ Accepts(s, Recovery(s))}
    <3>1. PICK kept \in SUBSET accepted :
            /\ Written(kept, accepted)
            /\ Persist([s \in Sessions |-> IF s \in kept THEN {Recovery(s)} ELSE {}])
      BY <2>2 DEF Boot
    <3>2. ASSUME NEW s \in Sessions
          PROVE  /\ Recovery(s).type = "execution.failed"
                 /\ \A f \in log[s] : f.seq < Recovery(s).seq
      BY RecoveryAbove, EventFields DEF Recovery
    <3>3. faults' = 0 => faults = 0
      BY <3>1, WrittenEffect
    <3> HIDE DEF accepted
    <3> WITNESS [s \in Sessions |-> IF s \in kept THEN {Recovery(s)} ELSE {}]
    <3> QED
      BY <3>1, <3>2, <3>3
  <2> QED
    BY <2>1, <2>2
<1>2. /\ UNCHANGED <<engine, pipe>> /\ registry' = {}
      /\ \A s \in Sessions : row'[s] = "NONE" => row[s] = "NONE"
      /\ \A s \in Sessions : active'[s].sampling => active[s].sampling
  <2>1. CASE ShutdownFinalize
    BY <2>1, Shapes DEF ShutdownFinalize, os, ActiveSession
  <2>2. CASE Boot
    BY <2>2 DEF Boot, memory, os, RecordInv
  <2> QED
    BY <2>1, <2>2
<1>3. ASSUME NEW t \in Sessions PROVE Sampled(t)'
  <2>1. Sampled(t) /\ log'[t] = log[t] \cup stored[t]
    BY <1>1, PersistEffect DEF SampledInv
  <2>2. row'[t] = "NONE" => ~active'[t].sampling
    BY <1>2, <2>1 DEF Sampled
  <2>3. \A e \in stored[t] : e.type # "process.snapshot" /\ e.type \notin EndOfProcess
    BY <1>1, EndingTypes
  <2> QED
    BY <1>1, <1>2, <2>1, <2>2, <2>3, SampledMore
<1> QED
  BY <1>3 DEF SampledInv

LEMMA SampledHalt ==
  ASSUME TypeInv, RecordInv, SampledInv, Halt PROVE SampledInv'
<1>1. /\ UNCHANGED <<row, log, faults>> /\ registry' = {} /\ pipe' = [s \in Sessions |-> <<>>]
      /\ engine' = [s \in Sessions |-> IF engine[s] \in {"launching", "running"} THEN "orphan" ELSE engine[s]]
      /\ active' = [s \in Sessions |->
           IF s \in open THEN NoActive ELSE [active[s] EXCEPT !.escalation = "none"]]
  BY DEF Halt, db
<1>2. ASSUME NEW t \in Sessions PROVE Sampled(t)'
  <2>1. Sampled(t) /\ pipe'[t] = <<>> /\ (engine'[t] \in {"none", "launching"} => engine[t] = "none")
    BY <1>1, Shapes DEF SampledInv
  <2>2. active'[t].sampling => active[t].sampling
    BY <1>1, Shapes DEF NoActive, ActiveSession
  <2>3. \A i \in 2 .. Len(pipe'[t]) : FALSE
    BY <2>1
  <2> QED
    BY <1>1, <2>1, <2>2, <2>3 DEF Sampled, NoEnd, HasStart, RowExists
<1> QED
  BY <1>2 DEF SampledInv

LEMMA SampledQuiet ==
  ASSUME SampledInv, UNCHANGED <<row, log, pipe, engine, faults>>, registry' \subseteq registry,
         \A t \in Sessions : active'[t].sampling => active[t].sampling
  PROVE  SampledInv'
BY SampledSame DEF SampledInv

LEMMA SampledNext ==
  ASSUME TypeInv, RecordInv, ReadingInv, HonestInv, SampledInv, Next PROVE SampledInv'
<1> USE DEF db, memory, os
<1>1. ASSUME NEW s \in Sessions, SessionStep(s) PROVE SampledInv'
  <2>1. CASE Admit(s) \/ RefuseStart(s) \/ SpawnError(s) \/ Close(s)
    BY <2>1, SampledStart, SampledEnding
  <2>2. CASE DeliverLine(s) \/ Sample(s) \/ Delete(s)
    BY <2>2, SampledLine, SampledSample, SampledDelete
  <2>3. CASE Timeout(s) \/ Terminate(s) \/ Escalate(s)
    <3>1. UNCHANGED <<row, log, pipe, engine, faults, registry>>
      BY <2>3 DEF Timeout, Terminate, Escalate
    <3>2. \A t \in Sessions : active'[t].sampling => active[t].sampling
      <4>1. CASE Timeout(s)
        BY <4>1, Shapes DEF Timeout, ActiveSession
      <4>2. CASE Terminate(s)
        BY <4>2, Shapes DEF Terminate, ActiveSession
      <4>3. CASE Escalate(s)
        BY <4>3, Shapes DEF Escalate, ActiveSession
      <4> QED
        BY <2>3, <4>1, <4>2, <4>3
    <3> QED
      BY <3>1, <3>2, SampledQuiet
  <2>4. CASE Sweep(s) \/ ProgramEnds(s) \/ KillTakesEffect(s) \/ HolderEnds(s)
    <3>1. UNCHANGED <<row, log, pipe, engine, faults, active>> /\ registry' \subseteq registry
      BY <2>4 DEF Sweep, ProgramEnds, KillTakesEffect, HolderEnds
    <3> QED
      BY <3>1, SampledQuiet
  <2>5. CASE EngineFork(s) \/ EngineRefuse(s) \/ EngineReap(s)
    BY <2>5, SampledEngine
  <2> QED
    BY <1>1, <2>1, <2>2, <2>3, <2>4, <2>5 DEF SessionStep
<1>2. CASE \/ \E c \in Clients : Disconnect(c) \/ \E s \in Sessions : Connect(c, s)
           \/ \E d \in Dashboards : OpenDashboard(d) \/ CloseDashboard(d)
  <2>1. UNCHANGED <<row, log, pipe, engine, faults, active, registry>>
    BY <1>2 DEF Disconnect, Connect, OpenDashboard, CloseDashboard
  <2> QED
    BY <2>1, SampledQuiet
<1>3. CASE ShutdownBegin
  <2>1. UNCHANGED <<row, log, pipe, engine, faults, registry>>
    BY <1>3 DEF ShutdownBegin
  <2>2. \A t \in Sessions : active'[t].sampling => active[t].sampling
    BY <1>3, Shapes DEF ShutdownBegin, ActiveSession
  <2> QED
    BY <2>1, <2>2, SampledQuiet
<1>4. CASE ShutdownFinalize \/ Boot
  BY <1>4, SampledAbandoned
<1>5. CASE ShutdownExit \/ Crash
  BY <1>5, SampledHalt DEF ShutdownExit, Crash
<1> QED
  BY <1>1, <1>2, <1>3, <1>4, <1>5 DEF Next

(* As long as no write fails, a telemetry sample is recorded after the     *)
(* start of its process and before the report of its end: the loop is      *)
(* started by the one line and stopped by the other, and what is emitted   *)
(* is numbered in that order.                                              *)
THEOREM SamplesStayInside ==
  ASSUME NoSweepAtShutdown PROVE Spec => []SamplesInsideProcess
<1>1. Init => ReadingInv /\ SampledInv
  BY DEF Init, ReadingInv, Reading, BeingRead, SampledInv, Sampled, Inside, NoEnd, NoActive
<1>2. TypeInv /\ TypeInv' /\ RecordInv /\ RecordInv' /\ HonestInv /\ ReadingInv /\ SampledInv /\ [Next]_vars
      => ReadingInv' /\ SampledInv'
  <2> SUFFICES ASSUME TypeInv, TypeInv', RecordInv, RecordInv', HonestInv, ReadingInv, SampledInv, [Next]_vars
               PROVE  ReadingInv' /\ SampledInv'
    OBVIOUS
  <2>1. CASE Next
    BY <2>1, ReadingNext, SampledNext
  <2>2. CASE UNCHANGED vars
    BY <2>2, ReadingSame, SampledQuiet DEF vars
  <2> QED
    BY <2>1, <2>2
<1>3. SampledInv => SamplesInsideProcess
  BY DEF SampledInv, Sampled, Inside, SamplesInsideProcess
<1> QED
  BY <1>1, <1>2, <1>3, HonestInvariant, RecordInvariant, PTL DEF Spec
=============================================================================
