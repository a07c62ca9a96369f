--------------------------- MODULE PipelineProofs ---------------------------
(***************************************************************************)
(* What holds of the engine for every number of stages, every choice of    *)
(* redirections and every set of faults: who holds which descriptor; that  *)
(* the lines say what is true of the stages and all of it; that a runner   *)
(* that reads them decides COMPLETED only for a line that ran in full;     *)
(* that the gateway's validator notices what the record has lost; and that *)
(* the views of the record say what became of the processes.               *)
(***************************************************************************)
EXTENDS PipelineViews, SequenceTheorems, FiniteSetTheorems, TLAPS

(* Induction over the naturals                                             *)

(* Every set of naturals has a smallest member.                            *)
LEMMA SmallestOf ==
  ASSUME NEW T \in SUBSET Nat, T # {}
  PROVE  \E k \in T : \A j \in T : k <= j
<1> DEFINE R == OpToRel(<, Nat)
<1>1. IsWellFoundedOn(R, Nat)
  BY NatLessThanWellFounded
<1>2. \A x, y \in Nat : x < y => <<x, y>> \in R
  BY DEF OpToRel
<1> HIDE DEF R
<1>3. PICK k \in T : \A j \in T : ~(<<j, k>> \in R)
  BY <1>1, WFMin, Zenon
<1>4. ASSUME NEW j \in T PROVE k <= j
  <2>1. k \in Nat /\ j \in Nat
    BY Zenon
  <2>2. ~(j < k)
    BY <1>2, <1>3, <2>1, Zenon
  <2> QED
    BY <2>1, <2>2
<1> QED
  BY <1>4

(* What holds of 0, and of k + 1 when of k, holds of all.                  *)
LEMMA Reached ==
  ASSUME NEW T \in SUBSET Nat, 0 \in T, \A k \in T : k + 1 \in T
  PROVE  T = Nat
<1> SUFFICES ASSUME T # Nat PROVE FALSE
  OBVIOUS
<1>1. PICK m \in Nat \ T : \A k \in Nat \ T : m <= k
  BY SmallestOf
<1>2. m # 0 /\ m - 1 \in Nat /\ ~(m <= m - 1) /\ (m - 1) + 1 = m
  BY <1>1
<1>3. m - 1 \in T
  BY <1>1, <1>2
<1> QED
  BY <1>1, <1>2, <1>3

------------------------------------------------------------------------------
USE StagesAssumption, RedirectionsAssumption DEF Engine

(* The descriptors                                                         *)

LEMMA SetsOfDescriptors ==
  ASSUME TypeOK, NEW i \in Stages
  PROVE  /\ PipeEnds \subseteq Descriptors /\ Own(i) \subseteq Descriptors
         /\ StatusPipe(i) \subseteq Descriptors /\ Files(i) \subseteq Descriptors
         /\ Forked(i) \subseteq Descriptors /\ Kept(i) \subseteq Descriptors
<1> USE DEF TypeOK, Descriptors, Stages, Processes
<1>1. PipeEnds \subseteq Descriptors
  BY DEF PipeEnds
<1>2. Own(i) \subseteq Descriptors
  BY <1>1 DEF Own
<1>3. StatusPipe(i) \subseteq Descriptors
  BY DEF StatusPipe
<1>4. redir[i] \subseteq {"r", "w"}
  OBVIOUS
<1>5. Files(i) \subseteq Descriptors
  BY <1>4 DEF Files
<1>6. fds[Engine] \subseteq Descriptors /\ fds[i] \subseteq Descriptors
  <2>1. Engine \in Processes /\ i \in Processes
    OBVIOUS
  <2> QED
    BY <2>1
<1>7. Forked(i) \subseteq Descriptors
  BY <1>3, <1>5, <1>6 DEF Forked
<1>8. Kept(i) \subseteq Descriptors
  BY <1>6 DEF Kept
<1> QED
  BY <1>1, <1>2, <1>3, <1>5, <1>7, <1>8

LEMMA SetsOfLines ==
  ASSUME TypeOK, NEW i \in Stages, i < n,
         NEW type \in LineTypes, NEW outcome \in Outcomes, NEW p \in Processes
  PROVE  /\ StageLine(type, i, outcome) \in StageLines
         /\ Unplaced(type, p, outcome) \in StageLines
         /\ Envelope(type, p, 0, outcome) \in StageLines
         /\ Envelope(type, p, -1, outcome) \in StageLines
         /\ [StageLine(type, i, outcome) EXCEPT !.proc = Engine] \in StageLines
         /\ [StageLine(type, i, outcome) EXCEPT !.stages = 0] \in StageLines
<1>1. /\ n \in 0 .. MaxStages /\ 0 \in 0 .. MaxStages
      /\ i \in Processes /\ Engine \in Processes
      /\ i \in -1 .. MaxStages - 1 /\ 0 \in -1 .. MaxStages - 1 /\ -1 \in -1 .. MaxStages - 1
  BY DEF TypeOK, Stages, Processes
<1> QED
  BY <1>1 DEF StageLine, Unplaced, Envelope, StageLines

LEMMA EndLinesType ==
  ASSUME TypeOK, NEW i \in Stages, i < n, NEW how
  PROVE  EndLines(i, how) \in Seq(StageLines)
<1>1. {"process.exited", "process.exec_error", "signal.received"} \subseteq LineTypes
  BY DEF LineTypes, EngineEvents
<1>2. {"COMPLETED", "EXITED", "SIGNALED", "EXEC_FAILED"} \subseteq Outcomes
  BY DEF Outcomes
<1>3. i \in Processes
  BY DEF Processes
<1>4. /\ Unplaced("process.exec_error", i, "EXEC_FAILED") \in StageLines
      /\ \A o \in {"COMPLETED", "EXITED", "SIGNALED"} :
           StageLine("process.exited", i, o) \in StageLines
  BY <1>1, <1>2, <1>3, SetsOfLines
<1>5. SignalLine(i) \in StageLines
  BY <1>1, <1>2, <1>3, SetsOfLines DEF SignalLine
<1> QED
  BY <1>4, <1>5 DEF EndLines

(* The initial state has the types of TypeOK. *)
LEMMA TypeInit == Init => TypeOK
<1> SUFFICES ASSUME Init PROVE TypeOK
  OBVIOUS
<1>1. redir \in [Stages -> SUBSET {"r", "w"}]
  BY DEF Init
<1>2. fds \in [Processes -> SUBSET Descriptors]
  BY DEF Init
<1>3. lines \in Seq(StageLines)
  BY DEF Init
<1>4. n \in 1 .. MaxStages /\ cur \in 0 .. n - 1
  <2>1. n \in 1 .. MaxStages /\ cur = 0
    BY DEF Init
  <2> QED
    BY <2>1
<1>5. /\ at = "start" /\ result = "none"
      /\ launchFailed = FALSE /\ errno = {} /\ execFailed = {}
      /\ child = [i \in Stages |-> "none"]
      /\ status = [i \in Stages |-> "unknown"]
  BY DEF Init
<1> QED
  BY <1>1, <1>2, <1>3, <1>4, <1>5 DEF TypeOK

(* One step of the loops over the stages stays within them. *)
LEMMA AdvanceType ==
  ASSUME TypeOK, NEW here, NEW next, Advance(here, next)
  PROVE  cur' \in 0 .. n - 1 /\ at' \in {here, next}
BY DEF TypeOK, Advance

LEMMA EngineTypes ==
  ASSUME TypeOK, EngineStep
  PROVE  TypeOK'
<1>1. CASE CreatePipes
  <2>1. 0 \in Stages
    BY DEF Stages
  <2>2. PipeEnds \subseteq Descriptors
    BY <2>1, SetsOfDescriptors
  <2>3. fds' \in [Processes -> SUBSET Descriptors]
    BY <1>1, <2>2 DEF CreatePipes, TypeOK
  <2> QED
    BY <1>1, <2>3 DEF CreatePipes, TypeOK, line
<1>2. CASE CloseEnds
  <2>1. fds' \in [Processes -> SUBSET Descriptors]
    <3> DEFINE kept == fds[Engine] \ (PipeEnds \cup UNION {Files(i) : i \in {j \in Stages : Launched(j)}})
    <3>1. Engine \in Processes
      BY DEF Processes
    <3>2. kept \subseteq Descriptors
      BY <3>1 DEF TypeOK
    <3>3. fds' = [fds EXCEPT ![Engine] = kept]
      BY <1>2 DEF CloseEnds
    <3> HIDE DEF kept
    <3> QED
      BY <3>2, <3>3 DEF TypeOK
  <2> QED
    BY <1>2, <2>1 DEF CloseEnds, TypeOK, line
<1>3. CASE Complete
  <2>1. /\ "pipeline.completed" \in LineTypes /\ {"LAUNCH_FAILED", "COMPLETED"} \subseteq Outcomes
        /\ 0 \in Stages /\ 0 < n
    BY DEF LineTypes, Outcomes, Stages, TypeOK
  <2>2. \A p \in Processes : \A o \in {"LAUNCH_FAILED", "COMPLETED"} :
          Envelope("pipeline.completed", p, -1, o) \in StageLines
    BY <2>1, SetsOfLines
  <2>3. 0 \in Processes /\ Engine \in Processes
    BY <2>1 DEF Processes
  <2>4. lines' \in Seq(StageLines)
    <3> DEFINE last == Envelope("pipeline.completed", IF Launched(0) THEN 0 ELSE Engine, -1,
                                IF launchFailed THEN "LAUNCH_FAILED" ELSE "COMPLETED")
    <3>1. last \in StageLines
      BY <2>2, <2>3
    <3>2. lines' = lines \/ lines' = Append(lines, last)
      BY <1>3 DEF Complete
    <3> HIDE DEF last
    <3> QED
      BY <3>1, <3>2 DEF TypeOK
  <2>5. result' \in {"none", "zero", "nonzero"} /\ at' = "returned"
    BY <1>3 DEF Complete
  <2> QED
    BY <1>3, <2>4, <2>5 DEF Complete, TypeOK, line
<1>4. ASSUME NEW i \in Stages, Launch(i) PROVE TypeOK'
  <2> USE <1>4
  <2>1. i < n /\ i \in Processes /\ 0 \in Processes
    BY DEF Launch, TypeOK, Stages, Processes
  <2>2. fds' \in [Processes -> SUBSET Descriptors]
    <3>1. Forked(i) \subseteq Descriptors
      BY SetsOfDescriptors
    <3>2. fds' = [fds EXCEPT ![Engine] = Forked(i), ![i] = Forked(i)]
      BY DEF Launch
    <3> QED
      BY <3>1, <3>2 DEF TypeOK
  <2>3. lines' \in Seq(StageLines)
    <3>1. /\ "pipeline.started" \in LineTypes /\ "process.started" \in LineTypes
          /\ "COMPLETED" \in Outcomes /\ "none" \in Outcomes
      BY DEF LineTypes, EngineEvents, Outcomes
    <3>2. /\ Envelope("pipeline.started", 0, 0, "COMPLETED") \in StageLines
          /\ StageLine("process.started", i, "none") \in StageLines
      BY <2>1, <3>1, SetsOfLines
    <3>3. lines \in Seq(StageLines)
      BY DEF TypeOK
    <3> QED
      BY <3>2, <3>3 DEF Launch
  <2>4. cur' \in 0 .. n - 1 /\ at' \in {"launch", "close"}
    BY <2>1 DEF Launch, TypeOK, Stages
  <2>5. child' \in [Stages -> {"none", "forked", "wired", "refusing", "running",
                               "ok", "failed", "signaled", "refused"}]
    BY DEF Launch, TypeOK
  <2> QED
    BY <2>2, <2>3, <2>4, <2>5 DEF Launch, TypeOK, line
<1>5. ASSUME NEW i \in Stages, ReadStatus(i) PROVE TypeOK'
  <2> USE <1>5
  <2>1. cur' \in 0 .. n - 1 /\ at' \in {"status", "reap"}
    BY AdvanceType DEF ReadStatus
  <2>2. fds' \in [Processes -> SUBSET Descriptors]
    <3> DEFINE gone == IF Launched(i) THEN StatusPipe(i) ELSE {}
    <3>1. fds' = [fds EXCEPT ![Engine] = @ \ gone]
      BY DEF ReadStatus
    <3> HIDE DEF gone
    <3> QED
      BY <3>1 DEF TypeOK, Processes
  <2>3. execFailed' \subseteq Stages
    BY DEF ReadStatus, TypeOK
  <2> QED
    BY <2>1, <2>2, <2>3 DEF ReadStatus, TypeOK, line
<1>6. ASSUME NEW i \in Stages, Reap(i) PROVE TypeOK'
  <2> USE <1>6
  <2>1. cur' \in 0 .. n - 1 /\ at' \in {"reap", "complete"}
    BY AdvanceType DEF Reap
  <2>2. i < n
    BY DEF Reap, TypeOK, Stages
  <2>3. lines' \in Seq(StageLines)
    BY <2>2, EndLinesType DEF Reap, TypeOK
  <2>4. status' \in [Stages -> {"unknown", "zero", "nonzero"}]
    BY DEF Reap, TypeOK
  <2> QED
    BY <2>1, <2>3, <2>4 DEF Reap, TypeOK, line
<1>7. ASSUME NEW i \in Stages, SkipStage(i) PROVE TypeOK'
  <2> USE <1>7
  <2>1. cur' \in 0 .. n - 1 /\ at' \in {"reap", "complete"}
    BY AdvanceType DEF SkipStage
  <2>2. NeverLaunched \in StageLines
    <3>1. cur \in Stages /\ cur < n
      BY DEF TypeOK, Stages
    <3>2. "process.exited" \in LineTypes /\ "LAUNCH_FAILED" \in Outcomes /\ Engine \in Processes
      BY DEF LineTypes, EngineEvents, Outcomes, Processes
    <3> QED
      BY <3>1, <3>2, SetsOfLines DEF NeverLaunched
  <2>3. lines' \in Seq(StageLines)
    BY <2>2 DEF SkipStage, TypeOK
  <2> QED
    BY <2>1, <2>3 DEF SkipStage, TypeOK, line
<1> QED
  BY <1>1, <1>2, <1>3, <1>4, <1>5, <1>6, <1>7 DEF EngineStep

LEMMA FaultTypes ==
  ASSUME TypeOK, EngineFault
  PROVE  TypeOK'
<1>1. ASSUME NEW i \in Stages, NEW fault, NEW why \in Seq(StageLines),
             NEW opened \in SUBSET Descriptors, LaunchFails(i, fault, why, opened)
      PROVE  TypeOK'
  <2> USE <1>1
  <2>1. cur' \in 0 .. n - 1 /\ launchFailed' \in BOOLEAN
    BY DEF LaunchFails, TypeOK
  <2>2. /\ at' \in {"close", "returned"}
        /\ result' \in {"none", "zero", "nonzero"}
    BY DEF LaunchFails, TypeOK
  <2>3. lines' \in Seq(StageLines)
    BY DEF LaunchFails, TypeOK
  <2>4. fds' \in [Processes -> SUBSET Descriptors]
    <3>1. fds' = fds \/ fds' = [fds EXCEPT ![Engine] = @ \cup opened]
      BY DEF LaunchFails
    <3> QED
      BY <3>1 DEF TypeOK
  <2> QED
    BY <2>1, <2>2, <2>3, <2>4 DEF LaunchFails, TypeOK, line
<1>2. RedirectionFailed \in StageLines
  <2>1. /\ "redirection.failed" \in LineTypes /\ "none" \in Outcomes /\ Engine \in Processes
        /\ 0 \in Stages /\ 0 < n
    BY DEF LineTypes, EngineEvents, Outcomes, Processes, Stages, TypeOK
  <2> QED
    BY <2>1, SetsOfLines DEF RedirectionFailed
<1>3. LaunchError \in Seq(StageLines)
  <2>1. /\ "process.launch_failed" \in LineTypes /\ "LAUNCH_FAILED" \in Outcomes
        /\ Engine \in Processes /\ 0 \in Stages /\ 0 < n
    BY DEF LineTypes, EngineEvents, Outcomes, Processes, Stages, TypeOK
  <2>2. Unplaced("process.launch_failed", Engine, "LAUNCH_FAILED") \in StageLines
    BY <2>1, SetsOfLines
  <2> QED
    BY <2>2 DEF LaunchError
<1>4. ASSUME NEW i \in Stages, RedirectionFails(i) PROVE TypeOK'
  <2>1. <<RedirectionFailed>> \in Seq(StageLines) /\ {} \in SUBSET Descriptors
    BY <1>2
  <2>2. LaunchFails(i, "redirection", <<RedirectionFailed>>, {})
    BY <1>4 DEF RedirectionFails
  <2> QED
    BY <1>1, <2>1, <2>2
<1>5. ASSUME NEW i \in Stages, StatusPipeFails(i) PROVE TypeOK'
  BY <1>1, <1>3, <1>5, SetsOfDescriptors DEF StatusPipeFails
<1>6. ASSUME NEW i \in Stages, ForkFails(i) PROVE TypeOK'
  <2>1. Files(i) \cup StatusPipe(i) \in SUBSET Descriptors
    BY SetsOfDescriptors
  <2> QED
    BY <1>1, <1>3, <1>6, <2>1 DEF ForkFails
<1>7. ASSUME NEW i \in Stages, WaitFails(i) PROVE TypeOK'
  <2> USE <1>7
  <2>1. cur' \in 0 .. n - 1 /\ at' \in {"reap", "complete"}
    BY AdvanceType DEF WaitFails
  <2>2. Unplaced("process.wait_failed", i, "WAIT_FAILED") \in StageLines
    <3>1. /\ "process.wait_failed" \in LineTypes /\ "WAIT_FAILED" \in Outcomes
          /\ i \in Processes /\ i < n
      BY DEF LineTypes, EngineEvents, Outcomes, Processes, WaitFails, TypeOK
    <3> QED
      BY <3>1, SetsOfLines
  <2>3. lines' \in Seq(StageLines)
    BY <2>2 DEF WaitFails, TypeOK
  <2> QED
    BY <2>1, <2>3 DEF WaitFails, TypeOK, line
<1> QED
  BY <1>4, <1>5, <1>6, <1>7 DEF EngineFault

LEMMA ChildTypes ==
  ASSUME TypeOK, NEW i \in Stages, ChildStep(i) \/ ProgramStep(i)
  PROVE  TypeOK'
<1> DEFINE States == {"none", "forked", "wired", "refusing", "running",
                      "ok", "failed", "signaled", "refused"}
<1>1. ASSUME NEW s \in States, NEW held \in SUBSET Descriptors,
             child' = [child EXCEPT ![i] = s], fds' = [fds EXCEPT ![i] = held] \/ fds' = fds,
             errno' \subseteq Stages, Unchanged_Engine
      PROVE  TypeOK'
  <2>1. child' \in [Stages -> States]
    BY <1>1 DEF TypeOK
  <2>2. fds' \in [Processes -> SUBSET Descriptors]
    BY <1>1 DEF TypeOK
  <2> QED
    BY <1>1, <2>1, <2>2 DEF Unchanged_Engine, TypeOK, line
<1>2. errno \subseteq Stages /\ errno \cup {i} \subseteq Stages
  BY DEF TypeOK
<1>3. ASSUME NEW how \in States, Ends(i, how) PROVE TypeOK'
  <2>1. {} \in SUBSET Descriptors
    OBVIOUS
  <2> QED
    BY <1>1, <1>2, <1>3, <2>1 DEF Ends
<1>4. CASE CloseOthers(i)
  BY <1>1, <1>2, <1>4, SetsOfDescriptors DEF CloseOthers
<1>5. CASE Exec(i)
  <2>1. fds[i] \ CloseOnExec \in SUBSET Descriptors
    BY DEF TypeOK, Processes
  <2> QED
    BY <1>1, <1>2, <1>5, <2>1 DEF Exec
<1>6. CASE Refuse(i)
  BY <1>1, <1>2, <1>6 DEF Refuse
<1>7. CASE RefusedExit(i)
  BY <1>3, <1>7 DEF RefusedExit
<1>8. CASE UnwiredExit(i)
  BY <1>3, <1>8 DEF UnwiredExit
<1>9. CASE ProgramStep(i)
  BY <1>3, <1>9 DEF ProgramStep, ProgramExits, EndOfInput, BrokenPipe, Killed
<1> QED
  BY <1>4, <1>5, <1>6, <1>7, <1>8, <1>9 DEF ChildStep

LEMMA TypeStep == TypeOK /\ [Next]_vars => TypeOK'
<1>1. ASSUME TypeOK, UNCHANGED vars PROVE TypeOK'
  BY <1>1 DEF TypeOK, vars, line
<1>2. ASSUME TypeOK, Next PROVE TypeOK'
  BY <1>2, EngineTypes, FaultTypes, ChildTypes DEF Next
<1> QED
  BY <1>1, <1>2

(* Every variable of the engine model keeps its type; in particular no     *)
(* line ever carries a position outside the longest pipeline.              *)
THEOREM PipelineTypes == Spec => []TypeOK
BY TypeInit, TypeStep, PTL DEF Spec

------------------------------------------------------------------------------
(* Who holds what. *)

LEMMA EngineIsNoStage == \A i \in Stages : i # Engine /\ i \in Processes
BY DEF Stages, Processes

LEMMA OwnArePipes ==
  ASSUME TypeOK, NEW i \in Stages
  PROVE  /\ Own(i) \subseteq PipeEnds /\ PipeEnds \cap CloseOnExec = {}
         /\ \A d \in Descriptors : d \in CloseOnExec <=> d.kind # "pipe"
         /\ \A d \in StatusPipe(i) : d.kind = "status" /\ d.of = i
         /\ \A d \in Files(i) : d.kind = "file" /\ d.of = i /\ d.end \in redir[i]
BY DEF Own, PipeEnds, CloseOnExec, StatusPipe, Files

LEMMA DescriptorInit == Init => DescriptorInv
<1> SUFFICES ASSUME Init PROVE DescriptorInv
  OBVIOUS
<1>1. /\ at = "start" /\ cur = 0
      /\ \A i \in Stages : child[i] = "none" /\ fds[i] = {}
      /\ fds[Engine] = {}
  BY EngineIsNoStage DEF Init, Processes
<1>2. \A i \in Stages : ~(i < 0)
  BY DEF Stages
<1> QED
  BY <1>1, <1>2 DEF DescriptorInv, ChildHolds, EngineHolds, LaunchedSoFar, LeftToClose, Launched

(* A step of one child leaves the engine, and the other children, as they  *)
(* are.                                                                    *)
LEMMA ChildFrame ==
  ASSUME TypeOK, DescriptorInv, NEW i \in Stages, Unchanged_Engine, Launched(i),
         NEW s, s # "none", child' = [child EXCEPT ![i] = s],
         NEW held, fds' = [fds EXCEPT ![i] = held],
         ChildHolds(i)'
  PROVE  DescriptorInv'
<1>1. /\ at' = at /\ cur' = cur /\ n' = n /\ redir' = redir /\ launchFailed' = launchFailed
      /\ PipeEnds' = PipeEnds /\ \A j \in Stages : Own(j)' = Own(j)
  BY DEF Unchanged_Engine, line, PipeEnds, Own
<1>2. fds'[Engine] = fds[Engine]
  BY EngineIsNoStage DEF TypeOK
<1>3. \A j \in Stages : j # i => child'[j] = child[j] /\ fds'[j] = fds[j]
  BY EngineIsNoStage DEF TypeOK
<1>4. \A j \in Stages : ChildHolds(j)'
  <2> SUFFICES ASSUME NEW j \in Stages, j # i PROVE ChildHolds(j)'
    OBVIOUS
  <2>1. ChildHolds(j)
    BY DEF DescriptorInv
  <2> QED
    BY <2>1, <1>1, <1>3 DEF ChildHolds
<1>5. \A j \in Stages : Launched(j)' <=> Launched(j)
  BY <1>3 DEF Launched, TypeOK
<1>6. EngineHolds'
  BY <1>1, <1>2 DEF DescriptorInv, EngineHolds
<1>7. LaunchedSoFar'
  <2>1. 0 .. n - 1 \subseteq Stages
    BY DEF TypeOK, Stages
  <2> QED
    BY <1>1, <1>5, <2>1 DEF DescriptorInv, LaunchedSoFar
<1>8. LeftToClose'
  BY <1>1, <1>2 DEF DescriptorInv, LeftToClose
<1> QED
  BY <1>4, <1>6, <1>7, <1>8 DEF DescriptorInv

LEMMA ChildDescriptors ==
  ASSUME TypeOK, DescriptorInv, NEW i \in Stages, ChildStep(i) \/ ProgramStep(i)
  PROVE  DescriptorInv'
<1> USE EngineIsNoStage
<1>1. ChildHolds(i) /\ fds[i] \subseteq Descriptors
  BY DEF DescriptorInv, TypeOK
<1>2. Own(i)' = Own(i) /\ PipeEnds' = PipeEnds
  <2>1. Unchanged_Engine
    BY DEF ChildStep, ProgramStep, CloseOthers, Exec, Refuse, RefusedExit, UnwiredExit,
           ProgramExits, EndOfInput, BrokenPipe, Killed, Ends
  <2> QED
    BY <2>1 DEF Unchanged_Engine, line, Own, PipeEnds
<1>3. CASE CloseOthers(i)
  <2> USE <1>3
  <2>1. /\ child' = [child EXCEPT ![i] = "wired"] /\ child'[i] = "wired"
        /\ fds' = [fds EXCEPT ![i] = Kept(i)] /\ fds'[i] = Kept(i)
        /\ Launched(i) /\ Unchanged_Engine
    BY DEF CloseOthers, TypeOK, Launched
  <2>2. fds[i] \ CloseOnExec = PipeEnds
    BY <1>1 DEF CloseOthers, ChildHolds
  <2>3. Kept(i) \ CloseOnExec = Own(i)
    BY <1>1, <2>2, OwnArePipes DEF Kept
  <2>4. ChildHolds(i)'
    BY <1>2, <2>1, <2>3 DEF ChildHolds, CloseOnExec
  <2> QED
    BY <2>1, <2>4, ChildFrame
<1>4. CASE Exec(i)
  <2> USE <1>4
  <2>1. /\ child' = [child EXCEPT ![i] = "running"] /\ child'[i] = "running"
        /\ fds' = [fds EXCEPT ![i] = fds[i] \ CloseOnExec] /\ fds'[i] = fds[i] \ CloseOnExec
        /\ Launched(i) /\ Unchanged_Engine
    BY DEF Exec, TypeOK, Launched
  <2>2. fds[i] \ CloseOnExec = Own(i)
    BY <1>1 DEF Exec, ChildHolds
  <2>3. ChildHolds(i)'
    BY <1>2, <2>1, <2>2 DEF ChildHolds
  <2> QED
    BY <2>1, <2>3, ChildFrame
<1>5. CASE Refuse(i)
  <2> USE <1>5
  <2>1. /\ child' = [child EXCEPT ![i] = "refusing"] /\ child'[i] = "refusing"
        /\ fds' = [fds EXCEPT ![i] = fds[i]] /\ fds'[i] = fds[i]
        /\ Launched(i) /\ Unchanged_Engine
    BY DEF Refuse, TypeOK, Launched
  <2>2. ChildHolds(i)'
    BY <1>1, <1>2, <2>1 DEF Refuse, ChildHolds, CloseOnExec
  <2> QED
    BY <2>1, <2>2, ChildFrame
<1>6. ASSUME NEW how \in {"ok", "failed", "signaled", "refused"}, Ends(i, how), Launched(i)
      PROVE  DescriptorInv'
  <2>1. /\ child' = [child EXCEPT ![i] = how] /\ child'[i] = how
        /\ fds' = [fds EXCEPT ![i] = {}] /\ fds'[i] = {}
        /\ Unchanged_Engine
    BY <1>6 DEF Ends, TypeOK
  <2>2. ChildHolds(i)'
    BY <2>1 DEF ChildHolds
  <2> QED
    BY <1>6, <2>1, <2>2, ChildFrame
<1>7. CASE RefusedExit(i) \/ UnwiredExit(i) \/ ProgramStep(i)
  BY <1>6, <1>7 DEF RefusedExit, UnwiredExit, ProgramStep, ProgramExits, EndOfInput, BrokenPipe,
                    Killed, Launched
<1> QED
  BY <1>3, <1>4, <1>5, <1>7 DEF ChildStep

(* A step of the engine that forks nothing leaves the children as they     *)
(* are.                                                                    *)
LEMMA EngineFrame ==
  ASSUME TypeOK, DescriptorInv, UNCHANGED line, child' = child,
         NEW held, fds' = [fds EXCEPT ![Engine] = held]
  PROVE  /\ \A i \in Stages : ChildHolds(i)'
         /\ \A i \in Stages : Launched(i)' <=> Launched(i)
         /\ fds'[Engine] = held
         /\ n' = n /\ redir' = redir /\ PipeEnds' = PipeEnds
<1>1. n' = n /\ redir' = redir /\ PipeEnds' = PipeEnds /\ \A j \in Stages : Own(j)' = Own(j)
  BY DEF line, PipeEnds, Own
<1>2. \A j \in Stages : fds'[j] = fds[j]
  BY EngineIsNoStage DEF TypeOK
<1>3. fds'[Engine] = held
  BY DEF TypeOK, Processes
<1>4. \A j \in Stages : ChildHolds(j)'
  <2> TAKE j \in Stages
  <2>1. ChildHolds(j)
    BY DEF DescriptorInv
  <2> QED
    BY <2>1, <1>1, <1>2 DEF ChildHolds
<1> QED
  BY <1>1, <1>3, <1>4 DEF Launched

LEMMA LaunchDescriptors ==
  ASSUME TypeOK, DescriptorInv, NEW i \in Stages, Launch(i)
  PROVE  DescriptorInv'
<1> USE EngineIsNoStage
<1>1. /\ n' = n /\ redir' = redir /\ launchFailed' = launchFailed /\ PipeEnds' = PipeEnds
      /\ \A j \in Stages : Own(j)' = Own(j)
      /\ at = "launch" /\ cur = i /\ i < n
  BY DEF Launch, line, PipeEnds, Own, TypeOK
<1>2. /\ fds'[Engine] = Forked(i) /\ fds'[i] = Forked(i) /\ child'[i] = "forked"
      /\ \A j \in Stages : j # i => fds'[j] = fds[j] /\ child'[j] = child[j]
  BY DEF Launch, TypeOK, Processes
<1>3. fds[Engine] \ CloseOnExec = PipeEnds
  BY <1>1 DEF DescriptorInv, EngineHolds
<1>4. Forked(i) \ CloseOnExec = PipeEnds
  <2>1. StatusPipe(i) \subseteq CloseOnExec /\ Files(i) \subseteq CloseOnExec
    BY OwnArePipes, SetsOfDescriptors DEF CloseOnExec
  <2> QED
    BY <2>1, <1>3 DEF Forked
<1>5. \A j \in Stages : ChildHolds(j)'
  <2> TAKE j \in Stages
  <2>1. ChildHolds(j)
    BY DEF DescriptorInv
  <2>2. CASE j = i
    BY <2>2, <1>1, <1>2, <1>4 DEF ChildHolds, CloseOnExec
  <2>3. CASE j # i
    BY <2>1, <2>3, <1>1, <1>2 DEF ChildHolds
  <2> QED
    BY <2>2, <2>3
<1>6. \/ at' = "launch" /\ cur' = i + 1 /\ i + 1 < n
      \/ at' = "close" /\ cur' = 0 /\ i + 1 = n
  BY <1>1 DEF Launch, TypeOK, Stages
<1>7. EngineHolds'
  BY <1>1, <1>2, <1>4, <1>6 DEF EngineHolds, CloseOnExec
<1>8. \A j \in Stages : Launched(j)' <=> j < i + 1
  <2>1. \A j \in Stages : Launched(j) <=> j < i
    BY <1>1 DEF DescriptorInv, LaunchedSoFar
  <2>2. Launched(i)' /\ \A j \in Stages : j # i => (Launched(j)' <=> Launched(j))
    BY <1>2 DEF Launched
  <2> QED
    BY <2>1, <2>2 DEF Stages
<1>9. LaunchedSoFar'
  BY <1>1, <1>6, <1>8 DEF LaunchedSoFar, TypeOK, Stages
<1>10. LeftToClose'
  <2> SUFFICES ASSUME ~launchFailed PROVE LeftToClose'
    BY <1>1 DEF LeftToClose
  <2>1. /\ \A d \in fds[Engine] : d.kind = "file" => d.end \in redir[d.of]
        /\ \A d \in fds[Engine] \cap CloseOnExec : d.of < i
    BY <1>1 DEF DescriptorInv, LeftToClose
  <2>2. fds[Engine] \subseteq Descriptors
    BY DEF TypeOK, Processes
  <2>3. \A d \in Forked(i) : d.kind = "file" => d.end \in redir[d.of]
    BY <2>1, OwnArePipes DEF Forked
  <2>4. \A d \in Forked(i) \cap CloseOnExec : d.of < i + 1
    <3> TAKE d \in Forked(i) \cap CloseOnExec
    <3>1. CASE d \in fds[Engine]
      <4>1. d.of < i /\ d.of \in Stages
        BY <3>1, <2>1, <2>2 DEF Descriptors
      <4> QED
        BY <4>1 DEF Stages
    <3>2. CASE d \in Files(i) \cup StatusPipe(i)
      BY <3>2, OwnArePipes DEF Stages
    <3> QED
      BY <3>1, <3>2 DEF Forked
  <2>5. CloseOnExec' = CloseOnExec
    BY DEF CloseOnExec
  <2> QED
    BY <1>1, <1>2, <1>6, <2>3, <2>4, <2>5 DEF LeftToClose
<1> QED
  BY <1>5, <1>7, <1>9, <1>10 DEF DescriptorInv

LEMMA CloseDescriptors ==
  ASSUME TypeOK, DescriptorInv, CloseEnds
  PROVE  DescriptorInv'
<1> DEFINE files == UNION {Files(i) : i \in {j \in Stages : Launched(j)}}
           held  == fds[Engine] \ (PipeEnds \cup files)
<1>1. /\ UNCHANGED line /\ child' = child /\ fds' = [fds EXCEPT ![Engine] = held]
      /\ at = "close" /\ at' = "status" /\ cur' = cur /\ launchFailed' = launchFailed
  BY DEF CloseEnds
<1>2. /\ \A i \in Stages : ChildHolds(i)'
      /\ \A i \in Stages : Launched(i)' <=> Launched(i)
      /\ fds'[Engine] = held
      /\ n' = n /\ redir' = redir /\ PipeEnds' = PipeEnds
  BY <1>1, EngineFrame
<1>3. EngineHolds'
  BY <1>1, <1>2 DEF EngineHolds
<1>4. LaunchedSoFar'
  BY <1>1, <1>2 DEF DescriptorInv, LaunchedSoFar, TypeOK, Stages
<1>5. LeftToClose'
  <2> SUFFICES ASSUME ~launchFailed, NEW d \in held
               PROVE  d.kind = "status" /\ d.of \in cur .. n - 1
    BY <1>1, <1>2 DEF LeftToClose
  <2>1. cur = 0 /\ fds[Engine] \ CloseOnExec \subseteq PipeEnds
    BY <1>1 DEF DescriptorInv, LaunchedSoFar, EngineHolds
  <2>2. d \in CloseOnExec /\ d \in Descriptors /\ d.kind # "pipe"
    BY <2>1 DEF TypeOK, Processes, CloseOnExec
  <2>3. d.of < n /\ (d.kind = "file" => d.end \in redir[d.of])
    BY <1>1, <2>2 DEF DescriptorInv, LeftToClose
  <2>4. d.of \in Stages /\ d.of \in 0 .. n - 1
    BY <2>2, <2>3 DEF Descriptors, TypeOK, Stages
  <2>5. Launched(d.of)
    BY <1>1, <2>4 DEF DescriptorInv, LaunchedSoFar
  <2>6. d.kind # "file"
    <3> SUFFICES ASSUME d.kind = "file" PROVE d \in files
      OBVIOUS
    <3>1. d \in Files(d.of)
      BY <2>2, <2>3 DEF Descriptors, Files
    <3> QED
      BY <3>1, <2>4, <2>5
  <2> QED
    BY <2>1, <2>2, <2>4, <2>6 DEF Descriptors
<1> QED
  BY <1>2, <1>3, <1>4, <1>5 DEF DescriptorInv

LEMMA CreateDescriptors ==
  ASSUME TypeOK, DescriptorInv, CreatePipes
  PROVE  DescriptorInv'
<1>1. /\ UNCHANGED line /\ child' = child /\ cur' = cur /\ launchFailed' = launchFailed
      /\ at = "start" /\ cur = 0 /\ fds[Engine] = {}
      /\ \A i \in Stages : Launched(i) <=> i < cur
  BY DEF CreatePipes, DescriptorInv, EngineHolds, LaunchedSoFar
<1>2. CloseOnExec \cap PipeEnds = {} /\ \A d \in PipeEnds : d.kind = "pipe"
  BY DEF CloseOnExec, PipeEnds
<1>3. CASE at' = "launch" /\ fds' = [fds EXCEPT ![Engine] = PipeEnds]
  <2>1. /\ \A i \in Stages : ChildHolds(i)'
        /\ \A i \in Stages : Launched(i)' <=> Launched(i)
        /\ fds'[Engine] = PipeEnds
        /\ n' = n /\ redir' = redir /\ PipeEnds' = PipeEnds
    BY <1>1, <1>3, EngineFrame
  <2>2. EngineHolds' /\ LaunchedSoFar' /\ LeftToClose'
    BY <1>1, <1>2, <1>3, <2>1 DEF EngineHolds, LaunchedSoFar, LeftToClose, CloseOnExec
  <2> QED
    BY <2>1, <2>2 DEF DescriptorInv
<1>4. CASE at' = "returned" /\ fds' = fds
  <2>1. fds' = [fds EXCEPT ![Engine] = {}]
    BY <1>1, <1>4 DEF TypeOK
  <2>2. /\ \A i \in Stages : ChildHolds(i)'
        /\ fds'[Engine] = {}
        /\ n' = n /\ redir' = redir /\ PipeEnds' = PipeEnds
    BY <1>1, <2>1, EngineFrame
  <2>3. EngineHolds' /\ LaunchedSoFar' /\ LeftToClose'
    BY <1>1, <1>4, <2>2 DEF EngineHolds, LaunchedSoFar, LeftToClose
  <2> QED
    BY <2>2, <2>3 DEF DescriptorInv
<1> QED
  BY <1>3, <1>4 DEF CreatePipes

(* A pipeline that cannot launch a stage may keep what it had opened for   *)
(* it, but no pipe beyond those it has.                                    *)
LEMMA FailDescriptors ==
  ASSUME TypeOK, DescriptorInv, NEW i \in Stages, NEW fault, NEW why,
         NEW opened, opened \subseteq CloseOnExec, LaunchFails(i, fault, why, opened)
  PROVE  DescriptorInv'
<1> DEFINE held == IF n = 1 THEN fds[Engine] ELSE fds[Engine] \cup opened
<1>1. /\ UNCHANGED line /\ child' = child /\ launchFailed' /\ cur' = 0
      /\ at = "launch" /\ (n = 1 => at' = "returned") /\ (n # 1 => at' = "close")
      /\ fds' = [fds EXCEPT ![Engine] = held]
  <2>1. fds = [fds EXCEPT ![Engine] = fds[Engine]]
    BY DEF TypeOK
  <2> QED
    BY <2>1 DEF LaunchFails
<1>2. /\ \A j \in Stages : ChildHolds(j)'
      /\ fds'[Engine] = held
      /\ n' = n /\ PipeEnds' = PipeEnds
  BY <1>1, EngineFrame
<1>3. held \ CloseOnExec = PipeEnds
  BY <1>1 DEF DescriptorInv, EngineHolds
<1>4. n = 1 => PipeEnds = {}
  BY DEF PipeEnds
<1>5. EngineHolds'
  BY <1>1, <1>2, <1>3, <1>4 DEF EngineHolds, CloseOnExec
<1>6. LaunchedSoFar' /\ LeftToClose'
  BY <1>1 DEF LaunchedSoFar, LeftToClose
<1> QED
  BY <1>2, <1>5, <1>6 DEF DescriptorInv

LEMMA ReadDescriptors ==
  ASSUME TypeOK, DescriptorInv, NEW i \in Stages, ReadStatus(i)
  PROVE  DescriptorInv'
<1> DEFINE held == fds[Engine] \ (IF Launched(i) THEN StatusPipe(i) ELSE {})
<1>1. /\ UNCHANGED line /\ child' = child /\ launchFailed' = launchFailed
      /\ at = "status" /\ cur = i /\ i < n
      /\ fds' = [fds EXCEPT ![Engine] = held]
      /\ \/ at' = "status" /\ cur' = i + 1 /\ i + 1 < n
         \/ at' = "reap" /\ i + 1 = n
  BY DEF ReadStatus, Advance, TypeOK, Stages
<1>2. /\ \A j \in Stages : ChildHolds(j)'
      /\ \A j \in Stages : Launched(j)' <=> Launched(j)
      /\ fds'[Engine] = held
      /\ n' = n /\ redir' = redir /\ PipeEnds' = PipeEnds
  BY <1>1, EngineFrame
<1>3. EngineHolds'
  BY <1>1, <1>2 DEF DescriptorInv, EngineHolds
<1>4. LaunchedSoFar'
  BY <1>1, <1>2 DEF DescriptorInv, LaunchedSoFar, TypeOK, Stages
<1>5. LeftToClose'
  <2> SUFFICES ASSUME ~launchFailed PROVE LeftToClose'
    BY <1>1 DEF LeftToClose
  <2>1. Launched(i)
    <3>1. i \in 0 .. n - 1
      BY <1>1 DEF TypeOK, Stages
    <3> QED
      BY <1>1, <3>1 DEF DescriptorInv, LaunchedSoFar
  <2>2. \A d \in fds[Engine] : d.kind = "status" /\ d.of \in i .. n - 1
    BY <1>1 DEF DescriptorInv, LeftToClose
  <2>3. \A d \in held : d.kind = "status" /\ d.of \in i + 1 .. n - 1
    <3> SUFFICES ASSUME NEW d \in held PROVE d.of # i
      BY <2>2 DEF TypeOK, Stages
    <3>1. d \in Descriptors /\ d.kind = "status"
      BY <2>2 DEF TypeOK, Processes
    <3>2. d \notin StatusPipe(i)
      BY <2>1
    <3> QED
      BY <3>1, <3>2 DEF Descriptors, StatusPipe
  <2>4. i + 1 = n => held = {}
    BY <2>3 DEF TypeOK, Stages
  <2> HIDE DEF held
  <2> QED
    BY <1>1, <1>2, <2>3, <2>4 DEF LeftToClose
<1> QED
  BY <1>2, <1>3, <1>4, <1>5 DEF DescriptorInv

(* After that the engine only waits and writes lines. *)
LEMMA QuietDescriptors ==
  ASSUME TypeOK, DescriptorInv, UNCHANGED <<line, child, fds, launchFailed>>,
         at \in {"reap", "complete", "returned"}, at' \in {"reap", "complete", "returned"}
  PROVE  DescriptorInv'
<1>1. /\ PipeEnds' = PipeEnds /\ \A j \in Stages : Own(j)' = Own(j)
  BY DEF line, PipeEnds, Own
<1>2. \A j \in Stages : ChildHolds(j)'
  BY <1>1 DEF DescriptorInv, ChildHolds
<1>3. EngineHolds' /\ LaunchedSoFar' /\ LeftToClose'
  BY <1>1 DEF DescriptorInv, EngineHolds, LaunchedSoFar, LeftToClose, line
<1> QED
  BY <1>2, <1>3 DEF DescriptorInv

LEMMA DescriptorStep == TypeOK /\ DescriptorInv /\ [Next]_vars => DescriptorInv'
<1> SUFFICES ASSUME TypeOK, DescriptorInv, [Next]_vars PROVE DescriptorInv'
  OBVIOUS
<1>1. CASE UNCHANGED vars
  BY <1>1 DEF vars, line, DescriptorInv, ChildHolds, EngineHolds, LaunchedSoFar, LeftToClose,
              Launched, PipeEnds, Own
<1>2. CASE CreatePipes \/ CloseEnds
  BY <1>2, CreateDescriptors, CloseDescriptors
<1>3. CASE Complete
  BY <1>3, QuietDescriptors DEF Complete
<1>4. ASSUME NEW i \in Stages, Launch(i) \/ ReadStatus(i)
      PROVE  DescriptorInv'
  BY <1>4, LaunchDescriptors, ReadDescriptors
<1>5. ASSUME NEW i \in Stages, Reap(i) \/ SkipStage(i) \/ WaitFails(i)
      PROVE  DescriptorInv'
  BY <1>5, QuietDescriptors DEF Reap, SkipStage, WaitFails, Advance
<1>6. ASSUME NEW i \in Stages, RedirectionFails(i) \/ StatusPipeFails(i) \/ ForkFails(i)
      PROVE  DescriptorInv'
  <2>1. {} \subseteq CloseOnExec /\ Files(i) \subseteq CloseOnExec
        /\ Files(i) \cup StatusPipe(i) \subseteq CloseOnExec
    BY OwnArePipes, SetsOfDescriptors DEF CloseOnExec
  <2> QED
    BY <1>6, <2>1, FailDescriptors DEF RedirectionFails, StatusPipeFails, ForkFails
<1>7. ASSUME NEW i \in Stages, ChildStep(i) \/ ProgramStep(i)
      PROVE  DescriptorInv'
  BY <1>7, ChildDescriptors
<1> QED
  BY <1>1, <1>2, <1>3, <1>4, <1>5, <1>6, <1>7 DEF Next, EngineStep, EngineFault

LEMMA DescriptorsInvariant == Spec => [](TypeOK /\ DescriptorInv)
<1>1. Init => TypeOK /\ DescriptorInv
  BY TypeInit, DescriptorInit
<1>2. TypeOK /\ DescriptorInv /\ [Next]_vars => TypeOK' /\ DescriptorInv'
  BY TypeStep, DescriptorStep
<1> QED
  BY <1>1, <1>2, PTL DEF Spec

(* A program never inherits a descriptor that is not its own: whatever     *)
(* the order in which children are forked, closed and executed.            *)
THEOREM ProgramsInheritNothingElse == Spec => []ProgramsHoldTheirEnds
<1>1. DescriptorInv => ProgramsHoldTheirEnds
  BY DEF DescriptorInv, ChildHolds, ProgramsHoldTheirEnds
<1> QED
  BY <1>1, DescriptorsInvariant, PTL

(* From the moment the engine starts to wait, end-of-input and SIGPIPE     *)
(* depend on the stage at the other end of the pipe alone.                 *)
THEOREM PipesHaveOneHolder == Spec => []EndsHaveOneHolder
<1>1. TypeOK /\ DescriptorInv => EndsHaveOneHolder
  <2> SUFFICES ASSUME TypeOK, DescriptorInv,
                      at \in {"status", "reap", "complete", "returned"},
                      NEW d \in PipeEnds, NEW p \in Holders(d)
               PROVE  p \in Stages /\ (d \in Own(p) \/ child[p] = "forked")
    BY DEF EndsHaveOneHolder
  <2>1. p \in Processes /\ d \in fds[p]
    BY DEF Holders
  <2>2. fds[Engine] \cap PipeEnds = {}
    BY DEF DescriptorInv, EngineHolds
  <2>3. p \in Stages
    BY <2>1, <2>2 DEF Processes
  <2>4. ChildHolds(p) /\ d \notin CloseOnExec
    BY <2>3 DEF DescriptorInv, PipeEnds, CloseOnExec
  <2> QED
    BY <2>1, <2>3, <2>4 DEF ChildHolds
<1> QED
  BY <1>1, DescriptorsInvariant, PTL

(* A line whose stages could all be launched leaves nothing open.          *)
THEOREM LinesLeaveNothingOpen == Spec => []NothingLeaks
<1>1. DescriptorInv => NothingLeaks
  BY DEF DescriptorInv, LeftToClose, NothingLeaks
<1> QED
  BY <1>1, DescriptorsInvariant, PTL

-----------------------------------------------------------------------------
(* The lines and the verdict                                               *)

(* Until its exec the child holds the write end of its status pipe. *)
HoldsStatus(i) ==
  child[i] \in {"forked", "wired", "refusing"} => StatusEnd(i, "w") \in fds[i]

(* An errno was written by a child that will not run, and only by it. *)
ErrnoOf(i) ==
  /\ child[i] \in {"refusing", "refused"} => i \in errno
  /\ i \in errno => child[i] \in {"refusing", "refused", "signaled"}

(* The stages whose status pipe the engine has read. *)
WasRead(i) == (at = "status" /\ i < cur) \/ at \in {"reap", "complete"}

(* The engine has read of such a stage either its errno or the silence of  *)
(* a child that has passed its exec, or is gone: no errno comes later.     *)
ReadRight(i) ==
  WasRead(i) =>
    /\ i \in errno => i \in execFailed
    /\ i \notin errno => child[i] \notin {"forked", "wired"}

Truthful(l) ==
  /\ l.type = "process.exec_error" => child[l.proc] \in {"refused", "signaled"} /\ l.proc \in errno
  /\ l.type = "process.exited" =>
       /\ l.outcome = "COMPLETED" => child[l.proc] = "ok"
       /\ l.outcome = "EXITED"    => child[l.proc] = "failed"
       /\ l.outcome \notin {"COMPLETED", "EXITED"} => child[l.proc] = "signaled"

TruthInv ==
  /\ \A i \in Stages : HoldsStatus(i) /\ ErrnoOf(i)
  /\ \A i \in 0 .. n - 1 : ReadRight(i)
  /\ execFailed \subseteq errno
  /\ \A l \in LineSet : l.proc \in Stages => Truthful(l)

(* The place of every line written so far is kept, new lines follow.       *)
LEMMA Concatenation ==
  ASSUME NEW S, NEW s \in Seq(S), NEW t \in Seq(S)
  PROVE  /\ DOMAIN s = 1 .. Len(s) /\ DOMAIN t = 1 .. Len(t) /\ DOMAIN (s \o t) = 1 .. Len(s) + Len(t)
         /\ Len(s) \in Nat /\ Len(t) \in Nat /\ Len(s \o t) = Len(s) + Len(t)
         /\ \A k \in 1 .. Len(s) : (s \o t)[k] = s[k]
         /\ \A k \in Len(s) + 1 .. Len(s) + Len(t) : (s \o t)[k] = t[k - Len(s)]
OBVIOUS

LEMMA NewLines ==
  ASSUME TypeOK, NEW t \in Seq(StageLines), lines' = lines \o t
  PROVE  \A l \in LineSet' : l \in LineSet \/ \E k \in DOMAIN t : l = t[k]
<1>1. lines \in Seq(StageLines)
  BY DEF TypeOK
<1>2. TAKE l \in LineSet'
<1>3. PICK k \in DOMAIN lines' : l = lines'[k]
  BY <1>2 DEF LineSet
<1>4. DOMAIN lines' = 1 .. Len(lines) + Len(t) /\ Len(lines) \in Nat /\ Len(t) \in Nat
  BY <1>1, Concatenation
<1>5. CASE k \in 1 .. Len(lines)
  BY <1>1, <1>3, <1>5, Concatenation DEF LineSet
<1>6. CASE k \in Len(lines) + 1 .. Len(lines) + Len(t)
  <2>1. lines'[k] = t[k - Len(lines)] /\ k - Len(lines) \in DOMAIN t
    BY <1>1, <1>4, <1>6, Concatenation
  <2> QED
    BY <1>3, <2>1
<1> QED
  BY <1>3, <1>4, <1>5, <1>6

(* A step that leaves the children alone and writes only true lines.       *)
LEMMA TruthFrame ==
  ASSUME TypeOK, TruthInv, UNCHANGED <<line, child, errno>>,
         NEW t \in Seq(StageLines), lines' = lines \o t,
         \A k \in DOMAIN t : t[k].proc \in Stages => Truthful(t[k]),
         \A i \in Stages : HoldsStatus(i)', execFailed' \subseteq errno,
         \A i \in 0 .. n - 1 : ReadRight(i)'
  PROVE  TruthInv'
<1>1. \A i \in Stages : ErrnoOf(i)'
  BY DEF TruthInv, ErrnoOf
<1>2. ASSUME NEW l \in LineSet', l.proc \in Stages PROVE Truthful(l)'
  <2>1. Truthful(l)
    BY <1>2, NewLines DEF TruthInv
  <2> QED
    BY <2>1 DEF Truthful
<1> QED
  BY <1>1, <1>2 DEF TruthInv, line

LEMMA SameLines ==
  ASSUME TypeOK, lines' = lines
  PROVE  /\ <<>> \in Seq(StageLines) /\ lines' = lines \o <<>> /\ DOMAIN <<>> = {}
BY DEF TypeOK

LEMMA ChildTruth ==
  ASSUME TypeOK, TruthInv, DescriptorInv, NEW i \in Stages, ChildStep(i) \/ ProgramStep(i)
  PROVE  TruthInv'
<1>1. /\ Unchanged_Engine /\ ~Ended(i) /\ child[i] # "none"
      /\ \A j \in Stages : j # i => child'[j] = child[j] /\ fds'[j] = fds[j] /\ (j \in errno' <=> j \in errno)
      /\ errno \subseteq errno'
  <2>1. ASSUME NEW how, Ends(i, how)
        PROVE  /\ Unchanged_Engine /\ errno' = errno
               /\ \A j \in Stages : j # i => child'[j] = child[j] /\ fds'[j] = fds[j]
    BY <2>1, EngineIsNoStage DEF Ends, TypeOK
  <2>2. CASE CloseOthers(i) \/ Exec(i) \/ Refuse(i)
    BY <2>2, EngineIsNoStage DEF CloseOthers, Exec, Refuse, Ended, TypeOK
  <2>3. CASE RefusedExit(i) \/ UnwiredExit(i) \/ ProgramStep(i)
    BY <2>1, <2>3 DEF RefusedExit, UnwiredExit, ProgramStep, ProgramExits, EndOfInput, BrokenPipe,
                      Killed, Ended
  <2> QED
    BY <2>2, <2>3 DEF ChildStep
<1>2. /\ n' = n /\ at' = at /\ cur' = cur /\ lines' = lines /\ execFailed' = execFailed
      /\ errno \subseteq errno'
  BY <1>1 DEF Unchanged_Engine, line
<1>3. HoldsStatus(i) /\ ErrnoOf(i)
  BY DEF TruthInv
<1>4. HoldsStatus(i)'
  <2>1. i \in Processes
    BY EngineIsNoStage
  <2>2. CASE CloseOthers(i)
    <3>1. fds'[i] = Kept(i) /\ StatusEnd(i, "w") \in fds[i]
      BY <1>3, <2>1, <2>2 DEF CloseOthers, HoldsStatus, TypeOK
    <3> QED
      BY <3>1 DEF HoldsStatus, Kept, StatusEnd
  <2>3. CASE Refuse(i)
    BY <1>3, <2>3 DEF Refuse, HoldsStatus, StatusEnd
  <2>4. CASE ~CloseOthers(i) /\ ~Refuse(i)
    <3>1. child'[i] \notin {"forked", "wired", "refusing"}
      BY <2>4 DEF ChildStep, ProgramStep, Exec, RefusedExit, UnwiredExit, ProgramExits, EndOfInput,
                  BrokenPipe, Killed, Ends, TypeOK
    <3> QED
      BY <3>1 DEF HoldsStatus
  <2> QED
    BY <2>2, <2>3, <2>4
<1>5. ErrnoOf(i)'
  BY <1>3 DEF ErrnoOf, ChildStep, ProgramStep, CloseOthers, Exec, Refuse, RefusedExit, UnwiredExit,
              ProgramExits, EndOfInput, BrokenPipe, Killed, Ends, TypeOK
<1>6. ASSUME NEW j \in 0 .. n - 1 PROVE ReadRight(j)'
  <2>1. ReadRight(j) /\ j \in Stages
    BY DEF TruthInv, TypeOK, Stages
  <2>2. CASE j # i
    BY <1>1, <1>2, <2>1, <2>2 DEF ReadRight, WasRead
  <2>3. CASE j = i /\ i \in errno
    BY <1>2, <2>1, <2>3 DEF ReadRight, WasRead
  <2>4. CASE j = i /\ i \notin errno
    <3>1. WasRead(i) => child[i] \notin {"forked", "wired", "refusing"}
      BY <1>3, <2>1, <2>4 DEF ReadRight, ErrnoOf
    <3>2. child[i] \notin {"forked", "wired", "refusing"} =>
            child'[i] \notin {"forked", "wired"} /\ errno' = errno
      BY DEF ChildStep, ProgramStep, CloseOthers, Exec, Refuse, RefusedExit, UnwiredExit,
             ProgramExits, EndOfInput, BrokenPipe, Killed, Ends, TypeOK
    <3> QED
      BY <1>2, <2>4, <3>1, <3>2 DEF ReadRight, WasRead
  <2> QED
    BY <2>2, <2>3, <2>4
<1>7. ASSUME NEW l \in LineSet, l.proc \in Stages PROVE Truthful(l)'
  <2>1. Truthful(l) /\ l \in StageLines
    BY <1>7 DEF TruthInv, LineSet, TypeOK
  <2>2. CASE l.proc # i
    BY <1>1, <1>2, <1>7, <2>1, <2>2 DEF Truthful
  <2>3. CASE l.proc = i
    <3>1. l.type \notin {"process.exec_error", "process.exited"}
      BY <1>1, <2>1, <2>3 DEF Truthful, Ended
    <3> QED
      BY <3>1 DEF Truthful
  <2> QED
    BY <2>2, <2>3
<1>8. \A j \in Stages : j # i => HoldsStatus(j)' /\ ErrnoOf(j)'
  BY <1>1 DEF TruthInv, HoldsStatus, ErrnoOf, StatusEnd
<1>9. LineSet' = LineSet
  BY <1>2 DEF LineSet
<1> QED
  BY <1>2, <1>4, <1>5, <1>6, <1>7, <1>8, <1>9 DEF TruthInv

LEMMA LaunchTruth ==
  ASSUME TypeOK, TruthInv, DescriptorInv, NEW i \in Stages, Launch(i) PROVE TruthInv'
<1>1. /\ at = "launch" /\ cur = i /\ at' \in {"launch", "close"} /\ i < n
      /\ UNCHANGED <<line, errno, execFailed>>
      /\ child' = [child EXCEPT ![i] = "forked"]
  BY DEF Launch, TypeOK
<1>2. ~Launched(i)
  BY <1>1 DEF DescriptorInv, LaunchedSoFar, Stages
<1>3. fds'[i] = Forked(i) /\ \A j \in Stages : j # i => fds'[j] = fds[j] /\ child'[j] = child[j]
  BY EngineIsNoStage DEF Launch, TypeOK
<1>4. StatusEnd(i, "w") \in Forked(i)
  BY DEF Forked, StatusPipe, StatusEnd
<1>5. \A j \in Stages : HoldsStatus(j)'
  BY <1>3, <1>4 DEF HoldsStatus, TruthInv, StatusEnd
<1>6. i \notin errno
  BY <1>2 DEF TruthInv, ErrnoOf, Launched
<1>7. \A j \in Stages : ErrnoOf(j)'
  BY <1>1, <1>3, <1>6 DEF TruthInv, ErrnoOf, TypeOK
<1>8. \A j \in 0 .. n - 1 : ReadRight(j)'
  BY <1>1 DEF ReadRight, WasRead
<1>9. ASSUME NEW l \in LineSet', l.proc \in Stages PROVE Truthful(l)'
  <2> DEFINE t == (IF i = 0 /\ n > 1 THEN <<Envelope("pipeline.started", 0, 0, "COMPLETED")>> ELSE <<>>)
                  \o <<StageLine("process.started", i, "none")>>
  <2>1. /\ Envelope("pipeline.started", 0, 0, "COMPLETED") \in StageLines
        /\ StageLine("process.started", i, "none") \in StageLines
    <3>1. /\ "pipeline.started" \in LineTypes /\ "process.started" \in LineTypes
          /\ "COMPLETED" \in Outcomes /\ "none" \in Outcomes /\ 0 \in Processes
      BY DEF LineTypes, EngineEvents, Outcomes, Stages, Processes
    <3> QED
      BY <1>1, <3>1, SetsOfLines
  <2>2. t \in Seq(StageLines) /\ lines' = lines \o t
    <3>1. lines \in Seq(StageLines)
      BY DEF TypeOK
    <3>2. CASE i = 0 /\ n > 1
      <4>1. lines' = lines \o <<Envelope("pipeline.started", 0, 0, "COMPLETED")>>
                           \o <<StageLine("process.started", i, "none")>>
        BY <3>2 DEF Launch
      <4> QED
        BY <2>1, <3>1, <3>2, <4>1, ConcatAssociative
    <3>3. CASE ~(i = 0 /\ n > 1)
      <4>1. lines' = lines \o <<>> \o <<StageLine("process.started", i, "none")>>
        BY <3>3 DEF Launch
      <4> QED
        BY <2>1, <3>1, <3>3, <4>1
    <3> QED
      BY <3>2, <3>3
  <2>3. \A k \in DOMAIN t : t[k].type \in {"pipeline.started", "process.started"}
    BY DEF Envelope, StageLine
  <2> HIDE DEF t
  <2>4. CASE l \in LineSet
    <3>1. Truthful(l) /\ l \in StageLines
      BY <1>9, <2>4 DEF TruthInv, LineSet, TypeOK
    <3>2. CASE l.proc = i
      BY <1>2, <3>1, <3>2 DEF Truthful, Launched
    <3>3. CASE l.proc # i
      BY <1>1, <1>3, <1>9, <3>1, <3>3 DEF Truthful
    <3> QED
      BY <3>2, <3>3
  <2>5. CASE l \notin LineSet
    <3>1. l.type \in {"pipeline.started", "process.started"}
      BY <1>9, <2>2, <2>3, <2>5, NewLines
    <3> QED
      BY <3>1 DEF Truthful
  <2> QED
    BY <2>4, <2>5
<1> QED
  BY <1>1, <1>5, <1>7, <1>8, <1>9 DEF TruthInv, line

LEMMA ReadTruth ==
  ASSUME TypeOK, TruthInv, DescriptorInv, NEW i \in Stages, ReadStatus(i) PROVE TruthInv'
<1>1. /\ UNCHANGED <<line, child, errno, lines>> /\ at = "status" /\ cur = i /\ i < n
      /\ Launched(i) => i \in errno \/ Holders(StatusEnd(i, "w")) \subseteq {Engine}
      /\ execFailed' = execFailed \cup ({i} \cap errno)
      /\ \/ at' = "status" /\ cur' = i + 1
         \/ at' = "reap" /\ i + 1 = n
  BY DEF ReadStatus, Advance, TypeOK, Stages
<1>2. \A j \in Stages : fds'[j] = fds[j]
  BY EngineIsNoStage DEF ReadStatus, TypeOK
<1>3. i \notin errno => child[i] \notin {"forked", "wired"}
  <2> SUFFICES ASSUME i \notin errno, child[i] \in {"forked", "wired"} PROVE FALSE
    OBVIOUS
  <2>1. i \in Holders(StatusEnd(i, "w"))
    BY EngineIsNoStage DEF TruthInv, HoldsStatus, Holders
  <2>2. Holders(StatusEnd(i, "w")) \subseteq {Engine}
    BY <1>1 DEF Launched
  <2> QED
    BY <2>1, <2>2, EngineIsNoStage
<1>4. ASSUME NEW j \in 0 .. n - 1 PROVE ReadRight(j)'
  <2>1. ReadRight(j) /\ (WasRead(j)' => j = i \/ WasRead(j))
    BY <1>1 DEF TruthInv, WasRead, Stages, TypeOK
  <2> QED
    BY <1>1, <1>3, <2>1 DEF ReadRight
<1>5. \A j \in Stages : HoldsStatus(j)'
  BY <1>1, <1>2 DEF TruthInv, HoldsStatus, StatusEnd
<1>6. execFailed' \subseteq errno
  BY <1>1 DEF TruthInv
<1> QED
  BY <1>1, <1>4, <1>5, <1>6, SameLines, TruthFrame

(* What the engine writes of a stage it has reaped.                        *)
LEMMA EndLinesTrue ==
  ASSUME TypeOK, TruthInv, NEW i \in Stages, i < n, at = "reap", Ended(i)
  PROVE  \A k \in DOMAIN EndLines(i, child[i]) : Truthful(EndLines(i, child[i])[k])
<1>1. ErrnoOf(i) /\ ReadRight(i) /\ execFailed \subseteq errno
  BY DEF TruthInv, Stages, TypeOK
<1>2. CASE i \in execFailed
  <2>1. EndLines(i, child[i]) = <<Unplaced("process.exec_error", i, "EXEC_FAILED")>>
    BY <1>2 DEF EndLines
  <2>2. child[i] \in {"refused", "signaled"} /\ i \in errno
    BY <1>1, <1>2 DEF ErrnoOf, Ended
  <2> QED
    BY <2>1, <2>2 DEF Unplaced, Truthful
<1>3. CASE i \notin execFailed
  <2>1. child[i] \in {"ok", "failed", "signaled"}
    BY <1>1, <1>3 DEF ErrnoOf, ReadRight, WasRead, Ended
  <2>2. CASE child[i] = "ok"
    BY <1>3, <2>2 DEF EndLines, StageLine, Truthful
  <2>3. CASE child[i] = "failed"
    BY <1>3, <2>3 DEF EndLines, StageLine, Truthful
  <2>4. CASE child[i] = "signaled"
    <3>1. EndLines(i, child[i]) = <<SignalLine(i), StageLine("process.exited", i, "SIGNALED")>>
      BY <1>3, <2>4 DEF EndLines
    <3>2. Truthful(SignalLine(i))
      BY DEF SignalLine, StageLine, Truthful
    <3>3. Truthful(StageLine("process.exited", i, "SIGNALED"))
      BY <2>4 DEF StageLine, Truthful
    <3> QED
      BY <3>1, <3>2, <3>3
  <2> QED
    BY <2>1, <2>2, <2>3, <2>4
<1> QED
  BY <1>2, <1>3

(* A step of the engine that reads no status pipe.                         *)
LEMMA QuietTruth ==
  ASSUME TypeOK, TruthInv, UNCHANGED <<line, child, errno, execFailed>>,
         \A j \in Stages : fds'[j] = fds[j],
         \A j \in 0 .. n - 1 : WasRead(j)' => WasRead(j),
         NEW t \in Seq(StageLines), lines' = lines \o t,
         \A k \in DOMAIN t : t[k].proc \in Stages => Truthful(t[k])
  PROVE  TruthInv'
<1>1. \A i \in Stages : HoldsStatus(i)'
  BY DEF TruthInv, HoldsStatus, StatusEnd
<1>2. \A i \in 0 .. n - 1 : ReadRight(i)'
  BY DEF TruthInv, ReadRight
<1>3. execFailed' \subseteq errno
  BY DEF TruthInv
<1> QED
  BY <1>1, <1>2, <1>3, TruthFrame

LEMMA OneLine ==
  ASSUME TypeOK, NEW l \in StageLines, lines' = Append(lines, l)
  PROVE  <<l>> \in Seq(StageLines) /\ lines' = lines \o <<l>> /\ \A k \in DOMAIN <<l>> : <<l>>[k] = l
BY DEF TypeOK

LEMMA ReapTruth ==
  ASSUME TypeOK, TruthInv, NEW i \in Stages, Reap(i) \/ WaitFails(i) \/ SkipStage(i)
  PROVE  TruthInv'
<1>1. /\ UNCHANGED <<line, child, errno, execFailed, fds>> /\ at = "reap" /\ cur = i /\ i < n
      /\ \A j \in 0 .. n - 1 : WasRead(j)
  BY DEF Reap, WaitFails, SkipStage, WasRead, TypeOK, Stages
<1>2. CASE Reap(i)
  <2>1. EndLines(i, child[i]) \in Seq(StageLines) /\ lines' = lines \o EndLines(i, child[i])
    BY <1>1, <1>2, EndLinesType DEF Reap
  <2>2. \A k \in DOMAIN EndLines(i, child[i]) : Truthful(EndLines(i, child[i])[k])
    BY <1>1, <1>2, EndLinesTrue DEF Reap
  <2> QED
    BY <1>1, <2>1, <2>2, QuietTruth
<1>3. CASE WaitFails(i)
  <2> DEFINE l == Unplaced("process.wait_failed", i, "WAIT_FAILED")
  <2>1. l \in StageLines
    <3>1. "process.wait_failed" \in LineTypes /\ "WAIT_FAILED" \in Outcomes /\ i \in Processes
      BY DEF LineTypes, EngineEvents, Outcomes, Processes
    <3> QED
      BY <1>1, <3>1, SetsOfLines
  <2>2. lines' = Append(lines, l)
    BY <1>3 DEF WaitFails
  <2>3. Truthful(l)
    BY DEF Unplaced, Truthful
  <2> HIDE DEF l
  <2> QED
    BY <1>1, <2>1, <2>2, <2>3, OneLine, QuietTruth
<1>4. CASE SkipStage(i)
  <2>1. NeverLaunched \in StageLines
    <3>1. "process.exited" \in LineTypes /\ "LAUNCH_FAILED" \in Outcomes /\ Engine \in Processes
      BY DEF LineTypes, EngineEvents, Outcomes, Processes
    <3> QED
      BY <1>1, <3>1, SetsOfLines DEF NeverLaunched
  <2>2. lines' = Append(lines, NeverLaunched)
    BY <1>4 DEF SkipStage
  <2>3. NeverLaunched.proc \notin Stages
    BY EngineIsNoStage DEF NeverLaunched, StageLine
  <2> QED
    BY <1>1, <2>1, <2>2, <2>3, OneLine, QuietTruth
<1> QED
  BY <1>2, <1>3, <1>4

LEMMA FailTruth ==
  ASSUME TypeOK, TruthInv, NEW i \in Stages,
         RedirectionFails(i) \/ StatusPipeFails(i) \/ ForkFails(i)
  PROVE  TruthInv'
<1>1. ASSUME NEW fault, NEW why \in Seq(StageLines), NEW opened,
             LaunchFails(i, fault, why, opened), \A k \in DOMAIN why : why[k].proc \notin Stages
      PROVE  TruthInv'
  <2>1. UNCHANGED <<line, child, errno, execFailed>> /\ at' \in {"close", "returned"} /\ lines' = lines \o why
    BY <1>1 DEF LaunchFails
  <2>2. \A j \in Stages : fds'[j] = fds[j]
    BY <1>1, EngineIsNoStage DEF LaunchFails, TypeOK
  <2>3. \A j \in 0 .. n - 1 : ~WasRead(j)'
    BY <2>1 DEF WasRead
  <2> QED
    BY <1>1, <2>1, <2>2, <2>3, QuietTruth
<1>2. /\ {"redirection.failed", "process.launch_failed"} \subseteq LineTypes
      /\ {"none", "LAUNCH_FAILED"} \subseteq Outcomes /\ Engine \in Processes /\ 0 \in Stages /\ 0 < n
  BY DEF LineTypes, EngineEvents, Outcomes, Processes, Stages, TypeOK
<1>3. <<RedirectionFailed>> \in Seq(StageLines) /\ LaunchError \in Seq(StageLines)
  <2>1. /\ RedirectionFailed \in StageLines
        /\ Unplaced("process.launch_failed", Engine, "LAUNCH_FAILED") \in StageLines
    BY <1>2, SetsOfLines DEF RedirectionFailed
  <2> QED
    BY <2>1 DEF LaunchError
<1>4. /\ \A k \in DOMAIN <<RedirectionFailed>> : <<RedirectionFailed>>[k].proc \notin Stages
      /\ \A k \in DOMAIN LaunchError : LaunchError[k].proc \notin Stages
  BY EngineIsNoStage DEF RedirectionFailed, LaunchError, Unplaced
<1> QED
  BY <1>1, <1>3, <1>4 DEF RedirectionFails, StatusPipeFails, ForkFails

LEMMA EnvelopeTruth ==
  ASSUME TypeOK, TruthInv, DescriptorInv, CreatePipes \/ CloseEnds \/ Complete
  PROVE  TruthInv'
<1>1. UNCHANGED <<line, child, errno, execFailed>> /\ \A j \in Stages : fds'[j] = fds[j]
  BY EngineIsNoStage DEF CreatePipes, CloseEnds, Complete, TypeOK
<1>2. \A j \in 0 .. n - 1 : ~WasRead(j)'
  BY DEF CreatePipes, CloseEnds, Complete, WasRead, DescriptorInv, LaunchedSoFar, TypeOK
<1>3. CASE lines' = lines
  BY <1>1, <1>2, <1>3, SameLines, QuietTruth
<1>4. CASE lines' # lines
  <2> DEFINE l == Envelope("pipeline.completed", IF Launched(0) THEN 0 ELSE Engine, -1,
                           IF launchFailed THEN "LAUNCH_FAILED" ELSE "COMPLETED")
  <2>1. lines' = Append(lines, l)
    BY <1>4 DEF CreatePipes, CloseEnds, Complete
  <2>2. l \in StageLines
    <3>1. /\ "pipeline.completed" \in LineTypes /\ {"LAUNCH_FAILED", "COMPLETED"} \subseteq Outcomes
          /\ 0 \in Stages /\ 0 < n /\ 0 \in Processes /\ Engine \in Processes
      BY DEF LineTypes, Outcomes, Stages, Processes, TypeOK
    <3>2. \A p \in Processes : \A o \in {"LAUNCH_FAILED", "COMPLETED"} :
            Envelope("pipeline.completed", p, -1, o) \in StageLines
      BY <3>1, SetsOfLines
    <3> QED
      BY <3>1, <3>2
  <2>3. Truthful(l)
    BY DEF Envelope, Truthful
  <2> HIDE DEF l
  <2> QED
    BY <1>1, <1>2, <2>1, <2>2, <2>3, OneLine, QuietTruth
<1> QED
  BY <1>3, <1>4

LEMMA TruthInit == Init => TruthInv
<1> SUFFICES ASSUME Init PROVE TruthInv
  OBVIOUS
<1>1. \A i \in Stages : child[i] = "none"
  BY DEF Init
<1>2. /\ errno = {} /\ execFailed = {} /\ lines = <<>> /\ at = "start"
  BY DEF Init
<1>3. \A i \in Stages : HoldsStatus(i) /\ ErrnoOf(i)
  BY <1>1, <1>2 DEF HoldsStatus, ErrnoOf
<1>4. \A i \in 0 .. n - 1 : ReadRight(i)
  BY <1>2 DEF ReadRight, WasRead
<1>5. LineSet = {}
  BY <1>2 DEF LineSet
<1> QED
  BY <1>2, <1>3, <1>4, <1>5 DEF TruthInv

LEMMA TruthStep == TypeOK /\ DescriptorInv /\ TruthInv /\ [Next]_vars => TruthInv'
<1> SUFFICES ASSUME TypeOK, DescriptorInv, TruthInv, [Next]_vars PROVE TruthInv'
  OBVIOUS
<1>1. CASE EngineStep
  BY <1>1, EnvelopeTruth, LaunchTruth, ReadTruth, ReapTruth DEF EngineStep
<1>2. CASE EngineFault
  BY <1>2, FailTruth, ReapTruth DEF EngineFault
<1>3. CASE \E i \in Stages : ChildStep(i) \/ ProgramStep(i)
  BY <1>3, ChildTruth
<1>4. CASE UNCHANGED vars
  <2>1. UNCHANGED <<line, child, errno, execFailed, at, cur, fds, lines>>
    BY <1>4 DEF vars
  <2>2. \A j \in 0 .. n - 1 : WasRead(j)' => WasRead(j)
    BY <2>1 DEF WasRead
  <2> QED
    BY <2>1, <2>2, SameLines, QuietTruth
<1> QED
  BY <1>1, <1>2, <1>3, <1>4 DEF Next

LEMMA TruthInvariant == Spec => [](TypeOK /\ DescriptorInv /\ TruthInv)
<1>1. Init => TypeOK /\ DescriptorInv /\ TruthInv
  BY TypeInit, DescriptorInit, TruthInit
<1>2. TypeOK /\ DescriptorInv /\ TruthInv /\ [Next]_vars => (TypeOK /\ DescriptorInv /\ TruthInv)'
  BY TypeStep, DescriptorStep, TruthStep
<1> QED
  BY <1>1, <1>2, PTL DEF Spec

(* No line ever contradicts what became of the process it is about, in     *)
(* any interleaving of the engine with its children: the errno the engine  *)
(* reads from a status pipe, and the status waitpid() returns, are those   *)
(* of the stage the line names.                                            *)
THEOREM LinesAreTrue == Spec => []LinesTellTheTruth
<1>1. TypeOK /\ TruthInv => LinesTellTheTruth
  BY DEF TruthInv, Truthful, LinesTellTheTruth
<1> QED
  BY <1>1, TruthInvariant, PTL

------------------------------------------------------------------------------
(* The accounting of the stages.                                           *)

(* A line that is an ending of stage i. *)
EndingOf(l, i) ==
  /\ l.type \in Endings
  /\ IF Launched(i) THEN l.proc = i ELSE l.proc = Engine /\ l.stage = i

Quiet(l) == l.type \notin Endings /\ l.type # "pipeline.completed"

(* The stages before k have one ending each, in order; the others none.    *)
Settled(k) ==
  /\ \A i \in 0 .. k - 1 : \E p \in Nat : EndingsOf(i) = {p}
  /\ \A i \in k .. n - 1 : EndingsOf(i) = {}
  /\ \A i, j \in 0 .. k - 1 : \A p \in EndingsOf(i), q \in EndingsOf(j) : i < j => p < q

AccountInv ==
  /\ at \in {"start", "launch", "close", "status"} => \A l \in LineSet : l.type \notin Endings
  /\ at = "reap" => Settled(cur)
  /\ at = "complete" => Settled(n)
  /\ at # "returned" => \A l \in LineSet : l.type # "pipeline.completed"
  /\ at = "returned" =>
       \A c \in DOMAIN lines : lines[c].type = "pipeline.completed" => c = Len(lines) /\ Settled(n)

LEMMA EndingsGrow ==
  ASSUME TypeOK, NEW i, Launched(i)' <=> Launched(i), NEW t \in Seq(StageLines), lines' = lines \o t
  PROVE  EndingsOf(i)' = EndingsOf(i) \cup {Len(lines) + k : k \in {k \in DOMAIN t : EndingOf(t[k], i)}}
<1>1. lines \in Seq(StageLines)
  BY DEF TypeOK
<1>2. /\ DOMAIN lines = 1 .. Len(lines) /\ DOMAIN t = 1 .. Len(t) /\ DOMAIN lines' = 1 .. Len(lines) + Len(t)
      /\ Len(lines) \in Nat /\ Len(t) \in Nat
      /\ \A k \in 1 .. Len(lines) : lines'[k] = lines[k]
      /\ \A k \in Len(lines) + 1 .. Len(lines) + Len(t) : lines'[k] = t[k - Len(lines)]
  BY <1>1, Concatenation
<1>3. /\ EndingsOf(i) = {k \in DOMAIN lines : EndingOf(lines[k], i)}
      /\ EndingsOf(i)' = {k \in DOMAIN lines' : EndingOf(lines'[k], i)}
  BY DEF EndingsOf, EndingOf
<1>4. ASSUME NEW k \in EndingsOf(i)'
      PROVE  k \in EndingsOf(i) \/ \E m \in DOMAIN t : EndingOf(t[m], i) /\ k = Len(lines) + m
  <2>1. k \in 1 .. Len(lines) + Len(t) /\ EndingOf(lines'[k], i)
    BY <1>2, <1>3, <1>4
  <2>2. CASE k \in 1 .. Len(lines)
    BY <1>2, <1>3, <2>1, <2>2
  <2>3. CASE k \in Len(lines) + 1 .. Len(lines) + Len(t)
    <3>1. k - Len(lines) \in DOMAIN t /\ k = Len(lines) + (k - Len(lines)) /\ EndingOf(t[k - Len(lines)], i)
      BY <1>2, <2>1, <2>3
    <3> QED
      BY <3>1
  <2> QED
    BY <1>2, <2>1, <2>2, <2>3
<1>5. ASSUME NEW k \in EndingsOf(i) PROVE k \in EndingsOf(i)'
  BY <1>2, <1>3, <1>5
<1>6. ASSUME NEW m \in DOMAIN t, EndingOf(t[m], i) PROVE Len(lines) + m \in EndingsOf(i)'
  <2>1. Len(lines) + m \in Len(lines) + 1 .. Len(lines) + Len(t) /\ (Len(lines) + m) - Len(lines) = m
    BY <1>2, <1>6
  <2>2. Len(lines) + m \in DOMAIN lines' /\ lines'[Len(lines) + m] = t[m]
    BY <1>2, <2>1
  <2> QED
    BY <1>3, <1>6, <2>2
<1> QED
  BY <1>4, <1>5, <1>6

(* A step that adds neither an ending nor the end of the envelope.         *)
LEMMA QuietEndings ==
  ASSUME TypeOK, NEW t \in Seq(StageLines), lines' = lines \o t,
         \A k \in DOMAIN t : t[k].type \notin Endings
  PROVE  /\ \A i : (Launched(i)' <=> Launched(i)) => EndingsOf(i)' = EndingsOf(i)
         /\ (\A l \in LineSet : l.type \notin Endings) => \A l \in LineSet' : l.type \notin Endings
<1>1. ASSUME NEW i, Launched(i)' <=> Launched(i) PROVE EndingsOf(i)' = EndingsOf(i)
  <2> DEFINE new == {k \in DOMAIN t : EndingOf(t[k], i)}
  <2>1. EndingsOf(i)' = EndingsOf(i) \cup {Len(lines) + k : k \in new}
    BY <1>1, EndingsGrow
  <2>2. new = {}
    BY DEF EndingOf
  <2> HIDE DEF new
  <2>3. {Len(lines) + k : k \in new} = {}
    BY <2>2
  <2> QED
    BY <2>1, <2>3
<1>2. (\A l \in LineSet : l.type \notin Endings) => \A l \in LineSet' : l.type \notin Endings
  BY NewLines
<1> QED
  BY <1>1, <1>2

LEMMA NoEndingsYet ==
  ASSUME \A l \in LineSet : l.type \notin Endings
  PROVE  Settled(0)
<1>1. \A i : EndingsOf(i) = {}
  BY DEF LineSet, EndingsOf
<1>2. 0 .. 0 - 1 = {}
  OBVIOUS
<1> QED
  BY <1>1, <1>2 DEF Settled

(* The step that settles the stage whose turn it is.                       *)
LEMMA SettleOne ==
  ASSUME TypeOK, NEW i \in 0 .. n - 1, Settled(i), UNCHANGED <<line, child>>,
         NEW t \in Seq(StageLines), lines' = lines \o t, NEW m \in DOMAIN t,
         EndingOf(t[m], i), \A j \in 0 .. n - 1 : j # i => ~EndingOf(t[m], j),
         \A k \in DOMAIN t : k # m => t[k].type \notin Endings
  PROVE  Settled(i + 1)'
<1>1. \A j : Launched(j)' <=> Launched(j)
  BY DEF Launched
<1>2. /\ Len(lines) \in Nat /\ DOMAIN lines = 1 .. Len(lines) /\ m \in Nat /\ m > 0
      /\ n \in Nat /\ n' = n
  <2>1. lines \in Seq(StageLines) /\ DOMAIN t = 1 .. Len(t)
    BY Concatenation DEF TypeOK
  <2>2. DOMAIN lines = 1 .. Len(lines) /\ Len(lines) \in Nat /\ Len(t) \in Nat
    BY <2>1, Concatenation
  <2> QED
    BY <2>1, <2>2 DEF TypeOK, line
<1>3. EndingsOf(i)' = {Len(lines) + m}
  <2>1. EndingsOf(i) = {}
    BY <1>2 DEF Settled
  <2>2. {k \in DOMAIN t : EndingOf(t[k], i)} = {m}
    BY DEF EndingOf
  <2>3. EndingsOf(i)' = EndingsOf(i) \cup {Len(lines) + k : k \in {k \in DOMAIN t : EndingOf(t[k], i)}}
    BY <1>1, EndingsGrow
  <2> QED
    BY <2>1, <2>2, <2>3
<1>4. ASSUME NEW j \in 0 .. n - 1, j # i PROVE EndingsOf(j)' = EndingsOf(j)
  <2> DEFINE new == {k \in DOMAIN t : EndingOf(t[k], j)}
  <2>1. new = {}
    BY <1>4 DEF EndingOf
  <2>2. EndingsOf(j)' = EndingsOf(j) \cup {Len(lines) + k : k \in new}
    BY <1>1, EndingsGrow
  <2> HIDE DEF new
  <2>3. {Len(lines) + k : k \in new} = {}
    BY <2>1
  <2> QED
    BY <2>2, <2>3
<1>5. \A j : \A p \in EndingsOf(j) : p \in Nat /\ p <= Len(lines)
  <2>1. \A j : \A p \in EndingsOf(j) : p \in DOMAIN lines
    BY DEF EndingsOf
  <2> QED
    BY <1>2, <2>1
<1>6. ASSUME NEW j \in 0 .. (i + 1) - 1 PROVE \E p \in Nat : EndingsOf(j)' = {p}
  <2>1. CASE j = i
    <3>1. Len(lines) + m \in Nat
      BY <1>2
    <3> QED
      BY <1>3, <2>1, <3>1
  <2>2. CASE j # i
    <3>1. j \in 0 .. i - 1 /\ j \in 0 .. n - 1
      BY <1>2, <1>6, <2>2
    <3>2. \E p \in Nat : EndingsOf(j) = {p}
      BY <3>1 DEF Settled
    <3> QED
      BY <1>4, <2>2, <3>1, <3>2
  <2> QED
    BY <2>1, <2>2
<1>7. ASSUME NEW j \in i + 1 .. n - 1 PROVE EndingsOf(j)' = {}
  <2>1. j \in 0 .. n - 1 /\ j # i /\ j \in i .. n - 1
    BY <1>2, <1>7
  <2> QED
    BY <1>4, <2>1 DEF Settled
<1>8. ASSUME NEW j \in 0 .. (i + 1) - 1, NEW k \in 0 .. (i + 1) - 1,
             NEW p \in EndingsOf(j)', NEW q \in EndingsOf(k)', j < k
      PROVE  p < q
  <2>1. j \in 0 .. i - 1 /\ p \in EndingsOf(j)
    BY <1>2, <1>4, <1>8
  <2>2. CASE k = i
    BY <1>2, <1>3, <1>5, <1>8, <2>1, <2>2
  <2>3. CASE k # i
    <3>1. k \in 0 .. i - 1 /\ q \in EndingsOf(k)
      BY <1>2, <1>4, <1>8, <2>3
    <3> QED
      BY <1>8, <2>1, <3>1 DEF Settled
  <2> QED
    BY <2>2, <2>3
<1> QED
  BY <1>2, <1>6, <1>7, <1>8 DEF Settled

(* No ending and no end of the envelope: all steps before the reaping.     *)
LEMMA EarlyAccount ==
  ASSUME TypeOK, TypeOK', AccountInv, at \in {"start", "launch", "close", "status"},
         \/ at' \in {"launch", "close", "status", "returned"}
         \/ at' = "reap" /\ cur' = 0,
         NEW t \in Seq(StageLines), lines' = lines \o t, \A k \in DOMAIN t : Quiet(t[k])
  PROVE  AccountInv'
<1>1. \A l \in LineSet' : l.type \notin Endings /\ l.type # "pipeline.completed"
  <2>1. \A l \in LineSet : l.type \notin Endings /\ l.type # "pipeline.completed"
    BY DEF AccountInv
  <2> QED
    BY <2>1, NewLines DEF Quiet
<1>2. \A i : EndingsOf(i)' = {}
  BY <1>1 DEF LineSet, EndingsOf
<1>3. at' = "reap" => Settled(cur)'
  <2>1. 0 .. 0 - 1 = {}
    OBVIOUS
  <2> QED
    BY <1>2, <2>1 DEF Settled
<1>4. \A c \in DOMAIN lines' : lines'[c].type # "pipeline.completed"
  BY <1>1 DEF LineSet
<1> QED
  BY <1>1, <1>3, <1>4 DEF AccountInv

LEMMA LaunchAccount ==
  ASSUME TypeOK, TypeOK', AccountInv, NEW i \in Stages, Launch(i)
  PROVE  AccountInv'
<1> DEFINE open == Envelope("pipeline.started", 0, 0, "COMPLETED")
           first == StageLine("process.started", i, "none")
<1>1. at = "launch" /\ at' \in {"launch", "close"} /\ i < n
  BY DEF Launch, TypeOK
<1>2. open \in StageLines /\ first \in StageLines
  <2>1. /\ "pipeline.started" \in LineTypes /\ "process.started" \in LineTypes
        /\ "COMPLETED" \in Outcomes /\ "none" \in Outcomes /\ 0 \in Processes
    BY DEF LineTypes, EngineEvents, Outcomes, Stages, Processes
  <2> QED
    BY <1>1, <2>1, SetsOfLines
<1>3. Quiet(open) /\ Quiet(first)
  BY DEF Envelope, StageLine, Quiet, Endings
<1>4. lines \in Seq(StageLines)
  BY DEF TypeOK
<1>5. lines' = lines \o (IF i = 0 /\ n > 1 THEN <<open>> ELSE <<>>) \o <<first>>
  BY DEF Launch
<1> HIDE DEF open, first
<1>6. CASE i = 0 /\ n > 1
  <2> DEFINE t == <<open>> \o <<first>>
  <2>1. <<open>> \in Seq(StageLines) /\ <<first>> \in Seq(StageLines) /\ t \in Seq(StageLines)
    BY <1>2
  <2>2. lines' = lines \o t
    <3>1. lines' = lines \o <<open>> \o <<first>>
      BY <1>5, <1>6
    <3> QED
      BY <1>4, <2>1, <3>1, ConcatAssociative
  <2>3. ASSUME NEW k \in DOMAIN t PROVE Quiet(t[k])
    <3>1. Len(<<open>>) = 1 /\ Len(<<first>>) = 1
      OBVIOUS
    <3>2. k \in 1 .. 2 /\ t[1] = <<open>>[1] /\ t[2] = <<first>>[1]
      <4>1. DOMAIN t = 1 .. 2
        BY <2>1, <3>1, Concatenation
      <4>2. t[1] = <<open>>[1]
        BY <2>1, <3>1, Concatenation
      <4>3. t[2] = <<first>>[2 - 1]
        BY <2>1, <3>1, Concatenation
      <4> QED
        BY <2>3, <4>1, <4>2, <4>3
    <3>3. t[1] = open /\ t[2] = first
      BY <3>2
    <3> HIDE DEF t
    <3> QED
      BY <1>3, <3>2, <3>3
  <2> HIDE DEF t
  <2> QED
    BY <1>1, <2>1, <2>2, <2>3, EarlyAccount
<1>7. CASE ~(i = 0 /\ n > 1)
  <2>1. lines' = lines \o <<first>>
    <3>1. lines' = lines \o <<>> \o <<first>>
      BY <1>5, <1>7
    <3>2. lines \o <<>> = lines
      BY <1>4
    <3> QED
      BY <3>1, <3>2
  <2>2. <<first>> \in Seq(StageLines) /\ \A k \in DOMAIN <<first>> : Quiet(<<first>>[k])
    BY <1>2, <1>3
  <2> QED
    BY <1>1, <2>1, <2>2, EarlyAccount
<1> QED
  BY <1>6, <1>7

LEMMA OpenAccount ==
  ASSUME TypeOK, TypeOK', AccountInv, DescriptorInv, CreatePipes \/ CloseEnds \/ \E i \in Stages : ReadStatus(i)
  PROVE  AccountInv'
<1>1. at \in {"start", "close", "status"} /\ lines' = lines
  BY DEF CreatePipes, CloseEnds, ReadStatus
<1>2. \/ at' \in {"launch", "close", "status", "returned"}
      \/ at' = "reap" /\ cur' = 0
  BY DEF CreatePipes, CloseEnds, ReadStatus, Advance
<1> QED
  BY <1>1, <1>2, SameLines, EarlyAccount

LEMMA FailAccount ==
  ASSUME TypeOK, TypeOK', AccountInv, NEW i \in Stages,
         RedirectionFails(i) \/ StatusPipeFails(i) \/ ForkFails(i)
  PROVE  AccountInv'
<1>1. ASSUME NEW fault, NEW why \in Seq(StageLines), NEW opened,
             LaunchFails(i, fault, why, opened), \A k \in DOMAIN why : Quiet(why[k])
      PROVE  AccountInv'
  <2>1. at = "launch" /\ at' \in {"close", "returned"} /\ lines' = lines \o why
    BY <1>1 DEF LaunchFails
  <2> QED
    BY <1>1, <2>1, EarlyAccount
<1>2. /\ {"redirection.failed", "process.launch_failed"} \subseteq LineTypes
      /\ {"none", "LAUNCH_FAILED"} \subseteq Outcomes /\ Engine \in Processes /\ 0 \in Stages /\ 0 < n
  BY DEF LineTypes, EngineEvents, Outcomes, Processes, Stages, TypeOK
<1>3. <<RedirectionFailed>> \in Seq(StageLines) /\ LaunchError \in Seq(StageLines)
  <2>1. /\ RedirectionFailed \in StageLines
        /\ Unplaced("process.launch_failed", Engine, "LAUNCH_FAILED") \in StageLines
    BY <1>2, SetsOfLines DEF RedirectionFailed
  <2> QED
    BY <2>1 DEF LaunchError
<1>4. /\ \A k \in DOMAIN <<RedirectionFailed>> : Quiet(<<RedirectionFailed>>[k])
      /\ \A k \in DOMAIN LaunchError : Quiet(LaunchError[k])
  BY DEF RedirectionFailed, LaunchError, Unplaced, Quiet, Endings
<1> QED
  BY <1>1, <1>3, <1>4 DEF RedirectionFails, StatusPipeFails, ForkFails

LEMMA SettledFrame ==
  ASSUME NEW k \in Nat, n \in Nat, k <= n, Settled(k), n' = n,
         \A i \in 0 .. n - 1 : EndingsOf(i)' = EndingsOf(i)
  PROVE  Settled(k)'
<1>1. \A i \in 0 .. k - 1 : i \in 0 .. n - 1
  OBVIOUS
<1>2. \A i \in k .. n - 1 : i \in 0 .. n - 1
  OBVIOUS
<1> QED
  BY <1>1, <1>2 DEF Settled

LEMMA ReapAccount ==
  ASSUME TypeOK, TypeOK', AccountInv, NEW i \in Stages, Reap(i) \/ WaitFails(i) \/ SkipStage(i)
  PROVE  AccountInv'
<1>1. /\ UNCHANGED <<line, child>> /\ at = "reap" /\ cur = i /\ i \in 0 .. n - 1 /\ i < n /\ n \in Nat
      /\ \/ at' = "reap" /\ cur' = i + 1
         \/ at' = "complete" /\ i + 1 = n
  BY DEF Reap, WaitFails, SkipStage, Advance, TypeOK
<1>2. ASSUME NEW t \in Seq(StageLines), lines' = lines \o t, NEW m \in DOMAIN t,
             EndingOf(t[m], i), \A j \in 0 .. n - 1 : j # i => ~EndingOf(t[m], j),
             \A k \in DOMAIN t : k # m => Quiet(t[k])
      PROVE  AccountInv'
  <2>1. Settled(i)
    BY <1>1 DEF AccountInv
  <2>2. Settled(i + 1)'
    BY <1>1, <1>2, <2>1, SettleOne DEF Quiet
  <2>3. \A l \in LineSet' : l.type # "pipeline.completed"
    <3>1. \A l \in LineSet : l.type # "pipeline.completed"
      BY <1>1 DEF AccountInv
    <3>2. \A k \in DOMAIN t : t[k].type # "pipeline.completed"
      BY <1>2 DEF EndingOf, Endings, Quiet
    <3> QED
      BY <1>2, <3>1, <3>2, NewLines
  <2>4. at' = "reap" => Settled(cur)'
    BY <1>1, <2>2 DEF Settled
  <2>5. at' = "complete" => Settled(n)'
    BY <1>1, <2>2 DEF Settled, line
  <2> QED
    BY <1>1, <2>3, <2>4, <2>5 DEF AccountInv
<1>3. ASSUME NEW l \in StageLines, lines' = Append(lines, l), EndingOf(l, i),
             \A j \in 0 .. n - 1 : j # i => ~EndingOf(l, j)
      PROVE  AccountInv'
  <2>1. <<l>> \in Seq(StageLines) /\ lines' = lines \o <<l>> /\ DOMAIN <<l>> = {1} /\ <<l>>[1] = l
    BY <1>3, OneLine
  <2> QED
    BY <1>2, <1>3, <2>1
<1>4. i \in Processes /\ Engine \in Processes /\ \A j \in 0 .. n - 1 : j \in Stages /\ j # Engine
  BY EngineIsNoStage DEF TypeOK, Stages, Processes
<1>5. \A l : l.type \in Endings /\ l.proc = i /\ Launched(i) =>
        EndingOf(l, i) /\ \A j \in 0 .. n - 1 : j # i => ~EndingOf(l, j)
  <2> SUFFICES ASSUME NEW l, l.type \in Endings, l.proc = i, Launched(i)
               PROVE  EndingOf(l, i) /\ \A j \in 0 .. n - 1 : j # i => ~EndingOf(l, j)
    OBVIOUS
  <2>1. EndingOf(l, i)
    BY DEF EndingOf
  <2>2. ASSUME NEW j \in 0 .. n - 1, j # i PROVE ~EndingOf(l, j)
    <3>1. l.proc # j /\ l.proc # Engine
      BY <1>1, <2>2, EngineIsNoStage
    <3> QED
      BY <3>1 DEF EndingOf
  <2> QED
    BY <2>1, <2>2
<1>6. CASE Reap(i)
  <2> DEFINE t == EndLines(i, child[i])
  <2>1. Launched(i) /\ t \in Seq(StageLines) /\ lines' = lines \o t
    BY <1>1, <1>6, EndLinesType DEF Reap, Ended, Launched
  <2>2. \A type \in Endings : \A o : EndingOf(StageLine(type, i, o), i) /\ EndingOf(Unplaced(type, i, o), i)
                                /\ \A j \in 0 .. n - 1 : j # i => ~EndingOf(StageLine(type, i, o), j)
                                                              /\ ~EndingOf(Unplaced(type, i, o), j)
    BY <1>5, <2>1 DEF StageLine, Unplaced
  <2>3. "process.exited" \in Endings /\ "process.exec_error" \in Endings
    BY DEF Endings
  <2>4. CASE DOMAIN t = {1} /\ EndingOf(t[1], i) /\ \A j \in 0 .. n - 1 : j # i => ~EndingOf(t[1], j)
    BY <1>2, <2>1, <2>4
  <2>5. CASE t = <<SignalLine(i), StageLine("process.exited", i, "SIGNALED")>>
    <3>1. DOMAIN t = {1, 2} /\ t[1] = SignalLine(i) /\ t[2] = StageLine("process.exited", i, "SIGNALED")
      BY <2>5
    <3>2. Quiet(SignalLine(i))
      BY DEF SignalLine, StageLine, Quiet, Endings
    <3> HIDE DEF t
    <3>3. 2 \in DOMAIN t /\ EndingOf(t[2], i) /\ \A j \in 0 .. n - 1 : j # i => ~EndingOf(t[2], j)
      BY <2>2, <2>3, <3>1
    <3>4. \A k \in DOMAIN t : k # 2 => Quiet(t[k])
      BY <3>1, <3>2
    <3> QED
      BY <1>2, <2>1, <3>3, <3>4
  <2>6. \/ t = <<Unplaced("process.exec_error", i, "EXEC_FAILED")>>
        \/ t = <<StageLine("process.exited", i, "COMPLETED")>>
        \/ t = <<StageLine("process.exited", i, "EXITED")>>
        \/ t = <<SignalLine(i), StageLine("process.exited", i, "SIGNALED")>>
    BY DEF EndLines
  <2> HIDE DEF t
  <2> QED
    BY <2>2, <2>3, <2>4, <2>5, <2>6
<1>7. CASE WaitFails(i)
  <2> DEFINE l == Unplaced("process.wait_failed", i, "WAIT_FAILED")
  <2>1. l \in StageLines
    <3>1. "process.wait_failed" \in LineTypes /\ "WAIT_FAILED" \in Outcomes
      BY DEF LineTypes, EngineEvents, Outcomes
    <3> QED
      BY <1>1, <1>4, <3>1, SetsOfLines
  <2>2. lines' = Append(lines, l) /\ Launched(i)
    BY <1>7 DEF WaitFails, Ended, Launched
  <2>3. l.type \in Endings /\ l.proc = i
    BY DEF Unplaced, Endings
  <2> HIDE DEF l
  <2> QED
    BY <1>3, <1>5, <2>1, <2>2, <2>3
<1>8. CASE SkipStage(i)
  <2>1. NeverLaunched \in StageLines
    <3>1. "process.exited" \in LineTypes /\ "LAUNCH_FAILED" \in Outcomes
      BY DEF LineTypes, EngineEvents, Outcomes
    <3> QED
      BY <1>1, <1>4, <3>1, SetsOfLines DEF NeverLaunched
  <2>2. lines' = Append(lines, NeverLaunched) /\ ~Launched(i)
    BY <1>8 DEF SkipStage
  <2>3. NeverLaunched.type \in Endings /\ NeverLaunched.proc = Engine /\ NeverLaunched.stage = i
    BY <1>1 DEF NeverLaunched, StageLine, Endings
  <2>4. EndingOf(NeverLaunched, i) /\ \A j \in 0 .. n - 1 : j # i => ~EndingOf(NeverLaunched, j)
    BY <1>4, <2>2, <2>3 DEF EndingOf
  <2> QED
    BY <1>3, <2>1, <2>2, <2>4
<1> QED
  BY <1>6, <1>7, <1>8

LEMMA CompleteAccount ==
  ASSUME TypeOK, TypeOK', AccountInv, Complete
  PROVE  AccountInv'
<1>1. /\ at = "complete" /\ at' = "returned" /\ n' = n /\ n \in Nat /\ child' = child
      /\ Settled(n) /\ \A l \in LineSet : l.type # "pipeline.completed"
  BY DEF Complete, line, TypeOK, AccountInv
<1>2. CASE lines' = lines
  BY <1>1, <1>2 DEF AccountInv, LineSet
<1>3. CASE lines' # lines
  <2> DEFINE l == Envelope("pipeline.completed", IF Launched(0) THEN 0 ELSE Engine, -1,
                           IF launchFailed THEN "LAUNCH_FAILED" ELSE "COMPLETED")
  <2>1. lines' = Append(lines, l)
    BY <1>3 DEF Complete
  <2>2. l \in StageLines
    <3>1. /\ "pipeline.completed" \in LineTypes /\ {"LAUNCH_FAILED", "COMPLETED"} \subseteq Outcomes
          /\ 0 \in Stages /\ 0 < n /\ 0 \in Processes /\ Engine \in Processes
      BY DEF LineTypes, Outcomes, Stages, Processes, TypeOK
    <3>2. \A p \in Processes : \A o \in {"LAUNCH_FAILED", "COMPLETED"} :
            Envelope("pipeline.completed", p, -1, o) \in StageLines
      BY <3>1, SetsOfLines
    <3> QED
      BY <3>1, <3>2
  <2>3. l.type \notin Endings
    BY DEF Envelope, Endings
  <2> HIDE DEF l
  <2>4. /\ <<l>> \in Seq(StageLines) /\ lines' = lines \o <<l>> /\ \A k \in DOMAIN <<l>> : <<l>>[k] = l
    BY <2>1, <2>2, OneLine
  <2>5. \A i \in 0 .. n - 1 : EndingsOf(i)' = EndingsOf(i)
    <3>1. \A i : Launched(i)' <=> Launched(i)
      BY <1>1 DEF Launched
    <3> QED
      BY <2>3, <2>4, <3>1, QuietEndings
  <2>6. Settled(n)'
    <3>1. Settled(n) /\ n <= n
      BY <1>1
    <3>2. ASSUME NEW k \in Nat, k = n PROVE Settled(k)'
      BY <1>1, <2>5, <3>1, <3>2, SettledFrame
    <3> QED
      BY <1>1, <3>2 DEF Settled
  <2>7. ASSUME NEW c \in DOMAIN lines', lines'[c].type = "pipeline.completed" PROVE c = Len(lines')
    <3>1. /\ lines \in Seq(StageLines) /\ Len(lines') = Len(lines) + 1 /\ Len(lines) \in Nat
          /\ DOMAIN lines = 1 .. Len(lines) /\ DOMAIN lines' = 1 .. Len(lines) + 1
          /\ \A k \in 1 .. Len(lines) : lines'[k] = lines[k]
      BY <2>1, <2>2, AppendProperties DEF TypeOK
    <3>2. CASE c \in 1 .. Len(lines)
      BY <1>1, <2>7, <3>1, <3>2 DEF LineSet
    <3> QED
      BY <2>7, <3>1, <3>2
  <2> QED
    BY <1>1, <2>6, <2>7 DEF AccountInv
<1> QED
  BY <1>2, <1>3

(* Steps that leave the engine and its lines alone: those of the children. *)
LEMMA ChildAccount ==
  ASSUME TypeOK, AccountInv, UNCHANGED <<n, at, cur, lines>>, \A i \in Stages : Launched(i)' <=> Launched(i)
  PROVE  AccountInv'
<1>1. \A i \in 0 .. n - 1 : EndingsOf(i)' = EndingsOf(i)
  <2>1. \A i \in 0 .. n - 1 : i \in Stages
    BY DEF TypeOK, Stages
  <2> QED
    BY <2>1 DEF EndingsOf
<1>2. n \in Nat /\ cur \in Nat /\ cur <= n
  BY DEF TypeOK
<1>3. \A k \in Nat : k <= n /\ Settled(k) => Settled(k)'
  BY <1>1, <1>2, SettledFrame
<1>4. Settled(n) => Settled(n)'
  <2>1. \A k \in Nat : k = n /\ Settled(k) => Settled(k)'
    BY <1>2, <1>3
  <2> QED
    BY <1>2, <2>1 DEF Settled
<1>5. Settled(cur) => Settled(cur)'
  <2>1. \A k \in Nat : k = cur /\ Settled(k) => Settled(k)'
    BY <1>2, <1>3
  <2> QED
    BY <1>2, <2>1 DEF Settled
<1> QED
  BY <1>4, <1>5 DEF AccountInv, LineSet

LEMMA AccountInit == Init => AccountInv
<1> SUFFICES ASSUME Init PROVE AccountInv
  OBVIOUS
<1>1. at = "start" /\ lines = <<>>
  BY DEF Init
<1>2. LineSet = {}
  BY <1>1 DEF LineSet
<1> QED
  BY <1>1, <1>2 DEF AccountInv

LEMMA AccountStep ==
  TypeOK /\ TypeOK' /\ DescriptorInv /\ AccountInv /\ [Next]_vars => AccountInv'
<1> SUFFICES ASSUME TypeOK, TypeOK', DescriptorInv, AccountInv, [Next]_vars PROVE AccountInv'
  OBVIOUS
<1>1. CASE EngineStep
  BY <1>1, OpenAccount, LaunchAccount, ReapAccount, CompleteAccount DEF EngineStep
<1>2. CASE EngineFault
  BY <1>2, FailAccount, ReapAccount DEF EngineFault
<1>3. ASSUME NEW i \in Stages, ChildStep(i) \/ ProgramStep(i) PROVE AccountInv'
  <2>1. Unchanged_Engine /\ \E how : how # "none" /\ child' = [child EXCEPT ![i] = how]
    BY <1>3 DEF ChildStep, ProgramStep, CloseOthers, Exec, Refuse, RefusedExit, UnwiredExit,
                ProgramExits, EndOfInput, BrokenPipe, Killed, Ends
  <2>2. child[i] # "none"
    BY <1>3 DEF ChildStep, ProgramStep, CloseOthers, Exec, Refuse, RefusedExit, UnwiredExit,
                ProgramExits, EndOfInput, BrokenPipe, Killed
  <2>3. \A j \in Stages : Launched(j)' <=> Launched(j)
    BY <2>1, <2>2 DEF Launched, TypeOK
  <2> QED
    BY <2>1, <2>3, ChildAccount DEF Unchanged_Engine, line
<1>4. CASE UNCHANGED vars
  <2>1. UNCHANGED <<n, at, cur, lines>> /\ \A i \in Stages : Launched(i)' <=> Launched(i)
    BY <1>4 DEF vars, line, Launched
  <2> QED
    BY <2>1, ChildAccount
<1> QED
  BY <1>1, <1>2, <1>3, <1>4 DEF Next

LEMMA AccountInvariant == Spec => [](TypeOK /\ AccountInv)
<1>1. Init => AccountInv
  BY AccountInit
<1>2. TypeOK /\ TypeOK' /\ DescriptorInv /\ AccountInv /\ [Next]_vars => AccountInv'
  BY AccountStep
<1> QED
  BY <1>1, <1>2, DescriptorsInvariant, PTL DEF Spec

LEMMA AccountImplies ==
  ASSUME TypeOK, AccountInv
  PROVE  StagesAreAccounted
<1> SUFFICES ASSUME NEW c \in DOMAIN lines, lines[c].type = "pipeline.completed"
             PROVE  /\ c = Len(lines)
                    /\ \E place \in [0 .. n - 1 -> 1 .. c - 1] :
                         /\ \A i \in 0 .. n - 1 : EndingsOf(i) = {place[i]}
                         /\ \A i, j \in 0 .. n - 1 : i < j => place[i] < place[j]
  BY DEF StagesAreAccounted
<1>1. c = Len(lines) /\ Settled(n)
  BY DEF AccountInv, LineSet
<1>2. n \in Nat /\ lines \in Seq(StageLines)
  BY DEF TypeOK
<1>3. ASSUME NEW i \in 0 .. n - 1 PROVE \E p \in 1 .. c - 1 : EndingsOf(i) = {p}
  <2>1. PICK p \in Nat : EndingsOf(i) = {p}
    BY <1>1 DEF Settled
  <2>2. p \in DOMAIN lines /\ lines[p].type \in Endings
    BY <2>1 DEF EndingsOf
  <2>3. p # c
    BY <2>2 DEF Endings
  <2> QED
    BY <1>1, <1>2, <2>1, <2>2, <2>3
<1> DEFINE place == [i \in 0 .. n - 1 |-> CHOOSE p \in 1 .. c - 1 : EndingsOf(i) = {p}]
<1>4. \A i \in 0 .. n - 1 : place[i] \in 1 .. c - 1 /\ EndingsOf(i) = {place[i]}
  BY <1>3
<1>5. place \in [0 .. n - 1 -> 1 .. c - 1]
  BY <1>4
<1> HIDE DEF place
<1>6. ASSUME NEW i \in 0 .. n - 1, NEW j \in 0 .. n - 1, i < j PROVE place[i] < place[j]
  <2>1. place[i] \in EndingsOf(i) /\ place[j] \in EndingsOf(j)
    BY <1>4
  <2> QED
    BY <1>1, <1>6, <2>1 DEF Settled
<1> QED
  BY <1>1, <1>4, <1>5, <1>6

(* When the envelope closes, the lines account for every stage of the      *)
(* pipeline exactly once and in order, whatever was launched, refused,     *)
(* killed or lost on the way: the reap loop visits every stage.            *)
THEOREM EveryStageIsAccounted == Spec => []StagesAreAccounted
BY AccountImplies, AccountInvariant, PTL

------------------------------------------------------------------------------
(* The verdict.  CompletedMeansAllRan rests on the truth and the           *)
(* completeness of the lines, on which stages can be missing, and on what  *)
(* the runner has kept of the lines it has read.                           *)

(* What the engine writes when it reaps a stage.                           *)
ExitOfStage(l) == l.proc \in Stages /\ l.outcome \in {"COMPLETED", "EXITED", "SIGNALED"}
ExitOfNone(l)  == l.proc = Engine /\ l.outcome = "LAUNCH_FAILED"

WellFormed(l) ==
  /\ l.type = "process.exited" => ExitOfStage(l) \/ ExitOfNone(l)
  /\ l.type \in EngineEvents /\ l.outcome = "COMPLETED" => l.type = "process.exited"

(* A signalled exit does not come alone; a completed one left its status.  *)
Backed(l) ==
  l.type = "process.exited" =>
    /\ l.outcome = "SIGNALED" => \E m \in LineSet : m.type = "signal.received"
    /\ l.outcome = "COMPLETED" => l.proc \in Stages /\ status[l.proc] = "zero"

(* The stages that were launched are the first ones; a launch that failed  *)
(* leaves the last one out.                                                *)
FirstStages ==
  /\ \A i \in Stages : Launched(i) => i < n
  /\ \A i, j \in Stages : i < j /\ Launched(j) => Launched(i)
  /\ at \in {"start", "launch"} => ~launchFailed /\ status[n - 1] = "unknown"
  /\ launchFailed => ~Launched(n - 1)

AtReturn ==
  at = "returned" =>
    /\ Settled(n) \/ \A l \in LineSet : l.type \notin Endings
    /\ ~launchFailed /\ status[n - 1] = "zero" => result = "zero"

OutcomeInv ==
  /\ \A l \in LineSet : WellFormed(l) /\ Backed(l)
  /\ FirstStages
  /\ AtReturn

(* What the runner holds: every mark of the lines it has read, and the     *)
(* outcome of the last of them that had one.                               *)
LastOutcome(k) ==
  /\ lines[k].type \in EngineEvents /\ evidence.outcome = lines[k].outcome
  /\ \A m \in k + 1 .. told : lines[m].type \in EngineEvents => lines[m].outcome = "none"

ReaderInv ==
  /\ told \in 0 .. Len(lines)
  /\ \A k \in 1 .. told : lines[k].type \in Marks => lines[k].type \in evidence.saw
  /\ evidence.outcome # "none" => \E k \in 1 .. told : LastOutcome(k)

(* The lines there were stay.                                              *)
LEMMA OldLines ==
  ASSUME TypeOK, NEW t \in Seq(StageLines), lines' = lines \o t
  PROVE  LineSet \subseteq LineSet' /\ \A k \in DOMAIN t : t[k] \in LineSet'
<1>1. /\ lines \in Seq(StageLines) /\ DOMAIN lines = 1 .. Len(lines) /\ Len(lines) \in Nat
      /\ DOMAIN t = 1 .. Len(t) /\ Len(t) \in Nat
      /\ DOMAIN lines' = 1 .. Len(lines) + Len(t)
      /\ \A k \in 1 .. Len(lines) : lines'[k] = lines[k]
      /\ \A k \in Len(lines) + 1 .. Len(lines) + Len(t) : lines'[k] = t[k - Len(lines)]
  BY Concatenation DEF TypeOK
<1>2. \A k \in DOMAIN lines : k \in DOMAIN lines'
  BY <1>1
<1>3. \A k \in DOMAIN t : /\ k + Len(lines) \in DOMAIN lines' /\ lines'[k + Len(lines)] = t[k]
  <2> TAKE k \in DOMAIN t
  <2>1. k + Len(lines) \in Len(lines) + 1 .. Len(lines) + Len(t) /\ (k + Len(lines)) - Len(lines) = k
    BY <1>1
  <2> QED
    BY <1>1, <2>1
<1> QED
  BY <1>1, <1>2, <1>3 DEF LineSet

LEMMA OutcomeFrame ==
  ASSUME TypeOK, OutcomeInv, NEW t \in Seq(StageLines), lines' = lines \o t,
         \A l \in LineSet : l.type = "process.exited" /\ l.outcome = "COMPLETED" /\ l.proc \in Stages
                            /\ status[l.proc] = "zero" => status'[l.proc] = "zero",
         \A k \in DOMAIN t : WellFormed(t[k]) /\ Backed(t[k])'
  PROVE  \A l \in LineSet' : WellFormed(l) /\ Backed(l)'
<1> SUFFICES ASSUME NEW l \in LineSet' PROVE WellFormed(l) /\ Backed(l)'
  OBVIOUS
<1>1. CASE l \in LineSet
  <2>1. WellFormed(l) /\ Backed(l) /\ LineSet \subseteq LineSet'
    BY <1>1, OldLines DEF OutcomeInv
  <2> QED
    BY <1>1, <2>1 DEF Backed
<1>2. CASE l \notin LineSet
  BY <1>2, NewLines
<1> QED
  BY <1>1, <1>2

(* What the engine writes when it launches, or fails to launch, a stage.   *)
Opening == Envelope("pipeline.started", 0, 0, "COMPLETED")
Start(i) == StageLine("process.started", i, "none")

LEMMA LaunchWrites ==
  ASSUME TypeOK, NEW i \in Stages, Launch(i)
  PROVE  \E t \in Seq(StageLines) :
            /\ lines' = lines \o t
            /\ Len(t) \in DOMAIN t /\ t[Len(t)] = Start(i)
            /\ \A k \in DOMAIN t : k # Len(t) => t[k] = Opening
<1>1. i < n /\ lines \in Seq(StageLines)
  BY DEF Launch, TypeOK
<1>2. Opening \in StageLines /\ Start(i) \in StageLines
  <2>1. /\ "pipeline.started" \in LineTypes /\ "process.started" \in LineTypes
        /\ "COMPLETED" \in Outcomes /\ "none" \in Outcomes /\ 0 \in Processes
    BY DEF LineTypes, EngineEvents, Outcomes, Stages, Processes
  <2> QED
    BY <1>1, <2>1, SetsOfLines DEF Opening, Start
<1>3. lines' = lines \o (IF i = 0 /\ n > 1 THEN <<Opening>> ELSE <<>>) \o <<Start(i)>>
  BY DEF Launch, Opening, Start
<1>4. CASE i = 0 /\ n > 1
  <2> DEFINE t == <<Opening>> \o <<Start(i)>>
  <2>1. <<Opening>> \in Seq(StageLines) /\ <<Start(i)>> \in Seq(StageLines) /\ t \in Seq(StageLines)
    BY <1>2
  <2>2. Len(<<Opening>>) = 1 /\ Len(<<Start(i)>>) = 1
    OBVIOUS
  <2>3. lines' = lines \o t
    <3>1. lines' = lines \o <<Opening>> \o <<Start(i)>>
      BY <1>3, <1>4
    <3> QED
      BY <1>1, <2>1, <3>1, ConcatAssociative
  <2>4. DOMAIN t = 1 .. 2 /\ Len(t) = 2 /\ t[1] = <<Opening>>[1] /\ t[2] = <<Start(i)>>[2 - 1]
    BY <2>1, <2>2, Concatenation
  <2>5. t[1] = Opening /\ t[2] = Start(i)
    BY <2>4
  <2>6. t \in Seq(StageLines)
    BY <2>1
  <2> HIDE DEF t
  <2> WITNESS t \in Seq(StageLines)
  <2> QED
    BY <2>3, <2>4, <2>5
<1>5. CASE ~(i = 0 /\ n > 1)
  <2> DEFINE t == <<Start(i)>>
  <2>1. lines' = lines \o t
    <3>1. lines' = lines \o <<>> \o <<Start(i)>>
      BY <1>3, <1>5
    <3>2. lines \o <<>> = lines
      BY <1>1
    <3> QED
      BY <3>1, <3>2
  <2>2. DOMAIN t = {1} /\ Len(t) = 1 /\ t[1] = Start(i)
    OBVIOUS
  <2>3. t \in Seq(StageLines)
    BY <1>2
  <2> HIDE DEF t
  <2> WITNESS t \in Seq(StageLines)
  <2> QED
    BY <2>1, <2>2
<1> QED
  BY <1>4, <1>5

LEMMA FailWrites ==
  ASSUME TypeOK, NEW i \in Stages, RedirectionFails(i) \/ StatusPipeFails(i) \/ ForkFails(i)
  PROVE  /\ at = "launch" /\ cur = i /\ launchFailed' /\ UNCHANGED <<line, child, status>>
         /\ at' = "close" \/ at' = "returned"
         /\ \E t \in Seq(StageLines) :
               /\ lines' = lines \o t
               /\ \A k \in DOMAIN t : /\ t[k].type \in {"redirection.failed", "process.launch_failed"}
                                      /\ t[k].outcome # "COMPLETED"
                                      /\ t[k].stages = 0 /\ t[k].stage = -1
<1>1. /\ {"redirection.failed", "process.launch_failed"} \subseteq LineTypes
      /\ {"none", "LAUNCH_FAILED"} \subseteq Outcomes /\ Engine \in Processes /\ 0 \in Stages /\ 0 < n
  BY DEF LineTypes, EngineEvents, Outcomes, Processes, Stages, TypeOK
<1>2. <<RedirectionFailed>> \in Seq(StageLines) /\ LaunchError \in Seq(StageLines)
  <2>1. /\ RedirectionFailed \in StageLines
        /\ Unplaced("process.launch_failed", Engine, "LAUNCH_FAILED") \in StageLines
    BY <1>1, SetsOfLines DEF RedirectionFailed
  <2> QED
    BY <2>1 DEF LaunchError
<1> DEFINE Says(t) == \A k \in DOMAIN t : /\ t[k].type \in {"redirection.failed", "process.launch_failed"}
                                          /\ t[k].outcome # "COMPLETED"
                                          /\ t[k].stages = 0 /\ t[k].stage = -1
<1>3. Says(<<RedirectionFailed>>) /\ Says(LaunchError)
  <2>1. \A k \in DOMAIN <<RedirectionFailed>> : <<RedirectionFailed>>[k] = RedirectionFailed
    OBVIOUS
  <2>2. \A k \in DOMAIN LaunchError : LaunchError[k] = Unplaced("process.launch_failed", Engine, "LAUNCH_FAILED")
    BY DEF LaunchError
  <2> QED
    BY <2>1, <2>2 DEF RedirectionFailed, Unplaced
<1> HIDE DEF Says
<1>4. ASSUME NEW fault, NEW why \in Seq(StageLines), NEW opened, LaunchFails(i, fault, why, opened), Says(why)
      PROVE  /\ at = "launch" /\ cur = i /\ launchFailed' /\ UNCHANGED <<line, child, status>>
             /\ at' = "close" \/ at' = "returned"
             /\ \E t \in Seq(StageLines) : lines' = lines \o t /\ Says(t)
  BY <1>4 DEF LaunchFails
<1>5. /\ at = "launch" /\ cur = i /\ launchFailed' /\ UNCHANGED <<line, child, status>>
      /\ at' = "close" \/ at' = "returned"
      /\ \E t \in Seq(StageLines) : lines' = lines \o t /\ Says(t)
  BY <1>2, <1>3, <1>4 DEF RedirectionFails, StatusPipeFails, ForkFails
<1> QED
  BY <1>5 DEF Says

(* The envelope that closes a pipeline.                                    *)
LEMMA CompleteWrites ==
  ASSUME TypeOK, Complete
  PROVE  \/ lines' = lines /\ n = 1
         \/ \E l \in StageLines : /\ lines' = Append(lines, l) /\ l.type = "pipeline.completed"
                                  /\ l.stages = n /\ l.stage = -1
<1> DEFINE l == Envelope("pipeline.completed", IF Launched(0) THEN 0 ELSE Engine, -1,
                         IF launchFailed THEN "LAUNCH_FAILED" ELSE "COMPLETED")
<1>1. lines' = (IF n = 1 THEN lines ELSE Append(lines, l))
  BY DEF Complete
<1>2. l \in StageLines
  <2>1. /\ "pipeline.completed" \in LineTypes /\ {"LAUNCH_FAILED", "COMPLETED"} \subseteq Outcomes
        /\ 0 \in Stages /\ 0 < n /\ 0 \in Processes /\ Engine \in Processes
    BY DEF LineTypes, Outcomes, Stages, Processes, TypeOK
  <2>2. \A p \in Processes : \A o \in {"LAUNCH_FAILED", "COMPLETED"} :
          Envelope("pipeline.completed", p, -1, o) \in StageLines
    BY <2>1, SetsOfLines
  <2> QED
    BY <2>1, <2>2
<1>3. l.type = "pipeline.completed" /\ l.stages = n /\ l.stage = -1
  BY DEF Envelope
<1> QED
  BY <1>1, <1>2, <1>3

(* What the engine writes of the stage whose turn it is to be reaped.      *)
LEMMA ReapWrites ==
  ASSUME TypeOK, NEW i \in Stages, Reap(i) \/ WaitFails(i) \/ SkipStage(i)
  PROVE  /\ \E t \in Seq(StageLines) :
              /\ lines' = lines \o t
              /\ \A k \in DOMAIN t :
                    /\ WellFormed(t[k])
                    /\ t[k].type = "process.exited" /\ t[k].outcome = "COMPLETED" =>
                          t[k].proc = i /\ status'[i] = "zero"
                    /\ t[k].type = "process.exited" /\ t[k].outcome = "SIGNALED" =>
                          \E m \in DOMAIN t : t[m].type = "signal.received"
         /\ at = "reap" /\ at' \in {"reap", "complete"} /\ UNCHANGED <<line, child, launchFailed>>
         /\ \A j \in Stages : status[j] = "zero" /\ child[j] = "ok" => status'[j] = "zero"
<1>1. /\ at = "reap" /\ at' \in {"reap", "complete"} /\ UNCHANGED <<line, child, launchFailed>> /\ i < n /\ cur = i
      /\ i \in Processes /\ i # Engine /\ Engine \in Processes
  BY EngineIsNoStage DEF Reap, WaitFails, SkipStage, Advance, TypeOK, Processes
<1>2. \A j \in Stages : status[j] = "zero" /\ child[j] = "ok" => status'[j] = "zero"
  BY DEF Reap, WaitFails, SkipStage, TypeOK
<1>3. CASE Reap(i)
  <2> DEFINE t == EndLines(i, child[i])
  <2>1. t \in Seq(StageLines) /\ lines' = lines \o t
    BY <1>1, <1>3, EndLinesType DEF Reap
  <2>2. child[i] = "ok" => status'[i] = "zero"
    BY <1>3 DEF Reap, TypeOK
  <2>3. \A k \in DOMAIN t :
           /\ WellFormed(t[k])
           /\ t[k].type = "process.exited" /\ t[k].outcome = "COMPLETED" => t[k].proc = i /\ child[i] = "ok"
           /\ t[k].type = "process.exited" /\ t[k].outcome = "SIGNALED" =>
                 \E m \in DOMAIN t : t[m].type = "signal.received"
    <3>1. CASE t = <<Unplaced("process.exec_error", i, "EXEC_FAILED")>>
      BY <3>1 DEF Unplaced, WellFormed
    <3>2. CASE t = <<StageLine("process.exited", i, "COMPLETED")>> /\ child[i] = "ok"
      BY <3>2 DEF StageLine, WellFormed, ExitOfStage
    <3>3. CASE t = <<StageLine("process.exited", i, "EXITED")>>
      BY <3>3 DEF StageLine, WellFormed, ExitOfStage
    <3>4. CASE t = <<SignalLine(i), StageLine("process.exited", i, "SIGNALED")>>
      <4>1. SignalLine(i).type = "signal.received" /\ SignalLine(i).outcome = "SIGNALED"
        BY DEF SignalLine, StageLine
      <4>2. LET l == StageLine("process.exited", i, "SIGNALED")
            IN  l.type = "process.exited" /\ l.outcome = "SIGNALED" /\ l.proc = i
        BY DEF StageLine
      <4>3. DOMAIN t = {1, 2} /\ t[1] = SignalLine(i) /\ t[2] = StageLine("process.exited", i, "SIGNALED")
        BY <3>4
      <4> HIDE DEF t
      <4> QED
        BY <4>1, <4>2, <4>3 DEF WellFormed, ExitOfStage
    <3> QED
      BY <3>1, <3>2, <3>3, <3>4 DEF EndLines
  <2> HIDE DEF t
  <2> QED
    BY <1>1, <1>2, <2>1, <2>2, <2>3
<1>4. ASSUME NEW l \in StageLines, lines' = Append(lines, l), WellFormed(l),
             l.outcome \notin {"COMPLETED", "SIGNALED"}
      PROVE  \E t \in Seq(StageLines) :
              /\ lines' = lines \o t
              /\ \A k \in DOMAIN t :
                    /\ WellFormed(t[k])
                    /\ t[k].type = "process.exited" /\ t[k].outcome = "COMPLETED" =>
                          t[k].proc = i /\ status'[i] = "zero"
                    /\ t[k].type = "process.exited" /\ t[k].outcome = "SIGNALED" =>
                          \E m \in DOMAIN t : t[m].type = "signal.received"
  <2> DEFINE t == <<l>>
  <2>1. t \in Seq(StageLines) /\ lines' = lines \o t /\ \A k \in DOMAIN t : t[k] = l
    BY <1>4, OneLine
  <2> HIDE DEF t
  <2>2. \A k \in DOMAIN t : WellFormed(t[k]) /\ t[k].outcome # "COMPLETED" /\ t[k].outcome # "SIGNALED"
    BY <1>4, <2>1
  <2> QED
    BY <2>1, <2>2
<1>5. CASE WaitFails(i)
  <2> DEFINE l == Unplaced("process.wait_failed", i, "WAIT_FAILED")
  <2>1. l \in StageLines
    <3>1. "process.wait_failed" \in LineTypes /\ "WAIT_FAILED" \in Outcomes
      BY DEF LineTypes, EngineEvents, Outcomes
    <3> QED
      BY <1>1, <3>1, SetsOfLines
  <2>2. lines' = Append(lines, l)
    BY <1>5 DEF WaitFails
  <2>3. WellFormed(l) /\ l.outcome = "WAIT_FAILED"
    BY DEF Unplaced, WellFormed
  <2> HIDE DEF l
  <2> QED
    BY <1>1, <1>2, <1>4, <2>1, <2>2, <2>3
<1>6. CASE SkipStage(i)
  <2>1. NeverLaunched \in StageLines
    <3>1. "process.exited" \in LineTypes /\ "LAUNCH_FAILED" \in Outcomes
      BY DEF LineTypes, EngineEvents, Outcomes
    <3> QED
      BY <1>1, <3>1, SetsOfLines DEF NeverLaunched
  <2>2. lines' = Append(lines, NeverLaunched)
    BY <1>6 DEF SkipStage
  <2>3. WellFormed(NeverLaunched) /\ NeverLaunched.outcome = "LAUNCH_FAILED"
    BY DEF NeverLaunched, StageLine, WellFormed, ExitOfNone
  <2> QED
    BY <1>1, <1>2, <1>4, <2>1, <2>2, <2>3
<1> QED
  BY <1>3, <1>5, <1>6


LEMMA OutcomeInit == Init => OutcomeInv
<1> SUFFICES ASSUME Init PROVE OutcomeInv
  OBVIOUS
<1>1. /\ lines = <<>> /\ at = "start" /\ ~launchFailed /\ n \in 1 .. MaxStages
      /\ child = [i \in Stages |-> "none"] /\ status = [i \in Stages |-> "unknown"]
  BY DEF Init
<1>2. LineSet = {}
  BY <1>1 DEF LineSet
<1>3. FirstStages
  BY <1>1 DEF FirstStages, Launched, Stages
<1> QED
  BY <1>1, <1>2, <1>3 DEF OutcomeInv, AtReturn

(* A step after which the engine is elsewhere than at its return.          *)
LEMMA OutcomeOnTheWay ==
  ASSUME TypeOK, OutcomeInv, NEW t \in Seq(StageLines), lines' = lines \o t, at' # "returned", FirstStages',
         \A l \in LineSet : l.type = "process.exited" /\ l.outcome = "COMPLETED" /\ l.proc \in Stages
                            /\ status[l.proc] = "zero" => status'[l.proc] = "zero",
         \A k \in DOMAIN t : WellFormed(t[k]) /\ Backed(t[k])'
  PROVE  OutcomeInv'
<1>1. \A l \in LineSet' : WellFormed(l) /\ Backed(l)'
  BY OutcomeFrame
<1> QED
  BY <1>1 DEF OutcomeInv, AtReturn, WellFormed, ExitOfStage, ExitOfNone

LEMMA LaunchOutcome ==
  ASSUME TypeOK, DescriptorInv, OutcomeInv, NEW i \in Stages, Launch(i) PROVE OutcomeInv'
<1>1. /\ at = "launch" /\ cur = i /\ at' \in {"launch", "close"} /\ i < n /\ n' = n /\ n \in Nat
      /\ UNCHANGED <<status, launchFailed>> /\ child' = [child EXCEPT ![i] = "forked"]
  BY DEF Launch, line, TypeOK
<1>2. FirstStages'
  <2>1. \A j \in Stages : Launched(j) <=> j < i
    BY <1>1 DEF DescriptorInv, LaunchedSoFar
  <2>2. \A j \in Stages : Launched(j)' <=> j = i \/ Launched(j)
    BY <1>1 DEF Launched, TypeOK
  <2>3. \A j \in Stages : j \in Int
    BY DEF Stages
  <2> QED
    BY <1>1, <2>1, <2>2, <2>3 DEF FirstStages, OutcomeInv
<1>3. PICK t \in Seq(StageLines) :
            lines' = lines \o t /\ \A k \in DOMAIN t : t[k] = Opening \/ t[k] = Start(i)
  BY LaunchWrites
<1>4. \A k \in DOMAIN t : WellFormed(t[k]) /\ Backed(t[k])'
  BY <1>3 DEF WellFormed, Backed, EngineEvents, Opening, Start, Envelope, StageLine
<1> QED
  BY <1>1, <1>2, <1>3, <1>4, OutcomeOnTheWay

LEMMA FailOutcome ==
  ASSUME TypeOK, DescriptorInv, OutcomeInv, AccountInv, NEW i \in Stages,
         RedirectionFails(i) \/ StatusPipeFails(i) \/ ForkFails(i)
  PROVE  OutcomeInv'
<1>1. /\ at = "launch" /\ cur = i /\ launchFailed' /\ UNCHANGED <<n, child, status>>
      /\ at' = "close" \/ at' = "returned"
  BY FailWrites DEF line
<1>2. PICK t \in Seq(StageLines) :
               /\ lines' = lines \o t
               /\ \A k \in DOMAIN t : /\ t[k].type \in {"redirection.failed", "process.launch_failed"}
                                      /\ t[k].outcome # "COMPLETED"
  BY FailWrites
<1>3. FirstStages'
  <2>1. n - 1 \in Stages /\ cur \in 0 .. n - 1 /\ n \in Nat
    BY DEF TypeOK, Stages
  <2>2. ~Launched(n - 1)
    BY <1>1, <2>1 DEF DescriptorInv, LaunchedSoFar
  <2> QED
    BY <1>1, <2>2 DEF OutcomeInv, FirstStages, Launched
<1>4. \A k \in DOMAIN t : WellFormed(t[k]) /\ Backed(t[k])'
  BY <1>2 DEF WellFormed, Backed
<1>5. \A l \in LineSet' : WellFormed(l) /\ Backed(l)'
  BY <1>1, <1>2, <1>4, OutcomeFrame
<1>6. \A l \in LineSet' : l.type \notin Endings
  <2>1. \A l \in LineSet : l.type \notin Endings
    BY <1>1 DEF AccountInv
  <2> QED
    BY <1>2, <2>1, NewLines DEF Endings
<1> QED
  BY <1>1, <1>3, <1>5, <1>6 DEF OutcomeInv, AtReturn, WellFormed, ExitOfStage, ExitOfNone

LEMMA ReapOutcome ==
  ASSUME TypeOK, TruthInv, OutcomeInv, NEW i \in Stages, Reap(i) \/ WaitFails(i) \/ SkipStage(i)
  PROVE  OutcomeInv'
<1>1. PICK t \in Seq(StageLines) :
              /\ lines' = lines \o t
              /\ \A k \in DOMAIN t :
                    /\ WellFormed(t[k])
                    /\ t[k].type = "process.exited" /\ t[k].outcome = "COMPLETED" =>
                          t[k].proc = i /\ status'[i] = "zero"
                    /\ t[k].type = "process.exited" /\ t[k].outcome = "SIGNALED" =>
                          \E m \in DOMAIN t : t[m].type = "signal.received"
  BY ReapWrites
<1>2. /\ at = "reap" /\ at' \in {"reap", "complete"} /\ UNCHANGED <<n, child, launchFailed>>
      /\ \A j \in Stages : status[j] = "zero" /\ child[j] = "ok" => status'[j] = "zero"
  BY ReapWrites DEF line
<1>3. FirstStages'
  BY <1>2 DEF OutcomeInv, FirstStages, Launched
<1>4. \A l \in LineSet : l.type = "process.exited" /\ l.outcome = "COMPLETED" /\ l.proc \in Stages
                         /\ status[l.proc] = "zero" => status'[l.proc] = "zero"
  BY <1>2 DEF TruthInv, Truthful
<1>5. \A k \in DOMAIN t : WellFormed(t[k]) /\ Backed(t[k])'
  <2> TAKE k \in DOMAIN t
  <2>1. \A m \in DOMAIN t : t[m] \in LineSet'
    BY <1>1, OldLines
  <2> QED
    BY <1>1, <2>1 DEF Backed
<1> QED
  BY <1>1, <1>2, <1>3, <1>4, <1>5, OutcomeOnTheWay

LEMMA OpenOutcome ==
  ASSUME TypeOK, AccountInv, OutcomeInv, CreatePipes \/ CloseEnds \/ \E i \in Stages : ReadStatus(i)
  PROVE  OutcomeInv'
<1>1. /\ UNCHANGED <<n, child, status, launchFailed, lines>>
      /\ at' \in {"start", "launch"} => at = "start"
  BY DEF CreatePipes, CloseEnds, ReadStatus, Advance, line
<1>2. FirstStages'
  BY <1>1 DEF OutcomeInv, FirstStages, Launched
<1>3. LineSet' = LineSet
  BY <1>1 DEF LineSet
<1>4. \A l \in LineSet' : WellFormed(l)' /\ Backed(l)'
  BY <1>1, <1>3 DEF OutcomeInv, Backed, WellFormed, ExitOfStage, ExitOfNone
<1>5. at' = "returned" => at = "start"
  BY DEF CreatePipes, CloseEnds, ReadStatus, Advance
<1>6. AtReturn'
  BY <1>1, <1>3, <1>5 DEF OutcomeInv, FirstStages, AtReturn, AccountInv
<1> QED
  BY <1>2, <1>4, <1>6 DEF OutcomeInv

LEMMA CompleteOutcome ==
  ASSUME TypeOK, AccountInv, AccountInv', OutcomeInv, Complete
  PROVE  OutcomeInv'
<1>1. /\ at = "complete" /\ at' = "returned" /\ UNCHANGED <<n, child, status, launchFailed>> /\ n \in Nat
      /\ result' = IF ~launchFailed /\ LastIsZero THEN "zero" ELSE "nonzero"
  BY DEF Complete, line, TypeOK
<1>2. FirstStages'
  BY <1>1 DEF OutcomeInv, FirstStages, Launched
<1>3. ~launchFailed' /\ status'[n' - 1] = "zero" => result' = "zero"
  BY <1>1 DEF LastIsZero
<1>4. CASE lines' = lines
  <2>1. \A i \in 0 .. n - 1 : EndingsOf(i)' = EndingsOf(i)
    BY <1>1, <1>4 DEF EndingsOf, Launched
  <2>2. \A k \in Nat : k = n /\ Settled(k) => Settled(k)'
    BY <1>1, <2>1, SettledFrame
  <2>3. Settled(n)'
    BY <1>1, <2>2 DEF AccountInv, Settled
  <2>4. \A l \in LineSet' : WellFormed(l)' /\ Backed(l)'
    BY <1>1, <1>4 DEF OutcomeInv, Backed, WellFormed, ExitOfStage, ExitOfNone, LineSet
  <2> QED
    BY <1>2, <1>3, <2>3, <2>4 DEF OutcomeInv, AtReturn
<1>5. ASSUME NEW l \in StageLines, lines' = Append(lines, l), l.type = "pipeline.completed"
      PROVE  OutcomeInv'
  <2> DEFINE t == <<l>>
  <2>1. t \in Seq(StageLines) /\ lines' = lines \o t /\ \A k \in DOMAIN t : t[k] = l
    BY <1>5, OneLine
  <2> HIDE DEF t
  <2>2. \A k \in DOMAIN t : WellFormed(t[k]) /\ Backed(t[k])'
    BY <1>5, <2>1 DEF WellFormed, Backed, EngineEvents
  <2>3. \A m \in LineSet' : WellFormed(m) /\ Backed(m)'
    BY <1>1, <2>1, <2>2, OutcomeFrame
  <2>4. Len(lines) + 1 \in DOMAIN lines' /\ lines'[Len(lines) + 1] = l
    BY <1>5, AppendProperties DEF TypeOK
  <2>5. Settled(n)'
    BY <1>1, <1>5, <2>4 DEF AccountInv
  <2> QED
    BY <1>2, <1>3, <2>3, <2>5 DEF OutcomeInv, AtReturn, WellFormed, ExitOfStage, ExitOfNone
<1> QED
  BY <1>4, <1>5, CompleteWrites

(* Steps of the children, and those of nobody.                             *)
LEMMA ChildOutcome ==
  ASSUME TypeOK, OutcomeInv, UNCHANGED <<n, at, launchFailed, status, lines, result>>,
         \A i \in Stages : Launched(i)' <=> Launched(i)
  PROVE  OutcomeInv'
<1>1. n \in Nat /\ n - 1 \in Stages /\ \A i \in 0 .. n - 1 : i \in Stages
  BY DEF TypeOK, Stages
<1>2. FirstStages'
  BY <1>1 DEF OutcomeInv, FirstStages
<1>3. \A i \in 0 .. n - 1 : EndingsOf(i)' = EndingsOf(i)
  BY <1>1 DEF EndingsOf
<1>4. \A k \in Nat : k = n /\ Settled(k) => Settled(k)'
  BY <1>1, <1>3, SettledFrame
<1>5. Settled(n) => Settled(n)'
  BY <1>1, <1>4 DEF Settled
<1>6. AtReturn' /\ LineSet' = LineSet
  BY <1>5 DEF OutcomeInv, AtReturn, LineSet
<1>7. \A l \in LineSet' : WellFormed(l)' /\ Backed(l)'
  BY <1>6 DEF OutcomeInv, Backed, WellFormed, ExitOfStage, ExitOfNone
<1> QED
  BY <1>2, <1>6, <1>7 DEF OutcomeInv

LEMMA OutcomeStep ==
  TypeOK /\ DescriptorInv /\ TruthInv /\ AccountInv /\ AccountInv' /\ OutcomeInv /\ [Next]_vars => OutcomeInv'
<1> SUFFICES ASSUME TypeOK, DescriptorInv, TruthInv, AccountInv, AccountInv', OutcomeInv, [Next]_vars
             PROVE  OutcomeInv'
  OBVIOUS
<1>1. CASE EngineStep
  BY <1>1, OpenOutcome, LaunchOutcome, ReapOutcome, CompleteOutcome DEF EngineStep
<1>2. CASE EngineFault
  BY <1>2, FailOutcome, ReapOutcome DEF EngineFault
<1>3. ASSUME NEW i \in Stages, ChildStep(i) \/ ProgramStep(i) PROVE OutcomeInv'
  <2>1. Unchanged_Engine /\ \E how : how # "none" /\ child' = [child EXCEPT ![i] = how]
    BY <1>3 DEF ChildStep, ProgramStep, CloseOthers, Exec, Refuse, RefusedExit, UnwiredExit,
                ProgramExits, EndOfInput, BrokenPipe, Killed, Ends
  <2>2. child[i] # "none"
    BY <1>3 DEF ChildStep, ProgramStep, CloseOthers, Exec, Refuse, RefusedExit, UnwiredExit,
                ProgramExits, EndOfInput, BrokenPipe, Killed
  <2>3. \A j \in Stages : Launched(j)' <=> Launched(j)
    BY <2>1, <2>2 DEF Launched, TypeOK
  <2> QED
    BY <2>1, <2>3, ChildOutcome DEF Unchanged_Engine, line
<1>4. CASE UNCHANGED vars
  <2>1. UNCHANGED <<n, at, launchFailed, status, lines, result>> /\ \A i \in Stages : Launched(i)' <=> Launched(i)
    BY <1>4 DEF vars, line, Launched
  <2> QED
    BY <2>1, ChildOutcome
<1> QED
  BY <1>1, <1>2, <1>3, <1>4 DEF Next

LEMMA OutcomeInvariant == Spec => [](TypeOK /\ TruthInv /\ OutcomeInv)
<1>1. Init => OutcomeInv
  BY OutcomeInit
<1>2. TypeOK /\ DescriptorInv /\ TruthInv /\ AccountInv /\ AccountInv' /\ OutcomeInv /\ [Next]_vars => OutcomeInv'
  BY OutcomeStep
<1> QED
  BY <1>1, <1>2, TruthInvariant, AccountInvariant, PTL DEF Spec


(* The engine only ever adds lines.                                        *)
LEMMA LinesGrow ==
  ASSUME TypeOK, [Next]_vars
  PROVE  \E t \in Seq(StageLines) : lines' = lines \o t
<1>1. CASE lines' = lines
  BY <1>1, SameLines
<1>2. ASSUME NEW i \in Stages, Launch(i) PROVE \E t \in Seq(StageLines) : lines' = lines \o t
  BY <1>2, LaunchWrites
<1>3. ASSUME NEW i \in Stages, Reap(i) \/ WaitFails(i) \/ SkipStage(i)
      PROVE  \E t \in Seq(StageLines) : lines' = lines \o t
  BY <1>3, ReapWrites
<1>4. ASSUME NEW i \in Stages, RedirectionFails(i) \/ StatusPipeFails(i) \/ ForkFails(i)
      PROVE  \E t \in Seq(StageLines) : lines' = lines \o t
  BY <1>4, FailWrites
<1>5. CASE Complete
  BY <1>1, <1>5, CompleteWrites, OneLine
<1>6. CASE CreatePipes \/ CloseEnds \/ \E i \in Stages : ReadStatus(i)
  BY <1>1, <1>6 DEF CreatePipes, CloseEnds, ReadStatus
<1>7. CASE \E i \in Stages : ChildStep(i) \/ ProgramStep(i)
  <2>1. Unchanged_Engine
    BY <1>7 DEF ChildStep, ProgramStep, CloseOthers, Exec, Refuse, RefusedExit, UnwiredExit,
                ProgramExits, EndOfInput, BrokenPipe, Killed, Ends
  <2> QED
    BY <1>1, <2>1 DEF Unchanged_Engine
<1>8. CASE UNCHANGED vars
  BY <1>1, <1>8 DEF vars
<1> QED
  BY <1>2, <1>3, <1>4, <1>5, <1>6, <1>7, <1>8 DEF Next, EngineStep, EngineFault

LEMMA ReaderStep ==
  TypeOK /\ ReaderInv /\ [WatchedNext]_<<vars, reader>> => ReaderInv'
<1> SUFFICES ASSUME TypeOK, ReaderInv, [WatchedNext]_<<vars, reader>> PROVE ReaderInv'
  OBVIOUS
<1>1. lines \in Seq(StageLines) /\ told \in 0 .. Len(lines) /\ Len(lines) \in Nat
  BY DEF TypeOK, ReaderInv
<1>2. CASE [Next]_vars /\ UNCHANGED reader
  <2>1. PICK t \in Seq(StageLines) : lines' = lines \o t
    BY <1>2, LinesGrow
  <2>2. Len(lines') = Len(lines) + Len(t) /\ Len(t) \in Nat /\ \A k \in 1 .. told : lines'[k] = lines[k]
    BY <1>1, <2>1, Concatenation
  <2>3. told' = told /\ evidence' = evidence
    BY <1>2 DEF reader
  <2>4. told' \in 0 .. Len(lines')
    BY <1>1, <2>2, <2>3
  <2>5. ASSUME NEW k \in 1 .. told, LastOutcome(k) PROVE LastOutcome(k)'
    <3>1. \A m \in k + 1 .. told : lines'[m] = lines[m]
      BY <1>1, <2>2
    <3> QED
      BY <2>2, <2>3, <2>5, <3>1 DEF LastOutcome
  <2>6. \A k \in 1 .. told : lines'[k].type \in Marks => lines'[k].type \in evidence.saw
    BY <2>2 DEF ReaderInv
  <2> QED
    BY <2>3, <2>4, <2>5, <2>6 DEF ReaderInv
<1>3. CASE ReadLine
  <2> DEFINE l == lines[told + 1]
  <2>1. /\ lines' = lines /\ told' = told + 1 /\ told \in Nat /\ told + 1 \in 1 .. Len(lines)
        /\ evidence' = IF l.type \in EngineEvents THEN Observe(evidence, l) ELSE evidence
    BY <1>1, <1>3 DEF ReadLine, vars
  <2> HIDE DEF l
  <2>2. l.type \in EngineEvents => /\ evidence'.saw = evidence.saw \cup ({l.type} \cap Marks)
                                   /\ evidence'.outcome = IF l.outcome = "none" THEN evidence.outcome ELSE l.outcome
    BY <2>1 DEF Observe
  <2>3. Marks \subseteq EngineEvents
    BY DEF Marks, EngineEvents
  <2>4. \A k \in 1 .. told' : k = told + 1 \/ k \in 1 .. told
    BY <2>1
  <2>5. \A k \in 1 .. told' : lines[k].type \in Marks => lines[k].type \in evidence'.saw
    BY <2>1, <2>2, <2>3, <2>4 DEF ReaderInv, l
  <2>6. ASSUME evidence'.outcome # "none" PROVE \E k \in 1 .. told' : LastOutcome(k)'
    <3>1. CASE l.type \in EngineEvents /\ l.outcome # "none"
      <4>1. PICK k \in 1 .. told' : k = told + 1
        BY <2>1
      <4>2. \A m \in k + 1 .. told' : FALSE
        BY <2>1, <4>1
      <4>3. lines'[k] = l
        BY <2>1, <4>1 DEF l
      <4>4. LastOutcome(k)'
        BY <2>2, <3>1, <4>2, <4>3 DEF LastOutcome
      <4> QED
        BY <4>4
    <3>2. CASE l.type \notin EngineEvents \/ l.outcome = "none"
      <4>1. evidence'.outcome = evidence.outcome
        BY <2>1, <2>2, <3>2
      <4>2. PICK k \in 1 .. told : LastOutcome(k)
        BY <2>6, <4>1 DEF ReaderInv
      <4>3. \A m \in k + 1 .. told + 1 : m = told + 1 \/ m \in k + 1 .. told
        BY <2>1
      <4>4. LastOutcome(k)'
        BY <2>1, <3>2, <4>1, <4>2, <4>3 DEF LastOutcome, l
      <4> QED
        BY <2>1, <4>4
    <3> QED
      BY <3>1, <3>2
  <2> QED
    BY <2>1, <2>5, <2>6 DEF ReaderInv
<1> QED
  BY <1>2, <1>3 DEF WatchedNext, Watched, reader

LEMMA ReaderInvariant == WatchedSpec => Spec /\ [](TypeOK /\ TruthInv /\ OutcomeInv /\ ReaderInv)
<1>1. ReaderInit => ReaderInv
  <2> SUFFICES ASSUME ReaderInit PROVE ReaderInv
    OBVIOUS
  <2>1. told = 0 /\ evidence.outcome = "none" /\ told \in 0 .. Len(lines) /\ \A k \in 1 .. told : FALSE
    BY DEF ReaderInit, NoEvidence
  <2> QED
    BY <2>1 DEF ReaderInv
<1>2. [WatchedNext]_<<vars, reader>> => [Next]_vars
  BY DEF WatchedNext, Watched, ReadLine
<1>3. TypeOK /\ ReaderInv /\ [WatchedNext]_<<vars, reader>> => ReaderInv'
  BY ReaderStep
<1> QED
  BY <1>1, <1>2, <1>3, OutcomeInvariant, PTL DEF WatchedSpec, WatchedInit, Spec

(* When every line was read and the verdict is COMPLETED, the last line    *)
(* with an outcome is the ending of the last stage, and no line speaks     *)
(* against any stage before it.                                            *)
LEMMA VerdictImplies ==
  ASSUME TypeOK, TruthInv, OutcomeInv, ReaderInv, Closed,
         DecideStatus(FALSE, FALSE, evidence) = "COMPLETED"
  PROVE  /\ \A i \in 0 .. n - 1 : child[i] \in {"ok", "failed"}
         /\ child[n - 1] = "ok" /\ status[n - 1] = "zero"
         /\ result = "zero"
<1>1. evidence.saw = {} /\ evidence.outcome = "COMPLETED"
  BY DEF DecideStatus
<1>2. /\ n \in Nat /\ n - 1 \in 0 .. n - 1 /\ \A i \in 0 .. n - 1 : i \in Stages /\ i \in Int
      /\ lines \in Seq(StageLines) /\ DOMAIN lines = 1 .. Len(lines) /\ Len(lines) \in Nat /\ told = Len(lines)
  BY DEF TypeOK, Stages, Closed
<1>3. \A k \in DOMAIN lines : lines[k].type \notin Marks /\ lines[k] \in LineSet
  BY <1>1, <1>2 DEF ReaderInv, LineSet
<1>4. PICK k \in DOMAIN lines : LastOutcome(k)
  BY <1>1, <1>2 DEF ReaderInv
<1>5. lines[k].type = "process.exited" /\ lines[k].outcome = "COMPLETED" /\ lines[k].proc \in Stages
  BY <1>1, <1>3, <1>4 DEF LastOutcome, OutcomeInv, WellFormed, Backed
<1> DEFINE j == lines[k].proc
<1>6. j \in 0 .. n - 1 /\ Launched(j) /\ k \in EndingsOf(j)
  <2>1. child[j] = "ok"
    BY <1>3, <1>5 DEF TruthInv, Truthful
  <2>2. Launched(j) /\ j < n
    BY <1>5, <2>1 DEF Launched, OutcomeInv, FirstStages
  <2> QED
    BY <1>2, <1>5, <2>2 DEF EndingsOf, Endings, Stages
<1>7. Settled(n)
  BY <1>3, <1>5 DEF OutcomeInv, AtReturn, Closed, Endings
<1>8. ASSUME NEW i \in 0 .. n - 1
      PROVE  \E p \in DOMAIN lines : /\ p \in EndingsOf(i) /\ lines[p].type = "process.exited"
                                     /\ lines[p].outcome # "none" /\ lines[p].type \in EngineEvents
  <2>1. PICK p \in Nat : EndingsOf(i) = {p}
    BY <1>7 DEF Settled
  <2>2. p \in DOMAIN lines /\ lines[p].type \in Endings
    BY <2>1 DEF EndingsOf
  <2>3. lines[p].type = "process.exited"
    BY <1>3, <2>2 DEF Endings, Marks
  <2>4. lines[p].outcome # "none"
    BY <1>3, <2>2, <2>3 DEF OutcomeInv, WellFormed, ExitOfStage, ExitOfNone
  <2> QED
    BY <2>1, <2>2, <2>3, <2>4 DEF EngineEvents
<1>9. j = n - 1
  <2> SUFFICES ASSUME j < n - 1 PROVE FALSE
    BY <1>2, <1>6
  <2>1. PICK p \in DOMAIN lines : /\ p \in EndingsOf(n - 1) /\ lines[p].outcome # "none"
                                  /\ lines[p].type \in EngineEvents
    BY <1>2, <1>8
  <2>2. k < p
    BY <1>2, <1>6, <1>7, <2>1 DEF Settled
  <2>3. p \in k + 1 .. told
    BY <1>2, <2>1, <2>2
  <2> QED
    BY <1>4, <2>1, <2>3 DEF LastOutcome
<1>10. child[n - 1] = "ok" /\ status[n - 1] = "zero" /\ Launched(n - 1)
  BY <1>3, <1>5, <1>6, <1>9 DEF TruthInv, Truthful, OutcomeInv, Backed
<1>11. result = "zero"
  BY <1>10 DEF OutcomeInv, FirstStages, AtReturn, Closed
<1>12. ASSUME NEW i \in 0 .. n - 1 PROVE child[i] \in {"ok", "failed"}
  <2>1. Launched(i)
    <3>1. i = n - 1 \/ i < n - 1
      BY <1>2
    <3> QED
      BY <1>2, <1>10, <3>1 DEF OutcomeInv, FirstStages
  <2>2. PICK p \in DOMAIN lines : p \in EndingsOf(i) /\ lines[p].type = "process.exited"
    BY <1>8
  <2>3. lines[p].proc = i /\ i \in Stages /\ lines[p] \in LineSet
    BY <1>2, <1>3, <2>1, <2>2 DEF EndingsOf
  <2>4. lines[p].outcome \in {"COMPLETED", "EXITED", "SIGNALED"}
    BY <2>2, <2>3, EngineIsNoStage DEF OutcomeInv, WellFormed, ExitOfStage, ExitOfNone
  <2>5. lines[p].outcome # "SIGNALED"
    <3>1. \A m \in LineSet : m.type # "signal.received"
      BY <1>3 DEF LineSet, Marks
    <3> QED
      BY <2>2, <2>3, <3>1 DEF OutcomeInv, Backed
  <2> QED
    BY <2>2, <2>3, <2>4, <2>5 DEF TruthInv, Truthful
<1> QED
  BY <1>10, <1>11, <1>12

(* However the lines of the engine interleave with their reading, the      *)
(* gateway records COMPLETED only for a line all of whose stages ran, and  *)
(* whose last program exited with zero (process_exec_pipeline's reports    *)
(* against ExecutionRunner.observe and decideStatus).                      *)
THEOREM CompletedIsEarned == WatchedSpec => []CompletedMeansAllRan
<1>1. TypeOK /\ TruthInv /\ OutcomeInv /\ ReaderInv => CompletedMeansAllRan
  BY VerdictImplies DEF CompletedMeansAllRan
<1> QED
  BY <1>1, ReaderInvariant, PTL

-----------------------------------------------------------------------------
(* What the record of a line can miss.  LossIsNoticed rests on where each  *)
(* line stands and what position it carries, and on what the validator's   *)
(* rules say of a record that was put together from lines.                 *)

(* What a line says of its stage, and what its being there says.           *)
Positioned(l) ==
  /\ l.stages \in {0, n} /\ l.stage \in -1 .. n - 1
  /\ l.type = "process.started" => l.proc \in Stages /\ l.stage = l.proc /\ Launched(l.proc)
  /\ l.type = "process.exited" => \/ l.proc = Engine /\ l.stage \in Stages /\ ~Launched(l.stage)
                                  \/ l.proc \in Stages /\ l.stage = l.proc
  /\ l.type \in {"process.exec_error", "process.wait_failed"} => l.proc \in Stages
  /\ l.type = "process.exec_error" => l.proc \in execFailed
  /\ l.type = "process.wait_failed" => status[l.proc] = "unknown" /\ Launched(l.proc)
  /\ l.type = "pipeline.completed" => l.stages = n

(* A stage that was launched has one start, and starts precede endings.    *)
OneStart ==
  /\ \A j, k \in DOMAIN lines :
        lines[j].type = "process.started" /\ lines[k].type = "process.started" /\ lines[j].proc = lines[k].proc
          => j = k
  /\ \A j, k \in DOMAIN lines : lines[j].type = "process.started" /\ lines[k].type \in Endings => j < k
  /\ \A i \in Stages : Launched(i) => \E l \in LineSet : l.type = "process.started" /\ l.proc = i

(* The status of a stage is known once it was reaped; what the engine has  *)
(* written when it returns is nothing, all there is, or the failure of a   *)
(* single command.                                                         *)
NotReaped(i) == at \in {"start", "launch", "close", "status"} \/ (at = "reap" /\ i >= cur)

Returned ==
  /\ \A i \in Stages : /\ status[i] # "unknown" => Launched(i)
                       /\ NotReaped(i) => status[i] = "unknown"
  /\ at = "start" => lines = <<>>
  /\ n = 1 /\ at \in {"close", "status", "reap", "complete"} => Launched(0)
  /\ at = "returned" /\ n > 1 /\ lines # <<>> => \E l \in LineSet : l.type = "pipeline.completed"
  /\ at = "returned" /\ n = 1 /\ ~Launched(0) => \A l \in LineSet : l.type \notin Endings

RecordInv == (\A l \in LineSet : Positioned(l)) /\ OneStart /\ Returned

LEMMA PositionedFrame ==
  ASSUME TypeOK, NEW t \in Seq(StageLines), lines' = lines \o t, n' = n,
         \A i \in Stages : Launched(i) => Launched(i)', execFailed \subseteq execFailed',
         \A l \in LineSet : Positioned(l),
         \A l \in LineSet : l.type = "process.wait_failed" => status'[l.proc] = status[l.proc],
         \A l \in LineSet : l.type = "process.exited" => \A i \in Stages : Launched(i)' => Launched(i),
         \A k \in DOMAIN t : Positioned(t[k])'
  PROVE  \A l \in LineSet' : Positioned(l)'
<1>1. ASSUME NEW l \in LineSet PROVE Positioned(l)'
  BY DEF Positioned
<1> QED
  BY <1>1, NewLines

(* New lines that start a stage start another one each, and come before    *)
(* any ending.                                                             *)
LEMMA OneStartFrame ==
  ASSUME TypeOK, OneStart, NEW t \in Seq(StageLines), lines' = lines \o t,
         \A i \in Stages : Launched(i)' =>
            Launched(i) \/ \E k \in DOMAIN t : t[k].type = "process.started" /\ t[k].proc = i,
         \A j, k \in DOMAIN t : t[j].type = "process.started" /\ t[k].type = "process.started" => j = k,
         \A l \in LineSet, k \in DOMAIN t :
            t[k].type = "process.started" => /\ l.type = "process.started" => l.proc # t[k].proc
                                             /\ l.type \notin Endings,
         \A j, k \in DOMAIN t : t[k].type = "process.started" => t[j].type \notin Endings
  PROVE  OneStart'
<1>1. lines \in Seq(StageLines)
  BY DEF TypeOK
<1> DEFINE old == Len(lines)
           Old(k) == k \in DOMAIN lines /\ lines'[k] = lines[k] /\ lines[k] \in LineSet
           New(k) == k > old /\ k - old \in DOMAIN t /\ lines'[k] = t[k - old]
<1>2. \A k \in DOMAIN lines' : k \in Nat /\ (Old(k) \/ New(k))
  BY <1>1, Concatenation DEF LineSet
<1>3. old \in Nat /\ \A k \in DOMAIN lines : k <= old
  BY <1>1
<1> HIDE DEF old
<1>4. ASSUME NEW j \in DOMAIN lines', NEW k \in DOMAIN lines',
             lines'[j].type = "process.started", lines'[k].type = "process.started",
             lines'[j].proc = lines'[k].proc
      PROVE  j = k
  <2>1. CASE Old(j) /\ Old(k)
    BY <1>4, <2>1 DEF OneStart
  <2>2. CASE New(j) /\ New(k)
    <3>1. j - old = k - old
      BY <1>4, <2>2
    <3> QED
      BY <1>2, <1>3, <3>1
  <2> QED
    BY <1>2, <1>4, <2>1, <2>2
<1>5. ASSUME NEW j \in DOMAIN lines', NEW k \in DOMAIN lines',
             lines'[j].type = "process.started", lines'[k].type \in Endings
      PROVE  j < k
  <2>1. CASE Old(j) /\ Old(k)
    BY <1>5, <2>1 DEF OneStart
  <2>2. CASE Old(j) /\ New(k)
    BY <1>2, <1>3, <2>2
  <2>3. CASE New(j)
    BY <1>2, <1>5, <2>3
  <2> QED
    BY <1>2, <2>1, <2>2, <2>3
<1>6. ASSUME NEW i \in Stages, Launched(i)' PROVE \E l \in LineSet' : l.type = "process.started" /\ l.proc = i
  <2>1. LineSet \subseteq LineSet' /\ \A k \in DOMAIN t : t[k] \in LineSet'
    BY OldLines
  <2> QED
    BY <1>6, <2>1 DEF OneStart
<1> QED
  BY <1>4, <1>5, <1>6 DEF OneStart

LEMMA LaunchRecord ==
  ASSUME TypeOK, DescriptorInv, AccountInv, RecordInv, NEW i \in Stages, Launch(i) PROVE RecordInv'
<1>1. /\ at = "launch" /\ at' \in {"launch", "close"} /\ n' = n /\ i < n /\ n \in Nat
      /\ UNCHANGED <<execFailed, status>> /\ (at' = "close" => i + 1 = n)
      /\ child' = [child EXCEPT ![i] = "forked"] /\ child \in [Stages -> {"none", "forked", "wired", "refusing",
                      "running", "ok", "failed", "signaled", "refused"}]
  BY DEF Launch, line, TypeOK
<1>2. \A j \in Stages : Launched(j)' <=> j = i \/ Launched(j)
  BY <1>1 DEF Launched
<1>3. ~Launched(i)
  BY <1>1 DEF DescriptorInv, LaunchedSoFar, Launch, Stages
<1>4. PICK t \in Seq(StageLines) :
            /\ lines' = lines \o t
            /\ Len(t) \in DOMAIN t /\ t[Len(t)] = Start(i)
            /\ \A k \in DOMAIN t : k # Len(t) => t[k] = Opening
  BY LaunchWrites
<1>5. /\ Start(i).type = "process.started" /\ Start(i).proc = i /\ Start(i).stage = i /\ Start(i).stages = n
      /\ Opening.type = "pipeline.started" /\ Opening.stage = 0 /\ Opening.stages = n
  BY DEF Start, Opening, StageLine, Envelope
<1>6. \A k \in DOMAIN t : Positioned(t[k])'
  BY <1>1, <1>2, <1>4, <1>5 DEF Positioned, Stages
<1>7. \A l \in LineSet' : Positioned(l)'
  <2>1. \A l \in LineSet : l.type # "process.exited"
    BY <1>1 DEF AccountInv, Endings
  <2> QED
    BY <1>1, <1>2, <1>4, <1>6, <2>1, PositionedFrame DEF RecordInv
<1>8. OneStart'
  <2>1. \A k \in DOMAIN t : /\ t[k].type = "process.started" => k = Len(t) /\ t[k].proc = i
                            /\ t[k].type \notin Endings
    BY <1>4, <1>5 DEF Endings
  <2>2. \A l \in LineSet : /\ l.type = "process.started" => l.proc # i
                           /\ l.type \notin Endings
    BY <1>1, <1>3 DEF AccountInv, RecordInv, Positioned
  <2>3. \A j \in Stages : Launched(j)' =>
           Launched(j) \/ \E k \in DOMAIN t : t[k].type = "process.started" /\ t[k].proc = j
    BY <1>2, <1>4, <1>5
  <2>4. \A j, k \in DOMAIN t : t[j].type = "process.started" /\ t[k].type = "process.started" => j = k
    BY <2>1
  <2>5. \A l \in LineSet, k \in DOMAIN t :
           t[k].type = "process.started" => /\ l.type = "process.started" => l.proc # t[k].proc
                                            /\ l.type \notin Endings
    BY <2>1, <2>2
  <2>6. \A j, k \in DOMAIN t : t[k].type = "process.started" => t[j].type \notin Endings
    BY <2>1
  <2>7. OneStart
    BY DEF RecordInv
  <2> QED
    BY <1>4, <2>3, <2>4, <2>5, <2>6, <2>7, OneStartFrame
<1>9. Returned'
  BY <1>1, <1>2 DEF Returned, NotReaped, RecordInv, Stages
<1> QED
  BY <1>7, <1>8, <1>9 DEF RecordInv

LEMMA LastLine ==
  ASSUME TypeOK, NEW l \in StageLines, lines' = Append(lines, l)
  PROVE  l \in LineSet'
BY AppendProperties DEF TypeOK, LineSet

(* Lines that start no stage, while no stage is launched or ends.          *)
LEMMA OtherLines ==
  ASSUME TypeOK, RecordInv, NEW t \in Seq(StageLines), lines' = lines \o t,
         \A i \in Stages : Launched(i)' <=> Launched(i),
         \A k \in DOMAIN t : t[k].type # "process.started"
  PROVE  OneStart'
BY OneStartFrame DEF RecordInv

LEMMA FailRecord ==
  ASSUME TypeOK, AccountInv, RecordInv, NEW i \in Stages,
         RedirectionFails(i) \/ StatusPipeFails(i) \/ ForkFails(i)
  PROVE  RecordInv'
<1>1. PICK t \in Seq(StageLines) :
               /\ lines' = lines \o t
               /\ \A k \in DOMAIN t : /\ t[k].type \in {"redirection.failed", "process.launch_failed"}
                                      /\ t[k].stages = 0 /\ t[k].stage = -1
  BY FailWrites
<1>2. /\ at = "launch" /\ at' = (IF n = 1 THEN "returned" ELSE "close") /\ n \in Nat
      /\ UNCHANGED <<n, child, status, execFailed>>
  BY DEF RedirectionFails, StatusPipeFails, ForkFails, LaunchFails, line, TypeOK
<1>3. \A j \in Stages : Launched(j)' <=> Launched(j)
  BY <1>2 DEF Launched
<1>4. ASSUME NEW k \in DOMAIN t PROVE Positioned(t[k])'
  <2>1. PICK l : l = t[k]
    OBVIOUS
  <2>2. l.type \in {"redirection.failed", "process.launch_failed"} /\ l.stages = 0 /\ l.stage = -1 /\ n' \in Nat
    BY <1>1, <1>2, <2>1
  <2>3. Positioned(l)'
    <3>0. \A m \in Nat : -1 \in -1 .. m - 1
      OBVIOUS
    <3>1. l.stage \in -1 .. n' - 1 /\ l.stages \in {0, n'}
      <4>1. -1 \in -1 .. n' - 1
        BY <2>2, <3>0
      <4> QED
        BY Zenon, <2>2, <4>1
    <3>2. /\ l.type # "process.started" /\ l.type # "process.exited" /\ l.type # "process.exec_error"
          /\ l.type # "process.wait_failed" /\ l.type # "pipeline.completed"
      BY <2>2
    <3> QED
      BY <3>1, <3>2 DEF Positioned
  <2> QED
    BY <2>1, <2>3
<1>5. \A l \in LineSet' : Positioned(l)'
  BY <1>1, <1>2, <1>3, <1>4, PositionedFrame DEF RecordInv
<1>6. OneStart'
  BY <1>1, <1>3, OtherLines
<1>7. \A l \in LineSet' : l.type \notin Endings
  <2>1. \A l \in LineSet : l.type \notin Endings
    BY <1>2 DEF AccountInv
  <2> QED
    <3>1. \A k \in DOMAIN t : t[k].type \notin Endings
      BY <1>1 DEF Endings
    <3>2. \A l \in LineSet' : l \in LineSet \/ \E k \in DOMAIN t : l = t[k]
      BY <1>1, NewLines
    <3> QED
      BY <2>1, <3>1, <3>2
<1>8. Returned'
  BY <1>2, <1>3, <1>7 DEF Returned, NotReaped, RecordInv
<1> QED
  BY <1>5, <1>6, <1>8 DEF RecordInv

LEMMA CompleteRecord ==
  ASSUME TypeOK, RecordInv, Complete PROVE RecordInv'
<1>1. /\ at = "complete" /\ at' = "returned" /\ n \in Nat /\ UNCHANGED <<n, child, status, execFailed>>
  BY DEF Complete, line, TypeOK
<1>2. \A j \in Stages : Launched(j)' <=> Launched(j)
  BY <1>1 DEF Launched
<1>3. n = 1 => Launched(0)
  BY <1>1 DEF RecordInv, Returned
<1>4. CASE lines' = lines /\ n = 1
  <2>1. LineSet' = LineSet
    BY <1>4 DEF LineSet
  <2>2. \A l \in LineSet' : Positioned(l)'
    BY <1>1, <1>2, <2>1 DEF RecordInv, Positioned
  <2>3. OneStart'
    BY <1>2, <1>4, <2>1 DEF RecordInv, OneStart
  <2>4. Returned'
    BY <1>1, <1>2, <1>3, <1>4 DEF Returned, NotReaped, RecordInv, Launched
  <2> QED
    BY <2>2, <2>3, <2>4 DEF RecordInv
<1>5. ASSUME NEW l \in StageLines, lines' = Append(lines, l), l.type = "pipeline.completed", l.stages = n, l.stage = -1
      PROVE  RecordInv'
  <2>1. /\ <<l>> \in Seq(StageLines) /\ lines' = lines \o <<l>> /\ \A k \in DOMAIN <<l>> : <<l>>[k] = l
    BY <1>5, OneLine
  <2>2. Positioned(l)'
    BY <1>1, <1>5 DEF Positioned, TypeOK
  <2>3. \A m \in LineSet' : Positioned(m)'
    BY <1>1, <1>2, <2>1, <2>2, PositionedFrame DEF RecordInv
  <2>4. OneStart'
    BY <1>2, <1>5, <2>1, OtherLines
  <2>5. l \in LineSet'
    BY <1>5, LastLine
  <2>6. Returned'
    BY <1>1, <1>2, <1>3, <1>5, <2>5 DEF Returned, NotReaped, RecordInv, Launched
  <2> QED
    BY <2>3, <2>4, <2>6 DEF RecordInv
<1> QED
  BY <1>4, <1>5, CompleteWrites

(* What is said of a stage that has just been reaped.                      *)
LEMMA EndLinesPositioned ==
  ASSUME TypeOK, NEW i \in Stages, i < n, NEW k \in DOMAIN EndLines(i, child[i])
  PROVE  LET l == EndLines(i, child[i])[k]
         IN  /\ l.stages \in {0, n} /\ l.stage \in -1 .. n - 1
             /\ l.type \in {"process.exited", "process.exec_error", "signal.received"}
             /\ l.type = "process.exited" => l.proc = i /\ l.stage = i
             /\ l.type = "process.exec_error" => l.proc = i /\ i \in execFailed
<1> DEFINE Well(l) == /\ l.stages \in {0, n} /\ l.stage \in -1 .. n - 1
                      /\ l.type \in {"process.exited", "process.exec_error", "signal.received"}
                      /\ l.type = "process.exited" => l.proc = i /\ l.stage = i
                      /\ l.type = "process.exec_error" => l.proc = i /\ i \in execFailed
<1>1. i \in -1 .. n - 1 /\ -1 \in -1 .. n - 1
  BY DEF TypeOK, Stages
<1>2. \A outcome : Well(StageLine("process.exited", i, outcome))
  BY <1>1 DEF StageLine
<1>3. Well(SignalLine(i))
  BY <1>1 DEF SignalLine, StageLine
<1>4. i \in execFailed => Well(Unplaced("process.exec_error", i, "EXEC_FAILED"))
  BY <1>1 DEF Unplaced
<1> HIDE DEF Well
<1> DEFINE t == EndLines(i, child[i])
<1>5. CASE i \in execFailed
  <2>1. t = <<Unplaced("process.exec_error", i, "EXEC_FAILED")>>
    BY <1>5 DEF EndLines
  <2>2. Well(t[k])
    BY <1>4, <1>5, <2>1
  <2> QED
    BY <2>2 DEF Well
<1>6. CASE i \notin execFailed
  <2>1. \/ t = <<StageLine("process.exited", i, "COMPLETED")>>
        \/ t = <<StageLine("process.exited", i, "EXITED")>>
        \/ t = <<SignalLine(i), StageLine("process.exited", i, "SIGNALED")>>
    BY <1>6 DEF EndLines
  <2>2. Well(t[k])
    BY <1>2, <1>3, <2>1
  <2> QED
    BY <2>2 DEF Well
<1> QED
  BY <1>5, <1>6

LEMMA ReapRecord ==
  ASSUME TypeOK, AccountInv, RecordInv, NEW i \in Stages, Reap(i) \/ WaitFails(i) \/ SkipStage(i)
  PROVE  RecordInv'
<1>1. /\ at = "reap" /\ cur = i /\ i < n /\ n \in Nat /\ i \in Nat
      /\ UNCHANGED <<n, child, execFailed>>
      /\ at' = "complete" \/ (at' = "reap" /\ cur' = i + 1)
  BY DEF Reap, WaitFails, SkipStage, Advance, line, TypeOK, Stages
<1>2. \A j \in Stages : Launched(j)' <=> Launched(j)
  BY <1>1 DEF Launched
<1>3. status \in [Stages -> {"unknown", "zero", "nonzero"}] /\ \A j \in Stages : j \in Int
  BY DEF TypeOK, Stages
<1>4. /\ \A j \in Stages : j # i => status'[j] = status[j]
      /\ status'[i] # status[i] => Launched(i)
  BY <1>3 DEF Reap, WaitFails, SkipStage, Ended, Launched
<1>5. \A l \in LineSet : l.type = "process.wait_failed" => status'[l.proc] = status[l.proc]
  <2> SUFFICES ASSUME NEW l \in LineSet, l.type = "process.wait_failed", Launched(i), l.proc = i PROVE FALSE
    BY <1>4 DEF RecordInv, Positioned
  <2>1. EndingsOf(i) = {}
    BY <1>1 DEF AccountInv, Settled
  <2> QED
    BY <2>1 DEF EndingsOf, LineSet, Endings
<1>6. Returned'
  <2>1. \A j \in Stages : /\ status'[j] # "unknown" => Launched(j)'
                          /\ NotReaped(j)' => status'[j] = "unknown"
    BY <1>1, <1>2, <1>3, <1>4 DEF RecordInv, Returned, NotReaped
  <2> QED
    BY <1>1, <1>2, <2>1 DEF RecordInv, Returned, Launched
<1>7. ASSUME NEW t \in Seq(StageLines), lines' = lines \o t,
             \A k \in DOMAIN t : Positioned(t[k])' /\ t[k].type # "process.started"
      PROVE  RecordInv'
  <2>1. \A l \in LineSet' : Positioned(l)'
    BY <1>1, <1>2, <1>5, <1>7, PositionedFrame DEF RecordInv
  <2>2. OneStart'
    BY <1>2, <1>7, OtherLines
  <2> QED
    BY <1>6, <2>1, <2>2 DEF RecordInv
<1>8. ASSUME NEW l \in StageLines, lines' = Append(lines, l), Positioned(l)', l.type # "process.started"
      PROVE  RecordInv'
  <2>1. /\ <<l>> \in Seq(StageLines) /\ lines' = lines \o <<l>> /\ \A k \in DOMAIN <<l>> : <<l>>[k] = l
    BY <1>8, OneLine
  <2> QED
    BY <1>7, <1>8, <2>1
<1>9. i \in -1 .. n - 1 /\ -1 \in -1 .. n - 1
  BY <1>1
<1>10. CASE Reap(i)
  <2> DEFINE Said(t) == \A k \in DOMAIN t :
                          /\ t[k].stages \in {0, n} /\ t[k].stage \in -1 .. n - 1
                          /\ t[k].type \in {"process.exited", "process.exec_error", "signal.received"}
                          /\ t[k].type = "process.exited" => t[k].proc = i /\ t[k].stage = i
                          /\ t[k].type = "process.exec_error" => t[k].proc = i /\ i \in execFailed
  <2>1. Said(EndLines(i, child[i]))
    BY <1>1, EndLinesPositioned
  <2>2. EndLines(i, child[i]) \in Seq(StageLines) /\ lines' = lines \o EndLines(i, child[i])
    BY <1>1, <1>10, EndLinesType DEF Reap
  <2> HIDE DEF Said
  <2>3. PICK t \in Seq(StageLines) : lines' = lines \o t /\ Said(t)
    BY <2>1, <2>2
  <2>4. \A k \in DOMAIN t : Positioned(t[k])' /\ t[k].type # "process.started"
    BY <1>1, <2>3 DEF Positioned, Said
  <2> QED
    BY <1>7, <2>3, <2>4
<1>11. CASE WaitFails(i)
  <2> DEFINE l == Unplaced("process.wait_failed", i, "WAIT_FAILED")
  <2>1. lines' = Append(lines, l) /\ status'[i] = status[i]
    BY <1>11 DEF WaitFails
  <2>2. status[i] = "unknown"
    BY <1>1 DEF RecordInv, Returned, NotReaped
  <2>6. Launched(i)'
    BY <1>2, <1>11 DEF WaitFails, Ended, Launched
  <2>3. l \in StageLines
    <3>1. "process.wait_failed" \in LineTypes /\ "WAIT_FAILED" \in Outcomes /\ i \in Processes
      BY EngineIsNoStage DEF LineTypes, EngineEvents, Outcomes
    <3> QED
      BY <1>1, <3>1, SetsOfLines
  <2>4. /\ l.type = "process.wait_failed" /\ l.proc = i /\ l.stage = -1 /\ l.stages = 0
    BY DEF Unplaced
  <2> HIDE DEF l
  <2>5. Positioned(l)'
    BY <1>1, <1>9, <2>1, <2>2, <2>4, <2>6 DEF Positioned
  <2> QED
    BY <1>8, <2>1, <2>3, <2>4, <2>5
<1>12. CASE SkipStage(i)
  <2>1. lines' = Append(lines, NeverLaunched)
    BY <1>12 DEF SkipStage
  <2>2. NeverLaunched \in StageLines
    <3>1. "process.exited" \in LineTypes /\ "LAUNCH_FAILED" \in Outcomes /\ i \in Processes
      BY EngineIsNoStage DEF LineTypes, EngineEvents, Outcomes
    <3> QED
      BY <1>1, <3>1, SetsOfLines DEF NeverLaunched
  <2>3. /\ NeverLaunched.type = "process.exited" /\ NeverLaunched.proc = Engine
        /\ NeverLaunched.stage = i /\ NeverLaunched.stages = n
    BY <1>1 DEF NeverLaunched, StageLine
  <2>4. PICK l \in StageLines : l = NeverLaunched
    BY <2>2
  <2>5. Positioned(l)' /\ l.type # "process.started"
    BY <1>1, <1>2, <1>9, <1>12, <2>3, <2>4 DEF Positioned, SkipStage
  <2> QED
    BY <1>8, <2>1, <2>4, <2>5
<1> QED
  BY <1>10, <1>11, <1>12

(* Steps that write nothing and launch nothing.                            *)
LEMMA SilentRecord ==
  ASSUME TypeOK, RecordInv, UNCHANGED <<n, status, lines>>, execFailed \subseteq execFailed',
         \A i \in Stages : Launched(i)' <=> Launched(i), Returned'
  PROVE  RecordInv'
<1>1. LineSet' = LineSet
  BY DEF LineSet
<1>2. \A l \in LineSet' : Positioned(l)'
  BY <1>1 DEF RecordInv, Positioned
<1>3. OneStart'
  BY <1>1 DEF RecordInv, OneStart
<1> QED
  BY <1>2, <1>3 DEF RecordInv

LEMMA QuietRecord ==
  ASSUME TypeOK, DescriptorInv, RecordInv, CreatePipes \/ CloseEnds \/ \E i \in Stages : ReadStatus(i)
  PROVE  RecordInv'
<1>1. /\ UNCHANGED <<n, child, status, lines>> /\ execFailed \subseteq execFailed' /\ n \in Nat
  BY DEF CreatePipes, CloseEnds, ReadStatus, line, TypeOK
<1>2. \A j \in Stages : Launched(j)' <=> Launched(j)
  BY <1>1 DEF Launched
<1>3. \/ at = "start" /\ at' = "launch"
      \/ at = "start" /\ at' = "returned" /\ n > 1
      \/ at = "close" /\ at' = "status"
      \/ at = "status" /\ at' \in {"status", "reap"}
  BY DEF CreatePipes, CloseEnds, ReadStatus, Advance
<1>4. \A i \in Stages : status[i] # "unknown" => FALSE
  BY <1>3 DEF RecordInv, Returned, NotReaped
<1>5. Returned'
  BY <1>1, <1>2, <1>3, <1>4 DEF RecordInv, Returned, LineSet, Launched
<1> QED
  BY <1>1, <1>2, <1>5, SilentRecord

LEMMA ChildRecord ==
  ASSUME TypeOK, RecordInv, UNCHANGED <<n, at, cur, status, execFailed, lines>>,
         \A i \in Stages : Launched(i)' <=> Launched(i)
  PROVE  RecordInv'
<1>1. 0 \in Stages
  BY DEF Stages
<1>2. Returned'
  BY <1>1 DEF RecordInv, Returned, NotReaped, LineSet
<1> QED
  BY <1>2, SilentRecord

LEMMA RecordInit == Init => RecordInv
<1> SUFFICES ASSUME Init PROVE RecordInv
  OBVIOUS
<1>1. /\ lines = <<>> /\ at = "start" /\ child = [i \in Stages |-> "none"] /\ status = [i \in Stages |-> "unknown"]
  BY DEF Init
<1>2. LineSet = {}
  BY <1>1 DEF LineSet
<1> QED
  BY <1>1, <1>2 DEF RecordInv, OneStart, Returned, Launched, Stages

LEMMA RecordStep ==
  TypeOK /\ DescriptorInv /\ AccountInv /\ RecordInv /\ [Next]_vars => RecordInv'
<1> SUFFICES ASSUME TypeOK, DescriptorInv, AccountInv, RecordInv, [Next]_vars PROVE RecordInv'
  OBVIOUS
<1>1. CASE EngineStep
  BY <1>1, QuietRecord, LaunchRecord, ReapRecord, CompleteRecord DEF EngineStep
<1>2. CASE EngineFault
  BY <1>2, FailRecord, ReapRecord DEF EngineFault
<1>3. ASSUME NEW i \in Stages, ChildStep(i) \/ ProgramStep(i) PROVE RecordInv'
  <2>1. Unchanged_Engine /\ \E how : how # "none" /\ child' = [child EXCEPT ![i] = how]
    BY <1>3 DEF ChildStep, ProgramStep, CloseOthers, Exec, Refuse, RefusedExit, UnwiredExit,
                ProgramExits, EndOfInput, BrokenPipe, Killed, Ends
  <2>2. child[i] # "none"
    BY <1>3 DEF ChildStep, ProgramStep, CloseOthers, Exec, Refuse, RefusedExit, UnwiredExit,
                ProgramExits, EndOfInput, BrokenPipe, Killed
  <2>3. \A j \in Stages : Launched(j)' <=> Launched(j)
    BY <2>1, <2>2 DEF Launched, TypeOK
  <2> QED
    BY <2>1, <2>3, ChildRecord DEF Unchanged_Engine, line
<1>4. CASE UNCHANGED vars
  <2>1. UNCHANGED <<n, at, cur, status, execFailed, lines>> /\ \A i \in Stages : Launched(i)' <=> Launched(i)
    BY <1>4 DEF vars, line, Launched
  <2> QED
    BY <2>1, ChildRecord
<1> QED
  BY <1>1, <1>2, <1>3, <1>4 DEF Next

LEMMA RecordInvariant == Spec => [](TypeOK /\ AccountInv /\ RecordInv)
<1>1. Init => RecordInv
  BY RecordInit
<1>2. TypeOK /\ DescriptorInv /\ AccountInv /\ RecordInv /\ [Next]_vars => RecordInv'
  BY RecordStep
<1> QED
  BY <1>1, <1>2, DescriptorsInvariant, AccountInvariant, PTL DEF Spec

(* The record of the lines ls, event by event.                             *)
Recorded(e, l) ==
  e.type = l.type /\ e.pid = l.proc /\ e.stage = l.stage /\ e.stages = l.stages /\ e.exit = Exit(l)

OfGateway(e) == e.pid = NoPid /\ e.stage = -1 /\ e.stages = 0 /\ e.exit = "none"

RecordOf(s, ls) ==
  /\ DOMAIN s = 1 .. Len(ls) + 3
  /\ \A k \in DOMAIN s : s[k].seq = k - 1 /\ s[k].session = "session" /\ s[k].id = <<"session", k - 1>>
                       /\ {"seq", "session"} \subseteq DOMAIN s[k]
  /\ s[1].type = "execution.created" /\ s[2].type = "execution.started"
  /\ s[Len(ls) + 3].type = FinalType(Verdict)
  /\ OfGateway(s[1]) /\ OfGateway(s[2]) /\ OfGateway(s[Len(ls) + 3])
  /\ \A p \in DOMAIN ls : Recorded(s[p + 2], ls[p])

(* The record while the execution is open.                                 *)
LEMMA OpenRecordIs ==
  ASSUME NEW ls \in Seq(StageLines)
  PROVE  /\ \E S : OpenRecord(ls) \in Seq(S)
         /\ Len(OpenRecord(ls)) = Len(ls) + 2 /\ DOMAIN OpenRecord(ls) = 1 .. Len(ls) + 2
         /\ OpenRecord(ls)[1] = GatewayEvent("execution.created", 0)
         /\ OpenRecord(ls)[2] = GatewayEvent("execution.started", 1)
         /\ \A k \in 1 .. Len(ls) :
              OpenRecord(ls)[k + 2] =
                StoredEvent("session", k + 1, ls[k].type, ls[k].proc, ls[k].stage, ls[k].stages, Exit(ls[k]))
<1> DEFINE m == Len(ls)
           Event(k) == StoredEvent("session", k + 1, ls[k].type, ls[k].proc, ls[k].stage, ls[k].stages, Exit(ls[k]))
           Head2 == <<GatewayEvent("execution.created", 0), GatewayEvent("execution.started", 1)>>
           S == {Head2[1], Head2[2]} \cup {Event(k) : k \in DOMAIN ls}
           body == [k \in DOMAIN ls |-> Event(k)]
           open == Head2 \o body
<1>1. m \in Nat /\ DOMAIN ls = 1 .. m
  OBVIOUS
<1>2. OpenRecord(ls) = open
  BY DEF OpenRecord
<1>3. Head2 \in Seq(S) /\ Len(Head2) = 2 /\ body \in Seq(S) /\ Len(body) = m
  <2>1. Head2[1] \in S /\ Head2[2] \in S
    OBVIOUS
  <2>2. body \in [1 .. m -> S]
    BY <1>1
  <2>3. body \in Seq(S) /\ Len(body) = m
    <3> HIDE DEF body, S, m
    <3> QED
      BY <1>1, <2>2
  <2>4. Head2 \in Seq(S) /\ Len(Head2) = 2
    <3> HIDE DEF S, Event, body
    <3> QED
      BY <2>1
  <2> QED
    BY <2>3, <2>4
<1>4. \A k \in DOMAIN ls : body[k] = Event(k)
  OBVIOUS
<1>5. Head2[1] = GatewayEvent("execution.created", 0) /\ Head2[2] = GatewayEvent("execution.started", 1)
  OBVIOUS
<1> HIDE DEF m, S, body, Head2, Event
<1>6. /\ open \in Seq(S) /\ Len(open) = 2 + m
      /\ \A k \in 1 .. 2 + m : open[k] = IF k <= 2 THEN Head2[k] ELSE body[k - 2]
  <2>1. /\ open \in Seq(S) /\ Len(open) = Len(Head2) + Len(body)
        /\ \A k \in 1 .. Len(Head2) + Len(body) :
              open[k] = IF k <= Len(Head2) THEN Head2[k] ELSE body[k - Len(Head2)]
    BY Zenon, <1>3, ConcatProperties
  <2> QED
    BY <1>3, <2>1
<1> HIDE DEF open
<1>7. DOMAIN open = 1 .. m + 2 /\ Len(open) = m + 2 /\ open[1] = Head2[1] /\ open[2] = Head2[2]
  BY <1>1, <1>6
<1>8. \A k \in 1 .. m : open[k + 2] = Event(k)
  <2> TAKE k \in 1 .. m
  <2>1. k + 2 \in 1 .. 2 + m /\ ~(k + 2 <= 2) /\ (k + 2) - 2 = k
    BY <1>1
  <2>2. open[k + 2] = body[k]
    BY <1>6, <2>1
  <2> QED
    BY <1>1, <1>4, <2>2
<1> QED
  BY <1>2, <1>5, <1>6, <1>7, <1>8 DEF m, Event

LEMMA ClosedRecordIs ==
  ASSUME NEW ls \in Seq(StageLines)
  PROVE  /\ RecordOf(ClosedRecord(ls), ls)
         /\ \E S : ClosedRecord(ls) \in Seq(S)
<1> DEFINE m == Len(ls)
           Event(k) == StoredEvent("session", k + 1, ls[k].type, ls[k].proc, ls[k].stage, ls[k].stages, Exit(ls[k]))
           Final == GatewayEvent(FinalType(Verdict), m + 2)
           open == OpenRecord(ls)
           s == Append(open, Final)
<1>1. m \in Nat /\ DOMAIN ls = 1 .. m
  OBVIOUS
<1>2. ClosedRecord(ls) = s
  BY DEF ClosedRecord
<1>3. PICK S : open \in Seq(S)
  BY OpenRecordIs
<1>4. /\ Len(open) = m + 2
      /\ open[1] = GatewayEvent("execution.created", 0) /\ open[2] = GatewayEvent("execution.started", 1)
      /\ \A k \in 1 .. m : open[k + 2] = Event(k)
  BY OpenRecordIs
<1> HIDE DEF m, Final, Event, open
<1>5. open \in Seq(S \cup {Final}) /\ Final \in S \cup {Final}
  BY <1>3
<1>6. /\ s \in Seq(S \cup {Final}) /\ DOMAIN s = 1 .. m + 3 /\ s[m + 3] = Final
      /\ \A k \in 1 .. m + 2 : s[k] = open[k]
  BY <1>1, <1>4, <1>5, AppendProperties
<1> HIDE DEF s
<1>7. /\ s[1] = open[1] /\ s[2] = open[2] /\ \A k \in 1 .. m : s[k + 2] = Event(k)
  <2>1. 1 \in 1 .. m + 2 /\ 2 \in 1 .. m + 2 /\ \A k \in 1 .. m : k + 2 \in 1 .. m + 2
    BY <1>1
  <2> QED
    BY <1>1, <1>4, <1>6, <2>1
<1>8. /\ s[1].type = "execution.created" /\ s[2].type = "execution.started" /\ s[m + 3].type = FinalType(Verdict)
      /\ s[1].seq = 0 /\ s[2].seq = 1 /\ s[m + 3].seq = m + 2
      /\ s[1].id = <<"session", 0>> /\ s[2].id = <<"session", 1>> /\ s[m + 3].id = <<"session", m + 2>>
      /\ \A k \in {1, 2, m + 3} : /\ OfGateway(s[k]) /\ s[k].session = "session"
                                  /\ {"seq", "session"} \subseteq DOMAIN s[k]
  BY <1>4, <1>6, <1>7 DEF OfGateway, GatewayEvent, StoredEvent, Final
<1>9. \A k \in 1 .. m : /\ Recorded(s[k + 2], ls[k]) /\ s[k + 2].session = "session"
                         /\ s[k + 2].seq = k + 1 /\ s[k + 2].id = <<"session", k + 1>>
                         /\ {"seq", "session"} \subseteq DOMAIN s[k + 2]
  <2> TAKE k \in 1 .. m
  <2>1. s[k + 2] = StoredEvent("session", k + 1, ls[k].type, ls[k].proc, ls[k].stage, ls[k].stages, Exit(ls[k]))
    BY <1>7 DEF Event
  <2> QED
    BY <2>1 DEF Recorded, StoredEvent
<1>10. \A k \in 1 .. m + 3 : s[k].seq = k - 1 /\ s[k].session = "session" /\ s[k].id = <<"session", k - 1>>
                             /\ {"seq", "session"} \subseteq DOMAIN s[k]
  <2> TAKE k \in 1 .. m + 3
  <2>1. CASE k \in {1, 2, m + 3}
    BY <1>1, <1>8, <2>1
  <2>2. CASE k \notin {1, 2, m + 3}
    <3>1. k - 2 \in 1 .. m /\ (k - 2) + 2 = k /\ (k - 2) + 1 = k - 1
      BY <1>1, <2>2
    <3> QED
      BY <1>9, <3>1
  <2> QED
    BY <2>1, <2>2
<1>11. RecordOf(s, ls)
  BY <1>1, <1>6, <1>8, <1>9, <1>10 DEF RecordOf, m
<1> QED
  BY <1>2, <1>6, <1>11

(* The validator sorts: a record in order stays as it is; an event that    *)
(* is there twice ends up beside itself.                                   *)
LEMMA SortedStays ==
  ASSUME NEW S, NEW s \in Seq(S), \A j, k \in DOMAIN s : s[j].seq \in Int /\ (j < k => s[j].seq < s[k].seq)
  PROVE  InOrder(s) = s
<1>1. DOMAIN s = 1 .. Len(s) /\ Len(s) \in Nat
  OBVIOUS
<1>2. ASSUME NEW k \in DOMAIN s PROVE Rank(s, k) = k
  <2>1. {j \in DOMAIN s : s[j].seq < s[k].seq \/ (s[j].seq = s[k].seq /\ j <= k)} = 1 .. k
    BY <1>1
  <2>2. Rank(s, k) = Cardinality(1 .. k)
    BY <2>1 DEF Rank
  <2> QED
    BY <1>1, <2>2, FS_Interval
<1> DEFINE rank == [k \in DOMAIN s |-> Rank(s, k)]
<1>3. \A k \in DOMAIN s : rank[k] = k
  BY <1>2
<1>4. InOrder(s) = [r \in DOMAIN s |-> s[CHOOSE k \in DOMAIN s : rank[k] = r]]
  BY DEF InOrder
<1> HIDE DEF rank
<1>5. \A r \in DOMAIN s : (CHOOSE k \in DOMAIN s : rank[k] = r) = r
  BY <1>3
<1>6. InOrder(s) = [r \in DOMAIN s |-> s[r]]
  BY <1>4, <1>5
<1> QED
  BY <1>6

LEMMA TwiceStands ==
  ASSUME NEW S, NEW s \in Seq(S), \A j, k \in DOMAIN s : s[j].seq \in Int /\ (j < k => s[j].seq < s[k].seq),
         NEW x \in DOMAIN s
  PROVE  LET t == InOrder(Append(s, s[x]))
         IN  x \in DOMAIN t /\ x + 1 \in DOMAIN t /\ t[x] = s[x] /\ t[x + 1] = s[x]
<1> DEFINE d == Append(s, s[x])
           m == Len(s)
<1>1. m \in Nat /\ DOMAIN s = 1 .. m /\ x \in 1 .. m /\ s[x] \in S
  OBVIOUS
<1>2. DOMAIN d = 1 .. m + 1 /\ d[m + 1] = s[x] /\ \A k \in 1 .. m : d[k] = s[k]
  BY <1>1, AppendProperties
<1> HIDE DEF d, m
<1>3. ASSUME NEW k \in 1 .. m, k <= x PROVE Rank(d, k) = k
  <2>0. \A j \in DOMAIN d : (d[j].seq < d[k].seq \/ (d[j].seq = d[k].seq /\ j <= k)) <=> j \in 1 .. k
    <3> TAKE j \in DOMAIN d
    <3>1. CASE j = m + 1
      BY <1>1, <1>2, <1>3, <3>1
    <3>2. CASE j \in 1 .. m
      BY <1>1, <1>2, <3>2
    <3> QED
      BY <1>1, <1>2, <3>1, <3>2
  <2>1. {j \in DOMAIN d : d[j].seq < d[k].seq \/ (d[j].seq = d[k].seq /\ j <= k)} = 1 .. k
    BY <1>1, <1>2, <2>0
  <2>2. Rank(d, k) = Cardinality(1 .. k)
    BY <2>1 DEF Rank
  <2> QED
    BY <1>1, <2>2, FS_Interval
<1>4. Rank(d, m + 1) = x + 1
  <2>1. {j \in DOMAIN d : d[j].seq < d[m + 1].seq \/ (d[j].seq = d[m + 1].seq /\ j <= m + 1)}
          = (1 .. x) \cup {m + 1}
    BY <1>1, <1>2
  <2>2. Rank(d, m + 1) = Cardinality((1 .. x) \cup {m + 1})
    BY <2>1 DEF Rank
  <2>3. IsFiniteSet(1 .. x) /\ Cardinality(1 .. x) = x
    BY <1>1, FS_Interval
  <2>4. m + 1 \notin 1 .. x
    BY <1>1
  <2> QED
    BY <2>2, <2>3, <2>4, FS_AddElement
<1>5. ASSUME NEW k \in 1 .. m, k > x PROVE Rank(d, k) = k + 1
  <2>1. {j \in DOMAIN d : d[j].seq < d[k].seq \/ (d[j].seq = d[k].seq /\ j <= k)}
          = (1 .. k) \cup {m + 1}
    <3>1. \A j \in DOMAIN d : (d[j].seq < d[k].seq \/ (d[j].seq = d[k].seq /\ j <= k))
                               <=> j \in (1 .. k) \cup {m + 1}
      <4> TAKE j \in DOMAIN d
      <4>1. CASE j = m + 1
        BY <1>1, <1>2, <1>5, <4>1
      <4>2. CASE j \in 1 .. m
        BY <1>1, <1>2, <1>5, <4>2
      <4> QED
        BY <1>1, <1>2, <4>1, <4>2
    <3>2. (1 .. k) \cup {m + 1} \subseteq DOMAIN d
      BY <1>1, <1>2, <1>5
    <3> DEFINE F == {j \in DOMAIN d : d[j].seq < d[k].seq \/ (d[j].seq = d[k].seq /\ j <= k)}
               G == (1 .. k) \cup {m + 1}
    <3>3. \A j : j \in F <=> j \in DOMAIN d /\ (d[j].seq < d[k].seq \/ (d[j].seq = d[k].seq /\ j <= k))
      OBVIOUS
    <3> HIDE DEF F
    <3>4. \A j : j \in F <=> j \in G
      BY <3>1, <3>2, <3>3
    <3> HIDE DEF G
    <3>5. F = G
      BY <3>4
    <3> QED
      BY <3>5 DEF F, G
  <2>2. Rank(d, k) = Cardinality((1 .. k) \cup {m + 1})
    BY <2>1 DEF Rank
  <2>3. IsFiniteSet(1 .. k) /\ Cardinality(1 .. k) = k
    <3>1. k \in Int /\ 1 \in Int /\ ~(1 > k) /\ k - 1 + 1 = k
      BY <1>1
    <3> QED
      BY <3>1, FS_Interval
  <2>4. m + 1 \notin 1 .. k
    BY <1>1
  <2> QED
    BY <2>2, <2>3, <2>4, FS_AddElement
<1> DEFINE rank == [k \in DOMAIN d |-> Rank(d, k)]
<1>6. \A k \in DOMAIN d : rank[k] = IF k <= x THEN k ELSE IF k = m + 1 THEN x + 1 ELSE k + 1
  BY <1>1, <1>2, <1>3, <1>4, <1>5
<1> DEFINE At(r) == CHOOSE k \in DOMAIN d : rank[k] = r
<1>7. InOrder(d) = [r \in DOMAIN d |-> d[At(r)]]
  BY DEF InOrder
<1> HIDE DEF rank
<1>8. At(x) = x
  BY <1>1, <1>2, <1>6
<1>9. At(x + 1) = m + 1
  BY <1>1, <1>2, <1>6
<1> HIDE DEF At
<1>10. x \in DOMAIN d /\ x + 1 \in DOMAIN d
  BY <1>1, <1>2
<1>11. InOrder(d)[x] = d[x] /\ InOrder(d)[x + 1] = d[m + 1] /\ DOMAIN InOrder(d) = DOMAIN d
  BY <1>7, <1>8, <1>9, <1>10
<1> QED
  BY <1>1, <1>2, <1>10, <1>11 DEF d

LEMMA VerdictIs ==
  /\ Verdict \in {"COMPLETED", "FAILED"} /\ Verdict \in TerminalStatuses
  /\ FinalType(Verdict) = IF Verdict = "COMPLETED" THEN "execution.completed" ELSE "execution.failed"
  /\ FinalType(Verdict) \in TerminalEvents
BY DEF Verdict, DecideStatus, TerminalStatuses, TerminalEvents, FinalType

LEMMA GatewayTypes ==
  /\ LineTypes \cap ({"execution.created", "execution.started", "process.snapshot"} \cup TerminalEvents) = {}
  /\ \A l \in StageLines : l.type \in LineTypes /\ l.proc \in Processes /\ l.proc # NoPid
  /\ Endings = LifecycleTypes /\ Endings \cup {"process.started", "pipeline.completed"} \subseteq LineTypes
BY DEF LineTypes, EngineEvents, TerminalEvents, StageLines, NoPid, Processes, Stages, Endings, LifecycleTypes

LEMMA PlacesOf ==
  ASSUME NEW ls \in Seq(StageLines), NEW s, RecordOf(s, ls)
  PROVE  /\ Len(ls) \in Nat /\ DOMAIN ls = 1 .. Len(ls)
         /\ \A k \in DOMAIN s : \/ k \in {1, 2, Len(ls) + 3} /\ OfGateway(s[k]) /\ s[k].type \notin LineTypes
                                \/ k - 2 \in DOMAIN ls /\ Recorded(s[k], ls[k - 2]) /\ s[k].type \in LineTypes
         /\ \A p \in DOMAIN ls : p + 2 \in DOMAIN s /\ Recorded(s[p + 2], ls[p])
<1>1. Len(ls) \in Nat /\ DOMAIN ls = 1 .. Len(ls) /\ DOMAIN s = 1 .. Len(ls) + 3
  BY DEF RecordOf
<1>2. ASSUME NEW p \in DOMAIN ls PROVE p + 2 \in DOMAIN s /\ Recorded(s[p + 2], ls[p]) /\ s[p + 2].type \in LineTypes
  <2>1. ls[p] \in StageLines
    OBVIOUS
  <2> QED
    BY <1>1, <2>1, GatewayTypes DEF RecordOf, Recorded
<1>3. ASSUME NEW k \in {1, 2, Len(ls) + 3} PROVE OfGateway(s[k]) /\ s[k].type \notin LineTypes
  BY <1>1, VerdictIs, GatewayTypes DEF RecordOf
<1>4. ASSUME NEW k \in DOMAIN s, k \notin {1, 2, Len(ls) + 3} PROVE k - 2 \in DOMAIN ls /\ (k - 2) + 2 = k
  BY <1>1, <1>4
<1> HIDE DEF Recorded, OfGateway
<1>5. ASSUME NEW k \in DOMAIN s, k \notin {1, 2, Len(ls) + 3}
      PROVE  k - 2 \in DOMAIN ls /\ Recorded(s[k], ls[k - 2]) /\ s[k].type \in LineTypes
  <2>1. PICK p \in DOMAIN ls : p = k - 2 /\ p + 2 = k
    BY <1>4, <1>5
  <2> QED
    BY <1>2, <2>1
<1> QED
  BY <1>1, <1>2, <1>3, <1>5

(* The events of the engine's own types are its lines.                     *)
LEMMA EventsOf ==
  ASSUME NEW ls \in Seq(StageLines), NEW s, RecordOf(s, ls), NEW T, T \subseteq LineTypes
  PROVE  /\ \A k \in Of(s, T) : k - 2 \in DOMAIN ls /\ ls[k - 2].type \in T /\ Recorded(s[k], ls[k - 2])
         /\ \A p \in DOMAIN ls : ls[p].type \in T => p + 2 \in Of(s, T) /\ Recorded(s[p + 2], ls[p])
<1>1. ASSUME NEW k \in Of(s, T) PROVE k - 2 \in DOMAIN ls /\ ls[k - 2].type \in T /\ Recorded(s[k], ls[k - 2])
  <2>1. k \in DOMAIN s /\ s[k].type \in T
    BY DEF Of
  <2>2. k - 2 \in DOMAIN ls /\ Recorded(s[k], ls[k - 2])
    BY <2>1, PlacesOf
  <2> QED
    BY <2>1, <2>2 DEF Recorded
<1>2. ASSUME NEW p \in DOMAIN ls, ls[p].type \in T PROVE p + 2 \in Of(s, T) /\ Recorded(s[p + 2], ls[p])
  <2>1. p + 2 \in DOMAIN s /\ Recorded(s[p + 2], ls[p])
    BY PlacesOf
  <2> QED
    BY <1>2, <2>1 DEF Of, Recorded
<1> QED
  BY <1>1, <1>2

LEMMA OrphansAre ==
  ASSUME NEW ls \in Seq(StageLines), NEW s, RecordOf(s, ls)
  PROVE  NoOrphans(s, NoPid) <=>
           \A p \in DOMAIN ls : ls[p].type \in Endings =>
              \E j \in DOMAIN ls : /\ ls[j].type = "process.started" /\ j < p
                                   /\ ls[j].proc = ls[p].proc /\ ls[j].stage = ls[p].stage
<1> DEFINE Starts(p) == \E j \in DOMAIN ls : /\ ls[j].type = "process.started" /\ j < p
                                             /\ ls[j].proc = ls[p].proc /\ ls[j].stage = ls[p].stage
<1>1. DOMAIN ls = 1 .. Len(ls) /\ Len(ls) \in Nat
  OBVIOUS
<1>2. /\ \A k \in Of(s, LifecycleTypes) : /\ k - 2 \in DOMAIN ls /\ ls[k - 2].type \in Endings
                                          /\ s[k].pid = ls[k - 2].proc /\ s[k].stage = ls[k - 2].stage
      /\ \A p \in DOMAIN ls : ls[p].type \in Endings =>
            p + 2 \in Of(s, LifecycleTypes) /\ s[p + 2].pid = ls[p].proc /\ s[p + 2].stage = ls[p].stage
  <2>1. LifecycleTypes \subseteq LineTypes /\ LifecycleTypes = Endings
    BY GatewayTypes
  <2>2. /\ \A k \in Of(s, LifecycleTypes) : /\ k - 2 \in DOMAIN ls /\ ls[k - 2].type \in LifecycleTypes
                                            /\ Recorded(s[k], ls[k - 2])
        /\ \A p \in DOMAIN ls : ls[p].type \in LifecycleTypes =>
              p + 2 \in Of(s, LifecycleTypes) /\ Recorded(s[p + 2], ls[p])
    BY Zenon, <2>1, EventsOf
  <2> QED
    BY <2>1, <2>2 DEF Recorded
<1>3. /\ \A k \in Of(s, {"process.started"}) : /\ k - 2 \in DOMAIN ls /\ ls[k - 2].type = "process.started"
                                               /\ s[k].pid = ls[k - 2].proc /\ s[k].stage = ls[k - 2].stage
      /\ \A p \in DOMAIN ls : ls[p].type = "process.started" =>
            p + 2 \in Of(s, {"process.started"}) /\ s[p + 2].pid = ls[p].proc /\ s[p + 2].stage = ls[p].stage
  <2>1. {"process.started"} \subseteq LineTypes
    BY GatewayTypes
  <2>2. /\ \A k \in Of(s, {"process.started"}) : /\ k - 2 \in DOMAIN ls /\ ls[k - 2].type \in {"process.started"}
                                                 /\ Recorded(s[k], ls[k - 2])
        /\ \A p \in DOMAIN ls : ls[p].type \in {"process.started"} =>
              p + 2 \in Of(s, {"process.started"}) /\ Recorded(s[p + 2], ls[p])
    BY Zenon, <2>1, EventsOf
  <2> QED
    BY <2>2 DEF Recorded
<1>4. \A p \in DOMAIN ls : ls[p].proc # NoPid
  BY GatewayTypes
<1>5. ASSUME NoOrphans(s, NoPid), NEW p \in DOMAIN ls, ls[p].type \in Endings PROVE Starts(p)
  <2>0. p + 2 \in Of(s, LifecycleTypes) /\ s[p + 2].pid # NoPid
    BY <1>2, <1>4, <1>5
  <2>1. PICK j \in Of(s, {"process.started"}) : j < p + 2 /\ s[j].pid = s[p + 2].pid /\ s[j].stage = s[p + 2].stage
    BY <1>5, <2>0 DEF NoOrphans
  <2>2. j - 2 \in DOMAIN ls /\ j - 2 < p
    <3>1. j \in 1 .. Len(ls) + 3 /\ p \in Int
      BY <1>1 DEF Of, RecordOf
    <3> QED
      BY <1>1, <1>3, <2>1, <3>1
  <2> QED
    BY <1>2, <1>3, <1>5, <2>1, <2>2
<1>6. ASSUME \A p \in DOMAIN ls : ls[p].type \in Endings => Starts(p), NEW k \in Of(s, LifecycleTypes)
      PROVE  \E j \in Of(s, {"process.started"}) : j < k /\ s[j].pid = s[k].pid /\ s[j].stage = s[k].stage
  <2>1. PICK j \in DOMAIN ls : /\ ls[j].type = "process.started" /\ j < k - 2
                               /\ ls[j].proc = ls[k - 2].proc /\ ls[j].stage = ls[k - 2].stage
    BY <1>2, <1>6
  <2>2. j + 2 < k
    BY <1>1, <1>2, <2>1 DEF RecordOf, Of
  <2> QED
    BY <1>2, <1>3, <1>6, <2>1, <2>2
<1> QED
  BY <1>5, <1>6 DEF NoOrphans

LEMMA AccountsAre ==
  ASSUME NEW ls \in Seq(StageLines), NEW s, RecordOf(s, ls),
         \A c, d \in DOMAIN ls : ls[c].type = "pipeline.completed" /\ ls[d].type = "pipeline.completed" => c = d
  PROVE  StagesAccounted(s) <=>
           \A c \in DOMAIN ls : ls[c].type = "pipeline.completed" =>
              \A i \in 0 .. ls[c].stages - 1 : \E e \in DOMAIN ls : ls[e].type \in Endings /\ ls[e].stage = i
<1>1. DOMAIN ls = 1 .. Len(ls) /\ Len(ls) \in Nat
  OBVIOUS
<1> DEFINE done == Of(s, {"pipeline.completed"})
           first == {k \in done : \A j \in done : k <= j}
<1>2. /\ \A k \in done : /\ k - 2 \in DOMAIN ls /\ ls[k - 2].type = "pipeline.completed"
                         /\ s[k].stages = ls[k - 2].stages
      /\ \A p \in DOMAIN ls : ls[p].type = "pipeline.completed" => p + 2 \in done /\ s[p + 2].stages = ls[p].stages
  <2>1. {"pipeline.completed"} \subseteq LineTypes
    BY GatewayTypes
  <2>2. /\ \A k \in Of(s, {"pipeline.completed"}) : /\ k - 2 \in DOMAIN ls /\ ls[k - 2].type \in {"pipeline.completed"}
                                                    /\ Recorded(s[k], ls[k - 2])
        /\ \A p \in DOMAIN ls : ls[p].type \in {"pipeline.completed"} =>
              p + 2 \in Of(s, {"pipeline.completed"}) /\ Recorded(s[p + 2], ls[p])
    BY Zenon, <2>1, EventsOf
  <2> QED
    BY <2>2 DEF Recorded
<1>3. \A i : (\E e \in Of(s, LifecycleTypes) : s[e].stage = i)
                <=> \E e \in DOMAIN ls : ls[e].type \in Endings /\ ls[e].stage = i
  <2>1. LifecycleTypes \subseteq LineTypes /\ LifecycleTypes = Endings
    BY GatewayTypes
  <2>2. /\ \A k \in Of(s, LifecycleTypes) : /\ k - 2 \in DOMAIN ls /\ ls[k - 2].type \in LifecycleTypes
                                            /\ Recorded(s[k], ls[k - 2])
        /\ \A p \in DOMAIN ls : ls[p].type \in LifecycleTypes =>
              p + 2 \in Of(s, LifecycleTypes) /\ Recorded(s[p + 2], ls[p])
    BY Zenon, <2>1, EventsOf
  <2> QED
    BY <2>1, <2>2 DEF Recorded
<1>4. \A k \in done : k \in Int
  BY DEF Of, RecordOf
<1>5. first = done
  <2>1. \A j, k \in done : j = k
    BY <1>1, <1>2, <1>4
  <2> QED
    BY <1>4, <2>1
<1>6. StagesAccounted(s) <=> \A k \in done : \A i \in 0 .. s[k].stages - 1 :
                                \E e \in Of(s, LifecycleTypes) : s[e].stage = i
  BY <1>5 DEF StagesAccounted
<1> HIDE DEF done, first
<1>7. StagesAccounted(s) <=> \A k \in done : \A i \in 0 .. s[k].stages - 1 :
                                \E e \in DOMAIN ls : ls[e].type \in Endings /\ ls[e].stage = i
  BY <1>3, <1>6
<1> QED
  BY <1>2, <1>7

LEMMA RecordIncreases ==
  ASSUME NEW ls, Len(ls) \in Nat, NEW s, RecordOf(s, ls)
  PROVE  \A j, k \in DOMAIN s : s[j].seq \in Int /\ (j < k => s[j].seq < s[k].seq)
BY DEF RecordOf

LEMMA ValidIs ==
  ASSUME NEW S, NEW s \in Seq(S), \A j, k \in DOMAIN s : s[j].seq \in Int /\ (j < k => s[j].seq < s[k].seq)
  PROVE  Valid(s) <=> ValidStream(s, Status, NoPid)
BY SortedStays DEF Valid, ValidateEventStream

LEMMA WithoutIs ==
  ASSUME NEW S, NEW s \in Seq(S), NEW k \in DOMAIN s
  PROVE  /\ Without(s, k) \in Seq(S) /\ DOMAIN Without(s, k) = 1 .. Len(s) - 1 /\ Len(Without(s, k)) = Len(s) - 1
         /\ \A j \in 1 .. Len(s) - 1 : Without(s, k)[j] = IF j < k THEN s[j] ELSE s[j + 1]
<1> DEFINE m == Len(s)
           w == Without(s, k)
           a == SubSeq(s, 1, k - 1)
           b == SubSeq(s, k + 1, Len(s))
<1>0. m \in Nat /\ DOMAIN s = 1 .. m /\ k \in 1 .. m /\ Len(s) = m /\ \A j \in 1 .. m : s[j] \in S
  OBVIOUS
<1> HIDE DEF m
<1>1. /\ a \in Seq(S) /\ Len(a) = k - 1 /\ \A j \in 1 .. k - 1 : a[j] = s[j]
  <2>1. \A j \in 1 .. k - 1 : s[j] \in S
    BY <1>0
  <2>2. a \in Seq(S) /\ Len(a) = (k - 1 - 1) + 1 /\ \A j \in 1 .. (k - 1 - 1) + 1 : a[j] = s[1 + j - 1]
    BY <1>0, <2>1, SubSeqProperties
  <2>3. (k - 1 - 1) + 1 = k - 1 /\ \A j \in 1 .. k - 1 : 1 + j - 1 = j
    BY <1>0
  <2> QED
    BY <2>2, <2>3
<1>2. /\ b \in Seq(S) /\ Len(b) = m - k /\ \A j \in 1 .. m - k : b[j] = s[k + j]
  <2>1. \A j \in k + 1 .. m : s[j] \in S
    BY <1>0
  <2>2. b \in Seq(S) /\ Len(b) = m - (k + 1) + 1 /\ \A j \in 1 .. m - (k + 1) + 1 : b[j] = s[k + 1 + j - 1]
    BY <1>0, <2>1, SubSeqProperties
  <2>3. m - (k + 1) + 1 = m - k /\ \A j \in 1 .. m - k : k + 1 + j - 1 = k + j
    BY <1>0
  <2> QED
    BY <2>2, <2>3
<1>3. w = a \o b
  BY DEF Without, RemoveAt
<1> HIDE DEF a, b, w
<1>4. w \in Seq(S) /\ DOMAIN w = 1 .. m - 1 /\ Len(w) = m - 1
  <2>1. w \in Seq(S) /\ DOMAIN w = 1 .. Len(a) + Len(b) /\ Len(a) + Len(b) = m - 1 /\ m - 1 \in Nat
    BY <1>0, <1>1, <1>2, <1>3, Concatenation
  <2> QED
    BY <2>1
<1>5. \A j \in 1 .. m - 1 : w[j] = IF j < k THEN s[j] ELSE s[j + 1]
  <2>1. Len(a) + Len(b) = m - 1
    BY <1>0, <1>1, <1>2
  <2>2. \A j \in 1 .. m - 1 : w[j] = IF j <= k - 1 THEN a[j] ELSE b[j - (k - 1)]
    <3>1. \A j \in 1 .. Len(a) + Len(b) : w[j] = IF j <= Len(a) THEN a[j] ELSE b[j - Len(a)]
      BY Zenon, <1>1, <1>2, <1>3, ConcatProperties
    <3> QED
      BY <1>1, <2>1, <3>1
  <2>3. \A j \in 1 .. m - 1 : j >= k => j - (k - 1) \in 1 .. m - k /\ k + (j - (k - 1)) = j + 1
    BY <1>0
  <2>4. \A j \in 1 .. m - 1 : j < k => j <= k - 1 /\ j \in 1 .. k - 1
    BY <1>0
  <2> TAKE j \in 1 .. m - 1
  <2>5. CASE j < k
    BY <1>1, <2>2, <2>4, <2>5
  <2>6. CASE ~(j < k)
    <3>1. ~(j <= k - 1) /\ j >= k
      BY <1>0, <2>6
    <3>2. w[j] = b[j - (k - 1)] /\ j - (k - 1) \in 1 .. m - k
      BY <2>2, <2>3, <3>1
    <3>3. b[j - (k - 1)] = s[k + (j - (k - 1))] /\ k + (j - (k - 1)) = j + 1
      BY <1>2, <2>3, <3>1, <3>2
    <3> QED
      BY <2>6, <3>2, <3>3
  <2> QED
    BY <2>5, <2>6
<1> QED
  BY Zenon, <1>4, <1>5 DEF w, m

(* Whatever happens to an event, it is noticed.                            *)
LEMMA LossOfEvent ==
  ASSUME TypeOK, Closed, NEW k \in DOMAIN Record
  PROVE  /\ ~Valid(Without(Record, k))
         /\ ~Valid(Append(Record, Record[k]))
         /\ ~Valid([Record EXCEPT ![k].session = "another"])
<1> DEFINE s == Record
           m == Len(lines) + 3
<1>1. Record = ClosedRecord(lines) /\ Status = Verdict /\ lines \in Seq(StageLines) /\ Len(lines) \in Nat
  BY DEF TypeOK, Record, Status
<1>2. RecordOf(s, lines) /\ \E S : s \in Seq(S)
  BY <1>1, ClosedRecordIs
<1>3. PICK S : s \in Seq(S)
  BY <1>2
<1>4. /\ DOMAIN s = 1 .. m /\ Len(s) = m /\ m \in Nat /\ m >= 3 /\ k \in 1 .. m
      /\ \A j \in 1 .. m : s[j].seq = j - 1 /\ s[j].session = "session" /\ s[j] \in S
  BY <1>1, <1>2, <1>3 DEF RecordOf
<1>5. \A j \in 1 .. m : s[j].type \in TerminalEvents => j = m
  <2>1. \A j \in 1 .. m : j = 1 \/ j = 2 \/ j = m \/ s[j].type \in LineTypes
    BY <1>1, <1>2, <1>4, PlacesOf
  <2>2. s[1].type \notin TerminalEvents /\ s[2].type \notin TerminalEvents
    BY <1>2 DEF RecordOf, TerminalEvents
  <2> QED
    BY <2>1, <2>2, GatewayTypes
<1> HIDE DEF s, m
<1>6. ASSUME NEW t, NEW U, t \in Seq(U), \A i, j \in DOMAIN t : t[i].seq \in Int /\ (i < j => t[i].seq < t[j].seq),
             ~(OneSession(t) /\ Contiguous(t) /\ AgreesWithRow(t, Status))
      PROVE  ~Valid(t)
  BY <1>6, ValidIs DEF ValidStream
<1>7. ~Valid(Without(s, k))
  <2> DEFINE w == Without(s, k)
  <2>3. /\ w \in Seq(S) /\ DOMAIN w = 1 .. Len(s) - 1
        /\ \A j \in 1 .. Len(s) - 1 : w[j] = IF j < k THEN s[j] ELSE s[j + 1]
    <3>1. k \in DOMAIN s
      BY <1>4
    <3> QED
      BY Zenon, <1>3, <3>1, WithoutIs
  <2>4. w \in Seq(S) /\ DOMAIN w = 1 .. m - 1
    BY <1>4, <2>3
  <2>5. \A j \in 1 .. m - 1 : w[j] = IF j < k THEN s[j] ELSE s[j + 1]
    BY <1>4, <2>3
  <2> HIDE DEF w
  <2>6. \A i, j \in DOMAIN w : w[i].seq \in Int /\ (i < j => w[i].seq < w[j].seq)
    <3>1. \A j \in DOMAIN w : w[j].seq = IF j < k THEN j - 1 ELSE j
      BY <1>4, <2>4, <2>5
    <3> QED
      BY <1>4, <2>4, <3>1
  <2>7. CASE k < m
    <3>1. k \in DOMAIN w /\ w[k].seq = k /\ k # k - 1
      BY <1>4, <2>4, <2>5, <2>7
    <3>2. ~Contiguous(w)
      BY <3>1 DEF Contiguous
    <3> QED
      BY <1>6, <2>4, <2>6, <3>2 DEF w
  <2>8. CASE k = m
    <3>1. Of(w, TerminalEvents) = {}
      BY <1>4, <1>5, <2>4, <2>5, <2>8 DEF Of
    <3>2. ~AgreesWithRow(w, Status)
      BY <1>1, <3>1, VerdictIs DEF AgreesWithRow
    <3> QED
      BY <1>6, <2>4, <2>6, <3>2 DEF w
  <2> QED
    BY <1>4, <2>7, <2>8
<1>8. ~Valid(Append(s, s[k]))
  <2> DEFINE t == InOrder(Append(s, s[k]))
  <2>0. \A i, j \in DOMAIN s : s[i].seq \in Int /\ (i < j => s[i].seq < s[j].seq)
    BY <1>4
  <2>1. k \in DOMAIN t /\ k + 1 \in DOMAIN t /\ t[k] = s[k] /\ t[k + 1] = s[k]
    <3>1. k \in DOMAIN s
      BY <1>4
    <3> QED
      BY Zenon, <1>3, <2>0, <3>1, TwiceStands
  <2>2. k # k + 1
    BY <1>4
  <2> HIDE DEF t
  <2>3. ~NothingTwice(t)
    BY <2>1, <2>2 DEF NothingTwice
  <2> QED
    BY <2>3 DEF Valid, ValidateEventStream, ValidStream, t
<1>9. ~Valid([s EXCEPT ![k].session = "another"])
  <2> DEFINE e == [s[k] EXCEPT !.session = "another"]
             t == [s EXCEPT ![k] = e]
  <2>1. e.session = "another" /\ e.seq = s[k].seq
    <3>1. "seq" \in DOMAIN s[k] /\ "session" \in DOMAIN s[k]
      BY <1>2, <1>4 DEF RecordOf
    <3> QED
      BY <3>1
  <2> HIDE DEF e
  <2>2. /\ DOMAIN t = 1 .. m /\ t[k] = e /\ \A j \in 1 .. m : j # k => t[j] = s[j]
        /\ t \in Seq(S \cup {e})
    BY <1>3, <1>4
  <2> HIDE DEF t
  <2>3. \A j \in 1 .. m : t[j].seq = j - 1 /\ t[j].session = (IF j = k THEN "another" ELSE "session")
    BY <1>4, <2>1, <2>2
  <2>4. \A i, j \in DOMAIN t : t[i].seq \in Int /\ (i < j => t[i].seq < t[j].seq)
    BY <1>4, <2>2, <2>3
  <2>5. PICK j \in 1 .. m : j # k
    BY <1>4
  <2>6. t[j].session # t[k].session
    BY <1>4, <2>3, <2>5
  <2>7. ~OneSession(t)
    BY <1>4, <2>2, <2>6 DEF OneSession
  <2> QED
    BY <1>6, <2>2, <2>4, <2>7 DEF t, e
<1> QED
  BY <1>7, <1>8, <1>9 DEF s

(* A lost start leaves an ending without one; a lost exit leaves a stage   *)
(* of the closed envelope without an ending.                               *)
LEMMA EnvelopeStands ==
  ASSUME TypeOK, AccountInv, RecordInv, FirstStages, Closed, n > 1, lines # <<>>
  PROVE  /\ \E c \in DOMAIN lines : lines[c].type = "pipeline.completed" /\ lines[c].stages = n
         /\ \A c, d \in DOMAIN lines : lines[c].type = "pipeline.completed" /\ lines[d].type = "pipeline.completed" => c = d
         /\ \A i \in 0 .. n - 1 : \E p \in DOMAIN lines : EndingsOf(i) = {p}
         /\ \A i \in Stages : Launched(i) => i \in 0 .. n - 1
<1>1. at = "returned" /\ \A l \in LineSet : Positioned(l)
  BY DEF Closed, RecordInv
<1>2. PICK c \in DOMAIN lines : lines[c].type = "pipeline.completed"
  BY <1>1 DEF RecordInv, Returned, LineSet
<1>3. lines[c].stages = n
  BY <1>1, <1>2 DEF Positioned, LineSet
<1>4. Settled(n) /\ \A d \in DOMAIN lines : lines[d].type = "pipeline.completed" => d = Len(lines)
  BY <1>1, <1>2 DEF AccountInv
<1>5. ASSUME NEW i \in 0 .. n - 1 PROVE \E p \in DOMAIN lines : EndingsOf(i) = {p}
  <2>1. PICK p \in Nat : EndingsOf(i) = {p}
    BY <1>4 DEF Settled
  <2>2. p \in DOMAIN lines
    BY <2>1 DEF EndingsOf
  <2> QED
    BY <2>1, <2>2
<1>6. ASSUME NEW i \in Stages, Launched(i) PROVE i \in 0 .. n - 1
  <2>1. i < n /\ i \in Nat /\ n \in Nat
    BY <1>6 DEF FirstStages, TypeOK, Stages
  <2> QED
    BY <2>1
<1> QED
  BY <1>2, <1>3, <1>4, <1>5, <1>6

(* The lines that remain, and where they are.                              *)
Moved(k, o) == IF o < k THEN o ELSE o - 1

LEMMA Remaining ==
  ASSUME NEW ls \in Seq(StageLines), NEW k \in DOMAIN ls
  PROVE  /\ Without(ls, k) \in Seq(StageLines)
         /\ \A j \in DOMAIN Without(ls, k) :
               \E o \in DOMAIN ls : o # k /\ j = Moved(k, o) /\ Without(ls, k)[j] = ls[o]
         /\ \A o \in DOMAIN ls : o # k => /\ Moved(k, o) \in DOMAIN Without(ls, k)
                                          /\ Without(ls, k)[Moved(k, o)] = ls[o]
<1> DEFINE w == Without(ls, k)
           m == Len(ls)
<1>1. /\ w \in Seq(StageLines) /\ DOMAIN w = 1 .. m - 1
      /\ \A j \in 1 .. m - 1 : w[j] = IF j < k THEN ls[j] ELSE ls[j + 1]
  BY Zenon, WithoutIs
<1>2. m \in Nat /\ DOMAIN ls = 1 .. m /\ k \in 1 .. m
  OBVIOUS
<1> HIDE DEF w, m
<1>3. ASSUME NEW j \in DOMAIN w PROVE \E o \in DOMAIN ls : o # k /\ j = Moved(k, o) /\ w[j] = ls[o]
  <2>1. CASE j < k
    <3>1. j \in DOMAIN ls /\ j # k /\ j = Moved(k, j) /\ w[j] = ls[j]
      BY <1>1, <1>2, <1>3, <2>1 DEF Moved
    <3> QED
      BY <3>1
  <2>2. CASE ~(j < k)
    <3>1. j + 1 \in DOMAIN ls /\ j + 1 # k /\ j = Moved(k, j + 1) /\ w[j] = ls[j + 1]
      BY <1>1, <1>2, <1>3, <2>2 DEF Moved
    <3> QED
      BY <3>1
  <2> QED
    BY <2>1, <2>2
<1>4. ASSUME NEW o \in DOMAIN ls, o # k PROVE Moved(k, o) \in DOMAIN w /\ w[Moved(k, o)] = ls[o]
  <2>1. CASE o < k
    BY <1>1, <1>2, <1>4, <2>1 DEF Moved
  <2>2. CASE ~(o < k)
    <3>1. Moved(k, o) = o - 1 /\ o - 1 \in 1 .. m - 1 /\ ~(o - 1 < k) /\ (o - 1) + 1 = o
      BY <1>2, <1>4, <2>2 DEF Moved
    <3> QED
      BY <1>1, <3>1
  <2> QED
    BY <2>1, <2>2
<1> QED
  BY <1>1, <1>3, <1>4 DEF w

LEMMA LossOfLine ==
  ASSUME TypeOK, AccountInv, RecordInv, FirstStages, Closed, n > 1, Valid(Record),
         NEW k \in DOMAIN lines, lines[k].type \in {"process.started", "process.exited"}
  PROVE  ~Valid(ClosedRecord(Without(lines, k)))
<1> DEFINE w == Without(lines, k)
           r == ClosedRecord(w)
           s == ClosedRecord(lines)
<1>1. lines \in Seq(StageLines) /\ lines # <<>> /\ Record = s
  BY DEF TypeOK, Record
<1>2. /\ w \in Seq(StageLines)
      /\ \A j \in DOMAIN w : \E o \in DOMAIN lines : o # k /\ j = Moved(k, o) /\ w[j] = lines[o]
      /\ \A o \in DOMAIN lines : o # k => Moved(k, o) \in DOMAIN w /\ w[Moved(k, o)] = lines[o]
  BY <1>1, Remaining
<1>3. RecordOf(s, lines) /\ Valid(s) /\ \E S : s \in Seq(S)
  BY <1>1, ClosedRecordIs
<1> HIDE DEF w
<1>4. RecordOf(r, w) /\ \E S : r \in Seq(S)
  BY <1>2, ClosedRecordIs
<1> HIDE DEF r, s
<1>5. NoOrphans(s, NoPid)
  <2>1. PICK S : s \in Seq(S)
    BY <1>3
  <2>2. \A i, j \in DOMAIN s : s[i].seq \in Int /\ (i < j => s[i].seq < s[j].seq)
    BY <1>1, <1>3, RecordIncreases
  <2>3. ValidStream(s, Status, NoPid)
    BY <1>3, <2>1, <2>2, ValidIs
  <2> QED
    BY <2>3 DEF ValidStream
<1>6. ASSUME NEW p \in DOMAIN lines, lines[p].type \in Endings
      PROVE  \E j \in DOMAIN lines : /\ lines[j].type = "process.started"
                                     /\ lines[j].proc = lines[p].proc /\ lines[j].stage = lines[p].stage
  BY <1>1, <1>3, <1>5, <1>6, OrphansAre
<1>7. /\ \A p \in DOMAIN lines : lines[p] \in LineSet /\ Positioned(lines[p])
      /\ OneStart
  BY DEF RecordInv, LineSet
<1>8. ASSUME NoOrphans(r, NoPid), StagesAccounted(r) PROVE FALSE
  <2>1. CASE lines[k].type = "process.started"
    <3> DEFINE i == lines[k].proc
    <3>1. i \in 0 .. n - 1 /\ Launched(i)
      BY <1>1, <1>7, <2>1, EnvelopeStands DEF Positioned
    <3>2. PICK p \in DOMAIN lines : EndingsOf(i) = {p}
      BY <1>1, <3>1, EnvelopeStands
    <3>3. lines[p].type \in Endings /\ lines[p].proc = i /\ p # k
      BY <2>1, <3>1, <3>2 DEF EndingsOf, Endings
    <3>4. PICK q \in DOMAIN w : w[q] = lines[p]
      BY <1>2, <3>3
    <3>5. PICK j \in DOMAIN w : w[j].type = "process.started" /\ w[j].proc = i
      BY <1>2, <1>4, <1>8, <3>3, <3>4, OrphansAre
    <3>6. PICK o \in DOMAIN lines : o # k /\ w[j] = lines[o]
      BY <1>2
    <3> QED
      BY <1>7, <2>1, <3>5, <3>6 DEF OneStart
  <2>2. CASE lines[k].type = "process.exited"
    <3> DEFINE i == lines[k].proc
    <3>1. i \in 0 .. n - 1 /\ Launched(i) /\ lines[k].stage = i
      <4>1. PICK j \in DOMAIN lines : /\ lines[j].type = "process.started"
                                      /\ lines[j].proc = i /\ lines[j].stage = lines[k].stage
        BY <1>6, <2>2 DEF Endings
      <4>2. i \in Stages /\ lines[j].stage = i /\ Launched(i)
        BY <1>7, <4>1 DEF Positioned
      <4> QED
        BY <1>1, <4>1, <4>2, EnvelopeStands
    <3>2. EndingsOf(i) = {k}
      <4>1. \E p \in DOMAIN lines : EndingsOf(i) = {p}
        BY <1>1, <3>1, EnvelopeStands
      <4>2. k \in EndingsOf(i)
        BY <2>2, <3>1 DEF EndingsOf, Endings
      <4> QED
        BY <4>1, <4>2
    <3>3. PICK c \in DOMAIN lines : lines[c].type = "pipeline.completed" /\ lines[c].stages = n
      BY <1>1, EnvelopeStands
    <3>4. PICK d \in DOMAIN w : w[d] = lines[c]
      BY <1>2, <2>2, <3>3
    <3>5. \A a, b \in DOMAIN w : w[a].type = "pipeline.completed" /\ w[b].type = "pipeline.completed" => a = b
      <4> SUFFICES ASSUME NEW a \in DOMAIN w, NEW b \in DOMAIN w,
                          w[a].type = "pipeline.completed", w[b].type = "pipeline.completed"
                   PROVE  a = b
        OBVIOUS
      <4>1. PICK x \in DOMAIN lines : a = Moved(k, x) /\ w[a] = lines[x]
        BY <1>2
      <4>2. PICK y \in DOMAIN lines : b = Moved(k, y) /\ w[b] = lines[y]
        BY <1>2
      <4>3. x = y
        BY <1>1, <4>1, <4>2, EnvelopeStands
      <4> QED
        BY <4>1, <4>2, <4>3
    <3>6. \A c1 \in DOMAIN w : w[c1].type = "pipeline.completed" =>
             \A j \in 0 .. w[c1].stages - 1 : \E e \in DOMAIN w : w[e].type \in Endings /\ w[e].stage = j
      BY <1>2, <1>4, <1>8, <3>5, AccountsAre
    <3>7. PICK e \in DOMAIN w : w[e].type \in Endings /\ w[e].stage = i
      BY <3>1, <3>3, <3>4, <3>6
    <3>8. PICK o \in DOMAIN lines : o # k /\ w[e] = lines[o]
      BY <1>2
    <3>9. PICK j \in DOMAIN lines : /\ lines[j].type = "process.started"
                                    /\ lines[j].proc = lines[o].proc /\ lines[j].stage = i
      BY <1>6, <3>7, <3>8
    <3>10. lines[o].proc = i
      BY <1>7, <3>9 DEF Positioned
    <3>11. o \in EndingsOf(i)
      BY <3>1, <3>7, <3>8, <3>10 DEF EndingsOf
    <3> QED
      BY <3>2, <3>8, <3>11
  <2> QED
    BY <2>1, <2>2
<1>9. PICK S : r \in Seq(S)
  BY <1>4
<1>10. \A i, j \in DOMAIN r : r[i].seq \in Int /\ (i < j => r[i].seq < r[j].seq)
  BY <1>2, <1>4, RecordIncreases
<1> QED
  BY <1>8, <1>9, <1>10, ValidIs DEF ValidStream, r, w

(* A record of processes that were all observed satisfies every rule.      *)
LEMMA StartsOfAll ==
  ASSUME TypeOK, TruthInv, RecordInv, FirstStages, AllObserved, Closed,
         NEW p \in DOMAIN lines, lines[p].type \in Endings
  PROVE  /\ lines[p].type = "process.exited" /\ lines[p].proc \in 0 .. n - 1 /\ Launched(lines[p].proc)
         /\ lines[p].stage = lines[p].proc
         /\ \A i \in 0 .. n - 1 : Launched(i) /\ i \in Stages
<1> DEFINE l == lines[p]
<1>1. l \in LineSet /\ Positioned(l) /\ \A i \in 0 .. n - 1 : i \in Stages
  BY DEF RecordInv, LineSet, TypeOK, Stages
<1>2. \A i \in Stages : Launched(i) => i \in 0 .. n - 1
  <2> SUFFICES ASSUME NEW i \in Stages, Launched(i) PROVE i \in 0 .. n - 1
    OBVIOUS
  <2>1. i < n /\ i \in Nat /\ n \in Nat
    BY DEF FirstStages, TypeOK, Stages
  <2> QED
    BY <2>1
<1>3. \A i \in 0 .. n - 1 : status[i] # "unknown" /\ i \notin execFailed
  <2>1. lines # <<>>
    OBVIOUS
  <2>2. ~(n = 1 /\ ~Launched(0))
    BY <1>1 DEF RecordInv, Returned, Closed
  <2> QED
    BY <2>1, <2>2 DEF AllObserved
<1>4. \A i \in 0 .. n - 1 : Launched(i)
  BY <1>1, <1>3 DEF RecordInv, Returned
<1>5. l.type # "process.exec_error"
  <2> SUFFICES ASSUME l.type = "process.exec_error" PROVE FALSE
    OBVIOUS
  <2>1. l.proc \in Stages /\ l.proc \in execFailed
    BY <1>1 DEF Positioned
  <2>2. child[l.proc] \in {"refused", "signaled"}
    BY <1>1, <2>1 DEF TruthInv, Truthful
  <2>3. Launched(l.proc)
    BY <2>2 DEF Launched
  <2> QED
    BY <1>2, <1>3, <2>1, <2>3
<1>6. l.type # "process.wait_failed"
  <2> SUFFICES ASSUME l.type = "process.wait_failed" PROVE FALSE
    OBVIOUS
  <2>1. l.proc \in Stages /\ status[l.proc] = "unknown" /\ Launched(l.proc)
    BY <1>1 DEF Positioned
  <2> QED
    BY <1>2, <1>3, <2>1
<1>7. l.type = "process.exited"
  BY <1>5, <1>6 DEF Endings
<1>8. l.proc \in Stages /\ l.stage = l.proc
  <2> SUFFICES ASSUME l.stage \in Stages, ~Launched(l.stage) PROVE FALSE
    BY <1>1, <1>7 DEF Positioned
  <2>1. l.stage \in 0 .. n - 1
    BY <1>1 DEF Positioned, Stages, TypeOK
  <2> QED
    BY <1>4, <2>1
<1>9. l.proc \in 0 .. n - 1
  <2>1. l.proc \in 0 .. n - 1
    BY <1>1, <1>8 DEF Positioned, Stages, TypeOK
  <2> QED
    BY <2>1
<1> QED
  BY <1>1, <1>4, <1>7, <1>8, <1>9

LEMMA Accepted ==
  ASSUME TypeOK, TruthInv, OutcomeInv, ReaderInv, AccountInv, RecordInv, AllObserved, Closed
  PROVE  Valid(Record)
<1> DEFINE s == Record
           m == Len(lines)
<1>1. lines \in Seq(StageLines) /\ m \in Nat /\ DOMAIN lines = 1 .. m /\ s = ClosedRecord(lines) /\ Status = Verdict
  BY DEF TypeOK, Record, Status
<1>2. RecordOf(s, lines) /\ \E S : s \in Seq(S)
  BY <1>1, ClosedRecordIs
<1> HIDE DEF s
<1>3. /\ DOMAIN s = 1 .. m + 3 /\ Len(s) = m + 3
      /\ \A k \in 1 .. m + 3 : s[k].seq = k - 1 /\ s[k].session = "session" /\ s[k].id = <<"session", k - 1>>
      /\ s[1].type = "execution.created" /\ s[2].type = "execution.started" /\ s[m + 3].type = FinalType(Verdict)
  <2>1. PICK S : s \in Seq(S)
    BY <1>2
  <2>2. DOMAIN s = 1 .. m + 3
    BY <1>2 DEF RecordOf
  <2>3. Len(s) = m + 3
    BY <1>1, <2>1, <2>2
  <2> QED
    BY <1>2, <2>2, <2>3 DEF RecordOf
<1>4. \A k \in DOMAIN s : \/ k \in {1, 2, m + 3} /\ OfGateway(s[k]) /\ s[k].type \notin LineTypes
                          \/ k - 2 \in DOMAIN lines /\ Recorded(s[k], lines[k - 2]) /\ s[k].type \in LineTypes
  BY <1>1, <1>2, PlacesOf
<1>5. Of(s, TerminalEvents) = {m + 3}
  <2>1. \A k \in 1 .. m + 3 : k = 1 \/ k = 2 \/ k = m + 3 \/ s[k].type \in LineTypes
    BY <1>3, <1>4
  <2>2. s[1].type \notin TerminalEvents /\ s[2].type \notin TerminalEvents /\ s[m + 3].type \in TerminalEvents
    BY <1>3, VerdictIs DEF TerminalEvents
  <2>3. \A k \in 1 .. m + 3 : s[k].type \in TerminalEvents => k = m + 3
    BY <2>1, <2>2, GatewayTypes
  <2>4. m + 3 \in 1 .. m + 3
    BY <1>1
  <2> QED
    BY <1>3, <2>2, <2>3, <2>4 DEF Of
<1>6. Of(s, {"process.snapshot"}) = {}
  <2>1. \A k \in DOMAIN s : s[k].type # "process.snapshot"
    <3>1. FinalType(Verdict) # "process.snapshot" /\ "process.snapshot" \notin LineTypes
      BY VerdictIs, GatewayTypes
    <3> QED
      BY <1>3, <1>4, <3>1
  <2> QED
    BY <2>1 DEF Of
<1>7. OneSession(s) /\ NothingTwice(s) /\ Increasing(s) /\ Contiguous(s)
  <2>1. OneSession(s) /\ Contiguous(s)
    BY <1>3 DEF OneSession, Contiguous
  <2>2. NothingTwice(s)
    <3> SUFFICES ASSUME NEW j \in DOMAIN s, NEW k \in DOMAIN s, j # k PROVE s[j].seq # s[k].seq /\ s[j].id # s[k].id
      BY DEF NothingTwice
    <3>1. j - 1 # k - 1
      BY <1>1, <1>3
    <3>2. <<"session", j - 1>>[2] # <<"session", k - 1>>[2]
      BY <3>1
    <3> QED
      BY <1>3, <3>1, <3>2
  <2>3. Increasing(s)
    <3> SUFFICES ASSUME NEW k \in DOMAIN s, k > 1 PROVE s[k].seq > s[k - 1].seq
      BY DEF Increasing
    <3>1. k \in 1 .. m + 3 /\ k - 1 \in 1 .. m + 3 /\ k - 1 > (k - 1) - 1
      BY <1>1, <1>3
    <3> QED
      BY <1>3, <3>1
  <2> QED
    BY <2>1, <2>2, <2>3
<1>8. HasOrigin(s) /\ EndsOnce(s) /\ NoLateSnapshot(s) /\ AgreesWithRow(s, Status)
  <2>1. HasOrigin(s)
    BY <1>3 DEF HasOrigin
  <2>2. EndsOnce(s)
    BY <1>3, <1>5 DEF EndsOnce
  <2>3. NoLateSnapshot(s)
    BY <1>6 DEF NoLateSnapshot
  <2>4. AgreesWithRow(s, Status)
    BY <1>1, <1>5, VerdictIs DEF AgreesWithRow
  <2> QED
    BY <2>1, <2>2, <2>3, <2>4
<1>9. FirstStages
  BY DEF OutcomeInv
<1>10. \A p \in DOMAIN lines : lines[p] \in LineSet /\ Positioned(lines[p]) /\ WellFormed(lines[p])
  BY DEF RecordInv, OutcomeInv, LineSet
<1>11. NoOrphans(s, NoPid)
  <2>1. ASSUME NEW p \in DOMAIN lines, lines[p].type \in Endings
        PROVE  \E j \in DOMAIN lines : /\ lines[j].type = "process.started" /\ j < p
                                       /\ lines[j].proc = lines[p].proc /\ lines[j].stage = lines[p].stage
    <3>1. /\ lines[p].proc \in 0 .. n - 1 /\ Launched(lines[p].proc) /\ lines[p].proc \in Stages
          /\ lines[p].stage = lines[p].proc
      BY <1>9, <2>1, StartsOfAll
    <3>2. PICK l \in LineSet : l.type = "process.started" /\ l.proc = lines[p].proc
      BY <3>1 DEF RecordInv, OneStart
    <3>3. PICK j \in DOMAIN lines : lines[j] = l
      BY DEF LineSet
    <3>4. j < p /\ lines[j].stage = lines[j].proc
      BY <1>10, <2>1, <3>2, <3>3 DEF RecordInv, OneStart, Positioned
    <3> QED
      BY <3>1, <3>2, <3>3, <3>4
  <2> QED
    BY <1>1, <1>2, <2>1, OrphansAre
<1>12. StagesAccounted(s)
  <2>1. ASSUME NEW c \in DOMAIN lines, lines[c].type = "pipeline.completed"
        PROVE  c = m /\ Settled(n) /\ lines[c].stages = n
    BY <1>10, <2>1 DEF AccountInv, Closed, Positioned
  <2>2. ASSUME NEW c \in DOMAIN lines, lines[c].type = "pipeline.completed", NEW i \in 0 .. lines[c].stages - 1
        PROVE  \E e \in DOMAIN lines : lines[e].type \in Endings /\ lines[e].stage = i
    <3>1. i \in 0 .. n - 1 /\ Settled(n)
      BY <2>1, <2>2
    <3>2. PICK e \in Nat : EndingsOf(i) = {e}
      BY <3>1 DEF Settled
    <3>3. /\ e \in DOMAIN lines /\ lines[e].type \in Endings
          /\ IF Launched(i) THEN lines[e].proc = i ELSE lines[e].stage = i
      BY <3>2 DEF EndingsOf
    <3>4. lines[e].stage = lines[e].proc /\ Launched(i)
      BY <1>9, <3>1, <3>3, StartsOfAll
    <3> QED
      BY <3>3, <3>4
  <2>3. \A c, d \in DOMAIN lines :
           lines[c].type = "pipeline.completed" /\ lines[d].type = "pipeline.completed" => c = d
    BY <2>1
  <2> QED
    BY <1>1, <1>2, <2>2, <2>3, AccountsAre
<1>13. StagesInRange(s)
  <2>1. \A k \in DOMAIN s : s[k].stages \in {0, n} /\ s[k].stage \in -1 .. n - 1
    <3> TAKE k \in DOMAIN s
    <3>1. CASE OfGateway(s[k])
      BY <3>1 DEF OfGateway, TypeOK
    <3>2. CASE k - 2 \in DOMAIN lines /\ Recorded(s[k], lines[k - 2])
      BY <1>10, <3>2 DEF Recorded, Positioned
    <3> QED
      BY <1>4, <3>1, <3>2
  <2> SUFFICES ASSUME NEW j \in DOMAIN s, s[j].stages > 0, NEW k \in DOMAIN s
               PROVE  s[k].stage >= -1 /\ s[k].stage < s[j].stages
    BY DEF StagesInRange
  <2>2. s[j].stages = n /\ n \in Nat
    BY <2>1 DEF TypeOK
  <2> QED
    BY <2>1, <2>2
<1>14. SuccessHasExit(s)
  <2> SUFFICES ASSUME NEW k \in Of(s, TerminalEvents), s[k].type = "execution.completed"
               PROVE  \E e \in Of(s, {"process.exited"}) : s[e].exit = "zero"
    BY DEF SuccessHasExit
  <2>1. Verdict = "COMPLETED"
    BY <1>3, <1>5, VerdictIs
  <2>2. PICK p \in DOMAIN lines : lines[p].type = "process.exited" /\ lines[p].outcome = "COMPLETED"
    <3>1. evidence.saw = {} /\ evidence.outcome = "COMPLETED"
      BY <2>1 DEF Verdict, DecideStatus
    <3>2. told = m
      BY DEF Closed
    <3>3. PICK p \in DOMAIN lines : LastOutcome(p)
      BY <1>1, <3>1, <3>2 DEF ReaderInv
    <3> QED
      BY <1>10, <3>1, <3>3 DEF LastOutcome, WellFormed
  <2>3. {"process.exited"} \subseteq LineTypes
    BY GatewayTypes DEF Endings
  <2>4. p + 2 \in Of(s, {"process.exited"}) /\ Recorded(s[p + 2], lines[p])
    BY <1>1, <1>2, <2>2, <2>3, EventsOf
  <2>5. s[p + 2].exit = "zero"
    BY <2>2, <2>4 DEF Recorded, Exit
  <2> QED
    BY <2>4, <2>5
<1>15. ValidStream(s, Status, NoPid)
  BY <1>7, <1>8, <1>11, <1>12, <1>13, <1>14 DEF ValidStream
<1>16. PICK S : s \in Seq(S)
  BY <1>2
<1>17. \A i, j \in DOMAIN s : s[i].seq \in Int /\ (i < j => s[i].seq < s[j].seq)
  BY <1>1, <1>2, RecordIncreases
<1> QED
  BY <1>15, <1>16, <1>17, ValidIs DEF s

(* However the engine and the gateway interleave, and whatever fails in a  *)
(* launch, the gateway's validateEventStream accepts the record of         *)
(* processes that were all observed, and of a record it accepts it notices *)
(* the loss, the repetition and the misplacing of any event, and the loss  *)
(* of any line about a start or an exit.                                   *)
THEOREM NoLossGoesUnnoticed == WatchedSpec => []LossIsNoticed
<1>1. TypeOK /\ TruthInv /\ OutcomeInv /\ ReaderInv /\ AccountInv /\ RecordInv => LossIsNoticed
  <2> SUFFICES ASSUME TypeOK, TruthInv, OutcomeInv, ReaderInv, AccountInv, RecordInv, Closed
               PROVE  /\ AllObserved => Valid(Record)
                      /\ Valid(Record) => \A k \in DOMAIN Record :
                           /\ ~Valid(Without(Record, k))
                           /\ ~Valid(Append(Record, Record[k]))
                           /\ ~Valid([Record EXCEPT ![k].session = "another"])
                      /\ Valid(Record) /\ n > 1 => \A k \in DOMAIN lines :
                           lines[k].type \in {"process.started", "process.exited"} =>
                             ~Valid(ClosedRecord(Without(lines, k)))
    BY DEF LossIsNoticed
  <2>1. AllObserved => Valid(Record)
    BY Accepted
  <2>2. ASSUME NEW k \in DOMAIN Record
        PROVE  /\ ~Valid(Without(Record, k))
               /\ ~Valid(Append(Record, Record[k]))
               /\ ~Valid([Record EXCEPT ![k].session = "another"])
    BY <2>2, LossOfEvent
  <2>3. ASSUME Valid(Record), n > 1, NEW k \in DOMAIN lines,
               lines[k].type \in {"process.started", "process.exited"}
        PROVE  ~Valid(ClosedRecord(Without(lines, k)))
    <3>1. FirstStages
      BY DEF OutcomeInv
    <3> QED
      BY <2>3, <3>1, LossOfLine
  <2> QED
    BY <2>1, <2>2, <2>3
<1> QED
  BY <1>1, ReaderInvariant, RecordInvariant, PTL

------------------------------------------------------------------------------
(* The reduction of the table goes through the events one by one.          *)
LEMMA RowSteps ==
  ASSUME NEW s, Len(s) \in Nat, NEW i
  PROVE  LET row == RowAfter(s, i)
         IN  /\ row[0] = NotStarted
             /\ \A k \in 1 .. Len(s) :
                  row[k] = IF s[k].stage = i THEN Reduced(row[k - 1], s[k]) ELSE row[k - 1]
<1> DEFINE m == Len(s)
           Step(f, k) == IF k = 0 THEN NotStarted
                         ELSE IF s[k].stage = i THEN Reduced(f[k - 1], s[k]) ELSE f[k - 1]
           Is(f, l) == DOMAIN f = 0 .. l /\ \A k \in 0 .. l : f[k] = Step(f, k)
           T == {l \in Nat : \E f : Is(f, l)}
<1>1. 0 \in T
  <2> DEFINE f == [k \in 0 .. 0 |-> NotStarted]
  <2>1. Is(f, 0)
    OBVIOUS
  <2> QED
    BY <2>1
<1>2. ASSUME NEW l \in T PROVE l + 1 \in T
  <2>1. PICK f : Is(f, l)
    OBVIOUS
  <2> DEFINE last == IF s[l + 1].stage = i THEN Reduced(f[l], s[l + 1]) ELSE f[l]
             g == [k \in 0 .. l + 1 |-> IF k = l + 1 THEN last ELSE f[k]]
  <2>2. l \in Nat /\ DOMAIN g = 0 .. l + 1
    OBVIOUS
  <2>3. \A k \in 0 .. l : g[k] = f[k]
    BY <2>2
  <2>4. g[l + 1] = last
    BY <2>2
  <2> HIDE DEF g, last
  <2>5. ASSUME NEW k \in 0 .. l PROVE g[k] = Step(g, k)
    <3>1. k # 0 => k - 1 \in 0 .. l
      BY <2>2
    <3>2. k # 0 => g[k - 1] = f[k - 1]
      BY <2>3, <3>1
    <3>3. Step(g, k) = Step(f, k)
      BY <3>2
    <3> QED
      BY <2>1, <2>3, <3>3
  <2>6. g[l + 1] = Step(g, l + 1)
    <3>1. l + 1 # 0 /\ (l + 1) - 1 = l /\ l \in 0 .. l
      BY <2>2
    <3>2. g[l] = f[l]
      BY <2>3, <3>1
    <3> QED
      BY <2>4, <3>1, <3>2 DEF last
  <2> HIDE DEF Step
  <2>7. Is(g, l + 1)
    BY <2>2, <2>5, <2>6
  <2> QED
    BY <2>2, <2>7
<1> HIDE DEF Step, Is
<1>3. T = Nat
  <2>1. T \in SUBSET Nat
    OBVIOUS
  <2> HIDE DEF T
  <2> QED
    BY <1>1, <1>2, <2>1, Reached
<1>4. PICK f : Is(f, m)
  BY <1>3
<1> DEFINE Whole(g) == g = [k \in 0 .. m |-> Step(g, k)]
<1>5. Whole(f)
  BY <1>4 DEF Is
<1>6. RowAfter(s, i) = CHOOSE g : Whole(g)
  BY DEF RowAfter, Step
<1>7. Whole(RowAfter(s, i))
  <2> HIDE DEF Whole
  <2> QED
    BY <1>5, <1>6
<1>8. \A k \in 0 .. m : RowAfter(s, i)[k] = Step(RowAfter(s, i), k)
  <2> DEFINE r == RowAfter(s, i)
  <2>1. r = [k \in 0 .. m |-> Step(r, k)]
    BY <1>7
  <2> HIDE DEF r
  <2>2. \A k \in 0 .. m : r[k] = Step(r, k)
    BY <2>1
  <2> QED
    BY <2>2 DEF r
<1> QED
  BY <1>8 DEF Step

------------------------------------------------------------------------------
(* The views.  ViewsTellTheTruth rests on what else the lines say: that an *)
(* exit was observed, or is of a stage no launch came to; that it is the   *)
(* last the table reads of its stage; and that the engine returns with all *)
(* of its stages settled, or with none launched.                           *)

Shown(l) ==
  /\ l.type = "process.exited" =>
       IF l.proc \in Stages THEN status[l.proc] # "unknown" /\ l.proc \notin execFailed ELSE launchFailed
  /\ l.type = "process.wait_failed" => Ended(l.proc)
  /\ l.type \in {"process.exec_error", "process.wait_failed"} => l.stage = -1
  /\ l.type \in {"process.launch_failed", "redirection.failed"} => launchFailed

(* The lines that change the row of their stage. *)
RowLines == {"process.started", "signal.received", "process.exited"}

ExitIsLast ==
  \A j, k \in DOMAIN lines :
    lines[k].type = "process.exited" /\ lines[j].stage = lines[k].stage /\ lines[j].type \in RowLines => j <= k

Everyone ==
  at \in {"close", "status", "reap", "complete"} /\ ~launchFailed => \A i \in 0 .. n - 1 : Launched(i)

AtEnd == at = "returned" => Settled(n) \/ \A i \in Stages : ~Launched(i)

ShownInv == (\A l \in LineSet : Shown(l)) /\ ExitIsLast /\ Everyone /\ AtEnd

(* New lines that are shown truly, and change no row that has its exit.    *)
LEMMA ShownFrame ==
  ASSUME TypeOK, ExitIsLast, NEW t \in Seq(StageLines), lines' = lines \o t,
         \A l \in LineSet : Shown(l)', \A k \in DOMAIN t : Shown(t[k])',
         \A l \in LineSet, k \in DOMAIN t :
            l.type = "process.exited" /\ t[k].type \in RowLines => t[k].stage # l.stage,
         \A j, k \in DOMAIN t : t[k].type = "process.exited" /\ t[j].type \in RowLines => j <= k
  PROVE  (\A l \in LineSet' : Shown(l)') /\ ExitIsLast'
<1>1. \A l \in LineSet' : Shown(l)'
  BY NewLines
<1>2. lines \in Seq(StageLines)
  BY DEF TypeOK
<1> DEFINE old == Len(lines)
           Old(k) == k \in DOMAIN lines /\ lines'[k] = lines[k] /\ lines[k] \in LineSet
           New(k) == k > old /\ k - old \in DOMAIN t /\ lines'[k] = t[k - old]
<1>3. \A k \in DOMAIN lines' : k \in Nat /\ (Old(k) \/ New(k))
  BY <1>2, Concatenation DEF LineSet
<1>4. old \in Nat /\ \A k \in DOMAIN lines : k <= old
  BY <1>2
<1> HIDE DEF old
<1> SUFFICES ASSUME NEW j \in DOMAIN lines', NEW k \in DOMAIN lines', lines'[k].type = "process.exited",
                    lines'[j].stage = lines'[k].stage, lines'[j].type \in RowLines
             PROVE  j <= k
  BY <1>1 DEF ExitIsLast
<1>5. CASE Old(j) /\ Old(k)
  BY <1>5 DEF ExitIsLast
<1>6. CASE Old(j) /\ New(k)
  BY <1>3, <1>4, <1>6
<1>7. CASE New(j) /\ Old(k)
  BY <1>7
<1>8. CASE New(j) /\ New(k)
  <2>1. j - old <= k - old
    BY <1>8
  <2> QED
    BY <1>3, <1>4, <2>1
<1> QED
  BY <1>3, <1>5, <1>6, <1>7, <1>8

LEMMA LaunchShown ==
  ASSUME TypeOK, DescriptorInv, AccountInv, ShownInv, NEW i \in Stages, Launch(i) PROVE ShownInv'
<1>1. /\ at = "launch" /\ cur = i /\ at' \in {"launch", "close"} /\ i < n /\ n' = n /\ n \in Nat
      /\ (at' = "close" => i + 1 = n) /\ launchFailed' = launchFailed
      /\ child' = [child EXCEPT ![i] = "forked"]
  BY DEF Launch, line, TypeOK
<1>2. PICK t \in Seq(StageLines) :
            lines' = lines \o t /\ \A k \in DOMAIN t : t[k] = Opening \/ t[k] = Start(i)
  BY LaunchWrites
<1>3. \A l \in LineSet : l.type \notin Endings
  BY <1>1 DEF AccountInv
<1>4. \A l \in LineSet : Shown(l)'
  BY <1>1, <1>3 DEF ShownInv, Shown, Endings
<1>5. \A k \in DOMAIN t : t[k].type \in {"pipeline.started", "process.started"}
  BY <1>2 DEF Opening, Start, Envelope, StageLine
<1>6. \A k \in DOMAIN t : Shown(t[k])'
  BY <1>5 DEF Shown
<1>7. (\A l \in LineSet' : Shown(l)') /\ ExitIsLast'
  <2>1. \A l \in LineSet : l.type # "process.exited"
    BY <1>3 DEF Endings
  <2>2. \A k \in DOMAIN t : t[k].type # "process.exited"
    BY <1>5
  <2>3. ExitIsLast
    BY DEF ShownInv
  <2> QED
    BY <1>2, <1>4, <1>6, <2>1, <2>2, <2>3, ShownFrame
<1>8. Everyone'
  <2>1. \A j \in Stages : Launched(j) <=> j < i
    BY <1>1 DEF DescriptorInv, LaunchedSoFar
  <2>2. \A j \in Stages : Launched(j)' <=> j = i \/ Launched(j)
    BY <1>1 DEF Launched, TypeOK
  <2>3. \A j \in 0 .. n - 1 : j \in Stages /\ (i + 1 = n => j = i \/ j < i)
    <3>1. n \in 1 .. MaxStages /\ MaxStages \in Nat /\ i \in 0 .. MaxStages - 1
      BY StagesAssumption DEF Stages, TypeOK
    <3> QED
      BY <3>1 DEF Stages
  <2> QED
    BY <1>1, <2>1, <2>2, <2>3 DEF Everyone
<1> QED
  BY <1>1, <1>7, <1>8 DEF ShownInv, AtEnd

LEMMA FailShown ==
  ASSUME TypeOK, DescriptorInv, AccountInv, ShownInv, NEW i \in Stages,
         RedirectionFails(i) \/ StatusPipeFails(i) \/ ForkFails(i)
  PROVE  ShownInv'
<1>1. /\ at = "launch" /\ cur = i /\ launchFailed' /\ UNCHANGED <<n, child, status>>
      /\ at' = "close" \/ at' = "returned"
  BY FailWrites DEF line
<1>2. PICK t \in Seq(StageLines) :
            /\ lines' = lines \o t
            /\ \A k \in DOMAIN t : t[k].type \in {"redirection.failed", "process.launch_failed"}
  BY FailWrites
<1>3. \A l \in LineSet : l.type \notin Endings
  BY <1>1 DEF AccountInv
<1>4. (\A l \in LineSet : Shown(l)') /\ \A k \in DOMAIN t : Shown(t[k])'
  BY <1>1, <1>2, <1>3 DEF Shown, Endings
<1>5. (\A l \in LineSet' : Shown(l)') /\ ExitIsLast'
  <2>1. \A l \in LineSet : l.type # "process.exited"
    BY <1>3 DEF Endings
  <2>2. \A k \in DOMAIN t : t[k].type # "process.exited"
    BY <1>2
  <2>3. ExitIsLast
    BY DEF ShownInv
  <2> QED
    BY <1>2, <1>4, <2>1, <2>2, <2>3, ShownFrame
<1>6. at' = "returned" => \A j \in Stages : ~Launched(j)'
  <2> SUFFICES ASSUME at' = "returned", NEW j \in Stages PROVE ~Launched(j)'
    OBVIOUS
  <2>1. n = 1
    BY DEF RedirectionFails, StatusPipeFails, ForkFails, LaunchFails
  <2>2. cur = 0 /\ j >= 0
    BY <2>1 DEF TypeOK, Stages
  <2>3. ~Launched(j)
    BY <1>1, <2>2 DEF DescriptorInv, LaunchedSoFar, Stages
  <2> QED
    BY <1>1, <2>3 DEF Launched
<1> QED
  BY <1>1, <1>5, <1>6 DEF ShownInv, Everyone, AtEnd

(* What is said of a stage that was just reaped is an exit only if it was  *)
(* its own, and then the last line.                                        *)
LEMMA EndLinesShown ==
  ASSUME TypeOK, NEW i \in Stages
  PROVE  LET t == EndLines(i, child[i])
         IN  \A k \in DOMAIN t : /\ t[k].type \in {"process.exited", "process.exec_error", "signal.received"}
                                 /\ t[k].type = "process.exited" => /\ k = Len(t) /\ t[k].proc = i
                                                                    /\ i \notin execFailed
                                 /\ t[k].type \in RowLines => t[k].stage = i
                                 /\ t[k].type = "process.exec_error" => t[k].stage = -1
                                 /\ k <= Len(t)
<1> DEFINE t == EndLines(i, child[i])
           Said(l) == /\ l.type \in {"process.exited", "process.exec_error", "signal.received"}
                      /\ l.type = "process.exited" => l.proc = i /\ i \notin execFailed
                      /\ l.type \in RowLines => l.stage = i
                      /\ l.type = "process.exec_error" => l.stage = -1
<1>1. CASE i \in execFailed
  <2>1. t = <<Unplaced("process.exec_error", i, "EXEC_FAILED")>>
    BY <1>1 DEF EndLines
  <2>2. Said(Unplaced("process.exec_error", i, "EXEC_FAILED"))
    BY DEF Unplaced, RowLines
  <2> QED
    BY <2>1, <2>2 DEF Unplaced
<1>2. CASE i \notin execFailed
  <2>1. \/ t = <<StageLine("process.exited", i, "COMPLETED")>>
        \/ t = <<StageLine("process.exited", i, "EXITED")>>
        \/ t = <<SignalLine(i), StageLine("process.exited", i, "SIGNALED")>>
    BY <1>2 DEF EndLines
  <2>2. \A outcome : Said(StageLine("process.exited", i, outcome))
    BY <1>2 DEF StageLine
  <2>3. Said(SignalLine(i)) /\ SignalLine(i).type # "process.exited"
    BY DEF SignalLine, StageLine
  <2> HIDE DEF Said, t
  <2>4. DOMAIN t = 1 .. Len(t) /\ Len(t) \in {1, 2} /\ \A k \in DOMAIN t : Said(t[k]) /\ (k # Len(t) => t[k].type # "process.exited")
    <3>1. ASSUME NEW a, t = <<a>>, Said(a)
          PROVE  DOMAIN t = 1 .. Len(t) /\ Len(t) = 1 /\ \A k \in DOMAIN t : k = 1 /\ Said(t[k])
      BY <3>1
    <3>2. ASSUME NEW a, NEW b, t = <<a, b>>, Said(a), Said(b), a.type # "process.exited"
          PROVE  DOMAIN t = 1 .. Len(t) /\ Len(t) = 2
                 /\ \A k \in DOMAIN t : Said(t[k]) /\ (k # 2 => t[k].type # "process.exited")
      BY <3>2
    <3> QED
      BY <2>1, <2>2, <2>3, <3>1, <3>2
  <2>5. \A k \in DOMAIN t : k <= Len(t)
    BY <2>4
  <2> QED
    BY <2>4, <2>5 DEF Said, t
<1> QED
  BY <1>1, <1>2

(* No exit was written of a stage that is still to be reaped.              *)
LEMMA NoExitYet ==
  ASSUME TypeOK, TruthInv, AccountInv, RecordInv, at = "reap", NEW l \in LineSet, l.type = "process.exited"
  PROVE  l.stage # cur
<1> SUFFICES ASSUME l.stage = cur PROVE FALSE
  OBVIOUS
<1>1. EndingsOf(cur) = {} /\ cur \in Stages
  <2>1. cur \in 0 .. n - 1 /\ n \in 1 .. MaxStages /\ MaxStages \in Nat
    BY StagesAssumption DEF TypeOK
  <2>2. cur \in cur .. n - 1 /\ cur \in Stages
    BY <2>1 DEF Stages
  <2> QED
    BY <2>2 DEF AccountInv, Settled
<1>2. \/ l.proc = Engine /\ ~Launched(cur)
      \/ l.proc = cur /\ Launched(cur)
  <2>1. Positioned(l)
    BY DEF RecordInv
  <2>2. l.proc \in Stages => child[l.proc] \in {"ok", "failed", "signaled"}
    BY DEF TruthInv, Truthful
  <2> QED
    BY <2>1, <2>2 DEF Positioned, Launched
<1>3. PICK k \in DOMAIN lines : l = lines[k]
  BY DEF LineSet
<1>4. k \in EndingsOf(cur)
  BY <1>2, <1>3 DEF EndingsOf, Endings
<1> QED
  BY <1>1, <1>4

LEMMA ReapShown ==
  ASSUME TypeOK, TruthInv, AccountInv, RecordInv, ShownInv,
         NEW i \in Stages, Reap(i) \/ WaitFails(i) \/ SkipStage(i)
  PROVE  ShownInv'
<1>1. /\ at = "reap" /\ cur = i /\ i \in 0 .. n - 1 /\ i < n /\ n \in Nat
      /\ UNCHANGED <<n, child, execFailed, launchFailed>> /\ at' \in {"reap", "complete"}
  BY DEF Reap, WaitFails, SkipStage, Advance, line, TypeOK
<1>2. \A j \in Stages : status[j] # "unknown" => status'[j] # "unknown"
  BY DEF Reap, WaitFails, SkipStage, TypeOK
<1>3. \A l \in LineSet : Shown(l)'
  BY <1>1, <1>2 DEF ShownInv, Shown, Ended
<1>4. Everyone' /\ AtEnd'
  BY <1>1 DEF ShownInv, Everyone, AtEnd, Launched
<1>5. ASSUME NEW t \in Seq(StageLines), lines' = lines \o t, \A k \in DOMAIN t : Shown(t[k])',
             \A k \in DOMAIN t : t[k].type \in RowLines => t[k].stage = i,
             \A j, k \in DOMAIN t : t[k].type = "process.exited" => j <= k
      PROVE  ShownInv'
  <2>1. \A l \in LineSet, k \in DOMAIN t :
           l.type = "process.exited" /\ t[k].type \in RowLines => t[k].stage # l.stage
    BY <1>1, <1>5, NoExitYet
  <2>2. ExitIsLast
    BY DEF ShownInv
  <2>3. (\A l \in LineSet' : Shown(l)') /\ ExitIsLast'
    BY <1>3, <1>5, <2>1, <2>2, ShownFrame
  <2> QED
    BY <1>4, <2>3 DEF ShownInv
<1>6. ASSUME NEW l \in StageLines, lines' = Append(lines, l), Shown(l)', l.type \in RowLines => l.stage = i
      PROVE  ShownInv'
  <2> DEFINE t == <<l>>
  <2>1. t \in Seq(StageLines) /\ lines' = lines \o t /\ DOMAIN t = {1} /\ t[1] = l
    BY <1>6, OneLine
  <2> HIDE DEF t
  <2> QED
    BY <1>5, <1>6, <2>1
<1>7. CASE Reap(i)
  <2>1. EndLines(i, child[i]) \in Seq(StageLines) /\ lines' = lines \o EndLines(i, child[i])
    BY <1>1, <1>7, EndLinesType DEF Reap, TypeOK
  <2>2. status'[i] # "unknown"
    BY <1>7 DEF Reap, TypeOK
  <2> DEFINE Said(t) == \A k \in DOMAIN t :
                           /\ t[k].type \in {"process.exited", "process.exec_error", "signal.received"}
                           /\ t[k].type = "process.exited" => k = Len(t) /\ t[k].proc = i /\ i \notin execFailed
                           /\ t[k].type \in RowLines => t[k].stage = i
                           /\ t[k].type = "process.exec_error" => t[k].stage = -1
                           /\ k <= Len(t)
  <2>3. Said(EndLines(i, child[i]))
    BY EndLinesShown
  <2> HIDE DEF Said
  <2>4. PICK t \in Seq(StageLines) : lines' = lines \o t /\ Said(t)
    BY <2>1, <2>3
  <2>5. \A k \in DOMAIN t : Shown(t[k])'
    BY <1>1, <2>2, <2>4 DEF Shown, Said
  <2> QED
    BY <1>5, <2>4, <2>5 DEF Said
<1>8. CASE WaitFails(i)
  <2> DEFINE l == Unplaced("process.wait_failed", i, "WAIT_FAILED")
  <2>1. lines' = Append(lines, l) /\ Ended(i)'
    BY <1>1, <1>8 DEF WaitFails, Ended
  <2>2. l \in StageLines
    <3>1. "process.wait_failed" \in LineTypes /\ "WAIT_FAILED" \in Outcomes /\ i \in Processes
      BY EngineIsNoStage DEF LineTypes, EngineEvents, Outcomes
    <3> QED
      BY <1>1, <3>1, SetsOfLines
  <2>3. l.type = "process.wait_failed" /\ l.proc = i /\ l.stage = -1
    BY DEF Unplaced
  <2> HIDE DEF l
  <2> QED
    BY <1>6, <2>1, <2>2, <2>3 DEF Shown, RowLines
<1>9. CASE SkipStage(i)
  <2>1. lines' = Append(lines, NeverLaunched) /\ ~Launched(i)
    BY <1>9 DEF SkipStage
  <2>2. NeverLaunched \in StageLines
    <3>1. "process.exited" \in LineTypes /\ "LAUNCH_FAILED" \in Outcomes /\ i \in Processes
      BY EngineIsNoStage DEF LineTypes, EngineEvents, Outcomes
    <3> QED
      BY <1>1, <3>1, SetsOfLines DEF NeverLaunched
  <2>3. /\ NeverLaunched.type = "process.exited" /\ NeverLaunched.proc = Engine /\ NeverLaunched.stage = i
    BY <1>1 DEF NeverLaunched, StageLine
  <2>4. launchFailed' /\ Engine \notin Stages
    BY <1>1, <2>1, EngineIsNoStage DEF ShownInv, Everyone
  <2>5. PICK l \in StageLines : l = NeverLaunched
    BY <2>2
  <2>6. Shown(l)'
    BY <2>3, <2>4, <2>5 DEF Shown
  <2> QED
    BY <1>6, <2>1, <2>3, <2>5, <2>6
<1> QED
  BY <1>7, <1>8, <1>9

(* Steps that write nothing. *)
LEMMA SilentShown ==
  ASSUME TypeOK, ShownInv, UNCHANGED <<status, launchFailed, lines>>,
         \A l \in LineSet : /\ l.type = "process.exited" => (l.proc \in execFailed' => l.proc \in execFailed)
                            /\ l.type = "process.wait_failed" => (Ended(l.proc) => Ended(l.proc)'),
         Everyone', AtEnd'
  PROVE  ShownInv'
<1>1. LineSet' = LineSet
  BY DEF LineSet
<1>2. \A l \in LineSet' : Shown(l)'
  BY <1>1 DEF ShownInv, Shown
<1>3. ExitIsLast'
  BY DEF ShownInv, ExitIsLast
<1> QED
  BY <1>2, <1>3 DEF ShownInv

LEMMA QuietShown ==
  ASSUME TypeOK, DescriptorInv, AccountInv, ShownInv, CreatePipes \/ CloseEnds \/ \E i \in Stages : ReadStatus(i)
  PROVE  ShownInv'
<1>1. /\ UNCHANGED <<n, child, status, launchFailed, lines>>
      /\ \/ at = "start" /\ at' \in {"launch", "returned"}
         \/ at \in {"close", "status"} /\ at' \in {"status", "reap"}
  BY DEF CreatePipes, CloseEnds, ReadStatus, Advance, line
<1>2. \A l \in LineSet : l.type \notin Endings
  BY <1>1 DEF AccountInv
<1>3. \A i \in Stages : Launched(i)' <=> Launched(i)
  BY <1>1 DEF Launched
<1>4. Everyone'
  BY <1>1 DEF ShownInv, Everyone, Launched
<1>5. AtEnd'
  <2> SUFFICES ASSUME at' = "returned", NEW i \in Stages PROVE ~Launched(i)
    BY <1>3 DEF AtEnd
  <2>1. cur = 0 /\ i >= 0 /\ (Launched(i) <=> i < cur)
    BY <1>1 DEF DescriptorInv, LaunchedSoFar, Stages
  <2> QED
    BY <2>1 DEF Stages
<1> QED
  BY <1>1, <1>2, <1>4, <1>5, SilentShown DEF Endings

LEMMA CompleteShown ==
  ASSUME TypeOK, AccountInv, AccountInv', ShownInv, Complete
  PROVE  ShownInv'
<1>1. /\ at = "complete" /\ at' = "returned" /\ n \in Nat
      /\ UNCHANGED <<n, child, status, launchFailed, execFailed>>
  BY DEF Complete, line, TypeOK
<1>2. \A l \in LineSet : Shown(l)'
  BY <1>1 DEF ShownInv, Shown, Ended
<1>3. CASE lines' = lines
  <2>1. \A i \in 0 .. n - 1 : EndingsOf(i)' = EndingsOf(i)
    BY <1>1, <1>3 DEF EndingsOf, Launched
  <2>2. \A k \in Nat : k = n /\ Settled(k) => Settled(k)'
    BY <1>1, <2>1, SettledFrame
  <2>3. Settled(n)'
    BY <1>1, <2>2 DEF AccountInv, Settled
  <2> QED
    BY <1>1, <1>3, <2>3, SilentShown DEF Everyone, AtEnd, Ended
<1>4. ASSUME NEW l \in StageLines, lines' = Append(lines, l), l.type = "pipeline.completed"
      PROVE  ShownInv'
  <2> DEFINE t == <<l>>
  <2>1. t \in Seq(StageLines) /\ lines' = lines \o t /\ \A k \in DOMAIN t : t[k] = l
    BY <1>4, OneLine
  <2> HIDE DEF t
  <2>2. \A k \in DOMAIN t : Shown(t[k])' /\ t[k].type \notin RowLines /\ t[k].type # "process.exited"
    BY <1>4, <2>1 DEF Shown, RowLines
  <2>3. ExitIsLast
    BY DEF ShownInv
  <2>4. (\A m \in LineSet' : Shown(m)') /\ ExitIsLast'
    BY <1>2, <2>1, <2>2, <2>3, ShownFrame
  <2>5. Len(lines) + 1 \in DOMAIN lines' /\ lines'[Len(lines) + 1] = l
    BY <1>4, AppendProperties DEF TypeOK
  <2>6. Settled(n)'
    BY <1>1, <1>4, <2>5 DEF AccountInv
  <2> QED
    BY <1>1, <2>4, <2>6 DEF ShownInv, Everyone, AtEnd
<1> QED
  BY <1>3, <1>4, CompleteWrites

LEMMA ChildShown ==
  ASSUME TypeOK, ShownInv, UNCHANGED <<n, at, status, launchFailed, execFailed, lines>>,
         \A i \in Stages : /\ Launched(i)' <=> Launched(i)
                           /\ Ended(i) => Ended(i)',
         \A l \in LineSet : l.type = "process.wait_failed" => l.proc \in Stages
  PROVE  ShownInv'
<1>1. n \in Nat /\ \A i \in 0 .. n - 1 : i \in Stages
  <2>1. n \in 1 .. MaxStages /\ MaxStages \in Nat
    BY StagesAssumption DEF TypeOK
  <2> QED
    BY <2>1 DEF Stages
<1>2. \A i \in 0 .. n - 1 : EndingsOf(i)' = EndingsOf(i)
  BY <1>1 DEF EndingsOf
<1>3. \A k \in Nat : k = n /\ Settled(k) => Settled(k)'
  BY <1>1, <1>2, SettledFrame
<1>4. Settled(n) => Settled(n)'
  BY <1>1, <1>3 DEF Settled
<1>5. Everyone' /\ AtEnd'
  BY <1>1, <1>4 DEF ShownInv, Everyone, AtEnd
<1> QED
  BY <1>5, SilentShown

LEMMA ShownInit == Init => ShownInv
<1> SUFFICES ASSUME Init PROVE ShownInv
  OBVIOUS
<1>1. lines = <<>> /\ at = "start"
  BY DEF Init
<1>2. LineSet = {} /\ DOMAIN lines = {}
  BY <1>1 DEF LineSet
<1> QED
  BY <1>1, <1>2 DEF ShownInv, ExitIsLast, Everyone, AtEnd

LEMMA ShownStep ==
  TypeOK /\ DescriptorInv /\ TruthInv /\ AccountInv /\ AccountInv' /\ RecordInv /\ ShownInv /\ [Next]_vars
    => ShownInv'
<1> SUFFICES ASSUME TypeOK, DescriptorInv, TruthInv, AccountInv, AccountInv', RecordInv, ShownInv, [Next]_vars
             PROVE  ShownInv'
  OBVIOUS
<1>1. CASE EngineStep
  BY <1>1, QuietShown, LaunchShown, ReapShown, CompleteShown DEF EngineStep
<1>2. CASE EngineFault
  BY <1>2, FailShown, ReapShown DEF EngineFault
<1>3. \A l \in LineSet : l.type = "process.wait_failed" => l.proc \in Stages
  BY DEF RecordInv, Positioned
<1>4. ASSUME NEW i \in Stages, ChildStep(i) \/ ProgramStep(i) PROVE ShownInv'
  <2>1. Unchanged_Engine /\ \E how : how # "none" /\ child' = [child EXCEPT ![i] = how]
    BY <1>4 DEF ChildStep, ProgramStep, CloseOthers, Exec, Refuse, RefusedExit, UnwiredExit,
                ProgramExits, EndOfInput, BrokenPipe, Killed, Ends
  <2>2. child[i] \in {"forked", "wired", "refusing", "running"}
    BY <1>4 DEF ChildStep, ProgramStep, CloseOthers, Exec, Refuse, RefusedExit, UnwiredExit,
                ProgramExits, EndOfInput, BrokenPipe, Killed
  <2>3. \A j \in Stages : (Launched(j)' <=> Launched(j)) /\ (Ended(j) => Ended(j)')
    BY <2>1, <2>2 DEF Launched, Ended, TypeOK
  <2> QED
    BY <1>3, <2>1, <2>3, ChildShown DEF Unchanged_Engine, line
<1>5. CASE UNCHANGED vars
  <2>1. /\ UNCHANGED <<n, at, status, launchFailed, execFailed, lines>>
        /\ \A i \in Stages : (Launched(i)' <=> Launched(i)) /\ (Ended(i) => Ended(i)')
    BY <1>5 DEF vars, line, Launched, Ended
  <2> QED
    BY <1>3, <2>1, ChildShown
<1> QED
  BY <1>1, <1>2, <1>4, <1>5 DEF Next

LEMMA ShownInvariant == Spec => []ShownInv
<1>1. Init => ShownInv
  BY ShownInit
<1>2. TypeOK /\ DescriptorInv /\ TruthInv /\ AccountInv /\ AccountInv' /\ RecordInv /\ ShownInv /\ [Next]_vars
        => ShownInv'
  BY ShownStep
<1> QED
  BY <1>1, <1>2, TruthInvariant, RecordInvariant, PTL DEF Spec

------------------------------------------------------------------------------
(* The record holds the lines and events of the gateway, closed or not.    *)
Holds(s) ==
  /\ Len(s) \in Nat /\ DOMAIN s = 1 .. Len(s)
  /\ \A k \in DOMAIN s : \/ OfGateway(s[k]) /\ s[k].type \notin LineTypes
                         \/ k - 2 \in DOMAIN lines /\ Recorded(s[k], lines[k - 2])
  /\ \A p \in DOMAIN lines : p + 2 \in DOMAIN s /\ Recorded(s[p + 2], lines[p])

LEMMA RecordHolds ==
  ASSUME TypeOK
  PROVE  Holds(Record)
<1>1. lines \in Seq(StageLines) /\ Len(lines) \in Nat /\ DOMAIN lines = 1 .. Len(lines)
  BY DEF TypeOK
<1>2. CASE Closed
  <2>1. Record = ClosedRecord(lines)
    BY <1>2 DEF Record
  <2> DEFINE s == ClosedRecord(lines)
  <2>2. RecordOf(s, lines) /\ \E S : s \in Seq(S)
    BY <1>1, ClosedRecordIs
  <2> HIDE DEF s
  <2>3. Len(s) \in Nat /\ DOMAIN s = 1 .. Len(s)
    BY <2>2
  <2> QED
    BY <1>1, <2>1, <2>2, <2>3, PlacesOf DEF Holds, s
<1>3. CASE ~Closed
  <2>1. Record = OpenRecord(lines)
    BY <1>3 DEF Record
  <2> DEFINE s == OpenRecord(lines)
             m == Len(lines)
  <2>2. /\ Len(s) = m + 2 /\ DOMAIN s = 1 .. m + 2
        /\ s[1] = GatewayEvent("execution.created", 0)
        /\ s[2] = GatewayEvent("execution.started", 1)
        /\ \A k \in 1 .. m :
              s[k + 2] = StoredEvent("session", k + 1, lines[k].type, lines[k].proc, lines[k].stage,
                                     lines[k].stages, Exit(lines[k]))
    BY <1>1, OpenRecordIs
  <2> HIDE DEF s
  <2>3. \A k \in {1, 2} : OfGateway(s[k]) /\ s[k].type \notin LineTypes
    BY <2>2, GatewayTypes DEF OfGateway, GatewayEvent, StoredEvent
  <2>4. ASSUME NEW p \in DOMAIN lines PROVE p + 2 \in DOMAIN s /\ Recorded(s[p + 2], lines[p])
    <3>1. p + 2 \in DOMAIN s
      BY <1>1, <2>2
    <3>2. s[p + 2] = StoredEvent("session", p + 1, lines[p].type, lines[p].proc, lines[p].stage,
                                 lines[p].stages, Exit(lines[p]))
      BY <1>1, <2>2
    <3> QED
      BY <3>1, <3>2 DEF Recorded, StoredEvent
  <2>5. ASSUME NEW k \in DOMAIN s, k \notin {1, 2} PROVE k - 2 \in DOMAIN lines /\ Recorded(s[k], lines[k - 2])
    <3>1. k - 2 \in DOMAIN lines /\ (k - 2) + 2 = k
      BY <1>1, <2>2, <2>5
    <3> QED
      BY <2>4, <3>1
  <2>6. Len(s) \in Nat /\ DOMAIN s = 1 .. Len(s)
    BY <1>1, <2>2
  <2> QED
    BY <2>1, <2>3, <2>4, <2>5, <2>6 DEF Holds, s
<1> QED
  BY <1>2, <1>3

(* What the views know of a record: the types of the lines, and how the    *)
(* gateway ended it.                                                       *)
LEMMA TypesAre ==
  ASSUME TypeOK
  PROVE  /\ \A T \in SUBSET LineTypes : Types(Record) \cap T # {} <=> \E l \in LineSet : l.type \in T
         /\ \A x \in LineTypes : x \in Types(Record) <=> \E l \in LineSet : l.type = x
         /\ Closed => FinalType(Verdict) \in Types(Record)
<1> DEFINE s == Record
<1>1. Holds(s)
  BY RecordHolds
<1> HIDE DEF s
<1>2. ASSUME NEW x \in LineTypes PROVE x \in Types(s) <=> \E l \in LineSet : l.type = x
  <2>1. ASSUME x \in Types(s) PROVE \E l \in LineSet : l.type = x
    <3>1. PICK k \in DOMAIN s : s[k].type = x
      BY <2>1 DEF Types
    <3>2. k - 2 \in DOMAIN lines /\ Recorded(s[k], lines[k - 2])
      BY <1>1, <3>1 DEF Holds
    <3> QED
      BY <3>1, <3>2 DEF Recorded, LineSet
  <2>2. ASSUME NEW l \in LineSet, l.type = x PROVE x \in Types(s)
    <3>1. PICK p \in DOMAIN lines : l = lines[p]
      BY DEF LineSet
    <3>2. p + 2 \in DOMAIN s /\ s[p + 2].type = x
      BY <1>1, <2>2, <3>1 DEF Holds, Recorded
    <3> QED
      BY <3>2 DEF Types
  <2> QED
    BY <2>1, <2>2
<1>3. Closed => FinalType(Verdict) \in Types(s)
  <2> SUFFICES ASSUME Closed PROVE FinalType(Verdict) \in Types(s)
    OBVIOUS
  <2>1. s = ClosedRecord(lines) /\ lines \in Seq(StageLines)
    BY DEF s, Record, TypeOK
  <2>2. RecordOf(s, lines) /\ Len(lines) \in Nat
    BY <2>1, ClosedRecordIs
  <2>3. Len(lines) + 3 \in DOMAIN s /\ s[Len(lines) + 3].type = FinalType(Verdict)
    BY <2>2 DEF RecordOf
  <2> QED
    BY <2>3 DEF Types
<1>4. \A T \in SUBSET LineTypes : Types(s) \cap T # {} <=> \E l \in LineSet : l.type \in T
  BY <1>2
<1> QED
  BY <1>2, <1>3, <1>4 DEF s

------------------------------------------------------------------------------
(* The row of a stage.                                                     *)

RowFields == {"pid", "lifecycle", "exit", "signal"}

LEMMA ReducedIs ==
  ASSUME NEW view, DOMAIN view = RowFields, NEW e
  PROVE  LET r == Reduced(view, e)
         IN  /\ DOMAIN r = RowFields
             /\ e.type = "process.started" => r.lifecycle = "INCOMPLETE" /\ r.exit = view.exit
             /\ e.type = "signal.received" => r.lifecycle = "SIGNALED" /\ r.exit = view.exit
             /\ e.type = "process.exited" => r.lifecycle = "COMPLETED" /\ r.exit = e.exit
             /\ e.type \notin RowLines \cup {"process.exec_error", "process.wait_failed"} => r = view
<1>1. CASE e.type = "process.started"
  <2>1. Reduced(view, e) = [view EXCEPT !.pid = e.pid, !.lifecycle = "INCOMPLETE"]
    BY <1>1 DEF Reduced
  <2> QED
    BY <1>1, <2>1 DEF RowLines, RowFields
<1>2. CASE e.type = "process.exited"
  <2>1. Reduced(view, e) = [pid |-> e.pid, lifecycle |-> "COMPLETED", exit |-> e.exit, signal |-> FALSE]
    BY <1>2 DEF Reduced
  <2> QED
    BY <1>2, <2>1 DEF RowLines, RowFields
<1>3. CASE e.type = "signal.received"
  <2>1. Reduced(view, e) = [view EXCEPT !.lifecycle = "SIGNALED", !.signal = TRUE]
    BY <1>3 DEF Reduced
  <2> QED
    BY <1>3, <2>1 DEF RowLines, RowFields
<1>4. CASE e.type \in {"process.exec_error", "process.wait_failed"}
  <2>1. Reduced(view, e) = [view EXCEPT !.lifecycle = "SIGNALED"]
    BY <1>4 DEF Reduced
  <2> QED
    BY <1>4, <2>1 DEF RowLines, RowFields
<1>5. CASE e.type \notin RowLines \cup {"process.exec_error", "process.wait_failed"}
  <2>1. Reduced(view, e) = view
    BY <1>5 DEF Reduced, RowLines
  <2> QED
    BY <1>5, <2>1 DEF RowLines
<1> QED
  BY <1>1, <1>2, <1>3, <1>4, <1>5 DEF RowLines

LifecycleOf(type) ==
  CASE type = "process.started" -> "INCOMPLETE"
    [] type = "signal.received" -> "SIGNALED"
    [] OTHER                    -> "COMPLETED"

(* What the row r says after the first k events of s: nothing, or what the *)
(* last of those that change it says, with the exit code of an exit.       *)
RowEvents(s, i, k) == {j \in 1 .. k : s[j].stage = i /\ s[j].type \in RowLines}

RowSays(s, i, k, r) ==
  /\ DOMAIN r = RowFields
  /\ RowEvents(s, i, k) = {} => r = NotStarted
  /\ RowEvents(s, i, k) # {} =>
       \E j \in RowEvents(s, i, k) :
         /\ \A h \in RowEvents(s, i, k) : h <= j
         /\ r.lifecycle = LifecycleOf(s[j].type)
         /\ s[j].type = "process.exited" => r.exit = s[j].exit
  /\ r.exit = "zero" => \E j \in RowEvents(s, i, k) : s[j].type = "process.exited" /\ s[j].exit = "zero"

LEMMA RowStep ==
  ASSUME NEW s, NEW i, NEW k \in Nat, NEW r, RowSays(s, i, k, r),
         s[k + 1].stage = i => s[k + 1].type \notin {"process.exec_error", "process.wait_failed"}
  PROVE  RowSays(s, i, k + 1, IF s[k + 1].stage = i THEN Reduced(r, s[k + 1]) ELSE r)
<1> DEFINE e == s[k + 1]
           D == RowEvents(s, i, k)
           new == RowEvents(s, i, k + 1)
<1>1. \A j \in 1 .. k + 1 : j \in 1 .. k \/ j = k + 1
  OBVIOUS
<1>2. k + 1 \in 1 .. k + 1 /\ \A j \in 1 .. k : j \in 1 .. k + 1 /\ j <= k + 1
  OBVIOUS
<1>3. CASE ~(e.stage = i /\ e.type \in RowLines)
  <2>1. new = D
    BY <1>1, <1>2, <1>3 DEF RowEvents
  <2>2. e.stage = i => Reduced(r, e) = r
    BY <1>3, ReducedIs DEF RowSays
  <2> QED
    BY <2>1, <2>2 DEF RowSays
<1>4. CASE e.stage = i /\ e.type \in RowLines
  <2>1. new = D \cup {k + 1} /\ \A h \in new : h <= k + 1
    BY <1>1, <1>2, <1>4 DEF RowEvents
  <2> DEFINE r2 == Reduced(r, e)
  <2>2. /\ DOMAIN r2 = RowFields
        /\ e.type = "process.started" => r2.lifecycle = "INCOMPLETE" /\ r2.exit = r.exit
        /\ e.type = "signal.received" => r2.lifecycle = "SIGNALED" /\ r2.exit = r.exit
        /\ e.type = "process.exited" => r2.lifecycle = "COMPLETED" /\ r2.exit = e.exit
    <3>1. DOMAIN r = RowFields
      BY DEF RowSays
    <3> HIDE DEF e
    <3> QED
      BY <3>1, ReducedIs, Zenon
  <2> HIDE DEF r2
  <2>3. r2.lifecycle = LifecycleOf(e.type) /\ (e.type = "process.exited" => r2.exit = e.exit)
    BY <1>4, <2>2 DEF RowLines, LifecycleOf
  <2>4. r2.exit = "zero" => \E j \in new : s[j].type = "process.exited" /\ s[j].exit = "zero"
    <3>1. CASE e.type = "process.exited"
      BY <2>1, <2>2, <3>1
    <3>2. CASE e.type # "process.exited"
      BY <1>4, <2>1, <2>2, <3>2 DEF RowLines, RowSays
    <3> QED
      BY <3>1, <3>2
  <2>5. k + 1 \in new
    BY <2>1
  <2>6. RowSays(s, i, k + 1, r2)
    BY <2>1, <2>2, <2>3, <2>4, <2>5 DEF RowSays
  <2> QED
    BY <1>4, <2>6 DEF r2
<1> QED
  BY <1>3, <1>4

LEMMA RowAtEnd ==
  ASSUME NEW s, Len(s) \in Nat, NEW i,
         \A k \in 1 .. Len(s) : s[k].stage = i => s[k].type \notin {"process.exec_error", "process.wait_failed"}
  PROVE  RowSays(s, i, Len(s), StageRow(s, i))
<1> DEFINE m == Len(s)
           row == RowAfter(s, i)
           T == {k \in Nat : k <= m => RowSays(s, i, k, row[k])}
<1>1. /\ row[0] = NotStarted
      /\ \A k \in 1 .. m : row[k] = IF s[k].stage = i THEN Reduced(row[k - 1], s[k]) ELSE row[k - 1]
  BY RowSteps
<1> HIDE DEF row
<1>2. 0 \in T
  <2>1. RowEvents(s, i, 0) = {}
    BY DEF RowEvents
  <2>2. DOMAIN NotStarted = RowFields /\ NotStarted.exit # "zero"
    BY DEF NotStarted, RowFields
  <2> QED
    BY <1>1, <2>1, <2>2 DEF RowSays
<1>3. ASSUME NEW k \in T PROVE k + 1 \in T
  <2> SUFFICES ASSUME k + 1 <= m PROVE RowSays(s, i, k + 1, row[k + 1])
    OBVIOUS
  <2>1. k \in Nat /\ k + 1 \in 1 .. m /\ (k + 1) - 1 = k /\ RowSays(s, i, k, row[k])
    BY <1>3
  <2>2. row[k + 1] = IF s[k + 1].stage = i THEN Reduced(row[k], s[k + 1]) ELSE row[k]
    BY <1>1, <2>1
  <2> QED
    BY <2>1, <2>2, RowStep
<1>4. T = Nat
  <2>1. T \in SUBSET Nat
    OBVIOUS
  <2> HIDE DEF T
  <2> QED
    BY <1>2, <1>3, <2>1, Reached
<1>5. RowSays(s, i, m, row[m])
  BY <1>4
<1> QED
  BY <1>5 DEF StageRow, row

(* In terms of the lines: a row is empty without any, and what an exit of  *)
(* its stage says once there is one.                                       *)
RowLine(l, i) == l.stage = i /\ l.type \in RowLines

RowFacts(row, i) ==
  /\ (\A l \in LineSet : ~RowLine(l, i)) => row = NotStarted
  /\ (\E l \in LineSet : RowLine(l, i)) => row.lifecycle \in {"INCOMPLETE", "SIGNALED", "COMPLETED"}
  /\ \A l \in LineSet : l.type = "process.exited" /\ l.stage = i =>
       row.lifecycle = "COMPLETED" /\ row.exit = Exit(l)
  /\ row.lifecycle = "COMPLETED" => \E l \in LineSet : l.type = "process.exited" /\ l.stage = i
  /\ row.lifecycle = "INCOMPLETE" => \E l \in LineSet : l.type = "process.started" /\ l.stage = i
  /\ row.exit = "zero" => \E l \in LineSet : l.type = "process.exited" /\ l.stage = i /\ Exit(l) = "zero"

LEMMA RowOf ==
  ASSUME TypeOK, ShownInv, NEW i \in 0 .. n - 1
  PROVE  RowFacts(StageRow(Record, i), i)
<1> DEFINE s == Record
           m == Len(s)
           D == RowEvents(s, i, m)
           row == StageRow(s, i)
<1>1. Holds(s) /\ m \in Nat /\ DOMAIN s = 1 .. m
  BY RecordHolds DEF Holds
<1> HIDE DEF s
<1>2. i \in Nat /\ i # -1 /\ i # Engine
  BY DEF TypeOK, Engine
<1>3. lines \in Seq(StageLines) /\ Len(lines) \in Nat /\ DOMAIN lines = 1 .. Len(lines)
  BY DEF TypeOK
<1>4. ASSUME NEW k \in 1 .. m, s[k].stage = i
      PROVE  /\ k - 2 \in DOMAIN lines /\ Recorded(s[k], lines[k - 2]) /\ lines[k - 2] \in LineSet
             /\ lines[k - 2].stage = i
  BY <1>1, <1>2, <1>4 DEF Holds, OfGateway, Recorded, LineSet
<1>5. ASSUME NEW k \in 1 .. m, s[k].stage = i PROVE s[k].type \notin {"process.exec_error", "process.wait_failed"}
  <2>1. Shown(lines[k - 2]) /\ lines[k - 2].stage = i /\ s[k].type = lines[k - 2].type
    BY <1>4, <1>5 DEF ShownInv, Recorded
  <2> QED
    BY <1>2, <2>1 DEF Shown
<1>6. RowSays(s, i, m, row)
  BY <1>1, <1>5, RowAtEnd
<1>7. ASSUME NEW k \in D
      PROVE  /\ k - 2 \in DOMAIN lines /\ lines[k - 2] \in LineSet /\ RowLine(lines[k - 2], i) /\ k \in Nat
             /\ s[k].type = lines[k - 2].type /\ s[k].exit = Exit(lines[k - 2])
  <2>1. k \in 1 .. m /\ s[k].stage = i /\ s[k].type \in RowLines
    BY DEF RowEvents
  <2> QED
    BY <1>1, <1>4, <2>1 DEF Recorded, RowLine
<1>8. ASSUME NEW l \in LineSet, RowLine(l, i)
      PROVE  \E p \in DOMAIN lines : l = lines[p] /\ p + 2 \in D /\ s[p + 2].type = l.type /\ s[p + 2].exit = Exit(l)
  <2>1. PICK p \in DOMAIN lines : l = lines[p]
    BY DEF LineSet
  <2>2. p + 2 \in DOMAIN s /\ Recorded(s[p + 2], l)
    BY <1>1, <2>1 DEF Holds
  <2> QED
    BY <1>1, <1>8, <2>1, <2>2 DEF RowLine, Recorded, RowEvents
<1> HIDE DEF D, row, m
<1>9. /\ D = {} => row = NotStarted
      /\ D # {} => \E j \in D : /\ \A h \in D : h <= j
                                /\ row.lifecycle = LifecycleOf(s[j].type)
                                /\ s[j].type = "process.exited" => row.exit = s[j].exit
      /\ row.exit = "zero" => \E j \in D : s[j].type = "process.exited" /\ s[j].exit = "zero"
  BY <1>6 DEF RowSays, D
<1>10. (\A l \in LineSet : ~RowLine(l, i)) => row = NotStarted
  BY <1>7, <1>9
<1>11. ASSUME NEW j \in D, row.lifecycle = LifecycleOf(s[j].type)
       PROVE  /\ row.lifecycle \in {"INCOMPLETE", "SIGNALED", "COMPLETED"}
              /\ row.lifecycle = "COMPLETED" => s[j].type = "process.exited"
              /\ row.lifecycle = "INCOMPLETE" => s[j].type = "process.started"
  <2>1. s[j].type \in RowLines
    BY <1>7 DEF RowLine
  <2> QED
    BY <1>11, <2>1 DEF RowLines, LifecycleOf
<1>12. (\E l \in LineSet : RowLine(l, i)) => row.lifecycle \in {"INCOMPLETE", "SIGNALED", "COMPLETED"}
  BY <1>8, <1>9, <1>11
<1>13. ASSUME NEW l \in LineSet, l.type = "process.exited", l.stage = i
       PROVE  row.lifecycle = "COMPLETED" /\ row.exit = Exit(l)
  <2>1. RowLine(l, i)
    BY <1>13 DEF RowLine, RowLines
  <2>2. PICK p \in DOMAIN lines : l = lines[p] /\ p + 2 \in D /\ s[p + 2].type = l.type /\ s[p + 2].exit = Exit(l)
    BY <1>8, <2>1
  <2>3. PICK j \in D : /\ \A h \in D : h <= j
                       /\ row.lifecycle = LifecycleOf(s[j].type)
                       /\ s[j].type = "process.exited" => row.exit = s[j].exit
    BY <1>9, <2>2
  <2>4. p + 2 <= j
    BY <2>2, <2>3
  <2>5. j - 2 <= p
    BY <1>7, <1>13, <2>2 DEF ShownInv, ExitIsLast, RowLine
  <2>6. j = p + 2
    BY <1>3, <1>7, <2>4, <2>5
  <2> QED
    BY <1>13, <2>2, <2>3, <2>6 DEF LifecycleOf
<1>14. row.lifecycle = "COMPLETED" => \E l \in LineSet : l.type = "process.exited" /\ l.stage = i
  <2> SUFFICES ASSUME row.lifecycle = "COMPLETED" PROVE \E l \in LineSet : l.type = "process.exited" /\ l.stage = i
    OBVIOUS
  <2>1. D # {}
    BY <1>9 DEF NotStarted
  <2>2. PICK j \in D : row.lifecycle = LifecycleOf(s[j].type)
    BY <1>9, <2>1
  <2> QED
    BY <1>7, <1>11, <2>2 DEF RowLine
<1>15. row.lifecycle = "INCOMPLETE" => \E l \in LineSet : l.type = "process.started" /\ l.stage = i
  <2> SUFFICES ASSUME row.lifecycle = "INCOMPLETE" PROVE \E l \in LineSet : l.type = "process.started" /\ l.stage = i
    OBVIOUS
  <2>1. D # {}
    BY <1>9 DEF NotStarted
  <2>2. PICK j \in D : row.lifecycle = LifecycleOf(s[j].type)
    BY <1>9, <2>1
  <2> QED
    BY <1>7, <1>11, <2>2 DEF RowLine
<1>16. row.exit = "zero" => \E l \in LineSet : l.type = "process.exited" /\ l.stage = i /\ Exit(l) = "zero"
  BY <1>7, <1>9 DEF RowLine
<1> QED
  BY <1>10, <1>12, <1>13, <1>14, <1>15, <1>16 DEF RowFacts, row, s

(* What the lines say of a stage, and what its place in the line says.     *)
LEMMA StageFacts ==
  ASSUME TypeOK, TruthInv, OutcomeInv, RecordInv, ShownInv, NEW i \in 0 .. n - 1
  PROVE  /\ i \in Stages /\ i # Engine
         /\ Launched(i) <=> \E l \in LineSet : l.type = "process.started" /\ l.stage = i
         /\ \A l \in LineSet : l.type = "process.exited" /\ l.stage = i =>
              /\ Exit(l) = "zero" <=> child[i] = "ok"
              /\ \/ ~Launched(i) /\ launchFailed /\ l.proc = Engine
                 \/ Launched(i) /\ Ended(i) /\ status[i] # "unknown" /\ i \notin execFailed /\ l.proc = i
<1>1. i \in Stages /\ i # Engine
  <2>1. n \in 1 .. MaxStages /\ MaxStages \in Nat
    BY StagesAssumption DEF TypeOK
  <2> QED
    BY <2>1 DEF Stages, Engine
<1>2. Launched(i) <=> \E l \in LineSet : l.type = "process.started" /\ l.stage = i
  <2>1. Launched(i) => \E l \in LineSet : l.type = "process.started" /\ l.proc = i
    BY <1>1 DEF RecordInv, OneStart
  <2>2. \A l \in LineSet : l.type = "process.started" => l.stage = l.proc /\ Launched(l.proc)
    BY DEF RecordInv, Positioned
  <2> QED
    BY <2>1, <2>2
<1>3. ASSUME NEW l \in LineSet, l.type = "process.exited", l.stage = i
      PROVE  /\ Exit(l) = "zero" <=> child[i] = "ok"
             /\ \/ ~Launched(i) /\ launchFailed /\ l.proc = Engine
                \/ Launched(i) /\ Ended(i) /\ status[i] # "unknown" /\ i \notin execFailed /\ l.proc = i
  <2>1. Positioned(l) /\ Shown(l) /\ WellFormed(l)
    BY DEF RecordInv, ShownInv, OutcomeInv
  <2>2. Exit(l) = "zero" <=> l.outcome = "COMPLETED"
    BY <1>3 DEF Exit
  <2>3. CASE l.proc = Engine /\ ~Launched(i)
    <3>1. launchFailed /\ l.outcome = "LAUNCH_FAILED"
      BY <1>1, <1>3, <2>1, <2>3, EngineIsNoStage DEF Shown, WellFormed, ExitOfStage, ExitOfNone
    <3> QED
      BY <2>2, <2>3, <3>1 DEF Launched
  <2>4. CASE l.proc = i
    <3>1. /\ l.outcome = "COMPLETED" => child[i] = "ok"
          /\ l.outcome = "EXITED" => child[i] = "failed"
          /\ l.outcome \notin {"COMPLETED", "EXITED"} => child[i] = "signaled"
      BY <1>1, <1>3, <2>4 DEF TruthInv, Truthful
    <3>2. status[i] # "unknown" /\ i \notin execFailed
      BY <1>1, <1>3, <2>1, <2>4 DEF Shown
    <3> QED
      BY <2>2, <2>4, <3>1, <3>2 DEF Launched, Ended
  <2> QED
    BY <1>1, <1>3, <2>1, <2>3, <2>4 DEF Positioned
<1> QED
  BY <1>1, <1>2, <1>3

(* A stage that was launched has its ending when the engine returns; of a  *)
(* pipeline that wrote anything, every stage has.                          *)
LEMMA EndingFacts ==
  ASSUME TypeOK, TruthInv, OutcomeInv, AccountInv, RecordInv, ShownInv, at = "returned"
  PROVE  /\ \A i \in Stages : Launched(i) =>
              \E l \in LineSet : /\ l.type \in Endings /\ l.proc = i
                                 /\ l.type = "process.exited" => l.stage = i
         /\ n > 1 /\ lines # <<>> => \A i \in 0 .. n - 1 : ~Launched(i) =>
              \E l \in LineSet : l.type = "process.exited" /\ l.stage = i
<1>1. ASSUME NEW i \in 0 .. n - 1, Settled(n)
      PROVE  \E l \in LineSet : /\ l.type \in Endings /\ Positioned(l)
                                /\ IF Launched(i) THEN l.proc = i ELSE l.proc = Engine /\ l.stage = i
  <2>1. PICK p \in Nat : EndingsOf(i) = {p}
    BY <1>1 DEF Settled
  <2>2. p \in EndingsOf(i)
    BY <2>1
  <2> QED
    BY <2>2 DEF EndingsOf, LineSet, RecordInv
<1>2. ASSUME NEW i \in Stages, Launched(i)
      PROVE  \E l \in LineSet : /\ l.type \in Endings /\ l.proc = i
                                /\ l.type = "process.exited" => l.stage = i
  <2>1. i \in 0 .. n - 1 /\ Settled(n)
    <3>1. i < n /\ n \in Nat /\ i \in Nat
      BY <1>2 DEF OutcomeInv, FirstStages, TypeOK, Stages
    <3> QED
      BY <1>2, <3>1 DEF ShownInv, AtEnd
  <2>2. PICK l \in LineSet : l.type \in Endings /\ Positioned(l) /\ l.proc = i
    BY <1>1, <1>2, <2>1
  <2> QED
    BY <2>2, EngineIsNoStage DEF Positioned
<1>3. ASSUME n > 1, lines # <<>>, NEW i \in 0 .. n - 1, ~Launched(i)
      PROVE  \E l \in LineSet : l.type = "process.exited" /\ l.stage = i
  <2>1. Settled(n)
    BY <1>3 DEF RecordInv, Returned, AccountInv, LineSet
  <2>2. PICK l \in LineSet : l.type \in Endings /\ Positioned(l) /\ l.proc = Engine /\ l.stage = i
    BY <1>1, <1>3, <2>1
  <2> QED
    BY <2>2, EngineIsNoStage DEF Positioned, Endings
<1> QED
  BY <1>2, <1>3

(* What the rows of the table are, and what the engine declared.           *)
LEMMA RowsAre ==
  ASSUME TypeOK, RecordInv
  PROVE  /\ DeclaredStages(Record) \in {0, n} /\ Rows(Record) \subseteq 0 .. n - 1
         /\ (\E l \in LineSet : l.stages = n) => DeclaredStages(Record) = n /\ Rows(Record) = 0 .. n - 1
         /\ \A l \in LineSet : l.stage >= 0 => l.stage \in Rows(Record)
         /\ Rows(Record) # {} => lines # <<>>
<1> DEFINE s == Record
           C == {0} \cup {s[k].stages : k \in DOMAIN s}
           Top(d) == \A k \in DOMAIN s : s[k].stages <= d
           d == DeclaredStages(s)
<1>1. Holds(s)
  BY RecordHolds
<1> HIDE DEF s
<1>2. n \in Nat /\ n > 0 /\ n - 1 \in Int
  BY DEF TypeOK
<1>3. \A l \in LineSet : l.stages \in {0, n} /\ l.stage \in -1 .. n - 1
  BY DEF RecordInv, Positioned
<1>4. ASSUME NEW k \in DOMAIN s
      PROVE  /\ s[k].stages \in {0, n} /\ s[k].stage \in -1 .. n - 1
             /\ s[k].stages # 0 \/ s[k].stage # -1 => lines # <<>>
  <2>1. CASE OfGateway(s[k])
    BY <1>2, <2>1 DEF OfGateway
  <2>2. CASE k - 2 \in DOMAIN lines /\ Recorded(s[k], lines[k - 2])
    <3>1. lines[k - 2] \in LineSet /\ s[k].stages = lines[k - 2].stages /\ s[k].stage = lines[k - 2].stage
      BY <2>2 DEF LineSet, Recorded
    <3> QED
      BY <1>3, <2>2, <3>1
  <2> QED
    BY <1>1, <2>1, <2>2 DEF Holds
<1>5. d \in C /\ Top(d)
  <2>1. \E c \in C : Top(c)
    <3>1. CASE n \in C
      BY <1>2, <1>4, <3>1
    <3>2. CASE n \notin C
      BY <1>2, <1>4, <3>2
    <3> QED
      BY <3>1, <3>2
  <2>2. d = CHOOSE c \in C : Top(c)
    BY DEF DeclaredStages
  <2> HIDE DEF d, C, Top
  <2> QED
    BY <2>1, <2>2
<1>6. d \in {0, n} /\ (d # 0 => lines # <<>>)
  BY <1>2, <1>4, <1>5
<1>7. Rows(s) = {i \in {s[k].stage : k \in DOMAIN s} : i >= 0} \cup 0 .. d - 1
  BY DEF Rows
<1> HIDE DEF d
<1>8. Rows(s) \subseteq 0 .. n - 1
  BY <1>2, <1>4, <1>6, <1>7
<1>9. ASSUME NEW l \in LineSet
      PROVE  (l.stages = n => d = n) /\ (l.stage >= 0 => l.stage \in Rows(s))
  <2>1. PICK p \in DOMAIN lines : l = lines[p]
    BY DEF LineSet
  <2>2. p + 2 \in DOMAIN s /\ s[p + 2].stages = l.stages /\ s[p + 2].stage = l.stage
    BY <1>1, <2>1 DEF Holds, Recorded
  <2>3. l.stages = n => d = n
    BY <1>2, <1>5, <1>6, <2>2
  <2> QED
    BY <1>7, <2>2, <2>3
<1>10. d = n => Rows(s) = 0 .. n - 1
  BY <1>7, <1>8
<1>11. Rows(s) # {} => lines # <<>>
  <2> SUFFICES ASSUME NEW i \in Rows(s) PROVE lines # <<>>
    OBVIOUS
  <2>1. CASE i \in 0 .. d - 1
    BY <1>2, <1>6, <2>1
  <2>2. CASE \E k \in DOMAIN s : s[k].stage = i /\ i >= 0
    BY <1>4, <2>2
  <2> QED
    BY <1>7, <2>1, <2>2
<1> QED
  BY <1>6, <1>8, <1>9, <1>10, <1>11 DEF d, s

(* The table, row by row.                                                  *)
LEMMA TableIsTrue ==
  ASSUME TypeOK, TruthInv, OutcomeInv, AccountInv, RecordInv, ShownInv, NEW i \in 0 .. n - 1
  PROVE  LET row == StageRow(Record, i)
         IN  /\ row.lifecycle = "NOT_STARTED" => ~Launched(i)
             /\ row.lifecycle = "INCOMPLETE" =>
                  Launched(i) /\ (at = "returned" => i \in execFailed \/ status[i] = "unknown")
             /\ row.lifecycle = "COMPLETED" => ~Launched(i) \/ (Ended(i) /\ status[i] # "unknown")
             /\ row.lifecycle = "COMPLETED" /\ ~launchFailed => Ended(i) /\ status[i] # "unknown"
             /\ row.exit = "zero" <=> row.lifecycle = "COMPLETED" /\ child[i] = "ok"
             /\ row.exit = "zero" => status[i] = "zero"
             /\ Launched(i) \/ (at = "returned" /\ n > 1 /\ lines # <<>>) =>
                  row # NotStarted /\ i \in Rows(Record)
<1> DEFINE row == StageRow(Record, i)
<1>1. RowFacts(row, i)
  BY RowOf
<1> HIDE DEF row
<1>2. /\ i \in Stages /\ i # Engine /\ i >= 0
      /\ Launched(i) <=> \E l \in LineSet : l.type = "process.started" /\ l.stage = i
      /\ \A l \in LineSet : l.type = "process.exited" /\ l.stage = i =>
           /\ Exit(l) = "zero" <=> child[i] = "ok"
           /\ \/ ~Launched(i) /\ launchFailed /\ l.proc = Engine
              \/ Launched(i) /\ Ended(i) /\ status[i] # "unknown" /\ i \notin execFailed /\ l.proc = i
  BY StageFacts DEF TypeOK
<1>3. \A l \in LineSet : l.stage = i /\ l.type \in {"process.started", "process.exited"} => RowLine(l, i)
  BY DEF RowLine, RowLines
<1>4. row.lifecycle = "NOT_STARTED" => ~Launched(i)
  BY <1>1, <1>2, <1>3 DEF RowFacts
<1>5. ASSUME row.lifecycle = "INCOMPLETE"
      PROVE  Launched(i) /\ (at = "returned" => i \in execFailed \/ status[i] = "unknown")
  <2>1. Launched(i)
    BY <1>1, <1>2, <1>5 DEF RowFacts
  <2>2. ASSUME at = "returned" PROVE i \in execFailed \/ status[i] = "unknown"
    <3>1. PICK l \in LineSet : l.type \in Endings /\ l.proc = i /\ (l.type = "process.exited" => l.stage = i)
      BY <1>2, <2>1, <2>2, EndingFacts
    <3>2. l.type # "process.exited"
      BY <1>1, <1>5, <3>1 DEF RowFacts
    <3>3. Positioned(l)
      BY DEF RecordInv
    <3> QED
      BY <3>1, <3>2, <3>3 DEF Positioned, Endings
  <2> QED
    BY <2>1, <2>2
<1>6. ASSUME row.lifecycle = "COMPLETED"
      PROVE  (~Launched(i) /\ launchFailed) \/ (Ended(i) /\ status[i] # "unknown")
  BY <1>1, <1>2, <1>6 DEF RowFacts
<1>7. row.exit = "zero" <=> row.lifecycle = "COMPLETED" /\ child[i] = "ok"
  BY <1>1, <1>2 DEF RowFacts
<1>8. ASSUME row.exit = "zero" PROVE status[i] = "zero"
  <2>1. PICK l \in LineSet : l.type = "process.exited" /\ l.stage = i /\ Exit(l) = "zero"
    BY <1>1, <1>8 DEF RowFacts
  <2>2. l.outcome = "COMPLETED" /\ Backed(l)
    BY <2>1 DEF Exit, OutcomeInv
  <2>3. l.proc \in Stages /\ status[l.proc] = "zero"
    BY <2>1, <2>2 DEF Backed
  <2> QED
    BY <1>2, <2>1, <2>3, EngineIsNoStage
<1>9. ASSUME Launched(i) \/ (at = "returned" /\ n > 1 /\ lines # <<>>)
      PROVE  row # NotStarted /\ i \in Rows(Record)
  <2>1. \E l \in LineSet : l.stage = i /\ l.type \in {"process.started", "process.exited"}
    BY <1>2, <1>9, EndingFacts
  <2>2. row # NotStarted
    BY <1>1, <1>3, <2>1 DEF RowFacts, NotStarted
  <2>3. i \in Rows(Record)
    BY <1>2, <2>1, RowsAre
  <2> QED
    BY <2>2, <2>3
<1> QED
  BY <1>4, <1>5, <1>6, <1>7, <1>8, <1>9 DEF row

(* The table as a whole.                                                   *)
LEMMA SummaryIsTrue ==
  ASSUME TypeOK, TruthInv, OutcomeInv, AccountInv, RecordInv, ShownInv
  PROVE  /\ at = "returned" /\ n > 1 /\ lines # <<>> =>
              WithEvidence(Record) = 0 .. n - 1 /\ ~Summarised(Record).short
         /\ Summarised(Record).short => \E i \in 0 .. n - 1 : ~Launched(i)
         /\ Summarised(Record).count["COMPLETED"] = n /\ ~launchFailed =>
              \A i \in 0 .. n - 1 : Ended(i) /\ status[i] # "unknown"
         /\ at = "returned" /\ PipelineExit(Record) = "zero" =>
              child[n - 1] = "ok" /\ (launchFailed \/ result = "zero")
<1> DEFINE s == Record
           all == 0 .. n - 1
           done == {i \in Rows(s) : StageRow(s, i).lifecycle = "COMPLETED"}
<1>1. n \in Nat /\ n > 0 /\ n - 1 \in all
  BY DEF TypeOK
<1>2. IsFiniteSet(all) /\ Cardinality(all) = n
  BY <1>1, FS_Interval
<1>3. /\ DeclaredStages(s) \in {0, n} /\ Rows(s) \subseteq all
      /\ (\E l \in LineSet : l.stages = n) => Rows(s) = all
      /\ Rows(s) # {} => lines # <<>>
  BY RowsAre
<1>4. \A i \in all : Launched(i) \/ (at = "returned" /\ n > 1 /\ lines # <<>>) =>
        StageRow(s, i) # NotStarted /\ i \in Rows(s)
  BY TableIsTrue
<1>5. Summarised(s).short <=> Cardinality(WithEvidence(s)) < DeclaredStages(s)
  BY DEF Summarised
<1>6. Summarised(s).count["COMPLETED"] = Cardinality(done)
  BY DEF Summarised
<1> HIDE DEF s
<1>7. ASSUME \A i \in all : Launched(i) \/ (at = "returned" /\ n > 1 /\ lines # <<>>)
      PROVE  WithEvidence(s) = all /\ ~Summarised(s).short
  <2>1. WithEvidence(s) = all
    BY <1>3, <1>4, <1>7 DEF WithEvidence
  <2> QED
    BY <1>1, <1>2, <1>3, <1>5, <2>1
<1>8. ASSUME Summarised(s).count["COMPLETED"] = n, ~launchFailed
      PROVE  \A i \in all : Ended(i) /\ status[i] # "unknown"
  <2>1. done \in SUBSET all
    BY <1>3
  <2>2. done = all
    <3> HIDE DEF done, all
    <3> QED
      BY <1>2, <1>6, <1>8, <2>1, FS_Subset, Zenon
  <2>3. \A i \in all : StageRow(s, i).lifecycle = "COMPLETED"
    BY <2>2
  <2> QED
    BY <1>8, <2>3, TableIsTrue DEF s
<1>9. ASSUME at = "returned", PipelineExit(s) = "zero"
      PROVE  child[n - 1] = "ok" /\ (launchFailed \/ result = "zero")
  <2>1. Rows(s) # {}
    BY <1>9 DEF PipelineExit
  <2>2. n - 1 \in Rows(s)
    <3>1. CASE n = 1
      BY <1>3, <2>1, <3>1
    <3>2. CASE n > 1
      BY <1>1, <1>3, <1>4, <1>9, <2>1, <3>2
    <3> QED
      BY <1>1, <3>1, <3>2
  <2>3. \A j \in Rows(s) : j <= n - 1
    BY <1>1, <1>3
  <2> DEFINE last == CHOOSE i \in Rows(s) : \A j \in Rows(s) : j <= i
  <2>4. last = n - 1
    <3>1. last \in Rows(s) /\ \A j \in Rows(s) : j <= last
      BY <2>2, <2>3
    <3> HIDE DEF last
    <3> QED
      BY <1>1, <1>3, <2>2, <2>3, <3>1
  <2>5. StageRow(s, n - 1).exit = "zero"
    BY <1>9, <2>1, <2>4 DEF PipelineExit
  <2>6. child[n - 1] = "ok" /\ status[n - 1] = "zero"
    BY <1>1, <2>5, TableIsTrue DEF s
  <2> QED
    BY <1>9, <2>6 DEF OutcomeInv, AtReturn
<1>10. ASSUME Summarised(s).short PROVE \E i \in all : ~Launched(i)
  BY <1>7, <1>10
<1> QED
  BY <1>7, <1>8, <1>9, <1>10 DEF s

------------------------------------------------------------------------------
(* The first of some types that a stream has.                              *)
LEMMA FirstIs ==
  ASSUME NEW s, NEW types, NEW m \in Nat, DOMAIN types = 1 .. m
  PROVE  \/ FirstPresent(s, types) = "unavailable" /\ \A k \in 1 .. m : types[k] \notin Types(s)
         \/ \E k \in 1 .. m : /\ FirstPresent(s, types) = types[k] /\ types[k] \in Types(s)
                              /\ \A j \in 1 .. m : j < k => types[j] \notin Types(s)
<1> DEFINE found == {k \in DOMAIN types : types[k] \in Types(s)}
           First(k) == \A j \in found : k <= j
<1>1. FirstPresent(s, types) = IF found = {} THEN "unavailable" ELSE types[CHOOSE k \in found : First(k)]
  BY DEF FirstPresent
<1>2. CASE found = {}
  BY <1>1, <1>2
<1>3. CASE found # {}
  <2>1. found \subseteq Nat
    OBVIOUS
  <2>2. \E k \in found : First(k)
    BY <1>3, <2>1, SmallestOf
  <2> DEFINE k == CHOOSE k \in found : First(k)
  <2>3. k \in found /\ First(k)
    <3> HIDE DEF found, First
    <3> QED
      BY <2>2
  <2>4. FirstPresent(s, types) = types[k]
    BY <1>1, <1>3
  <2> HIDE DEF k
  <2> QED
    BY <2>3, <2>4
<1> QED
  BY <1>2, <1>3

(* What the types of the lines say.                                        *)
LEMMA TypesSay ==
  ASSUME TypeOK, TruthInv, OutcomeInv, AccountInv, RecordInv, ShownInv
  PROVE  LET types == Types(Record)
         IN  /\ "process.exec_error" \in types => execFailed # {} /\ (n = 1 => child[0] # "ok")
             /\ "process.wait_failed" \in types => \E i \in Stages : Ended(i) /\ status[i] = "unknown"
             /\ types \cap {"process.launch_failed", "redirection.failed"} # {} => launchFailed
             /\ "process.exited" \in types => launchFailed \/ \E i \in Stages : Ended(i)
             /\ "process.started" \in types <=> \E i \in Stages : Launched(i)
             /\ at = "returned" /\ types \cap {"process.exec_error", "process.wait_failed"} = {} =>
                  execFailed = {} /\ \A i \in Stages : Ended(i) => status[i] # "unknown"
             /\ at = "returned" /\ "process.exited" \notin types =>
                  \A i \in Stages : Ended(i) => status[i] = "unknown" \/ i \in execFailed
             /\ at = "returned" /\ types \cap Endings = {} => \A i \in Stages : ~Ended(i)
<1> DEFINE types == Types(Record)
           Said == {"process.exec_error", "process.wait_failed", "process.launch_failed", "redirection.failed",
                    "process.exited", "process.started"}
<1>1. \A x \in Said : x \in types <=> \E l \in LineSet : l.type = x
  <2>1. Said \subseteq LineTypes
    BY DEF LineTypes, EngineEvents
  <2> HIDE DEF Said
  <2> QED
    BY <2>1, TypesAre
<1> HIDE DEF types
<1>2. \A l \in LineSet : Shown(l) /\ Positioned(l) /\ (l.proc \in Stages => Truthful(l)) /\ WellFormed(l)
  BY DEF ShownInv, RecordInv, TruthInv, OutcomeInv
<1>3. \A i \in Stages : (Ended(i) => Launched(i)) /\ (Launched(i) => i \in 0 .. n - 1)
  <2> TAKE i \in Stages
  <2>1. i \in Nat /\ n \in Nat
    BY DEF Stages, TypeOK
  <2> QED
    BY <2>1 DEF Ended, Launched, OutcomeInv, FirstStages
<1>4. ASSUME at = "returned", NEW i \in Stages, Launched(i)
      PROVE  \/ "process.exited" \in types /\ status[i] # "unknown" /\ i \notin execFailed
             \/ "process.exec_error" \in types /\ i \in execFailed
             \/ "process.wait_failed" \in types /\ status[i] = "unknown"
  <2>1. PICK l \in LineSet : l.type \in Endings /\ l.proc = i
    BY <1>4, EndingFacts
  <2>2. Shown(l) /\ Positioned(l)
    BY <1>2
  <2> QED
    BY <1>1, <2>1, <2>2 DEF Endings, Shown, Positioned
<1>5. ASSUME "process.exec_error" \in types PROVE execFailed # {} /\ (n = 1 => child[0] # "ok")
  <2>1. PICK l \in LineSet : l.type = "process.exec_error"
    BY <1>1, <1>5
  <2>2. l.proc \in execFailed /\ l.proc \in Stages /\ child[l.proc] \in {"refused", "signaled"}
    BY <1>2, <2>1 DEF Positioned, Truthful
  <2>3. l.proc \in 0 .. n - 1
    BY <1>3, <2>2 DEF Launched
  <2> QED
    BY <2>2, <2>3
<1>6. ASSUME "process.wait_failed" \in types PROVE \E i \in Stages : Ended(i) /\ status[i] = "unknown"
  BY <1>1, <1>2, <1>6 DEF Shown, Positioned
<1>7. types \cap {"process.launch_failed", "redirection.failed"} # {} => launchFailed
  BY <1>1, <1>2 DEF Shown
<1>8. ASSUME "process.exited" \in types PROVE launchFailed \/ \E i \in Stages : Ended(i)
  <2>1. PICK l \in LineSet : l.type = "process.exited"
    BY <1>1, <1>8
  <2>2. l.proc \in Stages => child[l.proc] \in {"ok", "failed", "signaled"}
    BY <1>2, <2>1 DEF Truthful
  <2> QED
    BY <1>2, <2>1, <2>2 DEF Shown, Ended
<1>9. "process.started" \in types <=> \E i \in Stages : Launched(i)
  <2>1. \A l \in LineSet : l.type = "process.started" => l.proc \in Stages /\ Launched(l.proc)
    BY <1>2 DEF Positioned
  <2>2. \A i \in Stages : Launched(i) => \E l \in LineSet : l.type = "process.started"
    BY DEF RecordInv, OneStart
  <2> QED
    BY <1>1, <2>1, <2>2
<1>10. ASSUME at = "returned", types \cap {"process.exec_error", "process.wait_failed"} = {}
       PROVE  execFailed = {} /\ \A i \in Stages : Ended(i) => status[i] # "unknown"
  <2>1. \A i \in Stages : Launched(i) => status[i] # "unknown" /\ i \notin execFailed
    BY <1>4, <1>10
  <2>2. execFailed \subseteq errno /\ errno \subseteq Stages
    BY DEF TruthInv, TypeOK
  <2>3. \A i \in errno : Launched(i)
    BY <2>2 DEF TruthInv, ErrnoOf, Launched
  <2> QED
    BY <1>3, <2>1, <2>2, <2>3
<1>11. ASSUME at = "returned", "process.exited" \notin types
       PROVE  \A i \in Stages : Ended(i) => status[i] = "unknown" \/ i \in execFailed
  BY <1>3, <1>4, <1>11
<1>12. ASSUME at = "returned", types \cap Endings = {} PROVE \A i \in Stages : ~Ended(i)
  BY <1>3, <1>4, <1>12 DEF Endings
<1> QED
  BY <1>5, <1>6, <1>7, <1>8, <1>9, <1>10, <1>11, <1>12 DEF types

(* The report.                                                             *)
LEMMA ReportIsTrue ==
  ASSUME TypeOK, TruthInv, OutcomeInv, AccountInv, RecordInv, ShownInv
  PROVE  /\ at = "returned" /\ ReportedEnd(Record) = "unavailable" =>
              \A i \in Stages : Ended(i) => status[i] = "unknown" \/ i \in execFailed
         /\ CASE ReportedOutcome(Record) = "process.exec_error" -> execFailed # {} /\ (n = 1 => child[0] # "ok")
              [] ReportedOutcome(Record) = "process.wait_failed" -> \E i \in Stages : Ended(i) /\ status[i] = "unknown"
              [] ReportedOutcome(Record) = "process.launch_failed" -> launchFailed
              [] ReportedOutcome(Record) = "process.exited" ->
                   /\ launchFailed \/ \E i \in Stages : Ended(i)
                   /\ at = "returned" => execFailed = {} /\ \A i \in Stages : Ended(i) => status[i] # "unknown"
              [] OTHER -> at # "returned" \/ \A i \in Stages : ~Ended(i)
<1> DEFINE s == Record
           types == Types(s)
           four == <<"process.exec_error", "process.wait_failed", "process.launch_failed", "process.exited">>
           two == <<"process.exited", "signal.received">>
<1> HIDE DEF s
<1>1. /\ DOMAIN four = 1 .. 4 /\ four[1] = "process.exec_error" /\ four[2] = "process.wait_failed"
      /\ four[3] = "process.launch_failed" /\ four[4] = "process.exited"
      /\ DOMAIN two = 1 .. 2 /\ two[1] = "process.exited" /\ two[2] = "signal.received"
  OBVIOUS
<1>2. ReportedOutcome(s) = FirstPresent(s, four) /\ ReportedEnd(s) = FirstPresent(s, two)
  BY DEF ReportedOutcome, ReportedEnd
<1> HIDE DEF four, two
<1>3. ASSUME ReportedEnd(s) = "unavailable" PROVE "process.exited" \notin types
  <2>1. \/ FirstPresent(s, two) = "unavailable" /\ \A k \in 1 .. 2 : two[k] \notin types
        \/ \E k \in 1 .. 2 : FirstPresent(s, two) = two[k]
    BY <1>1, FirstIs
  <2>2. \A k \in 1 .. 2 : k = 1 \/ k = 2
    OBVIOUS
  <2> QED
    BY <1>1, <1>2, <1>3, <2>1, <2>2
<1>4. \/ /\ ReportedOutcome(s) = "unavailable"
         /\ types \cap {"process.exec_error", "process.wait_failed", "process.launch_failed", "process.exited"} = {}
      \/ ReportedOutcome(s) = "process.exec_error" /\ "process.exec_error" \in types
      \/ ReportedOutcome(s) = "process.wait_failed" /\ "process.wait_failed" \in types
      \/ ReportedOutcome(s) = "process.launch_failed" /\ "process.launch_failed" \in types
      \/ /\ ReportedOutcome(s) = "process.exited" /\ "process.exited" \in types
         /\ types \cap {"process.exec_error", "process.wait_failed"} = {}
  <2>1. \/ FirstPresent(s, four) = "unavailable" /\ \A k \in 1 .. 4 : four[k] \notin types
        \/ \E k \in 1 .. 4 : /\ FirstPresent(s, four) = four[k] /\ four[k] \in types
                             /\ \A j \in 1 .. 4 : j < k => four[j] \notin types
    BY <1>1, FirstIs
  <2>2. CASE \A k \in 1 .. 4 : four[k] \notin types
    <3>1. four[1] \notin types /\ four[2] \notin types /\ four[3] \notin types /\ four[4] \notin types
      BY <2>2
    <3>2. FirstPresent(s, four) = "unavailable"
      BY <2>1, <2>2
    <3> QED
      BY <1>1, <1>2, <3>1, <3>2
  <2>3. ASSUME NEW k \in 1 .. 4, FirstPresent(s, four) = four[k], four[k] \in types,
               \A j \in 1 .. 4 : j < k => four[j] \notin types
        PROVE  k \in {1, 2, 3} \/ (k = 4 /\ four[1] \notin types /\ four[2] \notin types)
    BY <2>3
  <2> QED
    BY <1>1, <1>2, <2>1, <2>2, <2>3
<1> DEFINE R == ReportedOutcome(s)
<1>5. R = "unavailable" => types \cap Endings = {}
  BY <1>4 DEF Endings
<1>6. /\ "process.exec_error" \in types => execFailed # {} /\ (n = 1 => child[0] # "ok")
      /\ "process.wait_failed" \in types => \E i \in Stages : Ended(i) /\ status[i] = "unknown"
      /\ types \cap {"process.launch_failed", "redirection.failed"} # {} => launchFailed
      /\ "process.exited" \in types => launchFailed \/ \E i \in Stages : Ended(i)
      /\ at = "returned" /\ types \cap {"process.exec_error", "process.wait_failed"} = {} =>
           execFailed = {} /\ \A i \in Stages : Ended(i) => status[i] # "unknown"
      /\ at = "returned" /\ "process.exited" \notin types =>
           \A i \in Stages : Ended(i) => status[i] = "unknown" \/ i \in execFailed
      /\ at = "returned" /\ types \cap Endings = {} => \A i \in Stages : ~Ended(i)
  BY TypesSay DEF s
<1> HIDE DEF types, R
<1>7. R = "process.exec_error" => execFailed # {} /\ (n = 1 => child[0] # "ok")
  BY <1>4, <1>6 DEF R
<1>8. R = "process.wait_failed" => \E i \in Stages : Ended(i) /\ status[i] = "unknown"
  BY <1>4, <1>6 DEF R
<1>9. R = "process.launch_failed" => launchFailed
  BY <1>4, <1>6 DEF R
<1>10. R = "process.exited" =>
         /\ launchFailed \/ \E i \in Stages : Ended(i)
         /\ at = "returned" => execFailed = {} /\ \A i \in Stages : Ended(i) => status[i] # "unknown"
  BY <1>4, <1>6 DEF R
<1>11. R \in {"unavailable", "process.exec_error", "process.wait_failed", "process.launch_failed", "process.exited"}
  BY <1>4 DEF R
<1>12. R = "unavailable" => at # "returned" \/ \A i \in Stages : ~Ended(i)
  BY <1>5, <1>6
<1>13. CASE R = "process.exec_error"
  BY <1>3, <1>6, <1>7, <1>13 DEF R, s
<1>14. CASE R = "process.wait_failed"
  BY <1>3, <1>6, <1>8, <1>14 DEF R, s
<1>15. CASE R = "process.launch_failed"
  BY <1>3, <1>6, <1>9, <1>15 DEF R, s
<1>16. CASE R = "process.exited"
  BY <1>3, <1>6, <1>10, <1>16 DEF R, s
<1>17. CASE R = "unavailable"
  BY <1>3, <1>6, <1>12, <1>17 DEF R, s
<1> QED
  BY <1>11, <1>13, <1>14, <1>15, <1>16, <1>17

(* A good result is shown only of a line that the verdict calls completed. *)
LEMMA ResultIsEarned ==
  ASSUME TypeOK, TruthInv, OutcomeInv, ReaderInv, CaughtUp, at = "returned",
         StripState(Record, "result", Status) = "done" \/ Chain(Record).summary = "observed"
  PROVE  child[n - 1] = "ok" /\ result = "zero"
<1>1. Closed
  BY DEF CaughtUp, Closed
<1>2. "execution.failed" \notin Types(Record)
  <2>1. ErrorsOn["result"] = {"process.exec_error", "process.wait_failed", "execution.failed", "execution.cancelled"}
    BY DEF ErrorsOn
  <2>2. CASE StripState(Record, "result", Status) = "done"
    <3>1. ErrorsOn["result"] \cap Types(Record) = {}
      BY <2>2 DEF StripState
    <3> QED
      BY <2>1, <3>1
  <2>3. CASE Chain(Record).summary = "observed"
    <3>1. ChainSummary(Record) = "observed"
      BY <2>3 DEF Chain
    <3> QED
      BY <3>1 DEF ChainSummary
  <2> QED
    BY <2>2, <2>3
<1>3. FinalType(Verdict) \in Types(Record)
  BY <1>1, TypesAre
<1>4. Verdict = "COMPLETED"
  BY <1>2, <1>3, VerdictIs
<1> QED
  BY <1>1, <1>4, VerdictImplies DEF Verdict

(* However the engine and the gateway interleave, and whatever goes wrong  *)
(* in a launch, an exec or a wait, the table of pipelineEvidence.ts, the   *)
(* strip of stages.ts, the chain of evidenceChain.ts and the report of     *)
(* routes.ts say of the processes only what became of them.                *)
THEOREM ViewsAreTrue == WatchedSpec => []ViewsTellTheTruth
<1>1. TypeOK /\ TruthInv /\ OutcomeInv /\ ReaderInv /\ AccountInv /\ RecordInv /\ ShownInv => ViewsTellTheTruth
  <2> SUFFICES ASSUME TypeOK, TruthInv, OutcomeInv, ReaderInv, AccountInv, RecordInv, ShownInv, CaughtUp
               PROVE  ViewsTellTheTruth
    BY DEF ViewsTellTheTruth
  <2> DEFINE types == Types(Record)
  <2>1. /\ "process.exec_error" \in types => execFailed # {}
        /\ "process.wait_failed" \in types => \E i \in Stages : Ended(i) /\ status[i] = "unknown"
        /\ types \cap {"process.launch_failed", "redirection.failed"} # {} => launchFailed
        /\ "process.started" \in types <=> \E i \in Stages : Launched(i)
    BY TypesSay
  <2>2. Chain(Record).fork = "observed" <=> \E i \in Stages : Launched(i)
    BY <2>1 DEF Chain, ChainFork
  <2>3. Chain(Record).exit = "failed" => execFailed # {} \/ Chain(Record).wait = "failed"
    BY <2>1 DEF Chain, ChainExit, ChainWait
  <2>4. Chain(Record).exec = "failed" => execFailed # {} \/ launchFailed
    BY <2>1 DEF Chain, ChainExec
  <2>5. Chain(Record).wait = "failed" => \E i \in Stages : Ended(i) /\ status[i] = "unknown"
    BY <2>1 DEF Chain, ChainWait
  <2>6. StripState(Record, "fork", Status) = "error" => launchFailed
    <3>1. ErrorsOn["fork"] = {"redirection.failed"}
      BY DEF ErrorsOn
    <3>2. StripState(Record, "fork", Status) = "error" => ErrorsOn["fork"] \cap types # {}
      BY DEF StripState
    <3> QED
      BY <2>1, <3>1, <3>2
  <2>7. \A i \in 0 .. n - 1 :
          LET row == StageRow(Record, i)
          IN  /\ row.lifecycle = "NOT_STARTED" => ~Launched(i)
              /\ row.lifecycle = "INCOMPLETE" =>
                   Launched(i) /\ (at = "returned" => i \in execFailed \/ status[i] = "unknown")
              /\ row.lifecycle = "COMPLETED" => ~Launched(i) \/ (Ended(i) /\ status[i] # "unknown")
              /\ row.exit = "zero" <=> row.lifecycle = "COMPLETED" /\ child[i] = "ok"
    BY TableIsTrue
  <2>8. at = "returned" =>
          /\ StripState(Record, "result", Status) = "done" => child[n - 1] = "ok" /\ result = "zero"
          /\ Chain(Record).summary = "observed" => child[n - 1] = "ok" /\ result = "zero"
    BY ResultIsEarned
  <2> HIDE DEF types
  <2> QED
    BY ONLY <2>2, <2>3, <2>4, <2>5, <2>6, <2>7, <2>8, SummaryIsTrue, ReportIsTrue,
       TypeOK, TruthInv, OutcomeInv, AccountInv, RecordInv, ShownInv, Zenon DEF ViewsTellTheTruth
<1> QED
  BY <1>1, ReaderInvariant, RecordInvariant, ShownInvariant, PTL
=============================================================================
