--------------------------- MODULE PipelineEngine ---------------------------
(***************************************************************************)
(* The engine running one command line: process_exec_pipeline, and         *)
(* process_exec when the line has one stage (src/process.c).  The engine   *)
(* and the children it forks are processes that interleave freely; what    *)
(* they share is descriptors.  A pipe carries end-of-input only when       *)
(* nobody holds its write end, and kills a writer only when nobody holds   *)
(* its read end, so who holds what is the state that matters here.  The    *)
(* bytes that flow are not modelled.                                       *)
(***************************************************************************)
EXTENDS Integers, Sequences, CanonicalEvents

CONSTANTS
  MaxStages,       \* the longest command line
  Redirections,    \* what a stage may redirect: sets of "r" (stdin) and "w" (stdout)
  Faults           \* what may go wrong

ASSUME StagesAssumption == MaxStages \in Nat \ {0}
ASSUME RedirectionsAssumption == {} \in Redirections /\ Redirections \subseteq SUBSET {"r", "w"}
ASSUME FaultsAssumption ==
  Faults \subseteq {"pipe", "redirection", "status", "fork", "refused", "unwired", "signal", "wait"}

Stages == 0 .. MaxStages - 1

Engine == -1                  \* the engine among the processes; also "no process" in a line

Processes == Stages \cup {Engine}

VARIABLES
  n,             \* the number of stages of this line
  redir,         \* redir[i]: the ends stage i redirects to a file
  at,            \* where the engine is
  cur,           \* the stage its loop has reached
  launchFailed,  \* launch_failed
  child,         \* child[i]: what became of the process of stage i
  fds,           \* fds[p]: the descriptors process p holds
  errno,         \* the stages whose status pipe holds an errno
  execFailed,    \* exec_failed: the stages whose errno the engine has read
  status,        \* status[i]: what waitpid() said of stage i
  lines,         \* the protocol lines written so far
  result         \* the exit status of the line

line == <<n, redir>>
vars == <<line, at, cur, launchFailed, child, fds, errno, execFailed, status, lines, result>>

------------------------------------------------------------------------------
(* Descriptors: an end of pipe `of` (between stages of and of + 1), of the *)
(* status pipe of stage `of`, or a file that stage `of` redirects to.      *)
Descriptors == [kind : {"pipe", "status", "file"}, of : Stages, end : {"r", "w"}]

PipeEnds == [kind : {"pipe"}, of : 0 .. n - 2, end : {"r", "w"}]

StatusPipe(i) == [kind : {"status"}, of : {i}, end : {"r", "w"}]

StatusEnd(i, end) == [kind |-> "status", of |-> i, end |-> end]

Files(i) == [kind : {"file"}, of : {i}, end : redir[i]]

(* The two ends stage i keeps: it reads pipe i - 1 and writes pipe i. *)
Own(i) == {d \in PipeEnds : \/ d.of = i - 1 /\ d.end = "r"
                            \/ d.of = i     /\ d.end = "w"}

(* Status pipes and files are opened close-on-exec; the pipes are not. *)
CloseOnExec == {d \in Descriptors : d.kind # "pipe"}

Holders(d) == {p \in Processes : d \in fds[p]}

------------------------------------------------------------------------------
(* Lines.  proc is the stage whose pid the line carries. *)
LineTypes == EngineEvents \cup {"pipeline.started", "pipeline.completed"}

StageLines == [type : LineTypes, proc : Processes, stage : -1 .. MaxStages - 1,
               stages : 0 .. MaxStages, outcome : Outcomes]

StageLine(type, i, outcome) ==
  [type |-> type, proc |-> i, stage |-> i, stages |-> n, outcome |-> outcome]

(* EXEC_ERROR, WAIT_FAILED and EXECUTION_FAILED are written without the    *)
(* position of their stage; the gateway then reads stage -1 of 0.          *)
Unplaced(type, p, outcome) ==
  [type |-> type, proc |-> p, stage |-> -1, stages |-> 0, outcome |-> outcome]

(* The gateway gives a line that is not about one stage no position. *)
RedirectionFailed == Unplaced("redirection.failed", Engine, "none")

Envelope(type, p, stage, outcome) ==
  [type |-> type, proc |-> p, stage |-> stage, stages |-> n, outcome |-> outcome]

(* The signal line of a single command leaves its position zero: 0 of 0. *)
SignalLine(i) ==
  IF n = 1 THEN [StageLine("signal.received", i, "SIGNALED") EXCEPT !.stages = 0]
           ELSE StageLine("signal.received", i, "SIGNALED")

(* What the engine writes of a stage that ended as how, once reaped. *)
EndLines(i, how) ==
  IF i \in execFailed THEN <<Unplaced("process.exec_error", i, "EXEC_FAILED")>>
  ELSE CASE how = "ok"       -> <<StageLine("process.exited", i, "COMPLETED")>>
         [] how = "signaled" -> <<SignalLine(i), StageLine("process.exited", i, "SIGNALED")>>
         [] OTHER            -> <<StageLine("process.exited", i, "EXITED")>>

------------------------------------------------------------------------------
(* The engine. *)

Init ==
  /\ n \in 1 .. MaxStages
  /\ redir \in [Stages -> Redirections]
  /\ \A i \in Stages : i >= n => redir[i] = {}
  /\ at = "start" /\ cur = 0 /\ launchFailed = FALSE
  /\ child = [i \in Stages |-> "none"]
  /\ fds = [p \in Processes |-> {}]
  /\ errno = {} /\ execFailed = {}
  /\ status = [i \in Stages |-> "unknown"]
  /\ lines = <<>>
  /\ result = "none"

(* All pipes exist before the first fork.  When one cannot be created the  *)
(* ones before it are closed again and nothing is written.                 *)
CreatePipes ==
  /\ at = "start"
  /\ \/ /\ at' = "launch" /\ fds' = [fds EXCEPT ![Engine] = PipeEnds]
        /\ UNCHANGED result
     \/ /\ n > 1 /\ "pipe" \in Faults
        /\ at' = "returned" /\ result' = "nonzero"
        /\ UNCHANGED fds
  /\ UNCHANGED <<line, cur, launchFailed, child, errno, execFailed, status, lines>>

Forked(i) == fds[Engine] \cup Files(i) \cup StatusPipe(i)

(* A stage is forked: the child inherits every descriptor of the engine.   *)
(* The envelope of a pipeline opens with its first stage.                  *)
Launch(i) ==
  /\ at = "launch" /\ cur = i
  /\ child' = [child EXCEPT ![i] = "forked"]
  /\ fds' = [fds EXCEPT ![Engine] = Forked(i), ![i] = Forked(i)]
  /\ lines' = lines
       \o (IF i = 0 /\ n > 1 THEN <<Envelope("pipeline.started", 0, 0, "COMPLETED")>> ELSE <<>>)
       \o <<StageLine("process.started", i, "none")>>
  /\ cur' = IF i + 1 = n THEN 0 ELSE i + 1
  /\ at' = IF i + 1 = n THEN "close" ELSE "launch"
  /\ UNCHANGED <<line, launchFailed, errno, execFailed, status, result>>

(* A stage cannot be launched.  A single command ends here, with its       *)
(* descriptors closed.  A pipeline goes on to reap what it has started,    *)
(* and keeps what it had opened for this stage.                            *)
LaunchFails(i, fault, why, opened) ==
  /\ at = "launch" /\ cur = i /\ fault \in Faults
  /\ launchFailed' = TRUE /\ cur' = 0
  /\ lines' = lines \o why
  /\ IF n = 1
     THEN at' = "returned" /\ result' = "nonzero" /\ UNCHANGED fds
     ELSE /\ at' = "close" /\ UNCHANGED result
          /\ fds' = [fds EXCEPT ![Engine] = @ \cup opened]
  /\ UNCHANGED <<line, child, errno, execFailed, status>>

(* Only a single command says that its child could not be created. *)
LaunchError == IF n = 1 THEN <<Unplaced("process.launch_failed", Engine, "LAUNCH_FAILED")>> ELSE <<>>

RedirectionFails(i) == redir[i] # {} /\ LaunchFails(i, "redirection", <<RedirectionFailed>>, {})

StatusPipeFails(i) == LaunchFails(i, "status", LaunchError, Files(i))

ForkFails(i) == LaunchFails(i, "fork", LaunchError, Files(i) \cup StatusPipe(i))

Launched(i) == child[i] # "none"

(* Mutant: the engine keeps the files it opened for its children. *)
CloseEnds_KeepsFiles ==
  /\ at = "close" /\ at' = "status"
  /\ fds' = [fds EXCEPT ![Engine] = @ \ PipeEnds]
  /\ UNCHANGED <<line, cur, launchFailed, child, errno, execFailed, status, lines, result>>

(* The engine lets go of every pipe, and of the files of the stages it     *)
(* launched.                                                               *)
CloseEnds ==
  /\ at = "close" /\ at' = "status"
  /\ fds' = [fds EXCEPT ![Engine] =
               @ \ (PipeEnds \cup UNION {Files(i) : i \in {j \in Stages : Launched(j)}})]
  /\ UNCHANGED <<line, cur, launchFailed, child, errno, execFailed, status, lines, result>>

(* The loops over the stages that follow: where the next round is. *)
Advance(here, next) ==
  /\ cur' = IF cur + 1 = n THEN 0 ELSE cur + 1
  /\ at' = IF cur + 1 = n THEN next ELSE here

(* Mutant: the engine does not wait for the status pipe to say something. *)
ReadStatus_NoWait(i) ==
  /\ at = "status" /\ cur = i
  /\ fds' = [fds EXCEPT ![Engine] = @ \ (IF Launched(i) THEN StatusPipe(i) ELSE {})]
  /\ execFailed' = execFailed \cup ({i} \cap errno)
  /\ Advance("status", "reap")
  /\ UNCHANGED <<line, launchFailed, child, errno, status, lines, result>>

(* The engine closes its own write end and reads: it blocks until there is *)
(* an errno or nobody else holds the write end.                            *)
ReadStatus(i) ==
  /\ at = "status" /\ cur = i
  /\ Launched(i) => i \in errno \/ Holders(StatusEnd(i, "w")) \subseteq {Engine}
  /\ fds' = [fds EXCEPT ![Engine] = @ \ (IF Launched(i) THEN StatusPipe(i) ELSE {})]
  /\ execFailed' = execFailed \cup ({i} \cap errno)
  /\ Advance("status", "reap")
  /\ UNCHANGED <<line, launchFailed, child, errno, status, lines, result>>

Ended(i) == child[i] \in {"ok", "failed", "signaled", "refused"}

(* waitpid() returns the status of the stage whose turn it is. *)
Reap(i) ==
  /\ at = "reap" /\ cur = i /\ Ended(i)
  /\ status' = [status EXCEPT ![i] = IF child[i] = "ok" THEN "zero" ELSE "nonzero"]
  /\ lines' = lines \o EndLines(i, child[i])
  /\ Advance("reap", "complete")
  /\ UNCHANGED <<line, launchFailed, child, fds, errno, execFailed, result>>

(* waitpid() fails for good: the outcome of the stage stays unknown. *)
WaitFails(i) ==
  /\ at = "reap" /\ cur = i /\ Ended(i) /\ "wait" \in Faults
  /\ lines' = Append(lines, Unplaced("process.wait_failed", i, "WAIT_FAILED"))
  /\ Advance("reap", "complete")
  /\ UNCHANGED <<line, launchFailed, child, fds, errno, execFailed, status, result>>

NeverLaunched == [StageLine("process.exited", cur, "LAUNCH_FAILED") EXCEPT !.proc = Engine]

(* Mutant: the outcome of the line is left zero, which reads COMPLETED. *)
SkipStage_Zeroed(i) ==
  /\ at = "reap" /\ cur = i /\ ~Launched(i)
  /\ lines' = Append(lines, [NeverLaunched EXCEPT !.outcome = "COMPLETED"])
  /\ Advance("reap", "complete")
  /\ UNCHANGED <<line, launchFailed, child, fds, errno, execFailed, status, result>>

(* Mutant: nothing is said of a stage that was never launched. *)
SkipStage_Silent(i) ==
  /\ at = "reap" /\ cur = i /\ ~Launched(i)
  /\ Advance("reap", "complete")
  /\ UNCHANGED <<line, launchFailed, child, fds, errno, execFailed, status, lines, result>>

(* A stage that was never forked is accounted for, under pid 0. *)
SkipStage(i) ==
  /\ at = "reap" /\ cur = i /\ ~Launched(i)
  /\ lines' = Append(lines, NeverLaunched)
  /\ Advance("reap", "complete")
  /\ UNCHANGED <<line, launchFailed, child, fds, errno, execFailed, status, result>>

(* What the last stage leaves in the engine's memory.  A pipeline reads    *)
(* statuses[n - 1], which calloc() made zero and a failed wait leaves so.  *)
LastIsZero ==
  \/ status[n - 1] = "zero"
  \/ n > 1 /\ status[n - 1] = "unknown"

(* The envelope closes, and the line returns the status of its last stage. *)
Complete ==
  /\ at = "complete" /\ at' = "returned"
  /\ lines' = IF n = 1 THEN lines
              ELSE Append(lines, Envelope("pipeline.completed", IF Launched(0) THEN 0 ELSE Engine, -1,
                                          IF launchFailed THEN "LAUNCH_FAILED" ELSE "COMPLETED"))
  /\ result' = IF ~launchFailed /\ LastIsZero THEN "zero" ELSE "nonzero"
  /\ UNCHANGED <<line, cur, launchFailed, child, fds, errno, execFailed, status>>

EngineStep ==
  \/ CreatePipes \/ CloseEnds \/ Complete
  \/ \E i \in Stages : Launch(i) \/ ReadStatus(i) \/ Reap(i) \/ SkipStage(i)

EngineFault ==
  \E i \in Stages : RedirectionFails(i) \/ StatusPipeFails(i) \/ ForkFails(i) \/ WaitFails(i)

------------------------------------------------------------------------------
(* The child of stage i, up to execvp(). *)

(* Mutant: the child keeps both ends of the pipe it writes to. *)
Kept_BothEnds(i) ==
  {d \in fds[i] : /\ d.kind = "pipe"   => d \in Own(i) \/ d.of = i
                  /\ d.kind = "status" => d.end = "r" \/ d.of = i}

(* What survives the two closing loops of the child. *)
Kept(i) ==
  {d \in fds[i] : /\ d.kind = "pipe"   => d \in Own(i)
                  /\ d.kind = "status" => d.end = "r" \/ d.of = i}

Unchanged_Engine == UNCHANGED <<line, at, cur, launchFailed, execFailed, status, lines, result>>

CloseOthers(i) ==
  /\ child[i] = "forked"
  /\ child' = [child EXCEPT ![i] = "wired"]
  /\ fds' = [fds EXCEPT ![i] = Kept(i)]
  /\ UNCHANGED errno /\ Unchanged_Engine

(* Mutant: the status pipe is not close-on-exec. *)
Exec_KeepsStatus(i) ==
  /\ child[i] = "wired"
  /\ child' = [child EXCEPT ![i] = "running"]
  /\ fds' = [fds EXCEPT ![i] = {d \in @ : d.kind # "file"}]
  /\ UNCHANGED errno /\ Unchanged_Engine

(* execvp() succeeds.  The redirected streams replace the pipe ends on     *)
(* descriptors 0 and 1, but the ends themselves stay open beside them.     *)
Exec(i) ==
  /\ child[i] = "wired"
  /\ child' = [child EXCEPT ![i] = "running"]
  /\ fds' = [fds EXCEPT ![i] = @ \ CloseOnExec]
  /\ UNCHANGED errno /\ Unchanged_Engine

(* A disposition, a descriptor, a limit or execvp() itself fails: the      *)
(* child writes the errno, and only then exits.                            *)
Refuse(i) ==
  /\ child[i] = "wired" /\ "refused" \in Faults
  /\ child' = [child EXCEPT ![i] = "refusing"]
  /\ errno' = errno \cup {i}
  /\ UNCHANGED fds /\ Unchanged_Engine

(* A process ends, and the kernel closes what it held. *)
Ends(i, how) ==
  /\ child' = [child EXCEPT ![i] = how]
  /\ fds' = [fds EXCEPT ![i] = {}]
  /\ UNCHANGED errno /\ Unchanged_Engine

RefusedExit(i) == child[i] = "refusing" /\ Ends(i, "refused")

(* A redirection cannot be installed: exit(1), and no errno. *)
UnwiredExit(i) == child[i] = "wired" /\ redir[i] # {} /\ "unwired" \in Faults /\ Ends(i, "failed")

------------------------------------------------------------------------------
(* The program of stage i: it may end by itself at any time; it ends when  *)
(* its input does, and when it writes where nobody reads.                  *)

ProgramExits(i) == child[i] = "running" /\ \E how \in {"ok", "failed"} : Ends(i, how)

(* End of input: a file has one; a pipe has one when it has no writer. *)
EndOfInput(i) ==
  /\ child[i] = "running"
  /\ \/ "r" \in redir[i]
     \/ i > 0 /\ Holders([kind |-> "pipe", of |-> i - 1, end |-> "w"]) = {}
  /\ Ends(i, "ok")

(* SIGPIPE: the output is a pipe that nobody can read. *)
BrokenPipe(i) ==
  /\ child[i] = "running" /\ i < n - 1 /\ "w" \notin redir[i]
  /\ Holders([kind |-> "pipe", of |-> i, end |-> "r"]) = {}
  /\ Ends(i, "signaled")

(* A signal sent to the group: also before the child has reached exec. *)
Killed(i) ==
  /\ child[i] \in {"forked", "wired", "refusing", "running"} /\ "signal" \in Faults
  /\ Ends(i, "signaled")

ChildStep(i) ==
  CloseOthers(i) \/ Exec(i) \/ Refuse(i) \/ RefusedExit(i) \/ UnwiredExit(i)

ProgramStep(i) == ProgramExits(i) \/ EndOfInput(i) \/ BrokenPipe(i) \/ Killed(i)

Next ==
  \/ EngineStep \/ EngineFault
  \/ \E i \in Stages : ChildStep(i) \/ ProgramStep(i)

Spec == Init /\ [][Next]_vars

(* The kernel runs the engine and the children, and every program goes on  *)
(* reading its input and writing its output.                               *)
Fairness ==
  /\ WF_vars(EngineStep)
  /\ \A i \in Stages :
       /\ WF_vars(ChildStep(i))
       /\ WF_vars(EndOfInput(i) \/ BrokenPipe(i))

LiveSpec == Spec /\ Fairness

------------------------------------------------------------------------------
(* Every variable has the shape of the C object it stands for, and the     *)
(* position a line carries is one a pipeline of this length can have.      *)
TypeOK ==
  /\ n \in 1 .. MaxStages
  /\ redir \in [Stages -> SUBSET {"r", "w"}]
  /\ at \in {"start", "launch", "close", "status", "reap", "complete", "returned"}
  /\ cur \in 0 .. n - 1
  /\ launchFailed \in BOOLEAN
  /\ child \in [Stages -> {"none", "forked", "wired", "refusing", "running",
                           "ok", "failed", "signaled", "refused"}]
  /\ fds \in [Processes -> SUBSET Descriptors]
  /\ errno \subseteq Stages /\ execFailed \subseteq Stages
  /\ status \in [Stages -> {"unknown", "zero", "nonzero"}]
  /\ lines \in Seq(StageLines)
  /\ result \in {"none", "zero", "nonzero"}

(* A program is started with the pipe ends of its own stage and with no    *)
(* other descriptor of the engine's: neither a neighbour's end, which      *)
(* would keep that neighbour from seeing end-of-input or SIGPIPE, nor a    *)
(* status pipe, which would make the engine's read of it last as long as   *)
(* the program.  (The two closing loops of the child, and close-on-exec.)  *)
ProgramsHoldTheirEnds ==
  \A i \in Stages : child[i] = "running" => fds[i] = Own(i)

(* Once the engine waits for its children, an end of a pipe is held by its *)
(* owner alone, or for a moment by a child that has not closed what it     *)
(* inherited.  Otherwise a reader would not see end-of-input, or a writer  *)
(* not die, and the engine would wait for it for ever.                     *)
EndsHaveOneHolder ==
  at \in {"status", "reap", "complete", "returned"} =>
    \A d \in PipeEnds : \A p \in Holders(d) :
      p \in Stages /\ (d \in Own(p) \/ child[p] = "forked")

(* A line whose stages were all launched leaves the engine with the        *)
(* descriptors it had before, so that a session can go on for ever.        *)
NothingLeaks ==
  at = "returned" /\ ~launchFailed => fds[Engine] = {}

------------------------------------------------------------------------------
(* The inductive invariant behind the three properties above: what every   *)
(* process holds at each point of its life, which stages have been         *)
(* launched, and what the engine has left to close.                        *)

ChildHolds(i) ==
  CASE child[i] = "forked"               -> fds[i] \ CloseOnExec = PipeEnds
    [] child[i] \in {"wired", "refusing"} -> fds[i] \ CloseOnExec = Own(i)
    [] child[i] = "running"              -> fds[i] = Own(i)
    [] OTHER                             -> fds[i] = {}

EngineHolds ==
  /\ at = "start"  => fds[Engine] = {}
  /\ at = "launch" => fds[Engine] \ CloseOnExec = PipeEnds
  /\ at = "close"  => fds[Engine] \ CloseOnExec \subseteq PipeEnds
  /\ at \in {"status", "reap", "complete", "returned"} => fds[Engine] \cap PipeEnds = {}

LaunchedSoFar ==
  /\ at \in {"start", "close"} => cur = 0
  /\ at \in {"start", "launch"} => \A i \in Stages : Launched(i) <=> i < cur
  /\ at \in {"close", "status"} /\ ~launchFailed => \A i \in 0 .. n - 1 : Launched(i)

LeftToClose ==
  ~launchFailed =>
    /\ \A d \in fds[Engine] : d.kind = "file" => d.end \in redir[d.of]
    /\ at = "launch" => \A d \in fds[Engine] \cap CloseOnExec : d.of < cur
    /\ at = "close"  => \A d \in fds[Engine] \cap CloseOnExec : d.of < n
    /\ at = "status" => \A d \in fds[Engine] : d.kind = "status" /\ d.of \in cur .. n - 1
    /\ at \in {"reap", "complete", "returned"} => fds[Engine] = {}

(* Each process holds exactly what its place in the code entitles it to.   *)
DescriptorInv ==
  /\ \A i \in Stages : ChildHolds(i)
  /\ EngineHolds /\ LaunchedSoFar /\ LeftToClose
=============================================================================
