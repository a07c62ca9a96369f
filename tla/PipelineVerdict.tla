-------------------------- MODULE PipelineVerdict --------------------------
(***************************************************************************)
(* PipelineEngine beside the runner of the gateway, which reads the lines  *)
(* from the other end of stderr, one by one and as slowly as it likes,     *)
(* keeps of each what its verdict will rest on (ExecutionRunner.observe),  *)
(* and decides once the engine has returned and nothing is left to read.   *)
(***************************************************************************)
EXTENDS PipelineProperties

CONSTANT
  MaxUnread  \* bound: lines the runner may be behind when the engine writes

VARIABLES
  told,      \* how many lines the runner has read
  evidence   \* the evidence fields of its ActiveSession

reader == <<told, evidence>>

ReaderInit == told = 0 /\ evidence = NoEvidence

(* Mutant: the outcome of the envelope is read as if it were a process's. *)
ReadLine_Envelope ==
  /\ told < Len(lines)
  /\ told' = told + 1
  /\ evidence' = Observe(evidence, lines[told + 1])
  /\ UNCHANGED vars

(* The envelope lines have an outcome too; observe() does not read it. *)
ReadLine ==
  /\ told < Len(lines)
  /\ told' = told + 1
  /\ evidence' = IF lines[told + 1].type \in EngineEvents THEN Observe(evidence, lines[told + 1])
                 ELSE evidence
  /\ UNCHANGED vars

(* The engine takes its steps as if nobody read; the bound keeps it from   *)
(* running far ahead.                                                      *)
Watched == Next /\ UNCHANGED reader /\ (lines' # lines => Len(lines) <= told + MaxUnread)

WatchedNext == Watched \/ ReadLine

WatchedInit == Init /\ ReaderInit

WatchedSpec == WatchedInit /\ [][WatchedNext]_<<vars, reader>>

(* The event loop of the gateway goes on to read, too. *)
LiveWatchedSpec == WatchedSpec /\ Fairness /\ WF_<<vars, reader>>(ReadLine)

------------------------------------------------------------------------------
(* The close event: the engine is gone and its stderr was read to the end. *)
Closed == at = "returned" /\ told = Len(lines)

(* A command line is COMPLETED in the gateway's records only when every    *)
(* stage was launched, none was refused, killed or lost, and the program   *)
(* of the last stage exited with zero.  Nothing else, and no partial       *)
(* launch, may look like success.                                          *)
CompletedMeansAllRan ==
  Closed /\ DecideStatus(FALSE, FALSE, evidence) = "COMPLETED" =>
    /\ \A i \in 0 .. n - 1 : child[i] \in {"ok", "failed"}
    /\ child[n - 1] = "ok" /\ status[n - 1] = "zero"
    /\ result = "zero"
=============================================================================
