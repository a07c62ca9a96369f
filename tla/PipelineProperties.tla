------------------------- MODULE PipelineProperties -------------------------
(***************************************************************************)
(* What the lines of PipelineEngine say, and that a line whose programs    *)
(* end comes to an end itself.  (Who holds which descriptor is stated in   *)
(* PipelineEngine, beside the definitions it is about.)                    *)
(***************************************************************************)
EXTENDS PipelineEngine, SequencesExt

LineSet == {lines[k] : k \in DOMAIN lines}

Endings ==
  {"process.exited", "process.exec_error", "process.wait_failed"}

------------------------------------------------------------------------------
(* The place of each stage's ending among the lines.  A line of a stage    *)
(* that was launched carries its pid; one that was not, its stage number.  *)
EndingsOf(i) ==
  {k \in DOMAIN lines : /\ lines[k].type \in Endings
                        /\ IF Launched(i) THEN lines[k].proc = i
                           ELSE lines[k].proc = Engine /\ lines[k].stage = i}

(* When the envelope closes, every stage has exactly one ending, in stage  *)
(* order, and the envelope is the last line.  (I14 of the gateway's replay *)
(* validator asks for this.)                                               *)
StagesAreAccounted ==
  \A c \in DOMAIN lines : lines[c].type = "pipeline.completed" =>
    /\ c = Len(lines)
    /\ \E place \in [0 .. n - 1 -> 1 .. c - 1] :
         /\ \A i \in 0 .. n - 1 : EndingsOf(i) = {place[i]}
         /\ \A i, j \in 0 .. n - 1 : i < j => place[i] < place[j]

(* A line never contradicts what became of the process it is about: in     *)
(* particular COMPLETED is said of a program that ran to its end, and a    *)
(* child that reported an errno is never said to have exited.              *)
LinesTellTheTruth ==
  \A l \in LineSet : l.proc \in Stages =>
    CASE l.type = "process.exec_error" -> child[l.proc] \in {"refused", "signaled"} /\ l.proc \in errno
      [] l.type = "process.exited" ->
           child[l.proc] = (CASE l.outcome = "COMPLETED" -> "ok"
                              [] l.outcome = "EXITED"    -> "failed"
                              [] OTHER                   -> "signaled")
      [] OTHER -> TRUE

------------------------------------------------------------------------------
(* What stage i leaves behind when it ends, or when it is never launched:  *)
(* its successors see end-of-input, its predecessors SIGPIPE, provided     *)
(* that they write to their pipe.  Either way the engine returns: it waits *)
(* for no process that waits for it.                                       *)
Gone(i) == i < n /\ at \notin {"start", "launch"} /\ (Ended(i) \/ ~Launched(i))

PipelineDrains ==
  (\E i \in Stages : Gone(i) /\ \A j \in 0 .. i - 1 : "w" \notin redir[j]) ~> at = "returned"
=============================================================================
