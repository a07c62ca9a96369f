------------------------- MODULE GatewayProperties -------------------------
(***************************************************************************)
(* What the gateway must guarantee.  The documentation numbers the rules   *)
(* on event streams I1 to I14 (docs/architecture.md); the names are kept   *)
(* where a property is one of them.                                        *)
(***************************************************************************)
EXTENDS Gateway

Terminals(s) == {e \in log[s] : e.type \in TerminalEvents}

(* I5 and one verdict: a history has at most one terminal event, and that  *)
(* event announces the status the row has.  finalize, finalizeFailed, the  *)
(* shutdown and the boot recovery never contradict each other, whatever    *)
(* writes fail and wherever the gateway crashes.                           *)
TerminalAgrees ==
  \A s \in Sessions : \A e \in Terminals(s) :
    /\ row[s] \in TerminalStatuses
    /\ e.type = FinalType(row[s])
    /\ Terminals(s) = {e}

(* I10 as long as no write fails: a row is finalized exactly when its      *)
(* stream has a terminal event.                                            *)
StreamMatchesRow ==
  faults = 0 => \A s \in Sessions : row[s] \in TerminalStatuses <=> Terminals(s) # {}

(* I6: nothing follows a terminal event, no line and no sample. *)
TerminalIsLast == \A s \in Sessions : \A t \in Terminals(s) : \A e \in log[s] : e.seq <= t.seq

(* I2 to I4 as long as no write fails: emit() never leaves a gap and never *)
(* reuses a number, across lines, samples, endings, recovery and lines     *)
(* that arrive after the end.                                              *)
DenseNumbering ==
  faults = 0 => \A s \in Sessions : {e.seq : e \in log[s]} = 0 .. Cardinality(log[s]) - 1

(* What emit() relies on: the next number of a registered session is above *)
(* every number in its history, so the unique constraint drops nothing.    *)
NumbersAreFresh == \A s \in registry : \A e \in log[s] : e.seq < nextSeq[s]

(* I7 and I11: as long as no write fails, a telemetry sample lies between  *)
(* the start of its process and the report of its end.                     *)
SamplesInsideProcess ==
  faults = 0 => \A s \in Sessions : \A e \in log[s] : e.type = "process.snapshot" =>
    /\ \E f \in log[s] : f.type = "process.started" /\ f.seq < e.seq
    /\ \A f \in log[s] : f.type \in EndOfProcess \cup TerminalEvents => e.seq < f.seq

(* A gateway that is up answers for every execution whose row is open: no  *)
(* row is stranded between finalize, the registry and the recovery.        *)
NoStrandedRow ==
  gw = "up" /\ faults = 0 => \A s \in Sessions : row[s] = "CREATED" => s \in registry

(* A status says what happened to the program: COMPLETED only if it exited *)
(* with 0, CANCELLED only if it died of a signal after somebody asked, and *)
(* FAILED for a program that exited with 0 only when waitpid() lost it (as *)
(* long as no shutdown, crash or boot has abandoned it).                   *)
VerdictIsHonest ==
  \A s \in Sessions :
    /\ row[s] = "COMPLETED" => prog[s] = "ok" /\ ~active[s].timedOut
    /\ row[s] = "CANCELLED" => prog[s] = "signaled" /\ active[s].terminateRequested
    /\ row[s] = "FAILED" /\ prog[s] = "ok" /\ gw = "up" /\ boots = 0 =>
         "process.wait_failed" \in active[s].evidence.saw

(* A finalized row is never finalized differently, nor reopened. *)
StatusIsFinal ==
  [][\A s \in Sessions : row[s] \in TerminalStatuses => row'[s] \in {row[s], "DELETED"}]_vars

-----------------------------------------------------------------------------
(* Why the verdicts agree.  An ActiveSession that is not finalized owns    *)
(* its row: the row is still CREATED (or was deleted under it), no         *)
(* terminal event exists, and the next number is above all others.  A      *)
(* swept session is still owned, but nothing is left to be read for it.    *)
(* Nobody owns anything once the gateway is down.                          *)
Owned(s) ==
  /\ row[s] \in {"CREATED", "DELETED"}
  /\ \A e \in log[s] : e.seq < nextSeq[s]
  /\ s \in registry \/ (engine[s] = "done" /\ pipe[s] = <<>>)

RecordOf(s) ==
  /\ row[s] \in {"NONE", "DELETED"} => log[s] = {}
  /\ row[s] = "CREATED" => Terminals(s) = {}
  /\ row[s] = "CREATED" /\ gw # "down" /\ faults = 0 /\ "sweep" \notin Disturbances => s \in registry
  /\ row[s] \in TerminalStatuses =>
       /\ \A e \in Terminals(s) : e.type = FinalType(row[s]) /\ Terminals(s) = {e}
       /\ faults = 0 => Terminals(s) # {}
  /\ s \in open => Owned(s)

RecordInv ==
  /\ registry \subseteq open
  /\ "sweep" \notin Disturbances => registry = open
  /\ gw = "down" => open = {}
  /\ gw = "draining" => "shutdown" \in Disturbances
  /\ \A s \in Sessions : RecordOf(s)

-----------------------------------------------------------------------------
(* Streams. *)

Seen(s) == {e.seq : e \in log[s]}

(* A browser is shown only what a replay would return, without holes up to *)
(* the last frame it has, whenever it connected, lost its connection or    *)
(* came back.                                                              *)
StreamsShowReplay ==
  \A c \in Clients : LET s == client[c].watch IN
    s \in Sessions /\ row[s] \notin {"NONE", "DELETED"} =>
      /\ client[c].got \subseteq Seen(s)
      /\ \A n \in Seen(s) : (\E m \in client[c].got : n < m) => n \in client[c].got

(* A live stream has everything stored so far, and it is not left open on  *)
(* an execution that is over.                                              *)
LiveStreamsAreCurrent ==
  \A c \in Clients : client[c].live =>
    LET s == client[c].watch IN
      /\ row[s] # "DELETED" => client[c].got = Seen(s)
      /\ faults = 0 => row[s] \notin TerminalStatuses

-----------------------------------------------------------------------------
(* The gateway implements the recorder, with the row as the status and the *)
(* events table as the history.                                            *)
Recorder == INSTANCE EventHistory WITH status <- row, history <- log
RecorderSpec == Recorder!Spec

-----------------------------------------------------------------------------
(* Progress. *)

Ended(s) == row[s] \in TerminalStatuses \cup {"DELETED"}

(* An execution whose program was identified before its deadline, or whose *)
(* engine has exited, gets its terminal row: by its own end, or by the     *)
(* timeout, the SIGTERM and the SIGKILL that follow.                       *)
Stoppable(s) ==
  s \in registry /\ (engine[s] = "done" \/ (active[s].identity /\ ~active[s].timedOut))

ExecutionsEnd == \A s \in Sessions : Stoppable(s) ~> Ended(s)

(* A shutdown that was begun comes to its end. *)
ShutdownCompletes == gw = "draining" ~> gw = "down"
=============================================================================
