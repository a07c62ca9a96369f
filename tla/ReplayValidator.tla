-------------------------- MODULE ReplayValidator --------------------------
(***************************************************************************)
(* The gateway's judge of a recorded execution                             *)
(* (web/backend/src/events/invariants.ts): one operator per rule, over a   *)
(* stored stream.  The rules speak of the order, the identity and the      *)
(* place of events; of a payload they read the stage, the number of        *)
(* stages, whether an exit code was zero, and whether it was readable.     *)
(***************************************************************************)
EXTENDS Integers, CanonicalEvents, SequencesExt

(* An event as it is stored.  No stage is read as -1, no number of stages  *)
(* as 0: the rules treat the two alike.                                    *)
StoredEvent(session, seq, type, pid, stage, stages, exit) ==
  [id |-> <<session, seq>>, session |-> session, seq |-> seq, type |-> type, pid |-> pid,
   stage |-> stage, stages |-> stages, exit |-> exit, readable |-> TRUE]

LifecycleTypes == {"process.exited", "process.exec_error", "process.wait_failed"}

(* The stable sort by seq: where event k goes, and the events at their places. *)
Rank(events, k) ==
  Cardinality({j \in DOMAIN events : \/ events[j].seq < events[k].seq
                                     \/ events[j].seq = events[k].seq /\ j <= k})

InOrder(events) ==
  LET rank == [k \in DOMAIN events |-> Rank(events, k)]
  IN  [r \in DOMAIN events |-> events[CHOOSE k \in DOMAIN events : rank[k] = r]]

Of(s, types) == {k \in DOMAIN s : s[k].type \in types}

(* I1; I2 and I8; I3; I4; I9. *)
OneSession(s) == \A j, k \in DOMAIN s : s[j].session = s[k].session

NothingTwice(s) == \A j, k \in DOMAIN s : j # k => s[j].seq # s[k].seq /\ s[j].id # s[k].id

Increasing(s) == \A k \in DOMAIN s : k > 1 => s[k].seq > s[k - 1].seq

Contiguous(s) == \A k \in DOMAIN s : s[k].seq = k - 1

HasOrigin(s) == s # <<>> => s[1].type = "execution.created"

(* I5 and I6; I7, against the first terminal event; I10. *)
EndsOnce(s) == \A k \in Of(s, TerminalEvents) : k = Len(s)

NoLateSnapshot(s) ==
  \A t \in Of(s, TerminalEvents), k \in Of(s, {"process.snapshot"}) :
    (\A u \in Of(s, TerminalEvents) : t <= u) => s[k].seq <= s[t].seq

AgreesWithRow(s, status) ==
  status # "NONE" => (status \in TerminalStatuses <=> Of(s, TerminalEvents) # {})

(* I11: an ending is preceded by the start of the same pid at the same     *)
(* stage.  An event without a pid is not looked at.                        *)
NoOrphans(s, NoPid) ==
  \A k \in Of(s, LifecycleTypes) : s[k].pid # NoPid =>
    \E j \in Of(s, {"process.started"}) :
      j < k /\ s[j].pid = s[k].pid /\ s[j].stage = s[k].stage

(* Mutant: stages counted from one. *)
StagesAccounted_FromOne(s) ==
  LET first == {k \in Of(s, {"pipeline.completed"}) : \A j \in Of(s, {"pipeline.completed"}) : k <= j}
  IN  \A k \in first : \A i \in 1 .. s[k].stages - 1 :
        \E e \in Of(s, LifecycleTypes) : s[e].stage = i

(* I14: a pipeline that says it completed has an ending for each stage it  *)
(* declares; no event is of a stage beyond the most that any declares.     *)
StagesAccounted(s) ==
  LET first == {k \in Of(s, {"pipeline.completed"}) : \A j \in Of(s, {"pipeline.completed"}) : k <= j}
  IN  \A k \in first : \A i \in 0 .. s[k].stages - 1 :
        \E e \in Of(s, LifecycleTypes) : s[e].stage = i

StagesInRange(s) ==
  (\E k \in DOMAIN s : s[k].stages > 0) =>
    \A k \in DOMAIN s : s[k].stage >= -1 /\ \E j \in DOMAIN s : s[k].stage < s[j].stages

(* I12: success needs an exit code of zero, of whichever process. *)
SuccessHasExit(s) ==
  LET ends == Of(s, TerminalEvents)
  IN  (\E k \in ends : s[k].type = "execution.completed" /\ \A j \in ends : k <= j) =>
        \E k \in Of(s, {"process.exited"}) : s[k].exit = "zero"

ValidStream(s, status, NoPid) ==
  /\ OneSession(s) /\ NothingTwice(s) /\ Increasing(s) /\ Contiguous(s) /\ HasOrigin(s)
  /\ EndsOnce(s) /\ NoLateSnapshot(s) /\ AgreesWithRow(s, status)
  /\ NoOrphans(s, NoPid) /\ StagesAccounted(s) /\ StagesInRange(s) /\ SuccessHasExit(s)

(* validateEventStream: the verdict on a list of events in any order.  An  *)
(* unreadable payload (I13) is a warning, which leaves a stream valid.     *)
ValidateEventStream(events, status, NoPid) ==
  [valid    |-> ValidStream(InOrder(events), status, NoPid),
   warnings |-> Cardinality({k \in DOMAIN events : ~events[k].readable})]
=============================================================================
