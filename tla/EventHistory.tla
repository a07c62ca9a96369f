---------------------------- MODULE EventHistory ----------------------------
(***************************************************************************)
(* What the recorder promises of every session, said without a runner, a   *)
(* registry or an engine: a session has a status and a history of numbered *)
(* events.  A history begins with execution.created, grows only above its  *)
(* last entry and only while the session is open, and is closed in one     *)
(* step by the event that announces the status the session then keeps,     *)
(* until the session is forgotten altogether.                              *)
(***************************************************************************)
EXTENDS CanonicalEvents

CONSTANT Sessions

VARIABLES
  status,    \* one of RowStatuses
  history    \* a set of [seq, type] entries

Init ==
  /\ status = [s \in Sessions |-> "NONE"]
  /\ history = [s \in Sessions |-> {}]

New(s) == history'[s] \ history[s]

(* The history of s grows, above its last entry, by events of these types. *)
Grows(s, types) ==
  /\ history[s] \subseteq history'[s]
  /\ \A e \in New(s) : e.type \in types /\ \A f \in history[s] : f.seq < e.seq

(* The history of s is now closed by the event of its new status. *)
Closes(s) ==
  /\ status'[s] \in TerminalStatuses
  /\ \E t \in New(s) :
       /\ t.type = FinalType(status'[s])
       /\ \A e \in history'[s] : e = t \/ (e.seq < t.seq /\ e.type \in OpenEvents)

Begin(s) ==
  /\ status[s] = "NONE" /\ history[s] = {}
  /\ [seq |-> 0, type |-> "execution.created"] \in history'[s]
  /\ \/ status'[s] = "CREATED" /\ \A e \in history'[s] : e.type \in OpenEvents
     \/ Closes(s)

Append(s) ==
  /\ status[s] = "CREATED" /\ status'[s] = "CREATED"
  /\ Grows(s, OpenEvents)

End(s) ==
  /\ status[s] = "CREATED"
  /\ Grows(s, EventTypes)
  /\ Closes(s)

Forget(s) ==
  /\ status[s] \notin {"NONE", "DELETED"}
  /\ status'[s] = "DELETED" /\ history'[s] = {}

Unchanged(s) == status'[s] = status[s] /\ history'[s] = history[s]

(* A boot or a shutdown may end many sessions in one step.  The two        *)
(* functions keep their domain: `status` and `history` are total.          *)
Next ==
  /\ DOMAIN status' = Sessions /\ DOMAIN history' = Sessions
  /\ \A s \in Sessions : Begin(s) \/ Append(s) \/ End(s) \/ Forget(s) \/ Unchanged(s)

Spec == Init /\ [][Next]_<<status, history>>
=============================================================================
