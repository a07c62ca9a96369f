------------------------ MODULE SignallingProperties ------------------------
(***************************************************************************)
(* Whom a signal of the gateway may reach, and that it reaches everybody   *)
(* it is meant for.                                                        *)
(***************************************************************************)
EXTENDS Signalling

(* pidfd.c: "There is no ordering in which a live check passes and the     *)
(* signal reaches a different process": a signal sent through a handle     *)
(* reaches the process whose identity was captured, whatever was reused    *)
(* before, between and after its three steps.                              *)
PidfdIsExact == \A h \in hits : h.how = "pidfd" => h.want = {h.victim}

(* The kill(2) paths cannot be exact.  What their checks do guarantee: the *)
(* number or the group held a captured process when it was checked, and a  *)
(* process that was not there at the check is reached only if it was born  *)
(* after it.                                                               *)
OwnedBirths == {active.owned[i].born : i \in DOMAIN active.owned}

OnlyInTheWindow ==
    \A h \in hits : /\ h.want \cap OwnedBirths # {}
                    /\ h.victim \in h.want \/ h.victim > h.checked

(* "there is deliberately no fallback": an identity the helper refused is  *)
(* not killed by its number in the same escalation.                        *)
RefusalIsFinal ==
    \A h \in hits : h.how = "kill" /\ h.sig = "KILL" =>
        h.want \cap req[h.by].refused = {}

(* A timeout or a signal reaches the whole pipeline: once a SIGTERM was    *)
(* sent and every stage was observed, all stages end, whichever of them    *)
(* ignore SIGTERM, have ended before or were reaped, as long as none has   *)
(* left the group.                                                         *)
Together == count > 1 /\ read = count /\ \A i \in DOMAIN stages : stages[i].kept
StagesEnded == \A p \in Pids : Runs(p) => table[p].stage = 0

WholePipelineStops ==
    \A r \in Requests : (req[r].at = "grace" /\ Together) ~> StagesEnded
=============================================================================
