----------------------------- MODULE EvidenceMC -----------------------------
(* Instances of EvidenceProperties for TLC. *)
EXTENDS EvidenceProperties

Reading(cpu, rss, read, write) ==
  [m \in Metrics |-> CASE m = "cpu" -> cpu [] m = "rss" -> rss [] m = "read" -> read
                       [] m = "write" -> write [] OTHER -> None]

Idle == Reading(0, 1, 0, None)
Computing == Reading(2, 1, 1, 0)
Writing == Reading(1, 2, 1, 2)

Plan(count, load, maxSkews, maxChoices) ==
  [stages |-> count, load |-> load, skews |-> maxSkews, choices |-> maxChoices]

(* One process under a clock that is set, watched and not; two processes.  *)
(* The highest values come first, in the middle, or last.                  *)
MCPlans ==
  {Plan(1, <<Computing, Writing>>, 1, 1), Plan(1, <<Idle, Computing, Writing, Idle>>, 0, 0),
   Plan(1, <<Idle, Writing, Computing>>, 1, 0), Plan(1, <<Writing>>, 0, 2), Plan(2, <<Idle, Writing>>, 0, 1)}
=============================================================================
