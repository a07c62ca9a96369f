----------------------------- MODULE Signalling -----------------------------
(***************************************************************************)
(* How the gateway signals an execution: terminator.ts with the pidfd      *)
(* helper, the identities ExecutionRunner.observe captures, and the part   *)
(* of the kernel they rely on, where process and group numbers are reused. *)
(*                                                                         *)
(* A process is the number of its birth, which stands for its start ticks: *)
(* no two processes that hold one PID have the same ticks.  Everything the *)
(* gateway does between two awaits is one turn; processes are born and die *)
(* inside a turn as well, between the look into /proc and the kill(2).     *)
(***************************************************************************)
EXTENDS Integers, Sequences, FiniteSets

CONSTANTS
    MaxStages,   \* bound: stages of the pipeline
    Pids,        \* process numbers, all above 1
    Requests,    \* calls of terminateActive: timeout, terminate, shutdown
    MaxBirths    \* bound: processes ever born

ASSUME SignallingAssumption ==
    /\ MaxStages \in Nat \ {0}
    /\ Pids \subseteq Nat \ {0, 1}
    /\ MaxBirths \in Nat

VARIABLES
    count,     \* stages of this pipeline
    table,     \* PID -> the process that holds it
    clock,     \* births so far
    stages,    \* PID and birth of each stage launched, in order
    reaped,    \* stages the engine has waited for, in order
    read,      \* process.started lines the gateway has observed
    active,    \* of the ActiveSession: childPid, childPgid, ownedIdentities
    closed,    \* the execution is finalized and out of the registry
    helper,    \* the cached pidfdCapability
    req,       \* request -> where its code is
    hits       \* signals that reached a running process

kernel == <<table, clock>>
engine == <<stages, reaped>>
session == <<read, active, closed>>
vars == <<count, kernel, engine, session, helper, req, hits>>

Free     == [born |-> 0, stage |-> 0, group |-> 0, deaf |-> FALSE, zombie |-> FALSE]
Outside  == 0     \* a group no request ever addresses
NoPid    == 0     \* null

-----------------------------------------------------------------------------
(* The kernel: a zombie holds its number until it is reaped, and a number  *)
(* is not given away while a group has it.                                 *)
Held(p)  == table[p].born # 0
Runs(p)  == Held(p) /\ ~table[p].zombie
Unused   == {p \in Pids : ~Held(p) /\ \A q \in Pids : table[q].group # p}
Group(g) == {p \in Pids : Held(p) /\ table[p].group = g}
Births(s) == {table[p].born : p \in s}

(* A signal ends those that run and do not ignore it.  The engine's        *)
(* children become zombies; a stranger is reaped by its own parent.        *)
Struck(sig, s) ==
    [p \in Pids |->
        IF p \in s /\ Runs(p) /\ (sig = "KILL" \/ ~table[p].deaf)
        THEN IF table[p].stage = 0 THEN Free ELSE [table[p] EXCEPT !.zombie = TRUE]
        ELSE table[p]]

(* What the properties need to know of a signal that reached a process:    *)
(* the call, whom it was meant for, and the clock when that was verified.  *)
Hit(how, sig, r, p) ==
    [how |-> how, sig |-> sig, by |-> r, want |-> req[r].want, checked |-> req[r].checked,
     victim |-> table[p].born]

Deliver(how, sig, r, s) ==
    /\ table' = Struck(sig, s)
    /\ hits' = hits \cup {Hit(how, sig, r, p) : p \in {q \in s : Runs(q)}}
    /\ UNCHANGED clock

(* Between the check and the kill(2) of one turn nothing else of the       *)
(* gateway runs.                                                           *)
InTurn == {"group", "captured", "group kill", "bare kill"}
Busy   == \E r \in Requests : req[r].at \in InTurn

-----------------------------------------------------------------------------
Idle == [at |-> "idle", pgid |-> NoPid, next |-> 0, saw |-> 0, fd |-> 0,
         checked |-> 0, want |-> {}, refused |-> {}]

Init ==
    /\ count \in 1..MaxStages
    /\ table = [p \in Pids |-> Free] /\ clock = 0
    /\ stages = <<>> /\ reaped = 0
    /\ read = 0 /\ closed = FALSE
    /\ active = [childPid |-> NoPid, childPgid |-> NoPid, owned |-> <<>>]
    /\ helper = "unknown"
    /\ req = [r \in Requests |-> Idle]
    /\ hits = {}

(* The engine forks the stages before it waits for any.  The stages of a   *)
(* pipeline share the group of the first, which a program may leave        *)
(* (setsid); a single command stays in the engine's own group.             *)
Launch(p, deaf, kept) ==
    /\ Len(stages) < count
    /\ p \in Unused /\ clock < MaxBirths
    /\ kept \/ (count > 1 /\ stages # <<>>)
    /\ clock' = clock + 1
    /\ LET leader == IF stages = <<>> THEN p ELSE stages[1].pid
           group  == IF count = 1 THEN Outside ELSE IF kept THEN leader ELSE p
       IN  table' = [table EXCEPT ![p] = [born |-> clock + 1, stage |-> Len(stages) + 1,
                                          group |-> group, deaf |-> deaf, zombie |-> FALSE]]
    /\ stages' = Append(stages, [pid |-> p, born |-> clock + 1, kept |-> kept])
    /\ UNCHANGED <<count, reaped, session, helper, req, hits>>

(* The reap loop waits for the stages in order.                            *)
Reap ==
    /\ Len(stages) = count /\ reaped < count
    /\ LET p == stages[reaped + 1].pid
       IN  /\ table[p].zombie
           /\ table' = [table EXCEPT ![p] = Free]
    /\ reaped' = reaped + 1
    /\ UNCHANGED <<count, clock, stages, session, helper, req, hits>>

Exit(p) ==
    /\ Runs(p)
    /\ table' = [table EXCEPT ![p] = IF @.stage = 0 THEN Free ELSE [@ EXCEPT !.zombie = TRUE]]
    /\ UNCHANGED <<count, clock, engine, session, helper, req, hits>>

(* A process of somebody else takes a number that is free, in a group of   *)
(* its own or in one that exists.                                          *)
Stranger(p, leads) ==
    /\ p \in Unused /\ clock < MaxBirths
    /\ clock' = clock + 1
    /\ table' = [table EXCEPT ![p] = [born |-> clock + 1, stage |-> 0,
                                      group |-> IF leads THEN p ELSE Outside,
                                      deaf |-> FALSE, zombie |-> FALSE]]
    /\ UNCHANGED <<count, engine, session, helper, req, hits>>

-----------------------------------------------------------------------------
(* /proc/<pid>/stat as it reads now. *)
Ticks(p) == table[p].born

(* observe(process.started): the identity is read when the line is, which  *)
(* may be after the process was reaped; it is then that of whoever holds   *)
(* the number, or none.                                                    *)
Observe ==
    /\ read < Len(stages)
    /\ ~Busy
    /\ read' = read + 1
    /\ LET p        == stages[read + 1].pid
           recorded == \E i \in DOMAIN active.owned : active.owned[i].pid = p
       IN  active' = [childPid  |-> p,
                      childPgid |-> IF count > 1 THEN stages[1].pid ELSE active.childPgid,
                      owned     |-> IF Held(p) /\ ~recorded
                                    THEN Append(active.owned, [pid |-> p, born |-> Ticks(p)])
                                    ELSE active.owned]
    /\ UNCHANGED <<count, kernel, engine, closed, helper, req, hits>>

(* The engine has exited and every line was read: finalize. *)
Close ==
    /\ ~closed /\ ~Busy
    /\ reaped = count /\ read = count
    /\ closed' = TRUE
    /\ UNCHANGED <<count, kernel, engine, read, active, helper, req, hits>>

-----------------------------------------------------------------------------
(* signalProcessGroup: some owned process still has its ticks and is in    *)
(* the group.  The members are read when the check runs.                   *)

(* Mutant: the group's first process alone is looked for.                  *)
Verified_LeaderOnly(pgid) ==
    /\ active.owned # <<>>
    /\ LET m == active.owned[1]
       IN  Ticks(m.pid) = m.born /\ table[m.pid].group = pgid

(* Mutant: the number is taken for the process.                            *)
Verified_PidOnly(pgid) ==
    \E i \in DOMAIN active.owned :
        LET m == active.owned[i]
        IN  Held(m.pid) /\ table[m.pid].group = pgid

Verified(pgid) ==
    /\ pgid > 1
    /\ \E i \in DOMAIN active.owned :
          LET m == active.owned[i]
          IN  Ticks(m.pid) = m.born /\ table[m.pid].group = pgid

(* signalCapturedIdentity for the process of the last line.                *)
Captured == {i \in DOMAIN active.owned : active.owned[i].pid = active.childPid}
CapturedLives == \E i \in Captured : Ticks(active.childPid) = active.owned[i].born

Goto(r, q) == req' = [req EXCEPT ![r] = q]

ToCaptured(r) ==
    Goto(r, [req[r] EXCEPT !.at = IF CapturedLives THEN "captured" ELSE "done",
                           !.pgid = active.childPgid,
                           !.checked = clock,
                           !.want = {active.owned[i].born : i \in Captured}])

(* terminateGracefully: the group if a member verifies, else the captured  *)
(* process, else nothing at all.                                           *)
Terminate(r) ==
    /\ req[r].at = "idle"
    /\ ~closed /\ ~Busy
    /\ IF Verified(active.childPgid)
       THEN Goto(r, [req[r] EXCEPT !.at = "group",
                                   !.pgid = active.childPgid,
                                   !.checked = clock,
                                   !.want = Births(Group(active.childPgid))])
       ELSE ToCaptured(r)
    /\ UNCHANGED <<count, kernel, engine, session, helper, hits>>

(* kill(-pgid, SIGTERM), which fails when the group is empty by now. *)
TermGroup(r) ==
    /\ req[r].at = "group"
    /\ IF Group(req[r].pgid) # {}
       THEN /\ Deliver("kill-group", "TERM", r, Group(req[r].pgid))
            /\ Goto(r, [req[r] EXCEPT !.at = "grace"])
       ELSE /\ ToCaptured(r)
            /\ UNCHANGED <<kernel, hits>>
    /\ UNCHANGED <<count, engine, session, helper>>

(* kill(pid, SIGTERM) to whoever holds the number by now. *)
TermCaptured(r) ==
    /\ req[r].at = "captured"
    /\ IF Held(active.childPid)
       THEN /\ Deliver("kill", "TERM", r, {active.childPid})
            /\ Goto(r, [req[r] EXCEPT !.at = "grace"])
       ELSE /\ Goto(r, [req[r] EXCEPT !.at = "done"])
            /\ UNCHANGED <<kernel, hits>>
    /\ UNCHANGED <<count, engine, session, helper>>

(* The grace period is over, also for an execution that has been closed:   *)
(* nothing clears this timer.                                              *)
Expire(r) ==
    /\ req[r].at = "grace"
    /\ ~Busy
    /\ IF Verified(req[r].pgid)
       THEN Goto(r, [req[r] EXCEPT !.at = "group kill",
                                   !.checked = clock,
                                   !.want = Births(Group(req[r].pgid))])
       ELSE Goto(r, [req[r] EXCEPT !.at = "track", !.next = 1])
    /\ UNCHANGED <<count, kernel, engine, session, helper, hits>>

KillGroup(r) ==
    /\ req[r].at = "group kill"
    /\ IF Group(req[r].pgid) # {}
       THEN /\ Deliver("kill-group", "KILL", r, Group(req[r].pgid))
            /\ Goto(r, [req[r] EXCEPT !.at = "done"])
       ELSE /\ Goto(r, [req[r] EXCEPT !.at = "track", !.next = 1])
            /\ UNCHANGED <<kernel, hits>>
    /\ UNCHANGED <<count, engine, session, helper>>

-----------------------------------------------------------------------------
(* escalateTrackedIdentities: one identity after the other, until one was  *)
(* signalled.  escalateTo reads /proc first and then awaits the helper.    *)
Expected(r) == active.owned[req[r].next]

(* Mutant: after a refusal the process is killed by its number.            *)
Decline_FallsBack(r) ==
    Goto(r, [req[r] EXCEPT !.at = "bare kill", !.refused = @ \cup {Expected(r).born}])

(* The helper ran and declined; the next identity is tried. *)
Decline(r) ==
    Goto(r, [req[r] EXCEPT !.at = "track", !.next = @ + 1,
                           !.refused = @ \cup {Expected(r).born}])

ReadIdentity(r) ==
    /\ req[r].at = "track"
    /\ ~Busy
    /\ IF req[r].next > Len(active.owned)
       THEN Goto(r, [req[r] EXCEPT !.at = "done"])
       ELSE IF ~Held(Expected(r).pid)
       THEN Goto(r, [req[r] EXCEPT !.next = @ + 1])
       ELSE Goto(r, [req[r] EXCEPT !.at = CASE helper = "unknown" -> "probing"
                                            [] helper = "available" -> "opening"
                                            [] helper = "unavailable" -> "compare",
                                   !.saw = Ticks(Expected(r).pid),
                                   !.checked = clock,
                                   !.want = {Expected(r).born}])
    /\ UNCHANGED <<count, kernel, engine, session, helper, hits>>

(* pidfdCapability: the first call probes, which takes up to five seconds; *)
(* a probe that fails or times out is remembered for good.                 *)
Probe(r, works) ==
    /\ req[r].at = "probing"
    /\ ~Busy
    /\ helper' = IF works THEN "available" ELSE "unavailable"
    /\ Goto(r, [req[r] EXCEPT !.at = IF works THEN "opening" ELSE "compare"])
    /\ UNCHANGED <<count, kernel, engine, session, hits>>

(* bind_pidfd: the handle is that of whoever holds the number now ... *)
Open(r) ==
    /\ req[r].at = "opening"
    /\ IF Held(Expected(r).pid)
       THEN Goto(r, [req[r] EXCEPT !.at = "bound", !.fd = Ticks(Expected(r).pid)])
       ELSE Decline(r)
    /\ UNCHANGED <<count, kernel, engine, session, helper, hits>>

(* Mutant: the handle alone is trusted.                                    *)
Bind_Trusting(r) ==
    /\ req[r].at = "bound"
    /\ Goto(r, [req[r] EXCEPT !.at = "verified"])
    /\ UNCHANGED <<count, kernel, engine, session, helper, hits>>

(* ... and only then are the start ticks compared. *)
Bind(r) ==
    /\ req[r].at = "bound"
    /\ IF Ticks(Expected(r).pid) = Expected(r).born
       THEN Goto(r, [req[r] EXCEPT !.at = "verified"])
       ELSE Decline(r)
    /\ UNCHANGED <<count, kernel, engine, session, helper, hits>>

Bound(r) == {p \in Pids : Held(p) /\ table[p].born = req[r].fd}

(* pidfd_send_signal: the process of the handle, or ESRCH.  The gateway    *)
(* may stop waiting for the helper before its answer comes.                *)
Send(r, answered) ==
    /\ req[r].at = "verified"
    /\ IF Bound(r) # {}
       THEN Deliver("pidfd", "KILL", r, Bound(r))
       ELSE UNCHANGED <<kernel, hits>>
    /\ IF Bound(r) # {} /\ answered
       THEN Goto(r, [req[r] EXCEPT !.at = "done"])
       ELSE Decline(r)
    /\ UNCHANGED <<count, engine, session, helper>>

(* execFile gives the helper five seconds. *)
HelperTimeout(r) ==
    /\ req[r].at \in {"opening", "bound", "verified"}
    /\ Decline(r)
    /\ UNCHANGED <<count, kernel, engine, session, helper, hits>>

(* Without pidfd: the ticks read before the await are compared now.        *)
Compare(r) ==
    /\ req[r].at = "compare"
    /\ ~Busy
    /\ IF req[r].saw = Expected(r).born
       THEN Goto(r, [req[r] EXCEPT !.at = "bare kill"])
       ELSE Goto(r, [req[r] EXCEPT !.at = "track", !.next = @ + 1])
    /\ UNCHANGED <<count, kernel, engine, session, helper, hits>>

BareKill(r) ==
    /\ req[r].at = "bare kill"
    /\ IF Held(Expected(r).pid)
       THEN /\ Deliver("kill", "KILL", r, {Expected(r).pid})
            /\ Goto(r, [req[r] EXCEPT !.at = "done"])
       ELSE /\ Goto(r, [req[r] EXCEPT !.at = "track", !.next = @ + 1])
            /\ UNCHANGED <<kernel, hits>>
    /\ UNCHANGED <<count, engine, session, helper>>

-----------------------------------------------------------------------------
Gateway(r) ==
    \/ Terminate(r) \/ TermGroup(r) \/ TermCaptured(r)
    \/ Expire(r) \/ KillGroup(r)
    \/ ReadIdentity(r) \/ \E works \in BOOLEAN : Probe(r, works)
    \/ Open(r) \/ Bind(r) \/ \E answered \in BOOLEAN : Send(r, answered)
    \/ HelperTimeout(r)
    \/ Compare(r) \/ BareKill(r)

Next ==
    \/ \E p \in Pids : \E deaf, kept \in BOOLEAN : Launch(p, deaf, kept)
    \/ Reap
    \/ \E p \in Pids : Exit(p) \/ \E leads \in BOOLEAN : Stranger(p, leads)
    \/ Observe \/ Close
    \/ \E r \in Requests : Gateway(r)

Spec == Init /\ [][Next]_vars

(* Once a request is under way its code goes on: timers fire, the helper   *)
(* answers or is given up.  Nobody has to ask, and nothing else has to     *)
(* happen.                                                                 *)
GoesOn(r) == Gateway(r) /\ req[r].at # "idle"
LiveSpec == Spec /\ \A r \in Requests : WF_vars(GoesOn(r))

-----------------------------------------------------------------------------
Processes ==
    [born : 0..MaxBirths, stage : 0..MaxStages, group : Pids \cup {Outside},
     deaf : BOOLEAN, zombie : BOOLEAN]
Identities == [pid : Pids, born : 1..MaxBirths]
Places ==
    {"idle", "group", "captured", "grace", "group kill", "track", "probing", "opening",
     "bound", "verified", "compare", "bare kill", "done"}
RequestStates ==
    [at : Places, pgid : Pids \cup {NoPid}, next : Nat, saw : 0..MaxBirths, fd : 0..MaxBirths,
     checked : 0..MaxBirths, want : SUBSET (0..MaxBirths), refused : SUBSET (0..MaxBirths)]

TypeOK ==
    /\ count \in 1..MaxStages
    /\ table \in [Pids -> Processes]
    /\ clock \in 0..MaxBirths
    /\ stages \in Seq([pid : Pids, born : 1..MaxBirths, kept : BOOLEAN])
    /\ Len(stages) <= count
    /\ reaped \in 0..MaxStages /\ read \in 0..MaxStages
    /\ active \in [childPid : Pids \cup {NoPid}, childPgid : Pids \cup {NoPid},
                   owned : Seq(Identities)]
    /\ closed \in BOOLEAN
    /\ helper \in {"unknown", "available", "unavailable"}
    /\ req \in [Requests -> RequestStates]
=============================================================================
