---------------------------- MODULE GatewaySafety ----------------------------
(***************************************************************************)
(* What holds of the gateway for every set of sessions, browsers and       *)
(* dashboards, every limit, every bound and every schedule of faults: its  *)
(* state has the types it is meant to have, and the record of every        *)
(* execution is consistent.  RecordInv (GatewayProperties) is inductive    *)
(* relative to the types, as long as the sweep of the registry and an      *)
(* orderly shutdown do not both happen.  The second half of the module     *)
(* shows that the gateway implements the recorder of EventHistory.         *)
(***************************************************************************)
EXTENDS GatewayProperties, WellFoundedInduction, TLAPS

(* The histories the events table can hold: sets of entries with an upper  *)
(* bound on their numbers, so that maxSequence() is defined.               *)
Histories == {h \in SUBSET Entry : \E n \in Nat : \A e \in h : e.seq < n}

TypeInv == TypeOK /\ log \in [Sessions -> Histories]

(* A non-empty history has a last entry.                                   *)
LEMMA LastEntryExists ==
  ASSUME NEW h \in Histories, h # {}
  PROVE  \E e \in h : \A f \in h : f.seq <= e.seq
<1> DEFINE Less   == OpToRel(<, Nat)
           bounds == {n \in Nat : \A e \in h : e.seq <= n}
<1>1. h \subseteq Entry /\ \A e \in h : e.seq \in Nat
  BY DEF Histories, Entry
<1>2. PICK n \in Nat : \A e \in h : e.seq < n
  BY DEF Histories
<1>3. n \in bounds
  BY <1>1, <1>2
<1>4. PICK m \in bounds : \A k \in bounds : <<k, m>> \notin Less
  <2>1. IsWellFoundedOn(Less, Nat)
    BY NatLessThanWellFounded
  <2> QED
    BY <2>1, <1>3, WFMin
<1>5. \A k \in bounds : ~(k < m)
  BY <1>4 DEF OpToRel
<1> HIDE DEF Less
<1>6. \E e \in h : e.seq = m
  <2> SUFFICES ASSUME \A e \in h : e.seq # m PROVE FALSE
    OBVIOUS
  <2>1. \A e \in h : e.seq < m
    BY <1>1, <1>4
  <2>2. m # 0
    BY <2>1, <1>1
  <2>3. m - 1 \in bounds
    BY <2>1, <2>2, <1>1, <1>4
  <2> QED
    BY <2>3, <1>5, <1>4
<1> QED
  BY <1>6, <1>4

(* Histories are closed under what the gateway does to them.               *)
LEMMA HistoryOfOne ==
  ASSUME NEW e \in Entry PROVE {e} \in Histories
<1>1. e.seq \in Nat
  BY DEF Entry
<1>2. \A f \in {e} : f.seq < e.seq + 1
  BY <1>1
<1> QED
  BY <1>1, <1>2 DEF Histories

LEMMA HistoryUnion ==
  ASSUME NEW g \in Histories, NEW h \in Histories PROVE g \cup h \in Histories
<1>1. PICK m \in Nat : \A e \in g : e.seq < m
  BY DEF Histories
<1>2. PICK n \in Nat : \A e \in h : e.seq < n
  BY DEF Histories
<1>3. \A e \in g \cup h : e.seq \in Nat
  BY DEF Histories, Entry
<1>4. m + n \in Nat /\ \A e \in g \cup h : e.seq < m + n
  BY <1>1, <1>2, <1>3
<1> QED
  BY <1>4 DEF Histories

LEMMA HistorySubset ==
  ASSUME NEW h \in Histories, NEW g \in SUBSET h PROVE g \in Histories
BY DEF Histories

LEMMA EmptyHistory == {} \in Histories
BY DEF Histories

-----------------------------------------------------------------------------
(* Type correctness. *)

(* Storing typed entries keeps the table and the streams typed.            *)
LEMMA PersistTyped ==
  ASSUME TypeInv, NEW stored \in [Sessions -> Histories], Persist(stored)
  PROVE  /\ log' \in [Sessions -> Histories]
         /\ log' \in [Sessions -> SUBSET Entry]
         /\ client' \in [Clients -> [watch : Sessions \cup {"nobody"}, live : BOOLEAN, got : SUBSET Nat]]
         /\ \A c \in Clients : client'[c].live => client'[c].watch \in Sessions
<1>1. log' \in [Sessions -> Histories]
  <2>1. \A s \in Sessions : log[s] \cup stored[s] \in Histories
    BY HistoryUnion DEF TypeInv
  <2> QED
    BY <2>1 DEF Persist
<1>2. log' \in [Sessions -> SUBSET Entry]
  BY <1>1 DEF Histories
<1>3. ASSUME NEW c \in Clients
      PROVE  /\ client'[c] \in [watch : Sessions \cup {"nobody"}, live : BOOLEAN, got : SUBSET Nat]
             /\ client'[c].live => client'[c].watch \in Sessions
  <2>1. CASE ~client[c].live
    BY <2>1 DEF Persist, TypeInv, TypeOK
  <2>2. CASE client[c].live
    <3> DEFINE new == stored[client[c].watch]
    <3>1. client[c].watch \in Sessions
      BY <2>2 DEF TypeInv, TypeOK
    <3>2. new \subseteq Entry
      BY <3>1 DEF Histories
    <3>3. {e.seq : e \in new} \subseteq Nat
      BY <3>2 DEF Entry
    <3>4. client'[c] = [client[c] EXCEPT !.got = @ \cup {e.seq : e \in new},
                                         !.live = \A e \in new : e.type \notin TerminalEvents]
      BY <2>2 DEF Persist
    <3>5. client[c] \in [watch : Sessions \cup {"nobody"}, live : BOOLEAN, got : SUBSET Nat]
      BY DEF TypeInv, TypeOK
    <3> HIDE DEF new
    <3> QED
      BY <3>1, <3>3, <3>4, <3>5
  <2> QED
    BY <2>1, <2>2
<1>4. client' = [c \in Clients |-> client'[c]]
  BY DEF Persist
<1> QED
  BY <1>1, <1>2, <1>3, <1>4

(* A step that stores through emit() keeps tables, streams and the count   *)
(* of failed writes typed.                                                 *)
LEMMA EmitTyped ==
  ASSUME TypeInv, NEW s \in Sessions, NEW sent \in Histories, Emit(s, sent)
  PROVE  /\ log' \in [Sessions -> Histories]
         /\ log' \in [Sessions -> SUBSET Entry]
         /\ client' \in [Clients -> [watch : Sessions \cup {"nobody"}, live : BOOLEAN, got : SUBSET Nat]]
         /\ \A c \in Clients : client'[c].live => client'[c].watch \in Sessions
         /\ faults' \in Nat
<1>1. PICK stored \in SUBSET {e \in sent : Accepts(s, e)} :
        /\ Written(stored, {e \in sent : Accepts(s, e)})
        /\ Persist(Only(s, stored))
  BY DEF Emit
<1>2. stored \in Histories
  BY <1>1, HistorySubset
<1>3. Only(s, stored) \in [Sessions -> Histories]
  BY <1>2, EmptyHistory DEF Only
<1>4. faults' \in Nat
  BY <1>1 DEF Written, TypeInv, TypeOK
<1> QED
  BY <1>1, <1>3, <1>4, PersistTyped

(* Every event the gateway builds is an entry of the table.                *)
LEMMA EventTyped ==
  ASSUME NEW n \in Nat, NEW type \in EventTypes
  PROVE  Event(n, type) \in Entry /\ {Event(n, type)} \in Histories
<1>1. Event(n, type) \in Entry
  BY DEF Event, Entry
<1> QED
  BY <1>1, HistoryOfOne

LEMMA TypesOfEvents ==
  /\ "execution.created" \in EventTypes /\ "execution.started" \in EventTypes
  /\ "execution.failed" \in EventTypes /\ "process.snapshot" \in EventTypes
  /\ \A status : FinalType(status) \in EventTypes /\ FinalType(status) \in TerminalEvents
  /\ \A line \in Lines : line.type \in EventTypes
BY DEF EventTypes, OpenEvents, GatewayEvents, TerminalEvents, FinalType, Lines

(* What the actions write into an ActiveSession keeps its shape.           *)
LEMMA ActiveUpdates ==
  ASSUME NEW a \in ActiveSession, NEW b \in BOOLEAN, NEW e \in {"none", "pending"}
  PROVE  /\ [a EXCEPT !.sampling = b] \in ActiveSession
         /\ [a EXCEPT !.escalation = e] \in ActiveSession
         /\ [a EXCEPT !.terminateRequested = TRUE, !.escalation = e] \in ActiveSession
         /\ [a EXCEPT !.timedOut = TRUE, !.state = "TIMED_OUT", !.escalation = e] \in ActiveSession
BY DEF ActiveSession

LEMMA NoActiveTyped == NoActive \in ActiveSession
BY DEF ActiveSession, NoActive, NoEvidence, Evidence, Outcomes

LEMMA SamplingStops ==
  ASSUME TypeInv, NEW s \in Sessions, NEW b \in BOOLEAN,
         active' = [active EXCEPT ![s].sampling = b]
  PROVE  active' \in [Sessions -> ActiveSession]
<1>1. active \in [Sessions -> ActiveSession]
  BY DEF TypeInv, TypeOK
<1>2. [active[s] EXCEPT !.sampling = b] \in ActiveSession
  BY <1>1, ActiveUpdates
<1> QED
  BY <1>1, <1>2

LEMMA ObservedTyped ==
  ASSUME NEW a \in ActiveSession, NEW line \in Lines, NEW alive \in BOOLEAN
  PROVE  Observed(a, line, alive) \in ActiveSession
<1>1. Observe(a.evidence, line) \in Evidence
  BY DEF Observe, Evidence, ActiveSession, Lines, Marks, Outcomes
<1>2. a.sampling \in BOOLEAN /\ a.identity \in BOOLEAN /\ a.state \in {"RUNNING", "TIMED_OUT"}
  BY DEF ActiveSession
<1>3. CASE line.type = "process.started"
  <2>1. Observed(a, line, alive) =
          [a EXCEPT !.evidence = Observe(@, line), !.state = "RUNNING",
                    !.identity = alive, !.sampling = alive]
    BY <1>3 DEF Observed
  <2> QED
    BY <1>1, <1>2, <2>1 DEF ActiveSession
<1>4. CASE line.type # "process.started"
  <2> DEFINE still == a.sampling /\ line.type \notin EndOfProcess
  <2>1. Observed(a, line, alive) =
          [a EXCEPT !.evidence = Observe(@, line), !.state = @, !.identity = @, !.sampling = still]
    BY <1>4 DEF Observed
  <2>2. still \in BOOLEAN
    BY <1>2
  <2> HIDE DEF still
  <2> QED
    BY <1>1, <1>2, <2>1, <2>2 DEF ActiveSession
<1> QED
  BY <1>3, <1>4


LEMMA ExitLinesTyped ==
  ASSUME NEW how \in {"ok", "failed", "signaled", "noexec", "unknown"}
  PROVE  ExitLines(how) \in Seq(Lines) /\ Append(ExitLines(how), Summary) \in Seq(Lines)
<1>1. Summary \in Lines
  BY DEF Summary, Line, Lines, EngineEvents, Outcomes
<1>2. ExitLines(how) \in Seq(Lines)
  <2>1. /\ Line("process.exited", "COMPLETED") \in Lines
        /\ Line("process.exited", "EXITED") \in Lines
        /\ Line("process.exited", "SIGNALED") \in Lines
        /\ Line("signal.received", "SIGNALED") \in Lines
        /\ Line("process.exec_error", "EXEC_FAILED") \in Lines
        /\ Line("process.wait_failed", "WAIT_FAILED") \in Lines
    BY DEF Line, Lines, EngineEvents, Outcomes
  <2> HIDE DEF Line
  <2> QED
    BY <2>1 DEF ExitLines
<1> QED
  BY <1>1, <1>2

LEMMA ReportedTyped ==
  ASSUME TypeInv, NEW s \in Sessions, NEW lines \in Seq(Lines), Reported(s, lines)
  PROVE  pipe' \in [Sessions -> Seq(Lines)]
<1>1. pipe \in [Sessions -> Seq(Lines)]
  BY DEF TypeInv, TypeOK
<1>2. pipe[s] \o lines \in Seq(Lines)
  BY <1>1
<1> QED
  BY <1>1, <1>2 DEF Reported

(* The number a recovery takes is a natural number. *)
LEMMA RecoveryTyped ==
  ASSUME TypeInv, NEW s \in Sessions
  PROVE  Recovery(s) \in Entry /\ {Recovery(s)} \in Histories
<1>1. NextNumber(s) \in Nat
  <2>1. CASE log[s] = {}
    BY <2>1 DEF NextNumber
  <2>2. CASE log[s] # {}
    <3>1. log[s] \in Histories
      BY DEF TypeInv
    <3>2. \E e \in log[s] : \A f \in log[s] : f.seq <= e.seq
      BY <2>2, <3>1, LastEntryExists
    <3>3. \A e \in log[s] : e.seq \in Nat
      BY <3>1 DEF Histories, Entry
    <3> QED
      BY <2>2, <3>2, <3>3 DEF NextNumber
  <2> QED
    BY <2>1, <2>2
<1> QED
  BY <1>1, EventTyped, TypesOfEvents DEF Recovery

LEMMA InitTyped == Init => TypeInv
BY EmptyHistory
   DEF Init, TypeInv, TypeOK, Phases, RowStatuses, TerminalStatuses, NoActive, ActiveSession,
       NoEvidence, Evidence, Outcomes, NoStream

(* Every action keeps the state well typed. *)
LEMMA NextTyped == TypeInv /\ Next => TypeInv'
<1> SUFFICES ASSUME TypeInv, Next PROVE TypeInv'
  OBVIOUS
<1> USE DEF db, memory, os, control
<1>0. /\ active \in [Sessions -> ActiveSession]
      /\ nextSeq \in [Sessions -> Nat]
      /\ pipe \in [Sessions -> Seq(Lines)]
  BY DEF TypeInv, TypeOK
<1>1. ASSUME NEW s \in Sessions, Admit(s) PROVE TypeInv'
  <2>1. PICK kept \in SUBSET {Event(1, "execution.started")} :
          /\ Written(kept, {Event(1, "execution.started")})
          /\ Persist(Only(s, {Created} \cup kept))
    BY <1>1 DEF Admit
  <2>2. Only(s, {Created} \cup kept) \in [Sessions -> Histories]
    <3>1. {Created} \in Histories /\ {Event(1, "execution.started")} \in Histories
      BY EventTyped, TypesOfEvents DEF Created
    <3>2. {Created} \cup kept \in Histories
      BY <3>1, HistoryUnion, HistorySubset
    <3> QED
      BY <3>2, EmptyHistory DEF Only
  <2>3. faults' \in Nat
    BY <2>1 DEF Written, TypeInv, TypeOK
  <2> QED
    BY <1>1, <2>1, <2>2, <2>3, PersistTyped DEF Admit, Register, TypeInv, TypeOK, RowStatuses
<1>2. ASSUME NEW s \in Sessions, RefuseStart(s) PROVE TypeInv'
  <2>1. PICK kept \in SUBSET {Event(1, "execution.failed")} :
          /\ Written(kept, {Event(1, "execution.failed")})
          /\ Persist(Only(s, {Created} \cup kept))
    BY <1>2 DEF RefuseStart
  <2>2. Only(s, {Created} \cup kept) \in [Sessions -> Histories]
    <3>1. {Created} \in Histories /\ {Event(1, "execution.failed")} \in Histories
      BY EventTyped, TypesOfEvents DEF Created
    <3>2. {Created} \cup kept \in Histories
      BY <3>1, HistoryUnion, HistorySubset
    <3> QED
      BY <3>2, EmptyHistory DEF Only
  <2>3. faults' \in Nat
    BY <2>1 DEF Written, TypeInv, TypeOK
  <2> QED
    BY <1>2, <2>1, <2>2, <2>3, PersistTyped DEF RefuseStart, TypeInv, TypeOK, RowStatuses, TerminalStatuses
<1>3. ASSUME NEW s \in Sessions, SpawnError(s) PROVE TypeInv'
  <2>1. {Event(nextSeq[s], "execution.failed")} \in Histories
    BY <1>0, EventTyped, TypesOfEvents
  <2>2. Emit(s, {Event(nextSeq[s], "execution.failed")})
    BY <1>3 DEF SpawnError, FinalizeFailed
  <2>3. active' \in [Sessions -> ActiveSession]
    BY <1>3, SamplingStops DEF SpawnError, FinalizeFailed
  <2> QED
    BY <1>3, <2>1, <2>2, <2>3, EmitTyped
       DEF SpawnError, FinalizeFailed, TypeInv, TypeOK, RowStatuses, TerminalStatuses
<1>4. ASSUME NEW s \in Sessions, Close(s) PROVE TypeInv'
  <2> DEFINE final    == Event(nextSeq[s], FinalType(Verdict(s)))
             accepted == {e \in {final} : Accepts(s, e)}
  <2>1. PICK stored \in SUBSET accepted :
          /\ Written(stored, accepted)
          /\ Persist(Only(s, stored))
          /\ row' = IF stored = {} THEN row ELSE [row EXCEPT ![s] = Verdict(s)]
          /\ nextSeq' = [nextSeq EXCEPT ![s] = @ + IF stored = {} THEN 2 ELSE 1]
    BY <1>4 DEF Close, Finalize
  <2>2. Only(s, stored) \in [Sessions -> Histories]
    <3>1. {final} \in Histories
      BY <1>0, EventTyped, TypesOfEvents
    <3>2. stored \in Histories
      BY <3>1, HistorySubset
    <3> QED
      BY <3>2, EmptyHistory DEF Only
  <2>3. Verdict(s) \in RowStatuses
    BY DEF Verdict, DecideStatus, RowStatuses, TerminalStatuses
  <2>4. active' \in [Sessions -> ActiveSession]
    BY <1>4, SamplingStops DEF Close, Finalize
  <2>5. faults' \in Nat
    BY <2>1 DEF Written, TypeInv, TypeOK
  <2>6. row' \in [Sessions -> RowStatuses] /\ nextSeq' \in [Sessions -> Nat]
    BY <2>1, <2>3 DEF TypeInv, TypeOK
  <2> QED
    BY <1>4, <2>1, <2>2, <2>4, <2>5, <2>6, PersistTyped DEF Close, Finalize, TypeInv, TypeOK
<1>5. ASSUME NEW s \in Sessions, DeliverLine(s) PROVE TypeInv'
  <2> DEFINE sent == {Event(nextSeq[s], Head(pipe[s]).type)} \cup
                     (IF StartsLoop(s) THEN {Event(nextSeq[s] + 1, "process.snapshot")} ELSE {})
  <2>1. Head(pipe[s]) \in Lines /\ Tail(pipe[s]) \in Seq(Lines)
    BY <1>0, <1>5 DEF DeliverLine
  <2>2. sent \in Histories
    <3>1. {Event(nextSeq[s], Head(pipe[s]).type)} \in Histories
      BY <1>0, <2>1, EventTyped, TypesOfEvents
    <3>2. {Event(nextSeq[s] + 1, "process.snapshot")} \in Histories
      <4>1. nextSeq[s] + 1 \in Nat
        BY <1>0
      <4> QED
        BY <4>1, EventTyped, TypesOfEvents
    <3> QED
      BY <3>1, <3>2, HistoryUnion, EmptyHistory
  <2>3. Emit(s, sent)
    BY <1>5 DEF DeliverLine
  <2>4. active' \in [Sessions -> ActiveSession]
    <3>1. Observed(active[s], Head(pipe[s]), engine[s] = "running") \in ActiveSession
      BY <1>0, <2>1, ObservedTyped
    <3> QED
      BY <1>0, <1>5, <3>1 DEF DeliverLine
  <2>5. nextSeq' \in [Sessions -> Nat]
    BY <1>0, <1>5 DEF DeliverLine, NumbersUsed
  <2>6. pipe' \in [Sessions -> Seq(Lines)]
    BY <1>0, <1>5, <2>1 DEF DeliverLine
  <2> HIDE DEF sent
  <2> QED
    BY <1>5, <2>2, <2>3, <2>4, <2>5, <2>6, EmitTyped DEF DeliverLine, TypeInv, TypeOK
<1>6. ASSUME NEW s \in Sessions, Sample(s) PROVE TypeInv'
  <2>1. {Event(nextSeq[s], "process.snapshot")} \in Histories
    BY <1>0, EventTyped, TypesOfEvents
  <2>2. active' \in [Sessions -> ActiveSession]
    BY <1>6, SamplingStops DEF Sample
  <2> QED
    BY <1>6, <2>1, <2>2, EmitTyped DEF Sample, TypeInv, TypeOK
<1>7. ASSUME NEW s \in Sessions, Timeout(s) PROVE TypeInv'
  <2> DEFINE armed == IF Signalable(s) THEN "pending" ELSE active[s].escalation
             late  == [active[s] EXCEPT !.timedOut = TRUE, !.state = "TIMED_OUT", !.escalation = armed]
  <2>1. active' = [active EXCEPT ![s] = late]
    BY <1>7 DEF Timeout
  <2>2. armed \in {"none", "pending"}
    BY <1>0 DEF ActiveSession
  <2>3. late \in ActiveSession
    BY <1>0, <2>2, ActiveUpdates
  <2>4. active' \in [Sessions -> ActiveSession]
    BY <1>0, <2>1, <2>3
  <2> QED
    BY <1>7, <2>4 DEF Timeout, TypeInv, TypeOK
<1>8. ASSUME NEW s \in Sessions, Terminate(s) PROVE TypeInv'
  <2> DEFINE asked == [active[s] EXCEPT !.terminateRequested = TRUE, !.escalation = "pending"]
  <2>1. active' = [active EXCEPT ![s] = asked]
    BY <1>8 DEF Terminate
  <2>2. asked \in ActiveSession
    BY <1>0, ActiveUpdates
  <2>3. active' \in [Sessions -> ActiveSession]
    BY <1>0, <2>1, <2>2
  <2>4. killed' \in [Sessions -> BOOLEAN]
    BY <1>8 DEF Terminate, TypeInv, TypeOK
  <2> QED
    BY <1>8, <2>3, <2>4 DEF Terminate, TypeInv, TypeOK
<1>9. ASSUME NEW s \in Sessions, Escalate(s) PROVE TypeInv'
  <2>1. active' = [active EXCEPT ![s] = [active[s] EXCEPT !.escalation = "none"]]
    BY <1>9 DEF Escalate
  <2>2. [active[s] EXCEPT !.escalation = "none"] \in ActiveSession
    BY <1>0, ActiveUpdates
  <2>3. active' \in [Sessions -> ActiveSession]
    BY <1>0, <2>1, <2>2
  <2>4. killed' \in [Sessions -> BOOLEAN]
    BY <1>9 DEF Escalate, Escalated, TypeInv, TypeOK
  <2> QED
    BY <1>9, <2>3, <2>4 DEF Escalate, TypeInv, TypeOK
<1>10. ASSUME NEW s \in Sessions, Sweep(s) PROVE TypeInv'
  BY <1>10 DEF Sweep, TypeInv, TypeOK
<1>11. ASSUME NEW s \in Sessions, Delete(s) PROVE TypeInv'
  <2>1. log' \in [Sessions -> Histories] /\ log' \in [Sessions -> SUBSET Entry]
    BY <1>11, EmptyHistory DEF Delete, TypeInv, TypeOK
  <2> QED
    BY <1>11, <2>1 DEF Delete, TypeInv, TypeOK, RowStatuses
<1>12. ASSUME NEW s \in Sessions, EngineFork(s) PROVE TypeInv'
  <2>1. <<Line("process.started", "none")>> \in Seq(Lines)
    BY DEF Line, Lines, EngineEvents, Outcomes
  <2>2. pipe' \in [Sessions -> Seq(Lines)]
    BY <1>12, <2>1, ReportedTyped DEF EngineFork
  <2> QED
    BY <1>12, <2>2 DEF EngineFork, TypeInv, TypeOK
<1>13. ASSUME NEW s \in Sessions, EngineRefuse(s) PROVE TypeInv'
  <2>1. PICK line \in {Line("redirection.failed", "none"), Line("process.launch_failed", "LAUNCH_FAILED")} :
          Reported(s, <<line, Summary>>)
    BY <1>13 DEF EngineRefuse
  <2>2. <<line, Summary>> \in Seq(Lines)
    BY DEF Summary, Line, Lines, EngineEvents, Outcomes
  <2>3. pipe' \in [Sessions -> Seq(Lines)]
    BY <2>1, <2>2, ReportedTyped
  <2> QED
    BY <1>13, <2>3 DEF EngineRefuse, TypeInv, TypeOK
<1>14. ASSUME NEW s \in Sessions, EngineReap(s) PROVE TypeInv'
  <2>1. PICK how \in {prog[s], "unknown"} : Reported(s, Append(ExitLines(how), Summary))
    BY <1>14 DEF EngineReap
  <2>2. how \in {"ok", "failed", "signaled", "noexec", "unknown"}
    BY <1>14, <2>1 DEF EngineReap, TypeInv, TypeOK
  <2>3. pipe' \in [Sessions -> Seq(Lines)]
    BY <2>1, <2>2, ExitLinesTyped, ReportedTyped
  <2> QED
    BY <1>14, <2>3 DEF EngineReap, TypeInv, TypeOK
<1>15. ASSUME NEW s \in Sessions, ProgramEnds(s) \/ KillTakesEffect(s) \/ HolderEnds(s)
       PROVE  TypeInv'
  BY <1>15 DEF ProgramEnds, KillTakesEffect, HolderEnds, TypeInv, TypeOK
<1>16. ASSUME NEW c \in Clients, Disconnect(c) PROVE TypeInv'
  BY <1>16 DEF Disconnect, TypeInv, TypeOK
<1>17. ASSUME NEW c \in Clients, NEW s \in Sessions, Connect(c, s) PROVE TypeInv'
  <2> DEFINE backlog == {e \in log[s] : \A n \in client[c].got : n < e.seq}
             ends    == {e \in backlog : e.type \in TerminalEvents}
             sent    == {e \in backlog : \A t \in ends : e.seq <= t.seq}
             live    == ends = {} /\ row[s] \notin TerminalStatuses
             got     == client[c].got \cup {e.seq : e \in sent}
             Streams == [watch : Sessions \cup {"nobody"}, live : BOOLEAN, got : SUBSET Nat]
  <2>1. client' = [client EXCEPT ![c] = [watch |-> s, live |-> live, got |-> got]]
    BY <1>17 DEF Connect
  <2>2. got \in SUBSET Nat
    BY DEF TypeInv, TypeOK, Entry
  <2>3. live \in BOOLEAN
    OBVIOUS
  <2> HIDE DEF backlog, ends, sent, live, got
  <2>4. [watch |-> s, live |-> live, got |-> got] \in Streams
    BY <2>2, <2>3
  <2>5. client \in [Clients -> Streams]
    BY DEF TypeInv, TypeOK
  <2>6. client' \in [Clients -> Streams]
    BY <2>1, <2>4, <2>5
  <2>7. \A k \in Clients : client'[k].live => client'[k].watch \in Sessions
    BY <2>1, <2>5 DEF TypeInv, TypeOK
  <2> QED
    BY <1>17, <2>6, <2>7 DEF Connect, TypeInv, TypeOK
<1>18. ASSUME NEW d \in Dashboards, OpenDashboard(d) \/ CloseDashboard(d) PROVE TypeInv'
  BY <1>18 DEF OpenDashboard, CloseDashboard, TypeInv, TypeOK
<1>19. CASE ShutdownBegin
  <2>1. ASSUME NEW s \in Sessions
        PROVE  [active[s] EXCEPT !.terminateRequested = TRUE, !.escalation = "pending"] \in ActiveSession
    BY <1>0, ActiveUpdates
  <2>2. active' \in [Sessions -> ActiveSession]
    BY <1>0, <1>19, <2>1 DEF ShutdownBegin
  <2>3. awaited' \subseteq Sessions
    BY <1>19 DEF ShutdownBegin, TypeInv, TypeOK
  <2> QED
    BY <1>19, <2>2, <2>3 DEF ShutdownBegin, TypeInv, TypeOK, Phases
<1>20. CASE ShutdownFinalize
  <2> DEFINE last(s)  == IF s \in registry THEN Event(nextSeq[s], "execution.failed") ELSE Recovery(s)
             accepted == {s \in Sessions : (s \in registry \/ Stale(s)) /\ Accepts(s, last(s))}
  <2>1. PICK kept \in SUBSET accepted :
          /\ Written(kept, accepted)
          /\ Persist([s \in Sessions |-> IF s \in kept THEN {last(s)} ELSE {}])
          /\ row' = [s \in Sessions |->
               IF s \in kept \/ (s \in registry /\ RowExists(s)) THEN "FAILED" ELSE row[s]]
    BY <1>20 DEF ShutdownFinalize
  <2>2. ASSUME NEW s \in Sessions PROVE {last(s)} \in Histories
    BY <1>0, RecoveryTyped, EventTyped, TypesOfEvents
  <2>3. [s \in Sessions |-> IF s \in kept THEN {last(s)} ELSE {}] \in [Sessions -> Histories]
    BY <2>2, EmptyHistory
  <2>4. faults' \in Nat
    BY <2>1 DEF Written, TypeInv, TypeOK
  <2>5. row' \in [Sessions -> RowStatuses]
    BY <2>1 DEF TypeInv, TypeOK, RowStatuses, TerminalStatuses
  <2>6. active' \in [Sessions -> ActiveSession]
    <3>1. \A s \in Sessions : [active[s] EXCEPT !.sampling = FALSE] \in ActiveSession
      BY <1>0, ActiveUpdates
    <3> QED
      BY <1>20, <3>1 DEF ShutdownFinalize
  <2>7. nextSeq' \in [Sessions -> Nat]
    BY <1>0, <1>20 DEF ShutdownFinalize
  <2> HIDE DEF last, accepted
  <2>8. /\ log' \in [Sessions -> Histories]
        /\ log' \in [Sessions -> SUBSET Entry]
        /\ client' \in [Clients -> [watch : Sessions \cup {"nobody"}, live : BOOLEAN, got : SUBSET Nat]]
        /\ \A c \in Clients : client'[c].live => client'[c].watch \in Sessions
    BY <2>1, <2>3, PersistTyped
  <2> QED
    BY <1>20, <2>4, <2>5, <2>6, <2>7, <2>8 DEF ShutdownFinalize, TypeInv, TypeOK, Phases
<1>21. CASE ShutdownExit \/ Crash
  <2>1. Halt
    BY <1>21 DEF ShutdownExit, Crash
  <2>2. active' \in [Sessions -> ActiveSession]
    <3>1. \A s \in Sessions : [active[s] EXCEPT !.escalation = "none"] \in ActiveSession
      BY <1>0, ActiveUpdates
    <3> QED
      BY <2>1, <3>1, NoActiveTyped DEF Halt
  <2>3. pipe' \in [Sessions -> Seq(Lines)]
    BY <2>1 DEF Halt
  <2>4. /\ client' \in [Clients -> [watch : Sessions \cup {"nobody"}, live : BOOLEAN, got : SUBSET Nat]]
        /\ \A c \in Clients : client'[c].live => client'[c].watch \in Sessions
    <3> DEFINE Streams == [watch : Sessions \cup {"nobody"}, live : BOOLEAN, got : SUBSET Nat]
    <3>1. client \in [Clients -> Streams]
      BY DEF TypeInv, TypeOK
    <3>2. ASSUME NEW c \in Clients
          PROVE  [client[c] EXCEPT !.live = FALSE] \in Streams /\ ~[client[c] EXCEPT !.live = FALSE].live
      BY <3>1
    <3>3. client' = [c \in Clients |-> [client[c] EXCEPT !.live = FALSE]]
      BY <2>1 DEF Halt
    <3> HIDE DEF Streams
    <3>4. client' \in [Clients -> Streams] /\ \A c \in Clients : ~client'[c].live
      BY <3>2, <3>3
    <3> QED
      BY <3>4 DEF Streams
  <2> QED
    BY <2>1, <2>2, <2>3, <2>4 DEF Halt, TypeInv, TypeOK, Phases
<1>22. CASE Boot
  <2> DEFINE accepted == {s \in Sessions : Stale(s) /\ Accepts(s, Recovery(s))}
  <2>1. PICK kept \in SUBSET accepted :
          /\ Written(kept, accepted)
          /\ Persist([s \in Sessions |-> IF s \in kept THEN {Recovery(s)} ELSE {}])
          /\ row' = [s \in Sessions |-> IF s \in kept THEN "FAILED" ELSE row[s]]
    BY <1>22 DEF Boot
  <2>2. [s \in Sessions |-> IF s \in kept THEN {Recovery(s)} ELSE {}] \in [Sessions -> Histories]
    BY RecoveryTyped, EmptyHistory
  <2>3. faults' \in Nat
    BY <2>1 DEF Written, TypeInv, TypeOK
  <2>4. row' \in [Sessions -> RowStatuses]
    BY <2>1 DEF TypeInv, TypeOK, RowStatuses, TerminalStatuses
  <2>5. /\ log' \in [Sessions -> Histories]
        /\ log' \in [Sessions -> SUBSET Entry]
        /\ client' \in [Clients -> [watch : Sessions \cup {"nobody"}, live : BOOLEAN, got : SUBSET Nat]]
        /\ \A c \in Clients : client'[c].live => client'[c].watch \in Sessions
    BY <2>1, <2>2, PersistTyped
  <2> QED
    BY <1>22, <2>3, <2>4, <2>5 DEF Boot, TypeInv, TypeOK, Phases
<1> QED
  BY <1>1, <1>2, <1>3, <1>4, <1>5, <1>6, <1>7, <1>8, <1>9, <1>10, <1>11, <1>12, <1>13, <1>14,
     <1>15, <1>16, <1>17, <1>18, <1>19, <1>20, <1>21, <1>22 DEF Next, SessionStep

LEMMA TypeInvariant == Spec => []TypeInv
<1>1. TypeInv /\ [Next]_vars => TypeInv'
  <2>1. TypeInv /\ UNCHANGED vars => TypeInv'
    BY DEF vars, TypeInv, TypeOK
  <2> QED
    BY <2>1, NextTyped
<1> QED
  BY <1>1, InitTyped, PTL DEF Spec

(* Spec => []TypeOK: the state never leaves its types, for any number of   *)
(* sessions, browsers and dashboards, and any schedule of failing writes,  *)
(* crashes and restarts.                                                   *)
THEOREM TypeCorrect == Spec => []TypeOK
<1>1. TypeInv => TypeOK
  BY DEF TypeInv
<1> QED
  BY <1>1, TypeInvariant, PTL

-----------------------------------------------------------------------------
NoSweepAtShutdown == ~({"sweep", "shutdown"} \subseteq Disturbances)

-----------------------------------------------------------------------------
(* What a step that stores events does to one history.                     *)

LEMMA PersistEffect ==
  ASSUME TypeInv, NEW stored, Persist(stored), NEW t \in Sessions
  PROVE  log'[t] = log[t] \cup stored[t]
BY DEF Persist

LEMMA WrittenEffect ==
  ASSUME TypeInv, NEW done, NEW accepted, Written(done, accepted)
  PROVE  faults' = 0 => faults = 0 /\ done = accepted
BY DEF Written, TypeInv, TypeOK

LEMMA EmitEffect ==
  ASSUME TypeInv, NEW s \in Sessions, NEW sent, Emit(s, sent)
  PROVE  \E stored \in SUBSET {e \in sent : Accepts(s, e)} :
           /\ \A t \in Sessions : log'[t] = IF t = s THEN log[s] \cup stored ELSE log[t]
           /\ faults' = 0 => faults = 0 /\ stored = {e \in sent : Accepts(s, e)}
<1>1. PICK stored \in SUBSET {e \in sent : Accepts(s, e)} :
        /\ Written(stored, {e \in sent : Accepts(s, e)})
        /\ Persist(Only(s, stored))
  BY DEF Emit
<1>2. \A t \in Sessions : log'[t] = IF t = s THEN log[s] \cup stored ELSE log[t]
  <2>1. \A t \in Sessions : log'[t] = log[t] \cup Only(s, stored)[t]
    BY <1>1, PersistEffect
  <2> QED
    BY <2>1 DEF Only
<1>3. faults' = 0 => faults = 0 /\ stored = {e \in sent : Accepts(s, e)}
  BY <1>1, WrittenEffect
<1> QED
  BY <1>1, <1>2, <1>3

(* A session whose row, history and ownership a step leaves alone keeps a  *)
(* consistent record.                                                      *)
LEMMA Untouched ==
  ASSUME NEW s \in Sessions, RecordOf(s),
         row'[s] = row[s], log'[s] = log[s], nextSeq'[s] = nextSeq[s],
         engine'[s] = engine[s], pipe'[s] = pipe[s],
         s \in open' => s \in open, s \in registry' <=> s \in registry,
         faults' = 0 => faults = 0, gw' # "down" => gw # "down"
  PROVE  RecordOf(s)'
BY DEF RecordOf, Owned, Terminals

(* Types of events that are not terminal. *)
LEMMA OpenTypes ==
  /\ "execution.created" \notin TerminalEvents /\ "execution.started" \notin TerminalEvents
  /\ "process.snapshot" \notin TerminalEvents /\ "execution.failed" \in TerminalEvents
  /\ \A line \in Lines : line.type \notin TerminalEvents
  /\ FinalType("FAILED") = "execution.failed"
BY DEF TerminalEvents, Lines, EngineEvents, FinalType

LEMMA EventFields ==
  ASSUME NEW n, NEW type
  PROVE  Event(n, type).seq = n /\ Event(n, type).type = type
BY DEF Event

LEMMA RecordInit == Init => RecordInv
BY DEF Init, RecordInv, RecordOf, Owned, Terminals, TerminalStatuses

-----------------------------------------------------------------------------
(* One lemma per kind of step.                                             *)

(* Timers, requests, processes and streams that neither store anything nor *)
(* touch the registry.                                                     *)
LEMMA QuietStep ==
  ASSUME RecordInv,
         UNCHANGED <<row, log, registry, open, nextSeq, engine, pipe, faults>>,
         gw' = "down" <=> gw = "down",
         gw' = "draining" => gw = "draining" \/ "shutdown" \in Disturbances
  PROVE  RecordInv'
<1>1. ASSUME NEW t \in Sessions PROVE RecordOf(t)'
  <2>1. RecordOf(t)
    BY DEF RecordInv
  <2> QED
    BY <2>1, Untouched
<1> QED
  BY <1>1 DEF RecordInv

(* The engine writes lines only while the gateway still reads them: a      *)
(* session that was swept has an engine that is done.                      *)
LEMMA EngineStep ==
  ASSUME RecordInv, NEW s \in Sessions, EngineFork(s) \/ EngineRefuse(s) \/ EngineReap(s), TypeInv
  PROVE  RecordInv'
<1>1. /\ UNCHANGED <<row, log, registry, open, nextSeq, faults, gw>>
      /\ engine[s] # "done"
      /\ \A t \in Sessions : t # s => engine'[t] = engine[t] /\ pipe'[t] = pipe[t]
  BY DEF EngineFork, EngineRefuse, EngineReap, Reported, db, memory, control, TypeInv, TypeOK
<1>2. ASSUME NEW t \in Sessions PROVE RecordOf(t)'
  <2>1. RecordOf(t)
    BY DEF RecordInv
  <2>2. CASE t # s
    BY <1>1, <2>1, <2>2, Untouched
  <2>3. CASE t = s
    BY <1>1, <2>1, <2>3 DEF RecordOf, Owned, Terminals
  <2> QED
    BY <2>2, <2>3
<1> QED
  BY <1>1, <1>2 DEF RecordInv

LEMMA AdmitStep ==
  ASSUME TypeInv, RecordInv, NEW s \in Sessions, Admit(s) PROVE RecordInv'
<1>1. PICK kept \in SUBSET {Event(1, "execution.started")} :
        /\ Written(kept, {Event(1, "execution.started")})
        /\ Persist(Only(s, {Created} \cup kept))
  BY DEF Admit
<1>2. \A t \in Sessions : log'[t] = IF t = s THEN log[s] \cup {Created} \cup kept ELSE log[t]
  <2>1. \A t \in Sessions : log'[t] = log[t] \cup Only(s, {Created} \cup kept)[t]
    BY <1>1, PersistEffect
  <2> QED
    BY <2>1 DEF Only
<1>3. faults' = 0 => faults = 0
  BY <1>1, WrittenEffect
<1>4. /\ row[s] = "NONE" /\ gw # "down" /\ gw' = gw
      /\ row' = [row EXCEPT ![s] = "CREATED"]
      /\ registry' = registry \cup {s} /\ open' = open \cup {s}
      /\ nextSeq' = [nextSeq EXCEPT ![s] = 2]
      /\ pipe' = pipe /\ engine' = [engine EXCEPT ![s] = "launching"]
  BY DEF Admit, Register, Serving, control
<1>5. /\ row \in [Sessions -> RowStatuses] /\ nextSeq \in [Sessions -> Nat]
      /\ engine \in [Sessions -> {"none", "launching", "running", "done", "orphan"}]
  BY DEF TypeInv, TypeOK
<1>6. ASSUME NEW t \in Sessions PROVE RecordOf(t)'
  <2>1. RecordOf(t)
    BY DEF RecordInv
  <2>2. CASE t # s
    BY <1>2, <1>3, <1>4, <1>5, <2>1, <2>2, Untouched
  <2>3. CASE t = s
    <3>1. log'[s] = {Created} \cup kept /\ row'[s] = "CREATED" /\ nextSeq'[s] = 2 /\ s \in registry'
      BY <1>2, <1>4, <1>5, <2>1, <2>3 DEF RecordOf
    <3>2. \A e \in log'[s] : e.seq < 2 /\ e.type \notin TerminalEvents
      BY <3>1, OpenTypes, EventFields DEF Created
    <3> QED
      BY <2>3, <3>1, <3>2 DEF RecordOf, Owned, Terminals, TerminalStatuses
  <2> QED
    BY <2>2, <2>3
<1> QED
  BY <1>4, <1>6 DEF RecordInv

LEMMA RefuseStep ==
  ASSUME TypeInv, RecordInv, NEW s \in Sessions, RefuseStart(s) PROVE RecordInv'
<1>1. PICK kept \in SUBSET {Event(1, "execution.failed")} :
        /\ Written(kept, {Event(1, "execution.failed")})
        /\ Persist(Only(s, {Created} \cup kept))
  BY DEF RefuseStart
<1>2. \A t \in Sessions : log'[t] = IF t = s THEN log[s] \cup {Created} \cup kept ELSE log[t]
  <2>1. \A t \in Sessions : log'[t] = log[t] \cup Only(s, {Created} \cup kept)[t]
    BY <1>1, PersistEffect
  <2> QED
    BY <2>1 DEF Only
<1>3. faults' = 0 => faults = 0 /\ kept = {Event(1, "execution.failed")}
  BY <1>1, WrittenEffect
<1>4. /\ row[s] = "NONE"
      /\ row' = [row EXCEPT ![s] = "FAILED"]
      /\ UNCHANGED <<registry, open, nextSeq, engine, pipe, gw>>
  BY DEF RefuseStart, memory, os, control
<1>5. row \in [Sessions -> RowStatuses]
  BY DEF TypeInv, TypeOK
<1>6. ASSUME NEW t \in Sessions PROVE RecordOf(t)'
  <2>1. RecordOf(t)
    BY DEF RecordInv
  <2>2. CASE t # s
    BY <1>2, <1>3, <1>4, <1>5, <2>1, <2>2, Untouched
  <2>3. CASE t = s
    <3>1. log'[s] = {Created} \cup kept /\ row'[s] = "FAILED" /\ s \notin open'
      BY <1>2, <1>4, <1>5, <2>1, <2>3 DEF RecordOf, Owned
    <3>2. {e \in log'[s] : e.type \in TerminalEvents} = kept
      BY <3>1, OpenTypes, EventFields DEF Created
    <3>3. Terminals(s)' = kept
      BY <3>2 DEF Terminals
    <3>4. \A e \in kept : e.type = "execution.failed" /\ kept = {e}
      BY EventFields
    <3> QED
      BY <2>3, <1>3, <3>1, <3>3, <3>4, OpenTypes DEF RecordOf, TerminalStatuses
  <2> QED
    BY <2>2, <2>3
<1> QED
  BY <1>4, <1>6 DEF RecordInv

LEMMA SpawnErrorStep ==
  ASSUME TypeInv, RecordInv, NEW s \in Sessions, SpawnError(s) PROVE RecordInv'
<1> DEFINE final == Event(nextSeq[s], "execution.failed")
<1>1. Emit(s, {final})
  BY DEF SpawnError, FinalizeFailed
<1>2. PICK stored \in SUBSET {e \in {final} : Accepts(s, e)} :
        /\ \A t \in Sessions : log'[t] = IF t = s THEN log[s] \cup stored ELSE log[t]
        /\ faults' = 0 => faults = 0 /\ stored = {e \in {final} : Accepts(s, e)}
  BY <1>1, EmitEffect
<1>3. /\ s \in open /\ gw' = gw
      /\ row' = IF RowExists(s) THEN [row EXCEPT ![s] = "FAILED"] ELSE row
      /\ registry' = registry \ {s} /\ open' = open \ {s}
      /\ nextSeq' = [nextSeq EXCEPT ![s] = @ + 1]
      /\ pipe' = pipe /\ engine' = [engine EXCEPT ![s] = "done"]
  BY DEF SpawnError, FinalizeFailed, control
<1>4. /\ row \in [Sessions -> RowStatuses] /\ nextSeq \in [Sessions -> Nat]
      /\ engine \in [Sessions -> {"none", "launching", "running", "done", "orphan"}]
  BY DEF TypeInv, TypeOK
<1>5. ASSUME NEW t \in Sessions PROVE RecordOf(t)'
  <2>1. RecordOf(t)
    BY DEF RecordInv
  <2>2. CASE t # s
    BY <1>2, <1>3, <1>4, <2>1, <2>2, Untouched
  <2>3. CASE t = s
    <3>1. Owned(s) /\ s \notin open' /\ log'[s] = log[s] \cup stored
      BY <1>2, <1>3, <2>1, <2>3 DEF RecordOf
    <3>2. CASE row[s] = "DELETED"
      <4>1. ~RowExists(s) /\ row'[s] = "DELETED" /\ stored = {} /\ log'[s] = {}
        BY <1>2, <1>3, <2>1, <2>3, <3>1, <3>2 DEF RowExists, Accepts, RecordOf
      <4> QED
        BY <2>3, <3>1, <4>1 DEF RecordOf, TerminalStatuses
    <3>3. CASE row[s] = "CREATED"
      <4>1. RowExists(s) /\ row'[s] = "FAILED" /\ Terminals(s) = {}
        BY <1>3, <1>4, <2>1, <2>3, <3>3 DEF RowExists, RecordOf
      <4>2. Accepts(s, final)
        <5>1. \A f \in log[s] : f.seq < nextSeq[s] /\ f.seq \in Nat
          BY <3>1 DEF Owned, TypeInv, Histories, Entry
        <5> QED
          BY <4>1, <5>1, <1>4, EventFields DEF Accepts
      <4>3. Terminals(s)' = stored
        <5>1. \A e \in stored : e.type \in TerminalEvents
          BY <1>2, OpenTypes, EventFields
        <5> QED
          BY <3>1, <4>1, <5>1 DEF Terminals
      <4>4. \A e \in stored : e.type = "execution.failed" /\ stored = {e}
        BY <1>2, EventFields
      <4>5. faults' = 0 => stored # {}
        BY <1>2, <4>2
      <4> QED
        BY <2>3, <3>1, <4>1, <4>3, <4>4, <4>5, OpenTypes DEF RecordOf, TerminalStatuses
    <3> QED
      BY <3>1, <3>2, <3>3 DEF Owned
  <2> QED
    BY <2>2, <2>3
<1> QED
  BY <1>3, <1>5 DEF RecordInv

LEMMA CloseStep ==
  ASSUME TypeInv, RecordInv, NEW s \in Sessions, Close(s) PROVE RecordInv'
<1> DEFINE final    == Event(nextSeq[s], FinalType(Verdict(s)))
           accepted == {e \in {final} : Accepts(s, e)}
<1>1. PICK stored \in SUBSET accepted :
        /\ Written(stored, accepted)
        /\ Persist(Only(s, stored))
        /\ row' = IF stored = {} THEN row ELSE [row EXCEPT ![s] = Verdict(s)]
        /\ nextSeq' = [nextSeq EXCEPT ![s] = @ + IF stored = {} THEN 2 ELSE 1]
  BY DEF Close, Finalize
<1>2. \A t \in Sessions : log'[t] = IF t = s THEN log[s] \cup stored ELSE log[t]
  <2>1. \A t \in Sessions : log'[t] = log[t] \cup Only(s, stored)[t]
    BY <1>1, PersistEffect
  <2> QED
    BY <2>1 DEF Only
<1>3. faults' = 0 => faults = 0 /\ stored = accepted
  BY <1>1, WrittenEffect
<1>4. /\ s \in open /\ gw # "down" /\ UNCHANGED <<gw, engine, pipe>>
      /\ registry' = registry \ {s} /\ open' = open \ {s}
  BY DEF Close, Finalize, Running, control, os
<1>5. row \in [Sessions -> RowStatuses] /\ nextSeq \in [Sessions -> Nat]
  BY DEF TypeInv, TypeOK
<1>6. Verdict(s) \in TerminalStatuses
  BY DEF Verdict, DecideStatus, TerminalStatuses
<1>7. ASSUME NEW t \in Sessions PROVE RecordOf(t)'
  <2>1. RecordOf(t)
    BY DEF RecordInv
  <2>2. CASE t # s
    BY <1>1, <1>2, <1>3, <1>4, <1>5, <2>1, <2>2, Untouched
  <2>3. CASE t = s
    <3>1. Owned(s) /\ s \notin open' /\ log'[s] = log[s] \cup stored
      BY <1>2, <1>4, <2>1, <2>3 DEF RecordOf
    <3>2. RowExists(s) => Accepts(s, final)
      <4>1. \A f \in log[s] : f.seq < nextSeq[s] /\ f.seq \in Nat
        BY <3>1 DEF Owned, TypeInv, Histories, Entry
      <4> QED
        BY <4>1, <1>5, EventFields DEF Accepts
    <3>3. CASE stored = {}
      <4>1. row'[s] = row[s] /\ log'[s] = log[s]
        BY <1>1, <3>1, <3>3
      <4>2. faults' = 0 => faults = 0 /\ row[s] = "DELETED"
        BY <1>3, <3>1, <3>2, <3>3 DEF RowExists, Owned
      <4> QED
        BY <2>1, <2>3, <3>1, <4>1, <4>2 DEF RecordOf, Owned, Terminals, TerminalStatuses
    <3>4. CASE stored # {}
      <4>1. stored = {final} /\ Accepts(s, final)
        BY <3>4
      <4>2. row[s] = "CREATED" /\ Terminals(s) = {}
        BY <2>1, <2>3, <3>1, <4>1 DEF Accepts, RowExists, Owned, RecordOf
      <4>3. row'[s] = Verdict(s)
        BY <1>1, <1>5, <3>4
      <4>4. final.type = FinalType(Verdict(s)) /\ final.type \in TerminalEvents
        BY EventFields, TypesOfEvents
      <4> HIDE DEF final, accepted
      <4>5. Terminals(s)' = {final}
        BY <3>1, <4>1, <4>2, <4>4 DEF Terminals
      <4> QED
        BY <1>6, <2>3, <3>1, <4>3, <4>4, <4>5 DEF RecordOf, TerminalStatuses
    <3> QED
      BY <3>3, <3>4
  <2> QED
    BY <2>2, <2>3
<1> QED
  BY <1>4, <1>7 DEF RecordInv

(* Lines and samples are numbered by emit() and announce nothing.          *)
LEMMA RecordingStep ==
  ASSUME TypeInv, RecordInv, NEW s \in Sessions, NEW sent, Emit(s, sent),
         UNCHANGED <<row, registry, open, engine, gw>>,
         \A t \in Sessions : t # s => nextSeq'[t] = nextSeq[t] /\ pipe'[t] = pipe[t],
         \A e \in sent : e.type \notin TerminalEvents,
         nextSeq'[s] >= nextSeq[s], nextSeq'[s] \in Nat,
         s \in open => s \in registry /\ \A e \in sent : e.seq < nextSeq'[s]
  PROVE  RecordInv'
<1>1. PICK stored \in SUBSET {e \in sent : Accepts(s, e)} :
        /\ \A t \in Sessions : log'[t] = IF t = s THEN log[s] \cup stored ELSE log[t]
        /\ faults' = 0 => faults = 0 /\ stored = {e \in sent : Accepts(s, e)}
  BY EmitEffect
<1>2. ASSUME NEW t \in Sessions PROVE RecordOf(t)'
  <2>1. RecordOf(t)
    BY DEF RecordInv
  <2>2. CASE t # s
    BY <1>1, <2>1, <2>2, Untouched
  <2>3. CASE t = s
    <3>1. log'[s] = log[s] \cup stored
      BY <1>1
    <3>2. Terminals(s)' = Terminals(s)
      BY <1>1, <3>1 DEF Terminals
    <3>3. row[s] \in {"NONE", "DELETED"} => stored = {}
      BY <1>1 DEF Accepts, RowExists
    <3>4. s \in open => \A e \in log'[s] : e.seq < nextSeq'[s]
      <4>1. \A e \in log[s] : e.seq \in Nat
        BY DEF TypeInv, Histories, Entry
      <4>2. nextSeq[s] \in Nat
        BY DEF TypeInv, TypeOK
      <4>3. s \in open => \A e \in log[s] : e.seq < nextSeq[s]
        BY <2>1, <2>3 DEF RecordOf, Owned
      <4> QED
        BY <1>1, <3>1, <4>1, <4>2, <4>3
    <3> QED
      BY <1>1, <2>1, <2>3, <3>1, <3>2, <3>3, <3>4 DEF RecordOf, Owned
  <2> QED
    BY <2>2, <2>3
<1> QED
  BY <1>2 DEF RecordInv

LEMMA DeliverStep ==
  ASSUME TypeInv, RecordInv, NEW s \in Sessions, DeliverLine(s) PROVE RecordInv'
<1> DEFINE sent == {Event(nextSeq[s], Head(pipe[s]).type)} \cup
                   (IF StartsLoop(s) THEN {Event(nextSeq[s] + 1, "process.snapshot")} ELSE {})
<1>1. Emit(s, sent)
  BY DEF DeliverLine
<1>2. /\ UNCHANGED <<row, registry, open, engine, gw>>
      /\ nextSeq' = [nextSeq EXCEPT ![s] = @ + NumbersUsed(s)]
      /\ pipe' = [pipe EXCEPT ![s] = Tail(@)]
      /\ pipe[s] # <<>>
  BY DEF DeliverLine, control
<1>3. nextSeq \in [Sessions -> Nat] /\ pipe \in [Sessions -> Seq(Lines)]
  BY DEF TypeInv, TypeOK
<1>4. \A t \in Sessions : t # s => nextSeq'[t] = nextSeq[t] /\ pipe'[t] = pipe[t]
  BY <1>2, <1>3
<1>5. \A e \in sent : e.type \notin TerminalEvents
  <2>1. Head(pipe[s]) \in Lines
    BY <1>2, <1>3
  <2> QED
    BY <2>1, OpenTypes, EventFields
<1>6. s \in open => s \in registry
  BY <1>2 DEF RecordInv, RecordOf, Owned
<1>7. nextSeq'[s] = nextSeq[s] + NumbersUsed(s) /\ NumbersUsed(s) \in {0, 1, 2}
  BY <1>2, <1>3 DEF NumbersUsed
<1>8. s \in registry => \A e \in sent : e.seq < nextSeq'[s]
  BY <1>3, <1>7, EventFields DEF NumbersUsed
<1>9. nextSeq'[s] >= nextSeq[s] /\ nextSeq'[s] \in Nat
  BY <1>3, <1>7
<1> HIDE DEF sent
<1> QED
  BY <1>1, <1>2, <1>4, <1>5, <1>6, <1>8, <1>9, RecordingStep

LEMMA SampleStep ==
  ASSUME TypeInv, RecordInv, NEW s \in Sessions, Sample(s) PROVE RecordInv'
<1> DEFINE sent == {Event(nextSeq[s], "process.snapshot")}
<1>1. Emit(s, sent)
  BY DEF Sample
<1>2. /\ UNCHANGED <<row, registry, open, engine, gw, pipe>>
      /\ nextSeq' = [nextSeq EXCEPT ![s] = @ + 1]
      /\ s \in registry
  BY DEF Sample, control, os
<1>3. nextSeq \in [Sessions -> Nat]
  BY DEF TypeInv, TypeOK
<1>4. \A e \in sent : e.type \notin TerminalEvents /\ e.seq = nextSeq[s]
  BY OpenTypes, EventFields
<1> HIDE DEF sent
<1>5. /\ nextSeq'[s] = nextSeq[s] + 1 /\ nextSeq[s] \in Nat
      /\ \A t \in Sessions : t # s => nextSeq'[t] = nextSeq[t]
  BY <1>2, <1>3
<1>6. \A e \in sent : e.seq < nextSeq'[s]
  BY <1>4, <1>5
<1> QED
  BY <1>1, <1>2, <1>4, <1>5, <1>6, RecordingStep

LEMMA SweepStep ==
  ASSUME RecordInv, NEW s \in Sessions, Sweep(s) PROVE RecordInv'
<1>1. /\ UNCHANGED <<row, log, open, nextSeq, engine, pipe, faults, gw>>
      /\ registry' = registry \ {s} /\ engine[s] = "done" /\ pipe[s] = <<>>
      /\ "sweep" \in Disturbances
  BY DEF Sweep, db, os, control
<1>2. ASSUME NEW t \in Sessions PROVE RecordOf(t)'
  <2>1. RecordOf(t)
    BY DEF RecordInv
  <2>2. CASE t # s
    BY <1>1, <2>1, <2>2, Untouched
  <2>3. CASE t = s
    BY <1>1, <2>1, <2>3 DEF RecordOf, Owned, Terminals
  <2> QED
    BY <2>2, <2>3
<1> QED
  BY <1>1, <1>2 DEF RecordInv

LEMMA DeleteStep ==
  ASSUME TypeInv, RecordInv, NEW s \in Sessions, Delete(s) PROVE RecordInv'
<1>1. /\ UNCHANGED <<registry, open, nextSeq, engine, pipe, faults, gw>>
      /\ row' = [row EXCEPT ![s] = "DELETED"] /\ log' = [log EXCEPT ![s] = {}]
  BY DEF Delete, memory, os, control
<1>2. row \in [Sessions -> RowStatuses] /\ log \in [Sessions -> SUBSET Entry]
  BY DEF TypeInv, TypeOK
<1>3. ASSUME NEW t \in Sessions PROVE RecordOf(t)'
  <2>1. RecordOf(t)
    BY DEF RecordInv
  <2>2. CASE t # s
    BY <1>1, <1>2, <2>1, <2>2, Untouched
  <2>3. CASE t = s
    <3>1. row'[s] = "DELETED" /\ log'[s] = {}
      BY <1>1, <1>2
    <3> QED
      BY <1>1, <2>1, <2>3, <3>1 DEF RecordOf, Owned, TerminalStatuses
  <2> QED
    BY <2>2, <2>3
<1> QED
  BY <1>1, <1>3 DEF RecordInv

LEMMA HaltStep ==
  ASSUME RecordInv, Halt PROVE RecordInv'
<1>1. UNCHANGED <<row, log, nextSeq, faults>> /\ gw' = "down" /\ open' = {} /\ registry' = {}
  BY DEF Halt, db
<1>2. ASSUME NEW t \in Sessions PROVE RecordOf(t)'
  <2>1. RecordOf(t)
    BY DEF RecordInv
  <2> QED
    BY <1>1, <2>1 DEF RecordOf, Terminals
<1> QED
  BY <1>1, <1>2 DEF RecordInv

(* A recovered row is accepted: its number is above the history's last.    *)
LEMMA RecoveryFresh ==
  ASSUME TypeInv, NEW s \in Sessions, RowExists(s)
  PROVE  Accepts(s, Recovery(s))
<1>1. log[s] \in Histories /\ \A e \in log[s] : e.seq \in Nat
  BY DEF TypeInv, Histories, Entry
<1>2. CASE log[s] = {}
  BY <1>2 DEF Accepts
<1>3. CASE log[s] # {}
  <2>1. \E e \in log[s] : \A f \in log[s] : f.seq <= e.seq
    BY <1>1, <1>3, LastEntryExists
  <2>2. \A f \in log[s] : f.seq < NextNumber(s)
    BY <1>1, <1>3, <2>1 DEF NextNumber
  <2> QED
    BY <1>1, <2>2, EventFields DEF Accepts, Recovery
<1> QED
  BY <1>2, <1>3

(* Abandoned executions are finalized as FAILED, each with one event.      *)
LEMMA AbandonedRecord ==
  ASSUME TypeInv, RecordInv, NEW s \in Sessions, NEW final, NEW stored \in SUBSET {final},
         final.type = "execution.failed", stored # {} => Accepts(s, final),
         row[s] = "CREATED", row'[s] = "FAILED", log'[s] = log[s] \cup stored,
         s \notin open', faults' = 0 => stored # {}
  PROVE  RecordOf(s)'
<1>1. Terminals(s) = {}
  BY DEF RecordInv, RecordOf
<1>2. Terminals(s)' = stored
  BY <1>1, OpenTypes DEF Terminals
<1>3. \A e \in stored : e.type = "execution.failed" /\ stored = {e}
  OBVIOUS
<1> QED
  BY <1>2, <1>3, OpenTypes DEF RecordOf, TerminalStatuses

LEMMA BootStep ==
  ASSUME TypeInv, RecordInv, Boot PROVE RecordInv'
<1> DEFINE accepted == {s \in Sessions : Stale(s) /\ Accepts(s, Recovery(s))}
<1>1. PICK kept \in SUBSET accepted :
        /\ Written(kept, accepted)
        /\ Persist([s \in Sessions |-> IF s \in kept THEN {Recovery(s)} ELSE {}])
        /\ row' = [s \in Sessions |-> IF s \in kept THEN "FAILED" ELSE row[s]]
  BY DEF Boot
<1>2. \A t \in Sessions : log'[t] = log[t] \cup (IF t \in kept THEN {Recovery(t)} ELSE {})
  BY <1>1 DEF Persist
<1>3. faults' = 0 => faults = 0 /\ kept = accepted
  BY <1>1, WrittenEffect
<1>4. /\ gw = "down" /\ gw' = "up" /\ open = {} /\ registry = {}
      /\ UNCHANGED <<registry, open, nextSeq, engine, pipe>>
  BY DEF Boot, memory, os, RecordInv
<1>5. ASSUME NEW t \in Sessions PROVE RecordOf(t)'
  <2>1. RecordOf(t)
    BY DEF RecordInv
  <2>2. CASE t \in kept
    <3>1. row[t] = "CREATED" /\ Accepts(t, Recovery(t)) /\ row'[t] = "FAILED"
      BY <1>1, <2>2 DEF Stale
    <3>2. log'[t] = log[t] \cup {Recovery(t)}
      BY <1>2, <2>2
    <3>3. Recovery(t).type = "execution.failed"
      BY EventFields DEF Recovery
    <3> QED
      BY <1>4, <3>1, <3>2, <3>3, AbandonedRecord
  <2>3. CASE t \notin kept
    <3>1. row'[t] = row[t] /\ log'[t] = log[t]
      BY <1>1, <1>2, <2>3
    <3>2. faults' = 0 => row[t] # "CREATED"
      <4>1. row[t] = "CREATED" => t \in accepted
        BY <1>4, RecoveryFresh DEF Stale, RowExists
      <4> QED
        BY <1>3, <2>3, <4>1
    <3> QED
      BY <1>3, <1>4, <2>1, <3>1, <3>2 DEF RecordOf, Terminals
  <2> QED
    BY <2>2, <2>3
<1> QED
  BY <1>4, <1>5 DEF RecordInv

LEMMA ShutdownFinalizeStep ==
  ASSUME NoSweepAtShutdown, TypeInv, RecordInv, ShutdownFinalize PROVE RecordInv'
<1> DEFINE last(s)  == IF s \in registry THEN Event(nextSeq[s], "execution.failed") ELSE Recovery(s)
           accepted == {s \in Sessions : (s \in registry \/ Stale(s)) /\ Accepts(s, last(s))}
<1>1. PICK kept \in SUBSET accepted :
        /\ Written(kept, accepted)
        /\ Persist([s \in Sessions |-> IF s \in kept THEN {last(s)} ELSE {}])
        /\ row' = [s \in Sessions |->
             IF s \in kept \/ (s \in registry /\ RowExists(s)) THEN "FAILED" ELSE row[s]]
  BY DEF ShutdownFinalize
<1>2. \A t \in Sessions : log'[t] = log[t] \cup (IF t \in kept THEN {last(t)} ELSE {})
  BY <1>1 DEF Persist
<1>3. faults' = 0 => faults = 0 /\ kept = accepted
  BY <1>1, WrittenEffect
<1>4. /\ registry = open /\ registry' = {} /\ open' = {}
      /\ gw = "draining" /\ gw' = "closing"
  BY DEF ShutdownFinalize, RecordInv, NoSweepAtShutdown
<1>5. ASSUME NEW t \in Sessions PROVE RecordOf(t)'
  <2> DEFINE stored == IF t \in kept THEN {last(t)} ELSE {}
  <2>1. RecordOf(t)
    BY DEF RecordInv
  <2>2. last(t).type = "execution.failed"
    BY EventFields DEF Recovery
  <2>3. t \in kept => Accepts(t, last(t)) /\ (t \in registry \/ Stale(t))
    BY <1>1
  <2>4. t \in registry /\ row[t] = "CREATED" => t \in accepted
    <3>1. \A f \in log[t] : f.seq \in Nat
      BY DEF TypeInv, Histories, Entry
    <3>2. t \in registry => \A f \in log[t] : f.seq < nextSeq[t]
      BY <1>4, <2>1 DEF RecordOf, Owned
    <3>3. nextSeq[t] \in Nat
      BY DEF TypeInv, TypeOK
    <3> QED
      BY <3>1, <3>2, <3>3, EventFields DEF Accepts, RowExists
  <2>5. t \notin registry /\ row[t] = "CREATED" => t \in accepted
    BY RecoveryFresh DEF Stale, RowExists
  <2>6. t \in kept => row[t] = "CREATED"
    BY <1>4, <2>1, <2>3 DEF Stale, Accepts, RowExists, RecordOf, Owned
  <2>7. log'[t] = log[t] \cup stored
    BY <1>2
  <2>8. row'[t] = IF t \in kept \/ (t \in registry /\ RowExists(t)) THEN "FAILED" ELSE row[t]
    BY <1>1
  <2> HIDE DEF last, accepted
  <2>9. CASE t \in kept \/ (t \in registry /\ RowExists(t))
    <3>1. row[t] = "CREATED" /\ row'[t] = "FAILED"
      BY <1>4, <2>1, <2>6, <2>8, <2>9 DEF RecordOf, Owned, RowExists
    <3>2. faults' = 0 => stored # {}
      BY <1>3, <2>4, <2>5, <3>1
    <3>3. stored \in SUBSET {last(t)} /\ (stored # {} => Accepts(t, last(t)))
      BY <2>3
    <3> HIDE DEF stored
    <3> QED
      BY <1>4, <2>2, <2>7, <3>1, <3>2, <3>3, AbandonedRecord
  <2>10. CASE ~(t \in kept \/ (t \in registry /\ RowExists(t)))
    <3>1. row'[t] = row[t] /\ log'[t] = log[t]
      BY <2>7, <2>8, <2>10
    <3>2. faults' = 0 => faults = 0 /\ row[t] # "CREATED"
      BY <1>3, <2>4, <2>5, <2>10
    <3> QED
      BY <1>4, <2>1, <3>1, <3>2 DEF RecordOf, Terminals
  <2> QED
    BY <2>9, <2>10
<1> QED
  BY <1>4, <1>5 DEF RecordInv

-----------------------------------------------------------------------------
(* Every step keeps the records consistent. *)
LEMMA RecordNext ==
  ASSUME NoSweepAtShutdown, TypeInv, RecordInv, Next PROVE RecordInv'
<1> USE DEF db, memory, os, control
<1>1. ASSUME NEW s \in Sessions, SessionStep(s) PROVE RecordInv'
  <2>1. CASE Admit(s) \/ RefuseStart(s) \/ SpawnError(s) \/ Close(s)
    BY <2>1, AdmitStep, RefuseStep, SpawnErrorStep, CloseStep
  <2>2. CASE DeliverLine(s) \/ Sample(s)
    BY <2>2, DeliverStep, SampleStep
  <2>3. CASE Timeout(s) \/ Terminate(s) \/ Escalate(s) \/ ProgramEnds(s) \/ KillTakesEffect(s) \/ HolderEnds(s)
    <3>1. UNCHANGED <<row, log, registry, open, nextSeq, engine, pipe, faults, gw>>
      BY <2>3 DEF Timeout, Terminate, Escalate, ProgramEnds, KillTakesEffect, HolderEnds
    <3> QED
      BY <3>1, QuietStep
  <2>4. CASE Sweep(s) \/ Delete(s)
    BY <2>4, SweepStep, DeleteStep
  <2>5. CASE EngineFork(s) \/ EngineRefuse(s) \/ EngineReap(s)
    BY <2>5, EngineStep
  <2> QED
    BY <1>1, <2>1, <2>2, <2>3, <2>4, <2>5 DEF SessionStep
<1>2. CASE \E c \in Clients : Disconnect(c) \/ \E s \in Sessions : Connect(c, s)
  <2>1. UNCHANGED <<row, log, registry, open, nextSeq, engine, pipe, faults, gw>>
    BY <1>2 DEF Disconnect, Connect
  <2> QED
    BY <2>1, QuietStep
<1>3. CASE \E d \in Dashboards : OpenDashboard(d) \/ CloseDashboard(d)
  <2>1. UNCHANGED <<row, log, registry, open, nextSeq, engine, pipe, faults, gw>>
    BY <1>3 DEF OpenDashboard, CloseDashboard
  <2> QED
    BY <2>1, QuietStep
<1>4. CASE ShutdownBegin
  <2>1. /\ UNCHANGED <<row, log, registry, open, nextSeq, engine, pipe, faults>>
        /\ gw = "up" /\ gw' = "draining" /\ "shutdown" \in Disturbances
    BY <1>4 DEF ShutdownBegin
  <2> QED
    BY <2>1, QuietStep
<1>5. CASE ShutdownFinalize
  BY <1>5, ShutdownFinalizeStep
<1>6. CASE ShutdownExit \/ Crash
  BY <1>6, HaltStep DEF ShutdownExit, Crash
<1>7. CASE Boot
  BY <1>7, BootStep
<1> QED
  BY <1>1, <1>2, <1>3, <1>4, <1>5, <1>6, <1>7 DEF Next

LEMMA RecordInvariant ==
  ASSUME NoSweepAtShutdown PROVE Spec => [](TypeInv /\ RecordInv)
<1>1. TypeInv /\ RecordInv /\ [Next]_vars => (TypeInv /\ RecordInv)'
  <2>1. TypeInv /\ RecordInv /\ Next => (TypeInv /\ RecordInv)'
    BY NextTyped, RecordNext
  <2>2. TypeInv /\ RecordInv /\ UNCHANGED vars => (TypeInv /\ RecordInv)'
    <3> SUFFICES ASSUME TypeInv, RecordInv, UNCHANGED vars PROVE (TypeInv /\ RecordInv)'
      OBVIOUS
    <3>1. TypeInv'
      BY DEF vars, TypeInv, TypeOK
    <3>2. RecordInv'
      BY QuietStep DEF vars
    <3> QED
      BY <3>1, <3>2
  <2> QED
    BY <2>1, <2>2
<1>2. Init => TypeInv /\ RecordInv
  BY InitTyped, RecordInit
<1> QED
  BY <1>1, <1>2, PTL DEF Spec

-----------------------------------------------------------------------------
(* A history has at most one terminal event and it announces the status of *)
(* the row: finalize, finalizeFailed, the shutdown and the boot recovery   *)
(* never contradict each other, whatever writes fail and wherever the      *)
(* gateway crashes.                                                        *)
THEOREM VerdictsAgree ==
  ASSUME NoSweepAtShutdown PROVE Spec => []TerminalAgrees
<1>1. TypeInv /\ RecordInv => TerminalAgrees
  <2> SUFFICES ASSUME TypeInv, RecordInv, NEW s \in Sessions, NEW e \in Terminals(s)
               PROVE  /\ row[s] \in TerminalStatuses
                      /\ e.type = FinalType(row[s])
                      /\ Terminals(s) = {e}
    BY DEF TerminalAgrees
  <2>1. row[s] \in TerminalStatuses
    <3>1. RecordOf(s) /\ row[s] \in RowStatuses
      BY DEF RecordInv, TypeInv, TypeOK
    <3> QED
      BY <3>1 DEF RecordOf, RowStatuses, Terminals
  <2> QED
    BY <2>1 DEF RecordInv, RecordOf
<1> QED
  BY <1>1, RecordInvariant, PTL

(* The next number of a registered execution is above every number of its  *)
(* history: the unique constraint of the events table drops nothing that   *)
(* emit() stores.                                                          *)
THEOREM NumbersStayFresh ==
  ASSUME NoSweepAtShutdown PROVE Spec => []NumbersAreFresh
<1>1. TypeInv /\ RecordInv => NumbersAreFresh
  <2> SUFFICES ASSUME TypeInv, RecordInv, NEW s \in registry, NEW e \in log[s]
               PROVE  e.seq < nextSeq[s]
    BY DEF NumbersAreFresh
  <2>1. s \in Sessions /\ s \in open
    BY DEF TypeInv, TypeOK, RecordInv
  <2> QED
    BY <2>1 DEF RecordInv, RecordOf, Owned
<1> QED
  BY <1>1, RecordInvariant, PTL

(* As long as no write fails, a row is finalized exactly when its history  *)
(* has a terminal event: every ending of the runner stores both.           *)
THEOREM EndingsAreRecorded ==
  ASSUME NoSweepAtShutdown PROVE Spec => []StreamMatchesRow
<1>1. TypeInv /\ RecordInv => StreamMatchesRow
  <2> SUFFICES ASSUME TypeInv, RecordInv, faults = 0, NEW s \in Sessions
               PROVE  row[s] \in TerminalStatuses <=> Terminals(s) # {}
    BY DEF StreamMatchesRow
  <2>1. RecordOf(s) /\ row[s] \in RowStatuses
    BY DEF RecordInv, TypeInv, TypeOK
  <2> QED
    BY <2>1 DEF RecordOf, RowStatuses, Terminals
<1> QED
  BY <1>1, RecordInvariant, PTL

(* Without the sweep, a gateway that is up answers for every open row: a   *)
(* row is CREATED only while an ActiveSession is registered for it.        *)
THEOREM NoRowIsStranded ==
  ASSUME "sweep" \notin Disturbances PROVE Spec => []NoStrandedRow
<1>1. NoSweepAtShutdown
  BY DEF NoSweepAtShutdown
<1>2. RecordInv => NoStrandedRow
  BY DEF RecordInv, RecordOf, NoStrandedRow
<1> QED
  BY <1>1, <1>2, RecordInvariant, PTL

(* A terminal status is never changed nor reopened: every handler that     *)
(* writes a status owns the row, or checked that it is still CREATED.      *)
THEOREM StatusStaysFinal ==
  ASSUME NoSweepAtShutdown PROVE Spec => StatusIsFinal
<1> DEFINE Kept == \A s \in Sessions : row[s] \in TerminalStatuses => row'[s] \in {row[s], "DELETED"}
<1>1. ASSUME TypeInv, RecordInv, Next PROVE Kept
  <2> SUFFICES ASSUME NEW t \in Sessions, row[t] \in TerminalStatuses
               PROVE  row'[t] \in {row[t], "DELETED"}
    OBVIOUS
  <2>1. row \in [Sessions -> RowStatuses] /\ t \notin open /\ t \notin registry
    BY <1>1 DEF TypeInv, TypeOK, RecordInv, RecordOf, Owned, TerminalStatuses
  <2> USE DEF db
  <2>2. ASSUME NEW s \in Sessions, SessionStep(s) PROVE row'[t] \in {row[t], "DELETED"}
    <3>1. CASE Admit(s)
      BY <2>1, <3>1 DEF Admit, TerminalStatuses
    <3>2. CASE RefuseStart(s)
      BY <2>1, <3>2 DEF RefuseStart, TerminalStatuses
    <3>3. CASE SpawnError(s)
      BY <2>1, <3>3 DEF SpawnError, FinalizeFailed
    <3>4. CASE Close(s)
      BY <2>1, <3>4 DEF Close, Finalize
    <3>5. CASE Delete(s)
      BY <2>1, <3>5 DEF Delete
    <3>6. CASE DeliverLine(s) \/ Sample(s) \/ Timeout(s) \/ Terminate(s) \/ Escalate(s) \/ Sweep(s)
      BY <3>6 DEF DeliverLine, Sample, Timeout, Terminate, Escalate, Sweep
    <3>7. CASE \/ EngineFork(s) \/ EngineRefuse(s) \/ EngineReap(s)
               \/ ProgramEnds(s) \/ KillTakesEffect(s) \/ HolderEnds(s)
      BY <3>7 DEF EngineFork, EngineRefuse, EngineReap, ProgramEnds, KillTakesEffect, HolderEnds
    <3> QED
      BY <2>2, <3>1, <3>2, <3>3, <3>4, <3>5, <3>6, <3>7 DEF SessionStep
  <2>3. CASE \/ \E c \in Clients : Disconnect(c) \/ \E s \in Sessions : Connect(c, s)
             \/ \E d \in Dashboards : OpenDashboard(d) \/ CloseDashboard(d)
             \/ ShutdownBegin \/ ShutdownExit \/ Crash
    BY <2>3 DEF Disconnect, Connect, OpenDashboard, CloseDashboard, ShutdownBegin, ShutdownExit,
                Crash, Halt
  <2>4. CASE ShutdownFinalize
    BY <2>1, <2>4 DEF ShutdownFinalize, Stale, TerminalStatuses
  <2>5. CASE Boot
    BY <2>1, <2>5 DEF Boot, Stale, TerminalStatuses
  <2> QED
    BY <1>1, <2>2, <2>3, <2>4, <2>5 DEF Next
<1>2. TypeInv /\ RecordInv /\ [Next]_vars => [Kept]_vars
  BY <1>1
<1>3. StatusIsFinal <=> [][Kept]_vars
  BY PTL DEF StatusIsFinal
<1> QED
  BY <1>2, <1>3, RecordInvariant, PTL DEF Spec

-----------------------------------------------------------------------------
(* The gateway implements EventHistory, and nothing follows a terminal     *)
(* event, for every set of sessions and every schedule, as long as no      *)
(* orderly shutdown finalizes executions whose engines still write.  Both  *)
(* rest on the records being consistent and on silence: when a session is  *)
(* finalized, its pipe has been read to the end and its engine writes no   *)
(* more.                                                                   *)

NoShutdown == "shutdown" \notin Disturbances

(* Nothing is read for a session that is not open, and nothing was written *)
(* for one whose engine is still being launched.                           *)
Silent(s) ==
  /\ s \notin open => pipe[s] = <<>> /\ engine[s] \notin {"launching", "running"}
  /\ engine[s] = "launching" => pipe[s] = <<>>

SilentInv == \A s \in Sessions : Silent(s)

StepInv == TypeInv /\ RecordInv /\ SilentInv

LEMMA SilentSame ==
  ASSUME SilentInv, UNCHANGED <<open, pipe, engine>> PROVE SilentInv'
BY DEF SilentInv, Silent

(* A step of one session leaves the others silent. *)
LEMMA SilentOther ==
  ASSUME NEW s \in Sessions, NEW t \in Sessions, t # s, SilentInv,
         open' \in {open, open \cup {s}, open \ {s}},
         engine'[t] = engine[t], pipe'[t] = pipe[t]
  PROVE  Silent(t)'
BY DEF SilentInv, Silent

LEMMA SilentEngine ==
  ASSUME TypeInv, SilentInv, NEW s \in Sessions, EngineFork(s) \/ EngineRefuse(s) \/ EngineReap(s)
  PROVE  SilentInv'
<1>1. /\ open' = open
      /\ engine \in [Sessions -> {"none", "launching", "running", "done", "orphan"}]
      /\ \A t \in Sessions : t # s => engine'[t] = engine[t] /\ pipe'[t] = pipe[t]
  BY DEF EngineFork, EngineRefuse, EngineReap, Reported, memory, TypeInv, TypeOK
<1>2. Silent(s)
  BY DEF SilentInv
<1>3. Silent(s)'
  <2>1. CASE engine[s] = "orphan"
    <3>1. engine'[s] = "orphan" /\ pipe' = pipe
      BY <1>1, <2>1 DEF EngineFork, EngineRefuse, EngineReap, Reported
    <3> QED
      BY <1>1, <1>2, <3>1 DEF Silent
  <2>2. CASE engine[s] # "orphan"
    <3>1. engine[s] \in {"launching", "running"} /\ engine'[s] \in {"running", "done"}
      BY <1>1, <2>2 DEF EngineFork, EngineRefuse, EngineReap
    <3> QED
      BY <1>1, <1>2, <3>1 DEF Silent
  <2> QED
    BY <2>1, <2>2
<1>4. ASSUME NEW t \in Sessions PROVE Silent(t)'
  <2>1. CASE t = s
    BY <1>3, <2>1
  <2>2. CASE t # s
    BY <1>1, <2>2, SilentOther
  <2> QED
    BY <2>1, <2>2
<1> QED
  BY <1>4 DEF SilentInv

(* Being admitted, failing to be spawned, reading a line and being closed. *)
LEMMA SilentCallback ==
  ASSUME TypeInv, RecordInv, SilentInv, NEW s \in Sessions,
         Admit(s) \/ SpawnError(s) \/ DeliverLine(s) \/ Close(s)
  PROVE  SilentInv'
<1>1. /\ engine \in [Sessions -> {"none", "launching", "running", "done", "orphan"}]
      /\ pipe \in [Sessions -> Seq(Lines)]
  BY DEF TypeInv, TypeOK
<1>2. Silent(s) /\ RecordOf(s)
  BY DEF SilentInv, RecordInv
<1> USE DEF os
<1>3. CASE Admit(s)
  <2>1. s \notin open
    BY <1>2, <1>3 DEF Admit, RecordOf, Owned
  <2>2. /\ open' = open \cup {s} /\ pipe' = pipe
        /\ engine' = [engine EXCEPT ![s] = "launching"]
    BY <1>3 DEF Admit, Register
  <2>3. Silent(s)'
    BY <1>1, <1>2, <2>1, <2>2 DEF Silent
  <2>4. \A t \in Sessions : t # s => Silent(t)'
    BY <1>1, <2>2, SilentOther
  <2> QED
    BY <2>3, <2>4 DEF SilentInv
<1>4. CASE SpawnError(s)
  <2>1. /\ open' = open \ {s} /\ pipe' = pipe /\ engine[s] = "launching"
        /\ engine' = [engine EXCEPT ![s] = "done"]
    BY <1>4 DEF SpawnError, FinalizeFailed
  <2>2. Silent(s)'
    BY <1>1, <1>2, <2>1 DEF Silent
  <2>3. \A t \in Sessions : t # s => Silent(t)'
    BY <1>1, <2>1, SilentOther
  <2> QED
    BY <2>2, <2>3 DEF SilentInv
<1>5. CASE DeliverLine(s)
  <2>1. /\ open' = open /\ engine' = engine /\ pipe' = [pipe EXCEPT ![s] = Tail(@)]
        /\ pipe[s] # <<>>
    BY <1>5 DEF DeliverLine
  <2>2. Silent(s)'
    BY <1>1, <1>2, <2>1 DEF Silent
  <2>3. \A t \in Sessions : t # s => Silent(t)'
    BY <1>1, <2>1, SilentOther
  <2> QED
    BY <2>2, <2>3 DEF SilentInv
<1>6. CASE Close(s)
  <2>1. /\ open' = open \ {s} /\ engine' = engine /\ pipe' = pipe
        /\ engine[s] = "done" /\ pipe[s] = <<>>
    BY <1>6 DEF Close, Finalize, StreamAtEnd
  <2>2. Silent(s)'
    BY <2>1 DEF Silent
  <2>3. \A t \in Sessions : t # s => Silent(t)'
    BY <2>1, SilentOther
  <2> QED
    BY <2>2, <2>3 DEF SilentInv
<1> QED
  BY <1>3, <1>4, <1>5, <1>6

LEMMA SilentNext ==
  ASSUME NoShutdown, TypeInv, RecordInv, SilentInv, Next PROVE SilentInv'
<1>1. ASSUME NEW s \in Sessions, SessionStep(s) PROVE SilentInv'
  <2>1. CASE Admit(s) \/ SpawnError(s) \/ DeliverLine(s) \/ Close(s)
    BY <2>1, SilentCallback
  <2>2. CASE EngineFork(s) \/ EngineRefuse(s) \/ EngineReap(s)
    BY <2>2, SilentEngine
  <2>3. CASE \/ RefuseStart(s) \/ Sample(s) \/ Timeout(s) \/ Terminate(s) \/ Escalate(s)
             \/ Sweep(s) \/ Delete(s) \/ ProgramEnds(s) \/ KillTakesEffect(s) \/ HolderEnds(s)
    <3>1. UNCHANGED <<open, pipe, engine>>
      BY <2>3 DEF RefuseStart, Sample, Timeout, Terminate, Escalate, Sweep, Delete, ProgramEnds,
                  KillTakesEffect, HolderEnds, memory, os
    <3> QED
      BY <3>1, SilentSame
  <2> QED
    BY <1>1, <2>1, <2>2, <2>3 DEF SessionStep
<1>2. CASE \/ \E c \in Clients : Disconnect(c) \/ \E s \in Sessions : Connect(c, s)
           \/ \E d \in Dashboards : OpenDashboard(d) \/ CloseDashboard(d)
           \/ Boot
  <2>1. UNCHANGED <<open, pipe, engine>>
    BY <1>2 DEF Disconnect, Connect, OpenDashboard, CloseDashboard, Boot, memory, os
  <2> QED
    BY <2>1, SilentSame
<1>3. CASE ShutdownBegin \/ ShutdownFinalize
  BY <1>3 DEF ShutdownBegin, ShutdownFinalize, RecordInv, NoShutdown
<1>4. CASE ShutdownExit \/ Crash
  <2>1. Halt
    BY <1>4 DEF ShutdownExit, Crash
  <2>2. \A s \in Sessions : pipe'[s] = <<>> /\ engine'[s] \notin {"launching", "running"}
    BY <2>1 DEF Halt
  <2> QED
    BY <2>2 DEF SilentInv, Silent
<1> QED
  BY <1>1, <1>2, <1>3, <1>4 DEF Next

-----------------------------------------------------------------------------
(* What a step does to the record of one session: a step of the recorder,  *)
(* or an ending whose event a failed write has lost.                       *)
Loses(s) == faults' # 0 /\ \A e \in log'[s] : e.type \in OpenEvents

Recorded(s) ==
  \/ Recorder!Begin(s) \/ Recorder!Append(s) \/ Recorder!End(s)
  \/ Recorder!Forget(s) \/ Recorder!Unchanged(s)
  \/ Loses(s)

(* The recorder speaks of the same events and statuses.                    *)
LEMMA SameVocabulary ==
  /\ Recorder!OpenEvents = OpenEvents /\ Recorder!EventTypes = EventTypes
  /\ Recorder!TerminalStatuses = TerminalStatuses
  /\ \A status : Recorder!FinalType(status) = FinalType(status)
<1>1. Recorder!OpenEvents = OpenEvents
  BY DEF Recorder!OpenEvents, Recorder!EngineEvents, Recorder!GatewayEvents,
         OpenEvents, EngineEvents, GatewayEvents
<1>2. Recorder!EventTypes = EventTypes
  BY <1>1 DEF Recorder!EventTypes, Recorder!TerminalEvents, EventTypes, TerminalEvents
<1>3. Recorder!TerminalStatuses = TerminalStatuses
  BY DEF Recorder!TerminalStatuses, TerminalStatuses
<1>4. \A status : Recorder!FinalType(status) = FinalType(status)
  BY DEF Recorder!FinalType, FinalType
<1> QED
  BY <1>1, <1>2, <1>3, <1>4

LEMMA KeptRecord ==
  ASSUME NEW s \in Sessions, row'[s] = row[s], log'[s] = log[s] PROVE Recorded(s)
BY DEF Recorded, Recorder!Unchanged

(* The types of an open history, and of what may end it.                   *)
LEMMA OpenHistory ==
  ASSUME TypeInv, RecordInv, NEW s \in Sessions, row[s] \in {"NONE", "CREATED", "DELETED"}
  PROVE  \A e \in log[s] : e.type \in OpenEvents /\ e.seq \in Nat
<1>1. \A e \in log[s] : e.type \in EventTypes /\ e.seq \in Nat
  BY DEF TypeInv, TypeOK, Entry
<1>2. Terminals(s) = {}
  BY DEF RecordInv, RecordOf, Terminals
<1> QED
  BY <1>1, <1>2 DEF Terminals, EventTypes

LEMMA DisjointTypes ==
  /\ TerminalEvents \cap OpenEvents = {}
  /\ OpenEvents \cup TerminalEvents = EventTypes
  /\ "execution.created" \in OpenEvents /\ "execution.started" \in OpenEvents
  /\ "process.snapshot" \in OpenEvents /\ \A line \in Lines : line.type \in OpenEvents
BY DEF TerminalEvents, OpenEvents, EngineEvents, GatewayEvents, EventTypes, Lines

(* The one way an open row is ended: by the event of its new status, under *)
(* a number above the history's last.                                      *)
LEMMA Ending ==
  ASSUME TypeInv, RecordInv, NEW s \in Sessions, NEW final,
         row[s] = "CREATED", row'[s] \in TerminalStatuses, log'[s] = log[s] \cup {final},
         final.type = FinalType(row'[s]), \A e \in log[s] : e.seq < final.seq
  PROVE  Recorder!End(s)
<1>1. \A e \in log[s] : e.type \in OpenEvents
  BY OpenHistory
<1>2. final.type \in TerminalEvents /\ final.type \in EventTypes
  BY TypesOfEvents
<1>3. Recorder!Grows(s, EventTypes)
  BY <1>2 DEF Recorder!Grows, Recorder!New
<1>4. Recorder!Closes(s)
  <2>1. final \notin log[s]
    BY <1>1, <1>2, DisjointTypes
  <2>2. final \in Recorder!New(s)
    BY <2>1 DEF Recorder!New
  <2>3. \A e \in log'[s] : e = final \/ (e.seq < final.seq /\ e.type \in OpenEvents)
    BY <1>1
  <2> QED
    BY <2>2, <2>3, SameVocabulary DEF Recorder!Closes
<1> QED
  BY <1>3, <1>4, SameVocabulary DEF Recorder!End

(* The number of a recovery is above the history's last.                   *)
LEMMA RecoveryAbove ==
  ASSUME TypeInv, NEW s \in Sessions
  PROVE  \A e \in log[s] : e.seq < Recovery(s).seq
<1>1. log[s] \in Histories /\ \A e \in log[s] : e.seq \in Nat
  BY DEF TypeInv, Histories, Entry
<1>2. CASE log[s] = {}
  BY <1>2
<1>3. CASE log[s] # {}
  <2>1. \E e \in log[s] : \A f \in log[s] : f.seq <= e.seq
    BY <1>1, <1>3, LastEntryExists
  <2>2. \A f \in log[s] : f.seq < NextNumber(s)
    BY <1>1, <1>3, <2>1 DEF NextNumber
  <2> QED
    BY <2>2, EventFields DEF Recovery
<1> QED
  BY <1>2, <1>3

(* An open session's number is above its history.                          *)
LEMMA NumberAbove ==
  ASSUME TypeInv, RecordInv, NEW s \in Sessions, s \in open
  PROVE  \A e \in log[s] : e.seq < nextSeq[s]
BY DEF RecordInv, RecordOf, Owned

LEMMA AdmitRecorded ==
  ASSUME TypeInv, RecordInv, NEW s \in Sessions, NEW t \in Sessions, Admit(s) \/ RefuseStart(s)
  PROVE  Recorded(t)
<1> DEFINE second == Event(1, IF Admit(s) THEN "execution.started" ELSE "execution.failed")
<1>1. row[s] = "NONE" /\ log[s] = {} /\ row \in [Sessions -> RowStatuses]
  BY DEF Admit, RefuseStart, RecordInv, RecordOf, TypeInv, TypeOK
<1>2. Created.seq = 0 /\ Created.type = "execution.created"
      /\ Created = [seq |-> 0, type |-> "execution.created"]
  BY DEF Created, Event
<1>3. CASE Admit(s)
  <2>1. PICK kept \in SUBSET {Event(1, "execution.started")} : Persist(Only(s, {Created} \cup kept))
    BY <1>3 DEF Admit
  <2>2. \A u \in Sessions : log'[u] = log[u] \cup Only(s, {Created} \cup kept)[u]
    BY <2>1, PersistEffect
  <2>3. row' = [row EXCEPT ![s] = "CREATED"]
    BY <1>3 DEF Admit
  <2>4. CASE t # s
    <3>1. row'[t] = row[t] /\ log'[t] = log[t]
      BY <1>1, <2>2, <2>3, <2>4 DEF Only
    <3> QED
      BY <3>1, KeptRecord
  <2>5. CASE t = s
    <3>1. log'[s] = {Created} \cup kept /\ row'[s] = "CREATED"
      BY <1>1, <2>2, <2>3 DEF Only
    <3>2. \A e \in log'[s] : e.type \in OpenEvents
      BY <1>2, <3>1, EventFields, DisjointTypes
    <3>3. Recorder!Begin(s)
      BY <1>1, <1>2, <3>1, <3>2, SameVocabulary DEF Recorder!Begin
    <3> QED
      BY <2>5, <3>3 DEF Recorded
  <2> QED
    BY <2>4, <2>5
<1>4. CASE RefuseStart(s)
  <2> DEFINE final == Event(1, "execution.failed")
  <2>1. PICK kept \in SUBSET {final} : Written(kept, {final}) /\ Persist(Only(s, {Created} \cup kept))
    BY <1>4 DEF RefuseStart
  <2>2. \A u \in Sessions : log'[u] = log[u] \cup Only(s, {Created} \cup kept)[u]
    BY <2>1, PersistEffect
  <2>3. row' = [row EXCEPT ![s] = "FAILED"]
    BY <1>4 DEF RefuseStart
  <2>4. final.seq = 1 /\ final.type = "execution.failed"
    BY EventFields
  <2>5. faults' = 0 => kept = {final}
    BY <2>1, WrittenEffect
  <2> HIDE DEF final
  <2>6. CASE t # s
    <3>1. row'[t] = row[t] /\ log'[t] = log[t]
      BY <1>1, <2>2, <2>3, <2>6 DEF Only
    <3> QED
      BY <3>1, KeptRecord
  <2>7. CASE t = s
    <3>1. log'[s] = {Created} \cup kept /\ row'[s] = "FAILED"
      BY <1>1, <2>2, <2>3 DEF Only
    <3>2. CASE kept = {}
      <4>1. faults' # 0 /\ \A e \in log'[s] : e.type \in OpenEvents
        BY <1>2, <2>5, <3>1, <3>2, DisjointTypes
      <4> QED
        BY <2>7, <4>1 DEF Recorded, Loses
    <3>3. CASE kept = {final}
      <4>1. final \in Recorder!New(s)
        BY <1>1, <3>1, <3>3 DEF Recorder!New
      <4>2. \A e \in log'[s] : e = final \/ (e.seq < final.seq /\ e.type \in OpenEvents)
        BY <1>2, <2>4, <3>1, <3>3, DisjointTypes
      <4>3. Recorder!Closes(s)
        BY <2>4, <3>1, <4>1, <4>2, OpenTypes, SameVocabulary DEF Recorder!Closes, TerminalStatuses
      <4>4. Recorder!Begin(s)
        BY <1>1, <1>2, <3>1, <4>3, SameVocabulary DEF Recorder!Begin
      <4> QED
        BY <2>7, <4>4 DEF Recorded
    <3> QED
      BY <2>1, <3>2, <3>3
  <2> QED
    BY <2>6, <2>7
<1> QED
  BY <1>3, <1>4

LEMMA SpawnErrorRecorded ==
  ASSUME TypeInv, RecordInv, NEW s \in Sessions, NEW t \in Sessions, SpawnError(s)
  PROVE  Recorded(t)
<1> DEFINE final == Event(nextSeq[s], "execution.failed")
<1>1. PICK stored \in SUBSET {e \in {final} : Accepts(s, e)} :
        /\ \A u \in Sessions : log'[u] = IF u = s THEN log[s] \cup stored ELSE log[u]
        /\ faults' = 0 => faults = 0 /\ stored = {e \in {final} : Accepts(s, e)}
  <2>1. Emit(s, {final})
    BY DEF SpawnError, FinalizeFailed
  <2> QED
    BY <2>1, EmitEffect
<1>2. s \in open /\ row' = IF RowExists(s) THEN [row EXCEPT ![s] = "FAILED"] ELSE row
  BY DEF SpawnError, FinalizeFailed
<1>3. row \in [Sessions -> RowStatuses] /\ nextSeq \in [Sessions -> Nat]
  BY DEF TypeInv, TypeOK
<1>4. row[s] \in {"CREATED", "DELETED"} /\ \A e \in log[s] : e.seq < nextSeq[s]
  BY <1>2 DEF RecordInv, RecordOf, Owned
<1>5. final.seq = nextSeq[s] /\ final.type = "execution.failed"
  BY EventFields
<1> HIDE DEF final
<1>6. CASE t # s \/ row[s] = "DELETED"
  <2>1. row'[t] = row[t] /\ log'[t] = log[t]
    BY <1>1, <1>2, <1>3, <1>6 DEF RowExists, Accepts
  <2> QED
    BY <2>1, KeptRecord
<1>7. CASE t = s /\ row[s] = "CREATED"
  <2>1. row'[s] = "FAILED" /\ log'[s] = log[s] \cup stored
    BY <1>1, <1>2, <1>3, <1>7 DEF RowExists
  <2>2. Accepts(s, final)
    <3>1. \A e \in log[s] : e.seq \in Nat
      BY <1>7, OpenHistory
    <3> QED
      BY <1>3, <1>4, <1>5, <1>7, <3>1 DEF Accepts, RowExists
  <2>3. CASE stored = {}
    <3>1. \A e \in log'[s] : e.type \in OpenEvents
      BY <1>7, <2>1, <2>3, OpenHistory
    <3>2. faults' # 0
      BY <1>1, <2>2, <2>3
    <3> QED
      BY <1>7, <3>1, <3>2 DEF Recorded, Loses
  <2>4. CASE stored = {final}
    <3>1. Recorder!End(s)
      BY <1>4, <1>5, <1>7, <2>1, <2>4, Ending, OpenTypes DEF TerminalStatuses
    <3> QED
      BY <1>7, <3>1 DEF Recorded
  <2> QED
    BY <1>1, <2>3, <2>4
<1> QED
  BY <1>4, <1>6, <1>7

LEMMA CloseRecorded ==
  ASSUME TypeInv, RecordInv, NEW s \in Sessions, NEW t \in Sessions, Close(s)
  PROVE  Recorded(t)
<1> DEFINE final    == Event(nextSeq[s], FinalType(Verdict(s)))
           accepted == {e \in {final} : Accepts(s, e)}
<1>1. PICK stored \in SUBSET accepted :
        /\ Written(stored, accepted)
        /\ Persist(Only(s, stored))
        /\ row' = IF stored = {} THEN row ELSE [row EXCEPT ![s] = Verdict(s)]
  BY DEF Close, Finalize
<1>2. \A u \in Sessions : log'[u] = log[u] \cup Only(s, stored)[u]
  BY <1>1, PersistEffect
<1>3. row \in [Sessions -> RowStatuses] /\ s \in open
  BY DEF TypeInv, TypeOK, Close
<1>4. row[s] \in {"CREATED", "DELETED"} /\ \A e \in log[s] : e.seq < nextSeq[s]
  BY <1>3 DEF RecordInv, RecordOf, Owned
<1>5. final.seq = nextSeq[s] /\ final.type = FinalType(Verdict(s))
  BY EventFields
<1>6. stored \in SUBSET {final} /\ (row[s] = "DELETED" => stored = {})
  BY DEF Accepts, RowExists
<1>7. Verdict(s) \in TerminalStatuses
  BY DEF Verdict, DecideStatus, TerminalStatuses
<1> HIDE DEF final, accepted
<1>8. CASE t # s \/ stored = {}
  <2>1. row'[t] = row[t] /\ log'[t] = log[t]
    BY <1>1, <1>2, <1>3, <1>8 DEF Only
  <2> QED
    BY <2>1, KeptRecord
<1>9. CASE t = s /\ stored = {final}
  <2>1. row[s] = "CREATED" /\ row'[s] = Verdict(s) /\ log'[s] = log[s] \cup {final}
    BY <1>1, <1>2, <1>3, <1>4, <1>6, <1>9 DEF Only
  <2>2. Recorder!End(s)
    BY <1>4, <1>5, <1>7, <2>1, Ending
  <2> QED
    BY <1>9, <2>2 DEF Recorded
<1> QED
  BY <1>6, <1>8, <1>9

(* Lines and samples: a session that is read from is open and registered,  *)
(* so that what emit() stores is appended.                                 *)
LEMMA EmitRecorded ==
  ASSUME TypeInv, RecordInv, NEW s \in Sessions, NEW t \in Sessions, NEW sent, Emit(s, sent),
         row' = row, s \in open,
         \A e \in sent : e.type \in OpenEvents /\ e.seq >= nextSeq[s] /\ e.seq \in Nat
  PROVE  Recorded(t)
<1>1. PICK stored \in SUBSET {e \in sent : Accepts(s, e)} :
        \A u \in Sessions : log'[u] = IF u = s THEN log[s] \cup stored ELSE log[u]
  BY EmitEffect
<1>2. row[s] \in {"CREATED", "DELETED"} /\ \A e \in log[s] : e.seq < nextSeq[s]
  BY DEF RecordInv, RecordOf, Owned
<1>3. CASE t # s \/ row[s] = "DELETED"
  <2>1. log'[t] = log[t]
    BY <1>1, <1>3 DEF RowExists, Accepts
  <2> QED
    BY <2>1, KeptRecord
<1>4. CASE t = s /\ row[s] = "CREATED"
  <2>1. \A e \in log[s] : e.seq \in Nat
    BY <1>4, OpenHistory
  <2>2. nextSeq[s] \in Nat
    BY DEF TypeInv, TypeOK
  <2>3. Recorder!Grows(s, OpenEvents)
    <3>1. log'[s] = log[s] \cup stored
      BY <1>1
    <3>2. \A e \in stored : e.type \in OpenEvents /\ \A f \in log[s] : f.seq < e.seq
      BY <1>2, <2>1, <2>2
    <3> QED
      BY <3>1, <3>2 DEF Recorder!Grows, Recorder!New
  <2> QED
    BY <1>4, <2>3, SameVocabulary DEF Recorded, Recorder!Append
<1> QED
  BY <1>2, <1>3, <1>4

LEMMA DeliverRecorded ==
  ASSUME TypeInv, RecordInv, SilentInv, NEW s \in Sessions, NEW t \in Sessions, DeliverLine(s) \/ Sample(s)
  PROVE  Recorded(t)
<1>1. nextSeq[s] \in Nat /\ pipe \in [Sessions -> Seq(Lines)]
  BY DEF TypeInv, TypeOK
<1>2. CASE DeliverLine(s)
  <2> DEFINE sent == {Event(nextSeq[s], Head(pipe[s]).type)} \cup
                     (IF StartsLoop(s) THEN {Event(nextSeq[s] + 1, "process.snapshot")} ELSE {})
  <2>1. Emit(s, sent) /\ row' = row /\ pipe[s] # <<>>
    BY <1>2 DEF DeliverLine
  <2>2. s \in open
    BY <2>1 DEF SilentInv, Silent
  <2>3. Head(pipe[s]) \in Lines
    BY <1>1, <2>1
  <2>4. \A e \in sent : e.type \in OpenEvents /\ e.seq >= nextSeq[s] /\ e.seq \in Nat
    BY <1>1, <2>3, EventFields, DisjointTypes
  <2> HIDE DEF sent
  <2> QED
    BY <2>1, <2>2, <2>4, EmitRecorded
<1>3. CASE Sample(s)
  <2> DEFINE sent == {Event(nextSeq[s], "process.snapshot")}
  <2>1. Emit(s, sent) /\ row' = row /\ s \in open
    BY <1>3 DEF Sample, RecordInv
  <2>2. \A e \in sent : e.type \in OpenEvents /\ e.seq >= nextSeq[s] /\ e.seq \in Nat
    BY <1>1, EventFields, DisjointTypes
  <2> HIDE DEF sent
  <2> QED
    BY <2>1, <2>2, EmitRecorded
<1> QED
  BY <1>2, <1>3

LEMMA BootRecorded ==
  ASSUME TypeInv, RecordInv, NEW t \in Sessions, Boot PROVE Recorded(t)
<1> DEFINE accepted == {s \in Sessions : Stale(s) /\ Accepts(s, Recovery(s))}
<1>1. PICK kept \in SUBSET accepted :
        /\ Persist([s \in Sessions |-> IF s \in kept THEN {Recovery(s)} ELSE {}])
        /\ row' = [s \in Sessions |-> IF s \in kept THEN "FAILED" ELSE row[s]]
  BY DEF Boot
<1>2. log'[t] = log[t] \cup (IF t \in kept THEN {Recovery(t)} ELSE {})
  BY <1>1 DEF Persist
<1>3. CASE t \notin kept
  BY <1>1, <1>2, <1>3, KeptRecord
<1>4. CASE t \in kept
  <2>1. row[t] = "CREATED" /\ row'[t] = "FAILED" /\ log'[t] = log[t] \cup {Recovery(t)}
    BY <1>1, <1>2, <1>4 DEF Stale
  <2>2. Recovery(t).type = FinalType("FAILED")
    BY EventFields, OpenTypes DEF Recovery
  <2>3. Recorder!End(t)
    BY <2>1, <2>2, RecoveryAbove, Ending DEF TerminalStatuses
  <2> QED
    BY <2>3 DEF Recorded
<1> QED
  BY <1>3, <1>4

LEMMA StepRecorded ==
  ASSUME NoShutdown, TypeInv, RecordInv, SilentInv, Next, NEW t \in Sessions
  PROVE  Recorded(t)
<1>1. ASSUME NEW s \in Sessions, SessionStep(s) PROVE Recorded(t)
  <2>1. CASE Admit(s) \/ RefuseStart(s)
    BY <2>1, AdmitRecorded
  <2>2. CASE SpawnError(s)
    BY <2>2, SpawnErrorRecorded
  <2>3. CASE Close(s)
    BY <2>3, CloseRecorded
  <2>4. CASE DeliverLine(s) \/ Sample(s)
    BY <2>4, DeliverRecorded
  <2>5. CASE Delete(s)
    <3>1. /\ row \in [Sessions -> RowStatuses] /\ log \in [Sessions -> SUBSET Entry]
          /\ row[s] \notin {"NONE", "DELETED"}
          /\ row' = [row EXCEPT ![s] = "DELETED"] /\ log' = [log EXCEPT ![s] = {}]
      BY <2>5 DEF Delete, RowExists, TypeInv, TypeOK
    <3>2. CASE t = s
      BY <3>1, <3>2 DEF Recorded, Recorder!Forget
    <3>3. CASE t # s
      BY <3>1, <3>3, KeptRecord
    <3> QED
      BY <3>2, <3>3
  <2>6. CASE \/ Timeout(s) \/ Terminate(s) \/ Escalate(s) \/ Sweep(s)
             \/ EngineFork(s) \/ EngineRefuse(s) \/ EngineReap(s)
             \/ ProgramEnds(s) \/ KillTakesEffect(s) \/ HolderEnds(s)
    <3>1. UNCHANGED <<row, log>>
      BY <2>6 DEF Timeout, Terminate, Escalate, Sweep, EngineFork, EngineRefuse, EngineReap,
                  ProgramEnds, KillTakesEffect, HolderEnds, db
    <3> QED
      BY <3>1, KeptRecord
  <2> QED
    BY <1>1, <2>1, <2>2, <2>3, <2>4, <2>5, <2>6 DEF SessionStep
<1>2. CASE \/ \E c \in Clients : Disconnect(c) \/ \E s \in Sessions : Connect(c, s)
           \/ \E d \in Dashboards : OpenDashboard(d) \/ CloseDashboard(d)
           \/ ShutdownExit \/ Crash
  <2>1. UNCHANGED <<row, log>>
    BY <1>2 DEF Disconnect, Connect, OpenDashboard, CloseDashboard, ShutdownExit, Crash, Halt, db
  <2> QED
    BY <2>1, KeptRecord
<1>3. CASE ShutdownBegin \/ ShutdownFinalize
  BY <1>3 DEF ShutdownBegin, ShutdownFinalize, RecordInv, NoShutdown
<1>4. CASE Boot
  BY <1>4, BootRecorded
<1> QED
  BY <1>1, <1>2, <1>3, <1>4 DEF Next

LEMMA StepInvariant ==
  ASSUME NoShutdown PROVE Spec => []StepInv
<1>1. NoSweepAtShutdown
  BY DEF NoShutdown, NoSweepAtShutdown
<1>2. Init => SilentInv
  BY DEF Init, SilentInv, Silent
<1>3. TypeInv /\ RecordInv /\ SilentInv /\ [Next]_vars => SilentInv'
  BY SilentNext, SilentSame DEF vars
<1> QED
  BY <1>1, <1>2, <1>3, RecordInvariant, PTL DEF Spec, StepInv

-----------------------------------------------------------------------------
(* Nothing follows a terminal event (rule I6 of docs/architecture.md): no  *)
(* line, no sample and no second ending, whatever writes fail, wherever    *)
(* the gateway crashes and whether or not the registry was swept.  With an *)
(* orderly shutdown it is false: engines still write after the runner has  *)
(* finalized their executions.                                             *)
THEOREM TerminalStaysLast ==
  ASSUME NoShutdown PROVE Spec => []TerminalIsLast
<1>1. Init => TerminalIsLast
  BY DEF Init, TerminalIsLast, Terminals
<1>2. StepInv /\ TerminalIsLast /\ [Next]_vars => TerminalIsLast'
  <2>1. ASSUME StepInv, TerminalIsLast, Next PROVE TerminalIsLast'
    <3> SUFFICES ASSUME NEW s \in Sessions, NEW t \in Terminals(s)', NEW e \in log'[s]
                 PROVE  e.seq <= t.seq
      BY DEF TerminalIsLast
    <3>1. Recorded(s)
      BY <2>1, StepRecorded DEF StepInv
    <3>2. t \in log'[s] /\ t.type \in TerminalEvents /\ t.type \notin OpenEvents
      BY DisjointTypes DEF Terminals
    <3>3. e.seq \in Nat /\ t.seq \in Nat
      <4>1. TypeInv'
        BY <2>1, NextTyped DEF StepInv
      <4>2. \A f \in log'[s] : f.seq \in Nat
        BY <4>1 DEF TypeInv, TypeOK, Entry
      <4> QED
        BY <3>2, <4>2
    <3>4. row[s] \in {"NONE", "CREATED"} => \A f \in log[s] : f.type \in OpenEvents
      BY <2>1, OpenHistory DEF StepInv
    <3>5. CASE Recorder!Closes(s)
      BY <3>2, <3>3, <3>5, SameVocabulary DEF Recorder!Closes
    <3>6. CASE \A f \in log'[s] : f.type \in OpenEvents
      BY <3>2, <3>6
    <3>7. CASE Recorder!Append(s)
      <4>1. row[s] = "CREATED" /\ \A f \in log'[s] \ log[s] : f.type \in OpenEvents
        BY <3>7, SameVocabulary DEF Recorder!Append, Recorder!Grows, Recorder!New
      <4> QED
        BY <3>2, <3>4, <4>1
    <3>8. CASE Recorder!Forget(s)
      BY <3>2, <3>8 DEF Recorder!Forget
    <3>9. CASE Recorder!Unchanged(s)
      BY <2>1, <3>2, <3>9 DEF Recorder!Unchanged, TerminalIsLast, Terminals
    <3> QED
      BY <3>1, <3>5, <3>6, <3>7, <3>8, <3>9, SameVocabulary
         DEF Recorded, Loses, Recorder!Begin, Recorder!End
  <2>2. TerminalIsLast /\ UNCHANGED vars => TerminalIsLast'
    BY DEF vars, TerminalIsLast, Terminals
  <2> QED
    BY <2>1, <2>2
<1> QED
  BY <1>1, <1>2, StepInvariant, PTL DEF Spec

-----------------------------------------------------------------------------
(* With no failing write allowed, none is counted. *)
LEMMA NoFaults ==
  ASSUME TypeInv, MaxFaults = 0, faults = 0, Next PROVE faults' = 0
<1>1. \A done, accepted : Written(done, accepted) => faults' = 0
  BY DEF Written
<1>2. ASSUME NEW s \in Sessions, SessionStep(s) PROVE faults' = 0
  <2>1. CASE Admit(s) \/ RefuseStart(s)
    BY <1>1, <2>1 DEF Admit, RefuseStart
  <2>2. CASE SpawnError(s) \/ DeliverLine(s) \/ Sample(s)
    BY <1>1, <2>2 DEF SpawnError, FinalizeFailed, DeliverLine, Sample, Emit
  <2>3. CASE Close(s)
    BY <1>1, <2>3 DEF Close, Finalize
  <2>4. CASE \/ Timeout(s) \/ Terminate(s) \/ Escalate(s) \/ Sweep(s) \/ Delete(s)
             \/ EngineFork(s) \/ EngineRefuse(s) \/ EngineReap(s)
             \/ ProgramEnds(s) \/ KillTakesEffect(s) \/ HolderEnds(s)
    BY <2>4 DEF Timeout, Terminate, Escalate, Sweep, Delete, EngineFork, EngineRefuse, EngineReap,
                ProgramEnds, KillTakesEffect, HolderEnds
  <2> QED
    BY <1>2, <2>1, <2>2, <2>3, <2>4 DEF SessionStep
<1>3. CASE \/ \E c \in Clients : Disconnect(c) \/ \E s \in Sessions : Connect(c, s)
           \/ \E d \in Dashboards : OpenDashboard(d) \/ CloseDashboard(d)
           \/ ShutdownBegin \/ ShutdownExit \/ Crash
  BY <1>3 DEF Disconnect, Connect, OpenDashboard, CloseDashboard, ShutdownBegin, ShutdownExit,
              Crash, Halt
<1>4. CASE ShutdownFinalize
  BY <1>1, <1>4 DEF ShutdownFinalize
<1>5. CASE Boot
  BY <1>1, <1>5 DEF Boot
<1> QED
  BY <1>2, <1>3, <1>4, <1>5 DEF Next

(* The gateway implements the recorder's promise, with the row as the      *)
(* status and the events table as the history: histories begin with        *)
(* execution.created, grow at their end while the row is open, and are     *)
(* closed together with the row.  Every callback of the runner, the boot   *)
(* recovery and the deletion of a session is one step of the recorder; all *)
(* others are none.  A failed write can separate row and event, hence the  *)
(* first assumption.                                                       *)
THEOREM ImplementsRecorder ==
  ASSUME MaxFaults = 0, NoShutdown PROVE Spec => RecorderSpec
<1>1. Init => Recorder!Init
  BY DEF Init, Recorder!Init
<1>2. Init => faults = 0
  BY DEF Init
<1>3. StepInv /\ faults = 0 /\ [Next]_vars => (faults = 0)'
  BY NoFaults DEF StepInv, vars
<1>4. StepInv /\ StepInv' /\ (faults = 0)' /\ [Next]_vars => [Recorder!Next]_<<row, log>>
  <2>1. ASSUME StepInv, StepInv', faults' = 0, Next PROVE Recorder!Next
    <3>1. DOMAIN row' = Sessions /\ DOMAIN log' = Sessions
      BY <2>1 DEF StepInv, TypeInv, TypeOK
    <3>2. \A s \in Sessions : Recorded(s)
      BY <2>1, StepRecorded DEF StepInv
    <3> QED
      BY <2>1, <3>1, <3>2 DEF Recorder!Next, Recorded, Loses
  <2> QED
    BY <2>1 DEF vars
<1> QED
  BY <1>1, <1>2, <1>3, <1>4, StepInvariant, PTL DEF Spec, RecorderSpec, Recorder!Spec
=============================================================================
