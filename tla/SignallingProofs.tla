-------------------------- MODULE SignallingProofs --------------------------
(***************************************************************************)
(* Whom signals reach, proved for every number of stages, PIDs, requests   *)
(* and births, with births and deaths at any point.                        *)
(*                                                                         *)
(* The argument: births are numbered, a captured identity was born before  *)
(* it was captured, and a number changes hands only through a birth.  So   *)
(* whoever holds a number after a check is the process that was checked,   *)
(* nobody, or a process born since; and a handle opened before a check     *)
(* that succeeds is a handle to the process the check is about.  The       *)
(* inductive invariant says this for every place the code of a request     *)
(* can be at.                                                              *)
(***************************************************************************)
EXTENDS SignallingProperties, TLAPS

Born(own) == {own[i].born : i \in DOMAIN own}
Escalating == {"probing", "opening", "bound", "verified", "compare", "bare kill"}
OneCall == {"captured"} \cup Escalating

(* The holder of a number is nobody, the process with that birth, or one   *)
(* born since.                                                             *)
HeldBy(holder, birth, since) == holder = 0 \/ holder = birth \/ holder > since

GroupChecked(q, tab, own) ==
    q.at \in {"group", "group kill"} =>
        /\ q.want \cap Born(own) # {}
        /\ \A p \in Pids : tab[p].born # 0 /\ tab[p].group = q.pgid =>
              tab[p].born \in q.want \/ tab[p].born > q.checked

CapturedChecked(q, tab, own, child) ==
    q.at = "captured" =>
        /\ child \in Pids
        /\ \E i \in DOMAIN own : /\ own[i].born \in q.want
                                 /\ HeldBy(tab[child].born, own[i].born, q.checked)

Tracked(q, tab, own) ==
    /\ q.at = "track" => q.next >= 1
    /\ q.at \in Escalating =>
          /\ q.next \in 1..Len(own)
          /\ q.want = {own[q.next].born}
    /\ q.at \in {"probing", "compare"} =>
          HeldBy(tab[own[q.next].pid].born, q.saw, q.checked)
    /\ q.at = "bare kill" =>
          HeldBy(tab[own[q.next].pid].born, own[q.next].born, q.checked)
    /\ q.at = "bound" =>
          (tab[own[q.next].pid].born = own[q.next].born => q.fd = own[q.next].born)
    /\ q.at = "verified" => q.fd = own[q.next].born

Placed(q, tab, own, child) ==
    /\ GroupChecked(q, tab, own)
    /\ CapturedChecked(q, tab, own, child)
    /\ Tracked(q, tab, own)

GoodHit(h, own) ==
    /\ h.how = "pidfd" => h.want = {h.victim}
    /\ h.want \cap Born(own) # {}
    /\ h.victim \in h.want \/ h.victim > h.checked

Aged ==
    /\ \A p \in Pids : table[p].born <= clock
    /\ \A i \in DOMAIN active.owned : active.owned[i].born <= clock
    /\ \A r \in Requests : req[r].checked <= clock

SigInv ==
    /\ TypeOK
    /\ Aged
    /\ \A r \in Requests : Placed(req[r], table, active.owned, active.childPid)
    /\ \A h \in hits : GoodHit(h, active.owned)

(* What the kernel may do to a table: a number is as before, free, or held *)
(* by a process born since.                                                *)
Moved(tab, tab2, now) ==
    \A p \in Pids : \/ tab2[p].born = 0
                    \/ tab2[p].born > now
                    \/ tab2[p].born = tab[p].born /\ tab2[p].group = tab[p].group

-----------------------------------------------------------------------------
(* What the records are made of.                                           *)
LEMMA Fields ==
    /\ Free \in Processes
    /\ \A q \in Processes : /\ q.born \in Nat /\ q.born <= MaxBirths
                            /\ [q EXCEPT !.zombie = TRUE] \in Processes
    /\ \A e \in Identities : e.born \in Nat /\ e.born >= 1 /\ e.pid \in Pids
    /\ \A q \in RequestStates : q.checked \in Nat /\ q.saw \in Nat /\ q.fd \in Nat /\ q.next \in Nat
<1> USE SignallingAssumption
<1>1. Free \in Processes
  BY DEF Processes, Free, Outside
<1>2. ASSUME NEW q \in Processes
      PROVE  q.born \in Nat /\ q.born <= MaxBirths /\ [q EXCEPT !.zombie = TRUE] \in Processes
  <2>1. q.born \in 0..MaxBirths
    BY DEF Processes
  <2>2. [q EXCEPT !.zombie = TRUE] \in Processes
    BY DEF Processes
  <2> QED
    BY <2>1, <2>2
<1>3. \A e \in Identities : e.born \in Nat /\ e.born >= 1 /\ e.pid \in Pids
  BY DEF Identities
<1>4. \A q \in RequestStates : q.checked \in Nat /\ q.saw \in Nat /\ q.fd \in Nat /\ q.next \in Nat
  BY DEF RequestStates
<1> QED
  BY <1>1, <1>2, <1>3, <1>4

LEMMA StateFields ==
    ASSUME TypeOK
    PROVE  /\ clock \in Nat
           /\ \A p \in Pids : table[p] \in Processes /\ table[p].born \in Nat
           /\ \A i \in DOMAIN active.owned : /\ active.owned[i] \in Identities
                                             /\ active.owned[i].born \in Nat
                                             /\ active.owned[i].born >= 1
                                             /\ active.owned[i].pid \in Pids
           /\ \A r \in Requests : /\ req[r] \in RequestStates
                                  /\ req[r].checked \in Nat /\ req[r].saw \in Nat
                                  /\ req[r].fd \in Nat /\ req[r].next \in Nat
<1>1. clock \in Nat
  BY SignallingAssumption DEF TypeOK
<1>2. \A p \in Pids : table[p] \in Processes
  BY DEF TypeOK
<1>3. active.owned \in Seq(Identities)
  BY DEF TypeOK
<1>4. \A i \in DOMAIN active.owned : active.owned[i] \in Identities
  BY <1>3
<1>5. \A r \in Requests : req[r] \in RequestStates
  BY DEF TypeOK
<1> QED
  BY <1>1, <1>2, <1>4, <1>5, Fields

(* Births and deaths leave every request well placed.                      *)
LEMMA KernelMoves ==
    ASSUME NEW q \in RequestStates, NEW tab \in [Pids -> Processes], NEW tab2 \in [Pids -> Processes],
           NEW own \in Seq(Identities), NEW child, NEW now \in Nat,
           q.checked <= now, \A i \in DOMAIN own : own[i].born <= now,
           Moved(tab, tab2, now), Placed(q, tab, own, child)
    PROVE  Placed(q, tab2, own, child)
<1> USE SignallingAssumption
<1>1. /\ \A p \in Pids : tab[p].born \in Nat /\ tab2[p].born \in Nat
      /\ \A i \in DOMAIN own : own[i].born \in Nat \ {0} /\ own[i].pid \in Pids
      /\ q.checked \in Nat /\ q.saw \in Nat /\ q.fd \in Nat /\ q.next \in Nat
  <2>1. \A i \in DOMAIN own : own[i] \in Identities
    OBVIOUS
  <2>2. \A p \in Pids : tab[p] \in Processes /\ tab2[p] \in Processes
    OBVIOUS
  <2>3. \A p \in Pids : tab[p].born \in Nat /\ tab2[p].born \in Nat
    BY <2>2, Fields
  <2>4. \A i \in DOMAIN own : own[i].born \in Nat \ {0} /\ own[i].pid \in Pids
    BY <2>1, Fields
  <2>5. q.checked \in Nat /\ q.saw \in Nat /\ q.fd \in Nat /\ q.next \in Nat
    BY Fields
  <2> QED
    BY <2>3, <2>4, <2>5
<1>6. ASSUME NEW p \in Pids
      PROVE  \/ tab2[p].born = 0
             \/ tab2[p].born > q.checked
             \/ tab2[p].born = tab[p].born /\ tab2[p].group = tab[p].group
  <2>1. tab2[p].born > now => tab2[p].born > q.checked
    BY <1>1
  <2> QED
    BY <2>1 DEF Moved
<1>2. GroupChecked(q, tab2, own)
  BY <1>6 DEF Placed, GroupChecked
<1>3. ASSUME NEW p \in Pids, NEW b, HeldBy(tab[p].born, b, q.checked)
      PROVE  HeldBy(tab2[p].born, b, q.checked)
  BY <1>3, <1>6 DEF HeldBy
<1>4. CapturedChecked(q, tab2, own, child)
  BY <1>1, <1>3 DEF Placed, CapturedChecked
<1>5. Tracked(q, tab2, own)
  <2>1. CASE q.at \in Escalating
    <3>1. q.next \in DOMAIN own /\ q.next \in 1..Len(own) /\ q.want = {own[q.next].born}
      <4>1. q.next \in 1..Len(own) /\ q.want = {own[q.next].born}
        BY <2>1 DEF Placed, Tracked
      <4> QED
        BY <4>1
    <3>2. own[q.next].pid \in Pids /\ own[q.next].born \in Nat \ {0} /\ own[q.next].born <= now
      BY <1>1, <3>1
    <3>3. q.at = "bound" => (tab2[own[q.next].pid].born = own[q.next].born => q.fd = own[q.next].born)
      <4>1. ~(own[q.next].born > now) /\ own[q.next].born # 0
        BY <3>2
      <4>2. q.at = "bound" => (tab[own[q.next].pid].born = own[q.next].born => q.fd = own[q.next].born)
        BY DEF Placed, Tracked
      <4> QED
        BY <3>2, <4>1, <4>2 DEF Moved
    <3>4. q.at \in {"probing", "compare"} => HeldBy(tab2[own[q.next].pid].born, q.saw, q.checked)
      BY <1>3, <3>2 DEF Placed, Tracked
    <3>5. q.at = "bare kill" => HeldBy(tab2[own[q.next].pid].born, own[q.next].born, q.checked)
      BY <1>3, <3>2 DEF Placed, Tracked
    <3> QED
      BY <2>1, <3>1, <3>3, <3>4, <3>5 DEF Placed, Tracked, Escalating
  <2>2. CASE q.at \notin Escalating
    BY <2>2 DEF Placed, Tracked, Escalating
  <2> QED
    BY <2>1, <2>2
<1> QED
  BY <1>2, <1>4, <1>5 DEF Placed

(* A step of one request, or of none, with whatever the kernel did in it.  *)
LEMMA StepKeeps ==
    ASSUME SigInv, TypeOK', Aged', active' = active, Moved(table, table', clock),
           NEW r \in Requests,
           \A s \in Requests \ {r} : req'[s] = req[s],
           Placed(req'[r], table', active.owned, active.childPid),
           \A h \in hits' : h \in hits \/ GoodHit(h, active.owned)
    PROVE  SigInv'
<1>1. ASSUME NEW s \in Requests PROVE Placed(req'[s], table', active.owned, active.childPid)
  <2>1. CASE s = r
    BY <2>1
  <2>2. CASE s # r
    <3>1. /\ req[s] \in RequestStates /\ table \in [Pids -> Processes] /\ table' \in [Pids -> Processes]
          /\ active.owned \in Seq(Identities) /\ clock \in Nat
      BY SignallingAssumption DEF SigInv, TypeOK
    <3>2. req[s].checked <= clock /\ \A i \in DOMAIN active.owned : active.owned[i].born <= clock
      BY DEF SigInv, Aged
    <3>3. Placed(req[s], table, active.owned, active.childPid)
      BY DEF SigInv
    <3> QED
      BY <2>2, <3>1, <3>2, <3>3, KernelMoves
  <2> QED
    BY <2>1, <2>2
<1>2. \A h \in hits' : GoodHit(h, active.owned)
  BY DEF SigInv
<1> QED
  BY <1>1, <1>2 DEF SigInv

(* A step of the kernel or the engine alone.                               *)
LEMMA KernelKeeps ==
    ASSUME SigInv, TypeOK', Aged', UNCHANGED <<active, req, hits>>, Moved(table, table', clock)
    PROVE  SigInv'
<1>1. ASSUME NEW s \in Requests PROVE Placed(req'[s], table', active.owned, active.childPid)
  <2>1. /\ req[s] \in RequestStates /\ table \in [Pids -> Processes] /\ table' \in [Pids -> Processes]
        /\ active.owned \in Seq(Identities) /\ clock \in Nat
    BY SignallingAssumption DEF SigInv, TypeOK
  <2>2. req[s].checked <= clock /\ \A i \in DOMAIN active.owned : active.owned[i].born <= clock
    BY DEF SigInv, Aged
  <2>3. Placed(req[s], table, active.owned, active.childPid)
    BY DEF SigInv
  <2> QED
    BY <2>1, <2>2, <2>3, KernelMoves
<1> QED
  BY <1>1 DEF SigInv

LEMMA InitSig == Init => SigInv
<1> USE SignallingAssumption
<1> SUFFICES ASSUME Init PROVE SigInv
  OBVIOUS
<1>1. Free \in Processes /\ Idle \in RequestStates
  BY DEF Free, Processes, Outside, Idle, RequestStates, Places, NoPid
<1>2. TypeOK
  <2>1. table \in [Pids -> Processes] /\ req \in [Requests -> RequestStates]
    BY <1>1 DEF Init
  <2>2. stages \in Seq([pid : Pids, born : 1..MaxBirths, kept : BOOLEAN])
    BY DEF Init
  <2>3. active \in [childPid : Pids \cup {NoPid}, childPgid : Pids \cup {NoPid}, owned : Seq(Identities)]
    BY DEF Init, NoPid
  <2>4. /\ count \in 1..MaxStages /\ clock \in 0..MaxBirths
        /\ reaped \in 0..MaxStages /\ read \in 0..MaxStages
        /\ helper \in {"unknown", "available", "unavailable"}
    BY DEF Init
  <2>5. closed \in BOOLEAN
    BY DEF Init
  <2>6. Len(stages) <= count
    BY <2>4 DEF Init
  <2> QED
    BY <2>1, <2>2, <2>3, <2>4, <2>5, <2>6 DEF TypeOK
<1>3. Aged
  BY DEF Init, Aged, Free, Idle
<1>4. \A r \in Requests : Placed(req[r], table, active.owned, active.childPid)
  BY DEF Init, Idle, Placed, GroupChecked, CapturedChecked, Tracked, Escalating
<1> QED
  BY <1>2, <1>3, <1>4 DEF SigInv, Init

LEMMA LaunchSig ==
    ASSUME SigInv, NEW p \in Pids, NEW deaf \in BOOLEAN, NEW kept \in BOOLEAN, Launch(p, deaf, kept)
    PROVE  SigInv'
<1> USE SignallingAssumption
<1> DEFINE leader == IF stages = <<>> THEN p ELSE stages[1].pid
           group  == IF count = 1 THEN Outside ELSE IF kept THEN leader ELSE p
           new    == [born |-> clock + 1, stage |-> Len(stages) + 1,
                      group |-> group, deaf |-> deaf, zombie |-> FALSE]
           entry  == [pid |-> p, born |-> clock + 1, kept |-> kept]
<1>1. /\ clock < MaxBirths /\ clock' = clock + 1 /\ Len(stages) < count
      /\ table' = [table EXCEPT ![p] = new]
      /\ stages' = Append(stages, entry)
      /\ UNCHANGED <<count, reaped, read, active, closed, helper, req, hits>>
  BY DEF Launch, session
<1>2. clock \in Nat /\ count \in 1..MaxStages /\ stages \in Seq([pid : Pids, born : 1..MaxBirths, kept : BOOLEAN])
  BY DEF SigInv, TypeOK
<1>3. new \in Processes /\ entry \in [pid : Pids, born : 1..MaxBirths, kept : BOOLEAN]
  <2>1. group \in Pids \cup {Outside}
    <3>1. stages # <<>> => stages[1].pid \in Pids
      <4> DEFINE Entry == [pid : Pids, born : 1..MaxBirths, kept : BOOLEAN]
      <4>1. stages \in Seq(Entry)
        BY <1>2
      <4>2. \A e \in Entry : e.pid \in Pids
        OBVIOUS
      <4> HIDE DEF Entry
      <4>3. stages # <<>> => stages[1] \in Entry
        BY <4>1
      <4> QED
        BY <4>2, <4>3
    <3> QED
      BY <3>1
  <2>2. clock + 1 \in 1..MaxBirths /\ Len(stages) + 1 \in 0..MaxStages
    BY <1>1, <1>2
  <2> QED
    BY <2>1, <2>2 DEF Processes
<1> HIDE DEF group, leader, entry
<1>4. TypeOK'
  <2>1. table' \in [Pids -> Processes]
    BY <1>1, <1>3 DEF SigInv, TypeOK
  <2>2. stages' \in Seq([pid : Pids, born : 1..MaxBirths, kept : BOOLEAN]) /\ Len(stages') <= count
    BY <1>1, <1>2, <1>3
  <2>3. clock' \in 0..MaxBirths
    BY <1>1, <1>2
  <2> QED
    BY <1>1, <2>1, <2>2, <2>3 DEF SigInv, TypeOK
<1>5. Aged' /\ Moved(table, table', clock)
  <2>1. \A q \in Pids : table'[q] = table[q] \/ table'[q].born = clock + 1
    BY <1>1 DEF SigInv, TypeOK
  <2>2. \A q \in Pids : table[q].born \in Nat
    BY DEF SigInv, TypeOK, Processes
  <2>3. \A i \in DOMAIN active.owned : active.owned[i].born \in Nat
    BY StateFields DEF SigInv
  <2>4. \A r \in Requests : req[r].checked \in Nat
    BY DEF SigInv, TypeOK, RequestStates
  <2> QED
    BY <1>1, <1>2, <2>1, <2>2, <2>3, <2>4 DEF SigInv, Aged, Moved
<1> QED
  BY <1>1, <1>4, <1>5, KernelKeeps

LEMMA StrangerSig ==
    ASSUME SigInv, NEW p \in Pids, NEW leads \in BOOLEAN, Stranger(p, leads) PROVE SigInv'
<1> USE SignallingAssumption
<1> DEFINE new == [born |-> clock + 1, stage |-> 0, group |-> IF leads THEN p ELSE Outside,
                   deaf |-> FALSE, zombie |-> FALSE]
<1>1. /\ clock < MaxBirths /\ clock' = clock + 1
      /\ table' = [table EXCEPT ![p] = new]
      /\ UNCHANGED <<count, stages, reaped, read, active, closed, helper, req, hits>>
  BY DEF Stranger, session, engine
<1>2. clock \in Nat
  BY DEF SigInv, TypeOK
<1>3. new \in Processes
  BY <1>1, <1>2 DEF Processes
<1>4. TypeOK'
  <2>1. table' \in [Pids -> Processes]
    BY <1>1, <1>3 DEF SigInv, TypeOK
  <2>2. clock' \in 0..MaxBirths
    BY <1>1, <1>2
  <2> QED
    BY <1>1, <2>1, <2>2 DEF SigInv, TypeOK
<1>5. Aged' /\ Moved(table, table', clock)
  <2>1. \A q \in Pids : table'[q] = table[q] \/ table'[q].born = clock + 1
    BY <1>1 DEF SigInv, TypeOK
  <2>2. \A q \in Pids : table[q].born \in Nat
    BY DEF SigInv, TypeOK, Processes
  <2>3. \A i \in DOMAIN active.owned : active.owned[i].born \in Nat
    BY StateFields DEF SigInv
  <2>4. \A r \in Requests : req[r].checked \in Nat
    BY DEF SigInv, TypeOK, RequestStates
  <2> QED
    BY <1>1, <1>2, <2>1, <2>2, <2>3, <2>4 DEF SigInv, Aged, Moved
<1> QED
  BY <1>1, <1>4, <1>5, KernelKeeps

(* Processes that end or are reaped.                                       *)
LEMMA DeathSig ==
    ASSUME SigInv, Reap \/ \E p \in Pids : Exit(p) PROVE SigInv'
<1> USE SignallingAssumption
<1>1. /\ \A p \in Pids : table'[p] = table[p] \/ table'[p] = Free \/ table'[p] = [table[p] EXCEPT !.zombie = TRUE]
      /\ table' \in [Pids -> Processes]
      /\ reaped' \in 0..MaxStages
      /\ UNCHANGED <<count, clock, stages, read, active, closed, helper, req, hits>>
  <2>1. Free \in Processes /\ \A q \in Processes : [q EXCEPT !.zombie = TRUE] \in Processes
    BY Fields
  <2>2. CASE Reap
    <3>1. table \in [Pids -> Processes] /\ reaped \in 0..MaxStages /\ count \in 1..MaxStages
      BY DEF SigInv, TypeOK
    <3>2. /\ reaped < count /\ reaped' = reaped + 1
          /\ table' = [table EXCEPT ![stages[reaped + 1].pid] = Free]
          /\ UNCHANGED <<count, clock, stages, read, active, closed, helper, req, hits>>
      BY <2>2 DEF Reap, session
    <3>3. reaped' \in 0..MaxStages
      BY <3>1, <3>2
    <3>4. \A q \in Pids : table'[q] \in {table[q], Free}
      BY <3>1, <3>2
    <3>5. table' \in [Pids -> Processes]
      BY <2>1, <3>1, <3>2
    <3> QED
      BY <3>2, <3>3, <3>4, <3>5
  <2>3. CASE \E p \in Pids : Exit(p)
    <3>1. table \in [Pids -> Processes] /\ reaped \in 0..MaxStages
      BY DEF SigInv, TypeOK
    <3>2. PICK p \in Pids :
              table' = [table EXCEPT ![p] = IF @.stage = 0 THEN Free ELSE [@ EXCEPT !.zombie = TRUE]]
      BY <2>3 DEF Exit
    <3>3. UNCHANGED <<count, clock, stages, reaped, read, active, closed, helper, req, hits>>
      BY <2>3 DEF Exit, session, engine
    <3> QED
      BY <2>1, <3>1, <3>2, <3>3
  <2> QED
    BY <2>2, <2>3
<1>5. \A p \in Pids : \/ table'[p].born = 0
                      \/ table'[p].born = table[p].born /\ table'[p].group = table[p].group
  <2>1. \A x \in Processes : [x EXCEPT !.zombie = TRUE].born = x.born /\ [x EXCEPT !.zombie = TRUE].group = x.group
    BY DEF Processes
  <2>2. \A p \in Pids : table[p] \in Processes
    BY StateFields DEF SigInv
  <2>3. Free.born = 0
    BY DEF Free
  <2> QED
    BY <1>1, <2>1, <2>2, <2>3
<1>2. Moved(table, table', clock)
  BY <1>5 DEF Moved
<1>3. TypeOK'
  BY <1>1 DEF SigInv, TypeOK
<1>4. Aged'
  <2>1. \A p \in Pids : table'[p].born \in {0, table[p].born}
    BY <1>5
  <2>2. clock \in Nat
    BY DEF SigInv, TypeOK
  <2> QED
    BY <1>1, <2>1, <2>2 DEF SigInv, Aged
<1> QED
  BY <1>1, <1>2, <1>3, <1>4, KernelKeeps

-----------------------------------------------------------------------------
(* A line is observed, outside every turn.                                 *)
LEMMA ObserveSig == ASSUME SigInv, Observe PROVE SigInv'
<1> USE SignallingAssumption
<1> DEFINE p == stages[read + 1].pid
           e == [pid |-> p, born |-> Ticks(p)]
<1>1. /\ read < Len(stages) /\ ~Busy /\ read' = read + 1
      /\ active'.childPid = p
      /\ active'.childPgid = IF count > 1 THEN stages[1].pid ELSE active.childPgid
      /\ active'.owned = active.owned \/ (Held(p) /\ active'.owned = Append(active.owned, e))
      /\ active' = [childPid |-> active'.childPid, childPgid |-> active'.childPgid, owned |-> active'.owned]
      /\ UNCHANGED <<count, table, clock, stages, reaped, closed, helper, req, hits>>
  BY DEF Observe, kernel, engine
<1>2. Len(stages) <= count /\ count \in 1..MaxStages
  BY DEF SigInv, TypeOK
<1>3. \A i \in 1..Len(stages) : stages[i].pid \in Pids
  <2> DEFINE Entry == [pid : Pids, born : 1..MaxBirths, kept : BOOLEAN]
  <2>1. stages \in Seq(Entry)
    BY DEF SigInv, TypeOK
  <2>2. \A x \in Entry : x.pid \in Pids
    OBVIOUS
  <2> HIDE DEF Entry
  <2>3. \A i \in 1..Len(stages) : stages[i] \in Entry
    BY <2>1
  <2> QED
    BY <2>2, <2>3
<1>4. read \in Nat /\ Len(stages) \in Nat
  BY DEF SigInv, TypeOK
<1>5. p \in Pids /\ stages[1].pid \in Pids
  BY <1>1, <1>3, <1>4
<1>6. Held(p) => e \in Identities
  <2>1. table[p] \in Processes /\ table[p].born \in Nat
    BY <1>5, StateFields DEF SigInv
  <2>2. table[p].born <= MaxBirths
    BY <2>1, Fields
  <2> QED
    BY <1>5, <2>1, <2>2 DEF Identities, Held, Ticks
<1> HIDE DEF p, e
<1>7. active.owned \in Seq(Identities) /\ active'.owned \in Seq(Identities)
  <2>1. active.owned \in Seq(Identities)
    BY DEF SigInv, TypeOK
  <2>2. CASE active'.owned = active.owned
    BY <2>1, <2>2
  <2>3. CASE Held(p) /\ active'.owned = Append(active.owned, e)
    BY <1>6, <2>1, <2>3
  <2> QED
    BY <1>1, <2>1, <2>2, <2>3
<1>8. \A i \in DOMAIN active.owned : i \in DOMAIN active'.owned /\ active'.owned[i] = active.owned[i]
  BY <1>1, <1>6, <1>7
<1>9. TypeOK'
  <2>1. active' \in [childPid : Pids \cup {NoPid}, childPgid : Pids \cup {NoPid}, owned : Seq(Identities)]
    BY <1>1, <1>5, <1>7 DEF SigInv, TypeOK
  <2>2. read' \in 0..MaxStages
    BY <1>1, <1>2, <1>4
  <2> QED
    BY <1>1, <2>1, <2>2 DEF SigInv, TypeOK
<1>10. Aged'
  <2>1. Held(p) => e.born <= clock
    BY <1>5 DEF SigInv, Aged, e, Ticks
  <2>2. \A i \in DOMAIN active'.owned : i \in DOMAIN active.owned \/ (Held(p) /\ active'.owned[i] = e)
    BY <1>1, <1>7
  <2>3. \A i \in DOMAIN active'.owned : active'.owned[i].born <= clock
    BY <1>8, <2>1, <2>2 DEF SigInv, Aged
  <2> QED
    BY <1>1, <2>3 DEF SigInv, Aged
<1>11. Born(active.owned) \subseteq Born(active'.owned) /\ Len(active.owned) <= Len(active'.owned)
  BY <1>1, <1>7, <1>8 DEF Born
<1>12. ASSUME NEW r \in Requests PROVE Placed(req'[r], table', active'.owned, active'.childPid)
  <2> DEFINE q == req[r]
  <2>1. q.at \notin InTurn
    BY <1>1 DEF Busy
  <2>2. Placed(q, table, active.owned, active.childPid) /\ q.next \in Nat
    BY StateFields DEF SigInv
  <2> HIDE DEF q
  <2>3. GroupChecked(q, table, active'.owned) /\ CapturedChecked(q, table, active'.owned, active'.childPid)
    BY <2>1 DEF GroupChecked, CapturedChecked, InTurn
  <2>4. Tracked(q, table, active'.owned)
    <3>1. CASE q.at \in Escalating
      <4>1. q.next \in 1..Len(active.owned)
        BY <2>2, <3>1 DEF Placed, Tracked
      <4>2. q.next \in 1..Len(active'.owned)
        BY <1>7, <1>11, <4>1
      <4>3. active'.owned[q.next] = active.owned[q.next]
        BY <1>7, <1>8, <4>1
      <4> QED
        BY <2>2, <4>2, <4>3 DEF Placed, Tracked
    <3>2. CASE q.at \notin Escalating
      BY <2>2, <3>2 DEF Placed, Tracked, Escalating
    <3> QED
      BY <3>1, <3>2
  <2> QED
    BY <1>1, <2>3, <2>4 DEF Placed, q
<1>13. \A h \in hits' : GoodHit(h, active'.owned)
  BY <1>1, <1>11 DEF SigInv, GoodHit
<1> QED
  BY <1>9, <1>10, <1>12, <1>13 DEF SigInv

LEMMA CloseSig == ASSUME SigInv, Close PROVE SigInv'
<1>1. closed' = TRUE /\ UNCHANGED <<count, table, clock, stages, reaped, read, active, helper, req, hits>>
  BY DEF Close, kernel, engine
<1>2. TypeOK'
  BY <1>1 DEF SigInv, TypeOK
<1>3. Aged'
  BY <1>1 DEF SigInv, Aged
<1>4. Moved(table, table', clock)
  BY <1>1 DEF Moved
<1> QED
  BY <1>1, <1>2, <1>3, <1>4, KernelKeeps

-----------------------------------------------------------------------------
(* The steps of a request.  What each of them writes is a request again.   *)
LEMMA Forms ==
    ASSUME NEW q \in RequestStates, NEW at \in Places, NEW n \in Nat, NEW b \in 0..MaxBirths,
           NEW c \in 0..MaxBirths, NEW g \in Pids \cup {NoPid}, NEW w \in SUBSET (0..MaxBirths)
    PROVE  /\ [q EXCEPT !.at = at] \in RequestStates
           /\ [q EXCEPT !.next = n] \in RequestStates
           /\ [q EXCEPT !.at = at, !.next = n] \in RequestStates
           /\ [q EXCEPT !.at = at, !.fd = b] \in RequestStates
           /\ [q EXCEPT !.at = at, !.next = n, !.refused = w] \in RequestStates
           /\ [q EXCEPT !.at = at, !.checked = c, !.want = w] \in RequestStates
           /\ [q EXCEPT !.at = at, !.pgid = g, !.checked = c, !.want = w] \in RequestStates
           /\ [q EXCEPT !.at = at, !.saw = b, !.checked = c, !.want = w] \in RequestStates
<1>1. [q EXCEPT !.at = at] \in RequestStates /\ [q EXCEPT !.next = n] \in RequestStates
  BY DEF RequestStates
<1>2. [q EXCEPT !.at = at, !.next = n] \in RequestStates
  BY DEF RequestStates
<1>3. [q EXCEPT !.at = at, !.fd = b] \in RequestStates
  BY DEF RequestStates
<1>4. [q EXCEPT !.at = at, !.next = n, !.refused = w] \in RequestStates
  BY DEF RequestStates
<1>5. [q EXCEPT !.at = at, !.checked = c, !.want = w] \in RequestStates
  BY DEF RequestStates
<1>6. [q EXCEPT !.at = at, !.pgid = g, !.checked = c, !.want = w] \in RequestStates
  BY DEF RequestStates
<1>7. [q EXCEPT !.at = at, !.saw = b, !.checked = c, !.want = w] \in RequestStates
  BY DEF RequestStates
<1> QED
  BY <1>1, <1>2, <1>3, <1>4, <1>5, <1>6, <1>7

(* A step of a request that changes no process.                            *)
LEMMA RequestKeeps ==
    ASSUME SigInv, NEW r \in Requests, NEW q \in RequestStates,
           Goto(r, q), q.checked <= clock,
           Placed(q, table, active.owned, active.childPid),
           UNCHANGED <<count, table, clock, stages, reaped, read, active, closed, hits>>,
           helper' \in {"unknown", "available", "unavailable"}
    PROVE  SigInv'
<1>1. req' = [req EXCEPT ![r] = q] /\ req \in [Requests -> RequestStates]
  BY DEF Goto, SigInv, TypeOK
<1>2. req' \in [Requests -> RequestStates] /\ req'[r] = q /\ \A s \in Requests \ {r} : req'[s] = req[s]
  BY <1>1
<1>3. TypeOK'
  BY <1>2 DEF SigInv, TypeOK
<1>4. Aged'
  BY <1>2 DEF SigInv, Aged
<1>5. Moved(table, table', clock)
  BY DEF Moved
<1>6. Placed(req'[r], table', active.owned, active.childPid)
  BY <1>2
<1> QED
  BY <1>2, <1>3, <1>4, <1>5, <1>6, StepKeeps

(* A step that sends a signal, after which the request waits or is done    *)
(* or has a next identity to try.                                          *)
LEMMA SignalKeeps ==
    ASSUME SigInv, NEW r \in Requests, NEW q \in RequestStates,
           Goto(r, q), q.checked <= clock,
           q.at \in {"grace", "done"} \/ (q.at = "track" /\ q.next >= 1),
           NEW how, NEW sig, NEW s \in SUBSET Pids, Deliver(how, sig, r, s),
           UNCHANGED <<count, stages, reaped, read, active, closed, helper>>,
           \A p \in s : Runs(p) => GoodHit(Hit(how, sig, r, p), active.owned)
    PROVE  SigInv'
<1>1. req' = [req EXCEPT ![r] = q] /\ req \in [Requests -> RequestStates]
  BY DEF Goto, SigInv, TypeOK
<1>2. req' \in [Requests -> RequestStates] /\ req'[r] = q /\ \A t \in Requests \ {r} : req'[t] = req[t]
  BY <1>1
<1>3. clock' = clock /\ table' = Struck(sig, s)
      /\ hits' = hits \cup {Hit(how, sig, r, p) : p \in {t \in s : Runs(t)}}
  BY DEF Deliver
<1>4. \A p \in Pids : \/ table'[p] = table[p] \/ table'[p] = Free
                      \/ table'[p] = [table[p] EXCEPT !.zombie = TRUE]
  BY <1>3 DEF Struck
<1>5. table' \in [Pids -> Processes]
  <2>1. DOMAIN table' = Pids /\ table' = [p \in Pids |-> table'[p]]
    BY <1>3 DEF Struck
  <2>2. \A p \in Pids : table'[p] \in Processes
    BY <1>4, StateFields, Fields DEF SigInv
  <2> QED
    BY <2>1, <2>2
<1>6. \A p \in Pids : \/ table'[p].born = 0
                      \/ table'[p].born = table[p].born /\ table'[p].group = table[p].group
  <2>1. \A x \in Processes : [x EXCEPT !.zombie = TRUE].born = x.born /\ [x EXCEPT !.zombie = TRUE].group = x.group
    BY DEF Processes
  <2> QED
    <3>1. \A p \in Pids : table[p] \in Processes
      BY StateFields DEF SigInv
    <3>2. Free.born = 0
      BY DEF Free
    <3> QED
      BY <1>4, <2>1, <3>1, <3>2
<1>7. TypeOK'
  BY <1>2, <1>3, <1>5 DEF SigInv, TypeOK
<1>8. Aged'
  <2>1. clock \in Nat
    BY StateFields DEF SigInv
  <2> QED
    BY <1>2, <1>3, <1>6, <2>1 DEF SigInv, Aged
<1>9. Moved(table, table', clock)
  BY <1>6 DEF Moved
<1>10. Placed(req'[r], table', active.owned, active.childPid)
  BY <1>2 DEF Placed, GroupChecked, CapturedChecked, Tracked, Escalating
<1>11. \A h \in hits' : h \in hits \/ GoodHit(h, active.owned)
  BY <1>3
<1> QED
  BY <1>2, <1>7, <1>8, <1>9, <1>10, <1>11, StepKeeps

(* What a check of the group has found, whoever it verified it by.         *)
LEMMA GroupFound ==
    ASSUME SigInv, NEW pgid \in Pids \cup {NoPid}, Verified(pgid)
    PROVE  /\ Births(Group(pgid)) \cap Born(active.owned) # {}
           /\ Births(Group(pgid)) \in SUBSET (0..MaxBirths)
           /\ \A p \in Pids : table[p].born # 0 /\ table[p].group = pgid => table[p].born \in Births(Group(pgid))
<1>1. \A p \in Pids : table[p] \in Processes /\ table[p].born \in Nat
  BY StateFields DEF SigInv
<1>2. \A p \in Pids : table[p].born \in 0..MaxBirths
  <2>1. \A p \in Pids : table[p].born <= MaxBirths
    BY <1>1, Fields
  <2> QED
    BY <1>1, <2>1, SignallingAssumption
<1>3. Births(Group(pgid)) \in SUBSET (0..MaxBirths)
  BY <1>2 DEF Births, Group
<1>4. \A p \in Pids : table[p].born # 0 /\ table[p].group = pgid => table[p].born \in Births(Group(pgid))
  BY DEF Births, Group, Held
<1>5. PICK i \in DOMAIN active.owned :
         Ticks(active.owned[i].pid) = active.owned[i].born /\ table[active.owned[i].pid].group = pgid
  BY DEF Verified
<1>6. active.owned[i].pid \in Pids /\ active.owned[i].born \in Nat /\ active.owned[i].born >= 1
  BY StateFields DEF SigInv
<1>7. active.owned[i].born \in Births(Group(pgid))
  BY <1>4, <1>5, <1>6 DEF Ticks
<1> QED
  BY <1>3, <1>4, <1>7 DEF Born

(* The turn that falls back to the captured process.                       *)
LEMMA ToCapturedSig ==
    ASSUME SigInv, NEW r \in Requests, ToCaptured(r),
           UNCHANGED <<count, table, clock, stages, reaped, read, active, closed, helper, hits>>
    PROVE  SigInv'
<1> USE SignallingAssumption
<1> DEFINE w == {active.owned[i].born : i \in Captured}
           at == IF CapturedLives THEN "captured" ELSE "done"
           q  == [req[r] EXCEPT !.at = at, !.pgid = active.childPgid, !.checked = clock, !.want = w]
<1>1. clock \in 0..MaxBirths /\ active.childPgid \in Pids \cup {NoPid} /\ active.childPid \in Pids \cup {NoPid}
  BY DEF SigInv, TypeOK
<1>2. req[r] \in RequestStates /\ \A i \in DOMAIN active.owned : active.owned[i] \in Identities
  BY StateFields DEF SigInv
<1>3. w \in SUBSET (0..MaxBirths)
  <2>1. \A e \in Identities : e.born \in 0..MaxBirths
    BY DEF Identities
  <2> QED
    BY <1>2, <2>1 DEF Captured
<1>4. at \in Places
  BY DEF Places
<1>5. /\ q.at = at /\ q.checked = clock /\ q.want = w
  BY <1>2 DEF RequestStates
<1>6. q \in RequestStates
  <2> HIDE DEF at, w
  <2> QED
    BY <1>1, <1>2, <1>3, <1>4, Forms
<1>7. Goto(r, q)
  BY DEF ToCaptured
<1>8. CapturedChecked(q, table, active.owned, active.childPid)
  <2>1. CASE CapturedLives
    <3>1. PICK i \in Captured : Ticks(active.childPid) = active.owned[i].born
      BY <2>1 DEF CapturedLives
    <3>2. i \in DOMAIN active.owned /\ active.owned[i].pid = active.childPid /\ active.owned[i].born \in w
      BY <3>1 DEF Captured
    <3>3. active.childPid \in Pids
      BY <1>2, <3>2, Fields
    <3> QED
      BY <1>5, <3>1, <3>2, <3>3 DEF CapturedChecked, HeldBy, Ticks
  <2>2. CASE ~CapturedLives
    BY <1>5, <2>2 DEF CapturedChecked
  <2> QED
    BY <2>1, <2>2
<1>9. at \in {"captured", "done"}
  OBVIOUS
<1> HIDE DEF q, at, w
<1>10. Placed(q, table, active.owned, active.childPid)
  BY <1>5, <1>8, <1>9 DEF Placed, GroupChecked, Tracked, Escalating
<1>11. q.checked <= clock /\ helper' \in {"unknown", "available", "unavailable"}
  BY <1>1, <1>5 DEF SigInv, TypeOK
<1> QED
  BY <1>6, <1>7, <1>10, <1>11, RequestKeeps

LEMMA OfItself == \A n \in Nat : n <= n
  OBVIOUS

(* The turn that has verified the group.                                   *)
LEMMA GroupTurnSig ==
    ASSUME SigInv, NEW r \in Requests, NEW pgid \in Pids \cup {NoPid}, Verified(pgid),
           NEW q \in RequestStates, Goto(r, q),
           q.at \in {"group", "group kill"}, q.pgid = pgid, q.checked = clock,
           q.want = Births(Group(pgid)),
           UNCHANGED <<count, table, clock, stages, reaped, read, active, closed, helper, hits>>
    PROVE  SigInv'
<1>1. GroupChecked(q, table, active.owned)
  BY GroupFound DEF GroupChecked
<1>2. Placed(q, table, active.owned, active.childPid)
  BY <1>1 DEF Placed, CapturedChecked, Tracked, Escalating
<1>3. q.checked <= clock
  <2>1. clock \in Nat
    BY StateFields DEF SigInv
  <2> QED
    BY <2>1, OfItself, Zenon
<1>4. helper' \in {"unknown", "available", "unavailable"}
  BY DEF SigInv, TypeOK
<1> QED
  BY <1>2, <1>3, <1>4, RequestKeeps

LEMMA TerminateSig == ASSUME SigInv, NEW r \in Requests, Terminate(r) PROVE SigInv'
<1>1. UNCHANGED <<count, table, clock, stages, reaped, read, active, closed, helper, hits>>
  BY DEF Terminate, kernel, engine, session
<1>2. CASE ~Verified(active.childPgid)
  <2>1. ToCaptured(r)
    BY <1>2 DEF Terminate
  <2> QED
    BY <1>1, <2>1, ToCapturedSig
<1>3. CASE Verified(active.childPgid)
  <2> DEFINE g == active.childPgid
             w == Births(Group(g))
             q == [req[r] EXCEPT !.at = "group", !.pgid = g, !.checked = clock, !.want = w]
  <2>1. Goto(r, q)
    BY <1>3 DEF Terminate
  <2>2. g \in Pids \cup {NoPid} /\ clock \in 0..MaxBirths /\ req[r] \in RequestStates
    BY StateFields DEF SigInv, TypeOK
  <2>3. w \in SUBSET (0..MaxBirths)
    BY <1>3, <2>2, GroupFound
  <2>4. "group" \in Places
    BY DEF Places
  <2>5. q \in RequestStates
    BY <2>2, <2>3, <2>4, Forms
  <2>6. q.at = "group" /\ q.pgid = g /\ q.checked = clock /\ q.want = w
    BY <2>2 DEF RequestStates
  <2> HIDE DEF q
  <2> QED
    BY <1>1, <1>3, <2>1, <2>2, <2>5, <2>6, GroupTurnSig
<1> QED
  BY <1>2, <1>3

LEMMA ExpireSig == ASSUME SigInv, NEW r \in Requests, Expire(r) PROVE SigInv'
<1>1. UNCHANGED <<count, table, clock, stages, reaped, read, active, closed, helper, hits>>
  BY DEF Expire, kernel, engine, session
<1>2. req[r] \in RequestStates /\ clock \in 0..MaxBirths /\ req[r].checked <= clock
      /\ helper \in {"unknown", "available", "unavailable"}
  BY StateFields DEF SigInv, TypeOK, Aged
<1>3. CASE ~Verified(req[r].pgid)
  <2> DEFINE q == [req[r] EXCEPT !.at = "track", !.next = 1]
  <2>1. Goto(r, q)
    BY <1>3 DEF Expire
  <2>2. "track" \in Places /\ 1 \in Nat
    BY DEF Places
  <2>3. q \in RequestStates
    BY <1>2, <2>2, Forms
  <2>4. q.at = "track" /\ q.next = 1 /\ q.checked = req[r].checked
    BY <1>2 DEF RequestStates
  <2> HIDE DEF q
  <2>5. Placed(q, table, active.owned, active.childPid)
    BY <2>4 DEF Placed, GroupChecked, CapturedChecked, Tracked, Escalating
  <2> QED
    BY <1>1, <1>2, <2>1, <2>3, <2>4, <2>5, RequestKeeps
<1>4. CASE Verified(req[r].pgid)
  <2> DEFINE g == req[r].pgid
             w == Births(Group(g))
             q == [req[r] EXCEPT !.at = "group kill", !.checked = clock, !.want = w]
  <2>1. Goto(r, q)
    BY <1>4 DEF Expire
  <2>2. g \in Pids \cup {NoPid}
    BY <1>2 DEF RequestStates
  <2>3. w \in SUBSET (0..MaxBirths)
    BY <1>4, <2>2, GroupFound
  <2>4. "group kill" \in Places
    BY DEF Places
  <2>5. q \in RequestStates
    BY <1>2, <2>3, <2>4, Forms
  <2>6. q.at = "group kill" /\ q.pgid = g /\ q.checked = clock /\ q.want = w
    BY <1>2 DEF RequestStates
  <2> HIDE DEF q
  <2> QED
    BY <1>1, <1>4, <2>1, <2>2, <2>5, <2>6, GroupTurnSig
<1> QED
  BY <1>3, <1>4

(* A step that only moves the request on, to a place where nothing is      *)
(* asked of it but the next identity.                                      *)
LEMMA RestKeeps ==
    ASSUME SigInv, NEW r \in Requests, NEW q \in RequestStates, Goto(r, q),
           q.checked = req[r].checked,
           q.at \in {"grace", "done"} \/ (q.at = "track" /\ q.next >= 1),
           UNCHANGED <<count, table, clock, stages, reaped, read, active, closed, helper, hits>>
    PROVE  SigInv'
<1>1. Placed(q, table, active.owned, active.childPid)
  BY DEF Placed, GroupChecked, CapturedChecked, Tracked, Escalating
<1>2. q.checked <= clock
  BY DEF SigInv, Aged
<1>3. helper' \in {"unknown", "available", "unavailable"}
  BY DEF SigInv, TypeOK
<1> QED
  BY <1>1, <1>2, <1>3, RequestKeeps

(* The request as every step finds it.                                     *)
LEMMA Asking ==
    ASSUME SigInv, NEW r \in Requests
    PROVE  /\ req[r] \in RequestStates
           /\ req[r].next \in Nat
           /\ req[r].checked \in 0..MaxBirths /\ req[r].checked <= clock
           /\ req[r].pgid \in Pids \cup {NoPid}
           /\ req[r].want \in SUBSET (0..MaxBirths)
           /\ req[r].refused \in SUBSET (0..MaxBirths)
           /\ clock \in 0..MaxBirths
           /\ Placed(req[r], table, active.owned, active.childPid)
<1>1. req[r] \in RequestStates /\ clock \in 0..MaxBirths
  BY DEF SigInv, TypeOK
<1>2. /\ req[r].next \in Nat /\ req[r].checked \in 0..MaxBirths
      /\ req[r].pgid \in Pids \cup {NoPid}
      /\ req[r].want \in SUBSET (0..MaxBirths) /\ req[r].refused \in SUBSET (0..MaxBirths)
  BY <1>1 DEF RequestStates
<1> QED
  BY <1>1, <1>2 DEF SigInv, Aged

(* The identity a request is about, while it is about one.                 *)
LEMMA Tracking ==
    ASSUME SigInv, NEW r \in Requests, req[r].at \in Escalating
    PROVE  /\ Expected(r).pid \in Pids
           /\ Expected(r).born \in Nat /\ Expected(r).born >= 1
           /\ Expected(r).born \in 0..MaxBirths
           /\ req[r].want = {Expected(r).born}
           /\ req[r].next \in 1..Len(active.owned)
           /\ Expected(r).born \in Born(active.owned)
<1>1. req[r].next \in 1..Len(active.owned) /\ req[r].want = {active.owned[req[r].next].born}
  BY Asking DEF Placed, Tracked
<1>2. active.owned \in Seq(Identities)
  BY DEF SigInv, TypeOK
<1>3. req[r].next \in DOMAIN active.owned /\ Expected(r) \in Identities
  BY <1>1, <1>2 DEF Expected
<1>4. Expected(r).pid \in Pids /\ Expected(r).born \in 0..MaxBirths
      /\ Expected(r).born \in Nat /\ Expected(r).born >= 1
  BY <1>3, SignallingAssumption DEF Identities
<1> QED
  BY <1>1, <1>3, <1>4 DEF Expected, Born

(* A group is signalled within the turn that checked it.                   *)
LEMMA GroupHits ==
    ASSUME SigInv, NEW r \in Requests, req[r].at \in {"group", "group kill"}, NEW sig,
           NEW p \in Group(req[r].pgid)
    PROVE  GoodHit(Hit("kill-group", sig, r, p), active.owned)
<1>1. GroupChecked(req[r], table, active.owned)
  BY Asking DEF Placed
<1>2. p \in Pids /\ table[p].born # 0 /\ table[p].group = req[r].pgid
  BY DEF Group, Held
<1> QED
  BY <1>1, <1>2 DEF GroupChecked, GoodHit, Hit

LEMMA TermGroupSig == ASSUME SigInv, NEW r \in Requests, TermGroup(r) PROVE SigInv'
<1> DEFINE s == Group(req[r].pgid)
           q == [req[r] EXCEPT !.at = "grace"]
<1>1. req[r].at = "group" /\ UNCHANGED <<count, stages, reaped, read, active, closed, helper>>
  BY DEF TermGroup, engine, session
<1>2. CASE s = {}
  <2>1. ToCaptured(r) /\ UNCHANGED <<table, clock, hits>>
    BY <1>2 DEF TermGroup, kernel
  <2> QED
    BY <1>1, <2>1, ToCapturedSig
<1>3. CASE s # {}
  <2>1. Deliver("kill-group", "TERM", r, s) /\ Goto(r, q)
    BY <1>3 DEF TermGroup
  <2>2. q \in RequestStates
    BY Asking, Forms DEF Places
  <2>3. q.at = "grace" /\ q.checked = req[r].checked
    BY Asking DEF RequestStates
  <2>4. s \in SUBSET Pids
    BY DEF Group
  <2>5. \A p \in s : GoodHit(Hit("kill-group", "TERM", r, p), active.owned)
    BY <1>1, GroupHits
  <2>6. q.checked <= clock
    BY <2>3, Asking
  <2> HIDE DEF q, s
  <2> QED
    BY <1>1, <2>1, <2>2, <2>3, <2>4, <2>5, <2>6, SignalKeeps
<1> QED
  BY <1>2, <1>3

LEMMA KillGroupSig == ASSUME SigInv, NEW r \in Requests, KillGroup(r) PROVE SigInv'
<1> DEFINE s == Group(req[r].pgid)
           q == [req[r] EXCEPT !.at = "done"]
           t == [req[r] EXCEPT !.at = "track", !.next = 1]
<1>1. req[r].at = "group kill" /\ UNCHANGED <<count, stages, reaped, read, active, closed, helper>>
  BY DEF KillGroup, engine, session
<1>2. CASE s = {}
  <2>1. Goto(r, t) /\ UNCHANGED <<table, clock, hits>>
    BY <1>2 DEF KillGroup, kernel
  <2>2. t \in RequestStates
    BY Asking, Forms DEF Places
  <2>3. t.at = "track" /\ t.next >= 1 /\ t.checked = req[r].checked
    BY Asking DEF RequestStates
  <2> HIDE DEF t
  <2> QED
    BY <1>1, <2>1, <2>2, <2>3, RestKeeps
<1>3. CASE s # {}
  <2>1. Deliver("kill-group", "KILL", r, s) /\ Goto(r, q)
    BY <1>3 DEF KillGroup
  <2>2. q \in RequestStates
    BY Asking, Forms DEF Places
  <2>3. q.at = "done" /\ q.checked = req[r].checked
    BY Asking DEF RequestStates
  <2>4. s \in SUBSET Pids
    BY DEF Group
  <2>5. \A p \in s : GoodHit(Hit("kill-group", "KILL", r, p), active.owned)
    BY <1>1, GroupHits
  <2>6. q.checked <= clock
    BY <2>3, Asking
  <2> HIDE DEF q, s
  <2> QED
    BY <1>1, <2>1, <2>2, <2>3, <2>4, <2>5, <2>6, SignalKeeps
<1> QED
  BY <1>2, <1>3

LEMMA TermCapturedSig == ASSUME SigInv, NEW r \in Requests, TermCaptured(r) PROVE SigInv'
<1> DEFINE c == active.childPid
           q == [req[r] EXCEPT !.at = "grace"]
           t == [req[r] EXCEPT !.at = "done"]
<1>1. req[r].at = "captured" /\ UNCHANGED <<count, stages, reaped, read, active, closed, helper>>
  BY DEF TermCaptured, engine, session
<1>2. q \in RequestStates /\ t \in RequestStates
  <2>1. "grace" \in Places /\ "done" \in Places
    BY DEF Places
  <2>2. req[r] \in RequestStates
    BY Asking
  <2> QED
    BY <2>1, <2>2, Forms DEF RequestStates
<1>3. q.at = "grace" /\ t.at = "done" /\ q.checked = req[r].checked /\ t.checked = req[r].checked
  BY Asking DEF RequestStates
<1>4. CASE ~Held(c)
  <2>1. Goto(r, t) /\ UNCHANGED <<table, clock, hits>>
    BY <1>4 DEF TermCaptured, kernel
  <2> HIDE DEF q, t
  <2> QED
    BY <1>1, <1>2, <1>3, <2>1, RestKeeps
<1>5. CASE Held(c)
  <2>1. Deliver("kill", "TERM", r, {c}) /\ Goto(r, q)
    BY <1>5 DEF TermCaptured
  <2>2. CapturedChecked(req[r], table, active.owned, c)
    BY Asking DEF Placed
  <2>3. PICK i \in DOMAIN active.owned :
            active.owned[i].born \in req[r].want /\ HeldBy(table[c].born, active.owned[i].born, req[r].checked)
    BY <1>1, <2>2 DEF CapturedChecked
  <2>4. c \in Pids
    BY <1>1, <2>2 DEF CapturedChecked
  <2>5. GoodHit(Hit("kill", "TERM", r, c), active.owned)
    BY <1>5, <2>3 DEF GoodHit, Hit, Born, HeldBy, Held
  <2>6. q.checked <= clock
    BY <1>3, Asking
  <2> HIDE DEF q, t
  <2>7. {c} \in SUBSET Pids /\ \A p \in {c} : GoodHit(Hit("kill", "TERM", r, p), active.owned)
    BY <2>4, <2>5
  <2> QED
    BY <1>1, <1>2, <1>3, <2>1, <2>6, <2>7, SignalKeeps
<1> QED
  BY <1>4, <1>5

-----------------------------------------------------------------------------
(* escalateTrackedIdentities.                                              *)

(* The helper declined, or was given up.                                   *)
LEMMA DeclineSig ==
    ASSUME SigInv, NEW r \in Requests, req[r].at \in Escalating, Decline(r),
           UNCHANGED <<count, table, clock, stages, reaped, read, active, closed, helper, hits>>
    PROVE  SigInv'
<1> DEFINE n == req[r].next + 1
           w == req[r].refused \cup {Expected(r).born}
           q == [req[r] EXCEPT !.at = "track", !.next = n, !.refused = w]
<1>1. Goto(r, q)
  BY DEF Decline
<1>2. n \in Nat /\ n >= 1
  BY Asking
<1>3. w \in SUBSET (0..MaxBirths) /\ "track" \in Places
  BY Asking, Tracking DEF Places
<1>4. q \in RequestStates
  <2> HIDE DEF n, w
  <2> QED
    BY <1>2, <1>3, Asking, Forms
<1>5. q.at = "track" /\ q.next = n /\ q.checked = req[r].checked
  BY Asking DEF RequestStates
<1> HIDE DEF q, n
<1> QED
  BY <1>1, <1>2, <1>4, <1>5, RestKeeps

(* The comparison failed, or nobody held the number any more: the next     *)
(* identity, without a refusal.                                            *)
LEMMA SkipSig ==
    ASSUME SigInv, NEW r \in Requests,
           Goto(r, [req[r] EXCEPT !.at = "track", !.next = @ + 1]),
           UNCHANGED <<count, table, clock, stages, reaped, read, active, closed, helper, hits>>
    PROVE  SigInv'
<1> DEFINE n == req[r].next + 1
           q == [req[r] EXCEPT !.at = "track", !.next = n]
<1>1. Goto(r, q)
  OBVIOUS
<1>2. n \in Nat /\ n >= 1
  BY Asking
<1>3. "track" \in Places
  BY DEF Places
<1>4. q \in RequestStates
  <2> HIDE DEF n
  <2> QED
    BY <1>2, <1>3, Asking, Forms
<1>5. q.at = "track" /\ q.next = n /\ q.checked = req[r].checked
  BY Asking DEF RequestStates
<1> HIDE DEF q, n
<1> QED
  BY <1>1, <1>2, <1>4, <1>5, RestKeeps

LEMMA ReadIdentitySig == ASSUME SigInv, NEW r \in Requests, ReadIdentity(r) PROVE SigInv'
<1>1. /\ req[r].at = "track"
      /\ UNCHANGED <<count, table, clock, stages, reaped, read, active, closed, helper, hits>>
  BY DEF ReadIdentity, kernel, engine, session
<1>2. req[r].next >= 1 /\ req[r].next \in Nat
  BY <1>1, Asking DEF Placed, Tracked
<1>3. CASE req[r].next > Len(active.owned)
  <2> DEFINE q == [req[r] EXCEPT !.at = "done"]
  <2>1. Goto(r, q)
    BY <1>3 DEF ReadIdentity
  <2>2. q \in RequestStates
    BY Asking, Forms DEF Places
  <2>3. q.at = "done" /\ q.checked = req[r].checked
    BY Asking DEF RequestStates
  <2> HIDE DEF q
  <2> QED
    BY <1>1, <2>1, <2>2, <2>3, RestKeeps
<1>4. CASE ~(req[r].next > Len(active.owned)) /\ ~Held(Expected(r).pid)
  <2> DEFINE n == req[r].next + 1
             q == [req[r] EXCEPT !.next = n]
  <2>1. Goto(r, q)
    BY <1>4 DEF ReadIdentity
  <2>2. n \in Nat /\ n >= 1
    BY <1>2
  <2>3. q \in RequestStates
    <3> HIDE DEF n
    <3>1. "track" \in Places
      BY DEF Places
    <3> QED
      BY <2>2, <3>1, Asking, Forms
  <2>4. q.at = "track" /\ q.next = n /\ q.checked = req[r].checked
    BY <1>1, Asking DEF RequestStates
  <2> HIDE DEF q, n
  <2> QED
    BY <1>1, <2>1, <2>2, <2>3, <2>4, RestKeeps
<1>5. CASE ~(req[r].next > Len(active.owned)) /\ Held(Expected(r).pid)
  <2> DEFINE at == CASE helper = "unknown" -> "probing"
                     [] helper = "available" -> "opening"
                     [] helper = "unavailable" -> "compare"
             b == Ticks(Expected(r).pid)
             w == {Expected(r).born}
             q == [req[r] EXCEPT !.at = at, !.saw = b, !.checked = clock, !.want = w]
  <2>1. Goto(r, q)
    BY <1>5 DEF ReadIdentity
  <2>2. at \in {"probing", "opening", "compare"}
    BY DEF SigInv, TypeOK
  <2>3. req[r].next \in DOMAIN active.owned /\ req[r].next \in 1..Len(active.owned)
    <3>1. Len(active.owned) \in Nat /\ DOMAIN active.owned = 1..Len(active.owned)
      BY DEF SigInv, TypeOK
    <3> QED
      BY <1>2, <1>5, <3>1
  <2>4. Expected(r) \in Identities
    <3>1. active.owned \in Seq(Identities)
      BY DEF SigInv, TypeOK
    <3> QED
      BY <2>3, <3>1 DEF Expected
  <2>5. Expected(r).pid \in Pids /\ Expected(r).born \in 0..MaxBirths
    BY <2>4, SignallingAssumption DEF Identities
  <2>6. b \in 0..MaxBirths
    <3>1. table[Expected(r).pid] \in Processes
      BY <2>5, StateFields DEF SigInv
    <3> QED
      BY <3>1 DEF Ticks, Processes
  <2>7. w \in SUBSET (0..MaxBirths) /\ at \in Places
    BY <2>2, <2>5 DEF Places
  <2>8. q \in RequestStates
    <3> HIDE DEF at, b, w
    <3> QED
      BY <2>6, <2>7, Asking, Forms
  <2>9. q.at = at /\ q.saw = b /\ q.checked = clock /\ q.want = w /\ q.next = req[r].next
    BY Asking DEF RequestStates
  <2>10. HeldBy(table[Expected(r).pid].born, q.saw, q.checked)
    BY <2>9 DEF HeldBy, Ticks
  <2> HIDE DEF q, at
  <2>11. Placed(q, table, active.owned, active.childPid)
    BY <2>2, <2>3, <2>9, <2>10 DEF Placed, GroupChecked, CapturedChecked, Tracked, Escalating, Expected
  <2>12. q.checked <= clock
    <3>1. clock \in Nat
      BY StateFields DEF SigInv
    <3> QED
      BY <2>9, <3>1, OfItself, Zenon
  <2>13. helper' \in {"unknown", "available", "unavailable"}
    BY <1>1 DEF SigInv, TypeOK
  <2> QED
    BY <1>1, <2>1, <2>8, <2>11, <2>12, <2>13, RequestKeeps
<1> QED
  BY <1>3, <1>4, <1>5

(* The helper's own places: only the place changes, or the handle.         *)
LEMMA AtKeeps ==
    ASSUME SigInv, NEW r \in Requests, NEW at \in Escalating,
           req[r].at \in Escalating, Goto(r, [req[r] EXCEPT !.at = at]),
           at = "opening" \/ (at = "compare" /\ req[r].at = "probing")
           \/ (at = "verified" /\ req[r].fd = Expected(r).born)
           \/ (at = "bare kill" /\ HeldBy(table[Expected(r).pid].born, Expected(r).born, req[r].checked)),
           UNCHANGED <<count, table, clock, stages, reaped, read, active, closed, hits>>,
           helper' \in {"unknown", "available", "unavailable"}
    PROVE  SigInv'
<1> DEFINE q == [req[r] EXCEPT !.at = at]
<1>1. q \in RequestStates
  <2>1. at \in Places
    BY DEF Places, Escalating
  <2> QED
    BY <2>1, Asking DEF RequestStates
<1>2. /\ q.at = at /\ q.saw = req[r].saw /\ q.checked = req[r].checked /\ q.want = req[r].want
      /\ q.next = req[r].next /\ q.fd = req[r].fd
  BY Asking DEF RequestStates
<1>3. Goto(r, q)
  OBVIOUS
<1> HIDE DEF q
<1>4. Tracked(req[r], table, active.owned)
  BY Asking DEF Placed
<1>5. Placed(q, table, active.owned, active.childPid)
  BY <1>2, <1>4 DEF Placed, GroupChecked, CapturedChecked, Tracked, Escalating, Expected
<1>6. q.checked <= clock
  BY <1>2, Asking
<1> QED
  BY <1>1, <1>3, <1>5, <1>6, RequestKeeps

LEMMA ProbeSig ==
    ASSUME SigInv, NEW r \in Requests, NEW works \in BOOLEAN, Probe(r, works) PROVE SigInv'
<1>1. /\ req[r].at = "probing"
      /\ UNCHANGED <<count, table, clock, stages, reaped, read, active, closed, hits>>
      /\ helper' \in {"unknown", "available", "unavailable"}
  BY DEF Probe, kernel, engine, session
<1>2. PICK at \in {"opening", "compare"} : Goto(r, [req[r] EXCEPT !.at = at])
  BY DEF Probe
<1> QED
  BY <1>1, <1>2, AtKeeps DEF Escalating

LEMMA OpenSig == ASSUME SigInv, NEW r \in Requests, Open(r) PROVE SigInv'
<1>1. /\ req[r].at = "opening" /\ req[r].at \in Escalating
      /\ UNCHANGED <<count, table, clock, stages, reaped, read, active, closed, helper, hits>>
  BY DEF Open, kernel, engine, session, Escalating
<1>2. CASE ~Held(Expected(r).pid)
  <2>1. Decline(r)
    BY <1>2 DEF Open
  <2> QED
    BY <1>1, <2>1, DeclineSig
<1>3. CASE Held(Expected(r).pid)
  <2> DEFINE b == Ticks(Expected(r).pid)
             q == [req[r] EXCEPT !.at = "bound", !.fd = b]
  <2>1. Goto(r, q)
    BY <1>3 DEF Open
  <2>2. b \in 0..MaxBirths
    <3>1. table[Expected(r).pid] \in Processes
      BY <1>1, Tracking, StateFields DEF SigInv
    <3> QED
      BY <3>1 DEF Ticks, Processes
  <2>3. q \in RequestStates
    <3>1. "bound" \in Places
      BY DEF Places
    <3> HIDE DEF b
    <3> QED
      BY <2>2, <3>1, Asking, Forms
  <2>4. /\ q.at = "bound" /\ q.fd = b /\ q.checked = req[r].checked /\ q.want = req[r].want
        /\ q.next = req[r].next
    BY Asking DEF RequestStates
  <2> HIDE DEF q
  <2>5. Placed(q, table, active.owned, active.childPid)
    BY <1>1, <2>4, Asking DEF Placed, GroupChecked, CapturedChecked, Tracked, Escalating, Expected, Ticks
  <2>6. q.checked <= clock
    BY <2>4, Asking
  <2>7. helper' \in {"unknown", "available", "unavailable"}
    BY <1>1 DEF SigInv, TypeOK
  <2> QED
    BY <1>1, <2>1, <2>3, <2>5, <2>6, <2>7, RequestKeeps
<1> QED
  BY <1>2, <1>3

LEMMA BindSig == ASSUME SigInv, NEW r \in Requests, Bind(r) PROVE SigInv'
<1>1. /\ req[r].at = "bound" /\ req[r].at \in Escalating
      /\ UNCHANGED <<count, table, clock, stages, reaped, read, active, closed, helper, hits>>
  BY DEF Bind, kernel, engine, session, Escalating
<1>2. CASE Ticks(Expected(r).pid) # Expected(r).born
  <2>1. Decline(r)
    BY <1>2 DEF Bind
  <2> QED
    BY <1>1, <2>1, DeclineSig
<1>3. CASE Ticks(Expected(r).pid) = Expected(r).born
  <2>1. Goto(r, [req[r] EXCEPT !.at = "verified"])
    BY <1>3 DEF Bind
  <2>2. req[r].fd = Expected(r).born
    BY <1>1, <1>3, Asking DEF Placed, Tracked, Expected, Ticks
  <2>3. helper' \in {"unknown", "available", "unavailable"}
    BY <1>1 DEF SigInv, TypeOK
  <2> QED
    BY <1>1, <2>1, <2>2, <2>3, AtKeeps DEF Escalating
<1> QED
  BY <1>2, <1>3

LEMMA SendSig ==
    ASSUME SigInv, NEW r \in Requests, NEW answered \in BOOLEAN, Send(r, answered) PROVE SigInv'
<1>1. /\ req[r].at = "verified" /\ req[r].at \in Escalating
      /\ UNCHANGED <<count, stages, reaped, read, active, closed, helper>>
  BY DEF Send, engine, session, Escalating
<1>2. CASE Bound(r) = {}
  <2>1. Decline(r) /\ UNCHANGED <<table, clock, hits>>
    BY <1>2 DEF Send, kernel
  <2> QED
    BY <1>1, <2>1, DeclineSig
<1>3. CASE Bound(r) # {}
  <2>1. Deliver("pidfd", "KILL", r, Bound(r)) /\ Bound(r) \in SUBSET Pids
    BY <1>3 DEF Send, Bound
  <2>2. req[r].fd = Expected(r).born
    BY <1>1, Asking DEF Placed, Tracked, Expected
  <2>3. ASSUME NEW p \in Bound(r) PROVE GoodHit(Hit("pidfd", "KILL", r, p), active.owned)
    <3>1. table[p].born = Expected(r).born
      BY <2>2 DEF Bound
    <3> QED
      BY <1>1, <3>1, Tracking DEF GoodHit, Hit
  <2> DEFINE n == req[r].next + 1
             w == req[r].refused \cup {Expected(r).born}
             q == [req[r] EXCEPT !.at = "done"]
             t == [req[r] EXCEPT !.at = "track", !.next = n, !.refused = w]
  <2>4. n \in Nat /\ n >= 1 /\ w \in SUBSET (0..MaxBirths)
    BY <1>1, Asking, Tracking
  <2>5. q \in RequestStates /\ t \in RequestStates
    <3>1. "done" \in Places /\ "track" \in Places
      BY DEF Places
    <3> HIDE DEF n, w
    <3>2. q \in RequestStates
      BY <3>1, Asking DEF RequestStates
    <3>3. t \in RequestStates
      BY <2>4, <3>1, Asking, Forms
    <3> QED
      BY <3>2, <3>3
  <2>6. /\ q.at = "done" /\ q.checked = req[r].checked
        /\ t.at = "track" /\ t.next = n /\ t.checked = req[r].checked
    BY Asking DEF RequestStates
  <2>7. Goto(r, q) \/ Goto(r, t)
    BY <1>3 DEF Send, Decline
  <2>8. q.checked <= clock /\ t.checked <= clock
    BY <2>6, Asking
  <2> HIDE DEF q, t, n
  <2> QED
    BY <1>1, <2>1, <2>3, <2>4, <2>5, <2>6, <2>7, <2>8, SignalKeeps
<1> QED
  BY <1>2, <1>3

LEMMA HelperTimeoutSig == ASSUME SigInv, NEW r \in Requests, HelperTimeout(r) PROVE SigInv'
<1>1. /\ req[r].at \in Escalating /\ Decline(r)
      /\ UNCHANGED <<count, table, clock, stages, reaped, read, active, closed, helper, hits>>
  BY DEF HelperTimeout, kernel, engine, session, Escalating
<1> QED
  BY <1>1, DeclineSig

LEMMA CompareSig == ASSUME SigInv, NEW r \in Requests, Compare(r) PROVE SigInv'
<1>1. /\ req[r].at = "compare" /\ req[r].at \in Escalating
      /\ UNCHANGED <<count, table, clock, stages, reaped, read, active, closed, helper, hits>>
  BY DEF Compare, kernel, engine, session, Escalating
<1>2. CASE req[r].saw # Expected(r).born
  <2>1. Goto(r, [req[r] EXCEPT !.at = "track", !.next = @ + 1])
    BY <1>2 DEF Compare
  <2> QED
    BY <1>1, <2>1, SkipSig
<1>3. CASE req[r].saw = Expected(r).born
  <2>1. Goto(r, [req[r] EXCEPT !.at = "bare kill"])
    BY <1>3 DEF Compare
  <2>2. HeldBy(table[Expected(r).pid].born, Expected(r).born, req[r].checked)
    BY <1>1, <1>3, Asking DEF Placed, Tracked, Expected
  <2>3. helper' \in {"unknown", "available", "unavailable"}
    BY <1>1 DEF SigInv, TypeOK
  <2> QED
    BY <1>1, <2>1, <2>2, <2>3, AtKeeps DEF Escalating
<1> QED
  BY <1>2, <1>3

LEMMA BareKillSig == ASSUME SigInv, NEW r \in Requests, BareKill(r) PROVE SigInv'
<1> DEFINE p == Expected(r).pid
           q == [req[r] EXCEPT !.at = "done"]
<1>1. /\ req[r].at = "bare kill" /\ req[r].at \in Escalating
      /\ UNCHANGED <<count, stages, reaped, read, active, closed, helper>>
  BY DEF BareKill, engine, session, Escalating
<1>2. CASE ~Held(p)
  <2>1. Goto(r, [req[r] EXCEPT !.at = "track", !.next = @ + 1]) /\ UNCHANGED <<table, clock, hits>>
    BY <1>2 DEF BareKill, kernel
  <2> QED
    BY <1>1, <2>1, SkipSig
<1>3. CASE Held(p)
  <2>1. Deliver("kill", "KILL", r, {p}) /\ Goto(r, q)
    BY <1>3 DEF BareKill
  <2>2. HeldBy(table[p].born, Expected(r).born, req[r].checked)
    BY <1>1, Asking DEF Placed, Tracked, Expected
  <2>3. GoodHit(Hit("kill", "KILL", r, p), active.owned)
    BY <1>1, <1>3, <2>2, Tracking DEF GoodHit, Hit, HeldBy, Held
  <2>4. q \in RequestStates
    BY Asking, Forms DEF Places
  <2>5. q.at = "done" /\ q.checked = req[r].checked
    BY Asking DEF RequestStates
  <2>6. q.checked <= clock
    BY <2>5, Asking
  <2>7. {p} \in SUBSET Pids /\ \A x \in {p} : GoodHit(Hit("kill", "KILL", r, x), active.owned)
    BY <1>1, <2>3, Tracking
  <2> HIDE DEF q
  <2> QED
    BY <1>1, <2>1, <2>4, <2>5, <2>6, <2>7, SignalKeeps
<1> QED
  BY <1>2, <1>3

-----------------------------------------------------------------------------
LEMMA SigStep == SigInv /\ [Next]_vars => SigInv'
<1> SUFFICES ASSUME SigInv, [Next]_vars PROVE SigInv'
  OBVIOUS
<1>1. CASE \E p \in Pids : \E deaf, kept \in BOOLEAN : Launch(p, deaf, kept)
  BY <1>1, LaunchSig
<1>2. CASE Reap
  BY <1>2, DeathSig
<1>3. CASE \E p \in Pids : Exit(p)
  BY <1>3, DeathSig
<1>4. CASE \E p \in Pids : \E leads \in BOOLEAN : Stranger(p, leads)
  BY <1>4, StrangerSig
<1>5. CASE Observe
  BY <1>5, ObserveSig
<1>6. CASE Close
  BY <1>6, CloseSig
<1>7. ASSUME NEW r \in Requests, Gateway(r) PROVE SigInv'
  <2>1. CASE Terminate(r) \/ TermGroup(r) \/ TermCaptured(r)
    BY <2>1, TerminateSig, TermGroupSig, TermCapturedSig
  <2>2. CASE Expire(r) \/ KillGroup(r)
    BY <2>2, ExpireSig, KillGroupSig
  <2>3. CASE ReadIdentity(r) \/ \E works \in BOOLEAN : Probe(r, works)
    BY <2>3, ReadIdentitySig, ProbeSig
  <2>4. CASE Open(r) \/ Bind(r) \/ \E answered \in BOOLEAN : Send(r, answered)
    BY <2>4, OpenSig, BindSig, SendSig
  <2>5. CASE HelperTimeout(r) \/ Compare(r) \/ BareKill(r)
    BY <2>5, HelperTimeoutSig, CompareSig, BareKillSig
  <2> QED
    BY <1>7, <2>1, <2>2, <2>3, <2>4, <2>5 DEF Gateway
<1>8. CASE UNCHANGED vars
  <2>1. UNCHANGED <<count, table, clock, stages, reaped, read, active, closed, helper, req, hits>>
    BY <1>8 DEF vars, kernel, engine, session
  <2> QED
    BY <2>1 DEF SigInv, TypeOK, Aged, Placed, GroupChecked, CapturedChecked, Tracked
<1> QED
  BY <1>1, <1>2, <1>3, <1>4, <1>5, <1>6, <1>7, <1>8 DEF Next

LEMMA Inductive == Spec => []SigInv
<1> QED
  BY InitSig, SigStep, PTL DEF Spec

(* Type correctness of the signalling state.                               *)
THEOREM SignalTypes == Spec => []TypeOK
<1>1. SigInv => TypeOK
  BY DEF SigInv
<1> QED
  BY <1>1, Inductive, PTL

(* A signal sent through a pidfd reaches the captured process, whatever    *)
(* numbers are reused at any point (pidfd.c).                              *)
THEOREM ExactPidfd == Spec => []PidfdIsExact
<1>1. SigInv => PidfdIsExact
  BY DEF SigInv, GoodHit, PidfdIsExact
<1> QED
  BY <1>1, Inductive, PTL

(* The kill(2) paths of terminator.ts reach a process that was not there   *)
(* at their check only if it was born after it.                            *)
THEOREM Window == Spec => []OnlyInTheWindow
<1>1. SigInv => OnlyInTheWindow
  BY DEF SigInv, GoodHit, OnlyInTheWindow, OwnedBirths, Born
<1> QED
  BY <1>1, Inductive, PTL

-----------------------------------------------------------------------------
(* What was refused is not killed by its number.  A request walks through  *)
(* the captured identities in order and has refused only some it has       *)
(* passed; no two of them are the same process; and once it has killed one *)
(* by its number its code is at the end.                                   *)
Passed(q, own) == {own[i].born : i \in {j \in DOMAIN own : j < q.next}}

Refused(q, own) ==
    /\ q.at \in {"idle", "group", "captured", "grace", "group kill"} => q.refused = {}
    /\ q.at \in {"track"} \cup Escalating => q.refused \subseteq Passed(q, own)

Apart(tab, own) ==
    /\ \A p, q \in Pids : tab[p].born = tab[q].born => tab[p].born = 0 \/ p = q
    /\ \A i \in DOMAIN own : \A p \in Pids : tab[p].born = own[i].born => p = own[i].pid
    /\ \A i, j \in DOMAIN own : own[i].born = own[j].born => i = j

BareKilled(h) == h.how = "kill" /\ h.sig = "KILL"

Stands(h, q) == BareKilled(h) => q.at = "done" /\ h.want \cap q.refused = {}

RefusalInv ==
    /\ Apart(table, active.owned)
    /\ \A r \in Requests : Refused(req[r], active.owned)
    /\ \A h \in hits : h.by \in Requests /\ Stands(h, req[h.by])

(* What a step of the gateway for r keeps to. *)
Walks(r) ==
    /\ req[r].at # "done"
    /\ \A s \in Requests \ {r} : req'[s] = req[s]
    /\ Refused(req'[r], active.owned)
    /\ \A h \in hits' : h \in hits \/ (h.by = r /\ Stands(h, req'[r]))

Fewer == \A p \in Pids : table'[p].born \in {table[p].born, 0}

LEMMA ApartStays ==
    ASSUME SigInv, Apart(table, active.owned), active' = active, Fewer
    PROVE  Apart(table', active'.owned)
<1>1. \A i \in DOMAIN active.owned : active.owned[i].born # 0
  BY StateFields DEF SigInv
<1> QED
  BY <1>1 DEF Apart, Fewer

LEMMA ApartBorn ==
    ASSUME SigInv, Apart(table, active.owned), active' = active, NEW p \in Pids,
           \A q \in Pids \ {p} : table'[q] = table[q], table'[p].born = clock + 1
    PROVE  Apart(table', active'.owned)
<1>1. clock \in Nat /\ \A q \in Pids : table[q].born \in Nat /\ table[q].born <= clock
  BY StateFields DEF SigInv, Aged
<1>2. \A i \in DOMAIN active.owned : active.owned[i].born \in Nat /\ active.owned[i].born <= clock
  BY StateFields DEF SigInv, Aged
<1> QED
  BY <1>1, <1>2 DEF Apart

LEMMA WalkKeeps ==
    ASSUME SigInv, RefusalInv, NEW r \in Requests, Walks(r), active' = active, Fewer
    PROVE  RefusalInv'
<1>1. Apart(table', active'.owned)
  BY ApartStays DEF RefusalInv
<1>2. \A s \in Requests : Refused(req'[s], active'.owned)
  BY DEF RefusalInv, Walks
<1>3. \A h \in hits' : h.by \in Requests /\ Stands(h, req'[h.by])
  BY DEF RefusalInv, Walks, Stands
<1> QED
  BY <1>1, <1>2, <1>3 DEF RefusalInv

(* A step that leaves requests and signals alone. *)
LEMMA ElsewhereKeeps ==
    ASSUME SigInv, RefusalInv, UNCHANGED <<active, req, hits>>, Apart(table', active'.owned)
    PROVE  RefusalInv'
BY DEF RefusalInv

LEMMA GotoFields ==
    ASSUME SigInv, NEW r \in Requests, NEW q, Goto(r, q)
    PROVE  req'[r] = q /\ \A s \in Requests \ {r} : req'[s] = req[s]
BY DEF Goto, SigInv, TypeOK

LEMMA DeliverFewer ==
    ASSUME SigInv, NEW r \in Requests, NEW how, NEW sig, NEW s \in SUBSET Pids, Deliver(how, sig, r, s)
    PROVE  /\ Fewer
           /\ \A h \in hits' : h \in hits \/ (h.how = how /\ h.sig = sig /\ h.by = r /\ h.want = req[r].want)
<1>1. \A p \in Pids : table[p] \in Processes
  BY StateFields DEF SigInv
<1>2. Fewer
  BY <1>1 DEF Deliver, Struck, Fewer, Free, Processes
<1>3. \A h \in hits' : h \in hits \/ (h.how = how /\ h.sig = sig /\ h.by = r /\ h.want = req[r].want)
  BY DEF Deliver, Hit
<1> QED
  BY <1>2, <1>3

LEMMA KeptFewer == ASSUME SigInv, table' = table PROVE Fewer
BY DEF Fewer

(* One that ends or goes on early has nothing to show.                     *)
LEMMA EasyRefused ==
    ASSUME NEW q, NEW own, q.refused = {} \/ q.at = "done"
    PROVE  Refused(q, own)
BY DEF Refused, Escalating

LEMMA InitRefusal == Init => RefusalInv
<1> SUFFICES ASSUME Init PROVE RefusalInv
  OBVIOUS
<1>1. Idle.refused = {} /\ Free.born = 0
  BY DEF Idle, Free
<1>2. /\ active.owned = <<>> /\ hits = {}
      /\ \A p \in Pids : table[p].born = 0
      /\ \A r \in Requests : req[r].refused = {}
  BY <1>1 DEF Init
<1>3. Apart(table, active.owned)
  BY <1>2 DEF Apart
<1>4. \A r \in Requests : Refused(req[r], active.owned)
  BY <1>2, EasyRefused
<1> QED
  BY <1>2, <1>3, <1>4 DEF RefusalInv

LEMMA LaunchRefusal ==
    ASSUME SigInv, RefusalInv, NEW p \in Pids,
           \/ \E deaf, kept \in BOOLEAN : Launch(p, deaf, kept)
           \/ \E leads \in BOOLEAN : Stranger(p, leads)
    PROVE  RefusalInv'
<1>1. UNCHANGED <<active, req, hits>>
  BY DEF Launch, Stranger, session
<1>2. table \in [Pids -> Processes]
  BY DEF SigInv, TypeOK
<1>3. \E new : new.born = clock + 1 /\ table' = [table EXCEPT ![p] = new]
  <2>1. CASE \E deaf, kept \in BOOLEAN : Launch(p, deaf, kept)
    <3>1. PICK deaf, kept \in BOOLEAN : Launch(p, deaf, kept)
      BY <2>1
    <3> DEFINE new == [born |-> clock + 1, stage |-> Len(stages) + 1,
                       group |-> IF count = 1 THEN Outside
                                 ELSE IF kept THEN IF stages = <<>> THEN p ELSE stages[1].pid ELSE p,
                       deaf |-> deaf, zombie |-> FALSE]
    <3>2. table' = [table EXCEPT ![p] = new]
      BY <3>1 DEF Launch
    <3>3. new.born = clock + 1
      OBVIOUS
    <3> HIDE DEF new
    <3> QED
      BY <3>2, <3>3
  <2>2. CASE \E leads \in BOOLEAN : Stranger(p, leads)
    <3>1. PICK leads \in BOOLEAN : Stranger(p, leads)
      BY <2>2
    <3> DEFINE new == [born |-> clock + 1, stage |-> 0, group |-> IF leads THEN p ELSE Outside,
                       deaf |-> FALSE, zombie |-> FALSE]
    <3>2. table' = [table EXCEPT ![p] = new]
      BY <3>1 DEF Stranger
    <3>3. new.born = clock + 1
      OBVIOUS
    <3> HIDE DEF new
    <3> QED
      BY <3>2, <3>3
  <2> QED
    BY <2>1, <2>2
<1>4. table'[p].born = clock + 1 /\ \A q \in Pids \ {p} : table'[q] = table[q]
  BY <1>2, <1>3
<1>5. Apart(table', active'.owned)
  BY <1>1, <1>4, ApartBorn DEF RefusalInv
<1> QED
  BY <1>1, <1>5, ElsewhereKeeps

LEMMA DeathRefusal ==
    ASSUME SigInv, RefusalInv, Reap \/ \E p \in Pids : Exit(p) PROVE RefusalInv'
<1>1. UNCHANGED <<active, req, hits>>
  BY DEF Reap, Exit, session
<1>2. table \in [Pids -> Processes]
  BY DEF SigInv, TypeOK
<1>3. Fewer
  <2>1. CASE Reap
    BY <1>2, <2>1 DEF Reap, Fewer, Free
  <2>2. CASE \E p \in Pids : Exit(p)
    <3>1. PICK p \in Pids : Exit(p)
      BY <2>2
    <3>2. table' = [table EXCEPT ![p] = IF table[p].stage = 0 THEN Free ELSE [table[p] EXCEPT !.zombie = TRUE]]
      BY <3>1 DEF Exit
    <3>3. [table[p] EXCEPT !.zombie = TRUE].born = table[p].born
      BY <1>2 DEF Processes
    <3> QED
      BY <1>2, <3>2, <3>3 DEF Fewer, Free
  <2> QED
    BY <2>1, <2>2
<1> QED
  BY <1>1, <1>3, ApartStays, ElsewhereKeeps DEF RefusalInv

(* A process that is captured now was not captured before: it would have   *)
(* been captured under the number it still holds.                          *)
LEMMA ObserveRefusal == ASSUME SigInv, RefusalInv, Observe PROVE RefusalInv'
<1> DEFINE p == stages[read + 1].pid
           own == active.owned
           new == [pid |-> p, born |-> table[p].born]
<1>1. UNCHANGED <<table, req, hits>>
  BY DEF Observe, kernel
<1>2. own \in Seq(Identities) /\ p \in Pids
  <2> DEFINE Entry == [pid : Pids, born : 1..MaxBirths, kept : BOOLEAN]
  <2>1. /\ stages \in Seq(Entry)
        /\ read \in Nat /\ read < Len(stages)
        /\ active.owned \in Seq(Identities)
    BY SignallingAssumption DEF SigInv, TypeOK, Observe
  <2>2. \A x \in Entry : x.pid \in Pids
    OBVIOUS
  <2> HIDE DEF Entry
  <2>3. stages[read + 1] \in Entry
    BY <2>1
  <2> QED
    BY <2>1, <2>2, <2>3
<1>3. \/ active'.owned = own
      \/ /\ active'.owned = Append(own, new)
         /\ table[p].born # 0
         /\ \A i \in DOMAIN own : own[i].pid # p
  BY DEF Observe, Held, Ticks
<1>4. CASE active'.owned = own
  BY <1>1, <1>4 DEF RefusalInv, Refused, Passed
<1>5. CASE /\ active'.owned = Append(own, new)
           /\ table[p].born # 0
           /\ \A i \in DOMAIN own : own[i].pid # p
  <2>1. /\ DOMAIN active'.owned = DOMAIN own \cup {Len(own) + 1}
        /\ DOMAIN own = 1..Len(own) /\ Len(own) \in Nat
        /\ \A i \in DOMAIN own : active'.owned[i] = own[i]
        /\ active'.owned[Len(own) + 1] = new
    BY <1>2, <1>5
  <2>2. \A i \in DOMAIN own : own[i].born # table[p].born
    BY <1>2, <1>5 DEF RefusalInv, Apart
  <2>3. Apart(table', active'.owned)
    BY <1>1, <1>2, <1>5, <2>1, <2>2 DEF RefusalInv, Apart
  <2>4. \A r \in Requests : Passed(req[r], own) \subseteq Passed(req[r], active'.owned)
    BY <2>1 DEF Passed
  <2> QED
    BY <1>1, <2>3, <2>4 DEF RefusalInv, Refused
<1> QED
  BY <1>3, <1>4, <1>5

------------------------------------------------------------------------------
(* The steps of a request. *)

(* One that sends nothing.                                                 *)
LEMMA QuietWalk ==
    ASSUME SigInv, RefusalInv, NEW r \in Requests, NEW q, Goto(r, q), req[r].at # "done",
           Refused(q, active.owned), UNCHANGED <<table, active, hits>>
    PROVE  RefusalInv'
BY GotoFields, KeptFewer, WalkKeeps DEF Walks

LEMMA ToCapturedWalk ==
    ASSUME SigInv, RefusalInv, NEW r \in Requests, req[r].at \in {"idle", "group"}, ToCaptured(r),
           UNCHANGED <<table, active, hits>>
    PROVE  RefusalInv'
<1> DEFINE q == [req[r] EXCEPT !.at = IF CapturedLives THEN "captured" ELSE "done",
                               !.pgid = active.childPgid,
                               !.checked = clock,
                               !.want = {active.owned[i].born : i \in Captured}]
<1>1. Goto(r, q)
  BY DEF ToCaptured
<1>2. req[r] \in RequestStates /\ req[r].refused = {}
  BY Asking DEF RefusalInv, Refused
<1>3. q.refused = {}
  BY <1>2 DEF RequestStates
<1> QED
  BY <1>1, <1>3, EasyRefused, QuietWalk

LEMMA TerminateRefusal ==
    ASSUME SigInv, RefusalInv, NEW r \in Requests, Terminate(r) PROVE RefusalInv'
<1> DEFINE q == [req[r] EXCEPT !.at = "group", !.pgid = active.childPgid, !.checked = clock,
                               !.want = Births(Group(active.childPgid))]
<1>1. req[r].at = "idle" /\ UNCHANGED <<table, active, hits>>
  BY DEF Terminate, kernel, session
<1>2. req[r] \in RequestStates /\ req[r].refused = {}
  BY <1>1, Asking DEF RefusalInv, Refused
<1>3. CASE ToCaptured(r)
  BY <1>1, <1>3, ToCapturedWalk
<1>4. CASE Goto(r, q)
  <2>1. q.refused = {}
    BY <1>2 DEF RequestStates
  <2> QED
    BY <1>1, <1>4, <2>1, EasyRefused, QuietWalk
<1> QED
  BY <1>3, <1>4 DEF Terminate

(* One that sends a signal which is not a kill by number.                  *)
LEMMA SendWalk ==
    ASSUME SigInv, RefusalInv, NEW r \in Requests, NEW q, Goto(r, q), req[r].at # "done",
           Refused(q, active.owned), active' = active,
           NEW how, NEW sig, how # "kill" \/ sig # "KILL",
           NEW s \in SUBSET Pids, Deliver(how, sig, r, s)
    PROVE  RefusalInv'
<1>1. Fewer /\ \A h \in hits' : h \in hits \/ (h.how = how /\ h.sig = sig /\ h.by = r)
  BY DeliverFewer
<1>2. Walks(r)
  BY <1>1, GotoFields DEF Walks, Stands, BareKilled
<1> QED
  BY <1>1, <1>2, WalkKeeps

LEMMA TermRefusal ==
    ASSUME SigInv, RefusalInv, NEW r \in Requests, TermGroup(r) \/ TermCaptured(r) PROVE RefusalInv'
<1> DEFINE g == [req[r] EXCEPT !.at = "grace"]
           d == [req[r] EXCEPT !.at = "done"]
<1>1. req[r].at \in {"group", "captured"} /\ active' = active
  BY DEF TermGroup, TermCaptured, session
<1>2. req[r] \in RequestStates /\ req[r].refused = {}
  BY <1>1, Asking DEF RefusalInv, Refused
<1>3. g.refused = {} /\ d.refused = {}
  BY <1>2 DEF RequestStates
<1>4. CASE TermGroup(r)
  <2>1. CASE Group(req[r].pgid) # {}
    <3>1. Deliver("kill-group", "TERM", r, Group(req[r].pgid)) /\ Goto(r, g)
      BY <1>4, <2>1 DEF TermGroup
    <3>2. Group(req[r].pgid) \in SUBSET Pids
      BY DEF Group
    <3> QED
      BY <1>1, <1>3, <3>1, <3>2, EasyRefused, SendWalk
  <2>2. CASE Group(req[r].pgid) = {}
    <3>1. ToCaptured(r) /\ req[r].at = "group" /\ UNCHANGED <<table, hits>>
      BY <1>4, <2>2 DEF TermGroup, kernel
    <3> QED
      BY <1>1, <3>1, ToCapturedWalk
  <2> QED
    BY <2>1, <2>2
<1>5. CASE TermCaptured(r)
  <2>1. CASE Held(active.childPid)
    <3>1. Deliver("kill", "TERM", r, {active.childPid}) /\ Goto(r, g)
      BY <1>5, <2>1 DEF TermCaptured
    <3>2. active.childPid \in Pids
      BY <1>5, Asking DEF TermCaptured, Placed, CapturedChecked
    <3>3. {active.childPid} \in SUBSET Pids
      BY <3>2
    <3> QED
      BY <1>1, <1>3, <3>1, <3>3, EasyRefused, SendWalk
  <2>2. CASE ~Held(active.childPid)
    <3>1. Goto(r, d) /\ UNCHANGED <<table, hits>>
      BY <1>5, <2>2 DEF TermCaptured, kernel
    <3> QED
      BY <1>1, <1>3, <3>1, EasyRefused, QuietWalk
  <2> QED
    BY <2>1, <2>2
<1> QED
  BY <1>4, <1>5

(* The grace period leads to the first identity, with nothing refused.     *)
LEMMA ExpireRefusal ==
    ASSUME SigInv, RefusalInv, NEW r \in Requests, Expire(r) \/ KillGroup(r) PROVE RefusalInv'
<1> DEFINE g == [req[r] EXCEPT !.at = "group kill", !.checked = clock, !.want = Births(Group(req[r].pgid))]
           t == [req[r] EXCEPT !.at = "track", !.next = 1]
           d == [req[r] EXCEPT !.at = "done"]
<1>1. req[r].at \in {"grace", "group kill"} /\ active' = active
  BY DEF Expire, KillGroup, session
<1>2. req[r] \in RequestStates /\ req[r].refused = {}
  BY <1>1, Asking DEF RefusalInv, Refused
<1>3. g.refused = {} /\ t.refused = {} /\ d.refused = {}
  BY <1>2 DEF RequestStates
<1>4. CASE Expire(r)
  <2>1. UNCHANGED <<table, hits>> /\ (Goto(r, g) \/ Goto(r, t))
    BY <1>4 DEF Expire, kernel
  <2> QED
    BY <1>1, <1>3, <2>1, EasyRefused, QuietWalk
<1>5. CASE KillGroup(r)
  <2>1. CASE Group(req[r].pgid) # {}
    <3>1. Deliver("kill-group", "KILL", r, Group(req[r].pgid)) /\ Goto(r, d)
      BY <1>5, <2>1 DEF KillGroup
    <3>2. Group(req[r].pgid) \in SUBSET Pids
      BY DEF Group
    <3> QED
      BY <1>1, <1>3, <3>1, <3>2, EasyRefused, SendWalk
  <2>2. CASE Group(req[r].pgid) = {}
    <3>1. UNCHANGED <<table, hits>> /\ Goto(r, t)
      BY <1>5, <2>2 DEF KillGroup, kernel
    <3> QED
      BY <1>1, <1>3, <3>1, EasyRefused, QuietWalk
  <2> QED
    BY <2>1, <2>2
<1> QED
  BY <1>4, <1>5

(* Among the identities: one that has been passed stays passed.            *)
LEMMA LaterRefused ==
    ASSUME SigInv, RefusalInv, NEW r \in Requests, req[r].at \in {"track"} \cup Escalating,
           NEW q, q.refused \subseteq req[r].refused \cup Passed(q, active.owned),
           q.next \in Nat, q.next >= req[r].next
    PROVE  Refused(q, active.owned) \/ q.at \notin {"track"} \cup Escalating
<1>1. req[r].refused \subseteq Passed(req[r], active.owned)
  BY DEF RefusalInv, Refused
<1>2. req[r].next \in Nat /\ active.owned \in Seq(Identities)
  BY Asking DEF SigInv, TypeOK
<1>3. Passed(req[r], active.owned) \subseteq Passed(q, active.owned)
  BY <1>2 DEF Passed
<1>4. q.refused \subseteq Passed(q, active.owned)
  BY <1>1, <1>3
<1>5. q.at \in {"track"} \cup Escalating => q.at \notin {"idle", "group", "captured", "grace", "group kill"}
  BY DEF Escalating
<1> QED
  BY <1>4, <1>5 DEF Refused

LEMMA DeclineRefused ==
    ASSUME SigInv, RefusalInv, NEW r \in Requests, req[r].at \in Escalating
    PROVE  Refused([req[r] EXCEPT !.at = "track", !.next = @ + 1,
                                  !.refused = @ \cup {Expected(r).born}], active.owned)
<1> DEFINE q == [req[r] EXCEPT !.at = "track", !.next = @ + 1, !.refused = @ \cup {Expected(r).born}]
<1>1. req[r] \in RequestStates /\ req[r].next \in Nat
  BY Asking
<1>2. q.at = "track" /\ q.next = req[r].next + 1 /\ q.refused = req[r].refused \cup {Expected(r).born}
  BY <1>1 DEF RequestStates
<1> HIDE DEF q
<1>3. req[r].next \in DOMAIN active.owned
  <2>1. req[r].next \in 1..Len(active.owned) /\ active.owned \in Seq(Identities)
    BY Tracking DEF SigInv, TypeOK
  <2> QED
    BY <2>1
<1>4. Expected(r).born \in Passed(q, active.owned)
  BY <1>1, <1>2, <1>3 DEF Passed, Expected
<1>5. Refused(q, active.owned)
  BY <1>1, <1>2, <1>4, LaterRefused
<1> QED
  BY <1>5 DEF q

LEMMA SkipRefused ==
    ASSUME SigInv, RefusalInv, NEW r \in Requests, req[r].at \in {"track"} \cup Escalating, NEW at \in Places
    PROVE  /\ Refused([req[r] EXCEPT !.at = "track", !.next = @ + 1], active.owned)
           /\ Refused([req[r] EXCEPT !.next = @ + 1], active.owned)
           /\ at \in Escalating => Refused([req[r] EXCEPT !.at = at], active.owned)
<1> DEFINE q == [req[r] EXCEPT !.at = "track", !.next = @ + 1]
           t == [req[r] EXCEPT !.next = @ + 1]
           e == [req[r] EXCEPT !.at = at]
<1>1. req[r] \in RequestStates /\ req[r].next \in Nat
  BY Asking
<1>2. /\ q.at = "track" /\ q.next = req[r].next + 1 /\ q.refused = req[r].refused
      /\ t.at = req[r].at /\ t.next = req[r].next + 1 /\ t.refused = req[r].refused
      /\ e.at = at /\ e.next = req[r].next /\ e.refused = req[r].refused
  BY <1>1 DEF RequestStates
<1> HIDE DEF q, t, e
<1>3. Refused(q, active.owned) /\ Refused(t, active.owned)
  BY <1>1, <1>2, LaterRefused
<1>4. at \in Escalating => Refused(e, active.owned)
  BY <1>1, <1>2, LaterRefused
<1> QED
  BY <1>3, <1>4 DEF q, t, e

LEMMA ReadIdentityRefusal ==
    ASSUME SigInv, RefusalInv, NEW r \in Requests, ReadIdentity(r) PROVE RefusalInv'
<1> DEFINE d == [req[r] EXCEPT !.at = "done"]
           t == [req[r] EXCEPT !.next = @ + 1]
<1>1. req[r].at = "track" /\ UNCHANGED <<table, active, hits>>
  BY DEF ReadIdentity, kernel, session
<1>2. req[r] \in RequestStates /\ req[r].next \in Nat
  BY Asking
<1>3. CASE Goto(r, d)
  <2>1. d.at = "done"
    BY <1>2 DEF RequestStates
  <2> QED
    BY <1>1, <1>3, <2>1, EasyRefused, QuietWalk
<1>4. CASE Goto(r, t)
  <2>1. "track" \in Places
    BY DEF Places
  <2> QED
    BY <1>1, <1>4, <2>1, SkipRefused, QuietWalk
<1>5. CASE req[r].next <= Len(active.owned) /\ Held(Expected(r).pid)
  <2>1. PICK at \in Escalating : Goto(r, [req[r] EXCEPT !.at = at, !.saw = Ticks(Expected(r).pid),
                                                        !.checked = clock, !.want = {Expected(r).born}])
    <3>1. helper \in {"unknown", "available", "unavailable"}
      BY DEF SigInv, TypeOK
    <3>2. Goto(r, [req[r] EXCEPT !.at = CASE helper = "unknown" -> "probing"
                                            [] helper = "available" -> "opening"
                                            [] helper = "unavailable" -> "compare",
                                 !.saw = Ticks(Expected(r).pid),
                                 !.checked = clock,
                                 !.want = {Expected(r).born}])
      <4>1. ~(req[r].next > Len(active.owned))
        BY <1>2, <1>5 DEF SigInv, TypeOK
      <4> QED
        BY <1>5, <4>1 DEF ReadIdentity
    <3>3. (CASE helper = "unknown" -> "probing" [] helper = "available" -> "opening"
             [] helper = "unavailable" -> "compare") \in Escalating
      BY <3>1 DEF Escalating
    <3> QED
      BY <3>2, <3>3
  <2> DEFINE e == [req[r] EXCEPT !.at = at, !.saw = Ticks(Expected(r).pid),
                                 !.checked = clock, !.want = {Expected(r).born}]
  <2>2. e.at = at /\ e.next = req[r].next /\ e.refused = req[r].refused
    BY <1>2 DEF RequestStates
  <2>3. Goto(r, e)
    BY <2>1
  <2> HIDE DEF e
  <2>4. Refused(e, active.owned)
    BY <1>1, <1>2, <2>2, LaterRefused
  <2> QED
    BY <1>1, <2>3, <2>4, QuietWalk
<1> QED
  <2>1. (req[r].next > Len(active.owned)) \/ req[r].next <= Len(active.owned)
    BY <1>2 DEF SigInv, TypeOK
  <2> QED
    BY <1>3, <1>4, <1>5, <2>1 DEF ReadIdentity

LEMMA HelperRefusal ==
    ASSUME SigInv, RefusalInv, NEW r \in Requests,
           \/ \E works \in BOOLEAN : Probe(r, works)
           \/ Open(r) \/ Bind(r) \/ HelperTimeout(r) \/ Compare(r)
    PROVE  RefusalInv'
<1> DEFINE q == [req[r] EXCEPT !.at = "track", !.next = @ + 1, !.refused = @ \cup {Expected(r).born}]
           t == [req[r] EXCEPT !.at = "track", !.next = @ + 1]
           o == [req[r] EXCEPT !.at = "bound", !.fd = Ticks(Expected(r).pid)]
<1>1. req[r].at \in Escalating /\ req[r].at # "done" /\ UNCHANGED <<table, active, hits>>
  BY DEF Probe, Open, Bind, HelperTimeout, Compare, kernel, session, Escalating
<1>2. req[r] \in RequestStates /\ req[r].next \in Nat
  BY Asking
<1>3. \/ Goto(r, q) \/ Goto(r, t) \/ Goto(r, o)
      \/ \E at \in {"opening", "compare", "verified", "bare kill"} : Goto(r, [req[r] EXCEPT !.at = at])
  BY DEF Probe, Open, Bind, HelperTimeout, Compare, Decline
<1>4. CASE Goto(r, q)
  BY <1>1, <1>4, DeclineRefused, QuietWalk
<1>5. CASE Goto(r, t)
  <2>1. "track" \in Places
    BY DEF Places
  <2> QED
    BY <1>1, <1>5, <2>1, SkipRefused, QuietWalk
<1>6. CASE Goto(r, o)
  <2>1. o.at = "bound" /\ o.next = req[r].next /\ o.refused = req[r].refused
    BY <1>2 DEF RequestStates
  <2> HIDE DEF o
  <2>2. o.at \in Escalating
    BY <2>1 DEF Escalating
  <2>3. Refused(o, active.owned)
    BY <1>1, <1>2, <2>1, <2>2, LaterRefused
  <2> QED
    BY <1>1, <1>6, <2>3, QuietWalk
<1>7. CASE \E at \in {"opening", "compare", "verified", "bare kill"} : Goto(r, [req[r] EXCEPT !.at = at])
  <2>1. PICK at \in {"opening", "compare", "verified", "bare kill"} : Goto(r, [req[r] EXCEPT !.at = at])
    BY <1>7
  <2>2. at \in Places /\ at \in Escalating
    BY <2>1 DEF Places, Escalating
  <2>3. Refused([req[r] EXCEPT !.at = at], active.owned)
    BY <1>1, <2>2, SkipRefused
  <2> QED
    BY <1>1, <2>1, <2>3, QuietWalk
<1> QED
  BY <1>3, <1>4, <1>5, <1>6, <1>7

LEMMA SendRefusal ==
    ASSUME SigInv, RefusalInv, NEW r \in Requests, NEW answered \in BOOLEAN, Send(r, answered)
    PROVE  RefusalInv'
<1> DEFINE q == [req[r] EXCEPT !.at = "track", !.next = @ + 1, !.refused = @ \cup {Expected(r).born}]
           d == [req[r] EXCEPT !.at = "done"]
<1>1. req[r].at = "verified" /\ req[r].at \in Escalating /\ active' = active
  BY DEF Send, session, Escalating
<1>2. req[r] \in RequestStates
  BY Asking
<1>3. d.at = "done"
  BY <1>2 DEF RequestStates
<1>4. Goto(r, d) \/ Goto(r, q)
  BY DEF Send, Decline
<1>5. Refused(d, active.owned) /\ Refused(q, active.owned)
  BY <1>1, <1>3, EasyRefused, DeclineRefused
<1>6. CASE Bound(r) # {}
  <2>1. Deliver("pidfd", "KILL", r, Bound(r)) /\ Bound(r) \in SUBSET Pids
    BY <1>6 DEF Send, Bound
  <2> HIDE DEF q, d
  <2> QED
    BY <1>1, <1>4, <1>5, <2>1, SendWalk
<1>7. CASE Bound(r) = {}
  <2>1. UNCHANGED <<table, hits>>
    BY <1>7 DEF Send, kernel
  <2> HIDE DEF q, d
  <2> QED
    BY <1>1, <1>4, <1>5, <2>1, QuietWalk
<1> QED
  BY <1>6, <1>7

(* The one place where a process is killed by its number: the identity is  *)
(* the next one, and those refused have been passed.                       *)
LEMMA BareKillRefusal ==
    ASSUME SigInv, RefusalInv, NEW r \in Requests, BareKill(r) PROVE RefusalInv'
<1> DEFINE d == [req[r] EXCEPT !.at = "done"]
           t == [req[r] EXCEPT !.at = "track", !.next = @ + 1]
<1>1. req[r].at = "bare kill" /\ req[r].at \in Escalating /\ active' = active
  BY DEF BareKill, session, Escalating
<1>2. req[r] \in RequestStates /\ req[r].next \in Nat
  BY Asking
<1>3. CASE Held(Expected(r).pid)
  <2>1. Deliver("kill", "KILL", r, {Expected(r).pid}) /\ Goto(r, d)
    BY <1>3 DEF BareKill
  <2>2. {Expected(r).pid} \in SUBSET Pids /\ req[r].want = {Expected(r).born}
    BY <1>1, Tracking
  <2>3. Expected(r).born \notin req[r].refused
    <3>1. req[r].refused \subseteq Passed(req[r], active.owned)
      BY <1>1 DEF RefusalInv, Refused
    <3>2. req[r].next \in DOMAIN active.owned
      <4>1. req[r].next \in 1..Len(active.owned) /\ active.owned \in Seq(Identities)
        BY <1>1, Tracking DEF SigInv, TypeOK
      <4> QED
        BY <4>1
    <3>3. \A i \in DOMAIN active.owned : active.owned[i].born = Expected(r).born => i = req[r].next
      BY <3>2 DEF RefusalInv, Apart, Expected
    <3> QED
      BY <1>2, <3>1, <3>3 DEF Passed
  <2>4. d.at = "done" /\ d.refused = req[r].refused
    BY <1>2 DEF RequestStates
  <2> HIDE DEF d
  <2>5. Fewer /\ \A h \in hits' : h \in hits \/ (h.by = r /\ h.want = req[r].want)
    BY <2>1, <2>2, DeliverFewer
  <2>6. req'[r] = d /\ \A s \in Requests \ {r} : req'[s] = req[s]
    BY <2>1, GotoFields
  <2>7. \A h : h.want = req[r].want => Stands(h, d)
    BY <2>2, <2>3, <2>4 DEF Stands
  <2>8. Refused(d, active.owned)
    BY <2>4, EasyRefused
  <2>9. Walks(r)
    BY <1>1, <2>5, <2>6, <2>7, <2>8 DEF Walks
  <2> QED
    BY <1>1, <2>5, <2>9, WalkKeeps
<1>4. CASE ~Held(Expected(r).pid)
  <2>1. UNCHANGED <<table, hits>> /\ Goto(r, t)
    BY <1>4 DEF BareKill, kernel
  <2>2. "track" \in Places
    BY DEF Places
  <2> QED
    BY <1>1, <2>1, <2>2, SkipRefused, QuietWalk
<1> QED
  BY <1>3, <1>4

LEMMA RefusalStep == ASSUME SigInv, RefusalInv, [Next]_vars PROVE RefusalInv'
<1>1. ASSUME NEW p \in Pids, NEW deaf \in BOOLEAN, NEW kept \in BOOLEAN, Launch(p, deaf, kept)
      PROVE  RefusalInv'
  BY <1>1, LaunchRefusal
<1>2. ASSUME NEW p \in Pids, NEW leads \in BOOLEAN, Stranger(p, leads) PROVE RefusalInv'
  BY <1>2, LaunchRefusal
<1>3. CASE Reap \/ \E p \in Pids : Exit(p)
  BY <1>3, DeathRefusal
<1>4. CASE Observe
  BY <1>4, ObserveRefusal
<1>5. CASE Close
  <2>1. UNCHANGED <<table, active, req, hits>>
    BY <1>5 DEF Close, kernel
  <2> QED
    BY <2>1 DEF RefusalInv
<1>6. CASE UNCHANGED vars
  <2>1. UNCHANGED <<table, active, req, hits>>
    BY <1>6 DEF vars, kernel, session
  <2> QED
    BY <2>1 DEF RefusalInv
<1>7. ASSUME NEW r \in Requests, Gateway(r) PROVE RefusalInv'
  BY <1>7, TerminateRefusal, TermRefusal, ExpireRefusal, ReadIdentityRefusal, HelperRefusal,
     SendRefusal, BareKillRefusal DEF Gateway
<1> QED
  BY <1>1, <1>2, <1>3, <1>4, <1>5, <1>6, <1>7 DEF Next

(* An identity the pidfd helper refused is not killed by its number in the *)
(* same escalation (terminator.ts escalateTo, escalateTrackedIdentities).  *)
THEOREM RefusalsStand == Spec => []RefusalIsFinal
<1>1. RefusalInv => RefusalIsFinal
  BY DEF RefusalInv, Stands, BareKilled, RefusalIsFinal
<1> QED
  BY <1>1, InitSig, SigStep, InitRefusal, RefusalStep, PTL DEF Spec
=============================================================================
