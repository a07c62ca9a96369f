--------------------------- MODULE AdmissionProofs ---------------------------
(***************************************************************************)
(* The thermal guard follows the hottest sensor it may rely on, what       *)
(* starts has the arguments its schema allows, and what runs is what was   *)
(* checked: for every number of sensors, words, letters, stages and        *)
(* redirections, and whatever is typed, sent or changed meanwhile.         *)
(***************************************************************************)
EXTENDS AdmissionProperties, SequenceTheorems, FiniteSetTheorems, TLAPS

(* Any set of naturals has a least element.                                *)
LEMMA LeastOf ==
  ASSUME NEW T \in SUBSET Nat, T # {}
  PROVE  \E m \in T : \A k \in T : m <= k
<1> DEFINE R == OpToRel(<, Nat)
<1>1. IsWellFoundedOn(R, Nat)
  BY NatLessThanWellFounded
<1>2. \A x, y \in Nat : x < y => <<x, y>> \in R
  BY DEF OpToRel
<1> HIDE DEF R
<1>3. PICK m \in T : \A k \in T : ~(<<k, m>> \in R)
  BY <1>1, WFMin, Zenon
<1>4. ASSUME NEW k \in T PROVE m <= k
  <2>1. m \in Nat /\ k \in Nat
    BY Zenon
  <2>2. ~(k < m)
    BY <1>2, <1>3, <2>1, Zenon
  <2> QED
    BY <2>1, <2>2
<1> QED BY <1>4

(* What holds of 0, and of k + 1 when of k, holds of all.                  *)
LEMMA Reached ==
  ASSUME NEW T \in SUBSET Nat, 0 \in T, \A k \in T : k + 1 \in T
  PROVE  T = Nat
<1> SUFFICES ASSUME T # Nat PROVE FALSE
  OBVIOUS
<1>1. PICK m \in Nat \ T : \A k \in Nat \ T : m <= k
  BY LeastOf
<1>2. m # 0 /\ m - 1 \in Nat /\ ~(m <= m - 1) /\ (m - 1) + 1 = m
  BY <1>1
<1>3. m - 1 \in T
  BY <1>1, <1>2
<1> QED
  BY <1>1, <1>2, <1>3

------------------------------------------------------------------------------
(* The sensor. *)

Warmer(k, j, t) == Heat(j, t) < Heat(k, t) \/ (Heat(j, t) = Heat(k, t) /\ k <= j)

(* Among the first n places, one is the hottest: otherwise let n be the    *)
(* least number for which none is.                                         *)
LEMMA SomeIsHottest ==
  ASSUME NEW t, NEW places \in SUBSET (Nat \ {0}), places # {}, NEW top \in Nat,
         \A k \in places : Heat(k, t) \in Int /\ k <= top
  PROVE  \E k \in places : \A j \in places : Warmer(k, j, t)
<1> DEFINE Has(n) == \E k \in places : k <= n /\ \A j \in places : j <= n => Warmer(k, j, t)
           Fails == {n \in Nat : (\E k \in places : k <= n) /\ ~Has(n)}
<1>1. ASSUME Fails # {} PROVE FALSE
  <2> HIDE DEF Has
  <2>0. Fails \in SUBSET Nat
    OBVIOUS
  <2> HIDE DEF Fails
  <2>1. PICK n \in Fails : \A m \in Fails : n <= m
    BY <1>1, <2>0, LeastOf, Zenon
  <2>3. n - 1 \notin Fails
    <3>1. n \in Nat
      BY <2>0, <2>1
    <3>2. ~(n <= n - 1)
      BY <3>1
    <3> QED
      BY <2>1, <3>2
  <2> USE DEF Has, Fails
  <2>2. n \in Nat /\ ~Has(n) /\ \E k \in places : k <= n
    BY <2>1
  <2>4. n - 1 \in Nat
    BY <2>2
  <2>5. CASE \E k \in places : k <= n - 1
    <3>1. PICK k \in places : k <= n - 1 /\ \A j \in places : j <= n - 1 => Warmer(k, j, t)
      BY <2>3, <2>4, <2>5
    <3>2. k \in Nat /\ k <= n
      BY <2>2, <3>1
    <3>3. PICK b \in places : b <= n /\ ~Warmer(k, b, t)
      BY <2>2, <3>1, <3>2
    <3>4. b = n
      BY <2>2, <3>1, <3>3
    <3>5. Heat(k, t) < Heat(b, t)
      BY <3>2, <3>3, <3>4 DEF Warmer
    <3>6. ASSUME NEW j \in places, j <= n PROVE Warmer(b, j, t)
      <4>1. CASE j <= n - 1
        BY <3>1, <3>5, <4>1 DEF Warmer
      <4>2. CASE j = n
        BY <3>4, <4>2, <2>2 DEF Warmer
      <4> QED
        BY <2>2, <3>6, <4>1, <4>2
    <3> QED
      BY <2>2, <3>3, <3>6
  <2>6. CASE ~\E k \in places : k <= n - 1
    <3>1. PICK b \in places : b <= n
      BY <2>2
    <3>2. \A j \in places : j <= n => j = b
      BY <2>2, <2>6, <3>1
    <3>3. Warmer(b, b, t)
      BY DEF Warmer
    <3> QED
      BY <2>2, <3>1, <3>2, <3>3
  <2> QED
    BY <2>5, <2>6
<1>2. Has(top)
  BY <1>1
<1> QED
  BY <1>2

(* What a sensor reads: degrees, or nothing.                               *)
TempsOk(t) == \A p \in DOMAIN t : t[p] \in Heats \cup {Unread}

(* The places an automatic choice is made among.                           *)
Candidates(kind, t) ==
  IF Packages(Readable(t)) # {} THEN Packages(Readable(t))
  ELSE IF kind = "auto" THEN Readable(t) ELSE {}

LEMMA ReadingsAreNumbers ==
  ASSUME NEW x \in Heats \cup {Unread} PROVE x \in Int
<1>1. Unread \in Int
  BY DEF Unread
<1>2. Heats \subseteq Nat
  BY AdmissionAssumption
<1> QED
  BY <1>1, <1>2

LEMMA HottestIsHottest ==
  ASSUME NEW t, TempsOk(t), NEW places \in SUBSET Readable(t), places # {}
  PROVE  Hottest(places, t) \in places /\ \A j \in places : Heat(j, t) <= Heat(Hottest(places, t), t)
<1>1. \A k \in places : Heat(k, t) \in Int /\ k \in 1 .. Len(Sensors)
  <2>1. Sensors \in Seq([name : STRING, path : STRING, isPackage : BOOLEAN])
    BY SensorsAssumption
  <2>2. \A k \in DOMAIN Sensors : k \in 1 .. Len(Sensors)
    BY <2>1
  <2>3. ASSUME NEW k \in places PROVE Heat(k, t) \in Int
    <3>1. Sensors[k].path \in DOMAIN t
      BY DEF Readable, Discovered
    <3>2. Heat(k, t) \in Heats \cup {Unread}
      BY <3>1 DEF TempsOk, Heat
    <3> QED
      BY <3>2, ReadingsAreNumbers
  <2> QED
    BY <2>2, <2>3 DEF Readable, Discovered
<1>2. /\ places \in SUBSET (Nat \ {0}) /\ Len(Sensors) \in Nat
      /\ \A k \in places : Heat(k, t) \in Int /\ k <= Len(Sensors)
  BY <1>1, SensorsAssumption
<1>3. \E k \in places : \A j \in places : Warmer(k, j, t)
  BY <1>2, SomeIsHottest, Zenon
<1>4. Hottest(places, t) \in places /\ \A j \in places : Warmer(Hottest(places, t), j, t)
  BY <1>3, Zenon DEF Hottest, Warmer
<1> QED
  BY <1>1, <1>4 DEF Warmer

LEMMA AutomaticChoice ==
  ASSUME NEW t, TempsOk(t), NEW selector, selector.kind \in {"auto", "package"}
  PROVE  /\ Candidates(selector.kind, t) = {} => SelectSensor(selector, t) = NoSensor
         /\ Candidates(selector.kind, t) # {} =>
              \E k \in Candidates(selector.kind, t) :
                 /\ SelectSensor(selector, t) = Sensors[k]
                 /\ \A j \in Candidates(selector.kind, t) : Heat(j, t) <= Heat(k, t)
<1>1. Packages(Readable(t)) \in SUBSET Readable(t)
  BY DEF Packages
<1>2. CASE Packages(Readable(t)) # {}
  <2>1. SelectSensor(selector, t) = Sensors[Hottest(Packages(Readable(t)), t)]
    BY <1>2 DEF SelectSensor
  <2>2. Candidates(selector.kind, t) = Packages(Readable(t))
    BY <1>2 DEF Candidates
  <2> QED
    BY <1>1, <1>2, <2>1, <2>2, HottestIsHottest
<1>3. CASE Packages(Readable(t)) = {} /\ selector.kind = "auto"
  <2>1. Candidates(selector.kind, t) = Readable(t)
    BY <1>3 DEF Candidates
  <2>2. Readable(t) # {} => SelectSensor(selector, t) = Sensors[Hottest(Readable(t), t)]
    BY <1>3 DEF SelectSensor
  <2>3. Readable(t) = {} => SelectSensor(selector, t) = NoSensor
    BY <1>3 DEF SelectSensor
  <2> QED
    BY <2>1, <2>2, <2>3, HottestIsHottest
<1>4. CASE Packages(Readable(t)) = {} /\ selector.kind = "package"
  BY <1>4 DEF SelectSensor, Candidates
<1> QED
  BY <1>2, <1>3, <1>4

------------------------------------------------------------------------------
(* The decision. *)

GuardOk(g) == g.warning \in Int /\ g.critical \in Int /\ g.warning < g.critical

VerdictOk(v) ==
  /\ GuardOk(v.guard) /\ TempsOk(v.found) /\ TempsOk(v.read)
  /\ v.record = EvaluateThermalGuard(v.guard, v.found, v.read)

LEMMA TrustedAre ==
  ASSUME NEW v
  PROVE  Trusted(v) = {Sensors[k] : k \in Candidates(v.guard.sensor.kind, v.found)}
<1> DEFINE readable == {s \in ToSet(Sensors) : s.path \in DOMAIN v.found /\ v.found[s.path] # Unread}
           packages == {s \in readable : s.isPackage}
<1>1. readable = {Sensors[k] : k \in Readable(v.found)}
  BY DEF Readable, Discovered, ToSet
<1>2. packages = {Sensors[k] : k \in Packages(Readable(v.found))}
  BY <1>1 DEF Packages
<1>3. Trusted(v) = IF packages # {} THEN packages
                   ELSE IF v.guard.sensor.kind = "auto" THEN readable ELSE {}
  BY DEF Trusted
<1> HIDE DEF readable, packages
<1> QED
  BY <1>1, <1>2, <1>3 DEF Candidates

Decided(v) ==
  LET warm == {s \in Trusted(v) : v.read[s.path] >= v.guard.warning}
  IN  /\ Refuses(v.record) <=> warm # {} /\ v.guard.action # "WARN"
      /\ v.record.decision = "UNAVAILABLE_ALLOW" <=> Trusted(v) = {}
      /\ v.record.threshold = "critical" <=> \E s \in warm : v.read[s.path] >= v.guard.critical

(* When nothing may be relied on, nothing is refused; otherwise the        *)
(* reading is that of the hottest, and it is as warm as any.               *)
LEMMA VerdictDecided ==
  ASSUME NEW v, VerdictOk(v), Chooses(v), Still(v)
  PROVE  Decided(v)
<1> DEFINE K == Candidates(v.guard.sensor.kind, v.found)
           sensor == SelectSensor(v.guard.sensor, v.found)
<1>1. /\ TempsOk(v.found) /\ v.read = v.found /\ GuardOk(v.guard)
      /\ v.guard.enabled /\ v.guard.sensor.kind \in {"auto", "package"}
      /\ v.record = EvaluateThermalGuard(v.guard, v.found, v.read)
  BY DEF VerdictOk, Chooses, Still
<1>2. Trusted(v) = {Sensors[k] : k \in K}
  BY TrustedAre
<1>3. CASE K = {}
  <2>1. sensor = NoSensor
    BY <1>1, <1>3, AutomaticChoice
  <2>2. v.record = Record("UNAVAILABLE_ALLOW", "none", sensor, Unread, "NONE")
    BY <1>1, <2>1 DEF EvaluateThermalGuard
  <2> QED
    BY <1>2, <1>3, <2>2 DEF Decided, Refuses, Record
<1>4. CASE K # {}
  <2>1. PICK k \in K : sensor = Sensors[k] /\ \A j \in K : Heat(j, v.found) <= Heat(k, v.found)
    BY <1>1, <1>4, AutomaticChoice
  <2>2. \A j \in K : /\ j \in DOMAIN Sensors /\ Sensors[j].path \in DOMAIN v.found
                     /\ v.found[Sensors[j].path] # Unread /\ v.found[Sensors[j].path] = Heat(j, v.found)
    BY DEF Candidates, Packages, Readable, Discovered, Heat
  <2>3. \A j \in K : Heat(j, v.found) \in Int /\ Heat(j, v.found) # Unread
    <3>1. \A j \in K : Heat(j, v.found) \in Heats \cup {Unread} /\ Heat(j, v.found) # Unread
      <4> HIDE DEF K
      <4> QED
        BY <1>1, <2>2, Zenon DEF TempsOk
    <3> QED
      BY <3>1, ReadingsAreNumbers
  <2>4. sensor # NoSensor
    BY <2>1, <2>2, SensorsAssumption
  <2>5. ReadSensor(sensor, v.read) = Heat(k, v.found)
    BY <1>1, <2>1, <2>2 DEF ReadSensor
  <2> DEFINE heat == Heat(k, v.found)
  <2>6. heat \in Int /\ heat # Unread
    BY <2>3
  <2>7. /\ Refuses(v.record) <=> heat >= v.guard.warning /\ v.guard.action # "WARN"
        /\ v.record.decision # "UNAVAILABLE_ALLOW"
        /\ v.record.threshold = "critical" <=> heat >= v.guard.critical
    <3> HIDE DEF heat, sensor
    <3>1. v.record =
            IF heat >= v.guard.critical
            THEN IF v.guard.action = "WARN" THEN Record("WARN_ONLY", "critical", sensor, heat, "WARNING_ISSUED")
                 ELSE Record("REFUSE_KILL", "critical", sensor, heat, "TERM_THEN_KILL_SENT")
            ELSE IF heat >= v.guard.warning
            THEN IF v.guard.action = "WARN" THEN Record("WARN_ONLY", "warning", sensor, heat, "WARNING_ISSUED")
                 ELSE Record("REFUSE_TERM", "warning", sensor, heat, "TERM_SENT")
            ELSE Record("ALLOW", "none", sensor, heat, "NONE")
      BY <1>1, <2>4, <2>5, <2>6 DEF EvaluateThermalGuard, sensor, heat
    <3> QED
      BY <1>1, <2>6, <3>1 DEF Record, Refuses, GuardOk
  <2>8. \A s \in Trusted(v) : v.read[s.path] \in Int /\ v.read[s.path] <= heat
    BY <1>1, <1>2, <2>1, <2>2, <2>3
  <2>9. Sensors[k] \in Trusted(v) /\ v.read[Sensors[k].path] = heat
    BY <1>1, <1>2, <2>1, <2>2
  <2> HIDE DEF heat, sensor, K
  <2>10. GuardOk(v.guard)
    BY <1>1
  <2> QED
    BY <2>6, <2>7, <2>8, <2>9, <2>10 DEF Decided, GuardOk
<1> QED
  BY <1>3, <1>4

------------------------------------------------------------------------------
(* The invariant.  The settings are those the gateway accepted when it     *)
(* started, only a gateway that started is asked, and every decision is    *)
(* one of the guard on readings.                                           *)

ThermalInv ==
  /\ Up => GuardOk(config.thermalGuard)
  /\ asked # Nothing => Up
  /\ TempsOk(temps)
  /\ verdict # Nothing => VerdictOk(verdict)

(* What a step may do to the parts the guard is about: decide, or nothing. *)
Watched ==
  /\ config' = config
  /\ TempsOk(temps) => TempsOk(temps')
  /\ \/ verdict' = verdict
     \/ \E later \in Later :
          verdict' = [guard |-> config.thermalGuard, found |-> temps, read |-> later,
                      record |-> EvaluateThermalGuard(config.thermalGuard, temps, later)]

LEMMA LaterOk ==
  ASSUME TempsOk(temps), NEW later \in Later PROVE TempsOk(later)
BY DEF Later, Cooler, TempsOk

LEMMA StartWatched ==
  ASSUME NEW wish, Start(wish), config' = config PROVE Watched
<1>1. CASE UNCHANGED <<verdict, temps>>
  BY <1>1 DEF Watched
<1>2. ASSUME NEW later \in Later, temps' = later,
             verdict' = [guard |-> config.thermalGuard, found |-> temps, read |-> later,
                         record |-> EvaluateThermalGuard(config.thermalGuard, temps, later)]
      PROVE  Watched
  BY <1>2, LaterOk DEF Watched
<1> QED
  BY <1>1, <1>2, Zenon DEF Start

LEMMA RefuseWatched ==
  ASSUME NEW status, NEW code, Refuse(status, code), config' = config PROVE Watched
BY DEF Refuse, Watched

LEMMA InspectedWatched ==
  ASSUME Inspected PROVE Watched
<1> DEFINE stages == asked.answer.stages
           ok == {k \in DOMAIN stages : StageOk(stages[k])}
<1>1. config' = config /\ Judge(stages, ok)
  BY Zenon DEF Inspected
<1> HIDE DEF stages, ok
<1>2. \/ \E status, code : Refuse(status, code)
      \/ UNCHANGED <<verdict, temps>>
      \/ Execute([k \in DOMAIN stages |-> Validated(stages[k])])
  BY <1>1, Zenon DEF Judge
<1>3. (\E wish : Start(wish)) \/ (\E status, code : Refuse(status, code)) \/ UNCHANGED <<verdict, temps>>
  BY <1>2, Zenon DEF Execute
<1> QED
  BY <1>1, <1>3, StartWatched, RefuseWatched DEF Watched

LEMMA StructuredWatched ==
  ASSUME Structured PROVE Watched
<1>1. config' = config
  BY DEF Structured
<1>2. PICK command, targets, requested : Create(command, targets, requested)
  BY Zenon DEF Structured
<1>3. (\E wish : Start(wish)) \/ (\E status, code : Refuse(status, code))
  BY <1>2, Zenon DEF Create
<1> QED
  BY <1>1, <1>3, StartWatched, RefuseWatched

LEMMA ChangeWatched ==
  ASSUME Change PROVE Watched
<1>1. config' = config /\ verdict' = verdict
  BY DEF Change, gateway
<1>2. temps' = temps \/ \E p \in DOMAIN temps : temps' = [q \in DOMAIN temps \ {p} |-> temps[q]]
  BY DEF Change
<1> QED
  BY <1>1, <1>2 DEF Watched, TempsOk

LEMMA StepWatched ==
  ASSUME [Next]_vars PROVE Watched
<1>1. CASE UNCHANGED vars
  BY <1>1 DEF vars, gateway, world, Watched
<1>2. CASE Type
  BY <1>2 DEF Type, gateway, world, Watched
<1>3. CASE Write
  BY <1>3 DEF Write, gateway, world, Watched
<1>4. CASE Interact
  BY <1>4 DEF Interact, gateway, world, Watched
<1>5. CASE Ask
  <2>1. config' = config /\ ((\E status, code : Refuse(status, code)) \/ UNCHANGED <<verdict, temps>>)
    BY <1>5, Zenon DEF Ask
  <2> QED
    BY <2>1, RefuseWatched DEF Watched
<1>6. CASE InspectFails
  BY <1>6, RefuseWatched DEF InspectFails
<1>7. CASE Inspected
  BY <1>7, InspectedWatched
<1>8. CASE Structured
  BY <1>8, StructuredWatched
<1>9. CASE ReadCatalog
  BY <1>9 DEF ReadCatalog, world, Watched
<1>10. CASE Finish
  BY <1>10 DEF Finish, world, Watched
<1>11. CASE Change
  BY <1>11, ChangeWatched
<1> QED
  BY <1>1, <1>2, <1>3, <1>4, <1>5, <1>6, <1>7, <1>8, <1>9, <1>10, <1>11, Zenon DEF Next

(* A gateway that did not start decides nothing.                           *)
LEMMA OnlyTheUpDecide ==
  ASSUME [Next]_vars PROVE Up \/ asked # Nothing \/ UNCHANGED <<verdict, asked>>
<1>1. CASE UNCHANGED vars
  BY <1>1 DEF vars, gateway
<1>2. CASE Type \/ Write \/ Interact
  BY <1>2 DEF Type, Write, Interact, gateway
<1>3. CASE Ask \/ InspectFails \/ Inspected
  BY <1>3, Zenon DEF Ask, InspectFails, Inspected, Idle
<1>4. CASE Structured \/ ReadCatalog
  BY <1>4, Zenon DEF Structured, ReadCatalog, Idle
<1>5. CASE Finish \/ Change
  BY <1>5, Zenon DEF Finish, Change
<1> QED
  BY <1>1, <1>2, <1>3, <1>4, <1>5, Zenon DEF Next

LEMMA ThermalInit ==
  ASSUME Init PROVE ThermalInv
<1>1. Up => GuardOk(config.thermalGuard)
  <2>1. PICK env \in Envs : config = IF ConfigurationOk(env) THEN LoadConfig(env) ELSE Nothing
    BY Zenon DEF Init
  <2>2. SUFFICES ASSUME config # Nothing PROVE GuardOk(config.thermalGuard)
    BY DEF Up
  <2>3. ConfigurationOk(env) /\ config = LoadConfig(env)
    BY <2>1, <2>2
  <2>4. config.thermalGuard = ThermalGuardFromEnv(env)
    BY <2>3 DEF LoadConfig
  <2>5. /\ ThermalGuardFromEnv(env).warning = NumberOr(env.warning, 80)
        /\ ThermalGuardFromEnv(env).critical = NumberOr(env.critical, 95)
    BY DEF ThermalGuardFromEnv
  <2>6. env.warning \in Int /\ env.critical \in Int
    BY AdmissionAssumption
  <2>7. ThermalGuardFromEnv(env).warning < ThermalGuardFromEnv(env).critical
    BY <2>3 DEF ConfigurationOk, ThermalGuardConfigOk
  <2> QED
    BY <2>4, <2>5, <2>6, <2>7 DEF GuardOk, NumberOr
<1>2. TempsOk(temps)
  <2>1. \E least \in Heats : least = Min(Heats)
    <3>1. \E m \in Heats : \A k \in Heats : m <= k
      BY AdmissionAssumption, LeastOf
    <3> QED
      BY <3>1, Zenon DEF Min
  <2> QED
    BY <2>1 DEF Init, TempsOk
<1>3. verdict = Nothing /\ asked = Nothing
  BY Zenon DEF Init
<1> QED
  BY <1>1, <1>2, <1>3 DEF ThermalInv

LEMMA ThermalStep ==
  ASSUME ThermalInv, [Next]_vars PROVE ThermalInv'
<1>1. Watched
  BY StepWatched
<1>2. /\ Up' => GuardOk(config'.thermalGuard)
      /\ asked' # Nothing => Up'
  BY <1>1, OnlyTheUpDecide DEF Watched, ThermalInv, Up
<1>3. TempsOk(temps')
  BY <1>1 DEF Watched, ThermalInv
<1>4. ASSUME verdict' # Nothing PROVE VerdictOk(verdict')
  <2>1. CASE verdict' = verdict
    BY <2>1, <1>4 DEF ThermalInv
  <2>2. ASSUME NEW later \in Later,
               verdict' = [guard |-> config.thermalGuard, found |-> temps, read |-> later,
                           record |-> EvaluateThermalGuard(config.thermalGuard, temps, later)]
        PROVE  VerdictOk(verdict')
    <3>1. CASE verdict' = verdict
      BY <3>1, <1>4 DEF ThermalInv
    <3>2. CASE verdict' # verdict
      <4>1. GuardOk(config.thermalGuard)
        BY <3>2, OnlyTheUpDecide DEF ThermalInv
      <4>2. TempsOk(temps) /\ TempsOk(later)
        BY LaterOk DEF ThermalInv
      <4> QED
        BY <2>2, <4>1, <4>2 DEF VerdictOk
    <3> QED
      BY <3>1, <3>2
  <2> QED
    BY <1>1, <2>1, <2>2, Zenon DEF Watched
<1> QED
  BY <1>2, <1>3, <1>4 DEF ThermalInv

(* The guard decides by the hottest sensor it may rely on: it refuses      *)
(* exactly what has to be refused, is unavailable exactly without such a   *)
(* sensor, and critical exactly when one of them is, in every state        *)
(* (thermalGuard.ts:186 selectSensor, :337 evaluateThermalGuard).          *)
THEOREM GuardFollowsTheHottest == Spec => []HottestSensorDecides
<1>1. Init => ThermalInv
  BY ThermalInit
<1>2. ThermalInv /\ [Next]_vars => ThermalInv'
  BY ThermalStep
<1>3. ThermalInv => HottestSensorDecides
  BY VerdictDecided DEF ThermalInv, HottestSensorDecides, Decided
<1> QED
  BY <1>1, <1>2, <1>3, PTL DEF Spec

------------------------------------------------------------------------------
(* The arguments are looked at one after the other.                        *)
LEMMA ScanSteps ==
  ASSUME NEW schema, NEW args, Len(args) \in Nat
  PROVE  LET after == ScanAfter(schema, args)
         IN  /\ after[0] = ScanStart
             /\ \A k \in 1 .. Len(args) : after[k] = ScanArgument(schema, after[k - 1], args[k])
<1> DEFINE m == Len(args)
           Step(f, k) == IF k = 0 THEN ScanStart ELSE ScanArgument(schema, f[k - 1], args[k])
           Is(f, l) == f = [k \in 0 .. l |-> f[k]] /\ \A k \in 0 .. l : f[k] = Step(f, k)
           T == {l \in Nat : \E f : Is(f, l)}
<1>1. 0 \in T
  <2> DEFINE f == [k \in 0 .. 0 |-> ScanStart]
  <2>1. Is(f, 0)
    OBVIOUS
  <2> QED
    BY <2>1
<1>2. ASSUME NEW l \in T PROVE l + 1 \in T
  <2>1. PICK f : Is(f, l)
    OBVIOUS
  <2> DEFINE last == Step(f, l + 1)
             g == [k \in 0 .. l + 1 |-> IF k = l + 1 THEN last ELSE f[k]]
  <2>2. l \in Nat /\ g = [k \in 0 .. l + 1 |-> g[k]]
    OBVIOUS
  <2>3. \A k \in 0 .. l : g[k] = f[k]
    BY <2>2
  <2>4. g[l + 1] = last
    BY <2>2
  <2> HIDE DEF g, last
  <2>5. ASSUME NEW k \in 0 .. l PROVE g[k] = Step(g, k)
    <3>1. k # 0 => k - 1 \in 0 .. l
      BY <2>2
    <3>2. k # 0 => g[k - 1] = f[k - 1]
      BY <2>3, <3>1
    <3>3. Step(g, k) = Step(f, k)
      BY <3>2
    <3> QED
      BY <2>1, <2>3, <3>3
  <2>6. g[l + 1] = Step(g, l + 1)
    <3>1. l + 1 # 0 /\ (l + 1) - 1 = l /\ l \in 0 .. l
      BY <2>2
    <3>2. g[l] = f[l]
      BY <2>3, <3>1
    <3>3. Step(g, l + 1) = Step(f, l + 1)
      BY <3>1, <3>2
    <3> QED
      BY <2>4, <3>3 DEF last
  <2> HIDE DEF Step
  <2>7. \A k \in 0 .. l + 1 : k \in 0 .. l \/ k = l + 1
    BY <2>2
  <2>8. Is(g, l + 1)
    BY <2>2, <2>5, <2>6, <2>7
  <2> QED
    BY <2>2, <2>8
<1> HIDE DEF Step, Is
<1>3. T = Nat
  <2>1. T \in SUBSET Nat
    OBVIOUS
  <2> HIDE DEF T
  <2> QED
    BY <1>1, <1>2, <2>1, Reached
<1>4. PICK f : Is(f, m)
  BY <1>3
<1> DEFINE Whole(g) == g = [k \in 0 .. m |-> Step(g, k)]
<1>5. Whole(f)
  <2>1. f = [k \in 0 .. m |-> f[k]] /\ \A k \in 0 .. m : f[k] = Step(f, k)
    BY <1>4 DEF Is
  <2>2. [k \in 0 .. m |-> f[k]] = [k \in 0 .. m |-> Step(f, k)]
    BY <2>1
  <2> QED
    BY <2>1, <2>2
<1>6. ScanAfter(schema, args) = CHOOSE g : Whole(g)
  BY DEF ScanAfter, Step
<1>7. Whole(ScanAfter(schema, args))
  <2> HIDE DEF Whole
  <2> QED
    BY <1>5, <1>6
<1> DEFINE r == ScanAfter(schema, args)
<1>8. r = [k \in 0 .. m |-> Step(r, k)]
  BY <1>7
<1> HIDE DEF r
<1>9. \A k \in 0 .. m : r[k] = Step(r, k)
  BY <1>8
<1>10. 0 \in 0 .. m /\ \A k \in 1 .. m : k \in 0 .. m /\ k # 0
  OBVIOUS
<1>11. r[0] = ScanStart /\ \A k \in 1 .. m : r[k] = ScanArgument(schema, r[k - 1], args[k])
  BY <1>9, <1>10 DEF Step
<1> QED
  BY <1>11 DEF r

(* The characters are read one after the other.                            *)
LEMMA LexSteps ==
  ASSUME NEW line, Len(line) \in Nat
  PROVE  LET after == LexAfter(line)
         IN  /\ after[0] = LexStart
             /\ \A k \in 1 .. Len(line) : after[k] = LexStep(after[k - 1], line[k])
<1> DEFINE m == Len(line)
           Step(f, k) == IF k = 0 THEN LexStart ELSE LexStep(f[k - 1], line[k])
           Is(f, l) == f = [k \in 0 .. l |-> f[k]] /\ \A k \in 0 .. l : f[k] = Step(f, k)
           T == {l \in Nat : \E f : Is(f, l)}
<1>1. 0 \in T
  <2> DEFINE f == [k \in 0 .. 0 |-> LexStart]
  <2>1. Is(f, 0)
    OBVIOUS
  <2> QED
    BY <2>1
<1>2. ASSUME NEW l \in T PROVE l + 1 \in T
  <2>1. PICK f : Is(f, l)
    OBVIOUS
  <2> DEFINE last == Step(f, l + 1)
             g == [k \in 0 .. l + 1 |-> IF k = l + 1 THEN last ELSE f[k]]
  <2>2. l \in Nat /\ g = [k \in 0 .. l + 1 |-> g[k]]
    OBVIOUS
  <2>3. \A k \in 0 .. l : g[k] = f[k]
    BY <2>2
  <2>4. g[l + 1] = last
    BY <2>2
  <2> HIDE DEF g, last
  <2>5. ASSUME NEW k \in 0 .. l PROVE g[k] = Step(g, k)
    <3>1. k # 0 => k - 1 \in 0 .. l
      BY <2>2
    <3>2. k # 0 => g[k - 1] = f[k - 1]
      BY <2>3, <3>1
    <3>3. Step(g, k) = Step(f, k)
      BY <3>2
    <3> QED
      BY <2>1, <2>3, <3>3
  <2>6. g[l + 1] = Step(g, l + 1)
    <3>1. l + 1 # 0 /\ (l + 1) - 1 = l /\ l \in 0 .. l
      BY <2>2
    <3>2. g[l] = f[l]
      BY <2>3, <3>1
    <3>3. Step(g, l + 1) = Step(f, l + 1)
      BY <3>1, <3>2
    <3> QED
      BY <2>4, <3>3 DEF last
  <2> HIDE DEF Step
  <2>7. \A k \in 0 .. l + 1 : k \in 0 .. l \/ k = l + 1
    BY <2>2
  <2>8. Is(g, l + 1)
    BY <2>2, <2>5, <2>6, <2>7
  <2> QED
    BY <2>2, <2>8
<1> HIDE DEF Step, Is
<1>3. T = Nat
  <2>1. T \in SUBSET Nat
    OBVIOUS
  <2> HIDE DEF T
  <2> QED
    BY <1>1, <1>2, <2>1, Reached
<1>4. PICK f : Is(f, m)
  BY <1>3
<1> DEFINE Whole(g) == g = [k \in 0 .. m |-> Step(g, k)]
<1>5. Whole(f)
  <2>1. f = [k \in 0 .. m |-> f[k]] /\ \A k \in 0 .. m : f[k] = Step(f, k)
    BY <1>4 DEF Is
  <2>2. [k \in 0 .. m |-> f[k]] = [k \in 0 .. m |-> Step(f, k)]
    BY <2>1
  <2> QED
    BY <2>1, <2>2
<1>6. LexAfter(line) = CHOOSE g : Whole(g)
  BY DEF LexAfter, Step
<1>7. Whole(LexAfter(line))
  <2> HIDE DEF Whole
  <2> QED
    BY <1>5, <1>6
<1> DEFINE r == LexAfter(line)
<1>8. r = [k \in 0 .. m |-> Step(r, k)]
  BY <1>7
<1> HIDE DEF r
<1>9. \A k \in 0 .. m : r[k] = Step(r, k)
  BY <1>8
<1>10. 0 \in 0 .. m /\ \A k \in 1 .. m : k \in 0 .. m /\ k # 0
  OBVIOUS
<1>11. r[0] = LexStart /\ \A k \in 1 .. m : r[k] = LexStep(r[k - 1], line[k])
  BY <1>9, <1>10 DEF Step
<1> QED
  BY <1>11 DEF r

(* The places are gone through one after the other.                        *)
LEMMA OrderSteps ==
  ASSUME NEW places, NEW n \in Nat
  PROVE  LET upTo == InOrderUpTo(places, n)
         IN  /\ upTo[0] = <<>>
             /\ \A k \in 1 .. n : upTo[k] = (IF k \in places THEN Append(upTo[k - 1], k) ELSE upTo[k - 1])
<1> DEFINE m == n
           Step(f, k) == IF k = 0 THEN <<>> ELSE (IF k \in places THEN Append(f[k - 1], k) ELSE f[k - 1])
           Is(f, l) == f = [k \in 0 .. l |-> f[k]] /\ \A k \in 0 .. l : f[k] = Step(f, k)
           T == {l \in Nat : \E f : Is(f, l)}
<1>1. 0 \in T
  <2> DEFINE f == [k \in 0 .. 0 |-> <<>>]
  <2>1. Is(f, 0)
    OBVIOUS
  <2> QED
    BY <2>1
<1>2. ASSUME NEW l \in T PROVE l + 1 \in T
  <2>1. PICK f : Is(f, l)
    OBVIOUS
  <2> DEFINE last == Step(f, l + 1)
             g == [k \in 0 .. l + 1 |-> IF k = l + 1 THEN last ELSE f[k]]
  <2>2. l \in Nat /\ g = [k \in 0 .. l + 1 |-> g[k]]
    OBVIOUS
  <2>3. \A k \in 0 .. l : g[k] = f[k]
    BY <2>2
  <2>4. g[l + 1] = last
    BY <2>2
  <2> HIDE DEF g, last
  <2>5. ASSUME NEW k \in 0 .. l PROVE g[k] = Step(g, k)
    <3>1. k # 0 => k - 1 \in 0 .. l
      BY <2>2
    <3>2. k # 0 => g[k - 1] = f[k - 1]
      BY <2>3, <3>1
    <3>3. Step(g, k) = Step(f, k)
      BY <3>2
    <3> QED
      BY <2>1, <2>3, <3>3
  <2>6. g[l + 1] = Step(g, l + 1)
    <3>1. l + 1 # 0 /\ (l + 1) - 1 = l /\ l \in 0 .. l
      BY <2>2
    <3>2. g[l] = f[l]
      BY <2>3, <3>1
    <3>3. Step(g, l + 1) = Step(f, l + 1)
      BY <3>1, <3>2
    <3> QED
      BY <2>4, <3>3 DEF last
  <2> HIDE DEF Step
  <2>7. \A k \in 0 .. l + 1 : k \in 0 .. l \/ k = l + 1
    BY <2>2
  <2>8. Is(g, l + 1)
    BY <2>2, <2>5, <2>6, <2>7
  <2> QED
    BY <2>2, <2>8
<1> HIDE DEF Step, Is
<1>3. T = Nat
  <2>1. T \in SUBSET Nat
    OBVIOUS
  <2> HIDE DEF T
  <2> QED
    BY <1>1, <1>2, <2>1, Reached
<1>4. PICK f : Is(f, m)
  BY <1>3
<1> DEFINE Whole(g) == g = [k \in 0 .. m |-> Step(g, k)]
<1>5. Whole(f)
  <2>1. f = [k \in 0 .. m |-> f[k]] /\ \A k \in 0 .. m : f[k] = Step(f, k)
    BY <1>4 DEF Is
  <2>2. [k \in 0 .. m |-> f[k]] = [k \in 0 .. m |-> Step(f, k)]
    BY <2>1
  <2> QED
    BY <2>1, <2>2
<1>6. InOrderUpTo(places, n) = CHOOSE g : Whole(g)
  BY DEF InOrderUpTo, Step
<1>7. Whole(InOrderUpTo(places, n))
  <2> HIDE DEF Whole
  <2> QED
    BY <1>5, <1>6
<1> DEFINE r == InOrderUpTo(places, n)
<1>8. r = [k \in 0 .. m |-> Step(r, k)]
  BY <1>7
<1> HIDE DEF r
<1>9. \A k \in 0 .. m : r[k] = Step(r, k)
  BY <1>8
<1>10. 0 \in 0 .. m /\ \A k \in 1 .. m : k \in 0 .. m /\ k # 0
  OBVIOUS
<1>11. r[0] = <<>> /\ \A k \in 1 .. m : r[k] = (IF k \in places THEN Append(r[k - 1], k) ELSE r[k - 1])
  BY <1>9, <1>10 DEF Step
<1> QED
  BY <1>11 DEF r

------------------------------------------------------------------------------
(* The arguments. *)

IsSeq(s) == \E S : s \in Seq(S)
WordList(args) == IsSeq(args) /\ \A k \in DOMAIN args : IsSeq(args[k])

LEMMA SequenceFacts ==
  ASSUME NEW s, IsSeq(s)
  PROVE  Len(s) \in Nat /\ DOMAIN s = 1 .. Len(s)
<1>1. PICK S : s \in Seq(S)
  BY DEF IsSeq
<1> QED
  BY <1>1

LEMMA Appended ==
  ASSUME NEW s, IsSeq(s), NEW x
  PROVE  /\ IsSeq(Append(s, x)) /\ Len(Append(s, x)) = Len(s) + 1
         /\ DOMAIN Append(s, x) = 1 .. Len(s) + 1
         /\ \A i \in 1 .. Len(s) : Append(s, x)[i] = s[i]
         /\ Append(s, x)[Len(s) + 1] = x
<1>1. PICK S : s \in Seq(S)
  BY DEF IsSeq
<1>2. s \in Seq(S \cup {x})
  BY <1>1
<1>3. Append(s, x) \in Seq(S \cup {x})
  BY <1>2
<1> QED
  BY <1>2, <1>3 DEF IsSeq

(* What is left of a word without its hyphen.                              *)
LEMMA LettersOf ==
  ASSUME NEW token, IsSeq(token), IsFlag(token)
  PROVE  LET letters == Tail(token)
         IN  /\ Len(token) \in Nat /\ Len(token) > 1
             /\ Len(letters) = Len(token) - 1 /\ DOMAIN letters = 1 .. Len(token) - 1
             /\ \A k \in 1 .. Len(token) - 1 : letters[k] = token[k + 1]
             /\ Head(letters) = token[2] /\ Last(token) = token[Len(token)]
             /\ IsSeq(letters)
<1>1. PICK S : token \in Seq(S)
  BY DEF IsSeq
<1>2. Len(token) \in Nat /\ Len(token) > 1
  BY <1>1 DEF IsFlag
<1>3. token # <<>>
  BY <1>1, <1>2
<1>4. Tail(token) \in Seq(S) /\ Len(Tail(token)) = Len(token) - 1
  BY <1>1, <1>3
<1>5. \A k \in 1 .. Len(token) - 1 : Tail(token)[k] = token[k + 1]
  BY <1>1, <1>2, <1>3
<1>6. Head(Tail(token)) = token[2]
  <2>1. Head(Tail(token)) = Tail(token)[1]
    BY <1>2, <1>4
  <2> QED
    BY <1>2, <1>5, <2>1
<1> QED
  BY <1>2, <1>4, <1>5, <1>6 DEF IsSeq, Last

IsScan(s) ==
  /\ s = [ok |-> s.ok, pending |-> s.pending, positional |-> s.positional,
          choice |-> s.choice, paths |-> s.paths]
  /\ s.ok \in BOOLEAN /\ s.pending \in BOOLEAN /\ s.positional \in Nat /\ IsSeq(s.paths)

Takes(schema, word) ==
  Last(word) \in schema.valued /\ \A k \in 2 .. Len(word) - 1 : word[k] \notin schema.valued

(* A cluster is read up to the first letter that takes a value.            *)
LEMMA ClusterIsKnown ==
  ASSUME NEW schema, NEW s, IsScan(s), s.pending = FALSE,
         NEW token, IsSeq(token), IsFlag(token), Cluster(schema, s, Tail(token)).ok
  PROVE  LET t == Cluster(schema, s, Tail(token))
         IN  /\ \A k \in Letters(schema, token) : token[k] \in schema.flags
             /\ t = [s EXCEPT !.pending = Takes(schema, token)]
<1> DEFINE L == Len(token) - 1
           letters == Tail(token)
           t == Cluster(schema, s, letters)
           takers == {k \in DOMAIN letters : letters[k] \in schema.valued /\ letters[k] \in schema.flags}
           end == IF takers = {} THEN Len(letters) ELSE Min(takers)
           glued == SubSeq(letters, end + 1, Len(letters))
<1>1. /\ L \in Nat /\ L >= 1 /\ Len(token) = L + 1 /\ Len(letters) = L /\ DOMAIN letters = 1 .. L
      /\ \A k \in 1 .. L : letters[k] = token[k + 1]
      /\ Last(token) = token[L + 1]
  BY LettersOf
<1>2. t = IF \E k \in 1 .. end : letters[k] \notin schema.flags THEN Reject(s)
          ELSE IF takers = {} THEN s
          ELSE IF glued = <<>> THEN [s EXCEPT !.pending = TRUE]
          ELSE IF GluedOk(schema, glued) THEN s ELSE Reject(s)
  BY DEF Cluster
<1>3. /\ end = IF takers = {} THEN L ELSE Min(takers)
      /\ glued = SubSeq(letters, end + 1, L)
      /\ takers = {k \in 1 .. L : letters[k] \in schema.valued /\ letters[k] \in schema.flags}
  BY <1>1
<1>0. IsSeq(letters)
  BY LettersOf
<1> HIDE DEF glued, end, takers, letters, t, L
<1>4. takers # {} => end \in takers /\ \A k \in takers : end <= k
  <2>1. SUFFICES ASSUME takers # {} PROVE Min(takers) \in takers /\ \A k \in takers : Min(takers) <= k
    BY <1>3
  <2>2. takers \in SUBSET Nat
    BY <1>1, <1>3
  <2>3. \E m \in takers : \A k \in takers : m <= k
    BY <2>1, <2>2, LeastOf
  <2> QED
    BY <2>3, Zenon DEF Min
<1>5. end \in 1 .. L /\ (takers = {} => end = L)
  <2>1. CASE takers = {}
    BY <1>1, <1>3, <2>1
  <2>2. CASE takers # {}
    <3>1. end \in takers
      BY <1>4, <2>2
    <3> QED
      BY <1>3, <2>2, <3>1
  <2> QED
    BY <2>1, <2>2
<1>6. glued = <<>> <=> end = L
  <2>1. PICK S : letters \in Seq(S)
    BY <1>0 DEF IsSeq
  <2>2. end + 1 \in 1 .. L + 1 /\ L \in (end + 1) - 1 .. L
    BY <1>1, <1>5
  <2>5. end + 1 \in Int /\ L \in Int /\ \A i \in end + 1 .. L : letters[i] \in S
    BY <1>1, <1>5, <2>1
  <2>6. /\ SubSeq(letters, end + 1, L) \in Seq(S)
        /\ Len(SubSeq(letters, end + 1, L)) = IF end + 1 <= L THEN L - (end + 1) + 1 ELSE 0
    BY ONLY <2>5, SubSeqProperties, Zenon
  <2>7. glued = SubSeq(letters, end + 1, L)
    BY <1>3
  <2>8. glued \in Seq(S) /\ Len(glued) = IF end + 1 <= L THEN L - (end + 1) + 1 ELSE 0
    BY ONLY <2>6, <2>7, Zenon
  <2>9. L \in Nat /\ end \in 1 .. L
    BY <1>1, <1>5
  <2>3. glued \in Seq(S) /\ Len(glued) = L - end
    BY ONLY <2>8, <2>9
  <2>4. Len(glued) = 0 <=> glued = <<>>
    BY <2>3
  <2> QED
    BY <2>3, <2>4, <2>9
<1>7. Reject(s).ok = FALSE
  BY DEF IsScan, Reject
<1>17. t.ok
  BY DEF t, letters
<1>8. \A k \in 1 .. end : letters[k] \in schema.flags
  BY <1>2, <1>7, <1>17
<1>9. t = IF takers # {} /\ end = L THEN [s EXCEPT !.pending = TRUE] ELSE s
  BY <1>2, <1>6, <1>7, <1>8, <1>17, <1>5
<1>10. takers = {k \in 1 .. L : letters[k] \in schema.valued /\ letters[k] \in schema.flags}
  BY <1>3
<1>11. \A k \in 1 .. end : k \in 1 .. L /\ k + 1 \in 2 .. L + 1 /\ letters[k] = token[k + 1]
  BY <1>1, <1>5
<1>12. \A k \in 1 .. end : token[k + 1] \in schema.valued => takers # {} /\ k = end
  <2>1. ASSUME NEW k \in 1 .. end, token[k + 1] \in schema.valued PROVE k \in takers
    BY <1>8, <1>10, <1>11, <2>1
  <2> QED
    BY <1>4, <1>5, <2>1
<1>13. takers # {} => token[end + 1] \in schema.valued
  BY <1>4, <1>5, <1>10, <1>11
<1>14. ASSUME NEW k \in Letters(schema, token) PROVE token[k] \in schema.flags
  <2>1. k \in 2 .. L + 1 /\ \A j \in 2 .. k - 1 : token[j] \notin schema.valued
    BY <1>1 DEF Letters
  <2>2. k - 1 \in 1 .. L /\ k = (k - 1) + 1
    BY <1>1, <2>1
  <2>3. k - 1 \in 1 .. end
    <3>1. CASE takers = {}
      BY <1>5, <2>2, <3>1
    <3>2. CASE takers # {}
      <4>1. end + 1 \notin 2 .. k - 1
        BY <1>13, <2>1, <3>2
      <4> QED
        BY <1>1, <1>5, <2>1, <4>1
    <3> QED
      BY <3>1, <3>2
  <2> QED
    BY <1>8, <1>11, <2>2, <2>3
<1>15. Takes(schema, token) <=> takers # {} /\ end = L
  <2>1. CASE takers # {} /\ end = L
    <3>1. ASSUME NEW k \in 2 .. L PROVE token[k] \notin schema.valued
      <4>1. k - 1 \in 1 .. end /\ k - 1 # end /\ (k - 1) + 1 = k
        BY <1>1, <2>1
      <4> QED
        BY <1>12, <4>1
    <3>2. token[L + 1] \in schema.valued
      BY <1>13, <2>1
    <3>3. Len(token) - 1 = L
      BY <1>1
    <3> QED
      BY <1>1, <2>1, <3>1, <3>2, <3>3 DEF Takes
  <2>2. CASE takers = {}
    <3>1. L \in 1 .. end
      BY <1>1, <1>5, <2>2
    <3>2. token[L + 1] \notin schema.valued
      BY <1>12, <2>2, <3>1
    <3> QED
      BY <1>1, <2>2, <3>2 DEF Takes
  <2>3. CASE takers # {} /\ end # L
    <3>1. end + 1 \in 2 .. Len(token) - 1
      BY <1>1, <1>5, <2>3
    <3> QED
      BY <1>13, <2>3, <3>1 DEF Takes
  <2> QED
    BY <2>1, <2>2, <2>3
<1>16. t = [s EXCEPT !.pending = Takes(schema, token)]
  <2>1. Takes(schema, token) \in BOOLEAN
    BY DEF Takes
  <2>2. CASE Takes(schema, token)
    BY <1>9, <1>15, <2>2
  <2>3. CASE ~Takes(schema, token)
    <3>1. t = s
      BY <1>9, <1>15, <2>3
    <3>2. Takes(schema, token) = FALSE
      BY <2>1, <2>3
    <3>3. s = [s EXCEPT !.pending = FALSE]
      BY DEF IsScan
    <3> QED
      BY <3>1, <3>2, <3>3
  <2> QED
    BY <2>2, <2>3
<1> QED
  BY <1>14, <1>16 DEF t, letters

(* What one more argument does, unless it is rejected.                     *)
AsFlag(schema, s, t, token) ==
  /\ KnownOptions(schema, token)
  /\ t = [s EXCEPT !.pending = TakesNext(schema, token)]

AsValue(schema, s, t, token) ==
  IntegerOk(schema.integers, token) /\ t = [s EXCEPT !.pending = FALSE]

AsOperand(schema, s, t, token) ==
  LET n == s.positional + 1
      pattern == s.positional < schema.leading /\ ~LooksLikePath(token)
  IN  /\ n <= schema.maxPositional
      /\ IntegerOk(schema.integers, token)
      /\ (n = 1 /\ schema.choices # {}) => token \in {<<c>> : c \in schema.choices}
      /\ (n = 1 /\ schema.program) => token \notin RefusedPrograms
      /\ t.ok = s.ok /\ t.pending = s.pending /\ t.positional = n
      /\ t.paths = IF schema.paths /\ ~pattern THEN Append(s.paths, token) ELSE s.paths

LEMMA FlagIsKnown ==
  ASSUME NEW schema, NEW s, IsScan(s), s.pending = FALSE,
         NEW token, IsSeq(token), IsFlag(token), Flag(schema, s, token).ok
  PROVE  AsFlag(schema, s, Flag(schema, s, token), token)
<1> DEFINE letters == Tail(token)
           t == Flag(schema, s, token)
           counted == schema.count # {} /\ IsNumber(letters, 10)
           long == Tail(letters) \in {<<w>> : w \in schema.long}
           word == letters \in {<<w>> : w \in schema.words}
<1>1. /\ Len(token) \in Nat /\ Len(token) > 1 /\ Head(letters) = token[2] /\ IsSeq(letters)
      /\ Len(letters) = Len(token) - 1
      /\ \A k \in 1 .. Len(token) - 1 : letters[k] = token[k + 1]
  BY LettersOf
<1>2. t = IF counted THEN IF IntegerOk(schema.count, letters) THEN s ELSE Reject(s)
          ELSE IF Head(letters) = "-" THEN IF long THEN s ELSE Reject(s)
          ELSE IF word THEN s ELSE Cluster(schema, s, letters)
  BY DEF Flag
<1>3. Reject(s).ok = FALSE
  BY DEF IsScan, Reject
<1>4. TakesNext(schema, token) =
        (IsFlag(token) /\ token[2] # "-" /\ ~word /\ ~counted /\ Takes(schema, token))
  BY DEF TakesNext, Takes
<1>5. KnownOptions(schema, token) <=>
        \/ counted
        \/ token[2] = "-" /\ Len(token) = 3 /\ token[3] \in schema.long
        \/ word
        \/ token[2] # "-" /\ \A k \in Letters(schema, token) : token[k] \in schema.flags
  BY DEF KnownOptions
<1>14. long <=> \E w \in schema.long : Tail(letters) = <<w>>
  OBVIOUS
<1>15. Len(token) \in Nat /\ Len(letters) = Len(token) - 1
  BY <1>1
<1>16. Len(token) = 3 => letters[2] = token[3]
  <2>1. SUFFICES ASSUME Len(token) = 3 PROVE letters[2] = token[3]
    OBVIOUS
  <2>2. 2 \in 1 .. Len(token) - 1 /\ 2 + 1 = 3
    BY <2>1
  <2> QED
    BY <1>1, <2>2
<1> DEFINE rest == Tail(letters)
<1>18. rest = Tail(letters)
  OBVIOUS
<1> HIDE DEF counted, long, word, letters, rest
<1>6. long => Len(token) = 3 /\ token[3] \in schema.long
  <2>1. SUFFICES ASSUME NEW w \in schema.long, Tail(letters) = <<w>>
                 PROVE  Len(token) = 3 /\ token[3] = w
    BY <1>14
  <2>2. PICK S : letters \in Seq(S)
    BY <1>1 DEF IsSeq
  <2>3. Len(letters) \in Nat /\ Len(letters) >= 1 /\ letters # <<>>
    BY <1>1, <2>2
  <2>4. Len(rest) = Len(letters) - 1
    BY <1>18, <2>2, <2>3
  <2>7. rest = <<w>>
    BY <1>18, <2>1
  <2>5. Len(letters) = 2
    BY <2>3, <2>4, <2>7
  <2>11. \A i \in 1 .. Len(letters) - 1 : Tail(letters)[i] = letters[i + 1]
    BY <2>2, <2>3
  <2>12. 1 \in 1 .. Len(letters) - 1
    BY <2>5
  <2>6. rest[1] = letters[2]
    BY <1>18, <2>11, <2>12
  <2>10. 2 = Len(token) - 1
    BY <1>15, <2>5
  <2>8. Len(token) = 3
    <3>1. Len(token) \in Nat
      BY <1>15
    <3> QED
      BY ONLY <2>10, <3>1
  <2>9. rest[1] = w
    <3>1. <<w>>[1] = w
      OBVIOUS
    <3> QED
      BY ONLY <2>7, <3>1, Zenon
  <2>13. letters[2] = token[3]
    BY <1>16, <2>8
  <2> QED
    BY <2>6, <2>8, <2>9, <2>13
<1>7. t.ok
  OBVIOUS
<1>8. s = [s EXCEPT !.pending = FALSE]
  BY DEF IsScan
<1>9. TakesNext(schema, token) \in BOOLEAN
  BY <1>4
<1> HIDE DEF t
<1>10. CASE counted
  <2>1. t = s
    BY <1>2, <1>3, <1>7, <1>10
  <2>2. TakesNext(schema, token) = FALSE
    BY <1>4, <1>9, <1>10
  <2> QED
    BY <1>5, <1>8, <1>10, <2>1, <2>2 DEF AsFlag, t
<1>11. CASE ~counted /\ Head(letters) = "-"
  <2>1. t = s /\ long
    BY <1>2, <1>3, <1>7, <1>11
  <2>2. TakesNext(schema, token) = FALSE
    BY <1>1, <1>4, <1>9, <1>11
  <2> QED
    BY <1>1, <1>5, <1>6, <1>8, <1>11, <2>1, <2>2 DEF AsFlag, t
<1>12. CASE ~counted /\ Head(letters) # "-" /\ word
  <2>1. t = s
    BY <1>2, <1>12
  <2>2. TakesNext(schema, token) = FALSE
    BY <1>4, <1>9, <1>12
  <2> QED
    BY <1>5, <1>8, <1>12, <2>1, <2>2 DEF AsFlag, t
<1>13. CASE ~counted /\ Head(letters) # "-" /\ ~word
  <2>1. t = Cluster(schema, s, letters)
    BY <1>2, <1>13
  <2>2. /\ \A k \in Letters(schema, token) : token[k] \in schema.flags
        /\ t = [s EXCEPT !.pending = Takes(schema, token)]
    <3>1. Cluster(schema, s, Tail(token)).ok
      BY <1>7, <2>1 DEF letters
    <3>2. t = Cluster(schema, s, Tail(token))
      BY <2>1 DEF letters
    <3> QED
      BY <3>1, <3>2, ClusterIsKnown
  <2>3. Takes(schema, token) \in BOOLEAN
    BY DEF Takes
  <2>4. TakesNext(schema, token) = Takes(schema, token)
    BY <1>1, <1>4, <1>13, <2>3
  <2> QED
    BY <1>1, <1>5, <1>13, <2>2, <2>4 DEF AsFlag, t
<1> QED
  BY <1>10, <1>11, <1>12, <1>13

LEMMA OperandIsChecked ==
  ASSUME NEW schema, NEW s, IsScan(s), NEW token, Positional(schema, s, token).ok
  PROVE  AsOperand(schema, s, Positional(schema, s, token), token)
<1> DEFINE n == s.positional + 1
           pattern == s.positional < schema.leading /\ ~LooksLikePath(token)
           choice == IF n = 1 /\ schema.choices # {} /\ token # <<>> THEN token[1] ELSE s.choice
           ok == /\ n <= schema.maxPositional
                 /\ IntegerOk(schema.integers, token)
                 /\ (n = 1 /\ schema.choices # {}) => token \in {<<c>> : c \in schema.choices}
                 /\ (n = 2 /\ s.choice \in schema.choiceFor) => IntegerOk(schema.choiceRange, token)
                 /\ (n = 1 /\ schema.program) => token \notin RefusedPrograms
           t == Positional(schema, s, token)
           paths == IF schema.paths /\ ~pattern THEN Append(s.paths, token) ELSE s.paths
<1>1. t = IF ok THEN [s EXCEPT !.positional = n, !.choice = choice, !.paths = paths] ELSE Reject(s)
  BY DEF Positional
<1>2. Reject(s).ok = FALSE
  BY DEF IsScan, Reject
<1>3. t.ok
  OBVIOUS
<1> HIDE DEF n, choice, paths, t, ok, pattern
<1>4. ok
  BY <1>1, <1>2, <1>3
<1>5. t = [s EXCEPT !.positional = n, !.choice = choice, !.paths = paths]
  BY <1>1, <1>4
<1>6. t.ok = s.ok /\ t.pending = s.pending /\ t.positional = n /\ t.paths = paths
  BY <1>5 DEF IsScan
<1> QED
  BY <1>4, <1>6 DEF AsOperand, ok, paths, t, n, pattern

LEMMA ScanStays ==
  ASSUME NEW schema, NEW s, IsScan(s), NEW token
  PROVE  LET t == ScanArgument(schema, s, token)
         IN  IsScan(t) /\ (t.ok => s.ok)
<1>1. PICK o, p, n, c, q :
        /\ s = [ok |-> o, pending |-> p, positional |-> n, choice |-> c, paths |-> q]
        /\ o \in BOOLEAN /\ p \in BOOLEAN /\ n \in Nat /\ IsSeq(q)
  <2>1. /\ s = [ok |-> s.ok, pending |-> s.pending, positional |-> s.positional,
                choice |-> s.choice, paths |-> s.paths]
        /\ s.ok \in BOOLEAN /\ s.pending \in BOOLEAN /\ s.positional \in Nat /\ IsSeq(s.paths)
    BY DEF IsScan
  <2> QED
    BY <2>1, Zenon
<1> DEFINE May(t) == IsScan(t) /\ (t.ok => s.ok)
<1>2. May(s)
  OBVIOUS
<1>12. ASSUME NEW o2 \in BOOLEAN, NEW p2 \in BOOLEAN, NEW n2 \in Nat, NEW c2, NEW q2, IsSeq(q2),
              NEW t, t = [ok |-> o2, pending |-> p2, positional |-> n2, choice |-> c2, paths |-> q2]
       PROVE  IsScan(t) /\ t.ok = o2
  BY <1>12 DEF IsScan
<1>13. s.ok = o /\ s.positional = n /\ s.paths = q
  BY <1>1
<1>14. ASSUME NEW o2 \in BOOLEAN, ~o2 PROVE May([s EXCEPT !.ok = o2])
  <2> DEFINE t == [s EXCEPT !.ok = o2]
  <2>1. t = [ok |-> o2, pending |-> p, positional |-> n, choice |-> c, paths |-> q]
    BY <1>1
  <2> HIDE DEF t
  <2>2. IsScan(t) /\ t.ok = o2
    BY <1>1, <1>12, <2>1
  <2>3. May(t)
    BY <1>14, <2>2
  <2> QED
    BY <2>3 DEF t
<1>3. May(Reject(s))
  <2> HIDE DEF May
  <2> QED
    BY <1>14 DEF Reject
<1>4. ASSUME NEW p2 \in BOOLEAN PROVE May([s EXCEPT !.pending = p2])
  <2> DEFINE t == [s EXCEPT !.pending = p2]
  <2>1. t = [ok |-> o, pending |-> p2, positional |-> n, choice |-> c, paths |-> q]
    BY <1>1
  <2> HIDE DEF t
  <2>2. IsScan(t) /\ t.ok = o
    BY <1>1, <1>12, <2>1
  <2>3. May(t)
    BY <1>13, <2>2
  <2> QED
    BY <2>3 DEF t
<1>5. ASSUME NEW choice, NEW paths, paths = s.paths \/ paths = Append(s.paths, token)
      PROVE  May([s EXCEPT !.positional = s.positional + 1, !.choice = choice, !.paths = paths])
  <2> DEFINE t1 == [s EXCEPT !.positional = n + 1]
             t2 == [t1 EXCEPT !.choice = choice]
             t == [t2 EXCEPT !.paths = paths]
  <2>7. t1 = [ok |-> o, pending |-> p, positional |-> n + 1, choice |-> c, paths |-> q]
    BY <1>1
  <2>8. t = [s EXCEPT !.positional = s.positional + 1, !.choice = choice, !.paths = paths]
    BY <1>13
  <2> HIDE DEF t1
  <2>9. t2 = [ok |-> o, pending |-> p, positional |-> n + 1, choice |-> choice, paths |-> q]
    BY <2>7
  <2> HIDE DEF t2
  <2>1. t = [ok |-> o, pending |-> p, positional |-> n + 1, choice |-> choice, paths |-> paths]
    BY <2>9
  <2>2. IsSeq(Append(q, token))
    BY <1>1, Appended
  <2>3. IsSeq(paths)
    BY <1>1, <1>5, <1>13, <2>2
  <2>4. n + 1 \in Nat
    BY <1>1
  <2> HIDE DEF t
  <2>5. IsScan(t) /\ t.ok = o
    BY <1>1, <1>12, <2>1, <2>3, <2>4
  <2>6. May(t)
    BY <1>13, <2>5
  <2> QED
    BY <2>6, <2>8
<1> HIDE DEF May
<1>6. May(FlagValue(schema, s, token))
  BY <1>3, <1>4 DEF FlagValue
<1>7. ASSUME NEW letters PROVE May(Cluster(schema, s, letters))
  <2>1. Cluster(schema, s, letters) \in {s, Reject(s), [s EXCEPT !.pending = TRUE]}
    BY DEF Cluster
  <2> QED
    BY <1>2, <1>3, <1>4, <2>1
<1>8. May(Flag(schema, s, token))
  <2>1. Flag(schema, s, token) \in {s, Reject(s), Cluster(schema, s, Tail(token))}
    BY DEF Flag
  <2> QED
    BY <1>2, <1>3, <1>7, <2>1
<1>9. May(Positional(schema, s, token))
  <2>1. \/ Positional(schema, s, token) = Reject(s)
        \/ \E choice, paths :
              /\ paths = s.paths \/ paths = Append(s.paths, token)
              /\ Positional(schema, s, token)
                   = [s EXCEPT !.positional = s.positional + 1, !.choice = choice, !.paths = paths]
    BY DEF Positional
  <2> QED
    <3>1. CASE Positional(schema, s, token) = Reject(s)
      BY <1>3, <3>1
    <3>2. ASSUME NEW choice, NEW paths, paths = s.paths \/ paths = Append(s.paths, token),
                 Positional(schema, s, token)
                   = [s EXCEPT !.positional = s.positional + 1, !.choice = choice, !.paths = paths]
          PROVE  May(Positional(schema, s, token))
      <4>1. May([s EXCEPT !.positional = s.positional + 1, !.choice = choice, !.paths = paths])
        BY ONLY <1>5, <3>2
      <4> QED
        BY ONLY <3>2, <4>1
    <3> QED
      BY <2>1, <3>1, <3>2
<1>10. ScanArgument(schema, s, token)
         \in {Reject(s), FlagValue(schema, s, token), Flag(schema, s, token), Positional(schema, s, token)}
  BY DEF ScanArgument
<1>11. May(ScanArgument(schema, s, token))
  BY <1>3, <1>6, <1>8, <1>9, <1>10
<1> QED
  BY <1>11 DEF May

LEMMA ArgumentIsChecked ==
  ASSUME NEW schema, NEW s, IsScan(s), NEW token, IsSeq(token),
         ScanArgument(schema, s, token).ok
  PROVE  LET t == ScanArgument(schema, s, token)
         IN  /\ s.pending => AsValue(schema, s, t, token)
             /\ ~s.pending /\ IsFlag(token) => AsFlag(schema, s, t, token)
             /\ ~s.pending /\ ~IsFlag(token) => AsOperand(schema, s, t, token)
<1> DEFINE t == ScanArgument(schema, s, token)
<1>1. Reject(s).ok = FALSE /\ s.pending \in BOOLEAN
  BY DEF IsScan, Reject
<1>2. t = IF s.pending THEN FlagValue(schema, s, token)
          ELSE IF IsFlag(token) THEN Flag(schema, s, token)
          ELSE Positional(schema, s, token)
  BY <1>1 DEF ScanArgument
<1>3. t.ok
  OBVIOUS
<1> HIDE DEF t
<1>4. CASE s.pending
  BY <1>1, <1>2, <1>3, <1>4 DEF FlagValue, AsValue, t
<1>5. CASE ~s.pending /\ IsFlag(token)
  BY <1>1, <1>2, <1>3, <1>5, FlagIsKnown DEF t
<1>6. CASE ~s.pending /\ ~IsFlag(token)
  BY <1>1, <1>2, <1>3, <1>6, OperandIsChecked DEF t
<1> QED
  BY <1>4, <1>5, <1>6 DEF t

(* Operands are counted one after the other.                               *)
LEMMA PlacesCount ==
  ASSUME NEW roles, NEW n \in Nat, DOMAIN roles = 1 .. n, NEW k \in 1 .. n
  PROVE  /\ Place(roles, k) \in Nat /\ Place(roles, k - 1) \in Nat
         /\ k \in Operands(roles) => Place(roles, k) = Place(roles, k - 1) + 1
         /\ k \notin Operands(roles) => Place(roles, k) = Place(roles, k - 1)
<1> DEFINE UpTo(l) == {j \in Operands(roles) : j <= l}
<1>1. Operands(roles) \in SUBSET (1 .. n)
  BY DEF Operands
<1>2. ASSUME NEW l PROVE IsFiniteSet(UpTo(l)) /\ Cardinality(UpTo(l)) \in Nat
  <2>1. IsFiniteSet(1 .. n)
    BY FS_Interval
  <2>2. UpTo(l) \subseteq 1 .. n
    BY <1>1
  <2> HIDE DEF UpTo
  <2>3. IsFiniteSet(UpTo(l))
    BY <2>1, <2>2, FS_Subset
  <2> QED
    BY <2>3, FS_CardinalityType
<1>5. k \notin UpTo(k - 1)
  OBVIOUS
<1>6. UpTo(k) = IF k \in Operands(roles) THEN UpTo(k - 1) \cup {k} ELSE UpTo(k - 1)
  <2>1. \A j \in Operands(roles) : j <= k <=> (j <= k - 1 \/ j = k)
    BY <1>1
  <2> QED
    BY <2>1
<1> DEFINE U == UpTo(k - 1)
           V == UpTo(k)
<1>7. /\ k \notin U /\ IsFiniteSet(U) /\ Cardinality(U) \in Nat /\ Cardinality(V) \in Nat
      /\ V = IF k \in Operands(roles) THEN U \cup {k} ELSE U
  BY <1>2, <1>5, <1>6
<1>8. Cardinality(V) = Cardinality(U) + IF k \in Operands(roles) THEN 1 ELSE 0
  <2> HIDE DEF U, V
  <2>1. Cardinality(U \cup {k}) = Cardinality(U) + 1
    BY <1>7, FS_AddElement
  <2> QED
    BY <1>7, <2>1
<1> QED
  BY <1>7, <1>8 DEF Place

(* The reading a program makes of its arguments is the one the gateway     *)
(* made of them from left to right.                                        *)
LEMMA ValidatedFollows ==
  ASSUME NEW schema, NEW args, WordList(args), NEW disk, ScanOk(Scan(schema, args), disk)
  PROVE  FollowsSchema(schema, args, disk)
<1> SUFFICES ASSUME NEW roles \in Readings(schema, args)
             PROVE
        /\ \A k \in DOMAIN args : roles[k] = "options" => KnownOptions(schema, args[k])
        /\ \A k \in DOMAIN args : roles[k] \in {"value", "operand"} => IntegerOk(schema.integers, args[k])
        /\ \A k \in Operands(roles) :
              /\ Place(roles, k) <= schema.maxPositional
              /\ schema.paths /\ ~IsPattern(schema, roles, args, k) => ReadableFile(disk, args[k])
              /\ schema.choices # {} /\ Place(roles, k) = 1 => args[k] \in {<<c>> : c \in schema.choices}
              /\ schema.program /\ Place(roles, k) = 1 => args[k] \notin RefusedPrograms
  BY DEF FollowsSchema
<1> DEFINE n == Len(args)
           st == ScanAfter(schema, args)
           UpTo(k) == Place(roles, k)
<1>1. n \in Nat /\ DOMAIN args = 1 .. n
  BY SequenceFacts DEF WordList
<1>2. \A k \in 1 .. n : IsSeq(args[k])
  BY <1>1 DEF WordList
<1>3. st[0] = ScanStart /\ \A k \in 1 .. n : st[k] = ScanArgument(schema, st[k - 1], args[k])
  BY <1>1, ScanSteps
<1>4. st[n].ok /\ \A i \in DOMAIN st[n].paths : ReadableFile(disk, st[n].paths[i])
  BY DEF ScanOk, Scan
<1>5. /\ DOMAIN roles = 1 .. n
      /\ \A k \in 1 .. n :
            /\ roles[k] \in {"options", "value", "operand"}
            /\ roles[k] = "value" <=> (k > 1 /\ roles[k - 1] = "options" /\ TakesNext(schema, args[k - 1]))
            /\ roles[k] = "options" => IsFlag(args[k])
            /\ roles[k] = "operand" => ~IsFlag(args[k])
  BY <1>1 DEF Readings
<1>6. Operands(roles) = {k \in 1 .. n : roles[k] = "operand"}
  BY <1>5 DEF Operands
<1> DEFINE Pending(k) == k > 0 /\ roles[k] = "options" /\ TakesNext(schema, args[k])
           Seen(k) ==
             /\ roles[k] = "options" => KnownOptions(schema, args[k])
             /\ roles[k] \in {"value", "operand"} => IntegerOk(schema.integers, args[k])
             /\ roles[k] = "operand" =>
                  /\ Place(roles, k) <= schema.maxPositional
                  /\ schema.choices # {} /\ Place(roles, k) = 1 => args[k] \in {<<c>> : c \in schema.choices}
                  /\ schema.program /\ Place(roles, k) = 1 => args[k] \notin RefusedPrograms
           File_(k) == roles[k] = "operand" /\ schema.paths /\ ~IsPattern(schema, roles, args, k)
           Holds(s, k) == /\ s.pending <=> Pending(k)
                          /\ s.positional = UpTo(k)
                          /\ \A j \in 1 .. k : Seen(j)
                          /\ \A j \in 1 .. k : File_(j) => \E i \in DOMAIN s.paths : s.paths[i] = args[j]
           T == {k \in Nat : k <= n => IsScan(st[k]) /\ (st[k].ok => Holds(st[k], k))}
<1>7. 0 \in T
  <2>1. st[0] = [ok |-> TRUE, pending |-> FALSE, positional |-> 0, choice |-> "none", paths |-> <<>>]
    BY <1>3 DEF ScanStart
  <2>2. <<>> \in Seq({})
    OBVIOUS
  <2>3. IsScan(st[0])
    <3> HIDE DEF st
    <3> QED
      BY <2>1, <2>2 DEF IsScan, IsSeq
  <2>4. UpTo(0) = 0
    <3>1. \A j \in Operands(roles) : ~(j <= 0)
      BY <1>1, <1>6
    <3>2. {j \in Operands(roles) : j <= 0} = {}
      BY <3>1
    <3> QED
      BY <3>2, FS_EmptySet DEF Place
  <2>5. ~Pending(0) /\ 1 .. 0 = {}
    OBVIOUS
  <2> HIDE DEF st, UpTo, Pending, Seen, File_
  <2>6. Holds(st[0], 0)
    BY <2>1, <2>4, <2>5
  <2> QED
    BY <2>3, <2>6
<1> HIDE DEF st, UpTo, Pending, Seen, File_, Holds
<1>12. ASSUME NEW l \in Nat, NEW k, k = l + 1, k <= n, NEW s, s = st[l], NEW t, t = st[k],
              NEW token, token = args[k], IsScan(s), s.ok => Holds(s, l)
       PROVE  IsScan(t) /\ (t.ok => Holds(t, k))
  <2>1. l <= n /\ k \in 1 .. n /\ k - 1 = l /\ n \in Nat
    BY <1>1, <1>12
  <2>2. t = ScanArgument(schema, s, token)
    BY <1>3, <1>12, <2>1
  <2>3. IsSeq(token)
    BY <1>2, <1>12, <2>1
  <2>4. IsScan(t) /\ (t.ok => s.ok)
    BY <1>12, <2>2, ScanStays
  <2>5. SUFFICES ASSUME t.ok PROVE Holds(t, k)
    BY <2>4
  <2>6. /\ s.pending <=> Pending(l)
        /\ s.positional = UpTo(l)
        /\ \A j \in 1 .. l : Seen(j)
        /\ \A j \in 1 .. l : File_(j) => \E i \in DOMAIN s.paths : s.paths[i] = args[j]
    BY <1>12, <2>4, <2>5 DEF Holds
  <2>7. /\ s.pending => AsValue(schema, s, t, token)
        /\ ~s.pending /\ IsFlag(token) => AsFlag(schema, s, t, token)
        /\ ~s.pending /\ ~IsFlag(token) => AsOperand(schema, s, t, token)
    BY <1>12, <2>2, <2>3, <2>5, ArgumentIsChecked
  <2>8. roles[k] = "value" <=> s.pending
    <3>1. k > 1 <=> l > 0
      BY <1>12
    <3>2. roles[k] = "value" <=> (k > 1 /\ roles[l] = "options" /\ TakesNext(schema, args[l]))
      BY <1>5, <2>1
    <3> QED
      BY <2>6, <3>1, <3>2 DEF Pending
  <2>9. /\ roles[k] \in {"options", "value", "operand"}
        /\ roles[k] = "options" => IsFlag(token)
        /\ roles[k] = "operand" => ~IsFlag(token)
    BY <1>5, <1>12, <2>1
  <2>10. /\ UpTo(k) = UpTo(l) + IF roles[k] = "operand" THEN 1 ELSE 0
         /\ UpTo(l) \in Nat /\ Place(roles, k) = UpTo(k)
    <3>1. k \in Operands(roles) <=> roles[k] = "operand"
      BY <1>6, <2>1
    <3>2. DOMAIN roles = 1 .. n
      BY <1>5
    <3>3. /\ Place(roles, k - 1) \in Nat
          /\ k \in Operands(roles) => Place(roles, k) = Place(roles, k - 1) + 1
          /\ k \notin Operands(roles) => Place(roles, k) = Place(roles, k - 1)
      BY <2>1, <3>2, PlacesCount
    <3> QED
      BY <2>1, <3>1, <3>3 DEF UpTo
  <2>11. Pending(k) <=> roles[k] = "options" /\ TakesNext(schema, token)
    BY <1>12 DEF Pending
  <2>12. SUFFICES /\ t.pending <=> Pending(k)
                  /\ t.positional = UpTo(k)
                  /\ Seen(k)
                  /\ \A j \in 1 .. l : File_(j) => \E i \in DOMAIN t.paths : t.paths[i] = args[j]
                  /\ File_(k) => \E i \in DOMAIN t.paths : t.paths[i] = token
    <3>1. \A j \in 1 .. k : j \in 1 .. l \/ j = k
      BY <1>12
    <3> QED
      BY <1>12, <2>6, <3>1 DEF Holds
  <2>13. CASE roles[k] = "value"
    <3>1. IntegerOk(schema.integers, token) /\ t = [s EXCEPT !.pending = FALSE]
      BY <2>7, <2>8, <2>13 DEF AsValue
    <3>2. ~t.pending /\ t.positional = s.positional /\ t.paths = s.paths
      BY <1>12, <3>1 DEF IsScan
    <3>3. ~Pending(k) /\ UpTo(k) = UpTo(l) /\ ~File_(k)
      BY <2>10, <2>11, <2>13 DEF File_
    <3>4. Seen(k)
      BY <1>12, <2>13, <3>1 DEF Seen
    <3> QED
      BY <2>6, <3>2, <3>3, <3>4
  <2>14. CASE roles[k] = "options"
    <3>1. ~s.pending /\ IsFlag(token)
      BY <2>8, <2>9, <2>14
    <3>2. KnownOptions(schema, token) /\ t = [s EXCEPT !.pending = TakesNext(schema, token)]
      BY <2>7, <3>1 DEF AsFlag
    <3> DEFINE takes == TakesNext(schema, token)
    <3>6. t = [s EXCEPT !.pending = takes] /\ takes \in BOOLEAN
      BY <3>2 DEF TakesNext
    <3> HIDE DEF takes
    <3>7. t.pending = takes /\ t.positional = s.positional /\ t.paths = s.paths
      BY <1>12, <3>6 DEF IsScan
    <3>3. (t.pending <=> TakesNext(schema, token)) /\ t.positional = s.positional /\ t.paths = s.paths
      BY <3>7 DEF takes
    <3>4. (Pending(k) <=> TakesNext(schema, token)) /\ UpTo(k) = UpTo(l) /\ ~File_(k)
      BY <2>10, <2>11, <2>14 DEF File_
    <3>5. Seen(k)
      BY <1>12, <2>14, <3>2 DEF Seen
    <3> QED
      BY <2>6, <3>3, <3>4, <3>5
  <2>15. CASE roles[k] = "operand"
    <3>1. ~s.pending /\ ~IsFlag(token)
      BY <2>8, <2>9, <2>15
    <3>2. AsOperand(schema, s, t, token)
      BY <2>7, <3>1
    <3> DEFINE pattern == s.positional < schema.leading /\ ~LooksLikePath(token)
    <3>3. /\ s.positional + 1 <= schema.maxPositional
          /\ IntegerOk(schema.integers, token)
          /\ (s.positional + 1 = 1 /\ schema.choices # {}) => token \in {<<c>> : c \in schema.choices}
          /\ (s.positional + 1 = 1 /\ schema.program) => token \notin RefusedPrograms
          /\ t.pending = s.pending /\ t.positional = s.positional + 1
          /\ t.paths = IF schema.paths /\ ~pattern THEN Append(s.paths, token) ELSE s.paths
      BY <3>2 DEF AsOperand
    <3>4. Place(roles, k) = s.positional + 1 /\ Place(roles, k) - 1 = s.positional
      BY <2>6, <2>10, <2>15
    <3>5. t.positional = UpTo(k) /\ ~t.pending /\ ~Pending(k)
      BY <2>10, <2>11, <2>15, <3>1, <3>3, <3>4
    <3>6. Seen(k)
      <4>1. Place(roles, k) <= schema.maxPositional
        BY <3>3, <3>4
      <4>2. Place(roles, k) = 1 <=> s.positional + 1 = 1
        BY <3>4
      <4> QED
        BY <1>12, <2>15, <3>3, <4>1, <4>2, Zenon DEF Seen
    <3>7. IsPattern(schema, roles, args, k) <=> pattern
      BY <1>12, <3>4 DEF IsPattern
    <3>8. File_(k) <=> schema.paths /\ ~pattern
      BY <2>15, <3>7 DEF File_
    <3>9. /\ \A j \in 1 .. l : File_(j) => \E i \in DOMAIN t.paths : t.paths[i] = args[j]
          /\ File_(k) => \E i \in DOMAIN t.paths : t.paths[i] = token
      <4>1. CASE ~File_(k)
        BY <2>6, <3>3, <3>8, <4>1
      <4>2. CASE File_(k)
        <5>1. t.paths = Append(s.paths, token) /\ IsSeq(s.paths)
          BY <1>12, <3>3, <3>8, <4>2 DEF IsScan
        <5>2. /\ Len(s.paths) \in Nat /\ DOMAIN s.paths = 1 .. Len(s.paths)
              /\ DOMAIN t.paths = 1 .. Len(s.paths) + 1
              /\ \A i \in 1 .. Len(s.paths) : t.paths[i] = s.paths[i]
              /\ t.paths[Len(s.paths) + 1] = token
          BY <5>1, SequenceFacts, Appended
        <5>3. Len(s.paths) + 1 \in DOMAIN t.paths /\ \A i \in DOMAIN s.paths : i \in DOMAIN t.paths /\ t.paths[i] = s.paths[i]
          BY <5>2
        <5> QED
          BY <2>6, <5>2, <5>3, Zenon
      <4> QED
        BY <4>1, <4>2
    <3> QED
      BY <3>5, <3>6, <3>9
  <2> QED
    BY <2>9, <2>13, <2>14, <2>15
<1>8. ASSUME NEW l \in T PROVE l + 1 \in T
  <2>1. SUFFICES ASSUME l + 1 <= n PROVE IsScan(st[l + 1]) /\ (st[l + 1].ok => Holds(st[l + 1], l + 1))
    OBVIOUS
  <2>2. l \in Nat /\ l <= n /\ IsScan(st[l]) /\ (st[l].ok => Holds(st[l], l))
    BY <1>1, <2>1
  <2> QED
    BY <1>12, <2>1, <2>2
<1>9. T = Nat
  <2>1. T \in SUBSET Nat
    OBVIOUS
  <2> HIDE DEF T
  <2> QED
    BY <1>7, <1>8, <2>1, Reached
<1>10. Holds(st[n], n)
  BY <1>1, <1>4, <1>9
<1>11. ASSUME NEW k \in 1 .. n PROVE Seen(k) /\ (File_(k) => ReadableFile(disk, args[k]))
  BY <1>4, <1>10 DEF Holds
<1> QED
  BY <1>1, <1>6, <1>11 DEF Seen, File_

------------------------------------------------------------------------------
(* What the engine answers is a list of words. *)

LEMMA ListedIsSeq ==
  ASSUME NEW n \in Nat, NEW f, f = [k \in 1 .. n |-> f[k]]
  PROVE  IsSeq(f) /\ Len(f) = n
<1> DEFINE S == {f[k] : k \in 1 .. n}
<1>1. \A k \in 1 .. n : f[k] \in S
  OBVIOUS
<1> HIDE DEF S
<1>2. f \in Seq(S) /\ DOMAIN f = 1 .. n
  BY <1>1
<1>3. Len(f) = n
  BY <1>2
<1> QED
  BY <1>2, <1>3, Zenon DEF IsSeq

LEMMA MoreWords ==
  ASSUME NEW words, WordList(words), NEW word, IsSeq(word)
  PROVE  WordList(Append(words, word))
<1>1. /\ IsSeq(words) /\ Len(words) \in Nat /\ DOMAIN words = 1 .. Len(words)
      /\ \A k \in 1 .. Len(words) : IsSeq(words[k])
  BY SequenceFacts DEF WordList
<1>2. /\ IsSeq(Append(words, word)) /\ DOMAIN Append(words, word) = 1 .. Len(words) + 1
      /\ \A i \in 1 .. Len(words) : Append(words, word)[i] = words[i]
      /\ Append(words, word)[Len(words) + 1] = word
  BY <1>1, Appended
<1>3. \A i \in 1 .. Len(words) + 1 : i \in 1 .. Len(words) \/ i = Len(words) + 1
  BY <1>1
<1> QED
  BY <1>1, <1>2, <1>3 DEF WordList

LexModes == {"plain", "comment", "single", "double", "escape", "quotedEscape"}

LexOk(s) ==
  \E m, w, h, ts, o :
     /\ s = [mode |-> m, token |-> w, held |-> h, tokens |-> ts, over |-> o]
     /\ m \in LexModes /\ IsSeq(w) /\ WordList(ts)

LEMMA HeldMoves ==
  ASSUME NEW s, LexOk(s), NEW h2
  PROVE  LexOk([s EXCEPT !.held = h2])
<1>1. PICK m, w, h, ts, o :
        /\ s = [mode |-> m, token |-> w, held |-> h, tokens |-> ts, over |-> o]
        /\ m \in LexModes /\ IsSeq(w) /\ WordList(ts)
  BY DEF LexOk
<1>2. [s EXCEPT !.held = h2] = [mode |-> m, token |-> w, held |-> h2, tokens |-> ts, over |-> o]
  BY <1>1
<1>3. ASSUME NEW t, t = [mode |-> m, token |-> w, held |-> h2, tokens |-> ts, over |-> o]
      PROVE  LexOk(t)
  BY <1>1, <1>3, Zenon DEF LexOk
<1> QED
  BY <1>2, <1>3

LEMMA LexMoves ==
  ASSUME NEW s, LexOk(s), NEW c
  PROVE  /\ \A m \in LexModes : LexOk([s EXCEPT !.mode = m])
         /\ LexOk([s EXCEPT !.held = TRUE])
         /\ LexOk(GiveUp(s)) /\ LexOk(Push(s, c)) /\ LexOk(Flush(s))
         /\ s.mode \in LexModes
<1>1. PICK m, w, h, ts, o :
        /\ s = [mode |-> m, token |-> w, held |-> h, tokens |-> ts, over |-> o]
        /\ m \in LexModes /\ IsSeq(w) /\ WordList(ts)
  BY DEF LexOk
<1>2. ASSUME NEW m2 \in LexModes, NEW w2, IsSeq(w2), NEW h2, NEW ts2, WordList(ts2), NEW o2, NEW t,
             t = [mode |-> m2, token |-> w2, held |-> h2, tokens |-> ts2, over |-> o2]
      PROVE  LexOk(t)
  BY <1>2, Zenon DEF LexOk
<1>3. ASSUME NEW m2 \in LexModes PROVE LexOk([s EXCEPT !.mode = m2])
  <2>1. [s EXCEPT !.mode = m2] = [mode |-> m2, token |-> w, held |-> h, tokens |-> ts, over |-> o]
    BY <1>1
  <2> QED
    BY <1>1, <1>2, <2>1
<1>4. LexOk([s EXCEPT !.held = TRUE])
  BY HeldMoves
<1>5. ASSUME NEW o2 PROVE LexOk([s EXCEPT !.over = o2])
  <2>1. [s EXCEPT !.over = o2] = [mode |-> m, token |-> w, held |-> h, tokens |-> ts, over |-> o2]
    BY <1>1
  <2> QED
    BY <1>1, <1>2, <2>1
<1>6. LexOk([s EXCEPT !.token = Append(s.token, c)])
  <2>1. s.token = w
    BY <1>1
  <2> DEFINE w2 == Append(w, c)
  <2>2. IsSeq(w2)
    BY <1>1, Appended
  <2> HIDE DEF w2
  <2>3. [s EXCEPT !.token = w2] = [mode |-> m, token |-> w2, held |-> h, tokens |-> ts, over |-> o]
    BY <1>1
  <2>4. LexOk([s EXCEPT !.token = w2])
    BY <1>1, <1>2, <2>2, <2>3
  <2> QED
    BY <2>1, <2>4 DEF w2
<1>7. LexOk(Flush(s))
  <2> DEFINE ts2 == Append(ts, w)
             t1 == [s EXCEPT !.tokens = ts2]
             t2 == [t1 EXCEPT !.token = <<>>]
             t3 == [t2 EXCEPT !.held = FALSE]
  <2>1. WordList(ts2)
    BY <1>1, MoreWords
  <2>2. IsSeq(<<>>)
    <3>1. <<>> \in Seq({})
      OBVIOUS
    <3> QED
      BY <3>1 DEF IsSeq
  <2>3. Flush(s) = t3
    BY <1>1 DEF Flush
  <2> HIDE DEF ts2
  <2>4. t1 = [mode |-> m, token |-> w, held |-> h, tokens |-> ts2, over |-> o]
    BY <1>1
  <2> HIDE DEF t1
  <2>5. t2 = [mode |-> m, token |-> <<>>, held |-> h, tokens |-> ts2, over |-> o]
    BY <2>4
  <2> HIDE DEF t2
  <2>6. LexOk(t2)
    BY <1>1, <1>2, <2>1, <2>2, <2>5
  <2>7. LexOk(t3)
    BY <2>6, HeldMoves
  <2> QED
    BY <2>3, <2>7
<1>8. LexOk(GiveUp(s)) /\ LexOk(Push(s, c))
  BY <1>5, <1>6 DEF GiveUp, Push
<1>9. s.mode \in LexModes
  BY <1>1
<1> QED
  BY <1>3, <1>4, <1>7, <1>8, <1>9

LEMMA LexStepOk ==
  ASSUME NEW s, LexOk(s), NEW c PROVE LexOk(LexStep(s, c))
<1>1. ASSUME NEW t, LexOk(t)
      PROVE  /\ \A m \in LexModes : LexOk([t EXCEPT !.mode = m])
             /\ LexOk([t EXCEPT !.held = TRUE])
             /\ LexOk(GiveUp(t)) /\ LexOk(Flush(t)) /\ \A d : LexOk(Push(t, d))
             /\ t.mode \in LexModes
  BY <1>1, LexMoves
<1>2. /\ "plain" \in LexModes /\ "comment" \in LexModes /\ "single" \in LexModes
      /\ "double" \in LexModes /\ "escape" \in LexModes /\ "quotedEscape" \in LexModes
  BY DEF LexModes
<1> DEFINE begun == [s EXCEPT !.held = TRUE]
<1>3. LexOk(begun) /\ \A m \in LexModes : LexOk([begun EXCEPT !.mode = m])
  <2>1. LexOk(begun)
    BY <1>1
  <2> QED
    BY <1>1, <2>1
<1>4. LexOk(InPlain(s, c))
  <2>1. InPlain(s, c) \in {AtBlank(s), [s EXCEPT !.mode = "comment"], GiveUp(s), [begun EXCEPT !.mode = "single"],
                           [begun EXCEPT !.mode = "double"], [begun EXCEPT !.mode = "escape"], Push(begun, c)}
    BY DEF InPlain
  <2>2. LexOk(AtBlank(s))
    BY <1>1 DEF AtBlank
  <2>3. LexOk(GiveUp(s)) /\ LexOk(Push(begun, c)) /\ LexOk([s EXCEPT !.mode = "comment"])
    BY <1>1, <1>2, <1>3, Zenon
  <2>4. /\ LexOk([begun EXCEPT !.mode = "single"]) /\ LexOk([begun EXCEPT !.mode = "double"])
        /\ LexOk([begun EXCEPT !.mode = "escape"])
    BY <1>2, <1>3, Zenon
  <2> QED
    BY ONLY <2>1, <2>2, <2>3, <2>4, Zenon
<1>5. LexOk(InSingle(s, c))
  BY <1>1, <1>2 DEF InSingle
<1>6. LexOk(InDouble(s, c))
  <2>1. InDouble(s, c) \in {[s EXCEPT !.mode = "plain"], [s EXCEPT !.mode = "quotedEscape"], Push(s, c)}
    BY DEF InDouble
  <2>2. LexOk([s EXCEPT !.mode = "plain"]) /\ LexOk([s EXCEPT !.mode = "quotedEscape"]) /\ LexOk(Push(s, c))
    BY <1>1, <1>2, Zenon
  <2> QED
    BY ONLY <2>1, <2>2, Zenon
<1>7. LexOk(AfterBackslash(s, c))
  <2> DEFINE back == [s EXCEPT !.mode = "double"]
  <2>1. AfterBackslash(s, c) \in {back, Push(back, c), Push(Push(back, Backslash), c)}
    BY DEF AfterBackslash
  <2>2. LexOk(back)
    BY <1>1, <1>2
  <2> HIDE DEF back
  <2>3. LexOk(Push(back, Backslash))
    BY <1>1, <2>2
  <2> QED
    BY <1>1, <2>1, <2>2, <2>3
<1>8. LexOk(Push([s EXCEPT !.mode = "plain"], c))
  <2>1. LexOk([s EXCEPT !.mode = "plain"])
    BY <1>1, <1>2
  <2> QED
    BY <1>1, <2>1
<1>9. LexStep(s, c) \in {s, InPlain(s, c), InSingle(s, c), InDouble(s, c), AfterBackslash(s, c),
                         Push([s EXCEPT !.mode = "plain"], c)}
  <2>1. s.mode \in LexModes
    BY <1>1
  <2> QED
    BY <2>1 DEF LexStep, LexModes
<1> QED
  BY <1>4, <1>5, <1>6, <1>7, <1>8, <1>9

LEMMA TokensAreWords ==
  ASSUME NEW line, IsSeq(line) PROVE WordList(Tokenize(line).tokens)
<1> DEFINE n == Len(line)
           st == LexAfter(line)
           T == {k \in Nat : k <= n => LexOk(st[k])}
<1>1. n \in Nat /\ st[0] = LexStart /\ \A k \in 1 .. n : st[k] = LexStep(st[k - 1], line[k])
  BY SequenceFacts, LexSteps
<1>2. IsSeq(<<>>) /\ WordList(<<>>)
  <2>1. <<>> \in Seq({})
    OBVIOUS
  <2> QED
    BY <2>1 DEF IsSeq, WordList
<1>3. LexOk(LexStart)
  <2>1. LexStart = [mode |-> "plain", token |-> <<>>, held |-> FALSE, tokens |-> <<>>, over |-> FALSE]
    BY DEF LexStart
  <2>2. "plain" \in LexModes
    BY DEF LexModes
  <2> QED
    BY <1>2, <2>1, <2>2, Zenon DEF LexOk
<1> HIDE DEF st
<1>4. 0 \in T
  BY <1>1, <1>3
<1>5. ASSUME NEW l \in T PROVE l + 1 \in T
  <2>1. SUFFICES ASSUME l + 1 <= n PROVE LexOk(st[l + 1])
    OBVIOUS
  <2>2. l + 1 \in 1 .. n /\ (l + 1) - 1 = l /\ LexOk(st[l])
    BY <1>1, <2>1
  <2> QED
    BY <1>1, <2>2, LexStepOk
<1>6. T = Nat
  <2>1. T \in SUBSET Nat
    OBVIOUS
  <2> HIDE DEF T
  <2> QED
    BY <1>4, <1>5, <2>1, Reached
<1>7. LexOk(st[n])
  BY <1>1, <1>6
<1>8. PICK m, w, h, ts, o :
        /\ st[n] = [mode |-> m, token |-> w, held |-> h, tokens |-> ts, over |-> o]
        /\ m \in LexModes /\ IsSeq(w) /\ WordList(ts)
  BY <1>7 DEF LexOk
<1>9. Tokenize(line) = LexEnd(st[n], n <= MaxLine)
  BY DEF Tokenize, st
<1>10. Tokenize(line).tokens \in {<<>>, ts, Append(ts, w)}
  BY <1>8, <1>9 DEF LexEnd
<1> QED
  BY <1>2, <1>8, <1>10, MoreWords

LEMMA OrderIsPlaces ==
  ASSUME NEW places, NEW n \in Nat
  PROVE  InOrder(places, n) \in Seq(places \cap (1 .. n))
<1> DEFINE S == places \cap (1 .. n)
           st == InOrderUpTo(places, n)
           T == {k \in Nat : k <= n => st[k] \in Seq(S)}
<1>1. /\ st[0] = <<>>
      /\ \A k \in 1 .. n : st[k] = (IF k \in places THEN Append(st[k - 1], k) ELSE st[k - 1])
  BY OrderSteps
<1>2. InOrder(places, n) = st[n]
  BY DEF InOrder
<1> HIDE DEF st
<1>6. st[0] \in Seq(S)
  <2> HIDE DEF S
  <2>1. <<>> \in Seq(S)
    OBVIOUS
  <2> QED
    BY <1>1, <2>1
<1>3. 0 \in T
  BY <1>6
<1>4. ASSUME NEW l \in T PROVE l + 1 \in T
  <2>1. SUFFICES ASSUME l + 1 <= n PROVE st[l + 1] \in Seq(S)
    OBVIOUS
  <2>2. l + 1 \in 1 .. n /\ (l + 1) - 1 = l /\ st[l] \in Seq(S)
    BY <2>1
  <2>3. st[l + 1] = (IF l + 1 \in places THEN Append(st[l], l + 1) ELSE st[l])
    BY <1>1, <2>2
  <2>4. l + 1 \in places => l + 1 \in S
    BY <2>2
  <2> HIDE DEF S
  <2> QED
    BY <2>2, <2>3, <2>4
<1>5. T = Nat
  <2>1. T \in SUBSET Nat
    OBVIOUS
  <2> HIDE DEF T
  <2> QED
    BY <1>3, <1>4, <2>1, Reached
<1> QED
  BY <1>2, <1>5

LEMMA PickedWords ==
  ASSUME NEW tokens, WordList(tokens), NEW places
  PROVE  WordList(Picked(tokens, places))
<1> DEFINE n == Len(tokens)
           at == InOrder(places, n)
           f == PickedAt(tokens, at)
<1>1. n \in Nat /\ DOMAIN tokens = 1 .. n /\ \A k \in 1 .. n : IsSeq(tokens[k])
  BY SequenceFacts DEF WordList
<1>2. at \in Seq(places \cap (1 .. n))
  BY <1>1, OrderIsPlaces
<1>3. f = [k \in DOMAIN at |-> tokens[at[k]]]
  BY DEF PickedAt
<1>4. Picked(tokens, places) = f
  BY DEF Picked
<1> HIDE DEF f, at, n
<1>5. DOMAIN at = 1 .. Len(at) /\ Len(at) \in Nat /\ \A k \in 1 .. Len(at) : at[k] \in 1 .. n
  BY <1>2
<1>6. f = [k \in 1 .. Len(at) |-> f[k]] /\ \A k \in 1 .. Len(at) : IsSeq(f[k])
  BY <1>1, <1>3, <1>5
<1>7. IsSeq(f) /\ DOMAIN f = 1 .. Len(at)
  BY <1>5, <1>6, ListedIsSeq
<1> QED
  BY <1>4, <1>6, <1>7 DEF WordList

LEMMA PartsAreWords ==
  ASSUME NEW tokens, WordList(tokens), NEW k \in DOMAIN Parts(tokens)
  PROVE  WordList(Parts(tokens)[k])
<1> DEFINE n == Len(tokens)
           cuts == InOrder({i \in DOMAIN tokens : tokens[i] \in {Bar}}, n)
           from == IF k = 1 THEN 1 ELSE cuts[k - 1] + 1
           to == IF k > Len(cuts) THEN n ELSE cuts[k] - 1
           p == SubSeq(tokens, from, to)
<1>1. n \in Nat /\ DOMAIN tokens = 1 .. n /\ \A i \in 1 .. n : IsSeq(tokens[i])
  BY SequenceFacts DEF WordList
<1>2. cuts \in Seq({i \in DOMAIN tokens : tokens[i] \in {Bar}} \cap (1 .. n))
  BY <1>1, OrderIsPlaces
<1>3. k \in 1 .. Len(cuts) + 1 /\ Parts(tokens)[k] = p
  BY DEF Parts, SplitBy, SplitAt
<1> HIDE DEF cuts
<1>4. Len(cuts) \in Nat /\ \A i \in 1 .. Len(cuts) : cuts[i] \in 1 .. n
  BY <1>2
<1>5. from \in 1 .. n + 1
  <2>1. k # 1 => k - 1 \in 1 .. Len(cuts)
    BY <1>3, <1>4
  <2> QED
    BY <1>1, <1>4, <2>1
<1>6. to \in 0 .. n
  <2>1. ~(k > Len(cuts)) => k \in 1 .. Len(cuts)
    BY <1>3, <1>4
  <2> QED
    BY <1>1, <1>4, <2>1
<1>7. PICK S : tokens \in Seq(S)
  BY DEF WordList, IsSeq
<1>8. p = SubSeq(tokens, from, to)
  OBVIOUS
<1> HIDE DEF from, to, p, n
<1>9. \A i \in from .. to : i \in 1 .. n /\ tokens[i] \in S
  BY <1>1, <1>5, <1>6, <1>7
<1>10. from \in Int /\ to \in Int
  BY <1>1, <1>5, <1>6
<1>11. /\ SubSeq(tokens, from, to) \in Seq(S)
       /\ \A i \in 1 .. to - from + 1 : SubSeq(tokens, from, to)[i] = tokens[from + i - 1]
       /\ Len(SubSeq(tokens, from, to)) = IF from <= to THEN to - from + 1 ELSE 0
  BY <1>9, <1>10, SubSeqProperties
<1>12. p \in Seq(S) /\ DOMAIN p = 1 .. Len(p)
  BY <1>8, <1>11
<1>13. ASSUME NEW i \in DOMAIN p PROVE IsSeq(p[i])
  <2>1. i \in 1 .. to - from + 1
    BY <1>8, <1>10, <1>11, <1>12
  <2>2. p[i] = tokens[from + i - 1]
    BY <1>8, <1>11, <2>1
  <2>3. from + i - 1 \in from .. to
    BY <1>10, <2>1
  <2> QED
    BY <1>1, <1>9, <2>2, <2>3
<1> QED
  BY <1>3, <1>12, <1>13 DEF WordList, IsSeq

(* What the engine answers when it is asked about a line.                  *)
AnswerOk(answer) ==
  answer.ok => \A k \in DOMAIN answer.stages :
                  WordList(answer.stages[k].argv) /\ answer.stages[k].argv # <<>>

LEMMA AnswersAreWords ==
  ASSUME NEW line, IsSeq(line) PROVE AnswerOk(ParsePipeline(line))
<1> DEFINE lexed == Tokenize(line)
           parts == Parts(lexed.tokens)
           answer == ParsePipeline(line)
<1>1. WordList(lexed.tokens)
  BY TokensAreWords
<1>2. answer = PipelineOf(parts, lexed.ok)
  BY DEF ParsePipeline, ParsePipelineOf
<1>3. \A k \in DOMAIN parts : WordList(parts[k])
  BY <1>1, PartsAreWords
<1> HIDE DEF parts, lexed
<1>4. SUFFICES ASSUME PipelineOf(parts, lexed.ok).ok,
                      NEW k \in DOMAIN PipelineOf(parts, lexed.ok).stages
               PROVE  /\ WordList(PipelineOf(parts, lexed.ok).stages[k].argv)
                      /\ PipelineOf(parts, lexed.ok).stages[k].argv # <<>>
  BY <1>2 DEF AnswerOk
<1>5. /\ PipelineOf(parts, lexed.ok).stages
           = [i \in DOMAIN parts |->
                StageOf(ArgvOf(parts[i]), RedirectionsOf(parts[i]), i, Len(parts))]
      /\ \A i \in DOMAIN parts : PartOk(parts[i])
  BY <1>4 DEF PipelineOf
<1>6. k \in DOMAIN parts /\ PipelineOf(parts, lexed.ok).stages[k].argv = ArgvOf(parts[k])
  BY <1>4, <1>5 DEF StageOf
<1>7. WordList(ArgvOf(parts[k]))
  BY <1>3, <1>6, PickedWords DEF ArgvOf
<1> QED
  BY <1>5, <1>6, <1>7 DEF PartOk

LEMMA ProfilesAreSeqs ==
  ASSUME NEW command \in Workloads
  PROVE  IsSeq(WORKLOAD_PROFILES[command])
<1> DEFINE P == {<<Duration(10)>>, <<Duration(10), Memory>>, <<Duration(10), FileIO>>,
                 <<Duration(10), Memory, FileIO>>, <<Duration(8), Children>>}
<1>1. WORKLOAD_PROFILES[command] \in P
  <2>1. command \in DOMAIN WORKLOAD_PROFILES
    BY DEF Workloads
  <2> QED
    BY <2>1 DEF WORKLOAD_PROFILES
<1>2. ASSUME NEW a, NEW b, NEW c PROVE IsSeq(<<a>>) /\ IsSeq(<<a, b>>) /\ IsSeq(<<a, b, c>>)
  <2>1. <<a>> \in Seq({a, b, c}) /\ <<a, b>> \in Seq({a, b, c}) /\ <<a, b, c>> \in Seq({a, b, c})
    OBVIOUS
  <2> QED
    BY <2>1 DEF IsSeq
<1> QED
  BY <1>1, <1>2

LEMMA JoinedSeqs ==
  ASSUME NEW s, IsSeq(s), NEW t, IsSeq(t) PROVE IsSeq(s \o t)
<1>1. PICK S, U : s \in Seq(S) /\ t \in Seq(U)
  BY DEF IsSeq
<1>2. s \in Seq(S \cup U) /\ t \in Seq(S \cup U)
  BY <1>1
<1>3. s \o t \in Seq(S \cup U)
  BY <1>2
<1> QED
  BY <1>3 DEF IsSeq

LEMMA TailAfterOne ==
  ASSUME NEW s, IsSeq(s), NEW x PROVE Tail(<<x>> \o s) = s
<1>1. PICK S : s \in Seq(S)
  BY DEF IsSeq
<1>2. s \in Seq(S \cup {x}) /\ x \in S \cup {x}
  BY <1>1
<1>3. <<x>> \o s # <<>> /\ <<x>> \o s \in Seq(S \cup {x}) /\ Len(<<x>> \o s) = Len(s) + 1
  BY <1>2
<1>4. Tail(<<x>> \o s) \in Seq(S \cup {x}) /\ Len(Tail(<<x>> \o s)) = Len(s)
  BY <1>3
<1>5. \A i \in 1 .. Len(s) : Tail(<<x>> \o s)[i] = s[i]
  BY <1>2, <1>3
<1> QED
  BY <1>2, <1>4, <1>5, SeqEqual

LEMMA TailWords ==
  ASSUME NEW words, WordList(words), words # <<>> PROVE WordList(Tail(words))
<1>1. PICK S : words \in Seq(S)
  BY DEF WordList, IsSeq
<1>2. Tail(words) \in Seq(S) /\ Len(Tail(words)) = Len(words) - 1
  BY <1>1
<1>3. \A i \in 1 .. Len(words) - 1 : Tail(words)[i] = words[i + 1]
  BY <1>1
<1>4. \A i \in 1 .. Len(words) : IsSeq(words[i])
  BY <1>1 DEF WordList
<1>5. Len(words) \in Nat /\ DOMAIN Tail(words) = 1 .. Len(words) - 1
  BY <1>1, <1>2
<1>6. \A i \in 1 .. Len(words) - 1 : IsSeq(Tail(words)[i])
  BY <1>3, <1>4, <1>5
<1> QED
  BY <1>2, <1>5, <1>6 DEF WordList, IsSeq

LEMMA WorkloadWords ==
  ASSUME NEW command \in Workloads, NEW args
  PROVE  WordList(MaterializeWorkloadArgv(command, args))
<1> DEFINE profile == WORKLOAD_PROFILES[command]
           value(k) == IF k \in DOMAIN args THEN NumberOf(args[k]) ELSE profile[k].default
           f == MaterializeWorkloadArgv(command, args)
<1>1. Len(profile) \in Nat /\ DOMAIN profile = 1 .. Len(profile)
  BY ProfilesAreSeqs, SequenceFacts
<1>2. f = [k \in DOMAIN profile |-> Decimal(value(k))]
  BY DEF MaterializeWorkloadArgv
<1>3. IsSeq(<<>>) /\ \A x : IsSeq(<<x>>)
  <2>1. <<>> \in Seq({}) /\ \A x : <<x>> \in Seq({x})
    OBVIOUS
  <2> QED
    BY <2>1 DEF IsSeq
<1>4. ASSUME NEW n PROVE IsSeq(Decimal(n))
  <2> DEFINE a == IF n >= 100 THEN <<Digits[(n \div 100) + 1]>> ELSE <<>>
             b == IF n >= 10 THEN <<Digits[((n \div 10) % 10) + 1]>> ELSE <<>>
             c == <<Digits[(n % 10) + 1]>>
  <2>1. IsSeq(a) /\ IsSeq(b) /\ IsSeq(c)
    BY <1>3
  <2>2. Decimal(n) = a \o b \o c
    BY DEF Decimal
  <2> HIDE DEF a, b, c
  <2> QED
    BY <2>1, <2>2, JoinedSeqs
<1> HIDE DEF profile, value, f
<1>5. f = [k \in 1 .. Len(profile) |-> f[k]] /\ \A k \in 1 .. Len(profile) : IsSeq(f[k])
  BY <1>1, <1>2, <1>4
<1>6. IsSeq(f) /\ DOMAIN f = 1 .. Len(profile)
  BY <1>1, <1>5, ListedIsSeq
<1>7. WordList(f)
  BY <1>5, <1>6 DEF WordList
<1> QED
  BY <1>7 DEF f

------------------------------------------------------------------------------
(* What is started. *)

Stands(e, disk) ==
  \A s \in DOMAIN e.stages : FollowsSchema(EntryOf(e.stages[s].name).schema, Tail(e.stages[s].argv), disk)

(* What a step may do to what was started: add an execution that stands.   *)
Grows == started' = started \/ \E e : started' = Append(started, e) /\ Stands(e, files)

LEMMA StartGrows ==
  ASSUME NEW wish, Start(wish), Stands(wish, files) PROVE Grows
<1>1. \/ started' = started
      \/ \E record : started' = Append(started, Execution(wish, record))
  BY Zenon DEF Start
<1>2. ASSUME NEW record PROVE Stands(Execution(wish, record), files)
  <2>1. Execution(wish, record).stages = wish.stages
    BY DEF Execution
  <2> QED
    BY <2>1 DEF Stands
<1> QED
  BY <1>1, <1>2, Zenon DEF Grows

LEMMA WishStands ==
  ASSUME NEW stages, NEW line, NEW redirections, NEW timeout, NEW disk,
         \A k \in DOMAIN stages :
            /\ IsSeq(Tail(stages[k].argv))
            /\ FollowsSchema(EntryOf(stages[k].name).schema, Tail(stages[k].argv), disk)
  PROVE  Stands(Wish(stages, line, redirections, timeout), disk)
<1> DEFINE w == Wish(stages, line, redirections, timeout)
<1>1. DOMAIN w.stages = DOMAIN stages
  BY DEF Wish
<1>2. ASSUME NEW k \in DOMAIN stages
      PROVE  /\ w.stages[k].name = stages[k].name
             /\ w.stages[k].argv = <<stages[k].executable>> \o Tail(stages[k].argv)
  BY DEF Wish
<1> HIDE DEF w
<1>3. ASSUME NEW k \in DOMAIN stages PROVE Tail(w.stages[k].argv) = Tail(stages[k].argv)
  BY <1>2, TailAfterOne
<1>4. Stands(w, disk)
  BY <1>1, <1>2, <1>3 DEF Stands
<1> QED
  BY <1>4 DEF w

LEMMA InspectedGrows ==
  ASSUME Inspected, AnswerOk(asked.answer) PROVE Grows
<1> DEFINE stages == asked.answer.stages
           ok == {k \in DOMAIN stages : StageOk(stages[k])}
           checked == [k \in DOMAIN stages |-> Validated(stages[k])]
<1>1. Judge(stages, ok)
  BY Zenon DEF Inspected
<1>2. ok = DOMAIN stages => \A k \in DOMAIN stages : StageOk(stages[k])
  OBVIOUS
<1>3. /\ DOMAIN checked = DOMAIN stages
      /\ \A k \in DOMAIN stages : checked[k].argv = stages[k].argv /\ checked[k].name = NameOf(stages[k].argv[1])
  BY DEF Validated
<1>4. checked = [k \in DOMAIN stages |-> Validated(stages[k])]
  OBVIOUS
<1> HIDE DEF stages, ok, checked
<1>5. \/ \E status, code : Refuse(status, code)
      \/ started' = started
      \/ asked.answer.ok /\ ok = DOMAIN stages /\ Execute([k \in DOMAIN stages |-> Validated(stages[k])])
  BY <1>1, Zenon DEF Judge
<1>6. ASSUME asked.answer.ok, ok = DOMAIN stages, Execute(checked) PROVE Grows
  <2>1. ASSUME NEW k \in DOMAIN checked
        PROVE  /\ IsSeq(Tail(checked[k].argv))
               /\ FollowsSchema(EntryOf(checked[k].name).schema, Tail(checked[k].argv), files)
    <3>1. k \in DOMAIN stages
      BY <1>3
    <3>2. WordList(stages[k].argv) /\ stages[k].argv # <<>>
      BY <1>6, <3>1 DEF AnswerOk, stages
    <3>3. WordList(Tail(stages[k].argv))
      BY <3>2, TailWords
    <3>4. ValidateArguments(NameOf(stages[k].argv[1]), Tail(stages[k].argv), files)
      BY <1>2, <1>6, <3>1 DEF StageOk
    <3>5. FollowsSchema(EntryOf(NameOf(stages[k].argv[1])).schema, Tail(stages[k].argv), files)
      BY <3>3, <3>4, ValidatedFollows DEF ValidateArguments
    <3> QED
      BY <1>3, <3>1, <3>3, <3>5 DEF WordList
  <2>2. PICK line, redirections, timeout : Start(Wish(checked, line, redirections, timeout))
    BY <1>6, Zenon DEF Execute
  <2>3. Stands(Wish(checked, line, redirections, timeout), files)
    BY <2>1, WishStands
  <2> QED
    BY <2>2, <2>3, StartGrows
<1> QED
  BY <1>4, <1>5, <1>6 DEF Refuse, Grows

LEMMA StructuredGrows ==
  ASSUME Structured, WordList(sent) PROVE Grows
<1>1. PICK command, targets, requested : Create(command, targets, requested)
  BY Zenon DEF Structured
<1> DEFINE probed == ProbeCommand(host, cache, command)
           timeout == Effective(requested, config.defaultTimeout)
           accepted == command \in Workloads => WorkloadArgvOk(command, sent)
           args == IF command \in Workloads /\ accepted THEN MaterializeWorkloadArgv(command, sent) ELSE sent
           stage == [name |-> command, argv |-> <<<<command>>>> \o args, executable |-> probed.path,
                     redirections |-> RedirectionsFor(targets)]
<1>2. \/ \E status, code : Refuse(status, code)
      \/ ValidateArguments(command, args, files) /\ Start(Wish(<<stage>>, <<>>, targets, timeout))
  BY <1>1, Zenon DEF Create
<1>3. WordList(args)
  BY WorkloadWords
<1>4. stage.name = command /\ stage.argv = <<<<command>>>> \o args
  OBVIOUS
<1> HIDE DEF args, stage, timeout
<1>5. ASSUME ValidateArguments(command, args, files), Start(Wish(<<stage>>, <<>>, targets, timeout))
      PROVE  Grows
  <2>1. FollowsSchema(EntryOf(command).schema, args, files)
    BY <1>3, <1>5, ValidatedFollows DEF ValidateArguments
  <2>2. IsSeq(args)
    BY <1>3 DEF WordList
  <2>3. Tail(stage.argv) = args
    BY <1>4, <2>2, TailAfterOne
  <2> DEFINE stages == <<stage>>
  <2>4. \A k \in DOMAIN stages : stages[k] = stage
    OBVIOUS
  <2>5. Start(Wish(stages, <<>>, targets, timeout))
    BY <1>5
  <2> HIDE DEF stages
  <2>6. \A k \in DOMAIN stages :
           /\ IsSeq(Tail(stages[k].argv))
           /\ FollowsSchema(EntryOf(stages[k].name).schema, Tail(stages[k].argv), files)
    BY <1>4, <2>1, <2>2, <2>3, <2>4
  <2>7. Stands(Wish(stages, <<>>, targets, timeout), files)
    BY <2>6, WishStands
  <2> QED
    BY <2>5, <2>7, StartGrows
<1> QED
  BY <1>2, <1>5 DEF Refuse, Grows

------------------------------------------------------------------------------
(* The invariant of the arguments.  What is typed and sent consists of     *)
(* words, the engine's answer of stages of words, and what was started     *)
(* stands as long as the workspace stays as it was.                        *)

ArgumentsInv ==
  /\ IsSeq(typed.line) /\ WordList(sent)
  /\ asked # Nothing => AnswerOk(asked.answer)
  /\ IsSeq(started)
  /\ focus # "host" => \A k \in DOMAIN started : Stands(started[k], files)

LEMMA ArgumentsInit ==
  ASSUME Init PROVE ArgumentsInv
<1>1. <<>> \in Seq({}) /\ IsSeq(<<>>)
  <2>1. <<>> \in Seq({})
    OBVIOUS
  <2> QED
    BY <2>1 DEF IsSeq
<1>2. IsSeq(QuietLine)
  BY AdmissionAssumption DEF IsSeq
<1>3. sent = <<>> /\ started = <<>> /\ asked = Nothing
      /\ typed.line = IF focus = "thermal" THEN QuietLine ELSE <<>>
  BY DEF Init
<1> QED
  BY <1>1, <1>2, <1>3 DEF ArgumentsInv, WordList

(* The words stay words.                                                   *)
LEMMA TypedStays ==
  ASSUME IsSeq(typed.line), WordList(sent), [Next]_vars
  PROVE  IsSeq(typed'.line) /\ WordList(sent')
<1>1. CASE UNCHANGED <<typed, sent>>
  BY <1>1
<1>2. CASE Type
  <2>1. sent' = sent
    BY <1>2 DEF Type
  <2>2. CASE \E seed \in Seeds : typed' = [line |-> seed, pieces |-> 0]
    <3>1. PICK seed \in Seeds : typed' = [line |-> seed, pieces |-> 0]
      BY <2>2
    <3>2. seed \in Seq(STRING)
      BY AdmissionAssumption
    <3> QED
      BY <2>1, <3>1, <3>2 DEF IsSeq
  <2>3. CASE \E piece \in Pieces : typed' = [line |-> typed.line \o piece, pieces |-> typed.pieces + 1]
    <3>1. PICK piece \in Pieces : typed' = [line |-> typed.line \o piece, pieces |-> typed.pieces + 1]
      BY <2>3
    <3>2. piece \in Seq(STRING)
      BY AdmissionAssumption
    <3>3. IsSeq(piece)
      BY <3>2 DEF IsSeq
    <3>4. IsSeq(typed.line \o piece)
      BY <3>3, JoinedSeqs
    <3> QED
      BY <2>1, <3>1, <3>4
  <2> QED
    BY <1>2, <2>2, <2>3 DEF Type
<1>3. CASE Write
  <2>1. typed' = typed
    BY <1>3 DEF Write
  <2>2. PICK token \in Tokens : sent' = Append(sent, token)
    BY <1>3 DEF Write
  <2>3. token \in Seq(STRING)
    BY AdmissionAssumption
  <2>4. IsSeq(token)
    BY <2>3 DEF IsSeq
  <2> QED
    BY <2>1, <2>2, <2>4, MoreWords
<1>4. CASE UNCHANGED vars
  BY <1>1, <1>4 DEF vars
<1>5. Interact \/ Ask \/ InspectFails \/ Inspected => UNCHANGED <<typed, sent>>
  BY DEF Interact, Ask, InspectFails, Inspected
<1>6. Structured \/ ReadCatalog \/ Finish \/ Change => UNCHANGED <<typed, sent>>
  BY DEF Structured, ReadCatalog, Finish, Change
<1> QED
  BY <1>1, <1>2, <1>3, <1>4, <1>5, <1>6 DEF Next

(* Only the question to the engine brings an answer of the engine.         *)
LEMMA AskedMoves ==
  ASSUME [Next]_vars
  PROVE  \/ UNCHANGED asked
         \/ asked' = Nothing
         \/ asked'.answer = ParsePipeline(typed.line)
<1>1. ASSUME Ask PROVE UNCHANGED asked \/ asked'.answer = ParsePipeline(typed.line)
  <2>1. UNCHANGED asked \/ \E route : asked' = [route |-> route, line |-> typed.line, answer |-> ParsePipeline(typed.line)]
    BY <1>1, Zenon DEF Ask
  <2> QED
    BY <2>1
<1>2. UNCHANGED vars => UNCHANGED asked
  BY DEF vars, gateway
<1>3. InspectFails \/ Inspected => asked' = Nothing
  BY DEF InspectFails, Inspected
<1>4. Type \/ Write \/ Interact \/ Structured \/ ReadCatalog \/ Finish \/ Change => UNCHANGED asked
  BY DEF Type, Write, Interact, Structured, ReadCatalog, Finish, Change, gateway
<1> QED
  BY <1>1, <1>2, <1>3, <1>4 DEF Next

LEMMA AskedStays ==
  ASSUME IsSeq(typed.line), asked # Nothing => AnswerOk(asked.answer), [Next]_vars
  PROVE  asked' # Nothing => AnswerOk(asked'.answer)
<1>1. AnswerOk(ParsePipeline(typed.line))
  BY AnswersAreWords
<1> QED
  BY <1>1, AskedMoves

(* The workspace changes only where the host is what the behaviour is      *)
(* about.                                                                  *)
LEMMA FilesStay ==
  ASSUME [Next]_vars PROVE focus' = focus /\ (focus # "host" => files' = files)
<1>1. CASE UNCHANGED vars
  BY <1>1 DEF vars, world
<1>2. Type \/ Write \/ Interact => UNCHANGED <<focus, files>>
  BY DEF Type, Write, Interact, world
<1>3. Ask \/ InspectFails \/ Inspected \/ Structured => UNCHANGED <<focus, files>>
  BY DEF Ask, InspectFails, Inspected, Structured
<1>4. ReadCatalog \/ Finish => UNCHANGED <<focus, files>>
  BY DEF ReadCatalog, Finish, world
<1>5. Change => focus' = focus /\ (focus # "host" => files' = files)
  BY DEF Change
<1> QED
  BY <1>1, <1>2, <1>3, <1>4, <1>5 DEF Next

LEMMA StepGrows ==
  ASSUME WordList(sent), asked # Nothing => AnswerOk(asked.answer), [Next]_vars
  PROVE  Grows
<1>1. CASE UNCHANGED started
  BY <1>1 DEF Grows
<1>2. CASE Inspected
  BY <1>2, InspectedGrows DEF Inspected
<1>3. CASE Structured
  BY <1>3, StructuredGrows
<1>4. CASE UNCHANGED vars
  BY <1>1, <1>4 DEF vars, gateway
<1>5. Type \/ Write \/ Interact \/ ReadCatalog \/ Finish \/ Change => UNCHANGED started
  BY DEF Type, Write, Interact, ReadCatalog, Finish, Change, gateway
<1>6. InspectFails => UNCHANGED started
  BY DEF InspectFails, Refuse
<1>7. Ask => UNCHANGED started
  BY Zenon DEF Ask, Refuse
<1> QED
  BY <1>1, <1>2, <1>3, <1>4, <1>5, <1>6, <1>7 DEF Next

LEMMA ArgumentsStep ==
  ASSUME ArgumentsInv, [Next]_vars PROVE ArgumentsInv'
<1>1. IsSeq(typed'.line) /\ WordList(sent')
  BY TypedStays DEF ArgumentsInv
<1>2. asked' # Nothing => AnswerOk(asked'.answer)
  BY AskedStays DEF ArgumentsInv
<1>3. Grows /\ focus' = focus /\ (focus # "host" => files' = files)
  BY StepGrows, FilesStay DEF ArgumentsInv
<1>4. IsSeq(started) /\ (focus # "host" => \A k \in DOMAIN started : Stands(started[k], files))
  BY DEF ArgumentsInv
<1>5. IsSeq(started') /\ (focus' # "host" => \A k \in DOMAIN started' : Stands(started'[k], files'))
  <2>1. CASE started' = started
    BY <1>3, <1>4, <2>1
  <2>2. ASSUME NEW e, started' = Append(started, e), Stands(e, files)
        PROVE  IsSeq(started') /\ (focus' # "host" => \A k \in DOMAIN started' : Stands(started'[k], files'))
    <3>1. /\ IsSeq(started') /\ Len(started) \in Nat /\ DOMAIN started = 1 .. Len(started)
          /\ DOMAIN started' = 1 .. Len(started) + 1
          /\ \A i \in 1 .. Len(started) : started'[i] = started[i]
          /\ started'[Len(started) + 1] = e
      BY <1>4, <2>2, SequenceFacts, Appended
    <3>2. \A k \in DOMAIN started' : k \in DOMAIN started \/ k = Len(started) + 1
      BY <3>1
    <3> QED
      BY <1>3, <1>4, <2>2, <3>1, <3>2
  <2> QED
    BY <1>3, <2>1, <2>2 DEF Grows
<1> QED
  BY <1>1, <1>2, <1>5 DEF ArgumentsInv

(* Whatever was started, over the terminal or the structured route, has    *)
(* arguments the program reads as the catalogue allows, for every set of   *)
(* lines and arguments, whatever their lengths, and whatever the order of  *)
(* typing, asking and answering (validation.ts:46 validateArguments, with  *)
(* parser.c:274 parser_tokenize before it).                                *)
THEOREM ArgumentsAreFollowed == Spec => []ArgumentsFollowTheSchema
<1>1. Init => ArgumentsInv
  BY ArgumentsInit
<1>2. ArgumentsInv /\ [Next]_vars => ArgumentsInv'
  BY ArgumentsStep
<1>3. ArgumentsInv => ArgumentsFollowTheSchema
  BY DEF ArgumentsInv, ArgumentsFollowTheSchema, Stands
<1> QED
  BY <1>1, <1>2, <1>3, PTL DEF Spec

------------------------------------------------------------------------------
(* The rest of the module is about what runs.  A stage that was checked is *)
(* a list of words: the path of its executable, its arguments, and an      *)
(* operator and a target for every redirection.  Each word is written so   *)
(* that the lexer reads it back (QuoteWrites), and so is a list of them    *)
(* with blanks in between (WordsLexed) and a list of stages with bars in   *)
(* between (LineLexed), which is then split at its bars (PartsOfJoined)    *)
(* and each part into arguments and redirections (StageTaken): a line that *)
(* was written is read as the stages it was written from (ResolvedRuns).   *)
(* What the engine answered fits its limits (AnswersAreTaken), so what is  *)
(* written from the answer does.                                           *)

------------------------------------------------------------------------------
(* Texts that are put together. *)

IsJoin(j, s, t) ==
  /\ IsSeq(j) /\ Len(j) = Len(s) + Len(t)
  /\ Len(s) \in Nat /\ Len(t) \in Nat
  /\ \A i \in 1 .. Len(s) : j[i] = s[i]
  /\ \A i \in 1 .. Len(t) : j[Len(s) + i] = t[i]

LEMMA JoinFacts ==
  ASSUME NEW s, IsSeq(s), NEW t, IsSeq(t) PROVE IsJoin(s \o t, s, t)
<1>1. PICK S, U : s \in Seq(S) /\ t \in Seq(U)
  BY DEF IsSeq
<1>2. s \in Seq(S \cup U) /\ t \in Seq(S \cup U)
  BY <1>1
<1>3. s \o t \in Seq(S \cup U)
  BY <1>2
<1> QED
  BY <1>2, <1>3 DEF IsSeq, IsJoin

LEMMA FlattenSteps ==
  ASSUME NEW seqs, Len(seqs) \in Nat \ {0}
  PROVE  \E r : /\ FlattenSeq(seqs) = r[Len(seqs)]
                /\ r[1] = seqs[1]
                /\ \A k \in 2 .. Len(seqs) : r[k] = r[k - 1] \o seqs[k]
<1> DEFINE m == Len(seqs)
           Step(f, k) == IF k = 1 THEN seqs[k] ELSE f[k - 1] \o seqs[k]
           Is(f, l) == f = [k \in 1 .. l |-> f[k]] /\ \A k \in 1 .. l : f[k] = Step(f, k)
           T == {l \in Nat : \E f : Is(f, l)}
<1>1. 0 \in T
  <2> DEFINE f == [k \in 1 .. 0 |-> seqs]
  <2>1. Is(f, 0)
    OBVIOUS
  <2> QED
    BY <2>1
<1>2. ASSUME NEW l \in T PROVE l + 1 \in T
  <2>1. PICK f : Is(f, l)
    OBVIOUS
  <2> DEFINE last == Step(f, l + 1)
             g == [k \in 1 .. l + 1 |-> IF k = l + 1 THEN last ELSE f[k]]
  <2>2. l \in Nat /\ g = [k \in 1 .. l + 1 |-> g[k]]
    OBVIOUS
  <2>3. \A k \in 1 .. l : g[k] = f[k]
    BY <2>2
  <2>4. g[l + 1] = last
    BY <2>2
  <2> HIDE DEF g, last
  <2>5. ASSUME NEW k \in 1 .. l PROVE g[k] = Step(g, k)
    <3>1. k # 1 => k - 1 \in 1 .. l
      BY <2>2
    <3>2. k # 1 => g[k - 1] = f[k - 1]
      BY <2>3, <3>1
    <3>3. Step(g, k) = Step(f, k)
      BY <3>2
    <3> QED
      BY <2>1, <2>3, <3>3
  <2>6. g[l + 1] = Step(g, l + 1)
    <3>1. (l + 1) - 1 = l /\ (l + 1 # 1 => l \in 1 .. l)
      BY <2>2
    <3>2. l + 1 # 1 => g[l] = f[l]
      BY <2>3, <3>1
    <3>3. Step(g, l + 1) = Step(f, l + 1)
      BY <3>1, <3>2
    <3> QED
      BY <2>4, <3>3 DEF last
  <2> HIDE DEF Step
  <2>7. \A k \in 1 .. l + 1 : k \in 1 .. l \/ k = l + 1
    BY <2>2
  <2>8. Is(g, l + 1)
    BY <2>2, <2>5, <2>6, <2>7
  <2> QED
    BY <2>2, <2>8
<1> HIDE DEF Step, Is
<1>3. T = Nat
  <2>1. T \in SUBSET Nat
    OBVIOUS
  <2> HIDE DEF T
  <2> QED
    BY <1>1, <1>2, <2>1, Reached
<1>4. PICK f : Is(f, m)
  BY <1>3
<1> DEFINE Whole(g) == g = [k \in 1 .. m |-> Step(g, k)]
<1>5. Whole(f)
  <2>1. f = [k \in 1 .. m |-> f[k]] /\ \A k \in 1 .. m : f[k] = Step(f, k)
    BY <1>4 DEF Is
  <2>2. [k \in 1 .. m |-> f[k]] = [k \in 1 .. m |-> Step(f, k)]
    BY <2>1
  <2> QED
    BY <2>1, <2>2
<1> DEFINE r == CHOOSE g : Whole(g)
<1>6. FlattenSeq(seqs) = r[m]
  BY DEF FlattenSeq, Step
<1>7. Whole(r)
  <2> HIDE DEF Whole
  <2> QED
    BY <1>5
<1>8. r = [k \in 1 .. m |-> Step(r, k)]
  BY <1>7
<1> HIDE DEF r
<1>9. \A k \in 1 .. m : r[k] = Step(r, k)
  BY <1>8
<1>10. 1 \in 1 .. m /\ \A k \in 2 .. m : k \in 1 .. m /\ k # 1
  OBVIOUS
<1>11. r[1] = seqs[1] /\ \A k \in 2 .. m : r[k] = r[k - 1] \o seqs[k]
  BY <1>9, <1>10 DEF Step
<1> QED
  BY <1>6, <1>11

(* Where the texts of a list lie when they are written one after the       *)
(* other: text k begins after place off[k - 1].                            *)
Laid(seqs, off) ==
  /\ off[0] = 0
  /\ \A k \in 0 .. Len(seqs) : off[k] \in Nat /\ off[k] <= off[Len(seqs)]
  /\ IsSeq(FlattenSeq(seqs)) /\ Len(FlattenSeq(seqs)) = off[Len(seqs)]
  /\ \A k \in 1 .. Len(seqs) :
        /\ off[k] = off[k - 1] + Len(seqs[k])
        /\ \A i \in 1 .. Len(seqs[k]) : FlattenSeq(seqs)[off[k - 1] + i] = seqs[k][i]

LEMMA FlattenLays ==
  ASSUME NEW seqs, WordList(seqs) PROVE \E off : Laid(seqs, off)
<1> DEFINE n == Len(seqs)
<1>1. n \in Nat /\ DOMAIN seqs = 1 .. n /\ \A k \in 1 .. n : IsSeq(seqs[k]) /\ Len(seqs[k]) \in Nat
  BY SequenceFacts DEF WordList
<1>2. CASE n = 0
  <2>1. FlattenSeq(seqs) = seqs
    BY <1>2 DEF FlattenSeq
  <2> DEFINE off == [k \in {0} |-> 0]
  <2>2. off[0] = 0
    OBVIOUS
  <2> HIDE DEF off
  <2>3. Laid(seqs, off)
    BY <1>1, <1>2, <2>1, <2>2 DEF Laid, WordList
  <2> QED
    BY <2>3
<1>3. CASE n # 0
  <2>1. PICK r : /\ FlattenSeq(seqs) = r[n]
                 /\ r[1] = seqs[1]
                 /\ \A k \in 2 .. n : r[k] = r[k - 1] \o seqs[k]
    BY <1>1, <1>3, FlattenSteps
  <2> DEFINE off == [k \in 0 .. n |-> IF k = 0 THEN 0 ELSE Len(r[k])]
  <2>2. off[0] = 0 /\ \A k \in 1 .. n : off[k] = Len(r[k])
    BY <1>1
  <2> HIDE DEF off
  <2> DEFINE So(k) == /\ IsSeq(r[k]) /\ off[k] \in Nat
                      /\ off[k] = off[k - 1] + Len(seqs[k])
                      /\ \A j \in 1 .. k : /\ off[j] \in Nat /\ off[j - 1] \in Nat
                                           /\ off[j] <= off[k]
                                           /\ off[j] = off[j - 1] + Len(seqs[j])
                                           /\ \A i \in 1 .. Len(seqs[j]) : r[k][off[j - 1] + i] = seqs[j][i]
             T == {l \in Nat : l + 1 <= n => So(l + 1)}
  <2>3. So(1)
    <3>1. 1 \in 1 .. n
      BY <1>1, <1>3
    <3>2. off[1] = Len(seqs[1]) /\ off[1] \in Nat /\ off[1 - 1] = 0 /\ IsSeq(r[1])
      BY <1>1, <2>1, <2>2, <3>1
    <3>3. \A j \in 1 .. 1 : j = 1
      OBVIOUS
    <3>4. \A i \in 1 .. Len(seqs[1]) : r[1][0 + i] = seqs[1][i]
      BY <1>1, <2>1, <3>1
    <3> QED
      BY <3>2, <3>3, <3>4
  <2>4. 0 \in T
    BY <2>3
  <2>5. ASSUME NEW l \in T PROVE l + 1 \in T
    <3>1. SUFFICES ASSUME (l + 1) + 1 <= n PROVE So((l + 1) + 1)
      OBVIOUS
    <3>2. l \in Nat /\ l + 1 <= n /\ So(l + 1)
      BY <1>1, <3>1
    <3> DEFINE k == l + 1
               q == k + 1
    <3>3. k \in 1 .. n /\ q \in 2 .. n /\ q \in 1 .. n /\ q - 1 = k /\ k \in Nat
      BY <1>1, <3>1, <3>2
    <3>4. So(k)
      BY <3>2
    <3> HIDE DEF k, q
    <3>5. r[q] = r[k] \o seqs[q]
      BY <2>1, <3>3
    <3>6. IsSeq(r[k]) /\ IsSeq(seqs[q]) /\ Len(r[k]) = off[k] /\ off[q] = Len(r[q])
      BY <1>1, <2>2, <3>3, <3>4
    <3>7. /\ IsSeq(r[q]) /\ off[q] = off[k] + Len(seqs[q]) /\ off[q] \in Nat /\ Len(seqs[q]) \in Nat
          /\ \A i \in 1 .. off[k] : r[q][i] = r[k][i]
          /\ \A i \in 1 .. Len(seqs[q]) : r[q][off[k] + i] = seqs[q][i]
      <4>1. IsJoin(r[q], r[k], seqs[q])
        BY <3>5, <3>6, JoinFacts
      <4> QED
        BY <3>4, <3>6, <4>1 DEF IsJoin
    <3>8. ASSUME NEW j \in 1 .. q
          PROVE  /\ off[j] \in Nat /\ off[j - 1] \in Nat
                 /\ off[j] <= off[q] /\ off[j] = off[j - 1] + Len(seqs[j])
                 /\ \A i \in 1 .. Len(seqs[j]) : r[q][off[j - 1] + i] = seqs[j][i]
      <4>1. CASE j = q
        BY <3>3, <3>4, <3>7, <4>1
      <4>2. CASE j # q
        <5>1. j \in 1 .. k
          BY <3>3, <4>2
        <5>2. /\ off[j] \in Nat /\ off[j - 1] \in Nat
              /\ off[j] <= off[k] /\ off[j] = off[j - 1] + Len(seqs[j])
              /\ \A i \in 1 .. Len(seqs[j]) : r[k][off[j - 1] + i] = seqs[j][i]
          BY <3>4, <5>1
        <5>3. Len(seqs[j]) \in Nat
          BY <1>1, <3>3, <5>1
        <5>4. off[k] \in Nat
          BY <3>4
        <5>5. \A i \in 1 .. Len(seqs[j]) : off[j - 1] + i \in 1 .. off[k]
          BY <5>2, <5>3, <5>4
        <5>6. \A i \in 1 .. Len(seqs[j]) : r[q][off[j - 1] + i] = seqs[j][i]
          BY <3>7, <5>2, <5>5
        <5>7. off[j] <= off[q]
          BY <3>7, <5>2, <5>4
        <5> QED
          BY <5>2, <5>6, <5>7
      <4> QED
        BY <4>1, <4>2
    <3>9. off[q] = off[q - 1] + Len(seqs[q])
      BY <3>3, <3>7
    <3>10. So(q)
      BY <3>7, <3>8, <3>9
    <3> QED
      BY <3>10 DEF k, q
  <2>6. T = Nat
    <3>1. T \in SUBSET Nat
      OBVIOUS
    <3> HIDE DEF T
    <3> QED
      BY <2>4, <2>5, <3>1, Reached
  <2>7. So(n)
    <3> DEFINE l == n - 1
    <3>1. l \in Nat /\ l + 1 = n /\ l + 1 <= n
      BY <1>1, <1>3
    <3> HIDE DEF l
    <3>2. So(l + 1)
      BY <2>6, <3>1
    <3> QED
      BY <3>1, <3>2
  <2>8. \A k \in 0 .. n : off[k] \in Nat /\ off[k] <= off[n]
    <3>1. \A k \in 0 .. n : k = 0 \/ k \in 1 .. n
      OBVIOUS
    <3> QED
      BY <2>2, <2>7, <3>1
  <2>9. IsSeq(FlattenSeq(seqs)) /\ Len(FlattenSeq(seqs)) = off[n]
    <3>1. n \in 1 .. n
      BY <1>1, <1>3
    <3> QED
      BY <2>1, <2>2, <2>7, <3>1
  <2>10. Laid(seqs, off)
    <3>1. \A k \in 1 .. n : /\ off[k] = off[k - 1] + Len(seqs[k])
                            /\ \A i \in 1 .. Len(seqs[k]) : r[n][off[k - 1] + i] = seqs[k][i]
      BY <2>7
    <3> QED
      BY <2>1, <2>2, <2>8, <2>9, <3>1, Zenon DEF Laid
  <2> QED
    BY <2>10
<1> QED
  BY <1>2, <1>3

(* The same with a text between any two of them: text k begins after       *)
(* place pos[k].                                                           *)
Spread(seqs, between, pos) ==
  /\ pos[1] = 0 /\ IsSeq(Joined(seqs, between))
  /\ \A k \in 1 .. Len(seqs) :
        /\ pos[k] \in Nat /\ pos[k] + Len(seqs[k]) <= Len(Joined(seqs, between))
        /\ \A i \in 1 .. Len(seqs[k]) : Joined(seqs, between)[pos[k] + i] = seqs[k][i]
  /\ pos[Len(seqs)] + Len(seqs[Len(seqs)]) = Len(Joined(seqs, between))
  /\ \A k \in 1 .. Len(seqs) - 1 :
        /\ pos[k + 1] = pos[k] + Len(seqs[k]) + Len(between)
        /\ \A i \in 1 .. Len(between) : Joined(seqs, between)[pos[k] + Len(seqs[k]) + i] = between[i]

LEMMA JoinedSpreads ==
  ASSUME NEW seqs, WordList(seqs), Len(seqs) # 0, NEW between, IsSeq(between)
  PROVE  \E pos : Spread(seqs, between, pos)
<1> DEFINE n == Len(seqs)
           pieces == [k \in DOMAIN seqs |-> IF k = 1 THEN seqs[k] ELSE between \o seqs[k]]
           J == Joined(seqs, between)
           b == Len(between)
<1>1. n \in Nat /\ DOMAIN seqs = 1 .. n /\ \A k \in 1 .. n : IsSeq(seqs[k]) /\ Len(seqs[k]) \in Nat
  BY SequenceFacts DEF WordList
<1>2. /\ pieces = [k \in 1 .. n |-> pieces[k]] /\ pieces[1] = seqs[1]
      /\ \A k \in 2 .. n : pieces[k] = between \o seqs[k]
  BY <1>1
<1>3. J = FlattenSeq(pieces)
  BY DEF Joined
<1> HIDE DEF pieces, J
<1>4. IsSeq(pieces) /\ Len(pieces) = n
  BY <1>1, <1>2, ListedIsSeq
<1>5. ASSUME NEW k \in 1 .. n PROVE IsSeq(pieces[k])
  <2>1. CASE k = 1
    BY <1>1, <1>2, <2>1
  <2>2. CASE k # 1
    <3>1. k \in 2 .. n /\ IsSeq(seqs[k])
      BY <1>1, <2>2
    <3>2. IsSeq(between \o seqs[k])
      BY <3>1, JoinFacts DEF IsJoin
    <3> QED
      BY <1>2, <3>1, <3>2
  <2> QED
    BY <2>1, <2>2
<1>6. WordList(pieces)
  BY <1>1, <1>2, <1>4, <1>5, SequenceFacts DEF WordList
<1>7. PICK off : Laid(pieces, off)
  BY <1>6, FlattenLays
<1>8. /\ off[0] = 0 /\ \A k \in 0 .. n : off[k] \in Nat /\ off[k] <= off[n]
      /\ IsSeq(J) /\ Len(J) = off[n]
      /\ \A k \in 1 .. n : /\ off[k] = off[k - 1] + Len(pieces[k])
                           /\ \A i \in 1 .. Len(pieces[k]) : J[off[k - 1] + i] = pieces[k][i]
  BY <1>3, <1>4, <1>7 DEF Laid
<1> DEFINE pos == [k \in 1 .. n |-> IF k = 1 THEN 0 ELSE off[k - 1] + b]
<1>9. pos[1] = 0 /\ \A k \in 2 .. n : pos[k] = off[k - 1] + b
  BY <1>1
<1> HIDE DEF pos
<1>10. b \in Nat
  BY SequenceFacts
<1>11. ASSUME NEW k \in 1 .. n
       PROVE  /\ pos[k] \in Nat /\ pos[k] + Len(seqs[k]) = off[k] /\ off[k] \in Nat /\ off[k] <= off[n]
              /\ \A i \in 1 .. Len(seqs[k]) : J[pos[k] + i] = seqs[k][i]
  <2>1. off[k] \in Nat /\ off[k] <= off[n] /\ off[k - 1] \in Nat
    BY <1>1, <1>8
  <2>2. CASE k = 1
    BY <1>1, <1>2, <1>8, <1>9, <2>1, <2>2
  <2>3. CASE k # 1
    <3>0. k \in 2 .. n
      BY <1>1, <2>3
    <3>1. k \in 2 .. n /\ pos[k] = off[k - 1] + b /\ pieces[k] = between \o seqs[k]
      BY <1>2, <1>9, <3>0
    <3>2. /\ Len(pieces[k]) = b + Len(seqs[k]) /\ Len(seqs[k]) \in Nat
          /\ \A i \in 1 .. Len(seqs[k]) : pieces[k][b + i] = seqs[k][i]
      <4>1. IsJoin(pieces[k], between, seqs[k])
        BY <1>1, <3>1, JoinFacts
      <4> QED
        BY <4>1 DEF IsJoin
    <3>3. off[k] = off[k - 1] + (b + Len(seqs[k]))
      BY <1>8, <3>2
    <3>4. ASSUME NEW i \in 1 .. Len(seqs[k]) PROVE J[pos[k] + i] = seqs[k][i]
      <4>1. b + i \in 1 .. Len(pieces[k]) /\ pos[k] + i = off[k - 1] + (b + i)
        BY <1>10, <2>1, <3>1, <3>2
      <4> QED
        BY <1>8, <3>2, <4>1
    <3> QED
      BY <1>10, <2>1, <3>1, <3>2, <3>3, <3>4
  <2> QED
    BY <2>2, <2>3
<1>12. ASSUME NEW k \in 1 .. n - 1
       PROVE  /\ pos[k + 1] = pos[k] + Len(seqs[k]) + b
              /\ \A i \in 1 .. b : J[pos[k] + Len(seqs[k]) + i] = between[i]
  <2> DEFINE q == k + 1
  <2>1. k \in 1 .. n /\ q \in 2 .. n /\ q \in 1 .. n /\ q - 1 = k
    BY <1>1
  <2>2. pos[q] = off[k] + b /\ pos[k] + Len(seqs[k]) = off[k] /\ pieces[q] = between \o seqs[q]
    BY <1>2, <1>9, <1>11, <2>1
  <2>3. Len(pieces[q]) = b + Len(seqs[q]) /\ Len(seqs[q]) \in Nat /\ \A i \in 1 .. b : pieces[q][i] = between[i]
    BY <1>1, <2>1, <2>2, JoinFacts DEF IsJoin
  <2>4. \A i \in 1 .. b : i \in 1 .. Len(pieces[q])
    BY <1>10, <2>3
  <2>5. \A i \in 1 .. b : J[off[k] + i] = between[i]
    BY <1>8, <2>1, <2>3, <2>4
  <2> QED
    BY <2>2, <2>5
<1>13. n \in 1 .. n
  BY <1>1
<1>14. Spread(seqs, between, pos)
  BY <1>8, <1>9, <1>11, <1>12, <1>13 DEF Spread, J
<1> QED
  BY <1>14

------------------------------------------------------------------------------
(* How the lexer reads what was written for it. *)

Cut(x, i) == SubSeq(x, 1, i)

LEMMA CutFacts ==
  ASSUME NEW x, IsSeq(x), NEW i \in 0 .. Len(x)
  PROVE  /\ IsSeq(Cut(x, i)) /\ Len(Cut(x, i)) = i
         /\ \A j \in 1 .. i : Cut(x, i)[j] = x[j]
<1>1. PICK S : x \in Seq(S)
  BY DEF IsSeq
<1>2. Len(x) \in Nat /\ \A j \in 1 .. i : x[j] \in S
  BY <1>1
<1>3. 1 \in Int /\ i \in Int /\ \A j \in 1 .. i : x[1 + j - 1] = x[j]
  BY <1>2
<1>4. /\ SubSeq(x, 1, i) \in Seq(S)
      /\ Len(SubSeq(x, 1, i)) = IF 1 <= i THEN i - 1 + 1 ELSE 0
      /\ \A j \in 1 .. i - 1 + 1 : SubSeq(x, 1, i)[j] = x[1 + j - 1]
  BY <1>2, <1>3, SubSeqProperties
<1>5. i - 1 + 1 = i /\ (IF 1 <= i THEN i - 1 + 1 ELSE 0) = i
  BY <1>2
<1> QED
  BY <1>3, <1>4, <1>5 DEF Cut, IsSeq

LEMMA CutGrows ==
  ASSUME NEW x, IsSeq(x)
  PROVE  /\ Cut(x, 0) = <<>> /\ Cut(x, Len(x)) = x
         /\ \A i \in 0 .. Len(x) - 1 : Append(Cut(x, i), x[i + 1]) = Cut(x, i + 1)
<1>1. Len(x) \in Nat /\ DOMAIN x = 1 .. Len(x)
  BY SequenceFacts
<1>2. ASSUME NEW a, NEW b, IsSeq(a), IsSeq(b), Len(a) = Len(b), \A j \in 1 .. Len(a) : a[j] = b[j]
      PROVE  a = b
  <2>1. PICK S, U : a \in Seq(S) /\ b \in Seq(U)
    BY <1>2 DEF IsSeq
  <2>2. a \in Seq(S \cup U) /\ b \in Seq(S \cup U)
    BY <2>1
  <2> QED
    BY <1>2, <2>2, SeqEqual
<1>3. Cut(x, 0) = <<>>
  <2>1. IsSeq(Cut(x, 0)) /\ Len(Cut(x, 0)) = 0
    BY <1>1, CutFacts
  <2> QED
    BY <2>1 DEF IsSeq
<1>4. Cut(x, Len(x)) = x
  <2>1. /\ IsSeq(Cut(x, Len(x))) /\ Len(Cut(x, Len(x))) = Len(x)
        /\ \A j \in 1 .. Len(x) : Cut(x, Len(x))[j] = x[j]
    BY <1>1, CutFacts
  <2> QED
    BY <1>2, <2>1
<1>5. ASSUME NEW i \in 0 .. Len(x) - 1 PROVE Append(Cut(x, i), x[i + 1]) = Cut(x, i + 1)
  <2> DEFINE c == Cut(x, i)
             a == Append(c, x[i + 1])
             b == Cut(x, i + 1)
  <2>1. i \in 0 .. Len(x) /\ i + 1 \in 0 .. Len(x) /\ i \in Nat
    BY <1>1
  <2>2. IsSeq(c) /\ Len(c) = i /\ \A j \in 1 .. i : c[j] = x[j]
    BY <2>1, CutFacts
  <2>3. IsSeq(b) /\ Len(b) = i + 1 /\ \A j \in 1 .. i + 1 : b[j] = x[j]
    BY <2>1, CutFacts
  <2> HIDE DEF b, c
  <2>4. IsSeq(a) /\ Len(a) = i + 1 /\ a[i + 1] = x[i + 1] /\ \A j \in 1 .. i : a[j] = c[j]
    BY <2>2, Appended
  <2> HIDE DEF a
  <2>5. \A j \in 1 .. i + 1 : j \in 1 .. i \/ j = i + 1
    BY <2>1
  <2>6. \A j \in 1 .. i + 1 : a[j] = b[j]
    BY <2>1, <2>2, <2>3, <2>4, <2>5
  <2>7. a = b
    BY <1>2, <2>3, <2>4, <2>6
  <2> QED
    BY <2>7 DEF a, b, c
<1> QED
  BY <1>3, <1>4, <1>5

(* A state of the lexer that has not given the line up.                    *)
On == TRUE
Off == FALSE
Whole(m, w, h, ts, o) == [mode |-> m, token |-> w, held |-> h, tokens |-> ts, over |-> o]
St(m, w, h, ts) == Whole(m, w, h, ts, Off)

WithMode(s, x) == [s EXCEPT !.mode = x]
WithToken(s, x) == [s EXCEPT !.token = x]
WithHeld(s, x) == [s EXCEPT !.held = x]
WithTokens(s, x) == [s EXCEPT !.tokens = x]

LEMMA Changes ==
  ASSUME NEW m, NEW w, NEW h, NEW ts, NEW x
  PROVE  /\ WithMode(St(m, w, h, ts), x) = St(x, w, h, ts)
         /\ WithToken(St(m, w, h, ts), x) = St(m, x, h, ts)
         /\ WithHeld(St(m, w, h, ts), x) = St(m, w, x, ts)
         /\ WithTokens(St(m, w, h, ts), x) = St(m, w, h, x)
<1>1. /\ [Whole(m, w, h, ts, Off) EXCEPT !.mode = x] = Whole(x, w, h, ts, Off)
      /\ [Whole(m, w, h, ts, Off) EXCEPT !.token = x] = Whole(m, x, h, ts, Off)
      /\ [Whole(m, w, h, ts, Off) EXCEPT !.held = x] = Whole(m, w, x, ts, Off)
      /\ [Whole(m, w, h, ts, Off) EXCEPT !.tokens = x] = Whole(m, w, h, x, Off)
  BY DEF Whole
<1> QED
  BY <1>1 DEF St, WithMode, WithToken, WithHeld, WithTokens

LEMMA FieldsOf ==
  ASSUME NEW m, NEW w, NEW h, NEW ts
  PROVE  LET s == St(m, w, h, ts)
         IN  s.mode = m /\ s.token = w /\ s.held = h /\ s.tokens = ts /\ s.over = Off
  BY DEF St, Whole

LEMMA Pushed ==
  ASSUME NEW m, NEW w, NEW h, NEW ts, NEW c, Len(w) \in Nat, Len(w) < MaxToken
  PROVE  Push(St(m, w, h, ts), c) = St(m, Append(w, c), h, ts)
<1>1. MaxToken \in Nat
  BY LimitsAssumption
<1>2. ~(Len(w) >= MaxToken)
  BY <1>1
<1>3. St(m, w, h, ts).token = w
  BY FieldsOf
<1>4. Push(St(m, w, h, ts), c) = WithToken(St(m, w, h, ts), Append(w, c))
  BY <1>2, <1>3 DEF Push, WithToken
<1> QED
  BY <1>4, Changes

(* What a character may be that stands for itself outside of quotes.       *)
Bare(c) == c \notin Blanks /\ c \notin {SingleQuote, DoubleQuote, Backslash, Hash}

LEMMA ReadPlain ==
  ASSUME NEW w, NEW h, NEW ts, Len(ts) \in Nat, Len(ts) < MaxArgs, NEW c, c \notin Blanks \cup {Hash}
  PROVE  LET begun == St("plain", w, On, ts)
         IN  LexStep(St("plain", w, h, ts), c) =
                IF c = SingleQuote THEN WithMode(begun, "single")
                ELSE IF c = DoubleQuote THEN WithMode(begun, "double")
                ELSE IF c = Backslash THEN WithMode(begun, "escape")
                ELSE Push(begun, c)
<1> DEFINE s == St("plain", w, h, ts)
           begun == St("plain", w, On, ts)
<1>1. MaxArgs \in Nat
  BY LimitsAssumption
<1>2. ~(Len(ts) >= MaxArgs)
  BY <1>1
<1>3. s.over = Off /\ s.mode = "plain" /\ s.tokens = ts
  BY FieldsOf
<1>4. WithHeld(s, On) = begun
  BY Changes
<1> HIDE DEF s, begun
<1>5. [s EXCEPT !.held = TRUE] = begun
  BY <1>4 DEF WithHeld, On
<1>6. LexStep(s, c) = InPlain(s, c)
  BY <1>3 DEF LexStep, Off
<1>7. c \notin Blanks /\ c # Hash
  OBVIOUS
<1>8. InPlain(s, c) = IF c = SingleQuote THEN WithMode(begun, "single")
                      ELSE IF c = DoubleQuote THEN WithMode(begun, "double")
                      ELSE IF c = Backslash THEN WithMode(begun, "escape")
                      ELSE Push(begun, c)
  BY <1>2, <1>3, <1>5, <1>7 DEF InPlain, WithMode
<1> QED
  BY <1>6, <1>8 DEF s, begun

LEMMA ReadBare ==
  ASSUME NEW w, NEW h, NEW ts, NEW c, Len(w) \in Nat, Len(w) < MaxToken,
         Len(ts) \in Nat, Len(ts) < MaxArgs, Bare(c)
  PROVE  LexStep(St("plain", w, h, ts), c) = St("plain", Append(w, c), On, ts)
<1>1. LexStep(St("plain", w, h, ts), c) = Push(St("plain", w, On, ts), c)
  BY ReadPlain DEF Bare
<1> QED
  BY <1>1, Pushed

LEMMA ReadOpening ==
  ASSUME NEW w, NEW h, NEW ts, Len(ts) \in Nat, Len(ts) < MaxArgs
  PROVE  LexStep(St("plain", w, h, ts), DoubleQuote) = St("double", w, On, ts)
<1>1. DoubleQuote \notin Blanks \cup {Hash} /\ DoubleQuote # SingleQuote
  BY DEF DoubleQuote, Blanks, Hash, SingleQuote, Space, Newline
<1>2. LexStep(St("plain", w, h, ts), DoubleQuote) = WithMode(St("plain", w, On, ts), "double")
  BY <1>1, ReadPlain
<1> QED
  BY <1>2, Changes

LEMMA ReadDouble ==
  ASSUME NEW w, NEW ts, NEW c
  PROVE  LET s == St("double", w, On, ts)
         IN  LexStep(s, c) = IF c = DoubleQuote THEN WithMode(s, "plain")
                             ELSE IF c = Backslash THEN WithMode(s, "quotedEscape")
                             ELSE Push(s, c)
<1> DEFINE s == St("double", w, On, ts)
<1>1. s.over = Off /\ s.mode = "double"
  BY FieldsOf
<1> HIDE DEF s
<1>2. LexStep(s, c) = InDouble(s, c)
  BY <1>1 DEF LexStep, Off
<1> QED
  BY <1>2 DEF s, InDouble, WithMode

LEMMA ReadInside ==
  ASSUME NEW w, NEW ts, NEW c, Len(w) \in Nat, Len(w) < MaxToken, c \notin {DoubleQuote, Backslash}
  PROVE  LexStep(St("double", w, On, ts), c) = St("double", Append(w, c), On, ts)
<1>1. LexStep(St("double", w, On, ts), c) = Push(St("double", w, On, ts), c)
  BY ReadDouble
<1> QED
  BY <1>1, Pushed

LEMMA ReadClosing ==
  ASSUME NEW w, NEW ts
  PROVE  /\ LexStep(St("double", w, On, ts), DoubleQuote) = St("plain", w, On, ts)
         /\ LexStep(St("double", w, On, ts), Backslash) = St("quotedEscape", w, On, ts)
<1>1. DoubleQuote # Backslash
  BY DEF DoubleQuote, Backslash
<1>2. /\ LexStep(St("double", w, On, ts), DoubleQuote) = WithMode(St("double", w, On, ts), "plain")
      /\ LexStep(St("double", w, On, ts), Backslash) = WithMode(St("double", w, On, ts), "quotedEscape")
  BY <1>1, ReadDouble
<1> QED
  BY <1>2, Changes

LEMMA ReadEscaped ==
  ASSUME NEW w, NEW ts, NEW c, Len(w) \in Nat, Len(w) < MaxToken, c \in EscapedInQuotes \ {Newline}
  PROVE  LexStep(St("quotedEscape", w, On, ts), c) = St("double", Append(w, c), On, ts)
<1> DEFINE s == St("quotedEscape", w, On, ts)
           back == St("double", w, On, ts)
<1>1. s.over = Off /\ s.mode = "quotedEscape"
  BY FieldsOf
<1>2. WithMode(s, "double") = back
  BY Changes
<1>3. Push(back, c) = St("double", Append(w, c), On, ts)
  BY Pushed
<1> HIDE DEF s, back
<1>4. LexStep(s, c) = AfterBackslash(s, c)
  BY <1>1 DEF LexStep, Off
<1>5. AfterBackslash(s, c) = Push(back, c)
  BY <1>2 DEF AfterBackslash, WithMode
<1> QED
  BY <1>3, <1>4, <1>5 DEF s

(* A blank after a word.                                                   *)
LEMMA ReadBlank ==
  ASSUME NEW w, NEW ts
  PROVE  LexStep(St("plain", w, On, ts), Space) =
            IF w # <<>> THEN St("plain", <<>>, Off, Append(ts, w)) ELSE St("plain", <<>>, On, ts)
<1> DEFINE s == St("plain", w, On, ts)
           a == Append(ts, w)
<1>1. s.over = Off /\ s.mode = "plain" /\ s.held = On /\ s.token = w /\ s.tokens = ts
  BY FieldsOf
<1> HIDE DEF a
<1>2. WithHeld(WithToken(WithTokens(s, a), <<>>), Off) = St("plain", <<>>, Off, a)
  BY Changes
<1>3. w = <<>> => s = St("plain", <<>>, On, ts)
  OBVIOUS
<1> HIDE DEF s
<1>4. LexStep(s, Space) = InPlain(s, Space)
  BY <1>1 DEF LexStep, Off
<1>5. InPlain(s, Space) = AtBlank(s)
  BY DEF InPlain, Blanks
<1>6. Flush(s) = WithHeld(WithToken(WithTokens(s, a), <<>>), Off)
  BY <1>1 DEF Flush, a, WithHeld, WithToken, WithTokens, Off
<1>7. AtBlank(s) = IF w # <<>> THEN Flush(s) ELSE s
  BY <1>1 DEF AtBlank, On
<1> QED
  BY <1>2, <1>3, <1>4, <1>5, <1>6, <1>7 DEF s, a

(* A text lies in a line after place p; what it is read as, from a state   *)
(* in which no token has any character yet.                                *)
Lies(line, p, x) == p \in Nat /\ p + Len(x) <= Len(line) /\ \A i \in 1 .. Len(x) : line[p + i] = x[i]

ReadsIn(line, p, h, ts, x, w) ==
  (/\ IsSeq(line) /\ Lies(line, p, x) /\ IsSeq(ts) /\ Len(ts) < MaxArgs
   /\ LexAfter(line)[p] = St("plain", <<>>, h, ts))
  => LexAfter(line)[p + Len(x)] = St("plain", w, On, ts)

Reads(x, w) == \A line, p, h, ts : ReadsIn(line, p, h, ts, x, w)

LEMMA ReadNext ==
  ASSUME NEW line, IsSeq(line), NEW p \in Nat, p < Len(line)
  PROVE  LexAfter(line)[p + 1] = LexStep(LexAfter(line)[p], line[p + 1])
<1>1. Len(line) \in Nat
  BY SequenceFacts
<1>2. \A k \in 1 .. Len(line) : LexAfter(line)[k] = LexStep(LexAfter(line)[k - 1], line[k])
  BY <1>1, LexSteps
<1>3. p + 1 \in 1 .. Len(line) /\ (p + 1) - 1 = p
  BY <1>1
<1> QED
  BY <1>2, <1>3

LEMMA BareReads ==
  ASSUME NEW x, IsSeq(x), Len(x) # 0, Len(x) <= MaxToken, \A i \in 1 .. Len(x) : Bare(x[i])
  PROVE  Reads(x, x)
<1> DEFINE n == Len(x)
<1>1. n \in Nat /\ MaxToken \in Nat
  BY SequenceFacts, LimitsAssumption
<1>2. ASSUME NEW line, NEW p, NEW h, NEW ts, IsSeq(line), Lies(line, p, x), IsSeq(ts), Len(ts) < MaxArgs,
             LexAfter(line)[p] = St("plain", <<>>, h, ts)
      PROVE  LexAfter(line)[p + n] = St("plain", x, On, ts)
  <2> DEFINE held(i) == IF i = 0 THEN h ELSE On
             st == LexAfter(line)
             T == {i \in Nat : i <= n => st[p + i] = St("plain", Cut(x, i), held(i), ts)}
  <2>1. p \in Nat /\ p + n <= Len(line) /\ Len(line) \in Nat /\ Len(ts) \in Nat
    BY <1>2, SequenceFacts DEF Lies
  <2>2. 0 \in T
    <3>1. p + 0 = p /\ Cut(x, 0) = <<>> /\ held(0) = h
      BY <2>1, CutGrows
    <3> QED
      BY <1>2, <3>1
  <2>3. ASSUME NEW i \in T PROVE i + 1 \in T
    <3>1. SUFFICES ASSUME i + 1 <= n PROVE st[p + (i + 1)] = St("plain", Cut(x, i + 1), held(i + 1), ts)
      OBVIOUS
    <3>2. i \in Nat /\ i \in 0 .. n /\ i \in 0 .. n - 1 /\ i + 1 \in 1 .. n /\ i < MaxToken
      BY <1>1, <3>1
    <3>3. st[p + i] = St("plain", Cut(x, i), held(i), ts)
      BY <3>2
    <3>4. p + i \in Nat /\ p + i < Len(line) /\ (p + i) + 1 = p + (i + 1)
      BY <1>1, <2>1, <3>1, <3>2
    <3>5. st[p + (i + 1)] = LexStep(st[p + i], line[p + (i + 1)])
      BY <1>2, <3>4, ReadNext
    <3>6. line[p + (i + 1)] = x[i + 1] /\ Bare(x[i + 1])
      BY <1>2, <3>2 DEF Lies
    <3>7. Len(Cut(x, i)) = i /\ Append(Cut(x, i), x[i + 1]) = Cut(x, i + 1)
      BY <3>2, CutFacts, CutGrows
    <3> HIDE DEF st
    <3>8. LexStep(St("plain", Cut(x, i), held(i), ts), x[i + 1]) = St("plain", Append(Cut(x, i), x[i + 1]), On, ts)
      <4> HIDE DEF held
      <4> QED
        BY <1>2, <2>1, <3>2, <3>6, <3>7, ReadBare
    <3>9. held(i + 1) = On
      BY <3>2
    <3> QED
      BY <3>3, <3>5, <3>6, <3>7, <3>8, <3>9
  <2>4. T = Nat
    <3>1. T \in SUBSET Nat
      OBVIOUS
    <3> HIDE DEF T
    <3> QED
      BY <2>2, <2>3, <3>1, Reached
  <2>5. Cut(x, n) = x /\ held(n) = On
    BY CutGrows
  <2> QED
    BY <1>1, <2>4, <2>5
<1> QED
  BY <1>2 DEF Reads, ReadsIn

LEMMA Places ==
  ASSUME NEW p \in Nat, NEW a \in Nat, NEW m \in Nat, NEW n \in Nat, p + (m + 2) <= n, a + 1 <= m,
         NEW at, at = p + 1 + a
  PROVE  /\ p + 1 + (a + 1) = at + 1 /\ p + 1 + (a + 2) = (at + 1) + 1
         /\ at < n /\ at + 1 \in Nat
BY SMT

LEMMA QuotedReads ==
  ASSUME NEW w, IsSeq(w), Len(w) <= MaxToken
  PROVE  LET x == <<DoubleQuote>> \o Escaped(w) \o <<DoubleQuote>>
         IN  IsSeq(x) /\ Len(x) # 0 /\ Reads(x, w)
<1> DEFINE n == Len(w)
           pieces == [k \in DOMAIN w |->
                        IF w[k] \in EscapedInQuotes \ {Newline} THEN <<Backslash, w[k]>> ELSE <<w[k]>>]
           q == <<DoubleQuote>>
           e == Escaped(w)
           x == q \o e \o q
<1>1. n \in Nat /\ DOMAIN w = 1 .. n /\ MaxToken \in Nat
  BY SequenceFacts, LimitsAssumption
<1>2. /\ pieces = [k \in 1 .. n |-> pieces[k]]
      /\ \A k \in 1 .. n : pieces[k] = IF w[k] \in EscapedInQuotes \ {Newline} THEN <<Backslash, w[k]>>
                                       ELSE <<w[k]>>
  BY <1>1
<1>3. e = FlattenSeq(pieces)
  BY DEF Escaped
<1> HIDE DEF pieces, e
<1>4. IsSeq(pieces) /\ Len(pieces) = n
  BY <1>1, <1>2, ListedIsSeq
<1>5. /\ \A a : IsSeq(<<a>>) /\ Len(<<a>>) = 1 /\ <<a>>[1] = a
      /\ \A a, b : IsSeq(<<a, b>>)
  <2>1. ASSUME NEW a, NEW b PROVE IsSeq(<<a>>) /\ IsSeq(<<a, b>>)
    <3>1. <<a>> \in Seq({a, b}) /\ <<a, b>> \in Seq({a, b})
      OBVIOUS
    <3> QED
      BY <3>1 DEF IsSeq
  <2> QED
    BY <2>1
<1>6. ASSUME NEW k \in 1 .. n PROVE IsSeq(pieces[k])
  <2>1. CASE w[k] \in EscapedInQuotes \ {Newline}
    <3>1. pieces[k] = <<Backslash, w[k]>>
      BY <1>2, <2>1
    <3> QED
      BY <1>5, <3>1
  <2>2. CASE w[k] \notin EscapedInQuotes \ {Newline}
    <3>1. pieces[k] = <<w[k]>>
      BY <1>2, <2>2
    <3> QED
      BY <1>5, <3>1
  <2> QED
    BY <2>1, <2>2
<1>7. WordList(pieces)
  BY <1>1, <1>2, <1>4, <1>6, SequenceFacts DEF WordList
<1>8. PICK off : Laid(pieces, off)
  BY <1>7, FlattenLays
<1>9. /\ off[0] = 0 /\ IsSeq(e) /\ Len(e) = off[n]
      /\ \A k \in 0 .. n : off[k] \in Nat /\ off[k] <= off[n]
      /\ \A k \in 1 .. n : /\ off[k] = off[k - 1] + Len(pieces[k])
                           /\ \A i \in 1 .. Len(pieces[k]) : e[off[k - 1] + i] = pieces[k][i]
  BY <1>3, <1>4, <1>8 DEF Laid
<1>10. IsSeq(q) /\ Len(q) = 1 /\ q[1] = DoubleQuote
  BY <1>5
<1> HIDE DEF q
<1>11. IsJoin(q \o e, q, e)
  BY <1>9, <1>10, JoinFacts
<1>12. IsJoin(x, q \o e, q)
  <2> DEFINE y == q \o e
  <2>1. IsSeq(y)
    BY <1>11 DEF IsJoin
  <2> HIDE DEF y
  <2>2. IsJoin(y \o q, y, q)
    BY <1>10, <2>1, JoinFacts
  <2> QED
    BY <2>2 DEF y
<1> HIDE DEF x
<1>13. off[n] \in Nat
  BY <1>1, <1>9
<1>14. /\ IsSeq(x) /\ Len(x) = off[n] + 2 /\ x[1] = DoubleQuote
       /\ \A i \in 1 .. off[n] : x[1 + i] = e[i]
       /\ x[off[n] + 2] = DoubleQuote
  <2>1. /\ IsSeq(q \o e) /\ Len(q \o e) = 1 + off[n] /\ (q \o e)[1] = DoubleQuote
        /\ \A i \in 1 .. off[n] : (q \o e)[1 + i] = e[i]
    BY <1>9, <1>10, <1>11, <1>13 DEF IsJoin
  <2>2. /\ IsSeq(x) /\ Len(x) = (1 + off[n]) + 1
        /\ \A i \in 1 .. 1 + off[n] : x[i] = (q \o e)[i]
        /\ x[(1 + off[n]) + 1] = DoubleQuote
    BY <1>10, <1>12, <2>1 DEF IsJoin
  <2>3. 1 \in 1 .. 1 + off[n] /\ \A i \in 1 .. off[n] : 1 + i \in 1 .. 1 + off[n]
    BY <1>13
  <2>4. (1 + off[n]) + 1 = off[n] + 2
    BY <1>13
  <2> QED
    BY <2>1, <2>2, <2>3, <2>4
<1>15. ASSUME NEW line, NEW p, NEW h, NEW ts, IsSeq(line), Lies(line, p, x), IsSeq(ts), Len(ts) < MaxArgs,
              LexAfter(line)[p] = St("plain", <<>>, h, ts)
       PROVE  LexAfter(line)[p + Len(x)] = St("plain", w, On, ts)
  <2> DEFINE st == LexAfter(line)
             at(k) == p + 1 + off[k]
             T == {k \in Nat : k <= n => st[at(k)] = St("double", Cut(w, k), On, ts)}
  <2>1. p \in Nat /\ p + (off[n] + 2) <= Len(line) /\ Len(line) \in Nat /\ Len(ts) \in Nat
    BY <1>14, <1>15, SequenceFacts DEF Lies
  <2>2. /\ \A i \in 1 .. off[n] : line[p + 1 + i] = e[i]
        /\ line[p + 1] = DoubleQuote /\ line[p + (off[n] + 2)] = DoubleQuote
    <3>1. \A i \in 1 .. off[n] + 2 : line[p + i] = x[i]
      BY <1>14, <1>15 DEF Lies
    <3>2. /\ 1 \in 1 .. off[n] + 2 /\ off[n] + 2 \in 1 .. off[n] + 2
          /\ \A i \in 1 .. off[n] : 1 + i \in 1 .. off[n] + 2 /\ p + (1 + i) = p + 1 + i
      BY <1>13, <2>1
    <3> QED
      BY <1>14, <3>1, <3>2
  <2>3. 0 \in T
    <3>1. p < Len(line) /\ at(0) = p + 1
      BY <1>9, <1>13, <2>1
    <3>2. st[p + 1] = LexStep(St("plain", <<>>, h, ts), DoubleQuote)
      BY <1>15, <2>1, <2>2, <3>1, ReadNext
    <3>3. st[p + 1] = St("double", <<>>, On, ts)
      BY <1>15, <2>1, <3>2, ReadOpening
    <3> QED
      BY <3>1, <3>3, CutGrows
  <2>4. ASSUME NEW j \in T PROVE j + 1 \in T
    <3> DEFINE k == j + 1
               c == w[k]
               piece == pieces[k]
    <3>1. SUFFICES ASSUME k <= n PROVE st[at(k)] = St("double", Cut(w, k), On, ts)
      OBVIOUS
    <3>2. j \in Nat /\ j \in 0 .. n /\ j \in 0 .. n - 1 /\ k \in 1 .. n /\ k \in 0 .. n /\ j < MaxToken /\ k - 1 = j
      BY <1>1, <3>1
    <3>3. st[at(j)] = St("double", Cut(w, j), On, ts)
      BY <3>2
    <3>4. Len(Cut(w, j)) = j /\ Append(Cut(w, j), c) = Cut(w, k)
      BY <3>2, CutFacts, CutGrows
    <3>5. /\ off[j] \in Nat /\ off[k] \in Nat /\ off[k] <= off[n] /\ off[k] = off[j] + Len(piece)
          /\ \A i \in 1 .. Len(piece) : e[off[j] + i] = piece[i]
      BY <1>9, <3>2
    <3>6. at(j) \in Nat /\ at(j) = p + 1 + off[j] /\ at(k) = p + 1 + off[k]
      BY <2>1, <3>5
    <3> HIDE DEF st, k, c, at
    <3>7. CASE c \in EscapedInQuotes \ {Newline}
      <4>1. piece = <<Backslash, c>>
        BY <1>2, <3>2, <3>7 DEF c
      <4>2. Len(piece) = 2 /\ piece[1] = Backslash /\ piece[2] = c
        BY <4>1
      <4>3. off[k] = off[j] + 2 /\ e[off[j] + 1] = Backslash /\ e[off[j] + 2] = c
        BY <3>5, <4>2
      <4>4. off[j] + 1 \in 1 .. off[n] /\ off[j] + 2 \in 1 .. off[n]
        BY <1>13, <3>5, <4>3
      <4>5. line[p + 1 + (off[j] + 1)] = Backslash /\ line[p + 1 + (off[j] + 2)] = c
        BY <2>2, <4>3, <4>4
      <4>6. /\ p + 1 + (off[j] + 1) = at(j) + 1 /\ p + 1 + (off[j] + 2) = (at(j) + 1) + 1
            /\ at(k) = (at(j) + 1) + 1 /\ at(j) + 1 < Len(line) /\ at(j) < Len(line) /\ at(j) + 1 \in Nat
        <5>1. off[j] + 2 <= off[n] /\ off[j] + 1 <= off[n]
          BY <1>13, <3>5, <4>3
        <5>2. at(j) = p + 1 + off[j] /\ at(k) = p + 1 + (off[j] + 2)
          BY <3>6, <4>3
        <5>3. off[j] \in Nat /\ off[n] \in Nat
          BY <1>13, <3>5
        <5> DEFINE z == at(j)
        <5>4. z = p + 1 + off[j]
          BY <5>2
        <5> HIDE DEF z
        <5> DEFINE m == off[n]
                   a == off[j]
                   l == Len(line)
        <5>5. /\ p + 1 + (a + 1) = z + 1 /\ p + 1 + (a + 2) = (z + 1) + 1
              /\ z < l /\ z + 1 \in Nat /\ z + 1 < l
          <6>1. m \in Nat /\ a \in Nat /\ l \in Nat /\ p \in Nat /\ p + (m + 2) <= l /\ a + 2 <= m /\ z = p + 1 + a
            BY <2>1, <5>1, <5>3, <5>4
          <6> HIDE DEF m, a, l
          <6> QED
            BY <6>1
        <5>6. at(k) = (z + 1) + 1
          BY <5>2, <5>5
        <5> QED
          BY <5>5, <5>6 DEF z
      <4>7. st[at(j) + 1] = LexStep(st[at(j)], Backslash)
        BY <1>15, <3>6, <4>5, <4>6, ReadNext DEF st
      <4>8. st[at(j) + 1] = St("quotedEscape", Cut(w, j), On, ts)
        BY <3>3, <4>7, ReadClosing
      <4>9. st[at(k)] = LexStep(st[at(j) + 1], c)
        BY <1>15, <4>5, <4>6, ReadNext DEF st
      <4>10. st[at(k)] = St("double", Append(Cut(w, j), c), On, ts)
        BY <3>2, <3>4, <3>7, <4>8, <4>9, ReadEscaped
      <4> QED
        BY <3>4, <4>10
    <3>8. CASE c \notin EscapedInQuotes \ {Newline}
      <4>1. piece = <<c>>
        BY <1>2, <3>2, <3>8 DEF c
      <4>2. Len(piece) = 1 /\ piece[1] = c
        BY <4>1
      <4>3. off[k] = off[j] + 1 /\ e[off[j] + 1] = c
        BY <3>5, <4>2
      <4>4. off[j] + 1 \in 1 .. off[n]
        BY <1>13, <3>5, <4>3
      <4>5. line[p + 1 + (off[j] + 1)] = c
        BY <2>2, <4>3, <4>4
      <4>6. p + 1 + (off[j] + 1) = at(j) + 1 /\ at(k) = at(j) + 1 /\ at(j) < Len(line)
        <5>1. off[j] + 1 <= off[n]
          BY <3>5, <4>3
        <5>2. at(j) = p + 1 + off[j] /\ at(k) = p + 1 + (off[j] + 1)
          BY <3>6, <4>3
        <5>3. off[j] \in Nat /\ off[n] \in Nat
          BY <1>13, <3>5
        <5> QED
          BY <2>1, <5>1, <5>2, <5>3, Places
      <4>7. st[at(k)] = LexStep(st[at(j)], c)
        BY <1>15, <3>6, <4>5, <4>6, ReadNext DEF st
      <4>8. c \notin {DoubleQuote, Backslash}
        <5>1. DoubleQuote # Newline /\ Backslash # Newline
          BY DEF DoubleQuote, Backslash, Newline
        <5> QED
          BY <3>8, <5>1 DEF EscapedInQuotes
      <4>9. st[at(k)] = St("double", Append(Cut(w, j), c), On, ts)
        BY <3>2, <3>3, <3>4, <4>7, <4>8, ReadInside
      <4> QED
        BY <3>4, <4>9
    <3> QED
      BY <3>7, <3>8
  <2>5. T = Nat
    <3>1. T \in SUBSET Nat
      OBVIOUS
    <3> HIDE DEF T
    <3> QED
      BY <2>3, <2>4, <3>1, Reached
  <2>6. st[at(n)] = St("double", w, On, ts)
    <3>1. n \in T /\ Cut(w, n) = w
      BY <1>1, <2>5, CutGrows
    <3> QED
      BY <1>1, <3>1
  <2>7. /\ at(n) \in Nat /\ at(n) < Len(line)
        /\ at(n) + 1 = p + (off[n] + 2)
    BY <1>13, <2>1
  <2>8. st[p + (off[n] + 2)] = LexStep(st[at(n)], DoubleQuote)
    BY <1>15, <2>2, <2>7, ReadNext
  <2>9. st[p + (off[n] + 2)] = St("plain", w, On, ts)
    BY <2>6, <2>8, ReadClosing
  <2> QED
    BY <1>14, <2>9
<1>16. Len(x) # 0
  BY <1>13, <1>14
<1> QED
  BY <1>14, <1>15, <1>16 DEF Reads, ReadsIn, x, e, q

(* What quoteForLexer makes of a token is read as that token; operators    *)
(* and bars are read as themselves.                                        *)
Written(x, w) == IsSeq(x) /\ Len(x) # 0 /\ Reads(x, w)

LEMMA QuoteWrites ==
  ASSUME NEW w, IsSeq(w), Len(w) <= MaxToken PROVE Written(QuoteForLexer(w), w)
<1>1. Len(w) \in Nat /\ DOMAIN w = 1 .. Len(w)
  BY SequenceFacts
<1>2. CASE w # <<>> /\ \A k \in DOMAIN w : w[k] \notin Unsafe
  <2>1. QuoteForLexer(w) = w
    BY <1>2 DEF QuoteForLexer
  <2>2. Len(w) # 0
    BY <1>1, <1>2 DEF IsSeq
  <2>3. \A c : c \notin Unsafe => Bare(c)
    BY DEF Unsafe, Bare, EscapedInQuotes
  <2>4. \A i \in 1 .. Len(w) : Bare(w[i])
    BY <1>1, <1>2, <2>3
  <2> QED
    BY <2>1, <2>2, <2>4, BareReads DEF Written
<1>3. CASE ~(w # <<>> /\ \A k \in DOMAIN w : w[k] \notin Unsafe)
  <2>1. QuoteForLexer(w) = <<DoubleQuote>> \o Escaped(w) \o <<DoubleQuote>>
    BY <1>3 DEF QuoteForLexer
  <2> QED
    BY <2>1, QuotedReads DEF Written
<1> QED
  BY <1>2, <1>3

LEMMA OperatorsWrite ==
  ASSUME NEW op \in Operators \cup {Bar} PROVE Written(op, op)
<1>1. MaxToken \in Nat /\ 4 <= MaxToken
  BY LimitsAssumption, AdmissionAssumption
<1> DEFINE C == {"<", ">", "2", "|"}
<1>2. op \in Seq(C) /\ Len(op) # 0 /\ Len(op) <= 3
  <2>1. ASSUME NEW a \in C PROVE <<a>> \in Seq(C) /\ Len(<<a>>) = 1
    <3> HIDE DEF C
    <3> QED
      OBVIOUS
  <2>2. ASSUME NEW a \in C, NEW b \in C PROVE <<a, b>> \in Seq(C) /\ Len(<<a, b>>) = 2
    <3> HIDE DEF C
    <3> QED
      OBVIOUS
  <2>3. ASSUME NEW a \in C, NEW b \in C, NEW c \in C PROVE <<a, b, c>> \in Seq(C) /\ Len(<<a, b, c>>) = 3
    <3> HIDE DEF C
    <3> QED
      OBVIOUS
  <2>4. "<" \in C /\ ">" \in C /\ "2" \in C /\ "|" \in C
    OBVIOUS
  <2> DEFINE Good(x) == x \in Seq(C) /\ Len(x) # 0 /\ Len(x) <= 3
  <2> HIDE DEF C
  <2>5. Good(<<"<">>) /\ Good(<<">">>) /\ Good(<<"|">>)
    BY <2>1, <2>4
  <2>6. Good(<<">", ">">>) /\ Good(<<"2", ">">>)
    BY <2>2, <2>4
  <2>7. Good(<<"2", ">", ">">>)
    BY <2>3, <2>4
  <2> HIDE DEF Good
  <2>8. Good(op)
    BY <2>5, <2>6, <2>7, Zenon DEF Operators, Bar
  <2> QED
    BY <2>8 DEF Good
<1>3. \A c \in C : Bare(c)
  BY DEF Bare, Blanks, Space, Newline, SingleQuote, DoubleQuote, Backslash, Hash
<1>4. IsSeq(op) /\ Len(op) \in Nat /\ \A i \in 1 .. Len(op) : op[i] \in C
  BY <1>2 DEF IsSeq
<1>5. Len(op) <= MaxToken
  BY <1>1, <1>2, <1>4
<1>6. \A i \in 1 .. Len(op) : Bare(op[i])
  BY <1>3, <1>4
<1> QED
  BY <1>2, <1>4, <1>5, <1>6, BareReads DEF Written

------------------------------------------------------------------------------
(* Lists of words without the empty ones. *)

LEMMA SameSeq ==
  ASSUME NEW a, NEW b, IsSeq(a), IsSeq(b), Len(a) = Len(b), \A j \in 1 .. Len(a) : a[j] = b[j]
  PROVE  a = b
<1>1. PICK S, U : a \in Seq(S) /\ b \in Seq(U)
  BY DEF IsSeq
<1>2. a \in Seq(S \cup U) /\ b \in Seq(S \cup U)
  BY <1>1
<1> QED
  BY <1>2, SeqEqual

LEMMA EmptyFacts ==
  /\ IsSeq(<<>>) /\ Len(<<>>) = 0
  /\ \A s : IsSeq(s) => (Len(s) = 0 <=> s = <<>>)
  /\ \A x : IsSeq(<<x>>) /\ Len(<<x>>) = 1 /\ <<x>>[1] = x /\ <<x>> # <<>>
<1>1. <<>> \in Seq({}) /\ Len(<<>>) = 0
  OBVIOUS
<1>2. IsSeq(<<>>)
  BY <1>1 DEF IsSeq
<1>3. ASSUME NEW s, IsSeq(s) PROVE Len(s) = 0 <=> s = <<>>
  BY <1>3 DEF IsSeq
<1>4. ASSUME NEW x PROVE IsSeq(<<x>>) /\ Len(<<x>>) = 1 /\ <<x>>[1] = x /\ <<x>> # <<>>
  <2>1. <<x>> \in Seq({x}) /\ Len(<<x>>) = 1 /\ <<x>>[1] = x /\ <<x>> # <<>>
    OBVIOUS
  <2>2. IsSeq(<<x>>)
    BY <2>1 DEF IsSeq
  <2> QED
    BY <2>1, <2>2
<1> QED
  BY <1>1, <1>2, <1>3, <1>4

LEMMA JoinAssoc ==
  ASSUME NEW s, IsSeq(s), NEW t, IsSeq(t), NEW u, IsSeq(u)
  PROVE  (s \o t) \o u = s \o (t \o u)
<1>1. PICK S, T, U : s \in Seq(S) /\ t \in Seq(T) /\ u \in Seq(U)
  BY DEF IsSeq
<1> DEFINE A == S \cup T \cup U
<1>2. s \in Seq(A) /\ t \in Seq(A) /\ u \in Seq(A)
  BY <1>1
<1> HIDE DEF A
<1>3. s \o t \in Seq(A) /\ t \o u \in Seq(A) /\ (s \o t) \o u \in Seq(A) /\ s \o (t \o u) \in Seq(A)
  BY <1>2
<1>4. Len((s \o t) \o u) = Len(s \o (t \o u))
  BY <1>2, <1>3
<1>5. ASSUME NEW i \in 1 .. Len((s \o t) \o u) PROVE ((s \o t) \o u)[i] = (s \o (t \o u))[i]
  BY <1>2, <1>3
<1> QED
  BY <1>3, <1>4, <1>5, SeqEqual

LEMMA JoinRules ==
  ASSUME NEW s, IsSeq(s), NEW t, IsSeq(t), NEW x
  PROVE  /\ s \o Append(t, x) = Append(s \o t, x)
         /\ s \o <<>> = s /\ <<>> \o s = s
         /\ Append(s, x) = s \o <<x>>
<1>1. PICK S, T : s \in Seq(S) /\ t \in Seq(T)
  BY DEF IsSeq
<1> DEFINE A == S \cup T \cup {x}
<1>2. s \in Seq(A) /\ t \in Seq(A) /\ x \in A
  BY <1>1
<1> HIDE DEF A
<1>4. s \o Append(t, x) = Append(s \o t, x)
  <2>1. s \o t \in Seq(A) /\ Append(t, x) \in Seq(A) /\ s \o Append(t, x) \in Seq(A) /\ Append(s \o t, x) \in Seq(A)
    BY <1>2
  <2>2. Len(s \o Append(t, x)) = Len(Append(s \o t, x))
    BY <1>2, <2>1
  <2>3. ASSUME NEW i \in 1 .. Len(s \o Append(t, x)) PROVE (s \o Append(t, x))[i] = Append(s \o t, x)[i]
    BY <1>2, <2>1
  <2> QED
    BY <2>1, <2>2, <2>3, SeqEqual
<1>5. s \o <<>> = s /\ <<>> \o s = s
  BY <1>2
<1>6. Append(s, x) = s \o <<x>>
  <2>1. Append(s, x) \in Seq(A) /\ s \o <<x>> \in Seq(A)
    BY <1>2
  <2>2. Len(s \o <<x>>) = Len(Append(s, x))
    BY <1>2, <2>1
  <2>3. ASSUME NEW i \in 1 .. Len(Append(s, x)) PROVE Append(s, x)[i] = (s \o <<x>>)[i]
    BY <1>2, <2>1
  <2> QED
    BY <2>1, <2>2, <2>3, SeqEqual
<1> QED
  BY <1>4, <1>5, <1>6

(* The first places depend on nothing that comes after them.               *)
LEMMA OrderAgrees ==
  ASSUME NEW P, NEW Q, NEW m \in Nat, NEW n \in Nat, NEW l \in Nat, l <= m, l <= n,
         \A i \in 1 .. l : i \in P <=> i \in Q
  PROVE  InOrderUpTo(P, m)[l] = InOrderUpTo(Q, n)[l]
<1> DEFINE a == InOrderUpTo(P, m)
           b == InOrderUpTo(Q, n)
           T == {k \in Nat : k <= l => a[k] = b[k]}
<1>1. /\ a[0] = <<>>
      /\ \A k \in 1 .. m : a[k] = (IF k \in P THEN Append(a[k - 1], k) ELSE a[k - 1])
  BY OrderSteps
<1>2. /\ b[0] = <<>>
      /\ \A k \in 1 .. n : b[k] = (IF k \in Q THEN Append(b[k - 1], k) ELSE b[k - 1])
  BY OrderSteps
<1> HIDE DEF a, b
<1>3. 0 \in T
  BY <1>1, <1>2
<1>4. ASSUME NEW k \in T PROVE k + 1 \in T
  <2>1. SUFFICES ASSUME k + 1 <= l PROVE a[k + 1] = b[k + 1]
    OBVIOUS
  <2>2. k + 1 \in 1 .. m /\ k + 1 \in 1 .. n /\ k + 1 \in 1 .. l /\ (k + 1) - 1 = k /\ a[k] = b[k]
    BY <2>1
  <2> QED
    BY <1>1, <1>2, <2>2
<1>5. T = Nat
  <2>1. T \in SUBSET Nat
    OBVIOUS
  <2> HIDE DEF T
  <2> QED
    BY <1>3, <1>4, <2>1, Reached
<1>6. a[l] = b[l]
  BY <1>5
<1> QED
  BY <1>6 DEF a, b

LEMMA NoEmptyIsWords ==
  ASSUME NEW words, WordList(words) PROVE WordList(NoEmpty(words))
BY PickedWords DEF NoEmpty

LEMMA NoEmptySteps ==
  /\ NoEmpty(<<>>) = <<>>
  /\ \A words, x : IsSeq(words) => NoEmpty(Append(words, x)) = IF x # <<>> THEN Append(NoEmpty(words), x)
                                                              ELSE NoEmpty(words)
<1>1. NoEmpty(<<>>) = <<>>
  <2> DEFINE P == {k \in DOMAIN <<>> : <<>>[k] # <<>>}
             at == InOrder(P, 0)
  <2>1. Len(<<>>) = 0 /\ NoEmpty(<<>>) = PickedAt(<<>>, at)
    BY DEF NoEmpty, Picked
  <2>2. at = InOrderUpTo(P, 0)[0]
    BY DEF InOrder
  <2>3. InOrderUpTo(P, 0)[0] = <<>>
    <3> HIDE DEF P
    <3> QED
      BY OrderSteps
  <2> HIDE DEF at
  <2>4. PickedAt(<<>>, at) = <<>>
    BY <2>2, <2>3 DEF PickedAt
  <2> QED
    BY <2>1, <2>4
<1>2. ASSUME NEW words, NEW x, IsSeq(words)
      PROVE  NoEmpty(Append(words, x)) = IF x # <<>> THEN Append(NoEmpty(words), x) ELSE NoEmpty(words)
  <2> DEFINE n == Len(words)
             w == Append(words, x)
             P == {k \in DOMAIN words : words[k] # <<>>}
             Q == {k \in DOMAIN w : w[k] # <<>>}
             at == InOrderUpTo(P, n)[n]
             bt == InOrderUpTo(Q, n + 1)
  <2>1. /\ n \in Nat /\ DOMAIN words = 1 .. n /\ Len(w) = n + 1 /\ DOMAIN w = 1 .. n + 1
        /\ \A i \in 1 .. n : w[i] = words[i]
        /\ w[n + 1] = x
    BY <1>2, SequenceFacts, Appended
  <2>2. NoEmpty(words) = PickedAt(words, at) /\ NoEmpty(w) = PickedAt(w, bt[n + 1])
    BY <2>1 DEF NoEmpty, Picked, InOrder
  <2> HIDE DEF w
  <2>3. bt[n + 1] = (IF n + 1 \in Q THEN Append(bt[n], n + 1) ELSE bt[n])
    <3>1. n + 1 \in 1 .. n + 1 /\ (n + 1) - 1 = n /\ n + 1 \in Nat
      BY <2>1
    <3> HIDE DEF Q
    <3> QED
      BY <3>1, OrderSteps
  <2>4. bt[n] = at
    <3>1. n <= n + 1 /\ n + 1 \in Nat /\ \A i \in 1 .. n : i \in Q <=> i \in P
      BY <2>1
    <3>2. n \in Nat /\ n <= n
      BY <2>1
    <3> HIDE DEF P, Q, n
    <3>3. InOrderUpTo(Q, n + 1)[n] = InOrderUpTo(P, n)[n]
      BY <3>1, <3>2, OrderAgrees
    <3> QED
      BY <3>3 DEF n
  <2>5. at \in Seq(P \cap (1 .. n))
    <3> HIDE DEF P
    <3> QED
      BY <2>1, OrderIsPlaces DEF InOrder
  <2>6. n + 1 \in Q <=> x # <<>>
    BY <2>1
  <2> HIDE DEF P, Q, at, bt, n
  <2>7. Len(at) \in Nat /\ DOMAIN at = 1 .. Len(at) /\ IsSeq(at) /\ \A i \in 1 .. Len(at) : at[i] \in 1 .. n
    BY <2>5 DEF IsSeq
  <2>8. PickedAt(w, at) = PickedAt(words, at)
    <3>1. \A i \in DOMAIN at : w[at[i]] = words[at[i]]
      BY <2>1, <2>7
    <3> QED
      BY <3>1 DEF PickedAt
  <2>9. CASE x # <<>>
    <3> DEFINE bt1 == Append(at, n + 1)
               f == PickedAt(w, bt1)
               g == PickedAt(words, at)
    <3>1. /\ IsSeq(bt1) /\ Len(bt1) = Len(at) + 1 /\ DOMAIN bt1 = 1 .. Len(at) + 1
          /\ \A i \in 1 .. Len(at) : bt1[i] = at[i]
          /\ bt1[Len(at) + 1] = n + 1
      BY <2>7, Appended
    <3> HIDE DEF bt1
    <3>2. f = [i \in 1 .. Len(at) + 1 |-> w[bt1[i]]] /\ g = [i \in 1 .. Len(at) |-> words[at[i]]]
      BY <2>7, <3>1 DEF PickedAt
    <3> HIDE DEF f, g
    <3>3. IsSeq(f) /\ Len(f) = Len(at) + 1 /\ IsSeq(g) /\ Len(g) = Len(at)
      <4>1. f = [i \in 1 .. Len(at) + 1 |-> f[i]] /\ g = [i \in 1 .. Len(at) |-> g[i]] /\ Len(at) + 1 \in Nat
        BY <2>7, <3>2
      <4> QED
        BY <2>7, <4>1, ListedIsSeq
    <3> DEFINE h == Append(g, x)
    <3>4. IsSeq(h) /\ Len(h) = Len(at) + 1 /\ h[Len(at) + 1] = x /\ \A i \in 1 .. Len(at) : h[i] = g[i]
      BY <3>3, Appended
    <3> HIDE DEF h
    <3>5. f[Len(at) + 1] = x
      <4>1. Len(at) + 1 \in 1 .. Len(at) + 1
        BY <2>7
      <4> QED
        BY <2>1, <3>1, <3>2, <4>1
    <3>6. ASSUME NEW i \in 1 .. Len(at) PROVE f[i] = g[i]
      <4>1. i \in 1 .. Len(at) + 1
        BY <2>7
      <4> QED
        BY <2>1, <2>7, <3>1, <3>2, <4>1
    <3>7. \A i \in 1 .. Len(at) + 1 : i \in 1 .. Len(at) \/ i = Len(at) + 1
      BY <2>7
    <3>8. f = h
      BY <3>3, <3>4, <3>5, <3>6, <3>7, SameSeq
    <3>9. NoEmpty(w) = f /\ NoEmpty(words) = g
      BY <2>2, <2>3, <2>4, <2>6, <2>9 DEF f, g, bt1
    <3> QED
      BY <2>9, <3>8, <3>9 DEF h, w
  <2>10. CASE x = <<>>
    <3>1. NoEmpty(w) = NoEmpty(words)
      BY <2>2, <2>3, <2>4, <2>6, <2>8, <2>10
    <3> QED
      BY <2>10, <3>1 DEF w
  <2> QED
    BY <2>9, <2>10
<1> QED
  BY <1>1, <1>2

LEMMA NoEmptyJoin ==
  ASSUME NEW s, WordList(s), NEW t, WordList(t) PROVE NoEmpty(s \o t) = NoEmpty(s) \o NoEmpty(t)
<1> DEFINE n == Len(t)
           T == {k \in Nat : k <= n => NoEmpty(s \o Cut(t, k)) = NoEmpty(s) \o NoEmpty(Cut(t, k))}
<1>1. IsSeq(s) /\ IsSeq(t) /\ n \in Nat /\ IsSeq(NoEmpty(s)) /\ DOMAIN t = 1 .. n /\ IsSeq(<<>>)
  BY SequenceFacts, NoEmptyIsWords, EmptyFacts DEF WordList
<1>2. 0 \in T
  <2>1. Cut(t, 0) = <<>> /\ s \o <<>> = s /\ NoEmpty(s) \o <<>> = NoEmpty(s)
    BY <1>1, CutGrows, JoinRules
  <2> QED
    BY <2>1, NoEmptySteps
<1>3. ASSUME NEW k \in T PROVE k + 1 \in T
  <2> DEFINE c == Cut(t, k)
             x == t[k + 1]
  <2>1. SUFFICES ASSUME k + 1 <= n PROVE NoEmpty(s \o Cut(t, k + 1)) = NoEmpty(s) \o NoEmpty(Cut(t, k + 1))
    OBVIOUS
  <2>2. k \in 0 .. n /\ k \in 0 .. n - 1 /\ k \in Nat /\ NoEmpty(s \o c) = NoEmpty(s) \o NoEmpty(c)
    BY <1>1, <2>1
  <2>3. IsSeq(c) /\ Cut(t, k + 1) = Append(c, x)
    BY <1>1, <2>2, CutFacts, CutGrows
  <2>4. WordList(c)
    <3>1. Len(c) = k /\ \A j \in 1 .. k : c[j] = t[j]
      BY <1>1, <2>2, CutFacts
    <3>2. DOMAIN c = 1 .. k
      BY <2>3, <3>1, SequenceFacts
    <3>3. \A j \in 1 .. k : IsSeq(t[j])
      BY <1>1, <2>2 DEF WordList
    <3> QED
      BY <2>3, <3>1, <3>2, <3>3 DEF WordList
  <2>5. IsSeq(NoEmpty(c)) /\ IsSeq(s \o c)
    BY <1>1, <2>3, <2>4, NoEmptyIsWords, JoinedSeqs DEF WordList
  <2>6. s \o Append(c, x) = Append(s \o c, x) /\ NoEmpty(s) \o Append(NoEmpty(c), x) = Append(NoEmpty(s) \o NoEmpty(c), x)
    BY <1>1, <2>3, <2>5, JoinRules
  <2> HIDE DEF c, x
  <2>7. /\ NoEmpty(Append(c, x)) = IF x # <<>> THEN Append(NoEmpty(c), x) ELSE NoEmpty(c)
        /\ NoEmpty(Append(s \o c, x)) = IF x # <<>> THEN Append(NoEmpty(s \o c), x) ELSE NoEmpty(s \o c)
    BY <2>3, <2>5, NoEmptySteps
  <2> QED
    BY <2>2, <2>3, <2>6, <2>7
<1>4. T = Nat
  <2>1. T \in SUBSET Nat
    OBVIOUS
  <2> HIDE DEF T
  <2> QED
    BY <1>2, <1>3, <2>1, Reached
<1>5. NoEmpty(s \o Cut(t, n)) = NoEmpty(s) \o NoEmpty(Cut(t, n))
  BY <1>1, <1>4
<1> QED
  BY <1>1, <1>5, CutGrows

LEMMA NoEmptyShorter ==
  ASSUME NEW t, WordList(t) PROVE Len(NoEmpty(t)) <= Len(t)
<1> DEFINE n == Len(t)
           T == {k \in Nat : k <= n => IsSeq(NoEmpty(Cut(t, k))) /\ Len(NoEmpty(Cut(t, k))) <= k}
<1>1. IsSeq(t) /\ n \in Nat /\ IsSeq(<<>>)
  BY SequenceFacts, EmptyFacts DEF WordList
<1>2. 0 \in T
  <2>1. Cut(t, 0) = <<>> /\ Len(<<>>) = 0
    BY <1>1, CutGrows, EmptyFacts
  <2> QED
    BY <1>1, <2>1, NoEmptySteps
<1>3. ASSUME NEW k \in T PROVE k + 1 \in T
  <2> DEFINE c == Cut(t, k)
             x == t[k + 1]
  <2>1. SUFFICES ASSUME k + 1 <= n
                 PROVE  IsSeq(NoEmpty(Cut(t, k + 1))) /\ Len(NoEmpty(Cut(t, k + 1))) <= k + 1
    OBVIOUS
  <2>2. k \in 0 .. n /\ k \in 0 .. n - 1 /\ k \in Nat /\ IsSeq(NoEmpty(c)) /\ Len(NoEmpty(c)) <= k
    BY <1>1, <2>1
  <2>3. IsSeq(c) /\ Cut(t, k + 1) = Append(c, x)
    BY <1>1, <2>2, CutFacts, CutGrows
  <2> HIDE DEF c, x
  <2>4. NoEmpty(Append(c, x)) \in {Append(NoEmpty(c), x), NoEmpty(c)}
    BY <2>3, NoEmptySteps
  <2> DEFINE b == NoEmpty(c)
             a == Append(b, x)
             z == NoEmpty(Cut(t, k + 1))
  <2>5. IsSeq(a) /\ Len(a) = Len(b) + 1 /\ Len(b) \in Nat /\ IsSeq(b) /\ Len(b) <= k
    BY <2>2, SequenceFacts, Appended
  <2>6. z = a \/ z = b
    BY <2>3, <2>4
  <2> HIDE DEF a, b, z
  <2>7. IsSeq(z) /\ Len(z) <= k + 1
    BY <2>2, <2>5, <2>6
  <2> QED
    BY <2>7 DEF z
<1>4. T = Nat
  <2>1. T \in SUBSET Nat
    OBVIOUS
  <2> HIDE DEF T
  <2> QED
    BY <1>2, <1>3, <2>1, Reached
<1>5. Len(NoEmpty(Cut(t, n))) <= n
  BY <1>1, <1>4
<1> QED
  BY <1>1, <1>5, CutGrows

LEMMA CutWords ==
  ASSUME NEW t, WordList(t), NEW k \in 0 .. Len(t) PROVE WordList(Cut(t, k)) /\ Len(Cut(t, k)) = k
<1>1. IsSeq(t) /\ Len(t) \in Nat /\ DOMAIN t = 1 .. Len(t) /\ \A j \in 1 .. Len(t) : IsSeq(t[j])
  BY SequenceFacts DEF WordList
<1>2. IsSeq(Cut(t, k)) /\ Len(Cut(t, k)) = k /\ \A j \in 1 .. k : Cut(t, k)[j] = t[j]
  BY <1>1, CutFacts
<1>3. DOMAIN Cut(t, k) = 1 .. k /\ \A j \in 1 .. k : j \in 1 .. Len(t)
  BY <1>1, <1>2, SequenceFacts
<1> QED
  BY <1>1, <1>2, <1>3 DEF WordList

(* A list of places that goes up is the order of the places it lists.      *)
LEMMA OrderIs ==
  ASSUME NEW n \in Nat, NEW f, IsSeq(f), NEW P,
         \A i \in 1 .. Len(f) : f[i] \in 1 .. n /\ f[i] \in P,
         \A i, j \in 1 .. Len(f) : i < j => f[i] < f[j],
         \A p \in 1 .. n : p \in P => \E i \in 1 .. Len(f) : f[i] = p
  PROVE  InOrder(P, n) = f
<1> DEFINE m == Len(f)
           u == InOrderUpTo(P, n)
           At(k, c) == (\A i \in 1 .. m : f[i] <= k <=> i <= c) /\ u[k] = Cut(f, c)
           T == {k \in Nat : k <= n => \E c \in 0 .. m : At(k, c)}
<1>1. /\ u[0] = <<>>
      /\ \A k \in 1 .. n : u[k] = (IF k \in P THEN Append(u[k - 1], k) ELSE u[k - 1])
  BY OrderSteps
<1>2. m \in Nat /\ Cut(f, 0) = <<>> /\ Cut(f, m) = f /\ \A i \in 0 .. m - 1 : Append(Cut(f, i), f[i + 1]) = Cut(f, i + 1)
  BY SequenceFacts, CutGrows
<1> HIDE DEF u
<1>3. 0 \in T
  <2>1. \A i \in 1 .. m : ~(f[i] <= 0) /\ ~(i <= 0)
    BY <1>2
  <2>2. At(0, 0) /\ 0 \in 0 .. m
    BY <1>1, <1>2, <2>1
  <2> HIDE DEF At
  <2> QED
    BY <2>2
<1>4. ASSUME NEW k \in T PROVE k + 1 \in T
  <2>1. SUFFICES ASSUME k + 1 <= n PROVE \E c \in 0 .. m : At(k + 1, c)
    OBVIOUS
  <2>2. k \in Nat /\ k + 1 \in 1 .. n /\ (k + 1) - 1 = k
    BY <2>1
  <2>3. PICK c \in 0 .. m : At(k, c)
    BY <2>2
  <2>4. \A i \in 1 .. m : f[i] \in Nat /\ i \in Nat
    OBVIOUS
  <2>5. CASE k + 1 \in P
    <3>1. PICK j \in 1 .. m : f[j] = k + 1
      BY <2>2, <2>5
    <3>2. ~(j <= c)
      BY <2>2, <2>3, <3>1
    <3>3. j = c + 1
      <4>1. SUFFICES ASSUME c + 1 < j PROVE FALSE
        BY <3>2
      <4>2. c + 1 \in 1 .. m /\ ~(c + 1 <= c)
        BY <3>1, <4>1
      <4>3. f[c + 1] < f[j]
        BY <3>1, <4>1, <4>2
      <4>4. ~(f[c + 1] <= k)
        BY <2>3, <4>2
      <4> QED
        BY <2>2, <2>4, <3>1, <4>2, <4>3, <4>4
    <3>4. c + 1 \in 0 .. m /\ c \in 0 .. m - 1
      BY <3>1, <3>3
    <3>5. u[k + 1] = Cut(f, c + 1)
      <4>1. u[k + 1] = Append(u[k], k + 1)
        <5> DEFINE e == k + 1
        <5>1. e \in 1 .. n /\ e \in P /\ e - 1 = k
          BY <2>2, <2>5
        <5> HIDE DEF e
        <5>2. u[e] = Append(u[e - 1], e)
          BY <1>1, <5>1
        <5> QED
          BY <5>1, <5>2 DEF e
      <4>2. u[k] = Cut(f, c) /\ f[c + 1] = k + 1
        BY <2>3, <3>1, <3>3
      <4>3. Append(Cut(f, c), f[c + 1]) = Cut(f, c + 1)
        BY <1>2, <3>4
      <4> QED
        BY <4>1, <4>2, <4>3
    <3>6. ASSUME NEW i \in 1 .. m PROVE f[i] <= k + 1 <=> i <= c + 1
      <4>1. f[i] <= k <=> i <= c
        BY <2>3
      <4>2. i = j \/ i < j \/ j < i
        BY <3>1
      <4>3. i < j => f[i] < f[j]
        BY <3>1
      <4>4. j < i => f[j] < f[i]
        BY <3>1
      <4>5. f[i] \in Nat /\ i \in Nat /\ c \in Nat
        BY <2>4
      <4> QED
        BY <2>2, <3>1, <3>3, <4>1, <4>2, <4>3, <4>4, <4>5
    <3>7. At(k + 1, c + 1)
      BY <3>5, <3>6
    <3> HIDE DEF At
    <3> QED
      BY <3>4, <3>7
  <2>6. CASE k + 1 \notin P
    <3>1. u[k + 1] = Cut(f, c)
      BY <1>1, <2>2, <2>3, <2>6
    <3>2. ASSUME NEW i \in 1 .. m PROVE f[i] <= k + 1 <=> i <= c
      <4>1. f[i] <= k <=> i <= c
        BY <2>3
      <4>2. f[i] # k + 1 /\ f[i] \in Nat
        BY <2>4, <2>6
      <4> QED
        BY <2>2, <4>1, <4>2
    <3>3. At(k + 1, c)
      BY <3>1, <3>2
    <3> HIDE DEF At
    <3> QED
      BY <3>3
  <2> QED
    BY <2>5, <2>6
<1>5. T = Nat
  <2>1. T \in SUBSET Nat
    OBVIOUS
  <2> HIDE DEF T
  <2> QED
    BY <1>3, <1>4, <2>1, Reached
<1>6. PICK c \in 0 .. m : At(n, c)
  <2>1. n \in T /\ n <= n
    BY <1>5
  <2> QED
    BY <2>1
<1>7. c = m
  <2>1. SUFFICES ASSUME c # m PROVE FALSE
    OBVIOUS
  <2>2. c + 1 \in 1 .. m /\ ~(c + 1 <= c)
    BY <1>2, <2>1
  <2> QED
    BY <1>6, <2>2
<1> QED
  BY <1>2, <1>6, <1>7 DEF InOrder, u

------------------------------------------------------------------------------
(* A list of words that was written with blanks in between. *)

WrittenAs(texts, words) ==
  /\ WordList(texts) /\ WordList(words) /\ Len(texts) = Len(words) /\ Len(words) # 0
  /\ \A k \in 1 .. Len(words) : Written(texts[k], words[k])

(* What the lexer has before the last word: the words before it, without   *)
(* the empty ones.                                                         *)
LEMMA WordsLexed ==
  ASSUME NEW texts, NEW words, WrittenAs(texts, words),
         NEW line, IsSeq(line), NEW p, Lies(line, p, Joined(texts, <<Space>>)),
         NEW h, NEW ts, IsSeq(ts), Len(ts) + Len(words) <= MaxArgs,
         LexAfter(line)[p] = St("plain", <<>>, h, ts)
  PROVE  LexAfter(line)[p + Len(Joined(texts, <<Space>>))]
           = St("plain", words[Len(words)], On, ts \o NoEmpty(Cut(words, Len(words) - 1)))
<1> DEFINE n == Len(words)
           J == Joined(texts, <<Space>>)
           st == LexAfter(line)
           tok(k) == ts \o NoEmpty(Cut(words, k))
<1>1. /\ n \in Nat \ {0} /\ Len(texts) = n /\ IsSeq(<<Space>>) /\ Len(<<Space>>) = 1 /\ <<Space>>[1] = Space
      /\ WordList(texts) /\ WordList(words) /\ IsSeq(words) /\ IsSeq(<<>>)
  BY SequenceFacts, EmptyFacts DEF WrittenAs, WordList
<1>2. PICK pos : Spread(texts, <<Space>>, pos)
  BY <1>1, JoinedSpreads
<1>3. /\ pos[1] = 0 /\ IsSeq(J)
      /\ \A k \in 1 .. n : /\ pos[k] \in Nat /\ pos[k] + Len(texts[k]) <= Len(J)
                           /\ \A i \in 1 .. Len(texts[k]) : J[pos[k] + i] = texts[k][i]
      /\ pos[n] + Len(texts[n]) = Len(J)
      /\ \A k \in 1 .. n - 1 : /\ pos[k + 1] = pos[k] + Len(texts[k]) + 1
                               /\ J[pos[k] + Len(texts[k]) + 1] = Space
  <2>1. 1 \in 1 .. 1
    OBVIOUS
  <2> QED
    BY <1>1, <1>2, <2>1 DEF Spread
<1>4. p \in Nat /\ p + Len(J) <= Len(line) /\ Len(line) \in Nat /\ Len(J) \in Nat /\ Len(ts) \in Nat
  BY <1>3, SequenceFacts DEF Lies
<1>14. \A i \in 1 .. Len(J) : line[p + i] = J[i]
  BY DEF Lies
<1> HIDE DEF J
<1>5. ASSUME NEW k \in 1 .. n 
      PROVE  /\ Lies(line, p + pos[k], texts[k]) /\ Len(texts[k]) \in Nat /\ pos[k] \in Nat
             /\ pos[k] + Len(texts[k]) <= Len(J)
  <2>1. IsSeq(texts[k]) /\ DOMAIN texts = 1 .. n
    BY <1>1, SequenceFacts DEF WordList
  <2>2. Len(texts[k]) \in Nat /\ pos[k] \in Nat /\ pos[k] + Len(texts[k]) <= Len(J)
    BY <1>3, <2>1, SequenceFacts
  <2>3. ASSUME NEW i \in 1 .. Len(texts[k]) PROVE line[(p + pos[k]) + i] = texts[k][i]
    <3>1. pos[k] + i \in 1 .. Len(J) /\ (p + pos[k]) + i = p + (pos[k] + i)
      BY <1>4, <2>2
    <3>2. J[pos[k] + i] = texts[k][i]
      BY <1>3
    <3>3. line[p + (pos[k] + i)] = J[pos[k] + i]
      BY <1>14, <3>1
    <3> QED
      BY <3>1, <3>2, <3>3
  <2>4. p + pos[k] \in Nat /\ (p + pos[k]) + Len(texts[k]) <= Len(line)
    BY <1>4, <2>2
  <2> QED
    BY <2>2, <2>3, <2>4 DEF Lies
<1>6. ASSUME NEW k \in 0 .. n
      PROVE  IsSeq(NoEmpty(Cut(words, k))) /\ IsSeq(tok(k)) /\ Len(tok(k)) <= Len(ts) + k /\ Len(tok(k)) \in Nat
  <2> DEFINE e == NoEmpty(Cut(words, k))
  <2>1. WordList(Cut(words, k)) /\ Len(Cut(words, k)) = k
    BY <1>1, CutWords
  <2>2. IsSeq(e) /\ Len(e) <= k /\ Len(e) \in Nat
    BY <2>1, NoEmptyIsWords, NoEmptyShorter, SequenceFacts DEF WordList
  <2> HIDE DEF e
  <2>3. IsJoin(ts \o e, ts, e)
    BY <2>2, JoinFacts
  <2>4. IsSeq(ts \o e) /\ Len(ts \o e) = Len(ts) + Len(e)
    BY <2>3 DEF IsJoin
  <2>5. Len(ts \o e) <= Len(ts) + k /\ Len(ts \o e) \in Nat
    BY <1>4, <2>2, <2>4
  <2> QED
    BY <2>2, <2>4, <2>5 DEF e
<1>7. ASSUME NEW k \in 1 .. n
      PROVE  tok(k) = IF words[k] # <<>> THEN Append(tok(k - 1), words[k]) ELSE tok(k - 1)
  <2> DEFINE j == k - 1
             c == Cut(words, j)
  <2>1. j \in 0 .. n - 1 /\ j \in 0 .. n /\ j + 1 = k
    BY <1>1
  <2>2. IsSeq(c) /\ Cut(words, k) = Append(c, words[k])
    BY <1>1, <2>1, CutFacts, CutGrows
  <2> HIDE DEF c
  <2>3. NoEmpty(Cut(words, k)) = IF words[k] # <<>> THEN Append(NoEmpty(c), words[k]) ELSE NoEmpty(c)
    BY <2>2, NoEmptySteps
  <2>4. IsSeq(NoEmpty(c))
    BY <1>6, <2>1 DEF c
  <2>5. ts \o Append(NoEmpty(c), words[k]) = Append(ts \o NoEmpty(c), words[k])
    BY <1>1, <2>4, JoinRules
  <2> QED
    BY <2>3, <2>5 DEF c
<1> HIDE DEF tok, st
<1> DEFINE Ends(k) == st[p + pos[k] + Len(texts[k])] = St("plain", words[k], On, tok(k - 1))
           T == {l \in Nat : l + 1 <= n => Ends(l + 1)}
<1>8. ASSUME NEW k \in 1 .. n, NEW h2, st[p + pos[k]] = St("plain", <<>>, h2, tok(k - 1)) PROVE Ends(k)
  <2>1. IsSeq(tok(k - 1)) /\ Len(tok(k - 1)) < MaxArgs
    <3>1. k - 1 \in 0 .. n /\ MaxArgs \in Nat
      BY <1>1, LimitsAssumption
    <3> QED
      BY <1>1, <1>4, <1>6, <3>1
  <2>2. ReadsIn(line, p + pos[k], h2, tok(k - 1), texts[k], words[k])
    BY DEF WrittenAs, Written, Reads
  <2> QED
    BY <1>5, <1>8, <2>1, <2>2 DEF ReadsIn, st
<1>9. 0 \in T
  <2>1. 1 \in 1 .. n /\ p + pos[1] = p
    BY <1>1, <1>3, <1>4
  <2>2. tok(1 - 1) = ts
    <3>1. Cut(words, 0) = <<>> /\ ts \o <<>> = ts
      BY <1>1, CutGrows, JoinRules
    <3>2. 1 - 1 = 0
      OBVIOUS
    <3> QED
      BY <3>1, <3>2, NoEmptySteps DEF tok
  <2>3. st[p + pos[1]] = St("plain", <<>>, h, tok(1 - 1))
    BY <2>1, <2>2 DEF st
  <2>4. Ends(1)
    BY <1>8, <2>1, <2>3
  <2> QED
    BY <2>4
<1>10. ASSUME NEW l \in T PROVE l + 1 \in T
  <2> DEFINE k == l + 1
             q == k + 1
             e == p + pos[k] + Len(texts[k])
  <2>1. SUFFICES ASSUME q <= n PROVE Ends(q)
    OBVIOUS
  <2>2. k \in 1 .. n - 1 /\ k \in 1 .. n /\ q \in 1 .. n /\ q - 1 = k /\ Ends(k)
    BY <1>1, <2>1
  <2>3. /\ e \in Nat /\ e < Len(line) /\ p + pos[q] = e + 1
        /\ pos[k] + Len(texts[k]) + 1 \in 1 .. Len(J)
        /\ p + (pos[k] + Len(texts[k]) + 1) = e + 1
    <3> DEFINE a == pos[k]
               b == Len(texts[k])
               d == Len(texts[q])
               g == pos[q]
               v == Len(line)
               m == Len(J)
    <3>1. a \in Nat /\ b \in Nat /\ d \in Nat /\ g \in Nat /\ g + d <= m /\ p \in Nat /\ v \in Nat /\ m \in Nat
          /\ p + m <= v /\ e = p + a + b
      BY <1>4, <1>5, <2>2
    <3>2. g = a + b + 1
      BY <1>3, <2>2
    <3> HIDE DEF a, b, d, g, v, m, e
    <3>3. e \in Nat /\ e < v /\ p + g = e + 1 /\ a + b + 1 \in 1 .. m /\ p + (a + b + 1) = e + 1
      BY <3>1, <3>2
    <3> QED
      BY <3>3 DEF a, b, d, g, v, m
  <2>4. line[e + 1] = Space
    <3> DEFINE b == pos[k] + Len(texts[k]) + 1
    <3>1. b \in 1 .. Len(J) /\ p + b = e + 1
      BY <2>3
    <3>2. J[b] = Space
      BY <1>3, <2>2
    <3> HIDE DEF b, e
    <3>3. line[p + b] = J[b]
      BY <1>14, <3>1
    <3> QED
      BY <3>1, <3>2, <3>3
  <2>5. st[e] = St("plain", words[k], On, tok(k - 1))
    BY <2>2
  <2>6. e < Len(line)
    BY <2>3
  <2> HIDE DEF e, k, q
  <2>7. st[e + 1] = LexStep(st[e], Space)
    BY <2>3, <2>4, <2>6, ReadNext DEF st
  <2>8. st[e + 1] = IF words[k] # <<>> THEN St("plain", <<>>, Off, Append(tok(k - 1), words[k]))
                    ELSE St("plain", <<>>, On, tok(k - 1))
    BY <2>5, <2>7, ReadBlank
  <2>9. st[e + 1] = St("plain", <<>>, Off, tok(k)) \/ st[e + 1] = St("plain", <<>>, On, tok(k))
    BY <1>7, <2>2, <2>8
  <2>10. PICK h2 : st[p + pos[q]] = St("plain", <<>>, h2, tok(q - 1))
    BY <2>2, <2>3, <2>9
  <2> QED
    BY <1>8, <2>2, <2>10
<1>11. T = Nat
  <2>1. T \in SUBSET Nat
    OBVIOUS
  <2> HIDE DEF T
  <2> QED
    BY <1>9, <1>10, <2>1, Reached
<1>12. Ends(n)
  <2>1. n - 1 \in T /\ (n - 1) + 1 = n /\ n <= n
    BY <1>1, <1>11
  <2> QED
    BY <2>1
<1>13. p + pos[n] + Len(texts[n]) = p + Len(J)
  <2> DEFINE a == pos[n]
             b == Len(texts[n])
             m == Len(J)
  <2>1. n \in 1 .. n
    BY <1>1
  <2>2. a \in Nat /\ b \in Nat /\ m \in Nat /\ p \in Nat /\ a + b = m
    BY <1>3, <1>4, <1>5, <2>1
  <2> HIDE DEF a, b, m
  <2>3. p + a + b = p + m
    BY <2>2
  <2> QED
    BY <2>3 DEF a, b, m
<1> QED
  BY <1>12, <1>13 DEF J, st, tok

------------------------------------------------------------------------------
(* The words of a stage, and how buildResolvedLine writes them. *)

(* A list of pairs, one after the other.                                   *)
Paired(f, n, a, b) ==
  /\ IsSeq(f) /\ Len(f) = 2 * n
  /\ \A r \in 1 .. n : f[2 * r - 1] = a[r] /\ f[2 * r] = b[r]

LEMMA PairsFlat ==
  ASSUME NEW n \in Nat, NEW a, NEW b
  PROVE  Paired(FlattenSeq([r \in 1 .. n |-> <<a[r], b[r]>>]), n, a, b)
<1> DEFINE seqs == [r \in 1 .. n |-> <<a[r], b[r]>>]
           f == FlattenSeq(seqs)
<1>1. ASSUME NEW x, NEW y PROVE IsSeq(<<x, y>>) /\ Len(<<x, y>>) = 2 /\ <<x, y>>[1] = x /\ <<x, y>>[2] = y
  <2>1. <<x, y>> \in Seq({x, y}) /\ Len(<<x, y>>) = 2 /\ <<x, y>>[1] = x /\ <<x, y>>[2] = y
    OBVIOUS
  <2>2. IsSeq(<<x, y>>)
    BY <2>1 DEF IsSeq
  <2> QED
    BY <2>1, <2>2
<1>2. /\ seqs = [r \in 1 .. n |-> seqs[r]]
      /\ \A r \in 1 .. n : IsSeq(seqs[r]) /\ Len(seqs[r]) = 2 /\ seqs[r][1] = a[r] /\ seqs[r][2] = b[r]
  <2>1. ASSUME NEW r \in 1 .. n PROVE seqs[r] = <<a[r], b[r]>>
    OBVIOUS
  <2>2. seqs = [r \in 1 .. n |-> seqs[r]]
    OBVIOUS
  <2> HIDE DEF seqs
  <2>3. ASSUME NEW r \in 1 .. n PROVE IsSeq(seqs[r]) /\ Len(seqs[r]) = 2 /\ seqs[r][1] = a[r] /\ seqs[r][2] = b[r]
    <3> DEFINE x == a[r]
               y == b[r]
    <3>1. seqs[r] = <<x, y>>
      BY <2>1
    <3> HIDE DEF x, y
    <3>2. IsSeq(<<x, y>>) /\ Len(<<x, y>>) = 2 /\ <<x, y>>[1] = x /\ <<x, y>>[2] = y
      BY <1>1
    <3>3. IsSeq(seqs[r]) /\ Len(seqs[r]) = 2 /\ seqs[r][1] = x /\ seqs[r][2] = y
      BY <3>1, <3>2
    <3> QED
      BY <3>3 DEF x, y
  <2> QED
    BY <2>2, <2>3
<1> HIDE DEF seqs
<1>3. IsSeq(seqs) /\ Len(seqs) = n
  BY <1>2, ListedIsSeq
<1>4. WordList(seqs)
  <2>1. DOMAIN seqs = 1 .. n
    BY <1>3, SequenceFacts
  <2> QED
    BY <1>2, <1>3, <2>1 DEF WordList
<1>5. PICK off : Laid(seqs, off)
  BY <1>4, FlattenLays
<1>6. /\ off[0] = 0 /\ IsSeq(f) /\ Len(f) = off[n]
      /\ \A r \in 1 .. n : off[r] = off[r - 1] + 2
      /\ \A r \in 1 .. n : \A i \in 1 .. 2 : f[off[r - 1] + i] = seqs[r][i]
  <2>1. \A r \in 1 .. n : Len(seqs[r]) = 2
    BY <1>2
  <2> QED
    BY <1>3, <1>5, <2>1 DEF Laid
<1> HIDE DEF f
<1> DEFINE T == {r \in Nat : r <= n => off[r] = 2 * r}
<1>7. 0 \in T
  BY <1>6
<1>8. ASSUME NEW r \in T PROVE r + 1 \in T
  <2>1. SUFFICES ASSUME r + 1 <= n PROVE off[r + 1] = 2 * (r + 1)
    OBVIOUS
  <2> DEFINE q == r + 1
  <2>2. q \in 1 .. n /\ q - 1 = r /\ off[r] = 2 * r /\ r \in Nat
    BY <2>1
  <2> HIDE DEF q
  <2>3. off[q] = off[q - 1] + 2
    BY <1>6, <2>2
  <2>4. off[q] = 2 * r + 2
    BY <2>2, <2>3
  <2> QED
    BY <2>2, <2>4 DEF q
<1>9. T = Nat
  <2>1. T \in SUBSET Nat
    OBVIOUS
  <2> HIDE DEF T
  <2> QED
    BY <1>7, <1>8, <2>1, Reached
<1>10. ASSUME NEW r \in 1 .. n PROVE f[2 * r - 1] = a[r] /\ f[2 * r] = b[r]
  <2>1. off[r - 1] = 2 * (r - 1) /\ 1 \in 1 .. 2 /\ 2 \in 1 .. 2
    BY <1>9
  <2>2. f[off[r - 1] + 1] = a[r] /\ f[off[r - 1] + 2] = b[r]
    BY <1>2, <1>6, <2>1
  <2>3. off[r - 1] + 1 = 2 * r - 1 /\ off[r - 1] + 2 = 2 * r
    BY <2>1
  <2> QED
    BY <2>2, <2>3
<1>11. off[n] = 2 * n
  BY <1>9
<1>12. Paired(f, n, a, b)
  BY <1>6, <1>10, <1>11 DEF Paired
<1> QED
  BY <1>12 DEF f, seqs

(* Every place of the list is one of a pair's.                             *)
LEMMA PairPlaces ==
  ASSUME NEW n \in Nat, NEW i \in 1 .. 2 * n
  PROVE  \E r \in 1 .. n : i = 2 * r - 1 \/ i = 2 * r
<1> DEFINE r == (i + 1) \div 2
<1>1. i \in Int /\ r \in Int /\ (i + 1 = 2 * r \/ i + 1 = 2 * r + 1)
  OBVIOUS
<1> HIDE DEF r
<1>2. r \in 1 .. n
  BY <1>1
<1> QED
  BY <1>1, <1>2

WrittenEach(texts, words) ==
  /\ IsSeq(texts) /\ IsSeq(words) /\ Len(texts) = Len(words)
  /\ \A k \in 1 .. Len(words) : IsSeq(words[k]) /\ Written(texts[k], words[k])

LEMMA WrittenJoin ==
  ASSUME NEW t1, NEW w1, WrittenEach(t1, w1), NEW t2, NEW w2, WrittenEach(t2, w2)
  PROVE  WrittenEach(t1 \o t2, w1 \o w2)
<1> DEFINE t == t1 \o t2
           w == w1 \o w2
           m == Len(w1)
           n == Len(w2)
<1>1. /\ IsSeq(t1) /\ IsSeq(w1) /\ Len(t1) = m /\ IsSeq(t2) /\ IsSeq(w2) /\ Len(t2) = n
      /\ m \in Nat /\ n \in Nat
      /\ \A k \in 1 .. m : IsSeq(w1[k]) /\ Written(t1[k], w1[k])
      /\ \A k \in 1 .. n : IsSeq(w2[k]) /\ Written(t2[k], w2[k])
  BY SequenceFacts DEF WrittenEach
<1>2. IsJoin(t, t1, t2) /\ IsJoin(w, w1, w2)
  BY <1>1, JoinFacts
<1> HIDE DEF t, w
<1>3. /\ IsSeq(t) /\ Len(t) = m + n /\ IsSeq(w) /\ Len(w) = m + n
      /\ \A i \in 1 .. m : t[i] = t1[i] /\ w[i] = w1[i]
      /\ \A i \in 1 .. n : t[m + i] = t2[i] /\ w[m + i] = w2[i]
  BY <1>1, <1>2 DEF IsJoin
<1> HIDE DEF m, n
<1>4. ASSUME NEW k \in 1 .. m + n PROVE IsSeq(w[k]) /\ Written(t[k], w[k])
  <2>1. CASE k \in 1 .. m
    BY <1>1, <1>3, <2>1
  <2>2. CASE k \notin 1 .. m
    <3> DEFINE i == k - m
    <3>1. i \in 1 .. n /\ k = m + i
      BY <1>1, <2>2
    <3> HIDE DEF i
    <3> QED
      BY <1>1, <1>3, <3>1
  <2> QED
    BY <2>1, <2>2
<1>5. WrittenEach(t, w)
  BY <1>3, <1>4 DEF WrittenEach
<1> QED
  BY <1>5 DEF t, w

(* A token that the lexer may have made, and no operator.                  *)
IsWord(w) == IsSeq(w) /\ Len(w) <= MaxToken /\ w \notin Operators \cup {Bar}

(* A stage that can be written.                                            *)
CanWrite(exec, args, redirs) ==
  /\ IsWord(exec) /\ exec # <<>>
  /\ IsSeq(args) /\ \A k \in 1 .. Len(args) : IsWord(args[k])
  /\ IsSeq(redirs)
  /\ \A r \in 1 .. Len(redirs) : redirs[r].op \in Operators /\ IsWord(redirs[r].target) /\ redirs[r].target # <<>>

PairsOf(redirs) == FlattenSeq([r \in 1 .. Len(redirs) |-> <<redirs[r].op, redirs[r].target>>])
WordsOf(exec, args, redirs) == (<<exec>> \o args) \o PairsOf(redirs)
TextsOf(exec, args, redirs) ==
  (<<QuoteForLexer(exec)>> \o [k \in 1 .. Len(args) |-> QuoteForLexer(args[k])])
  \o FlattenSeq([r \in 1 .. Len(redirs) |-> <<redirs[r].op, QuoteForLexer(redirs[r].target)>>])

LEMMA PairsAre ==
  ASSUME NEW redirs, IsSeq(redirs)
  PROVE  /\ IsSeq(PairsOf(redirs)) /\ Len(PairsOf(redirs)) = 2 * Len(redirs)
         /\ \A r \in 1 .. Len(redirs) : /\ PairsOf(redirs)[2 * r - 1] = redirs[r].op
                                        /\ PairsOf(redirs)[2 * r] = redirs[r].target
<1> DEFINE n == Len(redirs)
           a == [r \in 1 .. n |-> redirs[r].op]
           b == [r \in 1 .. n |-> redirs[r].target]
<1>1. n \in Nat
  BY SequenceFacts
<1>2. [r \in 1 .. n |-> <<a[r], b[r]>>] = [r \in 1 .. n |-> <<redirs[r].op, redirs[r].target>>]
  OBVIOUS
<1>3. \A r \in 1 .. n : a[r] = redirs[r].op /\ b[r] = redirs[r].target
  OBVIOUS
<1> HIDE DEF a, b
<1>4. Paired(FlattenSeq([r \in 1 .. n |-> <<a[r], b[r]>>]), n, a, b)
  BY <1>1, PairsFlat
<1>5. Paired(PairsOf(redirs), n, a, b)
  BY <1>2, <1>4 DEF PairsOf
<1> QED
  BY <1>3, <1>5 DEF Paired

LEMMA StageWritten ==
  ASSUME NEW exec, NEW args, NEW redirs, CanWrite(exec, args, redirs)
  PROVE  WrittenAs(TextsOf(exec, args, redirs), WordsOf(exec, args, redirs))
<1> DEFINE m == Len(args)
           n == Len(redirs)
           t1 == <<QuoteForLexer(exec)>>
           w1 == <<exec>>
           t2 == [k \in 1 .. m |-> QuoteForLexer(args[k])]
           a == [r \in 1 .. n |-> redirs[r].op]
           b == [r \in 1 .. n |-> QuoteForLexer(redirs[r].target)]
           t3 == FlattenSeq([r \in 1 .. n |-> <<redirs[r].op, QuoteForLexer(redirs[r].target)>>])
           w3 == PairsOf(redirs)
<1>1. m \in Nat /\ n \in Nat /\ IsSeq(args) /\ IsSeq(redirs)
  BY SequenceFacts DEF CanWrite
<1>2. WrittenEach(t1, w1)
  <2>1. Written(QuoteForLexer(exec), exec) /\ IsSeq(exec)
    BY QuoteWrites DEF CanWrite, IsWord
  <2>2. \A k \in 1 .. 1 : k = 1
    OBVIOUS
  <2> DEFINE q == QuoteForLexer(exec)
  <2>3. IsSeq(<<q>>) /\ Len(<<q>>) = 1 /\ <<q>>[1] = q /\ IsSeq(<<exec>>) /\ Len(<<exec>>) = 1 /\ <<exec>>[1] = exec
    BY EmptyFacts
  <2> HIDE DEF q
  <2> QED
    BY <2>1, <2>2, <2>3 DEF WrittenEach, q
<1>3. WrittenEach(t2, args)
  <2>1. t2 = [k \in 1 .. m |-> t2[k]] /\ \A k \in 1 .. m : t2[k] = QuoteForLexer(args[k])
    OBVIOUS
  <2> HIDE DEF t2
  <2>2. IsSeq(t2) /\ Len(t2) = m
    BY <1>1, <2>1, ListedIsSeq
  <2>3. \A k \in 1 .. m : IsSeq(args[k]) /\ Written(QuoteForLexer(args[k]), args[k])
    BY QuoteWrites DEF CanWrite, IsWord
  <2> QED
    BY <1>1, <2>1, <2>2, <2>3 DEF WrittenEach
<1>4. WrittenEach(t3, w3)
  <2>1. [r \in 1 .. n |-> <<a[r], b[r]>>] = [r \in 1 .. n |-> <<redirs[r].op, QuoteForLexer(redirs[r].target)>>]
    OBVIOUS
  <2>2. \A r \in 1 .. n : a[r] = redirs[r].op /\ b[r] = QuoteForLexer(redirs[r].target)
    OBVIOUS
  <2> HIDE DEF a, b
  <2>3. Paired(t3, n, a, b)
    BY <1>1, <2>1, PairsFlat
  <2>4. /\ IsSeq(w3) /\ Len(w3) = 2 * n
        /\ \A r \in 1 .. n : w3[2 * r - 1] = redirs[r].op /\ w3[2 * r] = redirs[r].target
    BY <1>1, PairsAre
  <2> HIDE DEF t3, w3
  <2>5. \A r \in 1 .. n : /\ IsSeq(redirs[r].op) /\ Written(redirs[r].op, redirs[r].op)
                          /\ IsSeq(redirs[r].target) /\ Written(QuoteForLexer(redirs[r].target), redirs[r].target)
    <3>1. \A r \in 1 .. n : Written(redirs[r].op, redirs[r].op)
      BY OperatorsWrite DEF CanWrite
    <3>2. \A r \in 1 .. n : IsSeq(redirs[r].target) /\ Written(QuoteForLexer(redirs[r].target), redirs[r].target)
      BY QuoteWrites DEF CanWrite, IsWord
    <3> QED
      BY <3>1, <3>2 DEF Written
  <2>6. ASSUME NEW k \in 1 .. 2 * n PROVE IsSeq(w3[k]) /\ Written(t3[k], w3[k])
    <3>1. PICK r \in 1 .. n : k = 2 * r - 1 \/ k = 2 * r
      BY <1>1, PairPlaces
    <3>2. t3[2 * r - 1] = redirs[r].op /\ t3[2 * r] = QuoteForLexer(redirs[r].target)
      BY <2>2, <2>3 DEF Paired
    <3> QED
      BY <2>4, <2>5, <3>1, <3>2
  <2>7. IsSeq(t3) /\ Len(t3) = 2 * n
    BY <2>3 DEF Paired
  <2> QED
    BY <2>4, <2>6, <2>7 DEF WrittenEach
<1> HIDE DEF t1, w1, t2, t3, w3
<1>5. WrittenEach((t1 \o t2) \o t3, (w1 \o args) \o w3)
  <2>1. WrittenEach(t1 \o t2, w1 \o args)
    BY <1>2, <1>3, WrittenJoin
  <2> QED
    BY <1>4, <2>1, WrittenJoin
<1>6. Len((w1 \o args) \o w3) # 0
  <2> DEFINE u == w1 \o args
  <2>1. IsSeq(w1) /\ Len(w1) = 1 /\ IsSeq(w3)
    BY <1>2, <1>4, EmptyFacts DEF WrittenEach, w1
  <2>2. IsJoin(u, w1, args)
    BY <1>1, <2>1, JoinFacts
  <2>3. IsSeq(u) /\ Len(u) = 1 + m
    BY <2>1, <2>2 DEF IsJoin
  <2> HIDE DEF u
  <2>4. IsJoin(u \o w3, u, w3)
    BY <2>1, <2>3, JoinFacts
  <2>5. Len(u \o w3) = Len(u) + Len(w3) /\ Len(w3) \in Nat
    BY <2>4 DEF IsJoin
  <2>6. Len(u \o w3) # 0
    BY <1>1, <2>3, <2>5
  <2> QED
    BY <2>6 DEF u
<1>7. ASSUME NEW x, NEW y, WrittenEach(x, y), Len(y) # 0 PROVE WrittenAs(x, y)
  <2>1. DOMAIN x = 1 .. Len(x) /\ DOMAIN y = 1 .. Len(y)
    BY <1>7, SequenceFacts DEF WrittenEach
  <2> QED
    BY <1>7, <2>1 DEF WrittenEach, WrittenAs, WordList, Written
<1>8. WrittenAs((t1 \o t2) \o t3, (w1 \o args) \o w3)
  BY <1>5, <1>6, <1>7
<1> QED
  BY <1>8 DEF TextsOf, WordsOf, t1, w1, t2, t3, w3

------------------------------------------------------------------------------
(* How a whole line is read: the words of a stage, a bar, the words of the *)
(* next one.                                                               *)

LastKept(words) == Append(NoEmpty(Cut(words, Len(words) - 1)), words[Len(words)])

LEMMA LastWord ==
  ASSUME NEW words, WordList(words), Len(words) # 0
  PROVE  LET last == words[Len(words)]
             before == NoEmpty(Cut(words, Len(words) - 1))
         IN  /\ NoEmpty(words) = IF last # <<>> THEN Append(before, last) ELSE before
             /\ WordList(before) /\ WordList(LastKept(words)) /\ Len(LastKept(words)) <= Len(words)
<1> DEFINE n == Len(words)
           c == Cut(words, n - 1)
           last == words[n]
<1>1. n \in Nat /\ n - 1 \in 0 .. n - 1 /\ n - 1 \in 0 .. n /\ (n - 1) + 1 = n /\ IsSeq(words) /\ IsSeq(last) /\ n - 1 \in Nat
  BY SequenceFacts DEF WordList
<1>2. WordList(c) /\ Len(c) = n - 1
  BY <1>1, CutWords
<1>3. Append(c, last) = words
  BY <1>1, CutGrows
<1>4. WordList(NoEmpty(c)) /\ Len(NoEmpty(c)) <= n - 1 /\ IsSeq(c)
  BY <1>2, NoEmptyIsWords, NoEmptyShorter DEF WordList
<1>5. LastKept(words) = Append(NoEmpty(c), last)
  BY DEF LastKept
<1> HIDE DEF c, last
<1>6. NoEmpty(words) = IF last # <<>> THEN Append(NoEmpty(c), last) ELSE NoEmpty(c)
  BY <1>3, <1>4, NoEmptySteps
<1> DEFINE b == NoEmpty(c)
           a == Append(b, last)
<1>7. WordList(a) /\ Len(a) = Len(b) + 1 /\ Len(b) \in Nat /\ Len(b) <= n - 1
  BY <1>1, <1>4, MoreWords, Appended, SequenceFacts DEF WordList
<1> HIDE DEF a, b, n
<1>8. Len(a) <= n
  BY <1>1, <1>7
<1> QED
  BY <1>4, <1>5, <1>6, <1>7, <1>8 DEF a, b, c, last, n

LEMMA BarRead ==
  ASSUME NEW line, IsSeq(line), NEW e \in Nat, e + 3 <= Len(line),
         line[e + 1] = Space, line[e + 2] = "|", line[e + 3] = Space,
         NEW w, NEW ts, NEW full, IsSeq(full), Len(full) < MaxArgs,
         full = IF w # <<>> THEN Append(ts, w) ELSE ts,
         LexAfter(line)[e] = St("plain", w, On, ts)
  PROVE  LexAfter(line)[e + 3] = St("plain", <<>>, Off, Append(full, Bar))
<1> DEFINE st == LexAfter(line)
           e1 == e + 1
           e2 == e + 2
<1>1. Len(line) \in Nat /\ IsSeq(Bar) /\ Len(Bar) = 1 /\ Bar[1] = "|" /\ Bar # <<>>
  BY SequenceFacts, EmptyFacts DEF Bar
<1>2. /\ e < Len(line) /\ e1 \in Nat /\ e2 \in Nat /\ e2 < Len(line) /\ e2 + 1 = e + 3
      /\ e1 + 1 = e2 /\ e1 + 1 <= Len(line)
  BY <1>1
<1> HIDE DEF st
<1>3. st[e1] = LexStep(st[e], Space)
  BY <1>2, ReadNext DEF st
<1> HIDE DEF e1, e2
<1>4. st[e1] = St("plain", <<>>, Off, full) \/ st[e1] = St("plain", <<>>, On, full)
  <2>1. st[e] = St("plain", w, On, ts)
    BY DEF st
  <2>2. st[e1] = IF w # <<>> THEN St("plain", <<>>, Off, Append(ts, w)) ELSE St("plain", <<>>, On, ts)
    BY <1>3, <2>1, ReadBlank
  <2> QED
    BY <2>2
<1>5. PICK h : st[e1] = St("plain", <<>>, h, full)
  BY <1>4
<1>6. Lies(line, e1, Bar)
  <2>1. \A i \in 1 .. 1 : i = 1
    OBVIOUS
  <2>2. line[e1 + 1] = "|"
    BY <1>2 DEF e2
  <2> QED
    BY <1>1, <1>2, <2>1, <2>2 DEF Lies
<1>7. st[e2] = St("plain", Bar, On, full)
  <2>1. ReadsIn(line, e1, h, full, Bar, Bar)
    BY OperatorsWrite DEF Written, Reads
  <2>2. st[e1 + 1] = St("plain", Bar, On, full)
    BY <1>1, <1>5, <1>6, <2>1 DEF ReadsIn, st
  <2> QED
    BY <1>2, <2>2
<1>8. st[e2 + 1] = LexStep(st[e2], Space)
  <2>1. line[e2 + 1] = Space
    BY <1>2
  <2> QED
    BY <1>2, <2>1, ReadNext DEF st
<1>9. st[e2 + 1] = St("plain", <<>>, Off, Append(full, Bar))
  BY <1>1, <1>7, <1>8, ReadBlank
<1> QED
  BY <1>2, <1>9 DEF st

(* What is kept of each stage, put together with bars.                     *)
Chain(kept, base) ==
  /\ base[1] = <<>>
  /\ \A k \in 1 .. Len(kept) : IsSeq(base[k]) /\ IsSeq(base[k] \o kept[k])
  /\ \A k \in 1 .. Len(kept) - 1 : base[k + 1] = Append(base[k] \o kept[k], Bar)
  /\ Joined(kept, <<Bar>>) = base[Len(kept)] \o kept[Len(kept)]

LEMMA ChainIs ==
  ASSUME NEW kept, WordList(kept), Len(kept) # 0 PROVE \E base : Chain(kept, base)
<1> DEFINE n == Len(kept)
           pieces == [k \in DOMAIN kept |-> IF k = 1 THEN kept[k] ELSE <<Bar>> \o kept[k]]
<1>1. n \in Nat \ {0} /\ DOMAIN kept = 1 .. n /\ IsSeq(<<Bar>>) /\ IsSeq(<<>>) /\ \A k \in 1 .. n : IsSeq(kept[k])
  BY SequenceFacts, EmptyFacts DEF WordList
<1>2. /\ pieces = [k \in 1 .. n |-> pieces[k]] /\ pieces[1] = kept[1]
      /\ \A k \in 2 .. n : pieces[k] = <<Bar>> \o kept[k]
  BY <1>1
<1>3. Joined(kept, <<Bar>>) = FlattenSeq(pieces)
  BY DEF Joined
<1> HIDE DEF pieces
<1>4. Len(pieces) = n
  BY <1>1, <1>2, ListedIsSeq
<1>5. PICK r : /\ FlattenSeq(pieces) = r[n] /\ r[1] = pieces[1]
               /\ \A k \in 2 .. n : r[k] = r[k - 1] \o pieces[k]
  <2>1. Len(pieces) \in Nat \ {0}
    BY <1>1, <1>4
  <2>2. PICK r : /\ FlattenSeq(pieces) = r[Len(pieces)] /\ r[1] = pieces[1]
                 /\ \A k \in 2 .. Len(pieces) : r[k] = r[k - 1] \o pieces[k]
    BY <2>1, FlattenSteps
  <2> QED
    BY <1>4, <2>2
<1> DEFINE base == [k \in 1 .. n |-> IF k = 1 THEN <<>> ELSE Append(r[k - 1], Bar)]
<1>6. base[1] = <<>> /\ \A k \in 2 .. n : base[k] = Append(r[k - 1], Bar)
  BY <1>1
<1> HIDE DEF base
<1> DEFINE So(k) == IsSeq(base[k]) /\ IsSeq(r[k]) /\ r[k] = base[k] \o kept[k]
           T == {l \in Nat : l + 1 <= n => So(l + 1)}
<1>7. 0 \in T
  <2>1. 1 \in 1 .. n /\ r[1] = kept[1] /\ IsSeq(kept[1]) /\ <<>> \o kept[1] = kept[1]
    BY <1>1, <1>2, <1>5, JoinRules
  <2>2. So(1)
    BY <1>1, <1>6, <2>1
  <2>3. 0 + 1 = 1
    OBVIOUS
  <2> HIDE DEF So
  <2> QED
    BY <2>2, <2>3
<1>8. ASSUME NEW l \in T PROVE l + 1 \in T
  <2> DEFINE k == l + 1
             q == k + 1
  <2>1. SUFFICES ASSUME q <= n PROVE So(q)
    <3> HIDE DEF So
    <3> QED
      OBVIOUS
  <2>8. k \in 1 .. n /\ q \in 2 .. n /\ q \in 1 .. n /\ q - 1 = k /\ k <= n
    BY <1>1, <2>1
  <2>9. So(k)
    <3> HIDE DEF So
    <3> QED
      BY <2>8
  <2>2. k \in 1 .. n /\ q \in 2 .. n /\ q \in 1 .. n /\ q - 1 = k /\ So(k)
    BY <2>8, <2>9
  <2> HIDE DEF k, q
  <2>3. base[q] = Append(r[k], Bar) /\ r[q] = r[k] \o pieces[q] /\ pieces[q] = <<Bar>> \o kept[q]
    BY <1>2, <1>5, <1>6, <2>2
  <2>4. IsSeq(r[k]) /\ IsSeq(kept[q])
    BY <1>1, <2>2
  <2>5. base[q] = r[k] \o <<Bar>>
    BY <2>3, <2>4, JoinRules
  <2>6. (r[k] \o <<Bar>>) \o kept[q] = r[k] \o (<<Bar>> \o kept[q])
    <3> DEFINE bar == <<Bar>>
               a == r[k]
               b == kept[q]
    <3>1. IsSeq(bar) /\ IsSeq(a) /\ IsSeq(b)
      BY <1>1, <2>4
    <3> HIDE DEF bar, a, b
    <3>2. (a \o bar) \o b = a \o (bar \o b)
      BY <3>1, JoinAssoc
    <3> QED
      BY <3>2 DEF bar, a, b
  <2>7. IsSeq(base[q]) /\ IsSeq(base[q] \o kept[q])
    <3>1. IsSeq(base[q])
      BY <2>3, <2>4, Appended
    <3> QED
      BY <2>4, <3>1, JoinedSeqs
  <2> QED
    BY <2>3, <2>5, <2>6, <2>7
<1>9. T = Nat
  <2>1. T \in SUBSET Nat
    OBVIOUS
  <2> HIDE DEF T
  <2> QED
    BY <1>7, <1>8, <2>1, Reached
<1>10. ASSUME NEW k \in 1 .. n PROVE So(k)
  <2> DEFINE l == k - 1
  <2>1. l \in Nat /\ l + 1 = k /\ k <= n
    BY <1>1
  <2> HIDE DEF l, So
  <2>2. l \in T
    BY <1>9, <2>1
  <2> QED
    BY <2>1, <2>2
<1>11. ASSUME NEW k \in 1 .. n - 1 PROVE base[k + 1] = Append(base[k] \o kept[k], Bar)
  <2>1. k + 1 \in 2 .. n /\ (k + 1) - 1 = k /\ k \in 1 .. n
    BY <1>1
  <2>2. base[k + 1] = Append(r[k], Bar)
    BY <1>6, <2>1
  <2> QED
    BY <1>10, <2>1, <2>2
<1>12. Joined(kept, <<Bar>>) = base[n] \o kept[n]
  <2>1. n \in 1 .. n
    BY <1>1
  <2> QED
    BY <1>3, <1>5, <1>10, <2>1
<1>13. Chain(kept, base)
  BY <1>6, <1>10, <1>11, <1>12 DEF Chain
<1> QED
  BY <1>13

(* The stages fit: what is kept of the first k of them, and a bar after    *)
(* each, is no longer than place[k].                                       *)
Fits(words, place, n) ==
  /\ place[0] = 0
  /\ \A k \in 0 .. n : place[k] \in Nat /\ place[k] <= MaxArgs + 1
  /\ \A k \in 1 .. n : place[k - 1] + Len(words[k]) + 1 <= place[k]

(* What is kept of the words of each stage.                                *)
KeptOf(words, kept, n) ==
  /\ WordList(kept) /\ Len(kept) = n
  /\ \A k \in 1 .. n - 1 : kept[k] = NoEmpty(words[k])
  /\ kept[n] = LastKept(words[n])

Bars == <<Space, "|", Space>>

(* A bar stands after what has been read so far.                           *)
BarFollows(line, e, w, ts, full) ==
  /\ IsSeq(line) /\ e \in Nat /\ e + 3 <= Len(line) /\ IsSeq(full) /\ Len(full) < MaxArgs
  /\ line[e + 1] = Space /\ line[e + 2] = "|" /\ line[e + 3] = Space
  /\ full = IF w # <<>> THEN Append(ts, w) ELSE ts
  /\ LexAfter(line)[e] = St("plain", w, On, ts)

LEMMA BarIsRead ==
  ASSUME NEW line, NEW e, NEW w, NEW ts, NEW full, BarFollows(line, e, w, ts, full)
  PROVE  LexAfter(line)[e + 3] = St("plain", <<>>, Off, Append(full, Bar))
<1>1. /\ IsSeq(line) /\ e \in Nat /\ e + 3 <= Len(line) /\ IsSeq(full) /\ Len(full) < MaxArgs
      /\ line[e + 1] = Space /\ line[e + 2] = "|" /\ line[e + 3] = Space
  BY DEF BarFollows
<1>2. (full = IF w # <<>> THEN Append(ts, w) ELSE ts) /\ LexAfter(line)[e] = St("plain", w, On, ts)
  BY DEF BarFollows
<1> QED
  BY <1>1, <1>2, BarRead

(* Each stage is a line of its own.                                        *)
LinesOf(stages, texts, n) == stages = [k \in 1 .. n |-> Joined(texts[k], <<Space>>)]

(* A line of stages that fit, and what is kept of it.                      *)
LineWritten(n, texts, words, place, kept, stages, line) ==
  /\ n \in Nat \ {0} /\ \A k \in 1 .. n : WrittenAs(texts[k], words[k])
  /\ Fits(words, place, n) /\ KeptOf(words, kept, n) /\ LinesOf(stages, texts, n)
  /\ line = Joined(stages, Bars)

LEMMA LineLexed ==
  ASSUME NEW n, NEW texts, NEW words, NEW place, NEW kept, NEW stages, NEW line,
         LineWritten(n, texts, words, place, kept, stages, line)
  PROVE  /\ IsSeq(line) /\ WordList(stages)
         /\ \E w, ts : /\ LexAfter(line)[Len(line)] = St("plain", w, On, ts)
                       /\ Append(ts, w) = Joined(kept, <<Bar>>)
<1> DEFINE st == LexAfter(line)
<1>1. IsSeq(Bars) /\ Len(Bars) = 3 /\ Bars[1] = Space /\ Bars[2] = "|" /\ Bars[3] = Space
  <2>1. ASSUME NEW a, NEW b PROVE <<a, b, a>> \in Seq({a, b}) /\ Len(<<a, b, a>>) = 3
    OBVIOUS
  <2>2. ASSUME NEW a, NEW b PROVE IsSeq(<<a, b, a>>) /\ Len(<<a, b, a>>) = 3
    BY <2>1 DEF IsSeq
  <2> QED
    BY <2>2 DEF Bars
<1>23. n \in Nat \ {0} /\ \A k \in 1 .. n : WrittenAs(texts[k], words[k])
  BY DEF LineWritten
<1>24. Fits(words, place, n) /\ KeptOf(words, kept, n) /\ LinesOf(stages, texts, n)
  BY DEF LineWritten
<1>25. line = Joined(stages, Bars)
  BY DEF LineWritten
<1> USE <1>23, <1>24, <1>25
<1>22. stages = [k \in 1 .. n |-> Joined(texts[k], <<Space>>)]
  BY DEF LinesOf
<1>2. ASSUME NEW k \in 1 .. n
      PROVE  /\ IsSeq(stages[k]) /\ stages[k] = Joined(texts[k], <<Space>>)
             /\ WordList(words[k]) /\ Len(words[k]) \in Nat \ {0}
  <2>1. WrittenAs(texts[k], words[k])
    OBVIOUS
  <2>2. WordList(texts[k]) /\ WordList(words[k]) /\ Len(texts[k]) # 0 /\ Len(words[k]) \in Nat \ {0}
    BY <2>1, SequenceFacts DEF WrittenAs, WordList
  <2>3. \E pos : Spread(texts[k], <<Space>>, pos)
    BY <2>2, JoinedSpreads, EmptyFacts
  <2>4. IsSeq(Joined(texts[k], <<Space>>))
    BY <2>3 DEF Spread
  <2>5. stages[k] = Joined(texts[k], <<Space>>)
    BY <1>22
  <2> QED
    BY <2>2, <2>4, <2>5
<1>3. IsSeq(stages) /\ Len(stages) = n
  <2>1. stages = [k \in 1 .. n |-> stages[k]]
    BY <1>22
  <2> QED
    BY <2>1, ListedIsSeq
<1>4. WordList(stages)
  BY <1>2, <1>3, SequenceFacts DEF WordList
<1>5. PICK pos : Spread(stages, Bars, pos)
  BY <1>1, <1>3, <1>4, JoinedSpreads
<1>6. /\ pos[1] = 0 /\ IsSeq(line)
      /\ \A k \in 1 .. n : /\ pos[k] \in Nat /\ pos[k] + Len(stages[k]) <= Len(line)
                           /\ \A i \in 1 .. Len(stages[k]) : line[pos[k] + i] = stages[k][i]
      /\ pos[n] + Len(stages[n]) = Len(line)
      /\ \A k \in 1 .. n - 1 : /\ pos[k + 1] = pos[k] + Len(stages[k]) + 3
                               /\ \A i \in 1 .. 3 : line[pos[k] + Len(stages[k]) + i] = Bars[i]
  <2> DEFINE m == Len(stages)
             b == Len(Bars)
             J == Joined(stages, Bars)
  <2>1. /\ pos[1] = 0 /\ IsSeq(J)
        /\ \A k \in 1 .. m : /\ pos[k] \in Nat /\ pos[k] + Len(stages[k]) <= Len(J)
                             /\ \A i \in 1 .. Len(stages[k]) : J[pos[k] + i] = stages[k][i]
        /\ pos[m] + Len(stages[m]) = Len(J)
        /\ \A k \in 1 .. m - 1 : /\ pos[k + 1] = pos[k] + Len(stages[k]) + b
                                 /\ \A i \in 1 .. b : J[pos[k] + Len(stages[k]) + i] = Bars[i]
    BY <1>5, Zenon DEF Spread
  <2>2. b = 3 /\ m = n /\ line = J
    BY <1>1, <1>3
  <2> HIDE DEF m, b, J, Bars
  <2> QED
    BY ONLY <2>1, <2>2, Zenon
<1>21. IsSeq(line)
  BY <1>6
<1>7. Len(line) \in Nat /\ MaxArgs \in Nat
  BY <1>6, SequenceFacts, LimitsAssumption
<1>8. ASSUME NEW k \in 1 .. n PROVE Lies(line, pos[k], stages[k]) /\ Len(stages[k]) \in Nat /\ pos[k] \in Nat
  BY <1>2, <1>6, SequenceFacts DEF Lies
<1>9. WordList(kept) /\ Len(kept) = n /\ n \in 1 .. n
  BY DEF KeptOf
<1>10. PICK base : Chain(kept, base)
  BY <1>9, ChainIs
<1>11. /\ base[1] = <<>>
       /\ \A k \in 1 .. n : IsSeq(base[k]) /\ IsSeq(base[k] \o kept[k]) /\ IsSeq(kept[k])
       /\ \A k \in 1 .. n - 1 : base[k + 1] = Append(base[k] \o kept[k], Bar)
       /\ Joined(kept, <<Bar>>) = base[n] \o kept[n]
  BY <1>9, <1>10, SequenceFacts DEF Chain, WordList
<1>12. /\ place[0] = 0
       /\ \A k \in 0 .. n : place[k] \in Nat /\ place[k] <= MaxArgs + 1
       /\ \A k \in 1 .. n : place[k - 1] + Len(words[k]) + 1 <= place[k]
  BY DEF Fits
<1> HIDE DEF st
<1> DEFINE last(k) == words[k][Len(words[k])]
           before(k) == NoEmpty(Cut(words[k], Len(words[k]) - 1))
<1>13. ASSUME NEW k \in 1 .. n
       PROVE  /\ NoEmpty(words[k]) = IF last(k) # <<>> THEN Append(before(k), last(k)) ELSE before(k)
              /\ WordList(before(k)) /\ LastKept(words[k]) = Append(before(k), last(k))
              /\ IsSeq(NoEmpty(words[k])) /\ Len(NoEmpty(words[k])) <= Len(words[k])
  <2>1. WordList(words[k]) /\ Len(words[k]) # 0
    BY <1>2
  <2> DEFINE w == words[k]
  <2> HIDE DEF w
  <2>2. WordList(w) /\ Len(w) # 0
    BY <2>1 DEF w
  <2>3. /\ NoEmpty(w) = IF w[Len(w)] # <<>> THEN Append(NoEmpty(Cut(w, Len(w) - 1)), w[Len(w)])
                        ELSE NoEmpty(Cut(w, Len(w) - 1))
        /\ WordList(NoEmpty(Cut(w, Len(w) - 1)))
    BY <2>2, LastWord
  <2>4. IsSeq(NoEmpty(w)) /\ Len(NoEmpty(w)) <= Len(w)
    BY <2>2, NoEmptyIsWords, NoEmptyShorter DEF WordList
  <2> QED
    BY <2>3, <2>4 DEF w, LastKept
<1> HIDE DEF last, before
<1> DEFINE Begins(k) == /\ \E h : st[pos[k]] = St("plain", <<>>, h, base[k])
                        /\ Len(base[k]) <= place[k - 1]
           T == {l \in Nat : l + 1 <= n => Begins(l + 1)}
<1>14. ASSUME NEW k \in 1 .. n, Begins(k)
       PROVE  st[pos[k] + Len(stages[k])] = St("plain", last(k), On, base[k] \o before(k))
  <2>1. PICK h : st[pos[k]] = St("plain", <<>>, h, base[k])
    BY <1>14
  <2>2. IsSeq(base[k]) /\ Len(base[k]) + Len(words[k]) <= MaxArgs
    <3> DEFINE a == Len(base[k])
               b == Len(words[k])
               c == place[k - 1]
               d == place[k]
    <3>1. a \in Nat /\ b \in Nat /\ a <= c /\ c + b + 1 <= d /\ d <= MaxArgs + 1
      <4>1. k - 1 \in 0 .. n /\ k \in 0 .. n
        OBVIOUS
      <4>2. IsSeq(base[k])
        BY <1>11
      <4>3. a \in Nat /\ b \in Nat /\ a <= c
        BY <1>2, <1>14, <4>2, SequenceFacts
      <4> QED
        BY <1>12, <4>1, <4>3
    <3>2. c \in Nat /\ d \in Nat
      BY <1>12
    <3> HIDE DEF a, b, c, d
    <3>3. a + b <= MaxArgs
      BY <1>7, <3>1, <3>2
    <3> QED
      BY <1>11, <3>3 DEF a, b
  <2>3. WrittenAs(texts[k], words[k]) /\ Lies(line, pos[k], Joined(texts[k], <<Space>>))
    BY <1>2, <1>8
  <2> DEFINE t == texts[k]
             w == words[k]
             p == pos[k]
             b == base[k]
  <2>5. /\ WrittenAs(t, w) /\ Lies(line, p, Joined(t, <<Space>>)) /\ IsSeq(b) /\ Len(b) + Len(w) <= MaxArgs
        /\ LexAfter(line)[p] = St("plain", <<>>, h, b)
    BY <2>1, <2>2, <2>3 DEF st
  <2> HIDE DEF t, w, p, b
  <2>6. LexAfter(line)[p + Len(Joined(t, <<Space>>))] = St("plain", w[Len(w)], On, b \o NoEmpty(Cut(w, Len(w) - 1)))
    BY <1>21, <2>5, WordsLexed
  <2>4. LexAfter(line)[pos[k] + Len(Joined(texts[k], <<Space>>))]
           = St("plain", words[k][Len(words[k])], On, base[k] \o NoEmpty(Cut(words[k], Len(words[k]) - 1)))
    BY <2>6 DEF t, w, p, b
  <2> QED
    BY <1>2, <2>4 DEF st, last, before
<1>15. 0 \in T
  <2>1. 0 + 1 = 1 /\ 1 - 1 = 0 /\ Len(<<>>) = 0
    OBVIOUS
  <2>2. st[0] = LexStart
    BY <1>7, LexSteps DEF st
  <2>3. LexStart = St("plain", <<>>, Off, <<>>)
    BY DEF LexStart, St, Whole, Off
  <2>4. Begins(1)
    BY <1>6, <1>11, <1>12, <2>1, <2>2, <2>3
  <2> HIDE DEF Begins
  <2> QED
    BY <2>1, <2>4
<1>16. ASSUME NEW l \in T PROVE l + 1 \in T
  <2> DEFINE k == l + 1
             q == k + 1
             e == pos[k] + Len(stages[k])
             ts == base[k] \o before(k)
             full == base[k] \o kept[k]
  <2>1. SUFFICES ASSUME q <= n PROVE Begins(q)
    <3> HIDE DEF Begins
    <3> QED
      OBVIOUS
  <2>2. k \in 1 .. n /\ k \in 1 .. n - 1 /\ q \in 1 .. n /\ q - 1 = k /\ k <= n /\ k + 1 = q
    BY <2>1
  <2>3. Begins(k)
    <3> HIDE DEF Begins
    <3> QED
      BY <2>2
  <2>4. st[e] = St("plain", last(k), On, ts)
    BY <1>14, <2>2, <2>3
  <2> HIDE DEF k, q
  <2>5. full = IF last(k) # <<>> THEN Append(ts, last(k)) ELSE ts
    <3>1. kept[k] = NoEmpty(words[k])
      BY <2>2 DEF KeptOf
    <3>2. kept[k] = IF last(k) # <<>> THEN Append(before(k), last(k)) ELSE before(k)
      BY <1>13, <2>2, <3>1
    <3>3. IsSeq(base[k]) /\ IsSeq(before(k))
      BY <1>11, <1>13, <2>2 DEF WordList
    <3> DEFINE a == base[k]
               b == before(k)
               v == last(k)
    <3>5. IsSeq(a) /\ IsSeq(b)
      BY <3>3
    <3> HIDE DEF a, b, v
    <3>4. a \o Append(b, v) = Append(a \o b, v)
      BY <3>5, JoinRules
    <3> QED
      BY <3>2, <3>4 DEF a, b, v
  <2>6. IsSeq(full) /\ Len(full) + 1 <= place[k] /\ Len(full) < MaxArgs
    <3> DEFINE a == Len(base[k])
               b == Len(words[k])
               c == place[k - 1]
               d == place[k]
               f == Len(kept[k])
               g == Len(full)
               w == Len(words[q])
               z == place[q]
    <3>1. IsJoin(full, base[k], kept[k])
      BY <1>11, <2>2, JoinFacts
    <3>2. IsSeq(full) /\ g = a + f /\ a \in Nat /\ f \in Nat
      BY <3>1 DEF IsJoin
    <3>3. f <= b /\ b \in Nat /\ w \in Nat \ {0}
      <4>1. kept[k] = NoEmpty(words[k])
        BY <2>2 DEF KeptOf
      <4> QED
        BY <1>2, <1>13, <2>2, <4>1
    <3>4. a <= c /\ c + b + 1 <= d /\ d + w + 1 <= z /\ z <= MaxArgs + 1 /\ c \in Nat /\ d \in Nat /\ z \in Nat
      <4>1. k - 1 \in 0 .. n /\ k \in 0 .. n /\ q \in 0 .. n
        BY <2>2
      <4>2. a <= c
        BY <2>3
      <4> QED
        BY <1>12, <2>2, <4>1, <4>2
    <3> HIDE DEF a, b, c, d, f, g, w, z, full
    <3>5. g + 1 <= d /\ g < MaxArgs
      BY <1>7, <3>2, <3>3, <3>4
    <3> QED
      BY <3>2, <3>5 DEF g, d
  <2>7. e \in Nat /\ e + 3 <= Len(line) /\ pos[q] = e + 3
    <3> DEFINE a == pos[k]
               b == Len(stages[k])
               c == pos[q]
               d == Len(stages[q])
               m == Len(line)
    <3>1. a \in Nat /\ b \in Nat /\ c \in Nat /\ d \in Nat
      BY <1>8, <2>2
    <3>2. c + d <= m /\ c = a + b + 3
      BY <1>6, <2>2
    <3>3. m \in Nat
      BY <1>7
    <3> HIDE DEF a, b, c, d, m
    <3>4. a + b \in Nat /\ (a + b) + 3 <= m /\ c = (a + b) + 3
      BY <3>1, <3>2, <3>3
    <3> QED
      BY <3>4 DEF a, b, c, m
  <2>8. line[e + 1] = Space /\ line[e + 2] = "|" /\ line[e + 3] = Space
    <3>1. 1 \in 1 .. 3 /\ 2 \in 1 .. 3 /\ 3 \in 1 .. 3
      OBVIOUS
    <3> QED
      BY <1>1, <1>6, <2>2, <3>1
  <2> HIDE DEF e, ts, full
  <2>9. st[e + 3] = St("plain", <<>>, Off, Append(full, Bar))
    <3> DEFINE v == last(k)
    <3>1. /\ IsSeq(line) /\ e \in Nat /\ e + 3 <= Len(line) /\ IsSeq(full) /\ Len(full) < MaxArgs
          /\ line[e + 1] = Space /\ line[e + 2] = "|" /\ line[e + 3] = Space
      BY <1>6, <2>6, <2>7, <2>8
    <3>2. LexAfter(line)[e] = St("plain", v, On, ts) /\ full = IF v # <<>> THEN Append(ts, v) ELSE ts
      BY <2>4, <2>5 DEF st
    <3> HIDE DEF v
    <3>4. BarFollows(line, e, v, ts, full)
      BY <3>1, <3>2, Zenon DEF BarFollows
    <3>3. LexAfter(line)[e + 3] = St("plain", <<>>, Off, Append(full, Bar))
      BY <3>4, BarIsRead
    <3> QED
      BY <3>3 DEF st
  <2>10. base[q] = Append(full, Bar)
    BY <1>11, <2>2 DEF full
  <2>11. Len(base[q]) <= place[k]
    <3>1. Len(base[q]) = Len(full) + 1
      BY <2>6, <2>10, Appended
    <3> QED
      BY <2>6, <3>1
  <2> QED
    BY <2>2, <2>7, <2>9, <2>10, <2>11
<1>17. T = Nat
  <2>1. T \in SUBSET Nat
    OBVIOUS
  <2> HIDE DEF T
  <2> QED
    BY <1>15, <1>16, <2>1, Reached
<1>18. Begins(n)
  <2> DEFINE l == n - 1
  <2>1. l \in Nat /\ l + 1 = n /\ n <= n
    OBVIOUS
  <2> HIDE DEF l, Begins
  <2>2. l \in T
    BY <1>17, <2>1
  <2> QED
    BY <2>1, <2>2
<1>19. st[Len(line)] = St("plain", last(n), On, base[n] \o before(n))
  BY <1>6, <1>9, <1>14, <1>18
<1>20. Append(base[n] \o before(n), last(n)) = Joined(kept, <<Bar>>)
  <2>1. kept[n] = Append(before(n), last(n))
    BY <1>9, <1>13 DEF KeptOf
  <2>2. IsSeq(base[n]) /\ IsSeq(before(n))
    BY <1>9, <1>11, <1>13 DEF WordList
  <2> DEFINE a == base[n]
             b == before(n)
             v == last(n)
  <2>4. IsSeq(a) /\ IsSeq(b)
    BY <2>2
  <2> HIDE DEF a, b, v
  <2>3. a \o Append(b, v) = Append(a \o b, v)
    BY <2>4, JoinRules
  <2> QED
    BY <1>11, <2>1, <2>3 DEF a, b, v
<1> QED
  BY <1>4, <1>6, <1>19, <1>20 DEF st

------------------------------------------------------------------------------
(* What was put together with bars is taken apart at the bars. *)

LEMMA PieceIs ==
  ASSUME NEW J, IsSeq(J), NEW w, IsSeq(w), NEW p \in Nat, p + Len(w) <= Len(J),
         \A i \in 1 .. Len(w) : J[p + i] = w[i]
  PROVE  SubSeq(J, p + 1, p + Len(w)) = w
<1> DEFINE m == Len(w)
           n == Len(J)
           f == [i \in 1 .. m |-> J[p + i]]
<1>1. m \in Nat /\ n \in Nat /\ p + m <= n /\ \A i \in 1 .. m : J[p + i] = w[i]
  BY SequenceFacts
<1>2. PICK S : J \in Seq(S)
  BY DEF IsSeq
<1>3. SubSeq(J, p + 1, p + m) = [i \in 1 .. m |-> J[i + (p + 1) - 1]]
  <2> HIDE DEF m
  <2>1. (p + m) - (p + 1) + 1 = m
    BY <1>1
  <2> QED
    BY <1>1, <1>2, <2>1
<1> HIDE DEF m, n
<1>4. \A i \in 1 .. m : i + (p + 1) - 1 = p + i
  BY <1>1
<1>5. SubSeq(J, p + 1, p + m) = f
  BY <1>3, <1>4
<1>6. IsSeq(f) /\ Len(f) = m
  BY <1>1, ListedIsSeq
<1>7. \A i \in 1 .. m : f[i] = w[i]
  BY <1>1
<1> HIDE DEF f
<1>8. f = w
  <2>1. Len(f) = Len(w)
    BY <1>6 DEF m
  <2> QED
    BY <1>6, <1>7, <2>1, SameSeq
<1> QED
  BY <1>5, <1>8 DEF m

(* No bar in any of the pieces: the bars are those in between.             *)
NoBars(kept) == WordList(kept) /\ Len(kept) # 0 /\ \A k \in 1 .. Len(kept) : \A i \in 1 .. Len(kept[k]) : kept[k][i] # Bar

LEMMA PartsOfJoined ==
  ASSUME NEW kept, NoBars(kept) PROVE Parts(Joined(kept, <<Bar>>)) = kept
<1> DEFINE J == Joined(kept, <<Bar>>)
           n == Len(kept)
           z == Len(J)
           P == {i \in DOMAIN J : J[i] \in {Bar}}
<1>1. IsSeq(<<Bar>>) /\ Len(<<Bar>>) = 1 /\ <<Bar>>[1] = Bar
  BY EmptyFacts
<1>2. WordList(kept) /\ n \in Nat \ {0} /\ IsSeq(kept) /\ DOMAIN kept = 1 .. n
  BY SequenceFacts DEF NoBars, WordList
<1>3. PICK pos : Spread(kept, <<Bar>>, pos)
  BY <1>1, <1>2, JoinedSpreads
<1>4. /\ pos[1] = 0 /\ IsSeq(J)
      /\ \A k \in 1 .. n : /\ pos[k] \in Nat /\ pos[k] + Len(kept[k]) <= z
                           /\ \A i \in 1 .. Len(kept[k]) : J[pos[k] + i] = kept[k][i]
      /\ pos[n] + Len(kept[n]) = z
      /\ \A k \in 1 .. n - 1 : /\ pos[k + 1] = pos[k] + Len(kept[k]) + 1
                               /\ \A i \in 1 .. 1 : J[pos[k] + Len(kept[k]) + i] = Bar
  <2> DEFINE b == Len(<<Bar>>)
  <2>1. /\ pos[1] = 0 /\ IsSeq(J)
        /\ \A k \in 1 .. n : /\ pos[k] \in Nat /\ pos[k] + Len(kept[k]) <= z
                             /\ \A i \in 1 .. Len(kept[k]) : J[pos[k] + i] = kept[k][i]
        /\ pos[n] + Len(kept[n]) = z
        /\ \A k \in 1 .. n - 1 : /\ pos[k + 1] = pos[k] + Len(kept[k]) + b
                                 /\ \A i \in 1 .. b : J[pos[k] + Len(kept[k]) + i] = <<Bar>>[i]
    BY <1>3, Zenon DEF Spread
  <2>2. b = 1 /\ \A i \in 1 .. 1 : <<Bar>>[i] = Bar
    BY <1>1
  <2> HIDE DEF b, n, z, J
  <2> QED
    BY <2>1, <2>2
<1> HIDE DEF J
<1>5. z \in Nat /\ DOMAIN J = 1 .. z
  BY <1>4, SequenceFacts
<1> HIDE DEF z
<1>6. \A k \in 1 .. n : Len(kept[k]) \in Nat /\ IsSeq(kept[k])
  BY <1>2, SequenceFacts DEF WordList
<1>7. \A k \in 1 .. n : \A i \in 1 .. Len(kept[k]) : kept[k][i] # Bar
  BY DEF NoBars
<1> DEFINE end(k) == pos[k] + Len(kept[k])
           f == [k \in 1 .. n - 1 |-> end(k) + 1]
<1>8. ASSUME NEW k \in 1 .. n, NEW p \in Nat, pos[k] < p, p <= end(k) PROVE p \notin P
  <2> DEFINE m == Len(kept[k])
             q == pos[k]
             i == p - q
  <2>1. q \in Nat /\ m \in Nat /\ q < p /\ p <= q + m
    BY <1>4, <1>6, <1>8
  <2>2. i \in 1 .. m /\ q + i = p
    <3> HIDE DEF q, m
    <3> QED
      BY <2>1
  <2> HIDE DEF i
  <2>3. J[p] = kept[k][i]
    BY <1>4, <2>2
  <2>4. J[p] # Bar
    BY <1>7, <2>2, <2>3
  <2> QED
    BY <2>4
<1>9. ASSUME NEW k \in 1 .. n - 1
      PROVE  /\ k \in 1 .. n /\ k + 1 \in 1 .. n /\ f[k] = end(k) + 1 /\ f[k] = pos[k + 1] /\ f[k] \in Nat
             /\ end(k) \in Nat /\ f[k] <= z /\ f[k] >= 1 /\ J[f[k]] = Bar /\ pos[k] \in Nat /\ pos[k] <= end(k)
  <2>1. k \in 1 .. n /\ k + 1 \in 1 .. n
    BY <1>2
  <2>2. f[k] = end(k) + 1
    OBVIOUS
  <2>3. pos[k] \in Nat /\ Len(kept[k]) \in Nat /\ pos[k + 1] \in Nat /\ Len(kept[k + 1]) \in Nat
    BY <1>4, <1>6, <2>1
  <2>4. pos[k + 1] = end(k) + 1 /\ pos[k + 1] + Len(kept[k + 1]) <= z
    BY <1>4, <2>1
  <2>5. end(k) \in Nat /\ pos[k] <= end(k)
    BY <2>3
  <2>6. J[end(k) + 1] = Bar
    <3>1. 1 \in 1 .. 1
      OBVIOUS
    <3> QED
      BY <1>4, <3>1
  <2> HIDE DEF end, f
  <2>7. pos[k + 1] <= z
    BY <1>5, <2>3, <2>4
  <2> QED
    BY <2>1, <2>2, <2>3, <2>4, <2>5, <2>6, <2>7
<1>10. IsSeq(f) /\ Len(f) = n - 1
  <2>1. n - 1 \in Nat /\ f = [k \in 1 .. n - 1 |-> f[k]]
    BY <1>2
  <2> HIDE DEF f, n
  <2> DEFINE m == n - 1
  <2> HIDE DEF m
  <2>2. m \in Nat /\ f = [k \in 1 .. m |-> f[k]]
    BY <2>1 DEF m
  <2>3. IsSeq(f) /\ Len(f) = m
    BY <2>2, ListedIsSeq
  <2> QED
    BY <2>3 DEF m
<1> HIDE DEF f, n
<1> DEFINE Before(l) == /\ \A i \in 1 .. l : f[i] <= pos[l + 1]
                        /\ \A p \in 1 .. pos[l + 1] : p \in P => \E i \in 1 .. l : f[i] = p
           T == {l \in Nat : l + 1 <= n => Before(l)}
<1>11. 0 \in T
  <2>1. pos[0 + 1] = 0
    BY <1>4
  <2>2. Before(0)
    BY <2>1
  <2> HIDE DEF Before
  <2> QED
    BY <2>2
<1>12. ASSUME NEW l \in T PROVE l + 1 \in T
  <2> DEFINE k == l + 1
             q == k + 1
  <2>1. SUFFICES ASSUME q <= n PROVE Before(k)
    <3> HIDE DEF Before
    <3> QED
      OBVIOUS
  <2>2. k \in 1 .. n - 1 /\ k <= n /\ k \in 1 .. n /\ k \in Nat /\ l \in Nat
    BY <1>2, <2>1
  <2>3. Before(l)
    <3> HIDE DEF Before
    <3> QED
      BY <2>2
  <2>4. /\ \A i \in 1 .. l : f[i] <= pos[k]
        /\ \A p \in 1 .. pos[k] : p \in P => \E i \in 1 .. l : f[i] = p
    BY <2>3
  <2>5. /\ f[k] = end(k) + 1 /\ f[k] = pos[q] /\ pos[k] \in Nat /\ pos[k] <= end(k) /\ end(k) \in Nat
    BY <1>9, <2>2
  <2>6. ASSUME NEW i \in 1 .. l PROVE f[i] \in Nat
    <3>1. i \in 1 .. n - 1
      BY <1>2, <2>2
    <3> QED
      BY <1>9, <3>1
  <2> HIDE DEF end, P
  <2>7. ASSUME NEW i \in 1 .. k PROVE f[i] <= pos[q]
    <3>1. i \in 1 .. l \/ i = k
      BY <2>2
    <3>2. CASE i = k
      BY <2>5, <3>2
    <3>3. CASE i \in 1 .. l
      <4>1. f[i] \in Nat /\ f[i] <= pos[k]
        BY <2>4, <2>6, <3>3
      <4> HIDE DEF k, q
      <4> QED
        BY <2>5, <4>1
    <3> QED
      BY <3>1, <3>2, <3>3
  <2>8. ASSUME NEW p \in 1 .. pos[q], p \in P PROVE \E i \in 1 .. k : f[i] = p
    <3>1. p \in 1 .. pos[k] \/ (pos[k] < p /\ p <= end(k)) \/ p = f[k]
      <4> HIDE DEF k, q
      <4>1. p \in Nat /\ p >= 1 /\ p <= end(k) + 1
        BY <2>5
      <4> QED
        BY <2>5, <4>1
    <3>2. CASE p \in 1 .. pos[k]
      <4>1. PICK i \in 1 .. l : f[i] = p
        BY <2>4, <2>8, <3>2
      <4>2. i \in 1 .. k
        BY <2>2
      <4> QED
        BY <4>1, <4>2
    <3>3. CASE pos[k] < p /\ p <= end(k)
      <4>1. p \in Nat
        BY <2>5
      <4> QED
        BY <1>8, <2>2, <2>8, <3>3, <4>1
    <3>4. CASE p = f[k]
      <4>1. k \in 1 .. k
        BY <2>2
      <4> QED
        BY <3>4, <4>1
    <3> QED
      BY <3>1, <3>2, <3>3, <3>4
  <2> QED
    BY <2>7, <2>8
<1>13. T = Nat
  <2>1. T \in SUBSET Nat
    OBVIOUS
  <2> HIDE DEF T
  <2> QED
    BY <1>11, <1>12, <2>1, Reached
<1>14. ASSUME NEW l \in Nat, l + 1 <= n
       PROVE  /\ \A i \in 1 .. l : f[i] <= pos[l + 1]
              /\ \A p \in 1 .. pos[l + 1] : p \in P => \E i \in 1 .. l : f[i] = p
  <2>1. Before(l)
    <3> HIDE DEF Before
    <3>1. l \in T
      BY <1>13
    <3> QED
      BY <1>14, <3>1
  <2> QED
    BY <2>1
<1> HIDE DEF T, Before
<1>15. \A i \in 1 .. Len(f) : f[i] \in 1 .. z /\ f[i] \in P
  BY <1>5, <1>9, <1>10
<1>16. ASSUME NEW i \in 1 .. Len(f), NEW j \in 1 .. Len(f), i < j PROVE f[i] < f[j]
  <2> DEFINE l == j - 1
  <2>1. i \in 1 .. n - 1 /\ j \in 1 .. n - 1 /\ l \in Nat /\ l + 1 = j /\ l + 1 <= n /\ i \in 1 .. l
    BY <1>2, <1>10, <1>16
  <2> HIDE DEF l
  <2>2. f[i] <= pos[j]
    BY <1>14, <2>1
  <2>3. f[i] \in Nat /\ f[j] = end(j) + 1 /\ pos[j] \in Nat /\ pos[j] <= end(j) /\ end(j) \in Nat
    BY <1>9, <2>1
  <2> HIDE DEF end
  <2> QED
    BY <2>2, <2>3
<1>17. ASSUME NEW p \in 1 .. z, p \in P PROVE \E i \in 1 .. Len(f) : f[i] = p
  <2> DEFINE l == n - 1
  <2>1. l \in Nat /\ l + 1 = n /\ l + 1 <= n /\ n \in 1 .. n
    BY <1>2
  <2> HIDE DEF l
  <2>2. Len(f) = l
    BY <1>10 DEF l
  <2>3. pos[n] \in Nat /\ end(n) = z
    BY <1>4, <2>1
  <2>4. p \in 1 .. pos[n]
    <3>1. p \in Nat /\ p >= 1 /\ p <= end(n)
      BY <1>5, <2>3
    <3>2. ~(pos[n] < p)
      BY <1>8, <1>17, <2>1, <3>1
    <3> HIDE DEF P
    <3> QED
      BY <2>3, <3>1, <3>2
  <2>5. \A r \in 1 .. pos[l + 1] : r \in P => \E i \in 1 .. l : f[i] = r
    BY <1>14, <2>1
  <2> HIDE DEF P
  <2> QED
    BY <1>17, <2>1, <2>2, <2>4, <2>5
<1>18. InOrder(P, z) = f
  <2> HIDE DEF P
  <2> QED
    BY <1>5, <1>10, <1>15, <1>16, <1>17, OrderIs
<1> DEFINE From(k) == IF k = 1 THEN 1 ELSE f[k - 1] + 1
           To(k) == IF k > Len(f) THEN z ELSE f[k] - 1
<1>19. Parts(J) = [k \in 1 .. Len(f) + 1 |-> SubSeq(J, From(k), To(k))]
  BY <1>18 DEF Parts, SplitBy, SplitAt, z
<1>20. Len(f) + 1 = n
  BY <1>2, <1>10
<1>21. ASSUME NEW k \in 1 .. n PROVE SubSeq(J, From(k), To(k)) = kept[k]
  <2>1. From(k) = pos[k] + 1
    <3>1. CASE k = 1
      BY <1>4, <3>1
    <3>2. CASE k # 1
      <4> DEFINE l == k - 1
      <4>1. l \in 1 .. n - 1 /\ l + 1 = k
        BY <1>2, <3>2
      <4> HIDE DEF l
      <4>2. f[l] = pos[k]
        BY <1>9, <4>1
      <4> QED
        BY <3>2, <4>2 DEF l
    <3> QED
      BY <3>1, <3>2
  <2>2. To(k) = pos[k] + Len(kept[k])
    <3>1. CASE k = n
      BY <1>2, <1>4, <1>10, <3>1
    <3>2. CASE k # n
      <4>1. k \in 1 .. n - 1 /\ ~(k > Len(f))
        BY <1>2, <1>10, <3>2
      <4>2. f[k] = end(k) + 1 /\ end(k) \in Nat
        BY <1>9, <4>1
      <4>3. f[k] - 1 = end(k)
        <5> HIDE DEF end
        <5> QED
          BY <4>2
      <4> QED
        BY <4>1, <4>3
    <3> QED
      BY <3>1, <3>2
  <2>3. /\ pos[k] \in Nat /\ pos[k] + Len(kept[k]) <= Len(J) /\ IsSeq(kept[k])
        /\ \A i \in 1 .. Len(kept[k]) : J[pos[k] + i] = kept[k][i]
    BY <1>4, <1>6 DEF z
  <2> DEFINE q == pos[k]
             w == kept[k]
  <2>4. q \in Nat /\ q + Len(w) <= Len(J) /\ IsSeq(w) /\ \A i \in 1 .. Len(w) : J[q + i] = w[i]
    BY <2>3
  <2> HIDE DEF q, w
  <2>5. SubSeq(J, q + 1, q + Len(w)) = w
    BY <1>4, <2>4, PieceIs
  <2> QED
    BY <2>1, <2>2, <2>5 DEF q, w
<1>22. Parts(J) = [k \in 1 .. n |-> kept[k]]
  <2> HIDE DEF From, To
  <2> QED
    BY <1>19, <1>20, <1>21
<1>23. kept = [k \in 1 .. n |-> kept[k]]
  BY <1>2 DEF IsSeq
<1> QED
  BY <1>22, <1>23 DEF J

------------------------------------------------------------------------------
(* The words of a stage are taken apart into its arguments and             *)
(* redirections. *)

StageWords(h, redirs) ==
  /\ IsSeq(h) /\ Len(h) # 0 /\ \A k \in 1 .. Len(h) : h[k] \notin Operators
  /\ IsSeq(redirs)
  /\ \A r \in 1 .. Len(redirs) : redirs[r].op \in Operators /\ redirs[r].target \notin Operators

LEMMA StageTaken ==
  ASSUME NEW h, NEW redirs, StageWords(h, redirs)
  PROVE  LET K == h \o PairsOf(redirs)
         IN  /\ ArgvOf(K) = h /\ SplitOk(K) /\ K # <<>> /\ IsSeq(K)
             /\ RedirectionsOf(K) =
                  [r \in 1 .. Len(redirs) |-> [op |-> redirs[r].op, target |-> redirs[r].target]]
<1> DEFINE K == h \o PairsOf(redirs)
           m == Len(h)
           n == Len(redirs)
           z == Len(K)
           ops == OperatorsAt(K)
           f == [r \in 1 .. n |-> m + (2 * r - 1)]
           g == [i \in 1 .. m |-> i]
           argvs == {i \in DOMAIN K : i \notin ops /\ i - 1 \notin ops}
<1>1. IsSeq(h) /\ m \in Nat \ {0} /\ IsSeq(redirs) /\ n \in Nat
  BY SequenceFacts DEF StageWords
<1>2. /\ IsSeq(PairsOf(redirs)) /\ Len(PairsOf(redirs)) = 2 * n
      /\ \A r \in 1 .. n : /\ PairsOf(redirs)[2 * r - 1] = redirs[r].op
                           /\ PairsOf(redirs)[2 * r] = redirs[r].target
  BY <1>1, PairsAre
<1>3. IsJoin(K, h, PairsOf(redirs))
  BY <1>1, <1>2, JoinFacts
<1>4. /\ IsSeq(K) /\ z = m + 2 * n
      /\ \A i \in 1 .. m : K[i] = h[i]
      /\ \A i \in 1 .. 2 * n : K[m + i] = PairsOf(redirs)[i]
  <2>1. /\ IsSeq(K) /\ z = m + Len(PairsOf(redirs))
        /\ \A i \in 1 .. m : K[i] = h[i]
        /\ \A i \in 1 .. Len(PairsOf(redirs)) : K[m + i] = PairsOf(redirs)[i]
    BY <1>3, Zenon DEF IsJoin
  <2> HIDE DEF K, m, n, z
  <2> QED
    BY <1>2, <2>1
<1>5. z \in Nat /\ DOMAIN K = 1 .. z
  BY <1>4, SequenceFacts
<1> HIDE DEF K, m, n, z
<1>6. ASSUME NEW i \in 1 .. m PROVE K[i] = h[i] /\ i \in 1 .. z /\ i \notin ops
  <2>1. K[i] = h[i] /\ h[i] \notin Operators
    BY <1>4 DEF StageWords, m
  <2>2. i \in 1 .. z
    BY <1>1, <1>4
  <2> QED
    BY <2>1, <2>2 DEF OperatorsAt
<1>7. ASSUME NEW r \in 1 .. n
      PROVE  /\ m + (2 * r - 1) \in ops /\ m + 2 * r \in 1 .. z /\ m + 2 * r \notin ops
             /\ m + (2 * r - 1) \in 1 .. z
             /\ K[m + (2 * r - 1)] = redirs[r].op /\ K[m + 2 * r] = redirs[r].target
  <2>1. 2 * r - 1 \in 1 .. 2 * n /\ 2 * r \in 1 .. 2 * n
    BY <1>1
  <2>2. K[m + (2 * r - 1)] = redirs[r].op /\ K[m + 2 * r] = redirs[r].target
    <3>1. K[m + (2 * r - 1)] = PairsOf(redirs)[2 * r - 1] /\ K[m + 2 * r] = PairsOf(redirs)[2 * r]
      BY <1>4, <2>1
    <3> QED
      BY <1>2, <3>1
  <2>3. m + (2 * r - 1) \in 1 .. z /\ m + 2 * r \in 1 .. z
    BY <1>1, <1>4, <2>1
  <2>4. redirs[r].op \in Operators /\ redirs[r].target \notin Operators
    BY DEF StageWords, n
  <2> QED
    BY <1>5, <2>2, <2>3, <2>4 DEF OperatorsAt
<1>8. ASSUME NEW i \in 1 .. z
      PROVE  i \in 1 .. m \/ \E r \in 1 .. n : i = m + (2 * r - 1) \/ i = m + 2 * r
  <2>1. CASE i <= m
    BY <1>1, <2>1
  <2>2. CASE i > m
    <3> DEFINE j == i - m
    <3>1. j \in 1 .. 2 * n /\ i = m + j
      BY <1>1, <1>4, <2>2
    <3> HIDE DEF j
    <3>2. \E r \in 1 .. n : j = 2 * r - 1 \/ j = 2 * r
      BY <1>1, <3>1, PairPlaces
    <3> QED
      BY <3>1, <3>2
  <2> QED
    BY <1>1, <2>1, <2>2
<1>9. ASSUME NEW i \in ops PROVE i \in 1 .. z /\ \E r \in 1 .. n : i = m + (2 * r - 1)
  <2>1. i \in 1 .. z
    BY <1>5 DEF OperatorsAt
  <2> HIDE DEF ops
  <2> QED
    BY <1>6, <1>7, <1>8, <2>1
<1> HIDE DEF ops
<1>10. IsSeq(f) /\ Len(f) = n
  <2>1. f = [r \in 1 .. n |-> f[r]]
    OBVIOUS
  <2> HIDE DEF f
  <2> QED
    BY <1>1, <2>1, ListedIsSeq
<1>11. InOrder(ops, z) = f
  <2>1. \A r \in 1 .. n : f[r] \in 1 .. z /\ f[r] \in ops
    BY <1>7
  <2>2. ASSUME NEW i \in 1 .. n, NEW j \in 1 .. n, i < j PROVE f[i] < f[j]
    <3>1. m + (2 * i - 1) < m + (2 * j - 1)
      BY <1>1, <2>2
    <3> QED
      BY <3>1
  <2>3. \A p \in 1 .. z : p \in ops => \E r \in 1 .. n : f[r] = p
    BY <1>9
  <2> HIDE DEF f
  <2>4. /\ \A r \in 1 .. Len(f) : f[r] \in 1 .. z /\ f[r] \in ops
        /\ \A i, j \in 1 .. Len(f) : i < j => f[i] < f[j]
        /\ \A p \in 1 .. z : p \in ops => \E r \in 1 .. Len(f) : f[r] = p
    BY <1>10, <2>1, <2>2, <2>3
  <2> QED
    BY <1>5, <1>10, <2>4, OrderIs
<1>12. IsSeq(g) /\ Len(g) = m
  <2>1. g = [r \in 1 .. m |-> g[r]]
    OBVIOUS
  <2> HIDE DEF g
  <2> QED
    BY <1>1, <2>1, ListedIsSeq
<1>13. ASSUME NEW i \in 1 .. m PROVE i \in argvs
  <2>1. i \in 1 .. z /\ i \notin ops
    BY <1>6
  <2>2. i - 1 \notin ops
    <3> SUFFICES ASSUME i - 1 \in ops PROVE FALSE
      OBVIOUS
    <3>1. PICK r \in 1 .. n : i - 1 = m + (2 * r - 1)
      BY <1>9
    <3> QED
      BY <1>1, <3>1
  <2> QED
    BY <1>5, <2>1, <2>2
<1>14. ASSUME NEW i \in 1 .. z, i \in argvs PROVE i \in 1 .. m
  <2>1. i \notin ops /\ i - 1 \notin ops
    BY <1>14
  <2>2. ASSUME NEW r \in 1 .. n PROVE i # m + (2 * r - 1) /\ i # m + 2 * r
    <3>1. m + (2 * r - 1) \in ops
      BY <1>7
    <3>2. (m + 2 * r) - 1 = m + (2 * r - 1)
      BY <1>1
    <3> QED
      BY <2>1, <3>1, <3>2
  <2> HIDE DEF argvs
  <2> QED
    BY <1>8, <2>2
<1>15. InOrder(argvs, z) = g
  <2>1. \A i \in 1 .. m : g[i] = i
    OBVIOUS
  <2> HIDE DEF g, argvs
  <2>2. \A i \in 1 .. Len(g) : g[i] \in 1 .. z /\ g[i] \in argvs
    BY <1>6, <1>12, <1>13, <2>1
  <2>3. \A i, j \in 1 .. Len(g) : i < j => g[i] < g[j]
    BY <1>12, <2>1
  <2>4. \A p \in 1 .. z : p \in argvs => \E i \in 1 .. Len(g) : g[i] = p
    BY <1>12, <1>14, <2>1
  <2> QED
    BY <1>5, <1>12, <2>2, <2>3, <2>4, OrderIs
<1>16. ArgvOf(K) = h
  <2>1. ArgvOf(K) = PickedAt(K, InOrder(argvs, z))
    BY DEF ArgvOf, Picked, z, ops
  <2> HIDE DEF argvs
  <2>2. ArgvOf(K) = [i \in DOMAIN g |-> K[g[i]]]
    BY <1>15, <2>1 DEF PickedAt
  <2>3. DOMAIN g = 1 .. m /\ \A i \in 1 .. m : K[g[i]] = h[i]
    BY <1>6
  <2> HIDE DEF g
  <2>4. ArgvOf(K) = [i \in 1 .. m |-> h[i]]
    BY <2>2, <2>3
  <2>5. h = [i \in 1 .. m |-> h[i]]
    BY <1>1 DEF IsSeq, m
  <2> QED
    BY <2>4, <2>5
<1>17. SplitOk(K)
  <2> SUFFICES ASSUME NEW i \in ops PROVE i < z /\ K[i + 1] \notin Operators
    BY DEF SplitOk, ops, z
  <2>1. PICK r \in 1 .. n : i = m + (2 * r - 1)
    BY <1>9
  <2>2. i + 1 = m + 2 * r /\ i < m + 2 * r
    BY <1>1, <2>1
  <2>3. m + 2 * r \in 1 .. z /\ K[m + 2 * r] = redirs[r].target
    BY <1>7
  <2>4. redirs[r].target \notin Operators
    BY DEF StageWords, n
  <2>5. K[i + 1] \notin Operators
    BY <2>2, <2>3, <2>4
  <2> DEFINE y == m + 2 * r
  <2>6. i + 1 = y /\ i < y /\ y \in 1 .. z /\ i \in Int
    BY <1>1, <2>1, <2>2, <2>3
  <2> HIDE DEF y
  <2>7. i < z
    BY <1>5, <2>6
  <2> QED
    BY <2>5, <2>7
<1>18. RedirectionsOf(K) = [r \in 1 .. n |-> [op |-> redirs[r].op, target |-> redirs[r].target]]
  <2>1. RedirectionsOf(K) = [r \in DOMAIN f |-> [op |-> K[f[r]], target |-> K[f[r] + 1]]]
    BY <1>11 DEF RedirectionsOf, ops, z
  <2>2. DOMAIN f = 1 .. n
    OBVIOUS
  <2>3. ASSUME NEW r \in 1 .. n PROVE K[f[r]] = redirs[r].op /\ K[f[r] + 1] = redirs[r].target
    <3>1. f[r] = m + (2 * r - 1) /\ f[r] + 1 = m + 2 * r
      BY <1>1
    <3> HIDE DEF f
    <3> QED
      BY <1>7, <3>1
  <2> HIDE DEF f
  <2> QED
    BY <2>1, <2>2, <2>3
<1>19. K # <<>>
  BY <1>1, <1>4, EmptyFacts DEF z
<1> QED
  BY <1>4, <1>16, <1>17, <1>18, <1>19 DEF K, n

------------------------------------------------------------------------------
(* What is kept of the words of a stage. *)

LEMMA NoEmptyAll ==
  ASSUME NEW t, WordList(t), \A k \in 1 .. Len(t) : t[k] # <<>> PROVE NoEmpty(t) = t
<1> DEFINE m == Len(t)
           P == {k \in DOMAIN t : t[k] # <<>>}
           g == [i \in 1 .. m |-> i]
<1>1. IsSeq(t) /\ m \in Nat /\ DOMAIN t = 1 .. m
  BY SequenceFacts DEF WordList
<1>2. \A k \in 1 .. m : k \in P
  BY <1>1
<1>3. g = [i \in 1 .. m |-> g[i]] /\ \A i \in 1 .. m : g[i] = i
  OBVIOUS
<1>4. NoEmpty(t) = [i \in DOMAIN InOrder(P, m) |-> t[InOrder(P, m)[i]]]
  BY DEF NoEmpty, Picked, PickedAt
<1>5. DOMAIN g = 1 .. m
  OBVIOUS
<1> HIDE DEF g, P, m
<1>6. IsSeq(g) /\ Len(g) = m
  BY <1>1, <1>3, ListedIsSeq
<1>7. InOrder(P, m) = g
  <2>1. \A i \in 1 .. Len(g) : g[i] \in 1 .. m /\ g[i] \in P
    BY <1>2, <1>3, <1>6
  <2>2. \A i, j \in 1 .. Len(g) : i < j => g[i] < g[j]
    BY <1>3, <1>6
  <2>3. \A p \in 1 .. m : p \in P => \E i \in 1 .. Len(g) : g[i] = p
    BY <1>3, <1>6
  <2>4. m \in Nat /\ IsSeq(g)
    BY <1>1, <1>6
  <2> QED
    BY ONLY <2>1, <2>2, <2>3, <2>4, OrderIs
<1>8. NoEmpty(t) = [i \in 1 .. m |-> t[i]]
  BY <1>3, <1>4, <1>5, <1>7
<1>9. t = [i \in 1 .. m |-> t[i]]
  BY <1>1 DEF IsSeq, m
<1> QED
  BY <1>8, <1>9

(* What is kept was there before.                                          *)
LEMMA NoEmptyMembers ==
  ASSUME NEW t, WordList(t), NEW i \in 1 .. Len(NoEmpty(t))
  PROVE  NoEmpty(t)[i] # <<>> /\ \E j \in 1 .. Len(t) : NoEmpty(t)[i] = t[j]
<1> DEFINE m == Len(t)
           P == {k \in DOMAIN t : t[k] # <<>>}
           f == InOrder(P, m)
<1>1. IsSeq(t) /\ m \in Nat /\ DOMAIN t = 1 .. m
  BY SequenceFacts DEF WordList
<1>2. NoEmpty(t) = [k \in DOMAIN f |-> t[f[k]]]
  BY DEF NoEmpty, Picked, PickedAt
<1>3. f \in Seq(P \cap (1 .. m))
  BY <1>1, OrderIsPlaces
<1>4. IsSeq(NoEmpty(t))
  BY NoEmptyIsWords DEF WordList
<1> HIDE DEF f, P
<1>5. i \in DOMAIN NoEmpty(t)
  BY <1>4, SequenceFacts
<1>6. i \in DOMAIN f /\ NoEmpty(t)[i] = t[f[i]]
  BY <1>2, <1>5
<1>7. f[i] \in P /\ f[i] \in 1 .. m
  BY <1>3, <1>6
<1> QED
  BY <1>6, <1>7 DEF P

(* The executable and the arguments without the empty ones, and perhaps    *)
(* the last one, which is empty.                                           *)
KeptArgs(h, base) == h = NoEmpty(base) \/ h = Append(NoEmpty(base), <<>>)

LEMMA KeptArgsFacts ==
  ASSUME NEW base, WordList(base), NEW h, KeptArgs(h, base)
  PROVE  /\ WordList(h) /\ NoEmpty(h) = NoEmpty(base)
         /\ \A i \in 1 .. Len(h) : h[i] = <<>> \/ \E j \in 1 .. Len(base) : h[i] = base[j]
<1> DEFINE e == NoEmpty(base)
<1>1. WordList(e) /\ IsSeq(e)
  BY NoEmptyIsWords DEF WordList
<1>2. \A i \in 1 .. Len(e) : e[i] # <<>> /\ \E j \in 1 .. Len(base) : e[i] = base[j]
  BY NoEmptyMembers
<1> HIDE DEF e
<1>3. NoEmpty(e) = e
  BY <1>1, <1>2, NoEmptyAll
<1>4. CASE h = e
  BY <1>1, <1>2, <1>3, <1>4 DEF e
<1>5. CASE h = Append(e, <<>>)
  <2>1. WordList(h)
    BY <1>1, <1>5, EmptyFacts, MoreWords
  <2>2. NoEmpty(h) = e
    BY <1>1, <1>3, <1>5, NoEmptySteps
  <2>3. ASSUME NEW i \in 1 .. Len(h) PROVE h[i] = <<>> \/ \E j \in 1 .. Len(base) : h[i] = base[j]
    <3>1. Len(h) = Len(e) + 1 /\ h[Len(e) + 1] = <<>> /\ \A k \in 1 .. Len(e) : h[k] = e[k]
      BY <1>1, <1>5, Appended
    <3>2. i \in 1 .. Len(e) \/ i = Len(e) + 1
      BY <1>1, <3>1, SequenceFacts
    <3> QED
      BY <1>2, <3>1, <3>2
  <2> QED
    BY <2>1, <2>2, <2>3 DEF e
<1> QED
  BY <1>4, <1>5 DEF KeptArgs, e

(* The words of a stage.                                                   *)
LEMMA WordsOfStage ==
  ASSUME NEW exec, NEW args, NEW redirs, CanWrite(exec, args, redirs)
  PROVE  LET base == <<exec>> \o args
             pairs == PairsOf(redirs)
         IN  /\ WordList(base) /\ WordList(pairs) /\ Len(base) = Len(args) + 1 /\ Len(args) \in Nat
             /\ Len(pairs) = 2 * Len(redirs) /\ Len(redirs) \in Nat
             /\ \A i \in 1 .. Len(base) : IsWord(base[i])
             /\ base[1] = exec
             /\ \A i \in 1 .. Len(pairs) : pairs[i] # <<>> /\ pairs[i] # Bar
             /\ Len(WordsOf(exec, args, redirs)) = (Len(args) + 1) + 2 * Len(redirs)
             /\ WordList(WordsOf(exec, args, redirs))
<1> DEFINE base == <<exec>> \o args
           pairs == PairsOf(redirs)
           n == Len(redirs)
           m == Len(args)
<1>1. IsWord(exec) /\ IsSeq(args) /\ (\A k \in 1 .. m : IsWord(args[k])) /\ IsSeq(redirs)
  BY DEF CanWrite
<1>2. \A r \in 1 .. n : redirs[r].op \in Operators /\ IsWord(redirs[r].target) /\ redirs[r].target # <<>>
  BY DEF CanWrite
<1>3. n \in Nat /\ m \in Nat
  BY <1>1, SequenceFacts
<1>4. IsSeq(pairs) /\ Len(pairs) = 2 * n
      /\ \A r \in 1 .. n : pairs[2 * r - 1] = redirs[r].op /\ pairs[2 * r] = redirs[r].target
  BY <1>1, PairsAre
<1>5. ASSUME NEW op \in Operators PROVE IsSeq(op) /\ op # <<>> /\ op # Bar
  <2>1. Written(op, op)
    BY OperatorsWrite
  <2>2. IsSeq(op) /\ Len(op) # 0
    BY <2>1 DEF Written
  <2>3. op # <<>>
    BY <2>2, EmptyFacts
  <2>4. op # Bar
    <3>1. <<"|">>[1] = "|" /\ <<"<">>[1] # "|" /\ <<">">>[1] # "|" /\ <<">", ">">>[1] # "|"
          /\ <<"2", ">">>[1] # "|" /\ <<"2", ">", ">">>[1] # "|"
      OBVIOUS
    <3>2. op[1] # "|"
      BY <3>1 DEF Operators
    <3> QED
      BY <3>1, <3>2 DEF Bar
  <2> QED
    BY <2>2, <2>3, <2>4
<1>6. IsJoin(base, <<exec>>, args)
  BY <1>1, EmptyFacts, JoinFacts
<1>7. /\ IsSeq(base) /\ Len(base) = m + 1 /\ base[1] = exec
      /\ \A i \in 1 .. m : base[1 + i] = args[i]
  <2> DEFINE o == <<exec>>
             b == base
  <2>1. Len(o) = 1 /\ o[1] = exec
    BY EmptyFacts
  <2>2. /\ IsSeq(b) /\ Len(b) = Len(o) + m /\ (\A i \in 1 .. Len(o) : b[i] = o[i])
        /\ \A i \in 1 .. m : b[Len(o) + i] = args[i]
    BY <1>6, Zenon DEF IsJoin
  <2> HIDE DEF o, b, m
  <2>3. IsSeq(b) /\ Len(b) = m + 1 /\ b[1] = exec /\ \A i \in 1 .. m : b[1 + i] = args[i]
    BY <1>3, <2>1, <2>2
  <2> QED
    BY <2>3 DEF b
<1> HIDE DEF base, pairs, n, m
<1>8. ASSUME NEW i \in 1 .. Len(base) PROVE IsWord(base[i])
  <2>1. CASE i = 1
    BY <1>1, <1>7, <2>1
  <2>2. CASE i # 1
    <3> DEFINE j == i - 1
    <3>1. j \in 1 .. m /\ i = 1 + j
      BY <1>3, <1>7, <2>2
    <3> HIDE DEF j
    <3>2. base[i] = args[j]
      BY <1>7, <3>1
    <3> QED
      BY <1>1, <3>1, <3>2 DEF m
  <2> QED
    BY <2>1, <2>2
<1>9. ASSUME NEW i \in 1 .. Len(pairs) PROVE IsSeq(pairs[i]) /\ pairs[i] # <<>> /\ pairs[i] # Bar
  <2>1. PICK r \in 1 .. n : i = 2 * r - 1 \/ i = 2 * r
    BY <1>3, <1>4, PairPlaces
  <2>2. pairs[2 * r - 1] = redirs[r].op /\ pairs[2 * r] = redirs[r].target
    BY <1>4
  <2>3. redirs[r].op \in Operators /\ IsWord(redirs[r].target) /\ redirs[r].target # <<>>
    BY <1>2 DEF n
  <2>4. IsSeq(redirs[r].op) /\ redirs[r].op # <<>> /\ redirs[r].op # Bar
    BY <1>5, <2>3
  <2>5. IsSeq(redirs[r].target) /\ redirs[r].target # Bar
    BY <2>3 DEF IsWord
  <2> QED
    BY <2>1, <2>2, <2>3, <2>4, <2>5
<1>10. WordList(base)
  BY <1>7, <1>8, SequenceFacts DEF WordList, IsWord
<1>11. WordList(pairs)
  BY <1>4, <1>9, SequenceFacts DEF WordList
<1>12. WordList(WordsOf(exec, args, redirs))
  BY StageWritten DEF WrittenAs
<1>13. Len(WordsOf(exec, args, redirs)) = (m + 1) + 2 * n
  <2>1. IsJoin(base \o pairs, base, pairs)
    BY <1>4, <1>7, JoinFacts
  <2>2. Len(base \o pairs) = Len(base) + Len(pairs)
    BY <2>1 DEF IsJoin
  <2> QED
    BY <1>4, <1>7, <2>2 DEF WordsOf, base, pairs
<1> QED
  BY <1>3, <1>4, <1>7, <1>8, <1>9, <1>10, <1>11, <1>12, <1>13 DEF base, pairs, n, m

(* What is kept of a stage: arguments, and the same redirections.          *)
KeptStage(kept, exec, args, redirs) ==
  \E h : /\ KeptArgs(h, <<exec>> \o args) /\ kept = h \o PairsOf(redirs) /\ StageWords(h, redirs)
         /\ WordList(kept) /\ \A i \in 1 .. Len(kept) : kept[i] # Bar

LEMMA KeptShape ==
  ASSUME NEW exec, NEW args, NEW redirs, CanWrite(exec, args, redirs),
         NEW kept, kept = NoEmpty(WordsOf(exec, args, redirs)) \/ kept = LastKept(WordsOf(exec, args, redirs))
  PROVE  KeptStage(kept, exec, args, redirs)
<1> DEFINE base == <<exec>> \o args
           pairs == PairsOf(redirs)
           W == base \o pairs
           e == NoEmpty(base)
<1>1. /\ WordList(base) /\ WordList(pairs) /\ Len(base) = Len(args) + 1 /\ Len(args) \in Nat
      /\ \A i \in 1 .. Len(base) : IsWord(base[i])
      /\ base[1] = exec
      /\ \A i \in 1 .. Len(pairs) : pairs[i] # <<>> /\ pairs[i] # Bar
  BY WordsOfStage
<1>2. W = WordsOf(exec, args, redirs) /\ WordList(W)
  BY WordsOfStage DEF WordsOf
<1>3. exec # <<>>
  BY DEF CanWrite
<1> HIDE DEF base, pairs
<1>4. IsSeq(base) /\ IsSeq(pairs) /\ IsSeq(W)
  BY <1>1, <1>2 DEF WordList
<1>5. NoEmpty(pairs) = pairs
  BY <1>1, NoEmptyAll
<1>6. NoEmpty(W) = e \o pairs
  BY <1>1, <1>5, NoEmptyJoin
<1>7. WordList(e) /\ IsSeq(e)
  BY <1>1, NoEmptyIsWords DEF WordList
<1>8. IsJoin(W, base, pairs)
  BY <1>4, JoinFacts
<1>9. Len(W) = Len(base) + Len(pairs) /\ Len(base) \in Nat \ {0} /\ Len(pairs) \in Nat /\ Len(W) # 0
  <2>1. Len(W) = Len(base) + Len(pairs) /\ Len(base) \in Nat /\ Len(pairs) \in Nat
    BY <1>8 DEF IsJoin
  <2> HIDE DEF W
  <2> QED
    BY <1>1, <2>1
<1>10. \E h : KeptArgs(h, base) /\ kept = h \o pairs
  <2>1. KeptArgs(e, base)
    BY DEF KeptArgs
  <2>2. CASE kept = NoEmpty(W)
    BY <1>6, <2>1, <2>2
  <2>3. CASE kept = LastKept(W) /\ W[Len(W)] # <<>>
    <3>1. NoEmpty(W) = Append(NoEmpty(Cut(W, Len(W) - 1)), W[Len(W)])
      BY <1>2, <1>9, <2>3, LastWord
    <3>2. kept = NoEmpty(W)
      BY <2>3, <3>1 DEF LastKept
    <3> QED
      BY <1>6, <2>1, <3>2
  <2>4. CASE kept = LastKept(W) /\ W[Len(W)] = <<>>
    <3>1. NoEmpty(W) = NoEmpty(Cut(W, Len(W) - 1))
      BY <1>2, <1>9, <2>4, LastWord
    <3>2. kept = Append(NoEmpty(W), <<>>)
      BY <2>4, <3>1 DEF LastKept
    <3>3. Len(pairs) = 0
      <4> SUFFICES ASSUME Len(pairs) # 0 PROVE FALSE
        OBVIOUS
      <4>1. \A i \in 1 .. Len(pairs) : W[Len(base) + i] = pairs[i]
        BY <1>8 DEF IsJoin
      <4>2. Len(pairs) \in 1 .. Len(pairs)
        BY <1>9
      <4> HIDE DEF W
      <4>3. W[Len(W)] = pairs[Len(pairs)]
        BY <1>9, <4>1, <4>2
      <4> QED
        BY <1>1, <2>4, <4>2, <4>3
    <3>4. pairs = <<>>
      BY <1>4, <3>3, EmptyFacts
    <3> DEFINE h == Append(e, <<>>)
    <3>5. KeptArgs(h, base)
      BY DEF KeptArgs
    <3>6. NoEmpty(W) = e
      BY <1>6, <1>7, <3>4, JoinRules
    <3>7. IsSeq(h)
      BY <1>7, Appended
    <3>8. kept = h \o pairs
      BY <3>2, <3>4, <3>6, <3>7, JoinRules
    <3> QED
      BY <3>5, <3>8
  <2> QED
    BY <1>2, <2>2, <2>3, <2>4
<1>11. PICK h : KeptArgs(h, base) /\ kept = h \o pairs
  BY <1>10
<1>12. /\ WordList(h) /\ NoEmpty(h) = e
       /\ \A i \in 1 .. Len(h) : h[i] = <<>> \/ \E j \in 1 .. Len(base) : h[i] = base[j]
  BY <1>1, <1>11, KeptArgsFacts
<1>13. \A i \in 1 .. Len(h) : h[i] \notin Operators \cup {Bar}
  <2>1. \A j \in 1 .. Len(base) : base[j] \notin Operators \cup {Bar}
    BY <1>1 DEF IsWord
  <2>2. <<>> \notin Operators \cup {Bar}
    <3> SUFFICES ASSUME NEW op \in Operators \cup {Bar}, op = <<>> PROVE FALSE
      OBVIOUS
    <3>1. Written(op, op)
      BY OperatorsWrite
    <3> QED
      BY <3>1, EmptyFacts DEF Written
  <2> QED
    BY <1>12, <2>1, <2>2
<1>14. IsSeq(h) /\ Len(h) # 0
  <2>1. IsSeq(h)
    BY <1>12 DEF WordList
  <2>2. h # <<>>
    <3> SUFFICES ASSUME h = <<>> PROVE FALSE
      OBVIOUS
    <3>1. NoEmpty(base) = <<>>
      BY <1>12, NoEmptySteps
    <3>2. IsSeq(args) /\ WordList(args)
      <4>1. IsSeq(args) /\ \A k \in 1 .. Len(args) : IsSeq(args[k])
        BY DEF CanWrite, IsWord
      <4> QED
        BY <4>1, SequenceFacts DEF WordList
    <3>3. WordList(<<exec>>) /\ IsSeq(<<exec>>) /\ Len(<<exec>>) = 1 /\ <<exec>>[1] = exec
      <4>1. IsSeq(<<exec>>) /\ Len(<<exec>>) = 1 /\ <<exec>>[1] = exec
        BY EmptyFacts
      <4>2. IsSeq(exec)
        BY DEF CanWrite, IsWord
      <4>3. \A k \in DOMAIN <<exec>> : IsSeq(<<exec>>[k])
        BY <4>1, <4>2, SequenceFacts
      <4> QED
        BY <4>1, <4>3 DEF WordList
    <3>4. NoEmpty(<<exec>>) = <<exec>>
      BY <1>3, <3>3, NoEmptyAll
    <3>5. NoEmpty(base) = <<exec>> \o NoEmpty(args)
      BY <3>2, <3>3, <3>4, NoEmptyJoin DEF base
    <3>6. IsSeq(NoEmpty(args))
      BY <3>2, NoEmptyIsWords DEF WordList
    <3>7. IsJoin(<<exec>> \o NoEmpty(args), <<exec>>, NoEmpty(args))
      BY <3>3, <3>6, JoinFacts
    <3>8. Len(<<exec>> \o NoEmpty(args)) = 1 + Len(NoEmpty(args)) /\ Len(NoEmpty(args)) \in Nat
      BY <3>3, <3>7 DEF IsJoin
    <3> DEFINE y == Len(NoEmpty(args))
    <3>9. Len(<<>>) = 1 + y /\ y \in Nat
      BY <3>1, <3>5, <3>8
    <3> HIDE DEF y
    <3>10. Len(<<>>) = 0
      BY EmptyFacts
    <3> QED
      BY <3>9, <3>10
  <2> QED
    BY <2>1, <2>2, EmptyFacts
<1>15. StageWords(h, redirs)
  <2>1. IsSeq(redirs)
    BY DEF CanWrite
  <2>2. \A r \in 1 .. Len(redirs) : redirs[r].op \in Operators /\ redirs[r].target \notin Operators
    BY DEF CanWrite, IsWord
  <2> QED
    BY <1>13, <1>14, <2>1, <2>2 DEF StageWords
<1>16. IsJoin(kept, h, pairs)
  BY <1>4, <1>11, <1>14, JoinFacts
<1>17. ASSUME NEW i \in 1 .. Len(kept) PROVE kept[i] # Bar
  <2>1. /\ Len(kept) = Len(h) + Len(pairs) /\ Len(h) \in Nat
        /\ \A k \in 1 .. Len(h) : kept[k] = h[k]
        /\ \A k \in 1 .. Len(pairs) : kept[Len(h) + k] = pairs[k]
    BY <1>16 DEF IsJoin
  <2>2. CASE i <= Len(h)
    BY <1>13, <2>1, <2>2
  <2>3. CASE i > Len(h)
    <3> DEFINE j == i - Len(h)
    <3>1. j \in 1 .. Len(pairs) /\ i = Len(h) + j
      BY <1>9, <2>1, <2>3
    <3> HIDE DEF j
    <3>2. kept[i] = pairs[j]
      BY <2>1, <3>1
    <3> QED
      BY <1>1, <3>1, <3>2
  <2> QED
    BY <2>1, <2>2, <2>3
<1>18. WordList(kept)
  <2>1. CASE kept = NoEmpty(W)
    BY <1>2, <2>1, NoEmptyIsWords
  <2>2. CASE kept = LastKept(W)
    BY <1>2, <1>9, <2>2, LastWord
  <2> QED
    BY <1>2, <2>1, <2>2
<1> QED
  BY <1>11, <1>15, <1>17, <1>18 DEF KeptStage, base, pairs

------------------------------------------------------------------------------
(* What the engine makes of the line that buildResolvedLine writes. *)

Writable(st) ==
  /\ IsSeq(st.argv) /\ st.argv # <<>>
  /\ CanWrite(st.executable, Tail(st.argv), st.redirections)
  /\ \A r \in 1 .. Len(st.redirections) :
        st.redirections[r] = [op |-> st.redirections[r].op, target |-> st.redirections[r].target]

TextsAt(st) == TextsOf(st.executable, Tail(st.argv), st.redirections)
WordsAt(st) == WordsOf(st.executable, Tail(st.argv), st.redirections)
BaseAt(st) == <<st.executable>> \o Tail(st.argv)

LEMMA ResolvedStageIs ==
  ASSUME NEW st, Writable(st) PROVE ResolvedStage(st) = Joined(TextsAt(st), <<Space>>)
<1> DEFINE argv == st.argv
           reds == st.redirections
           n == Len(argv) - 1
<1>1. IsSeq(argv) /\ argv # <<>> /\ IsSeq(reds)
  BY DEF Writable, CanWrite
<1>2. DOMAIN reds = 1 .. Len(reds)
  BY <1>1, SequenceFacts
<1>3. Len(Tail(argv)) = n /\ \A k \in 1 .. n : Tail(argv)[k] = argv[k + 1]
  <2>1. PICK S : argv \in Seq(S)
    BY <1>1 DEF IsSeq
  <2> QED
    BY <1>1, <2>1
<1> HIDE DEF argv, reds, n
<1>4. [k \in 1 .. n |-> QuoteForLexer(argv[k + 1])] = [k \in 1 .. Len(Tail(argv)) |-> QuoteForLexer(Tail(argv)[k])]
  BY <1>3
<1>5. ResolvedStage(st) =
        Joined(<<QuoteForLexer(st.executable)>> \o [k \in 1 .. n |-> QuoteForLexer(argv[k + 1])]
               \o FlattenSeq([r \in DOMAIN reds |-> <<reds[r].op, QuoteForLexer(reds[r].target)>>]), <<Space>>)
  BY DEF ResolvedStage, argv, reds, n
<1> QED
  BY <1>2, <1>4, <1>5 DEF TextsAt, TextsOf, argv, reds

LEMMA ReadToTheEnd ==
  ASSUME NEW line, NEW w, NEW ts, LexAfter(line)[Len(line)] = St("plain", w, On, ts)
  PROVE  Tokenize(line) = IF Len(line) <= MaxLine THEN [ok |-> TRUE, tokens |-> Append(ts, w)]
                          ELSE [ok |-> FALSE, tokens |-> <<>>]
<1> DEFINE s == St("plain", w, On, ts)
           fits == Len(line) <= MaxLine
<1>1. s.mode = "plain" /\ s.token = w /\ s.held = TRUE /\ s.tokens = ts /\ s.over = FALSE
  BY DEF St, Whole, On, Off
<1>2. Tokenize(line) = LexEnd(s, fits)
  BY DEF Tokenize
<1> HIDE DEF s, fits
<1>3. s.mode \in {"plain", "comment"}
  BY <1>1
<1>4. LexEnd(s, fits) = IF fits THEN [ok |-> TRUE, tokens |-> Append(ts, w)] ELSE [ok |-> FALSE, tokens |-> <<>>]
  BY <1>1, <1>3 DEF LexEnd
<1> QED
  BY <1>2, <1>4 DEF fits

(* The stages of the plan are those the line was written from.             *)
SameStages(plan, sts, n) ==
  /\ plan.mode = "run" /\ Len(plan.stages) = n
  /\ \A k \in 1 .. n : /\ NoEmpty(plan.stages[k].argv) = NoEmpty(BaseAt(sts[k]))
                       /\ plan.stages[k].redirections = sts[k].redirections

PlanOf(lexed) == ParsedPlan(ParsePipelineOf(lexed))

LEMMA NotLexed ==
  ASSUME NEW tokens PROVE PlanOf([ok |-> FALSE, tokens |-> tokens]).mode = "syntax"
<1> DEFINE lexed == [ok |-> FALSE, tokens |-> tokens]
<1>1. lexed.ok = FALSE
  OBVIOUS
<1> HIDE DEF lexed
<1>2. ParsePipelineOf(lexed) = [ok |-> FALSE, stages |-> <<>>]
  BY <1>1 DEF ParsePipelineOf, PipelineOf
<1>3. ParsedPlan([ok |-> FALSE, stages |-> <<>>]) = Plan("syntax", <<>>)
  BY DEF ParsedPlan
<1>4. Plan("syntax", <<>>).mode = "syntax"
  BY DEF Plan
<1> QED
  BY <1>2, <1>3, <1>4 DEF PlanOf, lexed

LEMMA KeptRuns ==
  ASSUME NEW n \in Nat \ {0}, n <= MaxStages, NEW sts, \A k \in 1 .. n : Writable(sts[k]),
         NEW kept, WordList(kept), Len(kept) = n,
         \A k \in 1 .. n : KeptStage(kept[k], sts[k].executable, Tail(sts[k].argv), sts[k].redirections)
  PROVE  SameStages(PlanOf([ok |-> TRUE, tokens |-> Joined(kept, <<Bar>>)]), sts, n)
<1> DEFINE lexed == [ok |-> TRUE, tokens |-> Joined(kept, <<Bar>>)]
<1>1. \A k \in 1 .. n : \A i \in 1 .. Len(kept[k]) : kept[k][i] # Bar
  BY DEF KeptStage
<1>2. NoBars(kept)
  BY <1>1 DEF NoBars
<1>3. Parts(lexed.tokens) = kept /\ lexed.ok = TRUE
  BY <1>2, PartsOfJoined
<1>4. IsSeq(kept) /\ DOMAIN kept = 1 .. n
  BY SequenceFacts DEF WordList
<1> HIDE DEF lexed
<1>5. ASSUME NEW k \in 1 .. n
      PROVE  /\ PartOk(kept[k]) /\ NoEmpty(ArgvOf(kept[k])) = NoEmpty(BaseAt(sts[k]))
             /\ RedirectionsOf(kept[k]) = sts[k].redirections
  <2> DEFINE exec == sts[k].executable
             args == Tail(sts[k].argv)
             reds == sts[k].redirections
  <2>1. Writable(sts[k]) /\ KeptStage(kept[k], exec, args, reds)
    OBVIOUS
  <2>2. CanWrite(exec, args, reds) /\ IsSeq(reds)
        /\ \A r \in 1 .. Len(reds) : reds[r] = [op |-> reds[r].op, target |-> reds[r].target]
    BY <2>1 DEF Writable, CanWrite
  <2>3. BaseAt(sts[k]) = <<exec>> \o args
    BY DEF BaseAt
  <2> HIDE DEF exec, args, reds
  <2>4. PICK h : /\ KeptArgs(h, <<exec>> \o args) /\ kept[k] = h \o PairsOf(reds) /\ StageWords(h, reds)
    BY <2>1 DEF KeptStage
  <2>5. WordList(<<exec>> \o args)
    BY <2>2, WordsOfStage
  <2>6. NoEmpty(h) = NoEmpty(<<exec>> \o args)
    BY <2>4, <2>5, KeptArgsFacts
  <2>7. /\ ArgvOf(kept[k]) = h /\ SplitOk(kept[k]) /\ kept[k] # <<>>
        /\ RedirectionsOf(kept[k]) = [r \in 1 .. Len(reds) |-> [op |-> reds[r].op, target |-> reds[r].target]]
    BY <2>4, StageTaken
  <2>8. RedirectionsOf(kept[k]) = [r \in 1 .. Len(reds) |-> reds[r]]
    BY <2>2, <2>7
  <2>9. reds = [r \in 1 .. Len(reds) |-> reds[r]]
    BY <2>2 DEF IsSeq
  <2>10. h # <<>>
    BY <2>4, EmptyFacts DEF StageWords
  <2>11. PartOk(kept[k])
    BY <2>7, <2>10 DEF PartOk
  <2>12. RedirectionsOf(kept[k]) = reds
    BY <2>8, <2>9
  <2> QED
    BY <2>3, <2>6, <2>7, <2>11, <2>12 DEF reds
<1> DEFINE stage(k) == StageOf(ArgvOf(kept[k]), RedirectionsOf(kept[k]), k, Len(kept))
<1>6. ParsePipelineOf(lexed) = [ok |-> TRUE, stages |-> [k \in 1 .. n |-> stage(k)]]
  <2>1. ParsePipelineOf(lexed) = PipelineOf(kept, TRUE)
    BY <1>3 DEF ParsePipelineOf
  <2>2. \A k \in DOMAIN kept : PartOk(kept[k])
    BY <1>4, <1>5
  <2>3. PipelineOf(kept, TRUE) = [ok |-> TRUE, stages |-> [k \in DOMAIN kept |-> stage(k)]]
    BY <2>2 DEF PipelineOf
  <2> QED
    BY <1>4, <2>1, <2>3
<1>7. \A k \in 1 .. n : stage(k).argv = ArgvOf(kept[k]) /\ stage(k).redirections = RedirectionsOf(kept[k])
  BY DEF StageOf
<1> HIDE DEF stage
<1> DEFINE p == [ok |-> TRUE, stages |-> [k \in 1 .. n |-> stage(k)]]
           run == [k \in 1 .. n |-> Stage(stage(k).argv, stage(k).redirections)]
<1>8. p.ok /\ DOMAIN p.stages = 1 .. n /\ \A k \in 1 .. n : p.stages[k] = stage(k)
  OBVIOUS
<1>9. ParsedPlan(p) = Plan("run", run)
  <2> HIDE DEF p
  <2>1. ParsedPlan(p) = Plan("run", [k \in DOMAIN p.stages |-> Stage(p.stages[k].argv, p.stages[k].redirections)])
    BY <1>8 DEF ParsedPlan
  <2>2. [k \in DOMAIN p.stages |-> Stage(p.stages[k].argv, p.stages[k].redirections)] = run
    BY <1>8
  <2> QED
    BY <2>1, <2>2
<1>10. PlanOf(lexed) = Plan("run", run)
  BY <1>6, <1>9 DEF PlanOf
<1>11. Plan("run", run).mode = "run" /\ Plan("run", run).stages = run
  BY DEF Plan
<1>12. Len(run) = n
  <2>1. run = [k \in 1 .. n |-> run[k]]
    OBVIOUS
  <2> HIDE DEF run
  <2> QED
    BY <2>1, ListedIsSeq
<1>13. \A k \in 1 .. n : run[k].argv = ArgvOf(kept[k]) /\ run[k].redirections = RedirectionsOf(kept[k])
  BY <1>7 DEF Stage
<1> HIDE DEF run
<1> QED
  BY <1>5, <1>10, <1>11, <1>12, <1>13 DEF SameStages, lexed

(* A text of two characters or more is written with two or more.           *)
LEMMA LongTexts ==
  ASSUME NEW w, IsSeq(w), Len(w) >= 2, Len(w) <= MaxToken PROVE Len(QuoteForLexer(w)) >= 2
<1>1. CASE w # <<>> /\ \A k \in DOMAIN w : w[k] \notin Unsafe
  BY <1>1 DEF QuoteForLexer
<1>2. CASE ~(w # <<>> /\ \A k \in DOMAIN w : w[k] \notin Unsafe)
  <2> DEFINE e == Escaped(w)
             o == <<DoubleQuote>>
  <2>1. QuoteForLexer(w) = (o \o e) \o o
    BY <1>2 DEF QuoteForLexer
  <2>2. IsSeq(e)
    <3> DEFINE g == [k \in DOMAIN w |-> IF w[k] \in EscapedInQuotes \ {Newline} THEN <<Backslash, w[k]>> ELSE <<w[k]>>]
    <3>1. DOMAIN w = 1 .. Len(w) /\ Len(w) \in Nat
      BY SequenceFacts
    <3>2. g = [k \in 1 .. Len(w) |-> g[k]]
      BY <3>1
    <3>3. ASSUME NEW x, NEW y PROVE IsSeq(<<x>>) /\ IsSeq(<<x, y>>)
      <4>1. <<x>> \in Seq({x, y}) /\ <<x, y>> \in Seq({x, y})
        OBVIOUS
      <4> QED
        BY <4>1 DEF IsSeq
    <3>4. \A k \in 1 .. Len(w) : IsSeq(g[k])
      BY <3>1, <3>3
    <3>5. e = FlattenSeq(g)
      BY DEF Escaped
    <3> HIDE DEF g, e
    <3>6. IsSeq(g) /\ Len(g) = Len(w)
      BY <3>1, <3>2, ListedIsSeq
    <3>7. WordList(g)
      BY <3>4, <3>6, SequenceFacts DEF WordList
    <3>8. \E off : Laid(g, off)
      BY <3>7, FlattenLays
    <3> QED
      BY <3>5, <3>8 DEF Laid
  <2> HIDE DEF e
  <2>3. IsSeq(o) /\ Len(o) = 1
    BY EmptyFacts
  <2> HIDE DEF o
  <2>4. IsJoin(o \o e, o, e)
    BY <2>2, <2>3, JoinFacts
  <2>5. IsSeq(o \o e) /\ Len(o \o e) = 1 + Len(e) /\ Len(e) \in Nat
    BY <2>3, <2>4 DEF IsJoin
  <2> DEFINE u == o \o e
  <2> HIDE DEF u
  <2>6. IsSeq(u) /\ Len(u) = 1 + Len(e) /\ Len(e) \in Nat /\ QuoteForLexer(w) = u \o o
    BY <2>1, <2>5 DEF u
  <2>7. IsJoin(u \o o, u, o)
    BY <2>3, <2>6, JoinFacts
  <2>8. Len(u \o o) = Len(u) + 1
    BY <2>3, <2>7 DEF IsJoin
  <2> DEFINE a == Len(e)
  <2>9. Len(QuoteForLexer(w)) = (1 + a) + 1 /\ a \in Nat
    BY <2>6, <2>8
  <2> HIDE DEF a
  <2> QED
    BY <2>9
<1> QED
  BY <1>1, <1>2

LEMMA FirstIsWithin ==
  ASSUME NEW seqs, NEW between, NEW pos, Spread(seqs, between, pos), Len(seqs) \in Nat \ {0},
         Len(seqs[1]) \in Nat
  PROVE  Len(seqs[1]) <= Len(Joined(seqs, between))
<1> DEFINE a == Len(seqs[1])
           z == Len(Joined(seqs, between))
<1>1. 1 \in 1 .. Len(seqs)
  OBVIOUS
<1>2. pos[1] + a <= z /\ pos[1] = 0
  BY <1>1, Zenon DEF Spread
<1>3. a \in Nat
  OBVIOUS
<1> HIDE DEF a, z
<1>4. 0 + a <= z
  BY <1>2
<1>5. 0 + a = a
  BY <1>3
<1> QED
  BY <1>4, <1>5 DEF a, z

Followed(plan, line, sts, n) ==
  IF Len(line) > MaxLine THEN plan.mode = "syntax" ELSE SameStages(plan, sts, n)

LEMMA ResolvedRuns ==
  ASSUME NEW n \in Nat \ {0}, n <= MaxStages, NEW sts, IsSeq(sts), Len(sts) = n,
         \A k \in 1 .. n : Writable(sts[k]), Len(sts[1].executable) >= 2,
         NEW place, Fits([k \in 1 .. n |-> WordsAt(sts[k])], place, n)
  PROVE  LET line == ResolvedLine(sts)
         IN  IsSeq(line) /\ Len(line) >= 2 /\ Followed(LinePlan(line), line, sts, n)
<1> DEFINE texts == [k \in 1 .. n |-> TextsAt(sts[k])]
           words == [k \in 1 .. n |-> WordsAt(sts[k])]
           stages == [k \in 1 .. n |-> Joined(texts[k], <<Space>>)]
           line == Joined(stages, Bars)
           kept == [k \in 1 .. n |-> IF k < n THEN NoEmpty(words[k]) ELSE LastKept(words[k])]
<1>1. DOMAIN sts = 1 .. n /\ 1 \in 1 .. n /\ n \in 1 .. n
  BY SequenceFacts
<1>2. ResolvedLine(sts) = line
  <2>1. \A k \in 1 .. n : ResolvedStage(sts[k]) = Joined(TextsAt(sts[k]), <<Space>>)
    BY ResolvedStageIs
  <2>2. stages = [k \in 1 .. n |-> ResolvedStage(sts[k])]
    BY <2>1
  <2> HIDE DEF stages
  <2>3. ResolvedLine(sts) = Joined([k \in 1 .. n |-> ResolvedStage(sts[k])], Bars)
    BY <1>1 DEF ResolvedLine, Bars
  <2> QED
    BY <2>2, <2>3
<1>3. ASSUME NEW k \in 1 .. n PROVE CanWrite(sts[k].executable, Tail(sts[k].argv), sts[k].redirections)
  <2>1. Writable(sts[k])
    OBVIOUS
  <2> QED
    BY <2>1 DEF Writable
<1>4. ASSUME NEW k \in 1 .. n PROVE WrittenAs(texts[k], words[k])
  <2>1. WrittenAs(TextsAt(sts[k]), WordsAt(sts[k]))
    BY <1>3, StageWritten DEF TextsAt, WordsAt
  <2> QED
    BY <2>1
<1>5. \A k \in 1 .. n : /\ words[k] = WordsAt(sts[k]) /\ texts[k] = TextsAt(sts[k])
                        /\ stages[k] = Joined(texts[k], <<Space>>)
                        /\ kept[k] = IF k < n THEN NoEmpty(words[k]) ELSE LastKept(words[k])
  OBVIOUS
<1>6. kept = [k \in 1 .. n |-> kept[k]] /\ stages = [k \in 1 .. n |-> Joined(texts[k], <<Space>>)]
  OBVIOUS
<1>7. Fits(words, place, n)
  OBVIOUS
<1> HIDE DEF texts, words, stages, kept
<1>8. ASSUME NEW k \in 1 .. n
      PROVE  KeptStage(kept[k], sts[k].executable, Tail(sts[k].argv), sts[k].redirections)
  <2> DEFINE exec == sts[k].executable
             args == Tail(sts[k].argv)
             reds == sts[k].redirections
             K == kept[k]
  <2>1. CanWrite(exec, args, reds)
    BY <1>3
  <2>2. K = NoEmpty(WordsOf(exec, args, reds)) \/ K = LastKept(WordsOf(exec, args, reds))
    BY <1>5 DEF WordsAt
  <2> HIDE DEF exec, args, reds, K
  <2>3. KeptStage(K, exec, args, reds)
    BY <2>1, <2>2, KeptShape
  <2> QED
    BY <2>3 DEF exec, args, reds, K
<1>9. WordList(kept) /\ Len(kept) = n
  <2>1. IsSeq(kept) /\ Len(kept) = n
    BY <1>6, ListedIsSeq
  <2>2. \A k \in 1 .. n : IsSeq(kept[k])
    BY <1>8 DEF KeptStage, WordList
  <2> QED
    BY <2>1, <2>2, SequenceFacts DEF WordList
<1>10. KeptOf(words, kept, n)
  <2>1. \A k \in 1 .. n - 1 : k \in 1 .. n /\ k < n
    OBVIOUS
  <2>2. \A k \in 1 .. n - 1 : kept[k] = NoEmpty(words[k])
    BY <1>5, <2>1
  <2>3. kept[n] = LastKept(words[n])
    BY <1>1, <1>5
  <2> QED
    BY <1>9, <2>2, <2>3 DEF KeptOf
<1>11. /\ IsSeq(line) /\ WordList(stages)
       /\ \E w, ts : /\ LexAfter(line)[Len(line)] = St("plain", w, On, ts)
                     /\ Append(ts, w) = Joined(kept, <<Bar>>)
  <2> HIDE DEF line
  <2>1. line = Joined(stages, Bars)
    BY DEF line
  <2>2. \A k \in 1 .. n : WrittenAs(texts[k], words[k])
    BY <1>4
  <2>3. LinesOf(stages, texts, n)
    BY <1>6 DEF LinesOf
  <2>4. n \in Nat \ {0}
    OBVIOUS
  <2>5. LineWritten(n, texts, words, place, kept, stages, line)
    BY <1>7, <1>10, <2>1, <2>2, <2>3, <2>4 DEF LineWritten
  <2> QED
    BY <2>5, LineLexed
<1>12. PICK w, ts : /\ LexAfter(line)[Len(line)] = St("plain", w, On, ts)
                    /\ Append(ts, w) = Joined(kept, <<Bar>>)
  BY <1>11
<1> HIDE DEF line
<1>13. Tokenize(line) = IF Len(line) <= MaxLine THEN [ok |-> TRUE, tokens |-> Joined(kept, <<Bar>>)]
                        ELSE [ok |-> FALSE, tokens |-> <<>>]
  BY <1>12, ReadToTheEnd
<1>14. LinePlan(line) = PlanOf(Tokenize(line))
  BY DEF LinePlan, PlanOf, ParsePipeline
<1>15. Len(line) \in Nat /\ MaxLine \in Nat
  BY <1>11, SequenceFacts, LimitsAssumption
<1>16. ASSUME Len(line) > MaxLine PROVE Followed(LinePlan(line), line, sts, n)
  <2>1. Tokenize(line) = [ok |-> FALSE, tokens |-> <<>>]
    BY <1>13, <1>15, <1>16
  <2>2. LinePlan(line).mode = "syntax"
    BY <1>14, <2>1, NotLexed
  <2> QED
    BY <1>16, <2>2 DEF Followed
<1>17. ASSUME ~(Len(line) > MaxLine) PROVE Followed(LinePlan(line), line, sts, n)
  <2>1. Tokenize(line) = [ok |-> TRUE, tokens |-> Joined(kept, <<Bar>>)]
    BY <1>13, <1>15, <1>17
  <2>2. SameStages(PlanOf(Tokenize(line)), sts, n)
    BY <1>8, <1>9, <2>1, KeptRuns
  <2> QED
    BY <1>14, <1>17, <2>2 DEF Followed
<1>18. Followed(LinePlan(line), line, sts, n)
  BY <1>16, <1>17
<1>19. Len(line) >= 2
  <2>1. WrittenAs(texts[1], words[1]) /\ texts[1] = TextsAt(sts[1]) /\ stages[1] = Joined(texts[1], <<Space>>)
    BY <1>1, <1>4, <1>5
  <2>2. WordList(texts[1]) /\ Len(texts[1]) \in Nat \ {0} /\ IsSeq(texts[1])
    BY <2>1, SequenceFacts DEF WrittenAs, WordList
  <2>3. IsWord(sts[1].executable)
    BY <1>1, <1>3 DEF CanWrite
  <2>4. texts[1][1] = QuoteForLexer(sts[1].executable)
    <3> DEFINE x == QuoteForLexer(sts[1].executable)
               a == Tail(sts[1].argv)
               r == sts[1].redirections
               b == [k \in 1 .. Len(a) |-> QuoteForLexer(a[k])]
               c == FlattenSeq([k \in 1 .. Len(r) |-> <<r[k].op, QuoteForLexer(r[k].target)>>])
               rk == [k \in 1 .. Len(r) |-> r[k].op]
               tk == [k \in 1 .. Len(r) |-> QuoteForLexer(r[k].target)]
    <3>1. CanWrite(sts[1].executable, a, r)
      BY <1>1, <1>3
    <3>2. Len(a) \in Nat /\ Len(r) \in Nat
      BY <3>1, SequenceFacts DEF CanWrite
    <3>3. IsSeq(b)
      <4>1. b = [k \in 1 .. Len(a) |-> b[k]]
        OBVIOUS
      <4> HIDE DEF b
      <4> QED
        BY <3>2, <4>1, ListedIsSeq
    <3>4. IsSeq(c)
      <4>1. c = FlattenSeq([k \in 1 .. Len(r) |-> <<rk[k], tk[k]>>])
        <5>1. \A k \in 1 .. Len(r) : rk[k] = r[k].op /\ tk[k] = QuoteForLexer(r[k].target)
          OBVIOUS
        <5> HIDE DEF rk, tk
        <5>2. [k \in 1 .. Len(r) |-> <<r[k].op, QuoteForLexer(r[k].target)>>] = [k \in 1 .. Len(r) |-> <<rk[k], tk[k]>>]
          BY <5>1
        <5> QED
          BY <5>2
      <4> DEFINE m == Len(r)
      <4> HIDE DEF rk, tk, c, m
      <4>2. m \in Nat /\ c = FlattenSeq([k \in 1 .. m |-> <<rk[k], tk[k]>>])
        BY <3>2, <4>1 DEF m
      <4>3. Paired(c, m, rk, tk)
        BY <4>2, PairsFlat
      <4> QED
        BY <4>3 DEF Paired
    <3>5. TextsAt(sts[1]) = (<<x>> \o b) \o c
      BY DEF TextsAt, TextsOf
    <3> HIDE DEF x, a, r, b, c
    <3>6. IsSeq(<<x>>) /\ Len(<<x>>) = 1 /\ <<x>>[1] = x
      BY EmptyFacts
    <3>7. IsJoin(<<x>> \o b, <<x>>, b)
      BY <3>3, <3>6, JoinFacts
    <3> DEFINE u == <<x>> \o b
    <3>8. IsSeq(u) /\ Len(u) = 1 + Len(b) /\ Len(b) \in Nat /\ u[1] = x
      <4>1. 1 \in 1 .. Len(<<x>>)
        BY <3>6
      <4> QED
        BY <3>6, <3>7, <4>1 DEF IsJoin
    <3> HIDE DEF u
    <3>9. IsJoin(u \o c, u, c)
      BY <3>4, <3>8, JoinFacts
    <3>10. 1 \in 1 .. Len(u)
      BY <3>8
    <3>11. (u \o c)[1] = x
      BY <3>8, <3>9, <3>10 DEF IsJoin
    <3> QED
      BY <2>1, <3>5, <3>11 DEF u, x
  <2>5. Len(texts[1][1]) >= 2
    BY <2>3, <2>4, LongTexts DEF IsWord
  <2>6. Len(texts[1][1]) \in Nat
    <3>1. 1 \in DOMAIN texts[1]
      BY <2>2, SequenceFacts
    <3> QED
      BY <2>2, <3>1, SequenceFacts DEF WordList
  <2>7. PICK p : Spread(texts[1], <<Space>>, p)
    BY <2>2, EmptyFacts, JoinedSpreads
  <2>8. Len(texts[1][1]) <= Len(stages[1])
    BY <2>1, <2>2, <2>6, <2>7, FirstIsWithin
  <2>9. IsSeq(Bars)
    <3>1. ASSUME NEW a, NEW b PROVE IsSeq(<<a, b, a>>)
      <4>1. <<a, b, a>> \in Seq({a, b})
        OBVIOUS
      <4> QED
        BY <4>1 DEF IsSeq
    <3> QED
      BY <3>1 DEF Bars
  <2>10. IsSeq(stages) /\ Len(stages) = n
    BY <1>6, ListedIsSeq
  <2>11. PICK q : Spread(stages, Bars, q)
    BY <1>11, <2>9, <2>10, JoinedSpreads
  <2>12. Len(stages[1]) \in Nat
    <3>1. 1 \in DOMAIN stages
      BY <1>1, <2>10, SequenceFacts
    <3> QED
      BY <1>11, <3>1, SequenceFacts DEF WordList
  <2>13. Len(stages[1]) <= Len(line)
    BY <2>10, <2>11, <2>12, FirstIsWithin DEF line
  <2> DEFINE a == Len(texts[1][1])
             b == Len(stages[1])
             c == Len(line)
  <2>14. a >= 2 /\ a <= b /\ b <= c /\ a \in Nat /\ b \in Nat /\ c \in Nat
    BY <1>15, <2>5, <2>6, <2>8, <2>12, <2>13
  <2> HIDE DEF a, b, c
  <2>15. c >= 2
    BY <2>14
  <2> QED
    BY <2>15 DEF c
<1> QED
  BY <1>2, <1>11, <1>18, <1>19

------------------------------------------------------------------------------
(* What the lexer makes is small: no token is longer than MaxToken, and    *)
(* there are never more than MaxArgs. *)

Small(w) == IsSeq(w) /\ Len(w) <= MaxToken
SmallList(ts) == IsSeq(ts) /\ \A i \in 1 .. Len(ts) : Small(ts[i])
Room(h, ts) == SmallList(ts) /\ h \in BOOLEAN /\ Len(ts) <= MaxArgs /\ (h = TRUE => Len(ts) < MaxArgs)
LexSmall(s) == \E m, w, h, ts, o : s = Whole(m, w, h, ts, o) /\ Small(w) /\ Room(h, ts)

LEMMA SmallAre ==
  ASSUME NEW m, NEW w, NEW h, NEW ts, NEW o, Small(w), Room(h, ts),
         NEW s, s = Whole(m, w, h, ts, o)
  PROVE  LexSmall(s)
BY Zenon DEF LexSmall

LEMMA WholeChanges ==
  ASSUME NEW m, NEW w, NEW h, NEW ts, NEW o, NEW x
  PROVE  LET s == Whole(m, w, h, ts, o)
         IN  /\ [s EXCEPT !.mode = x] = Whole(x, w, h, ts, o)
             /\ [s EXCEPT !.token = x] = Whole(m, x, h, ts, o)
             /\ [s EXCEPT !.held = x] = Whole(m, w, x, ts, o)
             /\ [s EXCEPT !.tokens = x] = Whole(m, w, h, x, o)
             /\ [s EXCEPT !.over = x] = Whole(m, w, h, ts, x)
             /\ s.mode = m /\ s.token = w /\ s.held = h /\ s.tokens = ts /\ s.over = o
BY DEF Whole

LEMMA SmallEmpty == Small(<<>>) /\ SmallList(<<>>)
  BY EmptyFacts, LimitsAssumption DEF Small, SmallList

LEMMA OneMore ==
  ASSUME NEW ts, SmallList(ts), NEW w, Small(w) PROVE SmallList(Append(ts, w)) /\ Len(Append(ts, w)) = Len(ts) + 1
<1> DEFINE u == Append(ts, w)
           n == Len(ts)
<1>1. /\ IsSeq(u) /\ Len(u) = n + 1 /\ (\A i \in 1 .. n : u[i] = ts[i]) /\ u[n + 1] = w /\ n \in Nat
  BY Appended, SequenceFacts DEF SmallList
<1> HIDE DEF u, n
<1>2. ASSUME NEW i \in 1 .. Len(u) PROVE Small(u[i])
  <2>1. i \in 1 .. n \/ i = n + 1
    BY <1>1
  <2>2. \A j \in 1 .. n : Small(ts[j])
    BY DEF SmallList, n
  <2> QED
    BY <1>1, <2>1, <2>2
<1> QED
  BY <1>1, <1>2 DEF SmallList, u, n

LEMMA HeldSmall ==
  ASSUME NEW m, NEW w, NEW h, NEW ts, NEW o, Small(w), NEW x, Room(x, ts), NEW s, s = Whole(m, w, h, ts, o)
  PROVE  LexSmall([s EXCEPT !.held = x])
<1>1. [s EXCEPT !.held = x] = Whole(m, w, x, ts, o)
  BY WholeChanges
<1> QED
  BY <1>1, SmallAre

LEMMA SmallMoves ==
  ASSUME NEW s, LexSmall(s)
  PROVE  /\ \A m : LexSmall([s EXCEPT !.mode = m])
         /\ LexSmall(GiveUp(s))
         /\ \A c : LexSmall(Push(s, c))
         /\ ~(Len(s.tokens) >= MaxArgs) => LexSmall([s EXCEPT !.held = TRUE])
         /\ LexSmall(AtBlank(s))
<1>1. PICK m, w, h, ts, o : s = Whole(m, w, h, ts, o) /\ Small(w) /\ Room(h, ts)
  BY DEF LexSmall
<1>2. s.token = w /\ s.held = h /\ s.tokens = ts
  BY <1>1, WholeChanges
<1>3. ASSUME NEW x PROVE LexSmall([s EXCEPT !.mode = x]) /\ LexSmall([s EXCEPT !.over = x])
  <2>1. [s EXCEPT !.mode = x] = Whole(x, w, h, ts, o) /\ [s EXCEPT !.over = x] = Whole(m, w, h, ts, x)
    BY <1>1, WholeChanges
  <2> QED
    BY <1>1, <2>1, SmallAre
<1>4. LexSmall(GiveUp(s))
  BY <1>3 DEF GiveUp
<1>5. ASSUME NEW c PROVE LexSmall(Push(s, c))
  <2>1. CASE Len(w) >= MaxToken
    BY <1>2, <1>4, <2>1 DEF Push
  <2>2. CASE ~(Len(w) >= MaxToken)
    <3> DEFINE x == Append(w, c)
               a == Len(w)
    <3>1. IsSeq(w) /\ a \in Nat /\ MaxToken \in Nat
      BY <1>1, SequenceFacts, LimitsAssumption DEF Small
    <3>2. IsSeq(x) /\ Len(x) = a + 1
      BY <3>1, Appended
    <3>3. ~(a >= MaxToken)
      BY <2>2
    <3> HIDE DEF x, a
    <3>4. Small(x)
      BY <3>1, <3>2, <3>3 DEF Small
    <3>5. Push(s, c) = [s EXCEPT !.token = x]
      <4>1. ~(Len(s.token) >= MaxToken)
        BY <1>2, <2>2
      <4>2. Push(s, c) = [s EXCEPT !.token = Append(s.token, c)]
        BY <4>1 DEF Push
      <4> QED
        BY <1>2, <4>2 DEF x
    <3>6. Push(s, c) = Whole(m, x, h, ts, o)
      BY <1>1, <3>5, WholeChanges
    <3> QED
      BY <1>1, <3>4, <3>6, SmallAre
  <2> QED
    BY <2>1, <2>2
<1>6. ASSUME ~(Len(s.tokens) >= MaxArgs) PROVE LexSmall([s EXCEPT !.held = TRUE])
  <2>2. Len(ts) \in Nat /\ MaxArgs \in Nat
    BY <1>1, SequenceFacts, LimitsAssumption DEF Room, SmallList
  <2>3. Room(TRUE, ts)
    BY <1>1, <1>2, <1>6, <2>2 DEF Room
  <2> QED
    BY <1>1, <2>3, HeldSmall
<1>7. LexSmall(AtBlank(s))
  <2>1. CASE ~(s.held /\ s.token # <<>>)
    BY <2>1 DEF AtBlank
  <2>2. CASE s.held /\ s.token # <<>>
    <3> DEFINE ts2 == Append(ts, w)
               t1 == [s EXCEPT !.tokens = ts2]
               t2 == [t1 EXCEPT !.token = <<>>]
               t3 == [t2 EXCEPT !.held = FALSE]
    <3>1. AtBlank(s) = t3
      <4>1. AtBlank(s) = Flush(s)
        BY <2>2 DEF AtBlank
      <4>2. Flush(s) = t3
        BY <1>2 DEF Flush
      <4> QED
        BY <4>1, <4>2
    <3>2. h = TRUE
      BY <1>1, <1>2, <2>2 DEF Room
    <3>3. SmallList(ts) /\ Len(ts) < MaxArgs
      BY <1>1, <3>2 DEF Room
    <3>4. SmallList(ts2) /\ Len(ts2) = Len(ts) + 1
      BY <1>1, <3>3, OneMore
    <3> HIDE DEF ts2
    <3>5. Len(ts2) <= MaxArgs
      <4>1. Len(ts) \in Nat /\ MaxArgs \in Nat
        BY <3>3, SequenceFacts, LimitsAssumption DEF SmallList
      <4> QED
        BY <3>3, <3>4, <4>1
    <3>6. Room(FALSE, ts2)
      BY <3>4, <3>5 DEF Room
    <3>7. t1 = Whole(m, w, h, ts2, o)
      BY <1>1, WholeChanges
    <3> HIDE DEF t1
    <3>8. t2 = Whole(m, <<>>, h, ts2, o)
      BY <3>7, WholeChanges
    <3> HIDE DEF t2
    <3>9. LexSmall(t3)
      BY <3>6, <3>8, SmallEmpty, HeldSmall
    <3> QED
      BY <3>1, <3>9
  <2> QED
    BY <2>1, <2>2
<1> QED
  BY <1>3, <1>4, <1>5, <1>6, <1>7

LEMMA SmallStep ==
  ASSUME NEW s, LexSmall(s), NEW c PROVE LexSmall(LexStep(s, c))
<1>1. ASSUME NEW t, LexSmall(t)
      PROVE  /\ \A m : LexSmall([t EXCEPT !.mode = m])
             /\ LexSmall(GiveUp(t)) /\ LexSmall(AtBlank(t)) /\ \A d : LexSmall(Push(t, d))
  BY <1>1, SmallMoves
<1> DEFINE begun == [s EXCEPT !.held = TRUE]
<1>2. LexSmall(InPlain(s, c))
  <2>1. CASE InPlain(s, c) \in {AtBlank(s), [s EXCEPT !.mode = "comment"], GiveUp(s)}
    BY <1>1, <2>1
  <2>2. CASE /\ ~(Len(s.tokens) >= MaxArgs)
             /\ InPlain(s, c) \in {[begun EXCEPT !.mode = "single"], [begun EXCEPT !.mode = "double"],
                                   [begun EXCEPT !.mode = "escape"], Push(begun, c)}
    <3>1. LexSmall(begun)
      BY <2>2, SmallMoves
    <3> HIDE DEF begun
    <3>2. LexSmall(Push(begun, c)) /\ \A m : LexSmall([begun EXCEPT !.mode = m])
      BY <1>1, <3>1
    <3> QED
      BY <2>2, <3>2
  <2>3. \/ InPlain(s, c) \in {AtBlank(s), [s EXCEPT !.mode = "comment"], GiveUp(s)}
        \/ /\ ~(Len(s.tokens) >= MaxArgs)
           /\ InPlain(s, c) \in {[begun EXCEPT !.mode = "single"], [begun EXCEPT !.mode = "double"],
                                 [begun EXCEPT !.mode = "escape"], Push(begun, c)}
    BY DEF InPlain
  <2> QED
    BY <2>1, <2>2, <2>3
<1>3. LexSmall(InSingle(s, c))
  BY <1>1 DEF InSingle
<1>4. LexSmall(InDouble(s, c))
  BY <1>1 DEF InDouble
<1>5. LexSmall(AfterBackslash(s, c))
  <2> DEFINE back == [s EXCEPT !.mode = "double"]
  <2>1. AfterBackslash(s, c) \in {back, Push(back, c), Push(Push(back, Backslash), c)}
    BY DEF AfterBackslash
  <2>2. LexSmall(back)
    BY <1>1
  <2> HIDE DEF back
  <2>3. LexSmall(Push(back, Backslash))
    BY <1>1, <2>2
  <2> QED
    BY <1>1, <2>1, <2>2, <2>3
<1>6. LexSmall(Push([s EXCEPT !.mode = "plain"], c))
  <2>1. LexSmall([s EXCEPT !.mode = "plain"])
    BY <1>1
  <2> QED
    BY <1>1, <2>1
<1>7. LexStep(s, c) \in {s, InPlain(s, c), InSingle(s, c), InDouble(s, c), AfterBackslash(s, c),
                         Push([s EXCEPT !.mode = "plain"], c)}
  BY DEF LexStep
<1> QED
  BY <1>2, <1>3, <1>4, <1>5, <1>6, <1>7

LEMMA TokensAreSmall ==
  ASSUME NEW line, IsSeq(line)
  PROVE  SmallList(Tokenize(line).tokens) /\ Len(Tokenize(line).tokens) <= MaxArgs
<1> DEFINE n == Len(line)
           st == LexAfter(line)
           T == {k \in Nat : k <= n => LexSmall(st[k])}
<1>1. n \in Nat /\ st[0] = LexStart /\ \A k \in 1 .. n : st[k] = LexStep(st[k - 1], line[k])
  BY SequenceFacts, LexSteps
<1>2. Room(FALSE, <<>>)
  BY SmallEmpty, EmptyFacts, LimitsAssumption DEF Room
<1>3. LexSmall(LexStart)
  <2>1. LexStart = Whole("plain", <<>>, FALSE, <<>>, FALSE)
    BY DEF LexStart, Whole
  <2> QED
    BY <1>2, <2>1, SmallEmpty, SmallAre
<1> HIDE DEF st
<1>4. 0 \in T
  BY <1>1, <1>3
<1>5. ASSUME NEW l \in T PROVE l + 1 \in T
  <2>1. SUFFICES ASSUME l + 1 <= n PROVE LexSmall(st[l + 1])
    OBVIOUS
  <2>2. l + 1 \in 1 .. n /\ (l + 1) - 1 = l /\ LexSmall(st[l])
    BY <1>1, <2>1
  <2> QED
    BY <1>1, <2>2, SmallStep
<1>6. T = Nat
  <2>1. T \in SUBSET Nat
    OBVIOUS
  <2> HIDE DEF T
  <2> QED
    BY <1>4, <1>5, <2>1, Reached
<1>7. LexSmall(st[n])
  BY <1>1, <1>6
<1>8. PICK m, w, h, ts, o : st[n] = Whole(m, w, h, ts, o) /\ Small(w) /\ Room(h, ts)
  BY <1>7 DEF LexSmall
<1>9. Tokenize(line) = LexEnd(st[n], n <= MaxLine)
  BY DEF Tokenize, st
<1> DEFINE e == st[n]
<1>10. e.token = w /\ e.held = h /\ e.tokens = ts
  BY <1>8, WholeChanges
<1> HIDE DEF e
<1>11. \/ Tokenize(line).tokens \in {<<>>, ts}
       \/ h = TRUE /\ Tokenize(line).tokens = Append(ts, w)
  <2>1. Tokenize(line).tokens \in {<<>>, e.tokens} \/ (e.held /\ Tokenize(line).tokens = Append(e.tokens, e.token))
    BY <1>9 DEF LexEnd, e
  <2>2. h \in BOOLEAN
    BY <1>8 DEF Room
  <2> QED
    BY <1>10, <2>1, <2>2
<1>12. CASE Tokenize(line).tokens \in {<<>>, ts}
  BY <1>2, <1>8, <1>12 DEF Room
<1>13. CASE h = TRUE /\ Tokenize(line).tokens = Append(ts, w)
  <2>1. SmallList(ts) /\ Len(ts) < MaxArgs
    BY <1>8, <1>13 DEF Room
  <2>2. SmallList(Append(ts, w)) /\ Len(Append(ts, w)) = Len(ts) + 1
    BY <1>8, <2>1, OneMore
  <2>3. Len(ts) \in Nat /\ MaxArgs \in Nat
    BY <2>1, SequenceFacts, LimitsAssumption DEF SmallList
  <2> QED
    BY <1>13, <2>1, <2>2, <2>3
<1> QED
  BY <1>11, <1>12, <1>13

------------------------------------------------------------------------------
(* How the tokens are taken apart. *)

Rises(f) == \A i, j \in 1 .. Len(f) : i < j => f[i] < f[j]

LEMMA OrderFacts ==
  ASSUME NEW P, NEW n \in Nat
  PROVE  LET f == InOrder(P, n)
         IN  /\ IsSeq(f) /\ Rises(f)
             /\ \A i \in 1 .. Len(f) : f[i] \in 1 .. n /\ f[i] \in P
             /\ \A p \in 1 .. n : p \in P => \E i \in 1 .. Len(f) : f[i] = p
<1> DEFINE st == InOrderUpTo(P, n)
           Fine(f, k) == /\ IsSeq(f) /\ Rises(f)
                         /\ \A i \in 1 .. Len(f) : f[i] \in 1 .. k /\ f[i] \in P
                         /\ \A p \in 1 .. k : p \in P => \E i \in 1 .. Len(f) : f[i] = p
           T == {k \in Nat : k <= n => Fine(st[k], k)}
<1>1. /\ st[0] = <<>>
      /\ \A k \in 1 .. n : st[k] = (IF k \in P THEN Append(st[k - 1], k) ELSE st[k - 1])
  BY OrderSteps
<1>2. InOrder(P, n) = st[n]
  BY DEF InOrder
<1> HIDE DEF st
<1>3. Fine(<<>>, 0)
  <2>1. IsSeq(<<>>) /\ Len(<<>>) = 0
    BY EmptyFacts
  <2> DEFINE f == <<>>
  <2> HIDE DEF f
  <2>2. IsSeq(f) /\ Len(f) = 0
    BY <2>1 DEF f
  <2>3. Fine(f, 0)
    BY <2>2 DEF Rises
  <2> QED
    BY <2>3 DEF f
<1>4. 0 \in T
  <2> HIDE DEF Fine
  <2> QED
    BY <1>1, <1>3
<1>5. ASSUME NEW f, NEW l \in Nat, Fine(f, l) PROVE l + 1 \in P => Fine(Append(f, l + 1), l + 1)
  <2> DEFINE k == l + 1
             g == Append(f, k)
             m == Len(f)
  <2> SUFFICES ASSUME k \in P PROVE Fine(g, k)
    OBVIOUS
  <2>1. /\ IsSeq(g) /\ Len(g) = m + 1 /\ (\A i \in 1 .. m : g[i] = f[i]) /\ g[m + 1] = k /\ m \in Nat
    BY <1>5, Appended, SequenceFacts
  <2>2. /\ \A i, j \in 1 .. m : i < j => f[i] < f[j]
        /\ \A i \in 1 .. m : f[i] \in 1 .. l /\ f[i] \in P
        /\ \A p \in 1 .. l : p \in P => \E i \in 1 .. m : f[i] = p
    BY <1>5 DEF Rises
  <2> HIDE DEF g, m
  <2>3. \A i \in 1 .. Len(g) : i \in 1 .. m \/ i = m + 1
    BY <2>1
  <2>4. \A i \in 1 .. m : f[i] \in Nat /\ f[i] < k
    BY <2>2
  <2>5. ASSUME NEW i \in 1 .. Len(g), NEW j \in 1 .. Len(g), i < j PROVE g[i] < g[j]
    <3>1. i \in 1 .. m
      BY <2>1, <2>5
    <3>2. g[i] = f[i] /\ f[i] < k
      BY <2>1, <2>4, <3>1
    <3>3. CASE j = m + 1
      BY <2>1, <3>2, <3>3
    <3>4. CASE j \in 1 .. m
      <4>1. g[j] = f[j] /\ f[i] < f[j]
        BY <2>1, <2>2, <2>5, <3>1, <3>4
      <4> QED
        BY <3>2, <4>1
    <3> QED
      BY <2>3, <3>3, <3>4
  <2>6. ASSUME NEW i \in 1 .. Len(g) PROVE g[i] \in 1 .. k /\ g[i] \in P
    <3>1. CASE i = m + 1
      BY <2>1, <3>1
    <3>2. CASE i \in 1 .. m
      <4>1. g[i] = f[i] /\ f[i] \in 1 .. l /\ f[i] \in P
        BY <2>1, <2>2, <3>2
      <4> QED
        BY <4>1
    <3> QED
      BY <2>3, <3>1, <3>2
  <2>7. ASSUME NEW p \in 1 .. k, p \in P PROVE \E i \in 1 .. Len(g) : g[i] = p
    <3>1. CASE p = k
      <4>1. m + 1 \in 1 .. Len(g)
        BY <2>1
      <4> QED
        BY <2>1, <3>1, <4>1
    <3>2. CASE p \in 1 .. l
      <4>1. PICK i \in 1 .. m : f[i] = p
        BY <2>2, <2>7, <3>2
      <4>2. i \in 1 .. Len(g) /\ g[i] = p
        BY <2>1, <4>1
      <4> QED
        BY <4>2
    <3> QED
      BY <3>1, <3>2
  <2> QED
    BY <2>1, <2>5, <2>6, <2>7 DEF Rises
<1>6. ASSUME NEW f, NEW l \in Nat, Fine(f, l) PROVE l + 1 \notin P => Fine(f, l + 1)
  <2> SUFFICES ASSUME l + 1 \notin P PROVE Fine(f, l + 1)
    OBVIOUS
  <2>1. \A i \in 1 .. Len(f) : f[i] \in 1 .. l + 1 /\ f[i] \in P
    BY <1>6
  <2>2. ASSUME NEW p \in 1 .. l + 1, p \in P PROVE \E i \in 1 .. Len(f) : f[i] = p
    <3>1. p \in 1 .. l
      BY <2>2
    <3> QED
      BY <1>6, <2>2, <3>1
  <2> QED
    BY <1>6, <2>1, <2>2
<1> HIDE DEF Fine
<1>7. ASSUME NEW l \in T PROVE l + 1 \in T
  <2>1. SUFFICES ASSUME l + 1 <= n PROVE Fine(st[l + 1], l + 1)
    OBVIOUS
  <2>2. l + 1 \in 1 .. n /\ (l + 1) - 1 = l /\ l \in Nat /\ Fine(st[l], l)
    BY <2>1
  <2>3. st[l + 1] = (IF l + 1 \in P THEN Append(st[l], l + 1) ELSE st[l])
    BY <1>1, <2>2
  <2> QED
    BY <1>5, <1>6, <2>2, <2>3
<1>8. T = Nat
  <2>1. T \in SUBSET Nat
    OBVIOUS
  <2> HIDE DEF T
  <2> QED
    BY <1>4, <1>7, <2>1, Reached
<1>9. Fine(st[n], n)
  BY <1>8
<1> QED
  BY <1>2, <1>9 DEF Fine

(* Part k lies between place[k - 1] and place[k], where the bars are.      *)
PartsLaid(tokens, place, n) ==
  /\ IsSeq(Parts(tokens)) /\ Len(Parts(tokens)) = n /\ n \in Nat \ {0}
  /\ place[0] = 0
  /\ \A k \in 0 .. n : place[k] \in Nat /\ place[k] <= Len(tokens) + 1
  /\ \A k \in 1 .. n : /\ SmallList(Parts(tokens)[k])
                       /\ place[k - 1] + Len(Parts(tokens)[k]) + 1 = place[k]
                       /\ \A i \in 1 .. Len(Parts(tokens)[k]) : Parts(tokens)[k][i] # Bar

LEMMA PartsAreLaid ==
  ASSUME NEW tokens, SmallList(tokens) PROVE \E place, n : PartsLaid(tokens, place, n)
<1> DEFINE N == Len(tokens)
           P == {i \in DOMAIN tokens : tokens[i] \in {Bar}}
           f == InOrder(P, N)
           m == Len(f)
           n == m + 1
           place == [k \in 0 .. n |-> IF k = 0 THEN 0 ELSE IF k > m THEN N + 1 ELSE f[k]]
           From(k) == IF k = 1 THEN 1 ELSE f[k - 1] + 1
           To(k) == IF k > m THEN N ELSE f[k] - 1
           parts == [k \in 1 .. n |-> SubSeq(tokens, From(k), To(k))]
<1>1. IsSeq(tokens) /\ N \in Nat /\ DOMAIN tokens = 1 .. N /\ \A i \in 1 .. N : Small(tokens[i])
  BY SequenceFacts DEF SmallList
<1>2. Parts(tokens) = parts
  BY DEF Parts, SplitBy, SplitAt
<1>3. /\ IsSeq(f) /\ \A i, j \in 1 .. m : i < j => f[i] < f[j]
      /\ \A i \in 1 .. m : f[i] \in 1 .. N /\ f[i] \in P
      /\ \A p \in 1 .. N : p \in P => \E i \in 1 .. m : f[i] = p
  <2> HIDE DEF P
  <2> QED
    BY <1>1, OrderFacts DEF Rises
<1> HIDE DEF f
<1>4. m \in Nat /\ n \in Nat \ {0}
  BY <1>3, SequenceFacts
<1> HIDE DEF m, N
<1>5. /\ place[0] = 0 /\ place[n] = N + 1
      /\ \A k \in 1 .. m : place[k] = f[k]
  BY <1>4
<1>6. ASSUME NEW k \in 0 .. n PROVE place[k] \in Nat /\ place[k] <= N + 1
  <2>1. k = 0 \/ k = n \/ k \in 1 .. m
    BY <1>4
  <2> HIDE DEF place, n
  <2> QED
    BY <1>1, <1>3, <1>5, <2>1
<1>7. ASSUME NEW k \in 1 .. n
      PROVE  /\ From(k) = place[k - 1] + 1 /\ To(k) = place[k] - 1
             /\ place[k - 1] < place[k]
             /\ \A q \in 1 .. N : place[k - 1] < q /\ q < place[k] => q \notin P
  <2>1. k = 1 \/ (k - 1 \in 1 .. m /\ k # 1)
    BY <1>4
  <2>2. k = n \/ (k \in 1 .. m /\ ~(k > m))
    BY <1>4
  <2>3. From(k) = place[k - 1] + 1
    <3>1. CASE k = 1
      <4>1. k - 1 = 0
        BY <3>1
      <4> HIDE DEF place
      <4> QED
        BY <1>5, <3>1, <4>1
    <3>2. CASE k - 1 \in 1 .. m /\ k # 1
      <4> HIDE DEF place
      <4> QED
        BY <1>5, <3>2
    <3> QED
      BY <2>1, <3>1, <3>2
  <2>4. To(k) = place[k] - 1
    <3>1. CASE k = n
      <4>1. k > m
        BY <1>4, <3>1
      <4> HIDE DEF place, n
      <4> QED
        BY <1>1, <1>5, <3>1, <4>1
    <3>2. CASE k \in 1 .. m /\ ~(k > m)
      <4> HIDE DEF place
      <4> QED
        BY <1>5, <3>2
    <3> QED
      BY <2>2, <3>1, <3>2
  <2>5. k - 1 \in 0 .. n /\ k \in 0 .. n
    BY <1>4
  <2>6. place[k - 1] \in Nat /\ place[k] \in Nat
    BY <1>6, <2>5
  <2>7. place[k - 1] < place[k]
    <3>1. CASE k = n
      <4>1. place[k] = N + 1
        BY <1>5, <3>1
      <4>2. place[k - 1] <= N
        <5>1. CASE k = 1
          <6>1. place[k - 1] = 0
            BY <1>5, <5>1
          <6> HIDE DEF place
          <6> QED
            BY <1>1, <6>1
        <5>2. CASE k - 1 \in 1 .. m
          <6>1. place[k - 1] = f[k - 1]
            BY <1>5, <5>2
          <6>2. f[k - 1] \in 1 .. N
            BY <1>3, <5>2
          <6> HIDE DEF place
          <6> QED
            BY <6>1, <6>2
        <5> QED
          BY <2>1, <5>1, <5>2
      <4> HIDE DEF place
      <4> QED
        BY <1>1, <2>6, <4>1, <4>2
    <3>2. CASE k \in 1 .. m
      <4>1. place[k] = f[k] /\ f[k] \in 1 .. N
        BY <1>3, <1>5, <3>2
      <4>2. CASE k = 1
        <5>1. place[k - 1] = 0
          BY <1>5, <4>2
        <5> HIDE DEF place
        <5> QED
          BY <4>1, <5>1
      <4>3. CASE k - 1 \in 1 .. m
        <5>1. place[k - 1] = f[k - 1] /\ f[k - 1] < f[k]
          <6>1. k - 1 < k
            OBVIOUS
          <6> QED
            BY <1>3, <1>5, <3>2, <4>3, <6>1
        <5> HIDE DEF place
        <5> QED
          BY <4>1, <5>1
      <4> QED
        BY <2>1, <4>2, <4>3
    <3> QED
      BY <2>2, <3>1, <3>2
  <2>8. ASSUME NEW q \in 1 .. N, place[k - 1] < q, q < place[k], q \in P PROVE FALSE
    <3>1. PICK i \in 1 .. m : f[i] = q
      BY <1>3, <2>8
    <3>2. i >= k
      <4> SUFFICES ASSUME i <= k - 1 PROVE FALSE
        BY <1>4
      <4>1. k - 1 \in 1 .. m /\ place[k - 1] = f[k - 1]
        BY <1>4, <1>5
      <4>2. i = k - 1 \/ f[i] < f[k - 1]
        BY <1>3, <4>1
      <4>3. f[k - 1] < q
        BY <2>8, <4>1
      <4>4. f[k - 1] \in Nat /\ q \in Nat
        BY <1>3, <4>1
      <4> QED
        BY <3>1, <4>2, <4>3, <4>4
    <3>3. k \in 1 .. m /\ place[k] = f[k]
      BY <1>4, <1>5, <3>2
    <3>4. i = k \/ f[k] < f[i]
      BY <1>3, <3>2, <3>3
    <3>5. f[k] \in Nat /\ q \in Nat /\ q < f[k]
      BY <1>3, <2>8, <3>3
    <3> QED
      BY <3>1, <3>4, <3>5
  <2> HIDE DEF From, To, place, P
  <2> QED
    BY <2>3, <2>4, <2>7, <2>8
<1>8. ASSUME NEW k \in 1 .. n
      PROVE  /\ SmallList(parts[k]) /\ place[k - 1] + Len(parts[k]) + 1 = place[k]
             /\ \A i \in 1 .. Len(parts[k]) : parts[k][i] # Bar
  <2> DEFINE a == place[k - 1]
             b == place[k]
             x == SubSeq(tokens, a + 1, b - 1)
             z == (b - 1) - a
  <2>1. k - 1 \in 0 .. n /\ k \in 0 .. n
    BY <1>4
  <2>2. a \in Nat /\ b \in Nat /\ a < b /\ b <= N + 1
    <3> HIDE DEF place
    <3> QED
      BY <1>6, <1>7, <2>1
  <2>3. parts[k] = x
    <3>1. parts[k] = SubSeq(tokens, From(k), To(k))
      OBVIOUS
    <3>2. From(k) = a + 1 /\ To(k) = b - 1
      BY <1>7
    <3> HIDE DEF parts, From, To, a, b
    <3> QED
      BY <3>1, <3>2
  <2>4. ASSUME NEW q \in 1 .. N, a < q, q < b PROVE tokens[q] # Bar
    <3>1. q \notin P
      <4> HIDE DEF P, place
      <4> QED
        BY <1>7, <2>4
    <3> QED
      BY <1>1, <3>1
  <2> HIDE DEF a, b, parts
  <2>5. z \in Nat /\ a + z + 1 = b
    BY <2>2
  <2>6. PICK S : tokens \in Seq(S)
    BY <1>1 DEF IsSeq
  <2>7. x = [i \in 1 .. z |-> tokens[a + i]]
    <3>1. x = [i \in 1 .. (b - 1) - (a + 1) + 1 |-> tokens[i + (a + 1) - 1]]
      BY <1>1, <2>2, <2>6 DEF N
    <3>2. (b - 1) - (a + 1) + 1 = z /\ \A i \in 1 .. z : i + (a + 1) - 1 = a + i
      BY <2>2
    <3> HIDE DEF z, x
    <3> QED
      BY <3>1, <3>2
  <2>8. \A i \in 1 .. z : a + i \in 1 .. N /\ a < a + i /\ a + i < b
    BY <1>1, <2>2
  <2> HIDE DEF x, z
  <2>9. x = [i \in 1 .. z |-> x[i]] /\ \A i \in 1 .. z : x[i] = tokens[a + i]
    BY <2>7
  <2>10. IsSeq(x) /\ Len(x) = z
    BY <2>5, <2>9, ListedIsSeq
  <2>11. \A i \in 1 .. Len(x) : Small(x[i]) /\ x[i] # Bar
    BY <1>1, <2>4, <2>8, <2>9, <2>10
  <2>12. SmallList(x) /\ a + Len(x) + 1 = b /\ \A i \in 1 .. Len(x) : x[i] # Bar
    BY <2>5, <2>10, <2>11 DEF SmallList
  <2> QED
    BY <2>3, <2>12 DEF a, b
<1>9. IsSeq(parts) /\ Len(parts) = n
  <2>1. parts = [k \in 1 .. n |-> parts[k]]
    OBVIOUS
  <2> HIDE DEF parts, n
  <2> QED
    BY <1>4, <2>1, ListedIsSeq
<1>10. place[0] = 0
  BY <1>5
<1> HIDE DEF parts, place, n
<1>11. PartsLaid(tokens, place, n)
  BY <1>2, <1>4, <1>6, <1>8, <1>9, <1>10 DEF PartsLaid, N
<1> QED
  BY <1>11

(* The arguments and redirections of a part are words, and no more than    *)
(* the part has.                                                           *)
Taken(argv, reds, room) ==
  /\ IsSeq(argv) /\ argv # <<>> /\ \A i \in 1 .. Len(argv) : IsWord(argv[i])
  /\ IsSeq(reds)
  /\ \A r \in 1 .. Len(reds) : /\ reds[r] = [op |-> reds[r].op, target |-> reds[r].target]
                               /\ reds[r].op \in Operators /\ IsWord(reds[r].target)
  /\ Len(argv) + 2 * Len(reds) <= room

LEMMA CountedPlaces ==
  ASSUME NEW N \in Nat, NEW A, NEW B, \A i \in A : i + 1 \notin A /\ i + 1 \notin B,
         \A i \in A : i \notin B, N \notin A, 0 \notin A
  PROVE  Len(InOrder(B, N)) + 2 * Len(InOrder(A, N)) <= N
<1> DEFINE a == InOrderUpTo(A, N)
           b == InOrderUpTo(B, N)
           Fine(x, y, k) == /\ IsSeq(x) /\ IsSeq(y)
                            /\ Len(y) + 2 * Len(x) <= k + 1 /\ (k \notin A => Len(y) + 2 * Len(x) <= k)
           T == {k \in Nat : k <= N => Fine(a[k], b[k], k)}
<1>1. /\ a[0] = <<>> /\ b[0] = <<>>
      /\ \A k \in 1 .. N : a[k] = (IF k \in A THEN Append(a[k - 1], k) ELSE a[k - 1])
      /\ \A k \in 1 .. N : b[k] = (IF k \in B THEN Append(b[k - 1], k) ELSE b[k - 1])
  BY OrderSteps
<1>2. InOrder(A, N) = a[N] /\ InOrder(B, N) = b[N]
  BY DEF InOrder
<1> HIDE DEF a, b
<1>3. Fine(<<>>, <<>>, 0)
  BY EmptyFacts
<1>4. ASSUME NEW x, NEW y, NEW l \in Nat, Fine(x, y, l), NEW k, k = l + 1,
             NEW x2, x2 = IF k \in A THEN Append(x, k) ELSE x,
             NEW y2, y2 = IF k \in B THEN Append(y, k) ELSE y
      PROVE  Fine(x2, y2, k)
  <2> DEFINE p == Len(x)
             q == Len(y)
  <2>1. IsSeq(x) /\ IsSeq(y) /\ p \in Nat /\ q \in Nat
    BY <1>4, SequenceFacts
  <2>2. q + 2 * p <= l + 1 /\ (l \notin A => q + 2 * p <= l)
    BY <1>4
  <2>3. IsSeq(x2) /\ Len(x2) = IF k \in A THEN p + 1 ELSE p
    BY <1>4, <2>1, Appended
  <2>4. IsSeq(y2) /\ Len(y2) = IF k \in B THEN q + 1 ELSE q
    BY <1>4, <2>1, Appended
  <2> DEFINE u == Len(x2)
             v == Len(y2)
  <2>5. /\ u = IF k \in A THEN p + 1 ELSE p
        /\ v = IF k \in B THEN q + 1 ELSE q
    BY <2>3, <2>4
  <2>6. (l \in A => k \notin A /\ k \notin B) /\ (k \in A => k \notin B)
    BY <1>4
  <2> HIDE DEF p, q, u, v
  <2>7. k = l + 1
    BY <1>4
  <2>8. v + 2 * u <= k + 1 /\ (k \notin A => v + 2 * u <= k)
    <3>1. CASE l \in A
      <4>1. u = p /\ v = q
        BY <2>5, <2>6, <3>1
      <4> QED
        BY ONLY <2>1, <2>2, <2>7, <4>1, l \in Nat, SMT
    <3>2. CASE l \notin A /\ k \in A
      <4>1. u = p + 1 /\ v = q /\ q + 2 * p <= l
        BY <2>2, <2>5, <2>6, <3>2
      <4> QED
        BY ONLY <2>1, <2>7, <3>2, <4>1, l \in Nat, SMT
    <3>3. CASE l \notin A /\ k \notin A
      <4>1. u = p /\ (v = q \/ v = q + 1) /\ q + 2 * p <= l
        BY <2>2, <2>5, <3>3
      <4> QED
        BY ONLY <2>1, <2>7, <4>1, l \in Nat, SMT
    <3> QED
      BY <3>1, <3>2, <3>3
  <2> QED
    BY <2>3, <2>4, <2>8 DEF u, v
<1> HIDE DEF Fine
<1>5. 0 \in T
  BY <1>1, <1>3
<1>6. ASSUME NEW l \in T PROVE l + 1 \in T
  <2> DEFINE k == l + 1
  <2>1. SUFFICES ASSUME k <= N PROVE Fine(a[k], b[k], k)
    OBVIOUS
  <2>2. k \in 1 .. N /\ k - 1 = l /\ l \in Nat /\ Fine(a[l], b[l], l) /\ k = l + 1
    BY <2>1
  <2> HIDE DEF k
  <2>3. /\ a[k] = (IF k \in A THEN Append(a[l], k) ELSE a[l])
        /\ b[k] = (IF k \in B THEN Append(b[l], k) ELSE b[l])
    BY <1>1, <2>2
  <2> QED
    BY <1>4, <2>2, <2>3
<1>7. T = Nat
  <2>1. T \in SUBSET Nat
    OBVIOUS
  <2> HIDE DEF T
  <2> QED
    BY <1>5, <1>6, <2>1, Reached
<1>8. Fine(a[N], b[N], N)
  BY <1>7
<1> QED
  BY <1>2, <1>8 DEF Fine

LEMMA PartTaken ==
  ASSUME NEW p, SmallList(p), \A i \in 1 .. Len(p) : p[i] # Bar, PartOk(p)
  PROVE  Taken(ArgvOf(p), RedirectionsOf(p), Len(p))
<1> DEFINE N == Len(p)
           A == OperatorsAt(p)
           B == {i \in DOMAIN p : i \notin OperatorsAt(p) /\ i - 1 \notin OperatorsAt(p)}
           a == InOrder(A, N)
           b == InOrder(B, N)
           argv == [k \in DOMAIN b |-> p[b[k]]]
           reds == [k \in DOMAIN a |-> [op |-> p[a[k]], target |-> p[a[k] + 1]]]
<1>1. IsSeq(p) /\ N \in Nat /\ DOMAIN p = 1 .. N /\ \A i \in 1 .. N : Small(p[i])
  BY SequenceFacts DEF SmallList
<1>2. ArgvOf(p) = argv /\ RedirectionsOf(p) = reds
  BY DEF ArgvOf, RedirectionsOf, Picked, PickedAt
<1>3. /\ \A i \in A : i \in 1 .. N /\ p[i] \in Operators
      /\ \A i \in 1 .. N : i \notin A => p[i] \notin Operators
  BY <1>1 DEF OperatorsAt
<1>4. \A i \in A : i < N /\ p[i + 1] \notin Operators
  BY DEF PartOk, SplitOk
<1>5. /\ \A i \in A : i + 1 \notin A /\ i + 1 \notin B
      /\ \A i \in A : i \notin B
      /\ N \notin A /\ 0 \notin A
  <2>1. ASSUME NEW i \in A PROVE i + 1 \notin A /\ i + 1 \notin B
    <3>1. (i + 1) - 1 = i /\ p[i + 1] \notin Operators
      BY <1>3, <1>4
    <3>2. i + 1 \notin B
      BY <3>1
    <3> HIDE DEF A, B
    <3>3. i + 1 \notin A
      BY <1>3, <3>1
    <3> QED
      BY <3>2, <3>3
  <2>2. ASSUME N \in A PROVE FALSE
    <3>1. N < N
      BY <1>4, <2>2
    <3> QED
      BY <1>1, <3>1
  <2>3. 0 \notin A
    <3> HIDE DEF A, N
    <3> QED
      BY <1>1, <1>3
  <2> QED
    BY <2>1, <2>2, <2>3
<1>6. \A i \in B : i \in 1 .. N /\ i \notin A
  BY <1>1
<1> HIDE DEF A, B
<1>7. Len(b) + 2 * Len(a) <= N
  BY <1>1, <1>5, CountedPlaces
<1>8. IsSeq(a) /\ \A i \in 1 .. Len(a) : a[i] \in 1 .. N /\ a[i] \in A
  BY <1>1, OrderFacts
<1>9. IsSeq(b) /\ \A i \in 1 .. Len(b) : b[i] \in 1 .. N /\ b[i] \in B
  BY <1>1, OrderFacts
<1> HIDE DEF a, b
<1>10. DOMAIN a = 1 .. Len(a) /\ DOMAIN b = 1 .. Len(b) /\ Len(a) \in Nat /\ Len(b) \in Nat
  BY <1>8, <1>9, SequenceFacts
<1>11. ASSUME NEW w, NEW i \in 1 .. N, w = p[i], w \notin Operators PROVE IsWord(w)
  <2>1. Small(w) /\ w # Bar
    BY <1>1, <1>11 DEF N
  <2> QED
    BY <1>11, <2>1 DEF IsWord, Small
<1>12. IsSeq(argv) /\ Len(argv) = Len(b) /\ \A i \in 1 .. Len(b) : IsWord(argv[i])
  <2>1. argv = [i \in 1 .. Len(b) |-> argv[i]] /\ \A i \in 1 .. Len(b) : argv[i] = p[b[i]]
    BY <1>10
  <2> HIDE DEF argv
  <2>2. IsSeq(argv) /\ Len(argv) = Len(b)
    BY <1>10, <2>1, ListedIsSeq
  <2>3. ASSUME NEW i \in 1 .. Len(b) PROVE IsWord(argv[i])
    <3>1. b[i] \in 1 .. N /\ b[i] \notin A
      BY <1>6, <1>9
    <3> QED
      BY <1>3, <1>11, <2>1, <3>1
  <2> QED
    BY <2>2, <2>3
<1>13. /\ IsSeq(reds) /\ Len(reds) = Len(a)
       /\ \A r \in 1 .. Len(a) : /\ reds[r] = [op |-> reds[r].op, target |-> reds[r].target]
                                 /\ reds[r].op \in Operators /\ IsWord(reds[r].target)
  <2>1. /\ reds = [r \in 1 .. Len(a) |-> reds[r]]
        /\ \A r \in 1 .. Len(a) : reds[r] = [op |-> p[a[r]], target |-> p[a[r] + 1]]
    BY <1>10
  <2> HIDE DEF reds
  <2>2. IsSeq(reds) /\ Len(reds) = Len(a)
    BY <1>10, <2>1, ListedIsSeq
  <2>3. ASSUME NEW r \in 1 .. Len(a)
        PROVE  /\ reds[r] = [op |-> reds[r].op, target |-> reds[r].target]
               /\ reds[r].op \in Operators /\ IsWord(reds[r].target)
    <3>1. a[r] \in A /\ a[r] \in 1 .. N /\ a[r] < N
      BY <1>4, <1>8
    <3>2. a[r] + 1 \in 1 .. N
      BY <1>1, <3>1
    <3>3. reds[r].op = p[a[r]] /\ reds[r].target = p[a[r] + 1]
      BY <2>1
    <3>4. p[a[r]] \in Operators /\ p[a[r] + 1] \notin Operators
      BY <1>3, <1>4, <3>1
    <3>5. IsWord(p[a[r] + 1])
      BY <1>11, <3>2, <3>4
    <3> QED
      BY <2>1, <3>3, <3>4, <3>5
  <2> QED
    BY <2>2, <2>3
<1>14. argv # <<>>
  BY <1>2 DEF PartOk
<1> HIDE DEF argv, reds
<1>15. Taken(argv, reds, N)
  BY <1>7, <1>12, <1>13, <1>14 DEF Taken
<1> QED
  BY <1>2, <1>15 DEF N

(* What the engine answers: stages that were taken from the line, in order *)
(* and without an overlap.                                                 *)
AnswerTaken(answer, n, place) ==
  /\ n \in Nat \ {0} /\ n <= MaxStages
  /\ DOMAIN answer.stages = 1 .. n
  /\ place[0] = 0 /\ \A k \in 0 .. n : place[k] \in Nat /\ place[k] <= MaxArgs + 1
  /\ \A k \in 1 .. n : \E room \in Nat : /\ Taken(answer.stages[k].argv, answer.stages[k].redirections, room)
                                         /\ place[k - 1] + room + 1 = place[k]

LEMMA AnswersAreTaken ==
  ASSUME NEW line, IsSeq(line), ParsePipeline(line).ok
  PROVE  \E n, place : AnswerTaken(ParsePipeline(line), n, place)
<1> DEFINE lexed == Tokenize(line)
           ts == lexed.tokens
           parts == Parts(ts)
           answer == ParsePipeline(line)
<1>1. SmallList(ts) /\ Len(ts) <= MaxArgs
  BY TokensAreSmall
<1>2. PICK place, n : PartsLaid(ts, place, n)
  <2> HIDE DEF ts
  <2> QED
    BY <1>1, PartsAreLaid
<1>3. /\ IsSeq(parts) /\ Len(parts) = n /\ n \in Nat \ {0} /\ place[0] = 0
      /\ \A k \in 0 .. n : place[k] \in Nat /\ place[k] <= Len(ts) + 1
      /\ \A k \in 1 .. n : /\ SmallList(parts[k]) /\ place[k - 1] + Len(parts[k]) + 1 = place[k]
                           /\ \A i \in 1 .. Len(parts[k]) : parts[k][i] # Bar
  BY <1>2 DEF PartsLaid
<1>4. DOMAIN parts = 1 .. n
  BY <1>3, SequenceFacts
<1>5. answer = PipelineOf(parts, lexed.ok)
  BY DEF ParsePipeline, ParsePipelineOf
<1> HIDE DEF parts, ts
<1>6. Len(parts) <= MaxStages /\ \A k \in DOMAIN parts : PartOk(parts[k])
  BY <1>5 DEF PipelineOf
<1> DEFINE stage(k) == StageOf(ArgvOf(parts[k]), RedirectionsOf(parts[k]), k, Len(parts))
<1>7. answer.stages = [k \in DOMAIN parts |-> stage(k)]
  BY <1>5 DEF PipelineOf
<1>8. \A k : stage(k).argv = ArgvOf(parts[k]) /\ stage(k).redirections = RedirectionsOf(parts[k])
  BY DEF StageOf
<1> HIDE DEF stage
<1>9. ASSUME NEW k \in 1 .. n
      PROVE  \E room \in Nat : /\ Taken(answer.stages[k].argv, answer.stages[k].redirections, room)
                               /\ place[k - 1] + room + 1 = place[k]
  <2> DEFINE p == parts[k]
  <2>1. SmallList(p) /\ PartOk(p) /\ \A i \in 1 .. Len(p) : p[i] # Bar
    BY <1>3, <1>4, <1>6
  <2>2. place[k - 1] + Len(p) + 1 = place[k]
    BY <1>3
  <2>3. answer.stages[k].argv = ArgvOf(p) /\ answer.stages[k].redirections = RedirectionsOf(p)
    BY <1>4, <1>7, <1>8
  <2> HIDE DEF p, answer
  <2>4. Taken(ArgvOf(p), RedirectionsOf(p), Len(p))
    BY <2>1, PartTaken
  <2>5. Len(p) \in Nat
    BY <2>1, SequenceFacts DEF SmallList
  <2> QED
    BY <2>2, <2>3, <2>4, <2>5
<1>10. ASSUME NEW k \in 0 .. n PROVE place[k] \in Nat /\ place[k] <= MaxArgs + 1
  <2> DEFINE a == place[k]
             b == Len(ts)
  <2>1. a \in Nat /\ a <= b + 1 /\ b <= MaxArgs /\ b \in Nat /\ MaxArgs \in Nat
    BY <1>1, <1>3, SequenceFacts, LimitsAssumption DEF SmallList
  <2> HIDE DEF a, b
  <2>2. a <= MaxArgs + 1
    BY <2>1
  <2> QED
    BY <2>1, <2>2 DEF a
<1>11. DOMAIN answer.stages = 1 .. n /\ n <= MaxStages
  BY <1>3, <1>4, <1>6, <1>7
<1> HIDE DEF answer
<1>12. AnswerTaken(answer, n, place)
  BY <1>3, <1>9, <1>10, <1>11 DEF AnswerTaken
<1> QED
  BY <1>12 DEF answer

(* The path of an executable is a word, longer than any option.            *)
IsPath(p) == \E a, b : p = <<"/", a, "/", b>>

LEMMA PathFacts ==
  ASSUME NEW p, IsPath(p) PROVE IsSeq(p) /\ Len(p) = 4 /\ IsWord(p) /\ p # <<>>
<1>1. PICK a, b : p = <<"/", a, "/", b>>
  BY DEF IsPath
<1>2. p \in Seq({"/", a, b}) /\ Len(p) = 4
  BY <1>1
<1>3. IsSeq(p)
  BY <1>2 DEF IsSeq
<1>4. ASSUME NEW op \in Operators \cup {Bar} PROVE Len(op) \in {1, 2, 3}
  BY DEF Operators, Bar
<1>5. p \notin Operators \cup {Bar}
  <2> SUFFICES ASSUME p \in Operators \cup {Bar} PROVE FALSE
    OBVIOUS
  <2>1. Len(p) \in {1, 2, 3}
    BY <1>4
  <2>2. Len(p) = 4
    BY <1>2
  <2> QED
    BY ONLY <2>1, <2>2
<1>6. 4 <= MaxToken
  BY AdmissionAssumption
<1> QED
  BY <1>2, <1>3, <1>5, <1>6, EmptyFacts DEF IsWord

------------------------------------------------------------------------------
(* How the engine reads the arguments it is started with. *)

LEMMA Options ==
  /\ Monitor # RunLine /\ Monitor # Option("--inspect") /\ Json # RunLine
  /\ \A o \in {Monitor, Json, RunLine} \cup {RedirOf[slot] : slot \in DOMAIN RedirOf} : IsSeq(o) /\ Len(o) = 1
  /\ \A slot \in DOMAIN RedirOf : RedirOf[slot] # RunLine
  /\ DOMAIN RedirOf = {"in", "out", "append"}
<1>1. ASSUME NEW x PROVE IsSeq(<<x>>) /\ Len(<<x>>) = 1 /\ <<x>>[1] = x
  BY EmptyFacts
<1>2. /\ Monitor[1] = "--monitor" /\ RunLine[1] = "--run-line" /\ Json[1] = "--json"
      /\ Option("--inspect")[1] = "--inspect"
  BY <1>1 DEF Monitor, RunLine, Json, Option
<1>3. \A o \in {Monitor, Json, RunLine} : IsSeq(o) /\ Len(o) = 1
  BY <1>1 DEF Monitor, RunLine, Json, Option
<1>4. DOMAIN RedirOf = {"in", "out", "append"}
  BY DEF RedirOf
<1>5. /\ RedirOf["in"] = <<"--redir-in">> /\ RedirOf["out"] = <<"--redir-out">>
      /\ RedirOf["append"] = <<"--redir-append">>
  BY DEF RedirOf, Option
<1>6. \A slot \in DOMAIN RedirOf : /\ IsSeq(RedirOf[slot]) /\ Len(RedirOf[slot]) = 1
                                   /\ RedirOf[slot][1] \in {"--redir-in", "--redir-out", "--redir-append"}
  BY <1>1, <1>4, <1>5
<1>7. \A slot \in DOMAIN RedirOf : RedirOf[slot] # RunLine
  BY <1>2, <1>6
<1>8. Monitor # RunLine /\ Monitor # Option("--inspect") /\ Json # RunLine
  BY <1>2
<1> QED
  BY <1>3, <1>4, <1>6, <1>7, <1>8

LEMMA PairIs ==
  ASSUME NEW a, NEW b PROVE <<a, b>> = <<a>> \o <<b>> /\ IsSeq(<<a, b>>)
<1>1. IsSeq(<<a>>) /\ IsSeq(<<b>>) /\ Len(<<a>>) = 1 /\ Len(<<b>>) = 1 /\ <<a>>[1] = a /\ <<b>>[1] = b
  BY EmptyFacts
<1>2. IsJoin(<<a>> \o <<b>>, <<a>>, <<b>>)
  BY <1>1, JoinFacts
<1>3. <<a, b>> \in Seq({a, b}) /\ Len(<<a, b>>) = 2 /\ <<a, b>>[1] = a /\ <<a, b>>[2] = b
  OBVIOUS
<1>4. IsSeq(<<a, b>>)
  BY <1>3 DEF IsSeq
<1> DEFINE u == <<a, b>>
           v == <<a>> \o <<b>>
           x == <<a>>
           y == <<b>>
<1>5. IsSeq(v) /\ Len(v) = 2 /\ v[1] = a /\ v[2] = b
  <2> HIDE DEF v, x, y
  <2>1. IsJoin(v, x, y) /\ Len(x) = 1 /\ Len(y) = 1 /\ x[1] = a /\ y[1] = b
    BY <1>1, <1>2 DEF v, x, y
  <2>2. 1 \in 1 .. Len(x) /\ 1 \in 1 .. Len(y)
    BY <2>1
  <2> QED
    BY <2>1, <2>2 DEF IsJoin
<1>6. IsSeq(u) /\ Len(u) = 2 /\ u[1] = a /\ u[2] = b
  BY <1>3, <1>4
<1> HIDE DEF u, v
<1>7. u = v
  BY <1>5, <1>6, SameSeq
<1> QED
  BY <1>4, <1>7 DEF u, v

LEMMA AfterOne ==
  ASSUME NEW x, NEW s, IsSeq(s)
  PROVE  LET u == <<x>> \o s
         IN  IsSeq(u) /\ Tail(u) = s /\ u[1] = x /\ Len(u) = Len(s) + 1 /\ u # <<>> /\ Len(s) \in Nat
<1> DEFINE o == <<x>>
           u == o \o s
<1>1. IsSeq(o) /\ Len(o) = 1 /\ o[1] = x
  BY EmptyFacts
<1>2. Tail(u) = s
  BY TailAfterOne
<1> HIDE DEF o
<1>3. IsJoin(u, o, s)
  BY <1>1, JoinFacts
<1>4. IsSeq(u) /\ Len(u) = 1 + Len(s) /\ Len(s) \in Nat /\ u[1] = x
  <2>1. 1 \in 1 .. Len(o)
    BY <1>1
  <2> QED
    BY <1>1, <1>3, <2>1 DEF IsJoin
<1> HIDE DEF u
<1>5. Len(u) = Len(s) + 1 /\ Len(u) # 0
  BY <1>4
<1> QED
  BY <1>2, <1>4, <1>5, EmptyFacts DEF u, o

(* The arguments of a session are never those of a question.               *)
LEMMA MainOfMonitor ==
  ASSUME NEW rest, IsSeq(rest), rest # <<>>
  PROVE  Main(<<Monitor, Json>> \o rest) =
           IF ~Starts(rest, RunLine) THEN OneShotPlan(rest)
           ELSE IF Without(Tail(rest), Json) = <<>> THEN Plan("usage", <<>>)
           ELSE LinePlan(Without(Tail(rest), Json)[1])
<1> DEFINE tail == <<Json>> \o rest
           args == <<Monitor>> \o tail
           none == {<<Option("--parse")>>, <<Option("--help")>>, <<Option("--version")>>}
<1>1. IsSeq(tail) /\ Tail(tail) = rest /\ tail[1] = Json /\ tail # <<>> /\ Len(tail) = Len(rest) + 1 /\ Len(rest) \in Nat
  BY AfterOne
<1>2. <<Monitor, Json>> \o rest = args
  <2>1. <<Monitor, Json>> = <<Monitor>> \o <<Json>>
    BY PairIs
  <2>2. IsSeq(<<Monitor>>) /\ IsSeq(<<Json>>)
    BY EmptyFacts
  <2> QED
    BY <2>1, <2>2, JoinAssoc
<1> HIDE DEF tail
<1>3. IsSeq(args) /\ Tail(args) = tail /\ args[1] = Monitor /\ args # <<>> /\ Len(args) = Len(tail) + 1
  BY <1>1, AfterOne
<1> HIDE DEF args
<1>4. args \notin none
  <2>1. \A x : Len(<<x>>) = 1
    BY EmptyFacts
  <2>2. Len(args) # 1
    <3> DEFINE a == Len(args)
               b == Len(tail)
               c == Len(rest)
    <3>1. a = b + 1 /\ b = c + 1 /\ c \in Nat
      BY <1>1, <1>3
    <3> HIDE DEF a, b, c
    <3>2. a # 1
      BY <3>1
    <3> QED
      BY <3>2 DEF a
  <2> QED
    BY <2>1, <2>2
<1>5. Starts(args, Monitor) /\ ~Starts(args, Option("--inspect")) /\ args[1] # Option("--inspect")
  BY <1>3, Options DEF Starts
<1>6. Without(Tail(args), Json) = rest
  BY <1>1, <1>3 DEF Without, Starts
<1> DEFINE after == IF Starts(args, Monitor) THEN Without(Tail(args), Json) ELSE args
           line == IF args[1] = Option("--inspect") THEN args[2] ELSE Without(Tail(after), Json)[1]
<1>7. after = rest
  BY <1>5, <1>6
<1>8. Main(args) =
        IF args \in none THEN Plan("print", <<>>)
        ELSE IF Starts(after, RunLine) /\ Without(Tail(after), Json) = <<>> THEN Plan("usage", <<>>)
        ELSE IF Starts(after, RunLine) \/ (Starts(args, Option("--inspect")) /\ Len(args) = 2)
        THEN LinePlan(line)
        ELSE IF Starts(args, Monitor) THEN OneShotPlan(after)
        ELSE IF args # <<>> THEN Plan("run", <<Stage(args, <<>>)>>)
        ELSE Plan("interactive", <<>>)
  BY DEF Main
<1> HIDE DEF after, none
<1>9. line = Without(Tail(rest), Json)[1]
  BY <1>5, <1>7
<1> HIDE DEF line
<1>10. Main(args) = IF ~Starts(rest, RunLine) THEN OneShotPlan(rest)
           ELSE IF Without(Tail(rest), Json) = <<>> THEN Plan("usage", <<>>)
           ELSE LinePlan(Without(Tail(rest), Json)[1])
  BY <1>4, <1>5, <1>7, <1>8, <1>9
<1> QED
  BY <1>2, <1>10

LEMMA MainOfLine ==
  ASSUME NEW line, Len(line) # 1 PROVE Main(<<Monitor, Json>> \o <<RunLine, line>>) = LinePlan(line)
<1> DEFINE rest == <<RunLine, line>>
<1>1. rest = <<RunLine>> \o <<line>>
  BY PairIs
<1>2. IsSeq(<<line>>) /\ <<line>>[1] = line /\ <<line>> # <<>>
  BY EmptyFacts
<1> HIDE DEF rest
<1>3. IsSeq(rest) /\ Tail(rest) = <<line>> /\ rest[1] = RunLine /\ rest # <<>>
  BY <1>1, <1>2, AfterOne
<1>4. Starts(rest, RunLine)
  BY <1>3 DEF Starts
<1>5. line # Json
  BY Options
<1>6. Without(<<line>>, Json) = <<line>>
  BY <1>2, <1>5 DEF Without, Starts
<1>7. Main(<<Monitor, Json>> \o rest) = LinePlan(line)
  BY <1>2, <1>3, <1>4, <1>6, MainOfMonitor
<1> QED
  BY <1>7 DEF rest

------------------------------------------------------------------------------
(* How the engine reads a structured request: the options of the           *)
(* redirections, then the path of the executable and its arguments.        *)

Chosen(targets, k) == <<RedirOf[targets[k].slot], targets[k].target>>
ArgsOf(targets, argv) == FlattenSeq([k \in DOMAIN targets |-> Chosen(targets, k)]) \o argv

(* Up to three redirections, and a command that is not an option.          *)
Request(targets, argv) ==
  /\ IsSeq(targets) /\ Len(targets) <= 3
  /\ \A k \in 1 .. Len(targets) : targets[k].slot \in DOMAIN RedirOf
  /\ IsSeq(argv) /\ argv # <<>> /\ Len(argv[1]) = 4

LEMMA ArgsAre ==
  ASSUME NEW targets, NEW argv, Request(targets, argv)
  PROVE  LET t == Len(targets)
             rest == ArgsOf(targets, argv)
         IN  /\ t \in Nat /\ Len(argv) \in Nat \ {0} /\ IsSeq(rest) /\ Len(rest) = 2 * t + Len(argv)
             /\ \A r \in 1 .. t : rest[2 * r - 1] = RedirOf[targets[r].slot] /\ rest[2 * r] = targets[r].target
             /\ \A i \in 1 .. Len(argv) : rest[2 * t + i] = argv[i]
<1> DEFINE t == Len(targets)
           a == [k \in 1 .. t |-> RedirOf[targets[k].slot]]
           b == [k \in 1 .. t |-> targets[k].target]
           flat == FlattenSeq([k \in 1 .. t |-> <<a[k], b[k]>>])
           rest == flat \o argv
<1>1. IsSeq(argv) /\ argv # <<>> /\ IsSeq(targets)
  BY DEF Request
<1>2. t \in Nat /\ DOMAIN targets = 1 .. t
  BY <1>1, SequenceFacts
<1>3. Len(argv) \in Nat \ {0}
  BY <1>1, SequenceFacts, EmptyFacts
<1>4. \A r \in 1 .. t : a[r] = RedirOf[targets[r].slot] /\ b[r] = targets[r].target
  OBVIOUS
<1>5. [k \in DOMAIN targets |-> Chosen(targets, k)] = [k \in 1 .. t |-> <<a[k], b[k]>>]
  BY <1>2 DEF Chosen
<1>6. ArgsOf(targets, argv) = rest
  BY <1>5 DEF ArgsOf
<1> HIDE DEF t, a, b
<1>7. Paired(flat, t, a, b)
  BY <1>2, PairsFlat
<1> HIDE DEF flat
<1>8. IsSeq(flat) /\ Len(flat) = 2 * t /\ \A r \in 1 .. t : flat[2 * r - 1] = a[r] /\ flat[2 * r] = b[r]
  BY <1>7 DEF Paired
<1>9. IsJoin(rest, flat, argv)
  BY <1>1, <1>8, JoinFacts
<1> HIDE DEF rest
<1>10. /\ IsSeq(rest) /\ Len(rest) = 2 * t + Len(argv)
       /\ \A i \in 1 .. 2 * t : rest[i] = flat[i]
       /\ \A i \in 1 .. Len(argv) : rest[2 * t + i] = argv[i]
  BY <1>8, <1>9 DEF IsJoin
<1>11. ASSUME NEW r \in 1 .. t
       PROVE  rest[2 * r - 1] = RedirOf[targets[r].slot] /\ rest[2 * r] = targets[r].target
  <2>1. 2 * r - 1 \in 1 .. 2 * t /\ 2 * r \in 1 .. 2 * t
    BY <1>2
  <2> QED
    BY <1>4, <1>8, <1>10, <2>1
<1> QED
  BY <1>2, <1>3, <1>6, <1>10, <1>11 DEF t

LEMMA PairsCounted ==
  ASSUME NEW targets, NEW argv, Request(targets, argv)
  PROVE  RedirPairs(ArgsOf(targets, argv)) = Len(targets)
<1> DEFINE t == Len(targets)
           rest == ArgsOf(targets, argv)
           names == {RedirOf[slot] : slot \in DOMAIN RedirOf}
           pair(k) == 2 * k <= Len(rest) /\ rest[2 * k - 1] \in names
           counts == {n \in 0 .. 3 : \A k \in 1 .. n : pair(k)}
<1>1. /\ t \in Nat /\ Len(argv) \in Nat \ {0} /\ Len(rest) = 2 * t + Len(argv)
      /\ \A r \in 1 .. t : rest[2 * r - 1] = RedirOf[targets[r].slot]
      /\ \A i \in 1 .. Len(argv) : rest[2 * t + i] = argv[i]
  BY ArgsAre
<1>2. t <= 3 /\ Len(argv[1]) = 4 /\ \A k \in 1 .. t : targets[k].slot \in DOMAIN RedirOf
  BY DEF Request
<1>3. RedirPairs(rest) = Max(counts)
  BY DEF RedirPairs
<1>4. argv[1] \notin names
  BY <1>2, Options
<1> HIDE DEF rest
<1>5. ASSUME NEW k \in 1 .. t PROVE pair(k)
  <2>1. rest[2 * k - 1] \in names
    BY <1>1, <1>2
  <2>2. 2 * k <= 2 * t + Len(argv)
    BY <1>1
  <2> QED
    BY <1>1, <2>1, <2>2
<1>6. ~pair(t + 1)
  <2>1. 1 \in 1 .. Len(argv) /\ 2 * (t + 1) - 1 = 2 * t + 1
    BY <1>1
  <2>2. rest[2 * t + 1] = argv[1]
    BY <1>1, <2>1
  <2> QED
    BY <1>4, <2>1, <2>2
<1> HIDE DEF pair, names
<1>7. counts = 0 .. t
  <2>1. ASSUME NEW n \in 0 .. t PROVE n \in counts
    <3>1. n \in 0 .. 3 /\ \A k \in 1 .. n : k \in 1 .. t
      BY <1>1, <1>2
    <3> QED
      BY <1>5, <3>1
  <2>2. ASSUME NEW n \in counts PROVE n \in 0 .. t
    <3>1. n \in 0 .. 3 /\ \A k \in 1 .. n : pair(k)
      OBVIOUS
    <3>2. t + 1 \notin 1 .. n
      BY <1>6, <3>1
    <3> QED
      BY <1>1, <3>1, <3>2
  <2> QED
    BY <2>1, <2>2
<1> HIDE DEF counts, t
<1>8. Max(counts) = t
  <2>1. Max(0 .. t) \in 0 .. t /\ \A y \in 0 .. t : Max(0 .. t) >= y
    <3>1. \E x \in 0 .. t : \A y \in 0 .. t : x >= y
      BY <1>1
    <3> QED
      BY <3>1 DEF Max
  <2>2. t \in 0 .. t
    BY <1>1
  <2> QED
    BY <1>1, <1>7, <2>1, <2>2
<1> QED
  BY <1>3, <1>8 DEF rest, t

LEMMA StructuredPlan ==
  ASSUME NEW targets, NEW argv, Request(targets, argv)
  PROVE  Main(<<Monitor, Json>> \o ArgsOf(targets, argv)) = Plan("run", <<Stage(argv, RedirectionsFor(targets))>>)
<1> DEFINE t == Len(targets)
           rest == ArgsOf(targets, argv)
           pairs == RedirPairs(rest)
           redirections == [k \in 1 .. pairs |-> [op |-> OpOf(rest[2 * k - 1]), target |-> rest[2 * k]]]
           command == SubSeq(rest, 2 * pairs + 1, Len(rest))
<1>1. /\ t \in Nat /\ Len(argv) \in Nat \ {0} /\ IsSeq(rest) /\ Len(rest) = 2 * t + Len(argv)
      /\ \A r \in 1 .. t : rest[2 * r - 1] = RedirOf[targets[r].slot] /\ rest[2 * r] = targets[r].target
      /\ \A i \in 1 .. Len(argv) : rest[2 * t + i] = argv[i]
  BY ArgsAre
<1>2. /\ IsSeq(argv) /\ argv # <<>> /\ IsSeq(targets) /\ Len(argv[1]) = 4
      /\ \A k \in 1 .. t : targets[k].slot \in DOMAIN RedirOf
  BY DEF Request
<1>3. pairs = t
  BY PairsCounted
<1>4. DOMAIN targets = 1 .. t
  BY <1>2, SequenceFacts
<1>5. OneShotPlan(rest) = IF command = <<>> THEN Plan("interactive", <<>>)
                          ELSE Plan("run", <<Stage(command, redirections)>>)
  BY DEF OneShotPlan
<1>6. ~Starts(rest, RunLine)
  <2>1. CASE t = 0
    <3>1. 1 \in 1 .. Len(argv) /\ 2 * t + 1 = 1
      BY <1>1, <2>1
    <3>2. rest[1] = argv[1]
      BY <1>1, <3>1
    <3>3. Len(RunLine) = 1
      BY Options
    <3> QED
      BY <1>2, <3>2, <3>3 DEF Starts
  <2>2. CASE t # 0
    <3>1. 1 \in 1 .. t /\ 2 * 1 - 1 = 1
      BY <1>1, <2>2
    <3>2. rest[1] = RedirOf[targets[1].slot] /\ targets[1].slot \in DOMAIN RedirOf
      BY <1>1, <1>2, <3>1
    <3> QED
      BY <3>2, Options DEF Starts
  <2> QED
    BY <2>1, <2>2
<1>7. redirections = RedirectionsFor(targets)
  BY <1>1, <1>3, <1>4 DEF RedirectionsFor
<1> HIDE DEF rest, redirections
<1>8. command = argv
  <2> DEFINE p == 2 * t
             m == Len(argv)
  <2>1. p \in Nat /\ p + m = Len(rest) /\ \A i \in 1 .. m : rest[p + i] = argv[i]
    BY <1>1
  <2>2. SubSeq(rest, p + 1, Len(rest)) = argv
    <3> HIDE DEF p
    <3>1. p + Len(argv) <= Len(rest)
      BY <1>1, <2>1
    <3>2. SubSeq(rest, p + 1, p + Len(argv)) = argv
      BY <1>1, <1>2, <2>1, <3>1, PieceIs
    <3> QED
      BY <2>1, <3>2
  <2> QED
    BY <1>3, <2>2
<1> HIDE DEF command
<1>9. OneShotPlan(rest) = Plan("run", <<Stage(argv, RedirectionsFor(targets))>>)
  BY <1>2, <1>5, <1>7, <1>8
<1>10. rest # <<>>
  <2>1. Len(rest) # 0
    BY <1>1
  <2> QED
    BY <1>1, <2>1, EmptyFacts
<1>11. Main(<<Monitor, Json>> \o rest) = OneShotPlan(rest)
  BY <1>1, <1>6, <1>10, MainOfMonitor
<1> QED
  BY <1>9, <1>11 DEF rest

------------------------------------------------------------------------------
(* What the probe finds, and keeps, is a path. *)

CacheOk(c) == \A name \in DOMAIN c : c[name] = NoPath \/ IsPath(c[name])

LEMMA SystemPath ==
  ASSUME NEW h, NEW name PROVE ProbeSystemCommand(h, name) = NoPath \/ IsPath(ProbeSystemCommand(h, name))
BY DEF ProbeSystemCommand, IsPath

LEMMA ProbedPath ==
  ASSUME NEW name, CacheOk(cache), ProbeCommand(host, cache, name).availability = "AVAILABLE"
  PROVE  IsPath(ProbeCommand(host, cache, name).path)
<1> DEFINE path == PathOf(host, cache, name)
<1>1. path = NoPath \/ IsPath(path)
  <2>1. Located(host, name) = NoPath \/ IsPath(Located(host, name))
    BY DEF Located, IsPath
  <2>2. name \in DOMAIN cache => cache[name] = NoPath \/ IsPath(cache[name])
    BY DEF CacheOk
  <2> QED
    BY <2>1, <2>2, SystemPath DEF PathOf
<1> HIDE DEF path
<1>2. ProbeCommand(host, cache, name) = IF name \in CatalogNames THEN Found(path)
                                        ELSE [availability |-> "BLOCKED", path |-> NoPath]
  BY DEF ProbeCommand, path
<1>3. name \in CatalogNames
  BY <1>2
<1>4. Found(path).path = path /\ Found(path).availability = IF path = NoPath THEN "UNAVAILABLE" ELSE "AVAILABLE"
  BY DEF Found
<1> QED
  BY <1>1, <1>2, <1>3, <1>4

LEMMA CacheStays ==
  ASSUME NEW h, NEW c, CacheOk(c), NEW names PROVE CacheOk(Cached(h, c, names))
<1> DEFINE D == DOMAIN c \cup {n \in names \cap CatalogNames : ~LooksAfresh(n)}
           new == Cached(h, c, names)
<1>1. new = [name \in D |-> IF name \in DOMAIN c THEN c[name] ELSE ProbeSystemCommand(h, name)]
  BY DEF Cached
<1> HIDE DEF new, D
<1>2. ASSUME NEW name \in DOMAIN new PROVE new[name] = NoPath \/ IsPath(new[name])
  <2>1. new[name] = IF name \in DOMAIN c THEN c[name] ELSE ProbeSystemCommand(h, name)
    BY <1>1
  <2>2. name \in DOMAIN c => c[name] = NoPath \/ IsPath(c[name])
    BY DEF CacheOk
  <2> QED
    BY <2>1, <2>2, SystemPath
<1>3. CacheOk(new)
  BY <1>2 DEF CacheOk
<1> QED
  BY <1>3 DEF new

------------------------------------------------------------------------------
(* What is started runs as it was checked. *)

RunsAsChecked(e) ==
  IF e.outgrown THEN e.plan.mode = "syntax"
  ELSE /\ e.plan.mode = "run"
       /\ Len(e.plan.stages) = Len(e.stages)
       /\ \A s \in DOMAIN e.stages :
             /\ NoEmpty(e.plan.stages[s].argv) = NoEmpty(e.stages[s].argv)
             /\ e.plan.stages[s].redirections = e.stages[s].redirections

LEMMA ExecutionHas ==
  ASSUME NEW wish, NEW record
  PROVE  /\ Execution(wish, record).stages = wish.stages
         /\ Execution(wish, record).plan = Main(EngineArgv(wish))
         /\ Execution(wish, record).outgrown <=> Len(wish.line) > MaxLine
BY DEF Execution

LEMMA WishHas ==
  ASSUME NEW stages, NEW line, NEW redirections, NEW timeout
  PROVE  LET w == Wish(stages, line, redirections, timeout)
         IN  /\ w.line = line /\ w.redirections = redirections
             /\ w.stages = [k \in DOMAIN stages |-> w.stages[k]]
             /\ \A k \in DOMAIN stages : /\ w.stages[k].argv = BaseAt(stages[k])
                                         /\ w.stages[k].redirections = stages[k].redirections
BY DEF Wish, BaseAt

LEMMA WordsCounted ==
  ASSUME NEW exec, NEW args, NEW redirs, CanWrite(exec, args, redirs)
  PROVE  Len(WordsOf(exec, args, redirs)) = (Len(args) + 1) + 2 * Len(redirs) /\ Len(redirs) \in Nat
<1> DEFINE base == <<exec>> \o args
           pairs == PairsOf(redirs)
           m == Len(args)
           n == Len(redirs)
<1>1. IsSeq(args) /\ IsSeq(redirs)
  BY DEF CanWrite
<1>2. IsSeq(base) /\ Len(base) = m + 1 /\ m \in Nat
  BY <1>1, AfterOne
<1>3. IsSeq(pairs) /\ Len(pairs) = 2 * n /\ n \in Nat
  BY <1>1, PairsAre, SequenceFacts
<1>4. WordsOf(exec, args, redirs) = base \o pairs
  BY DEF WordsOf
<1> HIDE DEF base, pairs, m, n
<1>5. IsJoin(base \o pairs, base, pairs)
  BY <1>2, <1>3, JoinFacts
<1>6. Len(base \o pairs) = Len(base) + Len(pairs)
  BY <1>5 DEF IsJoin
<1>7. Len(WordsOf(exec, args, redirs)) = (m + 1) + 2 * n /\ n \in Nat
  BY <1>2, <1>3, <1>4, <1>6
<1> QED
  BY <1>7 DEF m, n

(* A stage that was checked, with the path that was probed.                *)
LEMMA CheckedIsWritable ==
  ASSUME NEW stage, NEW room \in Nat, Taken(stage.argv, stage.redirections, room), StageOk(stage), CacheOk(cache)
  PROVE  LET v == Validated(stage)
         IN  /\ Writable(v) /\ Len(v.executable) = 4 /\ v.redirections = stage.redirections
             /\ Len(WordsAt(v)) \in Nat /\ Len(WordsAt(v)) <= room
<1> DEFINE argv == stage.argv
           reds == stage.redirections
           exec == ProbeCommand(host, cache, NameOf(stage.argv[1])).path
           v == Validated(stage)
<1>1. v.argv = argv /\ v.redirections = reds /\ v.executable = exec
  BY DEF Validated
<1>2. IsPath(exec)
  BY ProbedPath DEF StageOk
<1>3. \A r \in DOMAIN reds : TargetInWorkspace(files, reds[r].target)
  BY DEF StageOk
<1>4. Taken(argv, reds, room)
  OBVIOUS
<1> HIDE DEF argv, reds, exec, v
<1>5. IsWord(exec) /\ Len(exec) = 4 /\ exec # <<>>
  BY <1>2, PathFacts
<1>6. /\ IsSeq(argv) /\ argv # <<>> /\ \A i \in 1 .. Len(argv) : IsWord(argv[i])
      /\ IsSeq(reds)
      /\ \A r \in 1 .. Len(reds) : /\ reds[r] = [op |-> reds[r].op, target |-> reds[r].target]
                                   /\ reds[r].op \in Operators /\ IsWord(reds[r].target)
      /\ Len(argv) + 2 * Len(reds) <= room
  BY <1>4 DEF Taken
<1>7. \A r \in 1 .. Len(reds) : reds[r].target # <<>>
  <2>1. DOMAIN reds = 1 .. Len(reds)
    BY <1>6, SequenceFacts
  <2>2. ASSUME NEW token, TargetInWorkspace(files, token) PROVE token # <<>>
    <3>1. Len(token) \in 1 .. 255
      BY <2>2 DEF TargetInWorkspace, IsSafeRedirTarget
    <3>2. 0 \notin 1 .. 255 /\ Len(<<>>) = 0
      BY EmptyFacts
    <3> QED
      BY ONLY <3>1, <3>2
  <2> QED
    BY <1>3, <2>1, <2>2
<1>8. /\ IsSeq(Tail(argv)) /\ Len(Tail(argv)) = Len(argv) - 1 /\ Len(argv) \in Nat \ {0}
      /\ \A i \in 1 .. Len(argv) - 1 : Tail(argv)[i] = argv[i + 1]
  <2>1. PICK S : argv \in Seq(S)
    BY <1>6 DEF IsSeq
  <2>2. Tail(argv) \in Seq(S) /\ Len(Tail(argv)) = Len(argv) - 1 /\ Len(argv) \in Nat \ {0}
    BY <1>6, <2>1
  <2>3. \A i \in 1 .. Len(argv) - 1 : Tail(argv)[i] = argv[i + 1]
    BY <1>6, <2>1
  <2> QED
    BY <2>2, <2>3 DEF IsSeq
<1>9. ASSUME NEW i \in 1 .. Len(Tail(argv)) PROVE IsWord(Tail(argv)[i])
  <2> DEFINE m == Len(argv)
  <2>1. m \in Nat /\ i \in 1 .. m - 1
    BY <1>8
  <2> HIDE DEF m
  <2>2. i + 1 \in 1 .. m
    BY <2>1
  <2> QED
    BY <1>6, <1>8, <2>1, <2>2 DEF m
<1>10. CanWrite(exec, Tail(argv), reds)
  BY <1>5, <1>6, <1>7, <1>8, <1>9 DEF CanWrite
<1>11. Writable(v)
  BY <1>1, <1>6, <1>10 DEF Writable
<1>12. /\ Len(WordsOf(exec, Tail(argv), reds)) = (Len(Tail(argv)) + 1) + 2 * Len(reds)
       /\ Len(reds) \in Nat
  <2> DEFINE args == Tail(argv)
  <2>1. CanWrite(exec, args, reds)
    BY <1>10
  <2> HIDE DEF args
  <2>2. Len(WordsOf(exec, args, reds)) = (Len(args) + 1) + 2 * Len(reds) /\ Len(reds) \in Nat
    BY <2>1, WordsCounted
  <2> QED
    BY <2>2 DEF args
<1>13. WordsAt(v) = WordsOf(exec, Tail(argv), reds)
  BY <1>1 DEF WordsAt
<1>14. Len(WordsAt(v)) = Len(argv) + 2 * Len(reds)
  <2> DEFINE a == Len(argv)
             b == Len(reds)
             c == Len(Tail(argv))
             d == Len(WordsAt(v))
  <2>1. a \in Nat /\ b \in Nat /\ c = a - 1 /\ d = (c + 1) + 2 * b
    BY <1>8, <1>12, <1>13
  <2> HIDE DEF a, b, c, d
  <2>2. d = a + 2 * b
    BY <2>1
  <2> QED
    BY <2>2 DEF a, b, d
<1>15. Len(WordsAt(v)) \in Nat /\ Len(WordsAt(v)) <= room
  BY <1>6, <1>8, <1>12, <1>14
<1> QED
  BY <1>1, <1>5, <1>11, <1>15 DEF v, reds

(* A pipeline the terminal was given.                                      *)
LEMMA TerminalRuns ==
  ASSUME NEW answer, NEW n, NEW place, AnswerTaken(answer, n, place), CacheOk(cache),
         \A k \in DOMAIN answer.stages : StageOk(answer.stages[k]), NEW timeout, NEW record,
         NEW sts, sts = [k \in DOMAIN answer.stages |-> Validated(answer.stages[k])]
  PROVE  RunsAsChecked(Execution(Wish(sts, ResolvedLine(sts), <<>>, timeout), record))
<1> DEFINE words == [k \in 1 .. n |-> WordsAt(sts[k])]
           line == ResolvedLine(sts)
           w == Wish(sts, line, <<>>, timeout)
           e == Execution(w, record)
<1>1. /\ n \in Nat \ {0} /\ n <= MaxStages /\ DOMAIN answer.stages = 1 .. n
      /\ place[0] = 0 /\ \A k \in 0 .. n : place[k] \in Nat /\ place[k] <= MaxArgs + 1
      /\ \A k \in 1 .. n : \E room \in Nat : /\ Taken(answer.stages[k].argv, answer.stages[k].redirections, room)
                                             /\ place[k - 1] + room + 1 = place[k]
  BY DEF AnswerTaken
<1>2. sts = [k \in 1 .. n |-> sts[k]] /\ \A k \in 1 .. n : sts[k] = Validated(answer.stages[k])
  BY <1>1
<1>3. IsSeq(sts) /\ Len(sts) = n /\ DOMAIN sts = 1 .. n
  BY <1>1, <1>2, ListedIsSeq
<1>4. ASSUME NEW k \in 1 .. n
      PROVE  /\ Writable(sts[k]) /\ Len(sts[k].executable) = 4
             /\ place[k - 1] + Len(WordsAt(sts[k])) + 1 <= place[k]
  <2> DEFINE stage == answer.stages[k]
  <2>1. PICK room \in Nat : Taken(stage.argv, stage.redirections, room) /\ place[k - 1] + room + 1 = place[k]
    BY <1>1
  <2>2. StageOk(stage) /\ sts[k] = Validated(stage)
    BY <1>1, <1>2
  <2> HIDE DEF stage
  <2>3. /\ Writable(Validated(stage)) /\ Len(Validated(stage).executable) = 4
        /\ Len(WordsAt(Validated(stage))) \in Nat /\ Len(WordsAt(Validated(stage))) <= room
    BY <2>1, <2>2, CheckedIsWritable
  <2> DEFINE a == place[k - 1]
             b == place[k]
             c == Len(WordsAt(sts[k]))
  <2>4. a \in Nat /\ a + room + 1 = b /\ c \in Nat /\ c <= room
    <3>1. k - 1 \in 0 .. n
      BY <1>1
    <3> QED
      BY <1>1, <2>1, <2>2, <2>3, <3>1
  <2> HIDE DEF a, b, c
  <2>5. a + c + 1 <= b
    BY <2>4
  <2> QED
    BY <2>2, <2>3, <2>5 DEF a, b, c
<1>5. Fits(words, place, n)
  <2>1. \A k \in 1 .. n : words[k] = WordsAt(sts[k])
    OBVIOUS
  <2> HIDE DEF words
  <2> QED
    BY <1>1, <1>4, <2>1 DEF Fits
<1>6. IsSeq(line) /\ Len(line) >= 2 /\ Followed(LinePlan(line), line, sts, n)
  <2>1. 1 \in 1 .. n
    BY <1>1
  <2>2. Len(sts[1].executable) >= 2
    <3> DEFINE a == Len(sts[1].executable)
    <3>1. a = 4
      BY <1>4, <2>1
    <3> HIDE DEF a
    <3>2. a >= 2
      BY <3>1
    <3> QED
      BY <3>2 DEF a
  <2>3. \A k \in 1 .. n : Writable(sts[k])
    BY <1>4
  <2>4. /\ IsSeq(ResolvedLine(sts)) /\ Len(ResolvedLine(sts)) >= 2
        /\ Followed(LinePlan(ResolvedLine(sts)), ResolvedLine(sts), sts, n)
    BY <1>1, <1>3, <1>5, <2>2, <2>3, ResolvedRuns
  <2> QED
    BY <2>4
<1> HIDE DEF words, line
<1>7. Len(line) # 1 /\ line # <<>>
  <2>1. Len(line) # 1 /\ Len(line) # 0
    <3> DEFINE a == Len(line)
    <3>1. a >= 2 /\ a \in Nat
      BY <1>6, SequenceFacts
    <3> HIDE DEF a
    <3>2. a # 1 /\ a # 0
      BY <3>1
    <3> QED
      BY <3>2 DEF a
  <2> QED
    BY <2>1, EmptyFacts
<1>8. /\ w.line = line /\ w.stages = [k \in 1 .. n |-> w.stages[k]]
      /\ \A k \in 1 .. n : w.stages[k].argv = BaseAt(sts[k]) /\ w.stages[k].redirections = sts[k].redirections
  BY <1>3, WishHas
<1> HIDE DEF w
<1>9. EngineArgv(w) = <<Monitor, Json>> \o <<RunLine, line>>
  BY <1>7, <1>8 DEF EngineArgv
<1>10. Main(EngineArgv(w)) = LinePlan(line)
  BY <1>7, <1>9, MainOfLine
<1>11. e.stages = w.stages /\ e.plan = LinePlan(line) /\ (e.outgrown <=> Len(line) > MaxLine)
  BY <1>8, <1>10, ExecutionHas
<1>12. Len(w.stages) = n /\ DOMAIN w.stages = 1 .. n
  BY <1>1, <1>8, ListedIsSeq
<1> HIDE DEF e
<1>13. RunsAsChecked(e)
  <2>1. CASE Len(line) > MaxLine
    BY <1>6, <1>11, <2>1 DEF Followed, RunsAsChecked
  <2>2. CASE ~(Len(line) > MaxLine)
    <3>1. SameStages(LinePlan(line), sts, n)
      BY <1>6, <2>2 DEF Followed
    <3> DEFINE p == LinePlan(line)
               S == w.stages
    <3>2. /\ p.mode = "run" /\ Len(p.stages) = n
          /\ \A k \in 1 .. n : /\ NoEmpty(p.stages[k].argv) = NoEmpty(BaseAt(sts[k]))
                               /\ p.stages[k].redirections = sts[k].redirections
      BY <3>1 DEF SameStages
    <3>3. /\ e.stages = S /\ e.plan = p /\ ~e.outgrown /\ Len(S) = n /\ DOMAIN S = 1 .. n
          /\ \A k \in 1 .. n : S[k].argv = BaseAt(sts[k]) /\ S[k].redirections = sts[k].redirections
      BY <1>8, <1>11, <1>12, <2>2
    <3> HIDE DEF p, S
    <3>4. \A k \in DOMAIN S : /\ NoEmpty(p.stages[k].argv) = NoEmpty(S[k].argv)
                              /\ p.stages[k].redirections = S[k].redirections
      BY <3>2, <3>3
    <3> QED
      BY <3>2, <3>3, <3>4 DEF RunsAsChecked
  <2> QED
    BY <2>1, <2>2
<1> QED
  BY <1>13 DEF e, w, line

(* A structured request.                                                   *)
LEMMA StructuredRuns ==
  ASSUME NEW targets \in Targets, NEW args, IsSeq(args), NEW stage, IsPath(stage.executable),
         NEW x, stage.argv = <<x>> \o args, stage.redirections = RedirectionsFor(targets),
         NEW sts, sts = <<stage>>, NEW timeout, NEW record
  PROVE  RunsAsChecked(Execution(Wish(sts, <<>>, targets, timeout), record))
<1> DEFINE w == Wish(sts, <<>>, targets, timeout)
           e == Execution(w, record)
           argv == BaseAt(stage)
           reds == RedirectionsFor(targets)
           plan == Plan("run", <<Stage(argv, reds)>>)
<1>1. argv = <<stage.executable>> \o args
  BY TailAfterOne DEF BaseAt
<1>2. Len(stage.executable) = 4
  BY PathFacts
<1>3. IsSeq(argv) /\ argv[1] = stage.executable /\ argv # <<>>
  BY <1>1, AfterOne
<1> HIDE DEF argv
<1>4. Request(targets, argv)
  <2>1. targets \in Seq([slot : DOMAIN RedirOf, target : Seq(STRING)]) /\ Len(targets) <= 3
    BY AdmissionAssumption
  <2>2. IsSeq(targets)
    BY <2>1, Zenon DEF IsSeq
  <2>3. ASSUME NEW k \in 1 .. Len(targets) PROVE targets[k].slot \in DOMAIN RedirOf
    <3> DEFINE R == [slot : DOMAIN RedirOf, target : Seq(STRING)]
    <3>1. targets \in Seq(R)
      BY <2>1
    <3>2. \A r \in R : r.slot \in DOMAIN RedirOf
      OBVIOUS
    <3> HIDE DEF R
    <3>3. targets[k] \in R
      BY <3>1
    <3> QED
      BY <3>2, <3>3
  <2> QED
    BY <1>2, <1>3, <2>1, <2>2, <2>3 DEF Request
<1>5. Main(<<Monitor, Json>> \o ArgsOf(targets, argv)) = plan
  BY <1>4, StructuredPlan
<1>6. IsSeq(sts) /\ Len(sts) = 1 /\ sts[1] = stage
  BY EmptyFacts
<1>7. DOMAIN sts = {1}
  <2>1. DOMAIN sts = 1 .. 1 /\ 1 .. 1 = {1}
    BY <1>6, SequenceFacts
  <2> QED
    BY <2>1
<1>8. /\ w.line = <<>> /\ w.redirections = targets /\ w.stages = [k \in {1} |-> w.stages[k]]
      /\ w.stages[1].argv = argv /\ w.stages[1].redirections = reds
  BY <1>6, <1>7, WishHas DEF argv
<1> HIDE DEF w, reds
<1>9. EngineArgv(w) = <<Monitor, Json>> \o ArgsOf(targets, argv)
  BY <1>8 DEF EngineArgv, ArgsOf, Chosen
<1>10. e.stages = w.stages /\ e.plan = plan /\ (e.outgrown <=> Len(w.line) > MaxLine)
  BY <1>5, <1>9, ExecutionHas
<1>11. ~e.outgrown
  <2>1. Len(w.line) = 0 /\ MaxLine \in Nat
    BY <1>8, EmptyFacts, LimitsAssumption
  <2>2. ~(Len(w.line) > MaxLine)
    BY <2>1
  <2> QED
    BY <1>10, <2>2
<1>12. Len(w.stages) = 1 /\ DOMAIN w.stages = {1}
  <2>1. w.stages = [k \in 1 .. 1 |-> w.stages[k]]
    BY <1>8
  <2> QED
    BY <1>8, <2>1, ListedIsSeq
<1>13. /\ plan.mode = "run" /\ Len(plan.stages) = 1
       /\ plan.stages[1].argv = argv /\ plan.stages[1].redirections = reds
  <2> DEFINE s == Stage(argv, reds)
  <2>1. s.argv = argv /\ s.redirections = reds
    BY DEF Stage
  <2>2. plan.mode = "run" /\ plan.stages = <<s>>
    BY DEF Plan
  <2> HIDE DEF s, plan
  <2> QED
    BY <2>1, <2>2, EmptyFacts
<1> HIDE DEF e, plan
<1>14. RunsAsChecked(e)
  <2> DEFINE S == w.stages
             T == plan.stages
  <2>1. /\ Len(T) = Len(S)
        /\ \A s \in DOMAIN S : NoEmpty(T[s].argv) = NoEmpty(S[s].argv) /\ T[s].redirections = S[s].redirections
    BY <1>8, <1>12, <1>13
  <2>2. e.stages = S /\ e.plan.stages = T /\ e.plan.mode = "run" /\ ~e.outgrown
    BY <1>10, <1>11, <1>13
  <2> HIDE DEF S, T
  <2> QED
    BY <2>1, <2>2 DEF RunsAsChecked
<1> QED
  BY <1>14 DEF e, w

(* What a step may do to what was started: add an execution that runs as   *)
(* it was checked.                                                         *)
Adds == started' = started \/ \E e : started' = Append(started, e) /\ RunsAsChecked(e)

LEMMA StartAdds ==
  ASSUME NEW wish, Start(wish), \A record : RunsAsChecked(Execution(wish, record)) PROVE Adds
<1>1. \/ started' = started
      \/ \E record : started' = Append(started, Execution(wish, record))
  BY Zenon DEF Start
<1> QED
  BY <1>1, Zenon DEF Adds

AnswerGiven(answer) == answer.ok => \E n, place : AnswerTaken(answer, n, place)

LEMMA InspectedAdds ==
  ASSUME Inspected, AnswerGiven(asked.answer), CacheOk(cache) PROVE Adds
<1> DEFINE answer == asked.answer
           stages == answer.stages
           ok == {k \in DOMAIN stages : StageOk(stages[k])}
           checked == [k \in DOMAIN stages |-> Validated(stages[k])]
<1>1. Judge(stages, ok)
  BY Zenon DEF Inspected
<1>2. ok = DOMAIN stages => \A k \in DOMAIN stages : StageOk(stages[k])
  OBVIOUS
<1>3. checked = [k \in DOMAIN answer.stages |-> Validated(answer.stages[k])]
  OBVIOUS
<1>4. checked = [k \in DOMAIN stages |-> Validated(stages[k])]
  OBVIOUS
<1> HIDE DEF ok, checked
<1>5. \/ \E status, code : Refuse(status, code)
      \/ started' = started
      \/ answer.ok /\ ok = DOMAIN stages /\ Execute([k \in DOMAIN stages |-> Validated(stages[k])])
  BY <1>1, Zenon DEF Judge
<1>6. ASSUME answer.ok, ok = DOMAIN stages, Execute(checked) PROVE Adds
  <2>1. PICK n, place : AnswerTaken(answer, n, place)
    BY <1>6 DEF AnswerGiven
  <2>2. \A k \in DOMAIN answer.stages : StageOk(answer.stages[k])
    BY <1>2, <1>6
  <2>3. PICK timeout : Start(Wish(checked, ResolvedLine(checked), <<>>, timeout))
    BY <1>6, Zenon DEF Execute
  <2> HIDE DEF answer
  <2>4. ASSUME NEW record
        PROVE  RunsAsChecked(Execution(Wish(checked, ResolvedLine(checked), <<>>, timeout), record))
    BY <1>3, <2>1, <2>2, TerminalRuns
  <2> QED
    BY <2>3, <2>4, StartAdds
<1> QED
  BY <1>4, <1>5, <1>6 DEF Refuse, Adds

LEMMA StructuredAdds ==
  ASSUME Structured, WordList(sent), CacheOk(cache) PROVE Adds
<1>1. PICK command, targets, requested : targets \in Targets /\ Create(command, targets, requested)
  BY Zenon DEF Structured
<1> DEFINE probed == ProbeCommand(host, cache, command)
           timeout == Effective(requested, config.defaultTimeout)
           accepted == command \in Workloads => WorkloadArgvOk(command, sent)
           args == IF command \in Workloads /\ accepted THEN MaterializeWorkloadArgv(command, sent) ELSE sent
           stage == [name |-> command, argv |-> <<<<command>>>> \o args, executable |-> probed.path,
                     redirections |-> RedirectionsFor(targets)]
<1>2. \/ \E status, code : Refuse(status, code)
      \/ /\ probed.availability \notin {"BLOCKED", "UNAVAILABLE"}
         /\ Start(Wish(<<stage>>, <<>>, targets, timeout))
  <2> DEFINE blocked == probed.availability = "BLOCKED"
             missing == probed.availability = "UNAVAILABLE"
             short == TimeoutTooShort(command, args, timeout)
             valid == ValidateArguments(command, args, files)
             outside == \E k \in DOMAIN targets : ~TargetInWorkspace(files, targets[k].target)
             starts == Start(Wish(<<stage>>, <<>>, targets, timeout))
  <2>1. (CASE blocked -> Refuse(403, "COMMAND_NOT_ALLOWED")
          [] missing -> Refuse(503, "COMMAND_UNAVAILABLE")
          [] ~accepted -> Refuse(400, "WORKLOAD_ARGUMENT_REJECTED")
          [] short -> Refuse(400, "TIMEOUT_TOO_SHORT")
          [] ~valid -> Refuse(422, "ARGUMENT_REJECTED")
          [] outside -> Refuse(422, "REDIRECTION_REJECTED")
          [] OTHER -> starts)
    BY <1>1, Zenon DEF Create
  <2> HIDE DEF blocked, missing, accepted, short, valid, outside, starts
  <2>2. (\E status, code : Refuse(status, code)) \/ (~blocked /\ ~missing /\ starts)
    BY <2>1, Zenon
  <2> QED
    BY <2>2 DEF blocked, missing, starts
<1>3. WordList(args)
  BY WorkloadWords
<1>4. /\ stage.argv = <<<<command>>>> \o args /\ stage.executable = probed.path
      /\ stage.redirections = RedirectionsFor(targets)
  OBVIOUS
<1>5. probed.availability \in {"BLOCKED", "UNAVAILABLE", "AVAILABLE"}
  BY DEF ProbeCommand, Found
<1>6. probed.availability = "AVAILABLE" => IsPath(probed.path)
  BY ProbedPath
<1> HIDE DEF args, stage, timeout, probed
<1>7. ASSUME probed.availability \notin {"BLOCKED", "UNAVAILABLE"}, Start(Wish(<<stage>>, <<>>, targets, timeout))
      PROVE  Adds
  <2>1. IsPath(stage.executable) /\ IsSeq(args)
    BY <1>3, <1>4, <1>5, <1>6, <1>7 DEF WordList
  <2> DEFINE sts == <<stage>>
             name == <<command>>
  <2>2. Start(Wish(sts, <<>>, targets, timeout)) /\ sts = <<stage>>
    BY <1>7
  <2>3. stage.argv = <<name>> \o args
    BY <1>4
  <2> HIDE DEF sts, name
  <2>4. ASSUME NEW record PROVE RunsAsChecked(Execution(Wish(sts, <<>>, targets, timeout), record))
    BY <1>1, <1>4, <2>1, <2>2, <2>3, StructuredRuns
  <2> QED
    BY <2>2, <2>4, StartAdds
<1> QED
  BY <1>2, <1>7 DEF Refuse, Adds

------------------------------------------------------------------------------
(* The invariant of what runs.  What is typed and sent consists of words,  *)
(* what the engine answered fits into its limits and its limits only,      *)
(* what the probe keeps is paths, and what was started runs as it was      *)
(* checked.                                                                *)

RunsInv ==
  /\ IsSeq(typed.line) /\ WordList(sent)
  /\ asked # Nothing => AnswerGiven(asked.answer)
  /\ CacheOk(cache)
  /\ IsSeq(started) /\ \A k \in DOMAIN started : RunsAsChecked(started[k])

LEMMA RunsInit ==
  ASSUME Init PROVE RunsInv
<1>1. cache = <<>> /\ started = <<>> /\ asked = Nothing
  BY DEF Init
<1>2. DOMAIN cache = {} /\ DOMAIN started = {}
  BY <1>1
<1>3. IsSeq(typed.line) /\ WordList(sent) /\ IsSeq(started)
  BY ArgumentsInit DEF ArgumentsInv
<1> QED
  BY <1>1, <1>2, <1>3 DEF RunsInv, CacheOk

LEMMA AnswerStays ==
  ASSUME IsSeq(typed.line), asked # Nothing => AnswerGiven(asked.answer), [Next]_vars
  PROVE  asked' # Nothing => AnswerGiven(asked'.answer)
<1>1. AnswerGiven(ParsePipeline(typed.line))
  BY AnswersAreTaken DEF AnswerGiven
<1>2. \/ UNCHANGED asked
      \/ asked' = Nothing
      \/ asked'.answer = ParsePipeline(typed.line)
  BY AskedMoves
<1> QED
  BY <1>1, <1>2

LEMMA CacheKept ==
  ASSUME CacheOk(cache), [Next]_vars PROVE CacheOk(cache')
<1>1. Type \/ Write \/ Interact \/ Ask \/ InspectFails \/ Finish \/ Change => UNCHANGED cache
  BY DEF Type, Write, Interact, Ask, InspectFails, Finish, Change, gateway
<1>2. Inspected => cache' = Cached(host, cache, Probed(asked.answer.stages))
  BY DEF Inspected
<1>3. Structured => \E command : cache' = Cached(host, cache, {command})
  BY Zenon DEF Structured
<1>4. ReadCatalog => cache' = Cached(host, cache, CatalogNames)
  BY DEF ReadCatalog
<1>5. UNCHANGED vars => UNCHANGED cache
  BY DEF vars, gateway
<1>6. UNCHANGED cache \/ \E names : cache' = Cached(host, cache, names)
  BY <1>1, <1>2, <1>3, <1>4, <1>5, Zenon DEF Next
<1> QED
  BY <1>6, CacheStays

LEMMA StepAdds ==
  ASSUME RunsInv, [Next]_vars PROVE Adds
<1>1. /\ WordList(sent) /\ CacheOk(cache)
      /\ asked # Nothing => AnswerGiven(asked.answer)
  BY DEF RunsInv
<1>2. CASE UNCHANGED started
  BY <1>2 DEF Adds
<1>3. CASE Inspected
  BY <1>1, <1>3, InspectedAdds DEF Inspected
<1>4. CASE Structured
  BY <1>1, <1>4, StructuredAdds
<1>5. CASE UNCHANGED vars
  BY <1>2, <1>5 DEF vars, gateway
<1>6. Type \/ Write \/ Interact \/ ReadCatalog \/ Finish \/ Change => UNCHANGED started
  BY DEF Type, Write, Interact, ReadCatalog, Finish, Change, gateway
<1>7. InspectFails => UNCHANGED started
  BY DEF InspectFails, Refuse
<1>8. Ask => UNCHANGED started
  BY Zenon DEF Ask, Refuse
<1> QED
  BY <1>2, <1>3, <1>4, <1>5, <1>6, <1>7, <1>8 DEF Next

LEMMA RunsStep ==
  ASSUME RunsInv, [Next]_vars PROVE RunsInv'
<1>1. IsSeq(typed'.line) /\ WordList(sent')
  BY TypedStays DEF RunsInv
<1>2. asked' # Nothing => AnswerGiven(asked'.answer)
  BY AnswerStays DEF RunsInv
<1>3. CacheOk(cache')
  BY CacheKept DEF RunsInv
<1>4. IsSeq(started) /\ \A k \in DOMAIN started : RunsAsChecked(started[k])
  BY DEF RunsInv
<1>5. IsSeq(started') /\ \A k \in DOMAIN started' : RunsAsChecked(started'[k])
  <2>1. CASE started' = started
    BY <1>4, <2>1
  <2>2. ASSUME NEW e, started' = Append(started, e), RunsAsChecked(e)
        PROVE  IsSeq(started') /\ \A k \in DOMAIN started' : RunsAsChecked(started'[k])
    <3>1. /\ IsSeq(started') /\ Len(started) \in Nat /\ DOMAIN started = 1 .. Len(started)
          /\ DOMAIN started' = 1 .. Len(started) + 1
          /\ \A i \in 1 .. Len(started) : started'[i] = started[i]
          /\ started'[Len(started) + 1] = e
      BY <1>4, <2>2, SequenceFacts, Appended
    <3>2. \A k \in DOMAIN started' : k \in DOMAIN started \/ k = Len(started) + 1
      BY <3>1
    <3> QED
      BY <1>4, <2>2, <3>1, <3>2
  <2> QED
    BY <2>1, <2>2, StepAdds DEF Adds
<1> QED
  BY <1>1, <1>2, <1>3, <1>5 DEF RunsInv

(* Whatever runs is what was checked, for every line and every limit of    *)
(* the engine: a line is lexed, split and checked, written out with the    *)
(* paths of the executables in the place of the names, lexed and split     *)
(* again, and nothing but an empty argument gets lost on the way, unless   *)
(* the line has grown too long for the engine to read; and a structured    *)
(* request reaches the engine's parser of options as it was sent           *)
(* (grammar.ts:254 buildResolvedLine, parser.c:274 parser_tokenize,        *)
(* main.c:371 run_line_mode, main.c:463 monitor_one_shot).                 *)
THEOREM WhatRunsIsValidated == Spec => []WhatRunsWasValidated
<1>1. Init => RunsInv
  BY RunsInit
<1>2. RunsInv /\ [Next]_vars => RunsInv'
  BY RunsStep
<1>3. RunsInv => WhatRunsWasValidated
  BY DEF RunsInv, WhatRunsWasValidated, RunsAsChecked
<1> QED
  BY <1>1, <1>2, <1>3, PTL DEF Spec
==============================================================================
