---------------------------- MODULE ThermalGuard ----------------------------
(***************************************************************************)
(* The thermal guard (execution/thermalGuard.ts): which sensor it relies   *)
(* on and what it decides before a workload starts; and the configuration  *)
(* the gateway reads once when it starts (config/env.ts), with the limits  *)
(* that reach the engine's child (sanitizedEnv, limits.c).                 *)
(*                                                                         *)
(* A temperature is a number of degrees; Unread stands for a file that is  *)
(* there and does not read as a number without a sign.  Unset and NoNumber *)
(* stand for a variable without a value.                                   *)
(***************************************************************************)
EXTENDS Integers, Sequences, FiniteSets, SequencesExt

CONSTANTS Sensors    \* the sensors of sysfs, in the order of discovery

Unread == -1
Unset == "unset"
NoNumber == -1
NoSensor == [name |-> "none", path |-> "none", isPackage |-> FALSE]

ASSUME SensorsAssumption ==
    /\ Sensors \in Seq([name : STRING, path : STRING, isPackage : BOOLEAN])
    /\ \A i, j \in DOMAIN Sensors : Sensors[i].path = Sensors[j].path => i = j
    /\ \A i \in DOMAIN Sensors : Sensors[i] # NoSensor

-----------------------------------------------------------------------------
(* The sensor.  temps maps a path that is there to its temperature.        *)

Discovered(temps) == {k \in DOMAIN Sensors : Sensors[k].path \in DOMAIN temps}
Readable(temps) == {k \in Discovered(temps) : temps[Sensors[k].path] # Unread}
Packages(places) == {k \in places : Sensors[k].isPackage}

Heat(k, temps) == temps[Sensors[k].path]

(* Mutant: the coolest of the sensors.                                     *)
Hottest_Coolest(places, temps) ==
    CHOOSE k \in places : \A j \in places :
        Heat(j, temps) > Heat(k, temps) \/ (Heat(j, temps) = Heat(k, temps) /\ k <= j)

(* The first of the hottest.                                               *)
Hottest(places, temps) ==
    CHOOSE k \in places : \A j \in places :
        Heat(j, temps) < Heat(k, temps) \/ (Heat(j, temps) = Heat(k, temps) /\ k <= j)

(* A selector by path or name has to leave no choice.                      *)
OnlyOne(places) == IF \E k \in places : places = {k} THEN Sensors[CHOOSE k \in places : TRUE] ELSE NoSensor

SelectSensor(selector, temps) ==
    LET readable == Readable(temps)
        packages == Packages(readable)
    IN  IF selector.kind = "path" THEN OnlyOne({k \in Discovered(temps) : Sensors[k].path = selector.of})
        ELSE IF selector.kind = "name" THEN OnlyOne({k \in Discovered(temps) : Sensors[k].name = selector.of})
        ELSE IF packages # {} THEN Sensors[Hottest(packages, temps)]
        ELSE IF selector.kind = "auto" /\ readable # {} THEN Sensors[Hottest(readable, temps)]
        ELSE NoSensor

(* readSensorMilliCelsius: the file of the selected sensor, read again.    *)
ReadSensor(sensor, temps) == IF sensor.path \in DOMAIN temps THEN temps[sensor.path] ELSE Unread

-----------------------------------------------------------------------------
(* The decision: found are the temperatures when the sensors were          *)
(* discovered, read those when the selected one was read.                  *)

Record(decision, threshold, sensor, reading, result) ==
    [decision |-> decision, threshold |-> threshold, sensor |-> sensor, reading |-> reading, result |-> result]

EvaluateThermalGuard(guard, found, read) ==
    LET sensor == SelectSensor(guard.sensor, found)
        reading == ReadSensor(sensor, read)
        warns == guard.action = "WARN"
    IN  IF ~guard.enabled THEN Record("DISABLED", "none", NoSensor, Unread, "NONE")
        ELSE IF sensor = NoSensor \/ reading = Unread
        THEN Record("UNAVAILABLE_ALLOW", "none", sensor, Unread, "NONE")
        ELSE IF reading >= guard.critical
        THEN IF warns THEN Record("WARN_ONLY", "critical", sensor, reading, "WARNING_ISSUED")
             ELSE Record("REFUSE_KILL", "critical", sensor, reading, "TERM_THEN_KILL_SENT")
        ELSE IF reading >= guard.warning
        THEN IF warns THEN Record("WARN_ONLY", "warning", sensor, reading, "WARNING_ISSUED")
             ELSE Record("REFUSE_TERM", "warning", sensor, reading, "TERM_SENT")
        ELSE Record("ALLOW", "none", sensor, reading, "NONE")

Refuses(record) == record.decision \in {"REFUSE_TERM", "REFUSE_KILL"}

-----------------------------------------------------------------------------
(* The configuration.  env holds the text of each variable, or Unset.      *)

ValueOf(text, default) == IF text = Unset THEN default ELSE text
NumberOr(value, default) == IF value = NoNumber THEN default ELSE value

(* z.coerce.boolean: every text but the empty one is true.                 *)
CoerceBoolean(text) == text \notin {Unset, ""}

SensorSelector(env) ==
    CASE env.sensorPath # Unset -> [kind |-> "path", of |-> env.sensorPath]
      [] env.sensorName # Unset -> [kind |-> "name", of |-> env.sensorName]
      [] OTHER -> [kind |-> ValueOf(env.sensor, "auto"), of |-> Unset]

ThermalGuardFromEnv(env) ==
    [enabled |-> CoerceBoolean(env.guard), sensor |-> SensorSelector(env),
     warning |-> NumberOr(env.warning, 80), critical |-> NumberOr(env.critical, 95),
     action |-> ValueOf(env.action, "WARN"), grace |-> NumberOr(env.grace, 2000)]

ThermalGuardConfigOk(guard) ==
    /\ guard.warning < guard.critical
    /\ guard.action = "TERM_THEN_KILL" => guard.grace > 0

(* validate: the bind mode, the address and the token fit together.        *)
BoundaryOk(env) ==
    IF ValueOf(env.bindMode, "local") = "local"
    THEN ValueOf(env.host, "loopback") = "loopback" /\ env.token = Unset
    ELSE env.token # Unset

ConfigurationOk(env) ==
    /\ BoundaryOk(env)
    /\ NumberOr(env.defaultTimeout, 30) <= NumberOr(env.maxTimeout, 120)
    /\ env.sensorName = Unset \/ env.sensorPath = Unset
    /\ ThermalGuardConfigOk(ThermalGuardFromEnv(env))

LoadConfig(env) ==
    [thermalGuard |-> ThermalGuardFromEnv(env),
     defaultTimeout |-> NumberOr(env.defaultTimeout, 30),
     maxTimeout |-> NumberOr(env.maxTimeout, 120),
     maxConcurrent |-> NumberOr(env.maxConcurrent, 4),
     addressSpace |-> NumberOr(env.addressSpace, 0),
     cpuBudget |-> NumberOr(env.cpuBudget, 0)]

-----------------------------------------------------------------------------
(* Limits.  The gateway hands the engine a limit only when it is set, the  *)
(* CPU budget in whole seconds; the engine's child applies what it is      *)
(* given before it executes, and does not run on a text it cannot read.    *)

SanitizedEnv(config) ==
    [addressSpace |-> IF config.addressSpace > 0 THEN config.addressSpace ELSE NoNumber,
     cpuSeconds |-> IF config.cpuBudget > 0 THEN (config.cpuBudget + 999) \div 1000 ELSE NoNumber,
     fileBytes |-> NoNumber]

LimitIsReadable(value) == value = NoNumber \/ value > 0

CapsLimitsApply(limits) ==
    IF \A f \in DOMAIN limits : LimitIsReadable(limits[f])
    THEN [ok |-> TRUE, applied |-> [f \in {g \in DOMAIN limits : limits[g] # NoNumber} |-> limits[f]]]
    ELSE [ok |-> FALSE, applied |-> <<>>]
=============================================================================
