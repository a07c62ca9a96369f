-------------------------- MODULE ProcessSampling ---------------------------
(***************************************************************************)
(* The telemetry of one tracked process: the reading of its procfs files   *)
(* (telemetry/collector.ts), the rates derived from two samples            *)
(* (derive.ts), which PID is accepted as the tracked child and how one     *)
(* sample changes the sampler (sampler.ts).                                *)
(***************************************************************************)
EXTENDS HostMetrics

(* The metrics of a snapshot, by the file they are read from.              *)
CounterKeys == {"minorFaults", "majorFaults", "rcharBytes", "wcharBytes", "readBytes", "writeBytes"}
RateKeys    == {"cpuPercent"} \cup CounterKeys
GatewayKeys == {"capsEnginePid"}
DerivedKeys == {"startTime", "elapsedMs", "cpuTimeMs"}
IoKeys      == {"rcharBytes", "wcharBytes", "readBytes", "writeBytes"}
StatKeys    == {"pid", "state", "minorFaults", "majorFaults"}
StatusKeys  == {"rssBytes", "virtualMemoryBytes", "voluntaryContextSwitches", "nonVoluntaryContextSwitches"}
SnapshotKeys == {"ppid", "threadCount"} \cup GatewayKeys \cup DerivedKeys \cup IoKeys \cup StatKeys
                    \cup StatusKeys

FirstSample == "firstSample"
NoRates(why) == [k \in RateKeys |-> Missing(why)]

(* parseProcStat throws on any field that is not a number.                 *)
ParseStat(text) == IF \A k \in DOMAIN text \ {"state"} : Unsigned(text[k]) THEN text ELSE Nothing

(* stat is accepted when it parses and names the PID asked for.            *)
AcceptedStat(pid, file) ==
    LET read == ReadTextFile(file)
        stat == ParseStat(read.text)
    IN  IF ~read.ok THEN Failed(read.failure)
        ELSE IF stat = Nothing \/ stat["pid"] # pid THEN Failed("malformed")
        ELSE Text(stat)

Uint(map, key) == IF key \in DOMAIN map THEN ParseUint(map[key]) ELSE Null

(* elapsedMs and startTime, in the units of the kernel clock.              *)
Elapsed(stat, clock) ==
    IF clock.uptime = Null \/ clock.ticks = Null THEN Null
    ELSE Max({0, clock.uptime - stat["start"] \div clock.ticks})

StartTime(stat, clock, now) ==
    IF clock.btime # Null /\ clock.ticks # Null THEN clock.btime + stat["start"] \div clock.ticks
    ELSE IF Elapsed(stat, clock) = Null THEN Null ELSE now - Elapsed(stat, clock)

CpuTime(stat, ticks) == IF ticks = Null THEN Missing("noClock") ELSE Derived(<<1000 * stat["cpu"], ticks>>)

DerivedMetric(v) == IF v = Null THEN Missing("noClock") ELSE Derived(v)

(* The parent is taken from status when it names process and parent, from  *)
(* stat otherwise.                                                         *)
ParentOf(stat, status) ==
    IF Uint(status, "Pid") # Null /\ Uint(status, "PPid") # Null THEN Uint(status, "PPid") ELSE stat["ppid"]

(* readProcessSnapshot: stat, then status, then io; a file that fails      *)
(* costs its own fields, a failed stat all of them.                        *)
ReadProcessSnapshot(pid, statFile, rest, clock, now) ==
    LET stat    == AcceptedStat(pid, statFile)
        s       == stat.text
        statusR == ReadTextFile(rest.status)
        ioR     == ReadTextFile(rest.io)
        status  == IF statusR.ok THEN statusR.text ELSE <<>>
        io      == IF ioR.ok THEN ioR.text ELSE <<>>
        threads == Uint(status, "Threads")
        Why(read) == IF read.ok THEN "absent" ELSE read.failure
    IN  IF ~stat.ok
        THEN [fields |-> [k \in SnapshotKeys |-> IF k = "pid" THEN Observed(pid) ELSE Missing(stat.failure)],
              rates |-> NoRates(stat.failure), start |-> Null]
        ELSE [fields |-> [k \in SnapshotKeys |->
                 CASE k = "ppid"          -> Observed(ParentOf(s, status))
                   [] k = "threadCount"   -> Observed(IF threads = Null THEN s["threads"] ELSE threads)
                   [] k \in StatKeys      -> Observed(s[k])
                   [] k = "startTime"     -> DerivedMetric(StartTime(s, clock, now))
                   [] k = "elapsedMs"     -> DerivedMetric(Elapsed(s, clock))
                   [] k = "cpuTimeMs"     -> CpuTime(s, clock.ticks)
                   [] k \in StatusKeys    -> MetricOrUnavailable(Uint(status, k), Why(statusR))
                   [] k \in IoKeys        -> MetricOrUnavailable(Uint(io, k), Why(ioR))
                   [] k = "capsEnginePid" -> Missing("gateway")],
              rates |-> NoRates(FirstSample), start |-> s["start"]]

(* deriveCpuPercent and deriveRates: from two samples and the time         *)
(* between them; a counter that went back has no rate.                     *)
DeriveCpuPercent(current, previous, wall) ==
    LET now == current.fields["cpuTimeMs"]
        before == previous.fields["cpuTimeMs"]
    IN  IF ~HasValue(now) \/ ~HasValue(before) THEN Missing("unavailable")
        ELSE IF now.value[1] < before.value[1] THEN Missing("decreased")
        ELSE Derived(<<100 * (now.value[1] - before.value[1]), now.value[2] * wall>>)

DeriveRate(now, before, wall) ==
    IF ~HasValue(now) \/ ~HasValue(before) THEN Missing("unavailable")
    ELSE IF now.value < before.value THEN Missing("decreased")
    ELSE Derived(<<1000 * (now.value - before.value), wall>>)

DeriveRates(current, previous, wall) ==
    IF previous = Nothing \/ wall <= 0
    THEN [current EXCEPT !.rates = NoRates(FirstSample)]
    ELSE [current EXCEPT !.rates =
            [k \in RateKeys |-> IF k = "cpuPercent" THEN DeriveCpuPercent(current, previous, wall)
                                ELSE DeriveRate(current.fields[k], previous.fields[k], wall)]]

MarkUnavailable(snapshot, why) ==
    [snapshot EXCEPT !.fields = [k \in SnapshotKeys |-> Missing(why)], !.rates = NoRates(why)]

-----------------------------------------------------------------------------
(* The sampler                                                             *)

Unset == -2

(* A sampling: the start ticks accepted so far, the last sample and when.  *)
Fresh == [identity |-> Unset, last |-> Nothing, at |-> Null]

Distance(a, b) == IF a < b THEN b - a ELSE a - b

(* Mutant: the parent of the PID is not looked at.                         *)
Rejection_AnyParent(sampling, target, snapshot, tolerance) ==
    CASE snapshot.start = Null -> "none"
      [] /\ snapshot.start # Null /\ sampling.identity = Unset
         /\ (\/ ~HasValue(snapshot.fields["startTime"])
             \/ Distance(snapshot.fields["startTime"].value, target.startedAt) > tolerance) -> "start"
      [] OTHER -> "none"

(* verifyIdentity, in the order of its checks: a sample without start      *)
(* ticks is no rejection, it only ends the sampling.                       *)
Rejection(sampling, target, snapshot, tolerance) ==
    CASE snapshot.start = Null -> "none"
      [] snapshot.start # Null /\ target.engine = Null -> "noEngine"
      [] /\ snapshot.start # Null /\ target.engine # Null
         /\ snapshot.fields["ppid"].value # target.engine -> "parent"
      [] /\ snapshot.start # Null /\ target.engine # Null
         /\ snapshot.fields["ppid"].value = target.engine
         /\ sampling.identity = Unset
         /\ (\/ ~HasValue(snapshot.fields["startTime"])
             \/ Distance(snapshot.fields["startTime"].value, target.startedAt) > tolerance) -> "start"
      [] /\ snapshot.start # Null /\ target.engine # Null
         /\ snapshot.fields["ppid"].value = target.engine
         /\ sampling.identity # Unset /\ sampling.identity # snapshot.start -> "changed"
      [] OTHER -> "none"

(* sample: what is emitted, and the sampling after it; Nothing when it     *)
(* halts.                                                                  *)
Sampled(sampling, target, collected, now, tolerance) ==
    LET snapshot == [collected EXCEPT !.fields["capsEnginePid"] =
                        IF target.engine = Null THEN Missing("noEngine") ELSE Observed(target.engine)]
        why   == Rejection(sampling, target, snapshot, tolerance)
        final == IF why # "none" THEN MarkUnavailable(snapshot, why)
                 ELSE DeriveRates(snapshot, sampling.last, IF sampling.at = Null THEN 0 ELSE now - sampling.at)
    IN  [emitted |-> final, rejected |-> why # "none",
         next |-> IF why # "none" \/ final.start = Null THEN Nothing
                  ELSE [identity |-> IF sampling.identity = Unset THEN snapshot.start ELSE sampling.identity,
                        last |-> final, at |-> now]]

=============================================================================
