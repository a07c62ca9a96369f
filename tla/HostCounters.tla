---------------------------- MODULE HostCounters ----------------------------
(***************************************************************************)
(* The cumulative counters of the host and what is derived from two        *)
(* readings of them: CPU time (cpu.ts), block devices (disk.ts) and        *)
(* network interfaces (network.ts).                                        *)
(*                                                                         *)
(* Each builder takes the baseline of the reading before and returns the   *)
(* readings and the baseline for the next one.                             *)
(***************************************************************************)
EXTENDS HostMetrics

-----------------------------------------------------------------------------
(* /proc/stat                                                              *)

CpuFieldOrder ==
    <<"user", "nice", "system", "idle", "iowait", "irq", "softirq", "steal", "guest", "guestNice">>
CpuFields == {CpuFieldOrder[i] : i \in 1..10}

TotalFields == CpuFields \ {"guest", "guestNice"}

SumTicks(times) ==
    times["user"] + times["nice"] + times["system"] + times["idle"]
        + times["iowait"] + times["irq"] + times["softirq"] + times["steal"]

ZeroTimes == [f \in CpuFields |-> 0]

(* A line needs four numbers; what an older kernel leaves out is zero.     *)
ParseCpuLine(line) ==
    IF Len(line) < 4 \/ \E i \in DOMAIN line : i <= 10 /\ ~Unsigned(line[i])
    THEN Nothing
    ELSE [f \in CpuFields |->
            LET i == CHOOSE i \in 1..10 : CpuFieldOrder[i] = f
            IN  IF i <= Len(line) THEN line[i] ELSE 0]

(* The total line and the lines of the cores, by their index.              *)
ParseProcStat(text) ==
    LET total == ParseCpuLine(text.total)
        cores == [c \in DOMAIN text.cores |-> ParseCpuLine(text.cores[c])]
    IN  IF total = Nothing \/ \E c \in DOMAIN cores : cores[c] = Nothing
        THEN Nothing
        ELSE [total |-> total, cores |-> cores]

ParseProcStatExtras(text) ==
    [field \in {"processes", "ctxt", "procs_running", "procs_blocked", "btime"} |->
        IF field \in DOMAIN text.extras THEN ParseUint(text.extras[field]) ELSE Null]

ReadProcStat(file) ==
    LET result == ReadTextFile(file)
        sample == ParseProcStat(result.text)
    IN  IF ~result.ok THEN Failed(result.failure)
        ELSE IF sample = Nothing THEN Failed("malformed")
        ELSE [ok |-> TRUE, sample |-> sample, extras |-> ParseProcStatExtras(result.text)]

Percent(numerator, denominator) ==
    IF denominator <= 0 THEN Missing("cpuIdle") ELSE Derived(<<100 * numerator, denominator>>)

Shares == {"busy", "idle", "iowait", "user", "nice", "system", "irq", "steal", "busyPlusIowait"}

NoUtilization(why) == [s \in Shares |-> Missing(why)]

(* Each share is a part of the ticks of the interval; one counter that     *)
(* went back makes the whole interval untrustworthy.                       *)
UtilizationFor(current, previous) ==
    LET d == [f \in TotalFields |-> current[f] - previous[f]]
        total == SumTicks(d)
        busy == total - d["idle"] - d["iowait"]
    IN  IF \E f \in TotalFields : d[f] < 0 THEN NoUtilization("rollback")
        ELSE [s \in Shares |->
                CASE s = "busy"           -> Percent(busy, total)
                  [] s = "irq"            -> Percent(d["irq"] + d["softirq"], total)
                  [] s = "busyPlusIowait" -> Percent(busy + d["iowait"], total)
                  [] OTHER                -> Percent(d[s], total)]

CoreShares == {"busy", "idle", "iowait"}
NoCore(why) == [s \in CoreShares |-> Missing(why)]

CoreUtilization(current, before) ==
    LET total  == SumTicks(current) - SumTicks(before)
        idle   == current["idle"] - before["idle"]
        iowait == current["iowait"] - before["iowait"]
    IN  IF total < 0 \/ idle < 0 \/ iowait < 0 THEN NoCore("rollback")
        ELSE [s \in CoreShares |->
                CASE s = "busy"   -> Percent(total - idle - iowait, total)
                  [] s = "idle"   -> Percent(idle, total)
                  [] s = "iowait" -> Percent(iowait, total)]

(* Cores are compared only when the same ones are there.                   *)
PerCore(cores, before) ==
    [c \in DOMAIN cores |->
        IF DOMAIN cores # DOMAIN before THEN NoCore("topology")
        ELSE CoreUtilization(cores[c], before[c])]

CpuUnread(why) ==
    [utilization |-> NoUtilization(why), perCore |-> <<>>, interval |-> Missing(why),
     currentTimes |-> Missing(why), previousTimes |-> Missing(why), coreCount |-> Missing(why)]

(* What becomes of the baseline when /proc/stat cannot be read: it stays,  *)
(* and a collector that has none takes zeros of this moment.               *)
CarriedCpu(previous, bootId, now) ==
    IF previous # Nothing THEN previous
    ELSE [times |-> ZeroTimes, cores |-> <<>>, atMs |-> now, bootId |-> bootId]

(* Why two samples are not compared at all, in the order of the checks.    *)
NoCpuInterval(previous, bootId, now) ==
    CASE previous = Nothing -> "firstSample"
      [] /\ previous # Nothing
         /\ bootId # Null /\ previous.bootId # Null /\ bootId # previous.bootId -> "bootChange"
      [] previous # Nothing /\ now - previous.atMs <= 0 -> "zeroInterval"
      [] OTHER -> "none"

BuildCpuSnapshot(file, previous, bootId, now) ==
    LET read   == ReadProcStat(file)
        sample == read.sample
        why    == NoCpuInterval(previous, bootId, now)
        cores  == IF why = "firstSample" THEN [c \in DOMAIN sample.cores |-> NoCore(why)] ELSE <<>>
    IN  IF ~read.ok
        THEN [snapshot |-> CpuUnread(read.failure), previous |-> CarriedCpu(previous, bootId, now)]
        ELSE [snapshot |->
                [utilization |-> IF why = "none" THEN UtilizationFor(sample.total, previous.times)
                                 ELSE NoUtilization(why),
                 perCore |-> IF why = "none" THEN PerCore(sample.cores, previous.cores) ELSE cores,
                 interval |-> IF why = "none" THEN Observed(now - previous.atMs) ELSE Missing(why),
                 currentTimes |-> Observed(sample.total),
                 previousTimes |-> IF previous = Nothing THEN Missing(why) ELSE Observed(previous.times),
                 coreCount |-> Observed(Cardinality(DOMAIN sample.cores))],
              previous |-> [times |-> sample.total, cores |-> sample.cores, atMs |-> now,
                            bootId |-> bootId]]

-----------------------------------------------------------------------------
(* /proc/diskstats                                                         *)

SectorBytes == 512
DiskCounters == {"readsCompleted", "writesCompleted", "sectorsRead", "sectorsWritten", "ioMillis"}
DiskRates == {"readBytesPerSec", "writeBytesPerSec", "readsPerSec", "writesPerSec", "busyPercent"}

(* A line is the device's name, whether that is one of the pseudo devices, *)
(* and its numbers; a line that does not parse is passed over.             *)
ParseDiskstats(text) ==
    [name \in {n \in DOMAIN text : \A f \in DiskCounters \cup {"inFlight"} : Unsigned(text[n][f])} |-> text[name]]

Rate(delta, interval, scale) ==
    IF delta < 0 THEN Missing("rollback")
    ELSE IF interval <= 0 THEN Missing("zeroInterval")
    ELSE Derived(<<delta * scale, interval>>)

(* Why a device has no rates.                                              *)
NoDiskRates(line, before, interval) ==
    CASE before = Nothing -> "firstSample"
      [] /\ before # Nothing /\ interval > 0
         /\ \E f \in {"sectorsRead", "sectorsWritten", "ioMillis"} : before[f] > line[f] -> "rollback"
      [] before # Nothing /\ interval <= 0 -> "zeroInterval"
      [] OTHER -> "none"

(* The rates per second; the busy share is cut at 100 percent.             *)
RatesOfDisk(line, before, interval) ==
    LET why == NoDiskRates(line, before, interval)
        d(f) == line[f] - before[f]
    IN  [r \in DiskRates |->
            IF why # "none" THEN Missing(why)
            ELSE CASE r = "readBytesPerSec"  -> Rate(d("sectorsRead") * SectorBytes, interval, 1000)
                   [] r = "writeBytesPerSec" -> Rate(d("sectorsWritten") * SectorBytes, interval, 1000)
                   [] r = "readsPerSec"      -> Rate(d("readsCompleted"), interval, 1000)
                   [] r = "writesPerSec"     -> Rate(d("writesCompleted"), interval, 1000)
                   [] r = "busyPercent"      ->
                        Derived(IF d("ioMillis") >= interval THEN <<100, 1>>
                                ELSE <<100 * d("ioMillis"), interval>>)]

BuildDevice(line, before, interval) ==
    [counters  |-> [f \in DiskCounters |-> MetricOrUnavailable(line[f], "unread")],
     inFlight  |-> Observed(line.inFlight),
     readBytes |-> Derived(line.sectorsRead * SectorBytes),
     writeBytes |-> Derived(line.sectorsWritten * SectorBytes),
     rates     |-> RatesOfDisk(line, before, interval)]

(* Every device but the pseudo ones, against the counters its name had.    *)
BuildDevices(text, previous, now) ==
    LET parsed == ParseDiskstats(text)
        lines == [name \in {n \in DOMAIN parsed : ~parsed[n].pseudo} |-> parsed[name]]
        Before(name) == IF previous # Nothing /\ name \in DOMAIN previous.devices
                        THEN previous.devices[name] ELSE Nothing
        interval == IF previous = Nothing THEN 0 ELSE now - previous.atMs
    IN  [devices |-> [name \in DOMAIN lines |-> BuildDevice(lines[name], Before(name), interval)],
         next |-> [name \in DOMAIN lines |-> [f \in DiskCounters |-> lines[name][f]]]]

(* Mutant: a failed reading moves the baseline's time and not its counters.*)
CarriedDisk_Restamped(previous, now) ==
    [devices |-> IF previous = Nothing THEN <<>> ELSE previous.devices, atMs |-> now]

(* A failed reading keeps the baseline, with the time it was taken at.     *)
CarriedDisk(previous, now) ==
    IF previous # Nothing THEN previous ELSE [devices |-> <<>>, atMs |-> now]

BuildDiskSnapshot(file, previous, now) ==
    LET result == ReadTextFile(file)
        built == BuildDevices(result.text, previous, now)
    IN  IF ~result.ok
        THEN [snapshot |-> <<>>, previous |-> CarriedDisk(previous, now)]
        ELSE [snapshot |-> built.devices, previous |-> [devices |-> built.next, atMs |-> now]]

-----------------------------------------------------------------------------
(* /proc/net/dev                                                           *)

NetCounters == {"rxBytes", "rxPackets", "txBytes", "txPackets"}
NetFields == NetCounters \cup {"rxErrors", "rxDropped", "txErrors", "txDropped"}

ParseNetDev(text) ==
    [name \in {n \in DOMAIN text : \A f \in NetFields : Unsigned(text[n][f])} |-> text[name]]

ByteRate(current, previous, interval) == Rate(current - previous, interval, 1000)

RatesOfInterface(line, before, interval) ==
    [r \in {"rxBytes", "txBytes"} |->
        IF before = Nothing THEN Missing("firstSample")
        ELSE IF interval <= 0 THEN Missing("zeroInterval")
        ELSE ByteRate(line[r], before[r], interval)]

(* The link of an interface is read from sysfs, beside its counters.       *)
BuildInterface(line, before, interval, sys) ==
    [counters  |-> [f \in NetFields |-> Observed(line[f])],
     rates     |-> RatesOfInterface(line, before, interval),
     operState |-> TextMetric(sys.operstate),
     linkSpeed |-> MetricOrUnavailable(ReadUintFile(sys.speed), "noSpeed"),
     mtu       |-> MetricOrUnavailable(ReadUintFile(sys.mtu), "noMtu")]

BuildNetworkSnapshot(file, sys, previous, now) ==
    LET result == ReadTextFile(file)
        lines == ParseNetDev(result.text)
        Before(name) == IF previous # Nothing /\ name \in DOMAIN previous.interfaces
                        THEN previous.interfaces[name] ELSE Nothing
        interval == IF previous = Nothing THEN 0 ELSE now - previous.atMs
    IN  IF ~result.ok
        THEN [snapshot |-> <<>>,
              previous |-> IF previous # Nothing THEN previous ELSE [interfaces |-> <<>>, atMs |-> now]]
        ELSE [snapshot |-> [name \in DOMAIN lines |->
                                BuildInterface(lines[name], Before(name), interval, sys[name])],
              previous |-> [interfaces |-> [name \in DOMAIN lines |-> [f \in NetCounters |-> lines[name][f]]],
                            atMs |-> now]]

=============================================================================
