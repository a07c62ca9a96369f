--------------------- MODULE HostObservationProperties ----------------------
(***************************************************************************)
(* What a reading of the host may claim, against what the host was.        *)
(***************************************************************************)
EXTENDS HostObservation, HostViews

Settled == snap # Nothing /\ scan = Nothing
Latest  == readings[Len(readings)]
Prior   == readings[Len(readings) - 1]
Elapsed == Latest.at - Prior.at
Two     == Len(readings) >= 2 /\ Elapsed > 0

Same(a, b) == a[1] * b[2] = b[1] * a[2]
IsRate(m, d, scale, time) == HasValue(m) /\ Same(m.value, <<d * scale, time>>)
NoRate(rates) == \A r \in DOMAIN rates : ~HasValue(rates[r])

(* The share of the time the cores spent in each way, when the same cores  *)
(* were there; guest time is part of user time and not counted twice.      *)
CpuRatesAreReal(parts) ==
    LET u  == parts.cpu.utilization
        t  == Elapsed * Cardinality(DOMAIN Latest.host.cores)
        d(f) == Latest.host.total[f] - Prior.host.total[f]
    IN  HasValue(parts.cpu.currentTimes) /\ Two
            /\ DOMAIN Latest.host.cores = DOMAIN Prior.host.cores =>
        /\ IsRate(u["busy"], d("user"), 100, t)
        /\ IsRate(u["idle"], d("idle"), 100, t)
        /\ IsRate(u["iowait"], d("iowait"), 100, t)
        /\ \A c \in DOMAIN Latest.host.cores :
               IsRate(parts.cpu.perCore[c]["idle"],
                      Latest.host.cores[c]["idle"] - Prior.host.cores[c]["idle"], 100, Elapsed)

(* A disk that was replaced has the name of the old one: a rate is only    *)
(* claimed to be real while it is the same disk.                           *)
DiskRatesAreReal(parts) ==
    "sda" \in DOMAIN parts.disk =>
        LET rates == parts.disk["sda"].rates
            now    == Latest.host.disk["sda"]
            before == Prior.host.disk["sda"]
        IN  /\ ~Two => NoRate(rates)
            /\ Two /\ now.plugged = before.plugged =>
                   /\ IsRate(rates["readsPerSec"], now.readsCompleted - before.readsCompleted, 1000, Elapsed)
                   /\ IsRate(rates["readBytesPerSec"], SectorBytes * (now.sectorsRead - before.sectorsRead),
                             1000, Elapsed)
                   /\ rates["busyPercent"].value[1] <= 100 * rates["busyPercent"].value[2]
            /\ Two /\ now.ioMillis < before.ioMillis => NoRate(rates)

NetRatesAreReal(parts) ==
    "eth0" \in DOMAIN parts.net =>
        LET rates == parts.net["eth0"].rates
        IN  IF ~Two THEN NoRate(rates)
            ELSE IsRate(rates["rxBytes"],
                        Latest.host.net["eth0"]["rxBytes"] - Prior.host.net["eth0"]["rxBytes"], 1000, Elapsed)

(* Every rate of a snapshot is the real increase of the counter since the  *)
(* last time it was read, over the real time since then, however many      *)
(* collections failed in between; without two readings there is none.      *)
(* (cpu.ts, disk.ts, network.ts: the baseline and its time travel          *)
(* together.)                                                              *)
RatesAreReal ==
    Settled =>
        /\ focus = "cpu"  => CpuRatesAreReal(snap.parts)
        /\ focus = "disk" => DiskRatesAreReal(snap.parts)
        /\ focus = "net"  => NetRatesAreReal(snap.parts)

(* The sensors that have a reading, by what their files hold.              *)
ZoneReadings  == IF gauges.zones.ok THEN {ReadUintFile(gauges.zones.text[i].temp) : i \in DOMAIN gauges.zones.text}
                 ELSE {}
HwmonReadings == IF gauges.hwmon.ok THEN {ReadUintFile(gauges.hwmon.text.inputs[i].input) : i \in 1..2} ELSE {}
Readings      == (ZoneReadings \cup HwmonReadings) \ {Null}

MemoryAgrees ==
    LET m == snap.parts.memory
        in(k) == HasValue(m.fields[k])
        v(k)  == m.fields[k].value
    IN  /\ HasValue(m.used) <=> in("MemTotal") /\ in("MemAvailable")
        /\ HasValue(m.used) => m.used.value + v("MemAvailable") = v("MemTotal")
        /\ HasValue(m.swapUsed) => m.swapUsed.value + v("SwapFree") = v("SwapTotal")
        /\ HasValue(m.swapPercent) => m.swapPercent.value[1] \in 0..100 * m.swapPercent.value[2]
        /\ gauges.mem.errno # "0" => \A k \in MemFields : ~in(k)

ThermalAgrees ==
    LET t == snap.parts.thermal
        Has(name, reading) == \E i \in DOMAIN t.sensors :
                                 t.sensors[i].name = name /\ t.sensors[i].celsius = Derived(reading)
    IN  /\ HasValue(t.highestCelsius) <=> Readings # {}
        /\ Readings # {} => /\ t.highestCelsius.value = Max(Readings)
                            /\ Has(t.highestSensor.value, Max(Readings))
        /\ HasValue(t.packageCelsius) =>
               /\ t.packageCelsius.value \in Readings
               /\ Has(t.packageSensor.value, t.packageCelsius.value)

(* A summary agrees with what it summarises and never counts a value that  *)
(* could not be read as zero: used and available memory add up to the      *)
(* total, the hottest sensor is the hottest that could be read and the one *)
(* that is named, and load per processor needs a processor count.          *)
(* (memory.ts, thermal.ts summarise, pressure.ts.)                         *)
SummariesAgree ==
    Settled /\ focus \in {"gauges", "thermal"} =>
        /\ MemoryAgrees
        /\ ThermalAgrees
        /\ HasValue(snap.parts.load["load1PerCpu"]) =>
               HasValue(snap.parts.identity.logicalCpus) /\ HasValue(snap.parts.load["load1"])

RowOf(id) == {i \in DOMAIN snap.rows : snap.rows[i].identity = id}
IdOf(t, p) == IdentityKey(p, t[p].start, BootId)

Orders == {<<key, direction>> : key \in SortKeys, direction \in {"asc", "desc"}}

(* A sorted table has every row once, those without a value at the end.    *)
SortingLosesNothing(rows) ==
    \A o \in Orders :
        LET sorted == SortRows(rows, o[1], o[2])
            value(i) == RowValue(sorted[i], o[1])
        IN  /\ Len(sorted) = Len(rows) /\ Range(sorted) = Range(rows)
            /\ \A i, j \in DOMAIN sorted :
                   i < j => /\ value(i) = Null => value(j) = Null
                            /\ value(j) # Null => IF o[2] = "asc" THEN value(i) <= value(j)
                                                  ELSE value(j) <= value(i)

(* In a forest every row stands once, under its parent if that is shown.   *)
ForestHasAll(rows) ==
    LET flat == FlattenTree(rows)
        place(i) == CHOOSE n \in DOMAIN flat : flat[n].row = i
    IN  /\ Len(flat) = Len(rows) /\ {flat[n].row : n \in DOMAIN flat} = DOMAIN rows
        /\ \A i \in DOMAIN rows :
               IF ParentOf(rows, i) = 0 THEN flat[place(i)].depth = 0
               ELSE /\ flat[place(i)].depth = flat[place(ParentOf(rows, i))].depth + 1
                    /\ place(ParentOf(rows, i)) < place(i)

(* Whatever parents three rows claim to have, a row stands in the forest   *)
(* at most once, and is left out only when its parents lead into a cycle.  *)
Claiming(parents) ==
    [i \in DOMAIN parents |-> [identity |-> IdentityKey(i, 0, BootId),
                               fields |-> [ppid |-> IF parents[i] = 0 THEN Missing("unread") ELSE Observed(parents[i])]]]

ForestOfAnyParents ==
    \A parents \in [1..3 -> 0..4] :
        LET forest == BuildTree(Claiming(parents))
            above(i) == IF i # 0 /\ parents[i] \in 1..3 \ {i} THEN parents[i] ELSE 0
            times(i) == Cardinality({path \in forest : path[Len(path)] = i})
        IN  \A i \in 1..3 : IF above(above(above(i))) = 0 THEN times(i) = 1 ELSE times(i) <= 1

ExplorerHidesNothing(rows) ==
    LET counts == CountByState(rows)
        halves == PartitionByOwnership(rows)
    IN  /\ SortingLosesNothing(rows)
        /\ \A states \in {{}, {"LIVE"}, ProcessStates \ {"LIVE"}}, capsOnly \in BOOLEAN :
               ForestHasAll(Visible(rows, states, capsOnly, "pid", "desc"))
        /\ Range(halves.capsOwned) \cup Range(halves.host) = Range(rows)
        /\ Len(FilterByState(rows, {"LIVE"})) = counts["LIVE"]
        /\ counts["LIVE"] + Len(FilterByState(rows, ProcessStates \ {"LIVE"})) = Len(rows)
        /\ \A i \in DOMAIN rows :
               rows[i].confidence = Observed("VERIFIED") <=> HasValue(rows[i].fields["ppid"])
                   /\ (ParentOf(rows, i) # 0 \/ rows[i].fields["ppid"].value = PidOf(rows[i]))

(* The inventory leaves out no process that was there from the listing to  *)
(* the end of the scan, whatever the budget and whatever came and went     *)
(* meanwhile, details no more of them than the budget, and calls a process *)
(* the gateway's own exactly if the gateway started that very process; the *)
(* summary classifies every row it could read and no other.  The explorer  *)
(* shows every row once however the table is sorted, filtered or arranged  *)
(* by parents (sortRows, filterByState, buildTree), with what could not be *)
(* read at the end and never as zero.                                      *)
InventoryIsHonest ==
    Settled =>
        /\ \A p \in Pids :
               snap.began[p] # Nothing /\ snap.ended[p] # Nothing
                   /\ snap.began[p].start = snap.ended[p].start =>
               Cardinality(RowOf(IdOf(snap.ended, p))) = 1
        /\ Cardinality({i \in DOMAIN snap.rows : snap.rows[i].sampled}) <= MaxSampled
        /\ \A i \in DOMAIN snap.rows :
               LET row == snap.rows[i]
               IN  /\ row.capsOwned => row.identity \in owned
                   /\ row.identity \in owned => row.capsOwned
        /\ snap.summary.sleeping.value + Cardinality({i \in DOMAIN snap.rows : snap.rows[i].rowState # "LIVE"})
               = snap.summary.total.value
        /\ focus = "processes" => ExplorerHidesNothing(snap.rows)
        /\ ForestOfAnyParents

Accepted(s) == ~s.rejected /\ s.snapshot.start # Null
Whole(s)    == s.stat # Nothing /\ s.rest # Nothing /\ s.stat.start = s.rest.start

(* The samples of one tracked PID are of one process, a child of the       *)
(* engine that started when the engine said it started one, from the first *)
(* accepted sample to the last; their rates are its own; and nothing       *)
(* follows a rejected sample, however often the PID is taken by another    *)
(* process.  (A process that replaces another between the two reads of one *)
(* sample can lend it the fields of the second file.)                      *)
OnlyTheChild ==
    \A i \in DOMAIN samples :
        /\ samples[i].rejected => i = Len(samples)
        /\ Accepted(samples[i]) /\ Whole(samples[i]) => samples[i].rest.ppid = Engine
        /\ \A j \in 1..(i - 1) :
               Accepted(samples[i]) /\ Accepted(samples[j]) =>
                   samples[i].snapshot.start = samples[j].snapshot.start
        /\ i > 1 /\ Accepted(samples[i]) /\ samples[i].at > samples[i - 1].at =>
               IsRate(samples[i].snapshot.rates["cpuPercent"],
                      samples[i].stat.cpu - samples[i - 1].stat.cpu, 100000, samples[i].at - samples[i - 1].at)

(* processes.ts:567 of the counters a row hands on: "its cumulative        *)
(* counters are still a valid basis for the next delta even though no rate *)
(* was computed this pass (first sample, or a zero interval)".  A process  *)
(* that was read in two collections has a rate in the second then.  It has *)
(* none: counters are handed on only for an identity that had some already.*)
SecondSampleHasRate ==
    Settled /\ snap.parts.cpu.interval.provenance = "OBSERVED" =>
        \A i \in DOMAIN snap.rows :
            snap.rows[i].sampled /\ snap.rows[i].identity[1] = Engine => HasValue(snap.rows[i].cpuPercent)
=============================================================================
