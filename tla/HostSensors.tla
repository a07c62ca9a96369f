---------------------------- MODULE HostSensors -----------------------------
(***************************************************************************)
(* What the host publishes as it is now: memory, load, pressure, thermal   *)
(* sensors, frequency policies, file systems and the identity of the host. *)
(* Nothing here is compared with an earlier reading.                       *)
(***************************************************************************)
EXTENDS HostMetrics

-----------------------------------------------------------------------------
(* /proc/meminfo: the fields that are there, in bytes.                     *)

MemFields ==
    {"MemTotal", "MemFree", "MemAvailable", "Buffers", "Cached", "SReclaimable", "SwapTotal",
     "SwapFree", "SwapCached", "Active", "Inactive", "Dirty", "Writeback", "AnonPages", "Shmem", "Slab"}

(* parseMemInfo: a line with another key, or not in kB, is passed over.    *)
ParseMemInfo(text) ==
    [key \in {k \in MemFields \cap DOMAIN text : Unsigned(text[k])} |-> 1024 * text[key]]

Field(values, key) ==
    IF key \in DOMAIN values THEN Observed(values[key]) ELSE Missing("absent")

(* Mutant: used memory counted against the free pages.                     *)
UsedMemory_OfFree(values) ==
    IF {"MemTotal", "MemAvailable"} \subseteq DOMAIN values
    THEN Derived(values["MemTotal"] - (IF "MemFree" \in DOMAIN values THEN values["MemFree"] ELSE 0))
    ELSE Missing("needsBoth")

UsedMemory(values) ==
    IF {"MemTotal", "MemAvailable"} \subseteq DOMAIN values
    THEN Derived(values["MemTotal"] - values["MemAvailable"])
    ELSE Missing("needsBoth")

UsedPercent(values) ==
    LET used == UsedMemory(values)
    IN  IF HasValue(used) THEN Derived(<<100 * used.value, values["MemTotal"]>>) ELSE used

UsedSwap(values) ==
    IF {"SwapTotal", "SwapFree"} \subseteq DOMAIN values
    THEN Derived(values["SwapTotal"] - values["SwapFree"])
    ELSE Missing("needsBoth")

(* A machine without swap has a utilisation of zero, not an unknown one.   *)
SwapPercent(values) ==
    LET used == UsedSwap(values)
    IN  IF ~HasValue(used) THEN used
        ELSE IF values["SwapTotal"] = 0 THEN Derived(<<0, 1>>)
        ELSE Derived(<<100 * used.value, values["SwapTotal"]>>)

BuildMemorySnapshot(file) ==
    LET result == ReadTextFile(file)
        values == ParseMemInfo(result.text)
    IN  IF ~result.ok
        THEN [fields |-> [k \in MemFields |-> Missing(result.failure)],
              used |-> Missing(result.failure), usedPercent |-> Missing(result.failure),
              swapUsed |-> Missing(result.failure), swapPercent |-> Missing(result.failure)]
        ELSE [fields |-> [k \in MemFields |->
                            IF k = "MemAvailable" /\ k \in DOMAIN values THEN Estimate(values[k])
                            ELSE Field(values, k)],
              used |-> UsedMemory(values), usedPercent |-> UsedPercent(values),
              swapUsed |-> UsedSwap(values), swapPercent |-> SwapPercent(values)]

TotalMemory(file) ==
    LET result == ReadTextFile(file)
    IN  IF ~result.ok THEN Missing(result.failure)
        ELSE Field(ParseMemInfo(result.text), "MemTotal")

-----------------------------------------------------------------------------
(* /proc/loadavg and /proc/pressure                                        *)

LoadFields == {"load1", "load5", "load15", "runnable", "totalThreads", "lastPid"}

ParseLoadAvg(text) == IF \A f \in LoadFields : Unsigned(text[f]) THEN text ELSE Nothing

BuildLoadSnapshot(file, logicalCpus) ==
    LET result == ReadTextFile(file)
        parsed == ParseLoadAvg(result.text)
        All(why) == [f \in LoadFields \cup {"load1PerCpu"} |-> Missing(why)]
    IN  IF ~result.ok THEN All(result.failure)
        ELSE IF parsed = Nothing THEN All("malformed")
        ELSE [f \in LoadFields \cup {"load1PerCpu"} |->
                IF f # "load1PerCpu" THEN Observed(parsed[f])
                ELSE IF logicalCpus <= 0 THEN Missing("noCpuCount")
                ELSE Derived(<<parsed["load1"], logicalCpus>>)]

Windows == {"avg10", "avg60", "avg300"}

(* parsePressure: the pairs of the some line and of the full line; a text  *)
(* without a some line is not pressure information.                        *)
ParsePressure(text) ==
    IF text.some = <<>> THEN Nothing
    ELSE [line \in {"some", "full"} |-> RestrictValues(text[line], LAMBDA v : v # Garbage)]

Averages(values, absent) ==
    [w \in Windows |-> IF w \in DOMAIN values THEN Observed(values[w]) ELSE Missing(absent)]

BuildPressureRecord(file) ==
    LET result == ReadTextFile(file)
        parsed == ParsePressure(result.text)
        Both(why) == [line \in {"some", "full"} |-> [w \in Windows |-> Missing(why)]]
    IN  IF ~result.ok THEN Both(result.failure)
        ELSE IF parsed = Nothing THEN Both("malformed")
        ELSE [line \in {"some", "full"} |->
                Averages(parsed[line], IF line = "full" THEN "fullUnsupported" ELSE "absent")]

BuildPressure(files) == [resource \in {"cpu", "memory", "io"} |-> BuildPressureRecord(files[resource])]

-----------------------------------------------------------------------------
(* Thermal sensors                                                         *)

(* milliToCelsius; the model keeps the millidegrees.                       *)
MilliToCelsius(raw) == IF raw = Null THEN Missing("unread") ELSE Derived(raw)

(* looksLikePackage: one of the two texts the driver publishes is a name   *)
(* the kernel gives package sensors.                                       *)
LooksLikePackage(texts, PackageNames) == texts \cap PackageNames # {}

(* discoverTripPoints: one point per type file, with what of it reads.     *)
DiscoverTripPoints(zone) ==
    [i \in DOMAIN zone.trips |->
        [type |-> TextMetric(zone.trips[i].type),
         temperature |-> MilliToCelsius(ReadUintFile(zone.trips[i].temp)),
         device |-> TextMetric(zone.trips[i].device)]]

Sensor(name, raw, isPackage, max, crit, sourceClass) ==
    [name |-> name, raw |-> MetricOrUnavailable(raw, "unread"), celsius |-> MilliToCelsius(raw),
     isPackage |-> isPackage, max |-> MilliToCelsius(max), crit |-> MilliToCelsius(crit),
     sourceClass |-> sourceClass]

(* A zone is listed whether or not its temperature reads.                  *)
ZoneSensor(zone, PackageNames) ==
    LET type == ReadTextFile(zone.type)
    IN  Sensor(IF type.ok THEN type.text ELSE zone.entry, ReadUintFile(zone.temp),
               type.ok /\ LooksLikePackage({type.text}, PackageNames), ReadUintFile(zone.max), Null,
               "thermal_zone")

(* A hwmon input is listed only when it read; it is read again for its     *)
(* value.                                                                  *)
HwmonSensors(hwmon) == {i \in DOMAIN hwmon.inputs : ReadUintFile(hwmon.inputs[i].input) # Null}

HwmonSensor(hwmon, i, PackageNames) ==
    LET input == hwmon.inputs[i]
        label == ReadTextFile(input.label)
        name  == ReadTextFile(hwmon.name)
        texts == {t.text : t \in {x \in {label, name} : x.ok}} \ {""}
    IN  Sensor(IF label.ok /\ label.text # "" THEN label.text ELSE input.prefix, ReadUintFile(input.input),
               LooksLikePackage(texts, PackageNames), ReadUintFile(input.max), ReadUintFile(input.crit),
               "hwmon")

(* Only a sensor with a reading takes part in the maximum.                 *)
Readable(sensors) == {i \in DOMAIN sensors : HasValue(sensors[i].celsius)}

Celsius(sensor) == IF HasValue(sensor.celsius) THEN sensor.celsius.value ELSE 0

(* The first of the hottest.                                               *)
Hottest(sensors) ==
    CHOOSE i \in Readable(sensors) :
        \A j \in Readable(sensors) :
            \/ Celsius(sensors[j]) < Celsius(sensors[i])
            \/ Celsius(sensors[j]) = Celsius(sensors[i]) /\ i <= j

PackageSensors(sensors) == {i \in Readable(sensors) : sensors[i].isPackage}

FirstPackage(sensors) == CHOOSE i \in PackageSensors(sensors) : \A j \in PackageSensors(sensors) : i <= j

Summarise(sensors, tripPoints) ==
    LET top == sensors[Hottest(sensors)]
        package == sensors[FirstPackage(sensors)]
        none == IF sensors = <<>> THEN "absent" ELSE "noneReadable"
        unnamed == IF sensors = <<>> THEN "absent" ELSE "noPackage"
    IN  [sensors |-> sensors, tripPoints |-> tripPoints,
         highestCelsius |-> IF Readable(sensors) = {} THEN Missing(none) ELSE Derived(Celsius(top)),
         highestSensor  |-> IF Readable(sensors) = {} THEN Missing(none) ELSE Observed(top.name),
         packageCelsius |-> IF PackageSensors(sensors) = {} THEN Missing(unnamed)
                            ELSE Observed(package.celsius.value),
         packageSensor  |-> IF PackageSensors(sensors) = {} THEN Missing("noPackage")
                            ELSE Observed(package.name),
         availability   |-> Observed(IF sensors = <<>> THEN "UNAVAILABLE" ELSE "AVAILABLE")]

(* The zones in the order of their names, then the inputs of the hwmon     *)
(* devices.  A class that cannot be listed contributes nothing.            *)
DiscoverThermal(zones, hwmon, PackageNames) ==
    LET listed == IF zones.ok THEN zones.text ELSE <<>>
        inputs == IF hwmon.ok THEN HwmonSensors(hwmon.text) ELSE {}
        zoneSensors == [i \in DOMAIN listed |-> ZoneSensor(listed[i], PackageNames)]
        Nth(n) == CHOOSE i \in inputs : Cardinality({j \in inputs : j < i}) = n - 1
    IN  Summarise(zoneSensors \o [n \in 1..Cardinality(inputs) |-> HwmonSensor(hwmon.text, Nth(n), PackageNames)],
                  [i \in DOMAIN listed |-> DiscoverTripPoints(listed[i])])

-----------------------------------------------------------------------------
(* Frequency policies                                                      *)

BooleanText(file) ==
    LET result == ReadTextFile(file)
    IN  CASE ~result.ok -> Missing(result.failure)
          [] result.ok /\ result.text \in {"1", "y", "yes", "true"}  -> Observed(TRUE)
          [] result.ok /\ result.text \in {"0", "n", "no", "false"}  -> Observed(FALSE)
          [] OTHER -> Missing("unrecognised")

ReadPolicy(policy) ==
    [affectedCpus |-> TextMetric(policy.affectedCpus),
     reported  |-> MetricOrUnavailable(ReadUintFile(policy.cur), "unread"),
     requested |-> MetricOrUnavailable(ReadUintFile(policy.scaling), "unread"),
     governor  |-> TextMetric(policy.governor),
     boost     |-> BooleanText(policy.boost)]

(* Every policy once: the directories that can be listed, and those a      *)
(* core's link names beyond them.  A frequency is never a measured one.    *)
DiscoverFrequency(dirs, links, policies) ==
    LET names == (IF dirs.ok THEN dirs.text ELSE {}) \cup Range(links)
    IN  [policies |-> [name \in names |-> ReadPolicy(policies[name])],
         measured |-> Missing("notMeasured"),
         availability |-> Observed(IF names = {} THEN "UNAVAILABLE" ELSE "AVAILABLE")]

-----------------------------------------------------------------------------
(* File systems and the identity of the host                               *)

FsSizes == {"total", "used", "free", "available", "percent", "files", "ffree"}

(* statfs of one mount point, and its line in the mount table if that      *)
(* reads and names it.                                                     *)
FilesystemOf(mount, mountInfo) ==
    LET stats == ReadTextFile(mount.statfs)
        s     == stats.text
        entry == IF mountInfo.ok /\ mount.point \in DOMAIN mountInfo.text
                 THEN Observed(mountInfo.text[mount.point]) ELSE Missing("notListed")
    IN  IF ~stats.ok
        THEN [device |-> Missing(stats.failure), sizes |-> [z \in FsSizes |-> Missing(stats.failure)]]
        ELSE [device |-> entry,
              sizes |-> [z \in FsSizes |->
                  CASE z = "total"     -> Observed(s.blocks * s.bsize)
                    [] z = "used"      -> Derived((s.blocks - s.bfree) * s.bsize)
                    [] z = "free"      -> Observed(s.bfree * s.bsize)
                    [] z = "available" -> Observed(s.bavail * s.bsize)
                    [] z = "percent"   -> Derived(IF s.blocks = 0 THEN <<0, 1>>
                                                  ELSE <<100 * (s.blocks - s.bfree), s.blocks>>)
                    [] z = "files"     -> Observed(s.files)
                    [] z = "ffree"     -> Observed(s.ffree)]]

BuildFilesystems(mounts, table) ==
    [m \in DOMAIN mounts |-> FilesystemOf(mounts[m], ReadTextFile(table))]

(* The number of processors: /proc/cpuinfo, else the lines of /proc/stat.  *)
LogicalCpus(cpuinfo, stat) ==
    LET info  == ReadTextFile(cpuinfo)
        lines == ReadTextFile(stat)
    IN  IF info.ok /\ info.text > 0 THEN info.text
        ELSE IF lines.ok /\ DOMAIN lines.text.cores # {} THEN Cardinality(DOMAIN lines.text.cores)
        ELSE Null

(* buildIdentity, and what it notes as an error of the collection.         *)
BuildIdentity(bootId, cpuinfo, stat, meminfo) ==
    [bootId      |-> MetricOrUnavailable(bootId, "noBootId"),
     logicalCpus |-> MetricOrUnavailable(LogicalCpus(cpuinfo, stat), "noCpuCount"),
     totalMemory |-> TotalMemory(meminfo)]

IdentityErrors(identity) ==
    {part \in {"logicalCpus", "totalMemory"} : ~HasValue(identity[part])}

=============================================================================
