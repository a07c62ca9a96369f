-------------------------- MODULE HostObservation ---------------------------
(***************************************************************************)
(* The host and the two parts of the gateway that read it: HostCollector,  *)
(* which takes a snapshot of the whole machine, and the TelemetrySampler   *)
(* of one tracked process.  The kernel goes on between two collections,    *)
(* and processes come and go between two reads of one of them.             *)
(*                                                                         *)
(* In one behaviour one part of the machine moves, the focus; the others   *)
(* stand still and are collected all the same.                             *)
(***************************************************************************)
EXTENDS HostCounters, HostSensors, HostProcesses
S == INSTANCE ProcessSampling

CONSTANTS
    MaxClock,     \* bound: ticks of the clock
    MaxWork,      \* bound: events of the devices and processes
    MaxBirths,    \* bound: processes started
    MaxCollects,  \* bound: collections
    Pids,         \* the PIDs processes have
    MaxSampled,   \* CADENCE.maxSampledProcesses
    Tolerance     \* IDENTITY_START_TOLERANCE_MS, in ticks

VARIABLES
    focus,        \* the part of the machine that moves
    clock,        \* the time, in ticks of the kernel and of the gateway
    work,         \* counts events
    host,         \* the counters of /proc/stat, diskstats and net/dev
    gauges,       \* the files of the last collection that are not counters
    table,        \* the processes, by PID
    births,       \* counts processes started; the start ticks of the last
    owned,        \* identities the execution registry holds
    base,         \* the collector's baselines
    scan,         \* the collection in progress, or Nothing
    sequence,     \* HostCollector.sequence
    snap,         \* the last snapshot
    readings,     \* what the focused counters were whenever they were read
    tracked,      \* the sampler's state for the tracked PID, or Nothing
    half,         \* the stat file of a sample whose other files are unread
    samples       \* what the sampler emitted, with what it read

kernel    == <<host, table, births, owned>>
collector == <<gauges, base, scan, sequence, snap, readings>>
sampler   == <<tracked, half, samples>>
vars      == <<focus, clock, work, kernel, collector, sampler>>

Engine == 1      \* the PID of the gateway's engine; it is there all along
Target == 2      \* the PID the engine reports as started
BootId == 7

ASSUME PidsAssumption == Pids \subseteq Nat /\ {Engine, Target} \subseteq Pids

Foci == {"cpu", "disk", "net", "gauges", "thermal", "processes", "sampler"}

-----------------------------------------------------------------------------
(* The machine                                                             *)

Disk0   == [readsCompleted |-> 0, writesCompleted |-> 0, sectorsRead |-> 0, sectorsWritten |-> 0,
            ioMillis |-> 0, inFlight |-> 0, pseudo |-> FALSE, plugged |-> 1]
Net0    == [f \in NetFields |-> 0]

Process(start, ppid, foreign) ==
    [start |-> start, ppid |-> ppid, cpu |-> 0, io |-> 0, foreign |-> foreign]

(* The files of a process: those of another user keep io to themselves.    *)
StatFileOf(pid) ==
    IF table[pid] = Nothing THEN NoFile("ENOENT")
    ELSE File([pid |-> pid, ppid |-> table[pid].ppid, cpu |-> table[pid].cpu, start |-> table[pid].start,
               state |-> "S", minflt |-> 0, majflt |-> 0, threads |-> 1,
               minorFaults |-> 0, majorFaults |-> 0])

RestOf(pid) ==
    IF table[pid] = Nothing
    THEN [status |-> NoFile("ENOENT"), io |-> NoFile("ENOENT"), schedstat |-> NoFile("ENOENT")]
    ELSE [status |-> File([Pid |-> pid, PPid |-> table[pid].ppid, Uid |-> 0, VmRSS |-> table[pid].start]),
          io |-> IF table[pid].foreign THEN NoFile("EACCES")
                 ELSE File([read_bytes |-> table[pid].io, rcharBytes |-> table[pid].io]),
          schedstat |-> NoFile("ENOENT")]

(* The time passes; each core spends the tick in one of four ways.  Guest  *)
(* time is user time too.                                                  *)
Spend(times, way) ==
    [times EXCEPT ![IF way = "guest" THEN "user" ELSE way] = @ + 1,
                  !["guest"] = IF way = "guest" THEN @ + 1 ELSE @]

Advance ==
    /\ clock < MaxClock
    /\ focus \in {"disk", "net", "processes", "sampler"} /\ scan = Nothing
    /\ clock' = clock + 1
    /\ UNCHANGED <<focus, work, kernel, collector, sampler>>

AdvanceCores(ways) ==
    /\ focus = "cpu" /\ clock < MaxClock /\ scan = Nothing
    /\ clock' = clock + 1
    /\ host' = [host EXCEPT
            !.cores = [c \in DOMAIN @ |-> Spend(@[c], ways[c])],
            !.total = IF 2 \in DOMAIN host.cores THEN Spend(Spend(@, ways[1]), ways[2]) ELSE Spend(@, ways[1])]
    /\ UNCHANGED <<focus, work, table, births, owned, collector, sampler>>

Event(what) ==
    /\ focus = what /\ work < MaxWork /\ scan = Nothing
    /\ work' = work + 1

(* The second core goes away.                                              *)
Unplug ==
    /\ Event("cpu")
    /\ 2 \in DOMAIN host.cores
    /\ host' = [host EXCEPT !.cores = [c \in {1} |-> @[c]]]
    /\ UNCHANGED <<focus, clock, table, births, owned, collector, sampler>>

(* The disk serves a request, or is pulled out and another one put in.     *)
DiskWorks(bytes) ==
    /\ Event("disk")
    /\ host' = [host EXCEPT !.disk["sda"].readsCompleted = @ + 1,
                            !.disk["sda"].sectorsRead = @ + bytes,
                            !.disk["sda"].ioMillis = @ + 1]
    /\ UNCHANGED <<focus, clock, table, births, owned, collector, sampler>>

DiskReplaced ==
    /\ Event("disk")
    /\ host' = [host EXCEPT !.disk["sda"] = [Disk0 EXCEPT !.plugged = host.disk["sda"].plugged + 1]]
    /\ UNCHANGED <<focus, clock, table, births, owned, collector, sampler>>

NetWorks ==
    /\ Event("net")
    /\ host' = [host EXCEPT !.net["eth0"]["rxBytes"] = @ + 1]
    /\ UNCHANGED <<focus, clock, table, births, owned, collector, sampler>>

(* Processes start, work and end at any time, also between two reads.      *)
(* The gateway's engine starts some of them, other users the rest.         *)
Fork(pid, ppid) ==
    /\ focus = "processes" \/ (focus = "sampler" /\ pid = Target)
    /\ births < MaxBirths
    /\ table[pid] = Nothing
    /\ births' = births + 1
    /\ table' = [table EXCEPT ![pid] = Process(clock, ppid, ppid # Engine)]
    /\ owned' = IF ppid = Engine THEN owned \cup {IdentityKey(pid, clock, BootId)} ELSE owned
    /\ clock' = clock + 1    \* no two processes have the same PID and start
    /\ clock < MaxClock
    /\ UNCHANGED <<focus, work, host, collector, sampler>>

Work(pid) ==
    /\ focus \in {"processes", "sampler"} /\ work < MaxWork
    /\ pid # Engine /\ table[pid] # Nothing
    /\ work' = work + 1
    /\ table' = [table EXCEPT ![pid].cpu = @ + 1, ![pid].io = @ + 1]
    /\ UNCHANGED <<focus, clock, host, births, owned, collector, sampler>>

(* A process ends and is reaped.                                           *)
End(pid) ==
    /\ focus \in {"processes", "sampler"}
    /\ pid # Engine /\ table[pid] # Nothing /\ work < MaxWork
    /\ work' = work + 1
    /\ table' = [table EXCEPT ![pid] = Nothing]
    /\ UNCHANGED <<focus, clock, host, births, owned, collector, sampler>>

-----------------------------------------------------------------------------
(* What the gauge files can hold.                                          *)

Meminfo(keys, total, free) == File([k \in keys |-> IF k \in {"MemTotal", "SwapTotal"} THEN total ELSE free])

MemFiles ==
    {NoFile("EACCES"), Meminfo({"MemTotal", "SwapTotal", "SwapFree"}, 0, 0)}
        \cup {Meminfo(keys, 2, free) :
                keys \in SUBSET {"MemTotal", "MemAvailable", "MemFree", "SwapTotal", "SwapFree"},
                free \in {0, 1}}

PressureFiles ==
    {NoFile("ENOENT"), File([some |-> <<>>, full |-> <<>>]),
     File([some |-> [avg10 |-> 1, avg60 |-> Garbage], full |-> <<>>])}

LoadFiles == {NoFile("EIO")} \cup {File([f \in LoadFields |-> n]) : n \in {Garbage, 1}}

CpuinfoFiles == {NoFile("ENOENT"), File(0), File(2)}

StatfsFiles ==
    {NoFile("ENOENT"), File([blocks |-> 0, bfree |-> 0, bavail |-> 0, bsize |-> 1, files |-> 0, ffree |-> 0]),
     File([blocks |-> 4, bfree |-> 2, bavail |-> 1, bsize |-> 1, files |-> 2, ffree |-> 1])}

Temperatures == {NoFile("EIO"), File(Garbage), File(1), File(2)}

Zone(type, temp) ==
    [entry |-> "thermal_zone0", type |-> type, temp |-> temp, max |-> NoFile("ENOENT"),
     trips |-> <<[type |-> File("critical"), temp |-> temp, device |-> NoFile("ENOENT")]>>]

ZoneLists ==
    {Failed("missing"), Text(<<>>)}
        \cup {Text(<<Zone(type, temp)>>) : type \in {NoFile("ENOENT"), File("x86_pkg_temp"), File("acpitz")},
                                           temp \in Temperatures}

Labels == {NoFile("ENOENT"), File(""), File("Tctl")}

Input(prefix, temp, label) ==
    [prefix |-> prefix, input |-> temp, label |-> label, max |-> NoFile("ENOENT"), crit |-> File(3)]

Hwmon(name, label, one, two) ==
    [name |-> File(name), inputs |-> <<Input("temp1", one, label), Input("temp2", two, label)>>]

HwmonLists ==
    {Failed("missing")}
        \cup {Text(Hwmon(name, label, one, two)) :
                name \in {"coretemp", "nvme"}, label \in Labels, one \in Temperatures, two \in Temperatures}

PackageNames == {"x86_pkg_temp", "coretemp"}

Policy == [affectedCpus |-> File("0"), cur |-> NoFile("EACCES"), scaling |-> File(2),
           governor |-> File(""), boost |-> File("1")]

Gauges0 ==
    [mem |-> Meminfo({"MemTotal", "MemAvailable", "SwapTotal", "SwapFree"}, 1, 1),
     pressure |-> NoFile("ENOENT"), load |-> File([f \in LoadFields |-> 1]), cpuinfo |-> File(1),
     statfs |-> NoFile("ENOENT"), zones |-> Text(<<>>), hwmon |-> Failed("missing")]

WithLevels(mem, load, cpuinfo) == [Gauges0 EXCEPT !.mem = mem, !.load = load, !.cpuinfo = cpuinfo]
WithSpace(pressure, statfs)    == [Gauges0 EXCEPT !.pressure = pressure, !.statfs = statfs]
WithSensors(zones, hwmon)      == [Gauges0 EXCEPT !.zones = zones, !.hwmon = hwmon]

GaugeFiles ==
    CASE focus = "gauges" ->
            {WithLevels(m, l, c) : m \in MemFiles, l \in LoadFiles, c \in CpuinfoFiles}
                \cup {WithSpace(p, s) : p \in PressureFiles, s \in StatfsFiles}
      [] focus = "thermal" -> {WithSensors(z, h) : z \in ZoneLists, h \in HwmonLists}
      [] OTHER -> {Gauges0}

-----------------------------------------------------------------------------
(* One collection                                                          *)

StatText == [total |-> [i \in 1..10 |-> host.total[CpuFieldOrder[i]]],
             cores |-> [c \in DOMAIN host.cores |-> [i \in 1..10 |-> host.cores[c][CpuFieldOrder[i]]]],
             extras |-> [processes |-> births, btime |-> Garbage]]

CounterFile(part, errno, content) ==
    IF focus = part /\ errno # "0" THEN NoFile(errno) ELSE File(content)

StatFile(errno)      == CounterFile("cpu", errno, StatText)
DiskstatsFile(errno) == CounterFile("disk", errno, host.disk)
NetDevFile(errno)    == CounterFile("net", errno, host.net)

Links == [i \in {"eth0"} |-> [operstate |-> File("up"), speed |-> NoFile("EINVAL"), mtu |-> File(1500)]]

(* The listing of /proc, in the order of the PIDs.                         *)
Listed == Seqs!SetToSortSeq({p \in Pids : table[p] # Nothing}, <)

(* The focused counters as they are, for the properties.                   *)
Truth == [at |-> clock, host |-> host]

(* collect: everything but the processes is read first; then /proc is      *)
(* listed, in the order of the PIDs.  errno is the fate of the counter     *)
(* file in focus.                                                          *)
BeginCollect(errno, files) ==
    LET cpu  == BuildCpuSnapshot(StatFile(errno), base.cpu, BootId, clock)
        disk == BuildDiskSnapshot(DiskstatsFile(errno), base.disk, clock)
        net  == BuildNetworkSnapshot(NetDevFile(errno), Links, base.net, clock)
        id   == BuildIdentity(BootId, files.cpuinfo, StatFile(errno), files.mem)
        cpus == IF HasValue(id.logicalCpus) THEN id.logicalCpus.value ELSE Null
    IN  /\ scan = Nothing /\ sequence < MaxCollects
        /\ focus # "sampler"
        /\ focus \in {"gauges", "thermal"} => sequence = 0   \* nothing is kept for the next
        /\ focus = "processes" => sequence <= 1              \* counters are kept for one more
        /\ errno # "0" => focus \in {"cpu", "disk", "net"}
        /\ sequence' = sequence + 1
        /\ gauges' = files
        /\ base' = [base EXCEPT !.cpu = cpu.previous, !.disk = disk.previous, !.net = net.previous]
        /\ scan' = [at |-> clock, left |-> Listed, began |-> table, stat |-> Nothing,
                    found |-> Discovery(Listed), errors |-> IdentityErrors(id),
                    parts |-> [cpu |-> cpu.snapshot, disk |-> disk.snapshot, net |-> net.snapshot,
                               identity |-> id, memory |-> BuildMemorySnapshot(files.mem),
                               load |-> BuildLoadSnapshot(files.load, cpus),
                               pressure |-> BuildPressure([r \in {"cpu", "memory", "io"} |-> files.pressure]),
                               filesystems |-> BuildFilesystems(<<[point |-> "/", statfs |-> files.statfs]>>,
                                                                NoFile("EACCES")),
                               thermal |-> DiscoverThermal(files.zones, files.hwmon, PackageNames),
                               frequency |-> DiscoverFrequency(Text({"policy0"}), <<"policy0">>,
                                                               [p \in {"policy0"} |-> Policy])]]
        /\ readings' = IF errno = "0" /\ focus \in {"cpu", "disk", "net"}
                       THEN Append(readings, Truth) ELSE readings
        /\ UNCHANGED <<focus, clock, work, kernel, snap, sampler>>

ReadStat ==
    /\ scan # Nothing /\ scan.left # <<>> /\ scan.stat = Nothing
    /\ scan' = [scan EXCEPT !.stat = StatFileOf(Head(scan.left))]
    /\ UNCHANGED <<focus, clock, work, kernel, gauges, base, sequence, snap, readings, sampler>>

ReadRest ==
    LET pid == Head(scan.left)
        result == ReadHostProcess(pid, scan.stat, RestOf(pid), 1, BootId, base.proc.identities,
                                  scan.at - base.proc.at)
    IN  /\ scan # Nothing /\ scan.left # <<>> /\ scan.stat # Nothing
        /\ scan' = [scan EXCEPT !.stat = Nothing, !.left = Tail(scan.left),
                                !.found = Discovered(@, result, MaxSampled)]
        /\ UNCHANGED <<focus, clock, work, kernel, gauges, base, sequence, snap, readings, sampler>>

(* Ownership, parents and the summary, then the health of the collector.   *)
EndCollect ==
    LET rows == AnnotateRelationships(scan.found.rows, owned)
    IN  /\ scan # Nothing /\ scan.left = <<>>
        /\ base' = [base EXCEPT !.proc = [identities |-> scan.found.next, at |-> scan.at]]
        /\ snap' = [parts |-> scan.parts, rows |-> rows, began |-> scan.began, ended |-> table,
                    summary |-> ProcessSummary(rows, births),
                    health |-> [discovered |-> scan.found.discovered, sampled |-> scan.found.sampled,
                                pssSkipped |-> scan.found.pssSkipped, errors |-> scan.errors]]
        /\ scan' = Nothing
        /\ UNCHANGED <<focus, clock, work, kernel, gauges, sequence, readings, sampler>>

-----------------------------------------------------------------------------
(* The sampler of the PID the engine reported as started.                  *)
KernelClock == [ticks |-> 1, uptime |-> clock, btime |-> 0]

(* start: a PID that is being sampled already is left alone.               *)
Track ==
    /\ focus = "sampler" /\ tracked = Nothing /\ samples = <<>>
    /\ table[Target] # Nothing /\ table[Target].ppid = Engine
    /\ tracked' = [sampling |-> S!Fresh, target |-> [engine |-> Engine, startedAt |-> table[Target].start]]
    /\ UNCHANGED <<focus, clock, work, kernel, collector, half, samples>>

SampleStat ==
    /\ tracked # Nothing /\ half = Nothing /\ Len(samples) < MaxCollects
    /\ half' = [file |-> StatFileOf(Target), process |-> table[Target], at |-> clock]
    /\ UNCHANGED <<focus, clock, work, kernel, collector, tracked, samples>>

SampleRest ==
    LET collected == S!ReadProcessSnapshot(Target, half.file, RestOf(Target), KernelClock, half.at)
        s == S!Sampled(tracked.sampling, tracked.target, collected, half.at, Tolerance)
    IN  /\ tracked # Nothing /\ half # Nothing
        /\ samples' = Append(samples, [snapshot |-> s.emitted, rejected |-> s.rejected, at |-> half.at,
                                       stat |-> half.process, rest |-> table[Target]])
        /\ tracked' = IF s.next = Nothing THEN Nothing ELSE [tracked EXCEPT !.sampling = s.next]
        /\ half' = Nothing
        /\ UNCHANGED <<focus, clock, work, kernel, collector>>

(* stop: the execution ended.                                              *)
Untrack ==
    /\ tracked # Nothing /\ half = Nothing
    /\ tracked' = Nothing
    /\ UNCHANGED <<focus, clock, work, kernel, collector, half, samples>>

-----------------------------------------------------------------------------
Init ==
    /\ focus \in Foci
    /\ clock = 1 /\ work = 0
    /\ host = [total |-> ZeroTimes, cores |-> [c \in 1..2 |-> ZeroTimes],
               disk |-> [d \in {"sda"} |-> Disk0], net |-> [i \in {"eth0"} |-> Net0]]
    /\ gauges = Gauges0
    /\ table = [p \in Pids |-> IF p = Engine THEN Process(0, 0, FALSE) ELSE Nothing]
    /\ births = 0
    /\ owned = {}
    /\ base = [cpu |-> Nothing, disk |-> Nothing, net |-> Nothing,
               proc |-> [identities |-> <<>>, at |-> clock]]
    /\ scan = Nothing /\ sequence = 0 /\ snap = Nothing /\ readings = <<>>
    /\ tracked = Nothing /\ half = Nothing /\ samples = <<>>

Next ==
    \/ Advance
    \/ \E one \in {"user", "guest", "iowait"}, two \in {"user", "idle"} : AdvanceCores(<<one, two>>)
    \/ Unplug
    \/ \E bytes \in {0, 1} : DiskWorks(bytes)
    \/ DiskReplaced \/ NetWorks
    \/ \E pid \in Pids, ppid \in {0, Engine} : Fork(pid, ppid)
    \/ \E pid \in Pids : Work(pid) \/ End(pid)
    \/ \E errno \in {"0", "EACCES"}, files \in GaugeFiles : BeginCollect(errno, files)
    \/ ReadStat \/ ReadRest \/ EndCollect
    \/ Track \/ SampleStat \/ SampleRest \/ Untrack

Spec == Init /\ [][Next]_vars

=============================================================================
