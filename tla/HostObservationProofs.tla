----------------------- MODULE HostObservationProofs ------------------------
(***************************************************************************)
(* What the host model promises for every number of processes, ticks and   *)
(* collections.                                                            *)
(***************************************************************************)
EXTENDS HostObservationProperties, SequenceTheorems, FiniteSetTheorems, TLAPS

(* No two processes with the same PID start at the same time.              *)
Processes == [start : Nat, ppid : Nat, cpu : Nat, io : Nat, foreign : BOOLEAN]

MachineOK ==
    /\ clock \in Nat \ {0}
    /\ table = [p \in Pids |-> table[p]]
    /\ \A p \in Pids : table[p] # Nothing => table[p] \in Processes /\ table[p].start < clock

LEMMA MachineSound == Spec => []MachineOK
<1>1. Init => MachineOK
  <2> SUFFICES ASSUME Init PROVE MachineOK
    OBVIOUS
  <2> DEFINE first == Process(0, 0, FALSE)
  <2>1. first \in Processes /\ first.start = 0
    BY DEF Process, Processes
  <2>2. clock = 1 /\ table = [p \in Pids |-> IF p = Engine THEN first ELSE Nothing]
    BY Zenon DEF Init
  <2> HIDE DEF first
  <2>3. clock \in Nat \ {0} /\ table = [p \in Pids |-> table[p]]
    BY <2>2
  <2>4. \A p \in Pids : table[p] # Nothing => table[p] = first
    BY <2>2
  <2>5. \A p \in Pids : table[p] # Nothing => table[p] \in Processes /\ table[p].start < clock
    BY <2>1, <2>2, <2>4
  <2> QED
    BY <2>3, <2>5 DEF MachineOK
<1>2. MachineOK /\ [Next]_vars => MachineOK'
  <2> SUFFICES ASSUME MachineOK, [Next]_vars PROVE MachineOK'
    OBVIOUS
  <2>1. CASE Advance
    BY <2>1 DEF Advance, MachineOK, kernel, Processes
  <2>2. CASE \E ways : AdvanceCores(ways)
    BY <2>2 DEF AdvanceCores, MachineOK, kernel, Processes
  <2>3. ASSUME NEW pid \in Pids, NEW ppid \in {0, Engine}, Fork(pid, ppid) PROVE MachineOK'
    <3>1. /\ clock' = clock + 1
          /\ table' = [table EXCEPT ![pid] = Process(clock, ppid, ppid # Engine)]
      BY <2>3 DEF Fork
    <3>2. /\ Process(clock, ppid, ppid # Engine) \in Processes
          /\ Process(clock, ppid, ppid # Engine).start = clock
      BY DEF Process, Processes, MachineOK, Engine
    <3>3. \A p \in Pids : table'[p] = IF p = pid THEN Process(clock, ppid, ppid # Engine) ELSE table[p]
      BY <3>1 DEF MachineOK
    <3>4. table' = [p \in Pids |-> table'[p]]
      BY <3>1 DEF MachineOK
    <3>5. ASSUME NEW p \in Pids, table'[p] # Nothing PROVE table'[p] \in Processes /\ table'[p].start < clock'
      BY <3>1, <3>2, <3>3, <3>5 DEF MachineOK, Processes
    <3> QED
      BY <3>1, <3>4, <3>5 DEF MachineOK
  <2>4. ASSUME NEW pid \in Pids, Work(pid) PROVE MachineOK'
    <3>1. /\ clock' = clock /\ table[pid] \in Processes
          /\ table' = [table EXCEPT ![pid].cpu = @ + 1, ![pid].io = @ + 1]
      BY <2>4 DEF Work, MachineOK
    <3>2. \A p \in Pids : p # pid => table'[p] = table[p]
      BY <3>1 DEF MachineOK
    <3>3. table'[pid] \in Processes /\ table'[pid].start = table[pid].start
      BY <3>1 DEF MachineOK, Processes
    <3>4. table' = [p \in Pids |-> table'[p]]
      BY <3>1 DEF MachineOK
    <3> QED
      BY <3>1, <3>2, <3>3, <3>4, <2>4 DEF MachineOK, Work
  <2>5. ASSUME NEW pid \in Pids, End(pid) PROVE MachineOK'
    BY <2>5 DEF End, MachineOK
  <2>6. CASE UNCHANGED <<clock, table>>
    BY <2>6 DEF MachineOK
  <2> QED
    BY <2>1, <2>2, <2>3, <2>4, <2>5, <2>6
       DEF Next, vars, kernel, Unplug, DiskWorks, DiskReplaced, NetWorks, BeginCollect, ReadStat, ReadRest,
           EndCollect, Track, SampleStat, SampleRest, Untrack, Event
<1> QED
  BY <1>1, <1>2, PTL DEF Spec

-----------------------------------------------------------------------------
(* The tracked process                                                     *)

(* What the stat file of process p says when the sampler reads it.         *)
StatOf(p) ==
    [pid |-> Target, ppid |-> p.ppid, cpu |-> p.cpu, start |-> p.start, state |-> "S", minflt |-> 0,
     majflt |-> 0, threads |-> 1, minorFaults |-> 0, majorFaults |-> 0]

SamplePoint(p, t) == t \in Nat \ {0} /\ t <= clock /\ (p # Nothing => p \in Processes /\ p.start < clock)

HalfOK ==
    half # Nothing =>
        /\ tracked # Nothing /\ SamplePoint(half.process, half.at)
        /\ half.file = IF half.process = Nothing THEN NoFile("ENOENT") ELSE File(StatOf(half.process))

(* An accepted sample is of the process whose stat file was read, with its *)
(* CPU time; its parent was checked.                                       *)
Genuine(s) ==
    Accepted(s) =>
        /\ s.stat # Nothing
        /\ s.snapshot = [fields |-> s.snapshot.fields, rates |-> s.snapshot.rates, start |-> s.snapshot.start]
        /\ s.snapshot.start = s.stat.start
        /\ s.snapshot.fields["cpuTimeMs"] = Derived(<<1000 * s.stat.cpu, 1>>)
        /\ Whole(s) => s.rest.ppid = Engine

(* q is not the same process at an earlier time.                           *)
NotBefore(p, q) == q # Nothing /\ q.start = p.start => q.cpu >= p.cpu

Last == samples[Len(samples)]

(* What the sampler holds is its last sample, while it goes on.            *)
Holding ==
    tracked # Nothing =>
        /\ tracked.target.engine = Engine
        /\ samples = <<>> => tracked.sampling = S!Fresh
        /\ samples # <<>> =>
              /\ Accepted(Last)
              /\ tracked.sampling = [identity |-> Last.snapshot.start, last |-> Last.snapshot, at |-> Last.at]
              /\ NotBefore(Last.stat, table[Target])
              /\ half # Nothing => NotBefore(Last.stat, half.process)

HalfBefore == half # Nothing /\ half.process # Nothing => NotBefore(half.process, table[Target])

OneProcess ==
    \A i, j \in DOMAIN samples :
        Accepted(samples[i]) /\ Accepted(samples[j]) => samples[i].snapshot.start = samples[j].snapshot.start

RatesOwn ==
    \A i \in DOMAIN samples :
        i > 1 /\ Accepted(samples[i]) /\ samples[i].at > samples[i - 1].at =>
            IsRate(samples[i].snapshot.rates["cpuPercent"],
                   samples[i].stat.cpu - samples[i - 1].stat.cpu, 100000, samples[i].at - samples[i - 1].at)

SamplerInv ==
    /\ \E Any : samples \in Seq(Any)
    /\ HalfOK /\ Holding /\ HalfBefore
    /\ \A i \in DOMAIN samples : SamplePoint(samples[i].stat, samples[i].at) /\ Genuine(samples[i])
    /\ \A i \in DOMAIN samples : i < Len(samples) => Accepted(samples[i])
    /\ OneProcess /\ RatesOwn

(* The sampler attaches the engine's PID to what was collected.            *)
LEMMA Attached ==
  ASSUME NEW f, NEW r, NEW st, NEW v
  PROVE  [[fields |-> f, rates |-> r, start |-> st] EXCEPT !.fields["capsEnginePid"] = v]
            = [fields |-> [f EXCEPT !["capsEnginePid"] = v], rates |-> r, start |-> st]
  OBVIOUS

(* An accepted first or later sample, as the sampler emits and keeps it.   *)
LEMMA SampledOf ==
  ASSUME NEW f, f = [k \in S!SnapshotKeys |-> f[k]], NEW r, NEW st, NEW sampling, NEW target, NEW now, NEW tolerance,
         NEW s, s = S!Sampled(sampling, target, [fields |-> f, rates |-> r, start |-> st], now, tolerance),
         target.engine = 1
  PROVE  /\ s.rejected \in BOOLEAN
         /\ s.rejected => s.next = <<>>
         /\ ~s.rejected =>
              LET prior == IF sampling.at = -1 THEN 0 ELSE now - sampling.at
                  fields == [f EXCEPT !["capsEnginePid"] = S!Observed(1)]
              IN  /\ s.emitted = S!DeriveRates([fields |-> fields, rates |-> r, start |-> st], sampling.last, prior)
                  /\ st # -1 => /\ f["ppid"].value = 1
                                /\ sampling.identity \in {-2, st}
                  /\ s.emitted.start = -1 => s.next = <<>>
                  /\ s.emitted.start # -1 =>
                       s.next = [identity |-> IF sampling.identity = -2 THEN st ELSE sampling.identity,
                                 last |-> s.emitted, at |-> now]
<1> DEFINE snapshot == [fields |-> [f EXCEPT !["capsEnginePid"] = S!Observed(1)], rates |-> r, start |-> st]
           why == S!Rejection(sampling, target, snapshot, tolerance)
           prior == IF sampling.at = -1 THEN 0 ELSE now - sampling.at
           final == IF why # "none" THEN S!MarkUnavailable(snapshot, why)
                    ELSE S!DeriveRates(snapshot, sampling.last, prior)
<1> DEFINE raw == [[fields |-> f, rates |-> r, start |-> st] EXCEPT !.fields["capsEnginePid"] =
                       IF target.engine = S!Null THEN S!Missing("noEngine") ELSE S!Observed(target.engine)]
<1>a. raw = snapshot
  BY Attached DEF S!Null
<1> DEFINE whyRaw == S!Rejection(sampling, target, raw, tolerance)
           priorRaw == IF sampling.at = S!Null THEN 0 ELSE now - sampling.at
           finalRaw == IF whyRaw # "none" THEN S!MarkUnavailable(raw, whyRaw)
                       ELSE S!DeriveRates(raw, sampling.last, priorRaw)
<1>b. s = [emitted |-> finalRaw, rejected |-> whyRaw # "none",
           next |-> IF whyRaw # "none" \/ finalRaw.start = S!Null THEN S!Nothing
                    ELSE [identity |-> IF sampling.identity = S!Unset THEN raw.start ELSE sampling.identity,
                          last |-> finalRaw, at |-> now]]
  BY Zenon DEF S!Sampled
<1>c. whyRaw = why /\ finalRaw = final /\ raw.start = st
  BY <1>a DEF S!Null
<1>1. s = [emitted |-> final, rejected |-> why # "none",
           next |-> IF why # "none" \/ final.start = -1 THEN <<>>
                    ELSE [identity |-> IF sampling.identity = -2 THEN st ELSE sampling.identity,
                          last |-> final, at |-> now]]
  <2> HIDE DEF whyRaw, why, finalRaw, final, raw, snapshot
  <2> QED
    BY <1>b, <1>c DEF S!Null, S!Nothing, S!Unset
<1>2. snapshot.start = st /\ snapshot.fields["ppid"] = f["ppid"]
  BY DEF S!SnapshotKeys, S!GatewayKeys
<1>3. why = "none" /\ st # -1 => f["ppid"].value = 1 /\ sampling.identity \in {-2, st}
  BY <1>2 DEF S!Rejection, S!Null, S!Unset
<1> HIDE DEF why, final, prior, snapshot
<1>4. /\ s.emitted = final /\ s.rejected = (why # "none")
      /\ s.next = IF why # "none" \/ final.start = -1 THEN <<>>
                  ELSE [identity |-> IF sampling.identity = -2 THEN st ELSE sampling.identity,
                        last |-> final, at |-> now]
  BY <1>1
<1>5. CASE why = "none"
  <2>1. final = S!DeriveRates(snapshot, sampling.last, prior)
    BY <1>5 DEF final
  <2> QED
    BY <1>3, <1>4, <1>5, <2>1 DEF prior, snapshot
<1>6. CASE why # "none"
  BY <1>4, <1>6
<1> QED
  BY <1>5, <1>6

LEMMA RatesDerived ==
  ASSUME NEW g, NEW r, NEW st, NEW previous, NEW wall \in Int,
         NEW d, d = S!DeriveRates([fields |-> g, rates |-> r, start |-> st], previous, wall)
  PROVE  /\ d = [fields |-> g, rates |-> d.rates, start |-> st]
         /\ previous # <<>> /\ wall > 0 =>
               d.rates["cpuPercent"] =
                   S!DeriveCpuPercent([fields |-> g, rates |-> r, start |-> st], previous, wall)
<1> DEFINE c == [fields |-> g, rates |-> r, start |-> st]
           own == [k \in S!RateKeys |-> IF k = "cpuPercent" THEN S!DeriveCpuPercent(c, previous, wall)
                                        ELSE S!DeriveRate(c.fields[k], previous.fields[k], wall)]
<1>1. \A q : [c EXCEPT !.rates = q] = [fields |-> g, rates |-> q, start |-> st]
  OBVIOUS
<1>2. d = IF previous = S!Nothing \/ wall <= 0 THEN [c EXCEPT !.rates = S!NoRates(S!FirstSample)]
          ELSE [c EXCEPT !.rates = own]
  BY Zenon DEF S!DeriveRates
<1>3. own["cpuPercent"] = S!DeriveCpuPercent(c, previous, wall)
  BY DEF S!RateKeys
<1> HIDE DEF own
<1>4. CASE previous = <<>> \/ wall <= 0
  <2>1. d = [c EXCEPT !.rates = S!NoRates(S!FirstSample)]
    BY <1>2, <1>4 DEF S!Nothing
  <2>2. d = [fields |-> g, rates |-> S!NoRates(S!FirstSample), start |-> st]
    BY <1>1, <2>1
  <2> QED
    BY <2>2, <1>4
<1>5. CASE previous # <<>> /\ ~(wall <= 0)
  <2>1. d = [c EXCEPT !.rates = own]
    BY <1>2, <1>5 DEF S!Nothing
  <2>2. d = [fields |-> g, rates |-> own, start |-> st]
    BY <1>1, <2>1
  <2> QED
    BY <2>2, <1>3
<1> QED
  BY <1>4, <1>5

LEMMA RateIsOwn ==
  ASSUME NEW g, NEW r, NEW st, NEW previous, NEW wall \in Nat, wall > 0, previous # <<>>,
         NEW a \in Nat, NEW b \in Nat, b <= a,
         g["cpuTimeMs"] = Derived(<<1000 * a, 1>>), previous.fields["cpuTimeMs"] = Derived(<<1000 * b, 1>>),
         NEW d, d = S!DeriveRates([fields |-> g, rates |-> r, start |-> st], previous, wall)
  PROVE  IsRate(d.rates["cpuPercent"], a - b, 100000, wall)
<1> DEFINE m == S!DeriveCpuPercent([fields |-> g, rates |-> r, start |-> st], previous, wall)
<1>1. d.rates["cpuPercent"] = m
  BY RatesDerived
<1>2. /\ g["cpuTimeMs"].provenance = "DERIVED" /\ g["cpuTimeMs"].value = <<1000 * a, 1>>
      /\ previous.fields["cpuTimeMs"].provenance = "DERIVED" /\ previous.fields["cpuTimeMs"].value = <<1000 * b, 1>>
  BY DEF Derived
<1>3. m = S!Derived(<<100 * (1000 * a - 1000 * b), 1 * wall>>)
  BY <1>2 DEF S!DeriveCpuPercent, S!HasValue
<1>4. HasValue(m) /\ m.value = <<100 * (1000 * a - 1000 * b), 1 * wall>>
  BY <1>3 DEF S!Derived, HasValue
<1>5. 1 * wall = wall /\ 100 * (1000 * a - 1000 * b) = (a - b) * 100000
  OBVIOUS
<1>6. m.value[1] = (a - b) * 100000 /\ m.value[2] = wall
  BY <1>4, <1>5
<1> HIDE DEF m
<1> QED
  BY <1>1, <1>4, <1>6 DEF IsRate, Same

LEMMA StatAccepted ==
  ASSUME HalfOK, half # Nothing, NEW stat, stat = S!AcceptedStat(Target, half.file)
  PROVE  stat.ok => half.process # Nothing /\ stat.text = StatOf(half.process)
<1>1. CASE half.process = Nothing
  <2>1. half.file.errno = "ENOENT"
    BY <1>1 DEF HalfOK, NoFile
  <2>2. ~S!ReadTextFile(half.file).ok
    BY <2>1 DEF S!ReadTextFile, S!Failed
  <2> QED
    BY <2>2 DEF S!AcceptedStat, S!Failed
<1>2. CASE half.process # Nothing
  <2> DEFINE text == StatOf(half.process)
  <2>1. half.file.errno = "0" /\ half.file.content = text
    BY <1>2 DEF HalfOK, File
  <2> HIDE DEF text
  <2>2. S!ReadTextFile(half.file) = S!Text(text)
    BY <2>1 DEF S!ReadTextFile
  <2>3. S!ReadTextFile(half.file).ok /\ S!ReadTextFile(half.file).text = text
    BY <2>2 DEF S!Text
  <2>4. S!ParseStat(text) # S!Nothing => S!ParseStat(text) = text
    BY DEF S!ParseStat
  <2>5. stat = S!Failed("malformed") \/ stat = S!Text(text)
    BY <2>3, <2>4 DEF S!AcceptedStat
  <2>6. ~S!Failed("malformed").ok /\ S!Text(text).text = text
    BY DEF S!Failed, S!Text
  <2> QED
    BY <1>2, <2>5, <2>6 DEF text
<1> QED
  BY <1>1, <1>2

LEMMA ParentRead ==
  ASSUME MachineOK, table[Target] # Nothing, NEW stat,
         NEW status, status = S!ReadTextFile(RestOf(Target).status)
  PROVE  status.ok /\ S!ParentOf(stat, status.text) = table[Target].ppid
<1> DEFINE text == [Pid |-> Target, PPid |-> table[Target].ppid, Uid |-> 0, VmRSS |-> table[Target].start]
<1>1. RestOf(Target).status = File(text)
  BY DEF RestOf
<1>2. status.ok /\ status.text = text
  BY <1>1 DEF File, S!ReadTextFile, S!Text
<1>3. table[Target].ppid \in Nat
  BY PidsAssumption DEF MachineOK, Processes
<1>4. S!Uint(text, "Pid") = 2 /\ S!Uint(text, "PPid") = table[Target].ppid
  BY <1>3 DEF S!Uint, S!ParseUint, S!Unsigned, Target
<1> HIDE DEF text
<1> QED
  BY <1>2, <1>3, <1>4 DEF S!ParentOf, S!Null

LEMMA ReadingOf ==
  ASSUME MachineOK, HalfOK, half # Nothing,
         NEW c, c = S!ReadProcessSnapshot(Target, half.file, RestOf(Target), KernelClock, half.at)
  PROVE  /\ c = [fields |-> c.fields, rates |-> c.rates, start |-> c.start]
         /\ c.fields = [k \in S!SnapshotKeys |-> c.fields[k]]
         /\ c.start # -1 =>
               /\ half.process # Nothing /\ c.start = half.process.start
               /\ c.fields["cpuTimeMs"] = Derived(<<1000 * half.process.cpu, 1>>)
               /\ table[Target] # Nothing => c.fields["ppid"].value = table[Target].ppid
<1> DEFINE stat    == S!AcceptedStat(Target, half.file)
           s       == stat.text
           statusR == S!ReadTextFile(RestOf(Target).status)
           ioR     == S!ReadTextFile(RestOf(Target).io)
           status  == IF statusR.ok THEN statusR.text ELSE <<>>
           io      == IF ioR.ok THEN ioR.text ELSE <<>>
           threads == S!Uint(status, "Threads")
           Why(read) == IF read.ok THEN "absent" ELSE read.failure
           none    == [k \in S!SnapshotKeys |-> IF k = "pid" THEN S!Observed(Target) ELSE S!Missing(stat.failure)]
           Entry(k) == CASE k = "ppid"          -> S!Observed(S!ParentOf(s, status))
                   [] k = "threadCount"   -> S!Observed(IF threads = S!Null THEN s["threads"] ELSE threads)
                   [] k \in S!StatKeys      -> S!Observed(s[k])
                   [] k = "startTime"     -> S!DerivedMetric(S!StartTime(s, KernelClock, half.at))
                   [] k = "elapsedMs"     -> S!DerivedMetric(S!Elapsed(s, KernelClock))
                   [] k = "cpuTimeMs"     -> S!CpuTime(s, KernelClock.ticks)
                   [] k \in S!StatusKeys    -> S!MetricOrUnavailable(S!Uint(status, k), Why(statusR))
                   [] k \in S!IoKeys        -> S!MetricOrUnavailable(S!Uint(io, k), Why(ioR))
                   [] k = "capsEnginePid" -> S!Missing("gateway")
           whole   == [k \in S!SnapshotKeys |-> Entry(k)]
<1>1. c = IF ~stat.ok THEN [fields |-> none, rates |-> S!NoRates(stat.failure), start |-> S!Null]
          ELSE [fields |-> whole, rates |-> S!NoRates(S!FirstSample), start |-> s["start"]]
  BY Zenon DEF S!ReadProcessSnapshot, S!Nothing
<1>2. CASE ~stat.ok
  <2>1. c = [fields |-> none, rates |-> S!NoRates(stat.failure), start |-> -1]
    BY <1>1, <1>2 DEF S!Null
  <2> QED
    BY <2>1
<1>3. CASE stat.ok
  <2>1. half.process # Nothing /\ s = StatOf(half.process)
    BY <1>3, StatAccepted
  <2>2. c = [fields |-> whole, rates |-> S!NoRates(S!FirstSample), start |-> s["start"]]
    BY <1>1, <1>3
  <2>3. s["start"] = half.process.start /\ s["cpu"] = half.process.cpu
    BY <2>1 DEF StatOf
  <2>4. whole["cpuTimeMs"] = S!CpuTime(s, KernelClock.ticks) /\ whole["ppid"] = S!Observed(S!ParentOf(s, status))
    BY DEF S!SnapshotKeys, S!DerivedKeys, S!StatKeys, S!StatusKeys, S!IoKeys, S!GatewayKeys
  <2>5. S!CpuTime(s, KernelClock.ticks) = Derived(<<1000 * half.process.cpu, 1>>)
    BY <2>3 DEF S!CpuTime, KernelClock, S!Null, S!Derived, Derived
  <2>6. table[Target] # Nothing => S!Observed(S!ParentOf(s, status)).value = table[Target].ppid
    BY ParentRead DEF S!Observed
  <2> HIDE DEF Entry
  <2>7. whole = [k \in S!SnapshotKeys |-> whole[k]]
    OBVIOUS
  <2> HIDE DEF whole, s
  <2> QED
    BY <2>1, <2>2, <2>3, <2>4, <2>5, <2>6, <2>7
<1> QED
  BY <1>2, <1>3

LEMMA SnapshotIsSomething ==
  ASSUME NEW a, NEW b, NEW c
  PROVE  [fields |-> a, rates |-> b, start |-> c] # <<>>
  OBVIOUS

LEMMA NewSample ==
  ASSUME MachineOK, SamplerInv, tracked # Nothing, half # Nothing,
         NEW c, c = S!ReadProcessSnapshot(Target, half.file, RestOf(Target), KernelClock, half.at),
         NEW s, s = S!Sampled(tracked.sampling, tracked.target, c, half.at, Tolerance),
         NEW e, e = [snapshot |-> s.emitted, rejected |-> s.rejected, at |-> half.at,
                     stat |-> half.process, rest |-> table[Target]]
  PROVE  /\ SamplePoint(e.stat, e.at) /\ Genuine(e)
         /\ ~Accepted(e) => s.next = <<>>
         /\ Accepted(e) => s.next = [identity |-> e.snapshot.start, last |-> e.snapshot, at |-> e.at]
         /\ Accepted(e) /\ samples # <<>> =>
               /\ e.snapshot.start = Last.snapshot.start
               /\ e.at > Last.at =>
                     IsRate(e.snapshot.rates["cpuPercent"], e.stat.cpu - Last.stat.cpu, 100000, e.at - Last.at)
<1> DEFINE sampling == tracked.sampling
           g     == [c.fields EXCEPT !["capsEnginePid"] = S!Observed(1)]
           prior == IF sampling.at = -1 THEN 0 ELSE half.at - sampling.at
           p     == half.process
<1>1. HalfOK /\ Holding /\ SamplePoint(p, half.at) /\ tracked.target.engine = 1
  BY DEF SamplerInv, HalfOK, Holding, Engine
<1>2. e.snapshot = s.emitted /\ e.rejected = s.rejected /\ e.at = half.at /\ e.stat = p /\ e.rest = table[Target]
  OBVIOUS
<1>3. /\ c = [fields |-> c.fields, rates |-> c.rates, start |-> c.start]
      /\ c.fields = [k \in S!SnapshotKeys |-> c.fields[k]]
      /\ c.start # -1 =>
            /\ p # Nothing /\ c.start = p.start
            /\ c.fields["cpuTimeMs"] = Derived(<<1000 * p.cpu, 1>>)
            /\ table[Target] # Nothing => c.fields["ppid"].value = table[Target].ppid
  BY <1>1, ReadingOf
<1>4. s = S!Sampled(sampling, tracked.target, [fields |-> c.fields, rates |-> c.rates, start |-> c.start],
                    half.at, Tolerance)
  BY <1>3
<1>5. /\ s.rejected \in BOOLEAN
      /\ s.rejected => s.next = <<>>
      /\ ~s.rejected =>
           /\ s.emitted = S!DeriveRates([fields |-> g, rates |-> c.rates, start |-> c.start], sampling.last, prior)
           /\ c.start # -1 => c.fields["ppid"].value = 1 /\ sampling.identity \in {-2, c.start}
           /\ s.emitted.start = -1 => s.next = <<>>
           /\ s.emitted.start # -1 =>
                s.next = [identity |-> IF sampling.identity = -2 THEN c.start ELSE sampling.identity,
                          last |-> s.emitted, at |-> half.at]
  BY <1>1, <1>3, <1>4, SampledOf
<1> HIDE DEF sampling, g, prior, p
<1>6. CASE ~Accepted(e)
  BY <1>1, <1>2, <1>5, <1>6 DEF Accepted, Genuine, Null
<1>7. CASE Accepted(e)
  <2>1. ~s.rejected /\ s.emitted.start # -1
    BY <1>2, <1>5, <1>7 DEF Accepted, Null
  <2>a. half.at \in Nat \ {0}
    BY <1>1 DEF SamplePoint
  <2>2. prior \in Int
    <3>1. CASE samples = <<>>
      BY <1>1, <3>1 DEF Holding, S!Fresh, S!Null, prior, sampling
    <3>2. CASE samples # <<>>
      <4>0. sampling = [identity |-> Last.snapshot.start, last |-> Last.snapshot, at |-> Last.at]
        BY <1>1, <3>2 DEF Holding, sampling
      <4>a. Len(samples) \in DOMAIN samples
        BY <3>2 DEF SamplerInv
      <4>1. sampling.at = Last.at /\ Len(samples) \in DOMAIN samples
        BY <4>0, <4>a
      <4>2. Last.at \in Nat \ {0}
        BY <4>1 DEF SamplerInv, SamplePoint, Last
      <4> QED
        BY <2>a, <4>1, <4>2 DEF prior
    <3> QED
      BY <3>1, <3>2
  <2>3. /\ s.emitted = [fields |-> g, rates |-> s.emitted.rates, start |-> c.start]
        /\ s.emitted = S!DeriveRates([fields |-> g, rates |-> c.rates, start |-> c.start], sampling.last, prior)
    BY <1>5, <2>1, <2>2, RatesDerived
  <2>4. s.emitted.start = c.start /\ c.start # -1 /\ s.emitted.fields = g
    BY <2>1, <2>3
  <2>5. g["cpuTimeMs"] = Derived(<<1000 * p.cpu, 1>>) /\ g["ppid"] = c.fields["ppid"]
    BY <1>3, <2>4 DEF g, S!SnapshotKeys, S!DerivedKeys
  <2>6. Genuine(e)
    <3>1. p # Nothing /\ e.snapshot.start = p.start /\ e.snapshot.fields["cpuTimeMs"] = Derived(<<1000 * p.cpu, 1>>)
      BY <1>2, <1>3, <2>4, <2>5
    <3>2. Whole(e) => e.rest.ppid = Engine
      BY <1>2, <1>3, <1>5, <2>1, <2>4 DEF Whole, Engine
    <3>3. e.snapshot = [fields |-> e.snapshot.fields, rates |-> e.snapshot.rates, start |-> e.snapshot.start]
      BY <1>2, <2>3
    <3> QED
      BY <1>2, <3>1, <3>2, <3>3 DEF Genuine
  <2>7. s.next = [identity |-> e.snapshot.start, last |-> e.snapshot, at |-> e.at]
    BY <1>2, <1>5, <2>1, <2>4
  <2>8. ASSUME samples # <<>>
        PROVE  /\ e.snapshot.start = Last.snapshot.start
               /\ e.at > Last.at =>
                     IsRate(e.snapshot.rates["cpuPercent"], e.stat.cpu - Last.stat.cpu, 100000, e.at - Last.at)
    <3>1. Len(samples) \in DOMAIN samples
      BY <2>8 DEF SamplerInv
    <3>2. /\ sampling = [identity |-> Last.snapshot.start, last |-> Last.snapshot, at |-> Last.at]
          /\ Accepted(Last) /\ NotBefore(Last.stat, p)
      BY <1>1, <2>8 DEF Holding, sampling, p
    <3>3. Genuine(Last) /\ SamplePoint(Last.stat, Last.at)
      BY <3>1 DEF SamplerInv, Last
    <3>4. /\ Last.stat \in Processes /\ p \in Processes /\ Last.snapshot.start = Last.stat.start
          /\ Last.snapshot.fields["cpuTimeMs"] = Derived(<<1000 * Last.stat.cpu, 1>>)
      BY <1>1, <1>3, <2>4, <3>2, <3>3 DEF Genuine, SamplePoint
    <3>5. Last.snapshot.start = c.start
      BY <1>5, <2>1, <2>4, <3>2, <3>4 DEF Processes
    <3>6. Last.stat.cpu \in Nat /\ p.cpu \in Nat /\ Last.stat.cpu <= p.cpu
      BY <1>3, <2>4, <3>2, <3>4, <3>5 DEF Processes, NotBefore
    <3>7. Last.snapshot # <<>>
      BY <3>2, <3>3, SnapshotIsSomething DEF Genuine
    <3>8. ASSUME e.at > Last.at
          PROVE  IsRate(e.snapshot.rates["cpuPercent"], e.stat.cpu - Last.stat.cpu, 100000, e.at - Last.at)
      <4>0. sampling.at = Last.at /\ Last.at \in Nat \ {0} /\ half.at > Last.at
        BY <1>2, <3>2, <3>3, <3>8 DEF SamplePoint
      <4>1. prior = half.at - Last.at /\ prior \in Nat /\ prior > 0
        BY <2>a, <4>0 DEF prior
      <4>2. s.emitted = S!DeriveRates([fields |-> g, rates |-> c.rates, start |-> c.start], Last.snapshot, prior)
        BY <2>3, <3>2
      <4>3. IsRate(s.emitted.rates["cpuPercent"], p.cpu - Last.stat.cpu, 100000, prior)
        <5> DEFINE d == s.emitted
                   a == p.cpu
                   b == Last.stat.cpu
                   last == Last.snapshot
        <5>1. a \in Nat /\ b \in Nat /\ b <= a /\ last # <<>>
          BY <3>6, <3>7
        <5>2. g["cpuTimeMs"] = Derived(<<1000 * a, 1>>) /\ last.fields["cpuTimeMs"] = Derived(<<1000 * b, 1>>)
          BY <2>5, <3>4
        <5>3. d = S!DeriveRates([fields |-> g, rates |-> c.rates, start |-> c.start], last, prior)
          BY <4>2
        <5> HIDE DEF a, b, d, last
        <5>4. IsRate(d.rates["cpuPercent"], a - b, 100000, prior)
          BY <4>1, <5>1, <5>2, <5>3, RateIsOwn
        <5> QED
          BY <5>4 DEF a, b, d
      <4> QED
        BY <1>2, <4>1, <4>3
    <3> QED
      BY <1>2, <2>4, <3>5, <3>8
  <2>9. SamplePoint(e.stat, e.at)
    BY <1>1, <1>2
  <2> QED
    BY <2>6, <2>7, <2>8, <2>9, <1>7
<1> QED
  BY <1>6, <1>7

(* What goes on elsewhere: processes start, work and end, time passes.     *)
LEMMA ElsewhereSampler ==
  ASSUME MachineOK, SamplerInv, UNCHANGED sampler, clock' \in Nat, clock <= clock',
         \A p \in Processes : p.start < clock /\ NotBefore(p, table[Target]) => NotBefore(p, table'[Target])
  PROVE  SamplerInv'
<1> USE DEF sampler
<1>1. \A p, t : SamplePoint(p, t) => SamplePoint(p, t)'
  BY DEF SamplePoint, MachineOK, Processes
<1>2. HalfOK'
  BY <1>1 DEF SamplerInv, HalfOK
<1>3. \A i \in DOMAIN samples : SamplePoint(samples[i].stat, samples[i].at) /\ Genuine(samples[i])
  BY DEF SamplerInv
<1>4. \A i \in DOMAIN samples' : (SamplePoint(samples[i].stat, samples[i].at) /\ Genuine(samples[i]))'
  BY <1>1, <1>3 DEF Genuine, Accepted, Whole
<1>5. Holding'
  <2> SUFFICES ASSUME tracked # Nothing, samples # <<>> PROVE NotBefore(Last.stat, table'[Target])
    BY DEF Holding, SamplerInv, Last, NotBefore
  <2>1. Len(samples) \in DOMAIN samples
    BY DEF SamplerInv
  <2>2. Last.stat \in Processes /\ Last.stat.start < clock
    BY <1>3, <2>1 DEF Last, Genuine, SamplePoint, SamplerInv, Holding
  <2> QED
    BY <2>2 DEF SamplerInv, Holding
<1>6. HalfBefore'
  <2> SUFFICES ASSUME half # Nothing, half.process # Nothing PROVE NotBefore(half.process, table'[Target])
    BY DEF HalfBefore
  <2>1. half.process \in Processes /\ half.process.start < clock
    BY DEF SamplerInv, HalfOK, SamplePoint
  <2> QED
    BY <2>1 DEF SamplerInv, HalfBefore
<1>7. (OneProcess /\ RatesOwn)'
  BY DEF SamplerInv, OneProcess, RatesOwn, Accepted, IsRate, HasValue, Same
<1> QED
  BY <1>2, <1>4, <1>5, <1>6, <1>7 DEF SamplerInv, Accepted

LEMMA SampleStatSampler ==
  ASSUME MachineOK, SamplerInv, SampleStat PROVE SamplerInv'
<1>1. /\ half' = [file |-> StatFileOf(Target), process |-> table[Target], at |-> clock]
      /\ tracked # Nothing /\ tracked' = tracked /\ samples' = samples /\ clock' = clock /\ table' = table
  BY DEF SampleStat, kernel
<1>2. half'.process = table[Target] /\ half'.at = clock /\ half'.file = StatFileOf(Target)
  BY <1>1
<1>3. SamplePoint(table[Target], clock)
  BY PidsAssumption DEF MachineOK, SamplePoint
<1>4. \A p, t : SamplePoint(p, t)' <=> SamplePoint(p, t)
  BY <1>1 DEF SamplePoint
<1>5. HalfOK'
  BY <1>1, <1>2, <1>3, <1>4 DEF HalfOK, StatFileOf, StatOf
<1>6. Holding'
  BY <1>1, <1>2 DEF SamplerInv, Holding, Last, NotBefore
<1>7. HalfBefore'
  BY <1>1, <1>2, <1>3 DEF HalfBefore, NotBefore, SamplePoint, Processes
<1>8. \A i \in DOMAIN samples' : (SamplePoint(samples[i].stat, samples[i].at) /\ Genuine(samples[i]))'
  BY <1>1, <1>4 DEF SamplerInv, Genuine, Accepted, Whole
<1>9. (OneProcess /\ RatesOwn)'
  BY <1>1 DEF SamplerInv, OneProcess, RatesOwn, Accepted, IsRate, HasValue, Same
<1> QED
  BY <1>1, <1>5, <1>6, <1>7, <1>8, <1>9 DEF SamplerInv, Accepted

LEMMA SampleRestSampler ==
  ASSUME MachineOK, SamplerInv, SampleRest PROVE SamplerInv'
<1> DEFINE c == S!ReadProcessSnapshot(Target, half.file, RestOf(Target), KernelClock, half.at)
           s == S!Sampled(tracked.sampling, tracked.target, c, half.at, Tolerance)
           e == [snapshot |-> s.emitted, rejected |-> s.rejected, at |-> half.at,
                 stat |-> half.process, rest |-> table[Target]]
           n == Len(samples)
<1>1. /\ tracked # Nothing /\ half # Nothing /\ samples' = Append(samples, e) /\ half' = Nothing
      /\ tracked' = IF s.next = Nothing THEN Nothing ELSE [tracked EXCEPT !.sampling = s.next]
      /\ clock' = clock /\ table' = table
  BY Zenon DEF SampleRest, kernel
<1>2. /\ SamplePoint(e.stat, e.at) /\ Genuine(e)
      /\ ~Accepted(e) => s.next = <<>>
      /\ Accepted(e) => s.next = [identity |-> e.snapshot.start, last |-> e.snapshot, at |-> e.at]
      /\ Accepted(e) /\ samples # <<>> =>
            /\ e.snapshot.start = Last.snapshot.start
            /\ e.at > Last.at =>
                  IsRate(e.snapshot.rates["cpuPercent"], e.stat.cpu - Last.stat.cpu, 100000, e.at - Last.at)
  BY <1>1, NewSample
<1>a. e.stat = half.process /\ e.rest = table[Target] /\ e.at = half.at
  OBVIOUS
<1> HIDE DEF s, e
<1>3. /\ n \in Nat /\ Len(samples') = n + 1 /\ DOMAIN samples' = 1..(n + 1) /\ DOMAIN samples = 1..n
      /\ \A i \in 1..n : samples'[i] = samples[i]
      /\ samples'[n + 1] = e
      /\ \E Any : samples' \in Seq(Any)
  <2>1. PICK Any : samples \in Seq(Any)
    BY DEF SamplerInv
  <2>2. samples \in Seq(Any \cup {e})
    BY <2>1
  <2> QED
    BY <1>1, <2>2
<1> HIDE DEF n
<1>4. \A i \in 1..n : Accepted(samples[i])
  BY <1>1, <1>3 DEF SamplerInv, Holding, Last, n
<1>5. HalfOK' /\ HalfBefore'
  BY <1>1 DEF HalfOK, HalfBefore
<1>6. Accepted(e) => NotBefore(e.stat, table[Target])
  BY <1>1, <1>2, <1>a DEF Genuine, SamplerInv, HalfBefore
<1>7. Last' = e
  BY <1>3 DEF Last
<1>8. Holding'
  <2> SUFFICES ASSUME tracked' # Nothing PROVE Holding'
    BY DEF Holding
  <2>1. s.next # Nothing /\ tracked' = [tracked EXCEPT !.sampling = s.next]
    BY <1>1
  <2>2. Accepted(e)
    BY <1>2, <2>1 DEF Nothing
  <2>3. samples' # <<>>
    BY <1>3
  <2>4. tracked'.sampling = s.next /\ tracked'.target = tracked.target
    BY <2>1
  <2> QED
    BY <1>1, <1>2, <1>6, <1>7, <2>2, <2>3, <2>4 DEF Holding, SamplerInv, NotBefore, Accepted
<1>9. \A i \in DOMAIN samples' : (SamplePoint(samples[i].stat, samples[i].at) /\ Genuine(samples[i]))'
  <2>1. \A i \in 1..n : SamplePoint(samples[i].stat, samples[i].at) /\ Genuine(samples[i])
    BY <1>3 DEF SamplerInv
  <2>2. \A i \in 1..(n + 1) : SamplePoint(samples'[i].stat, samples'[i].at) /\ Genuine(samples'[i])
    BY <1>2, <1>3, <2>1
  <2> QED
    BY <1>1, <1>3, <2>2 DEF SamplePoint, Genuine, Accepted, Whole
<1>10. OneProcess'
  <2>1. \A i, j \in 1..n : samples[i].snapshot.start = samples[j].snapshot.start
    BY <1>3, <1>4 DEF OneProcess, SamplerInv
  <2>2. ASSUME Accepted(e), NEW i \in 1..n PROVE samples[i].snapshot.start = e.snapshot.start
    <3>1. samples # <<>> /\ n \in 1..n /\ Last = samples[n]
      BY <1>3, <2>2 DEF Last, n
    <3> QED
      BY <1>2, <2>1, <2>2, <3>1
  <2>3. \A i, j \in 1..(n + 1) :
           Accepted(samples'[i]) /\ Accepted(samples'[j]) => samples'[i].snapshot.start = samples'[j].snapshot.start
    BY <1>3, <2>1, <2>2
  <2> QED
    BY <1>3, <2>3 DEF OneProcess, Accepted
<1>11. RatesOwn'
  <2> DEFINE Own(a, b) ==
               Accepted(a) /\ a.at > b.at =>
                   IsRate(a.snapshot.rates["cpuPercent"], a.stat.cpu - b.stat.cpu, 100000, a.at - b.at)
  <2>1. \A i \in 1..n : i > 1 => Own(samples[i], samples[i - 1])
    BY <1>3 DEF SamplerInv, RatesOwn
  <2>2. n >= 1 => Own(e, samples[n])
    BY <1>2, <1>3 DEF Last, n
  <2> HIDE DEF Own
  <2>3. \A i \in 1..(n + 1) : i > 1 => Own(samples'[i], samples'[i - 1])
    <3> SUFFICES ASSUME NEW i \in 1..(n + 1), i > 1 PROVE Own(samples'[i], samples'[i - 1])
      OBVIOUS
    <3>1. i - 1 \in 1..n /\ samples'[i - 1] = samples[i - 1]
      BY <1>3
    <3>2. CASE i = n + 1
      <4>1. i - 1 = n /\ n >= 1
        BY <1>3, <3>1, <3>2
      <4> QED
        BY <1>3, <2>2, <3>1, <3>2, <4>1
    <3>3. CASE i \in 1..n
      BY <1>3, <2>1, <3>1, <3>3
    <3> QED
      BY <1>3, <3>2, <3>3
  <2> QED
    BY <1>3, <2>3 DEF RatesOwn, Own, Accepted, IsRate, HasValue, Same
<1> QED
  BY <1>1, <1>3, <1>4, <1>5, <1>8, <1>9, <1>10, <1>11 DEF SamplerInv, Accepted

LEMMA TrackSampler ==
  ASSUME MachineOK, SamplerInv, Track PROVE SamplerInv'
<1>1. /\ tracked = Nothing /\ samples = <<>> /\ half' = half /\ samples' = samples /\ clock' = clock /\ table' = table
      /\ tracked' = [sampling |-> S!Fresh, target |-> [engine |-> Engine, startedAt |-> table[Target].start]]
  BY DEF Track, kernel
<1>2. half = Nothing
  BY <1>1 DEF SamplerInv, HalfOK
<1>3. HalfOK' /\ HalfBefore' /\ Holding'
  BY <1>1, <1>2 DEF HalfOK, HalfBefore, Holding
<1>4. \E Any : samples' \in Seq(Any)
  BY <1>1 DEF SamplerInv
<1>5. DOMAIN samples' = {}
  BY <1>1
<1>6. (OneProcess /\ RatesOwn)'
  BY <1>5 DEF OneProcess, RatesOwn
<1> QED
  BY <1>3, <1>4, <1>5, <1>6 DEF SamplerInv

LEMMA UntrackSampler ==
  ASSUME MachineOK, SamplerInv, Untrack PROVE SamplerInv'
<1>1. /\ half = Nothing /\ tracked' = Nothing /\ half' = half /\ samples' = samples /\ clock' = clock /\ table' = table
  BY DEF Untrack, kernel
<1>2. HalfOK' /\ HalfBefore' /\ Holding'
  BY <1>1 DEF HalfOK, HalfBefore, Holding
<1>3. \A i \in DOMAIN samples' : (SamplePoint(samples[i].stat, samples[i].at) /\ Genuine(samples[i]))'
  BY <1>1 DEF SamplerInv, SamplePoint, Genuine, Accepted, Whole
<1>4. (OneProcess /\ RatesOwn)'
  BY <1>1 DEF SamplerInv, OneProcess, RatesOwn, Accepted, IsRate, HasValue, Same
<1> QED
  BY <1>1, <1>2, <1>3, <1>4 DEF SamplerInv, Accepted

(* A number that is given away again goes to a process that starts later. *)
LEMMA KernelSampler ==
  ASSUME MachineOK, SamplerInv, UNCHANGED sampler, NEW pid \in Pids,
         (\E ppid \in {0, Engine} : Fork(pid, ppid)) \/ Work(pid) \/ End(pid)
  PROVE  SamplerInv'
<1>1. ASSUME NEW p \in Processes, p.start < clock, NotBefore(p, table[Target])
      PROVE  NotBefore(p, table'[Target])
  <2>1. CASE pid # Target
    <3>1. table'[Target] = table[Target]
      BY <2>1, PidsAssumption DEF Fork, Work, End, MachineOK
    <3> QED
      BY <1>1, <3>1
  <2>2. CASE pid = Target
    <3>1. ASSUME NEW ppid, Fork(pid, ppid) PROVE table'[Target].start = clock
      <4>1. table' = [table EXCEPT ![pid] = Process(clock, ppid, ppid # Engine)]
        BY <3>1 DEF Fork
      <4>2. Process(clock, ppid, ppid # Engine).start = clock
        BY DEF Process
      <4> QED
        BY <2>2, <4>1, <4>2, PidsAssumption DEF MachineOK
    <3>2. ASSUME Work(pid) PROVE NotBefore(p, table'[Target])
      <4>1. table[Target] \in Processes /\ NotBefore(p, table[Target]) /\ table[Target] # Nothing
        BY <1>1, <2>2, <3>2 DEF Work, MachineOK
      <4>2. table'[Target] = [table[Target] EXCEPT !.cpu = @ + 1, !.io = @ + 1]
        BY <2>2, <3>2 DEF Work, MachineOK
      <4>3. table'[Target].start = table[Target].start /\ table'[Target].cpu = table[Target].cpu + 1
        BY <4>1, <4>2 DEF Processes
      <4> QED
        BY <1>1, <4>1, <4>3 DEF NotBefore, Processes
    <3>3. ASSUME End(pid) PROVE table'[Target] = Nothing
      BY <2>2, <3>3 DEF End, MachineOK
    <3> QED
      BY <1>1, <3>1, <3>2, <3>3 DEF NotBefore, Processes, MachineOK
  <2> QED
    BY <2>1, <2>2
<1>2. clock' \in Nat /\ clock <= clock'
  BY DEF Fork, Work, End, MachineOK
<1> QED
  BY <1>1, <1>2, ElsewhereSampler

LEMMA SamplerSound == Spec => [](MachineOK /\ SamplerInv)
<1>1. Init => SamplerInv
  <2> SUFFICES ASSUME Init PROVE SamplerInv
    OBVIOUS
  <2>1. tracked = Nothing /\ half = Nothing /\ samples = <<>>
    BY Zenon DEF Init
  <2>2. samples \in Seq({}) /\ DOMAIN samples = {}
    BY <2>1
  <2> QED
    BY <2>1, <2>2 DEF SamplerInv, HalfOK, Holding, HalfBefore, OneProcess, RatesOwn
<1>2. MachineOK /\ SamplerInv /\ [Next]_vars => SamplerInv'
  <2> SUFFICES ASSUME MachineOK, SamplerInv, [Next]_vars PROVE SamplerInv'
    OBVIOUS
  <2>1. ASSUME UNCHANGED <<table, sampler>>, clock' \in {clock, clock + 1} PROVE SamplerInv'
    BY <2>1, ElsewhereSampler DEF MachineOK
  <2>2. CASE Advance \/ \E ways : AdvanceCores(ways)
    BY <2>1, <2>2, Zenon DEF Advance, AdvanceCores, kernel
  <2>3. CASE UNCHANGED <<clock, table, sampler>>
    BY <2>1, <2>3
  <2>4. ASSUME NEW pid \in Pids, NEW ppid \in {0, Engine}, Fork(pid, ppid) PROVE SamplerInv'
    BY <2>4, KernelSampler DEF Fork
  <2>5. ASSUME NEW pid \in Pids, Work(pid) \/ End(pid) PROVE SamplerInv'
    BY <2>5, KernelSampler DEF Work, End
  <2> QED
    BY <2>2, <2>3, <2>4, <2>5, TrackSampler, SampleStatSampler, SampleRestSampler, UntrackSampler
       DEF Next, vars, kernel, sampler, Unplug, DiskWorks, DiskReplaced, NetWorks, BeginCollect, ReadStat, ReadRest,
           EndCollect
<1> QED
  BY <1>1, <1>2, MachineSound, PTL DEF Spec

(* The samples of a tracked PID are of one child of the engine, with its   *)
(* own rates, whatever takes the PID and when (TelemetrySampler.sample and *)
(* verifyIdentity).                                                        *)
THEOREM SamplesAreOfTheChild == Spec => []OnlyTheChild
<1>1. SamplerInv => OnlyTheChild
  <2> SUFFICES ASSUME SamplerInv, NEW i \in DOMAIN samples
      PROVE  /\ samples[i].rejected => i = Len(samples)
             /\ Accepted(samples[i]) /\ Whole(samples[i]) => samples[i].rest.ppid = Engine
             /\ \A j \in 1..(i - 1) : Accepted(samples[i]) /\ Accepted(samples[j]) =>
                    samples[i].snapshot.start = samples[j].snapshot.start
             /\ i > 1 /\ Accepted(samples[i]) /\ samples[i].at > samples[i - 1].at =>
                    IsRate(samples[i].snapshot.rates["cpuPercent"],
                           samples[i].stat.cpu - samples[i - 1].stat.cpu, 100000, samples[i].at - samples[i - 1].at)
    BY DEF OnlyTheChild
  <2>1. i \in 1..Len(samples) /\ Len(samples) \in Nat /\ DOMAIN samples = 1..Len(samples)
    BY DEF SamplerInv
  <2>2. samples[i].rejected => i = Len(samples)
    BY <2>1 DEF SamplerInv, Accepted
  <2>3. Genuine(samples[i]) /\ OneProcess /\ RatesOwn
    BY DEF SamplerInv
  <2> QED
    BY <2>1, <2>2, <2>3 DEF Genuine, OneProcess, RatesOwn
<1> QED
  BY <1>1, SamplerSound, PTL

-----------------------------------------------------------------------------
(* The rates of the host                                                   *)

(* The counters the machine has: what the cores do not spend stays zero.   *)
DiskRecords ==
    [readsCompleted : Nat, writesCompleted : Nat, sectorsRead : Nat, sectorsWritten : Nat,
     ioMillis : Nat, inFlight : Nat, pseudo : {FALSE}, plugged : Nat]

Unused == {"nice", "system", "irq", "softirq", "steal"}
Times(t) == t \in [CpuFields -> Nat] /\ \A f \in Unused : t[f] = 0

HostShape(h) ==
    /\ h = [total |-> h.total, cores |-> h.cores, disk |-> h.disk, net |-> h.net]
    /\ Times(h.total)
    /\ DOMAIN h.cores \in {{1}, {1, 2}}
    /\ h.cores = [c \in DOMAIN h.cores |-> h.cores[c]]
    /\ \A c \in DOMAIN h.cores : Times(h.cores[c])
    /\ h.disk \in [{"sda"} -> DiskRecords]
    /\ h.net \in [{"eth0"} -> [NetFields -> Nat]]

(* The machine has gone on from the reading r: counters of the same part   *)
(* did not go back, and the cores spent the ticks that passed.             *)
CpuReached(r) ==
    /\ DOMAIN host.cores \subseteq DOMAIN r.host.cores
    /\ \A f \in CpuFields : r.host.total[f] <= host.total[f]
    /\ \A c \in DOMAIN host.cores :
          /\ \A f \in CpuFields : r.host.cores[c][f] <= host.cores[c][f]
          /\ SumTicks(host.cores[c]) - SumTicks(r.host.cores[c]) = clock - r.at
    /\ DOMAIN r.host.cores = DOMAIN host.cores =>
          SumTicks(host.total) - SumTicks(r.host.total) = (clock - r.at) * Cardinality(DOMAIN host.cores)

DiskReached(r) ==
    LET now == host.disk["sda"]  then == r.host.disk["sda"]
    IN  /\ then.plugged <= now.plugged
        /\ then.plugged = now.plugged => \A f \in DiskCounters : then[f] <= now[f]

NetReached(r) == \A f \in NetFields : r.host.net["eth0"][f] <= host.net["eth0"][f]

Reached(r) ==
    /\ r = [at |-> r.at, host |-> r.host] /\ r.at \in Nat /\ r.at <= clock /\ HostShape(r.host)
    /\ focus = "cpu" => CpuReached(r)
    /\ focus = "disk" => DiskReached(r)
    /\ focus = "net" => NetReached(r)

(* The baseline that is the reading r, with its time.                      *)
CpuBase(r)  == [times |-> r.host.total, cores |-> r.host.cores, atMs |-> r.at, bootId |-> BootId]
DiskBase(r) == [devices |-> [d \in {"sda"} |-> [f \in DiskCounters |-> r.host.disk[d][f]]], atMs |-> r.at]
NetBase(r)  == [interfaces |-> [i \in {"eth0"} |-> [f \in NetCounters |-> r.host.net[i][f]]], atMs |-> r.at]

BaseOK ==
    /\ base = [cpu |-> base.cpu, disk |-> base.disk, net |-> base.net, proc |-> base.proc]
    /\ focus = "cpu" /\ readings # <<>> => base.cpu = CpuBase(Latest)
    /\ focus = "disk" => IF readings # <<>> THEN base.disk = DiskBase(Latest)
                         ELSE base.disk # Nothing => base.disk.devices = <<>>
    /\ focus = "net" => IF readings # <<>> THEN base.net = NetBase(Latest)
                        ELSE base.net # Nothing => base.net.interfaces = <<>>

(* The rates of a collection, against the two last readings.               *)
Real(parts) ==
    /\ focus = "cpu"  => CpuRatesAreReal(parts)
    /\ focus = "disk" => DiskRatesAreReal(parts)
    /\ focus = "net"  => NetRatesAreReal(parts)

ScanShape ==
    scan = [at |-> scan.at, left |-> scan.left, began |-> scan.began, stat |-> scan.stat, found |-> scan.found,
            errors |-> scan.errors, parts |-> scan.parts]

RatesInv ==
    /\ HostShape(host) /\ BaseOK
    /\ \E Any : readings \in Seq(Any)
    /\ readings # <<>> => Reached(Latest)
    /\ scan # Nothing => ScanShape /\ Real(scan.parts)
    /\ Settled => Real(snap.parts)

(* One or two cores.                                                       *)
LEMMA CoreCount ==
  ASSUME NEW D \in {{1}, {1, 2}}
  PROVE  Cardinality(D) = IF 2 \in D THEN 2 ELSE 1
<1>1. Cardinality({1}) = 1 /\ IsFiniteSet({1})
  BY FS_Singleton
<1>2. Cardinality({1} \cup {2}) = IF 2 \in {1} THEN Cardinality({1}) ELSE Cardinality({1}) + 1
  BY <1>1, FS_AddElement
<1>3. {1} \cup {2} = {1, 2}
  OBVIOUS
<1> QED
  BY <1>1, <1>2, <1>3

(* Ticks add up to a number.                                               *)
LEMMA SumIsNat ==
  ASSUME NEW t, Times(t)
  PROVE  SumTicks(t) \in Nat
<1>1. CpuFields = {"user", "nice", "system", "idle", "iowait", "irq", "softirq", "steal", "guest", "guestNice"}
  BY DEF CpuFields, CpuFieldOrder
<1> QED
  BY <1>1 DEF Times, SumTicks

(* A line of counters is parsed as what it says.                           *)
LEMMA CpuLine ==
  ASSUME NEW t, t = [f \in CpuFields |-> t[f]], \A f \in CpuFields : t[f] \in Nat
  PROVE ParseCpuLine([i \in 1..10 |-> t[CpuFieldOrder[i]]]) = t
<1> DEFINE line == [i \in 1..10 |-> t[CpuFieldOrder[i]]]
           At(f) == CHOOSE i \in 1..10 : CpuFieldOrder[i] = f
<1>1. \A i \in 1..10 : CpuFieldOrder[i] \in CpuFields
  BY DEF CpuFields
<1>2. line \in Seq(Nat) /\ Len(line) = 10 /\ DOMAIN line = 1..10
  BY <1>1
<1>a. \A i \in 1..10 : line[i] \in Nat
  BY <1>1
<1> HIDE DEF line
<1>3. ~(Len(line) < 4 \/ \E i \in DOMAIN line : i <= 10 /\ ~Unsigned(line[i]))
  BY <1>a, <1>2 DEF Unsigned
<1>4. ParseCpuLine(line) = [f \in CpuFields |-> IF At(f) <= Len(line) THEN line[At(f)] ELSE 0]
  BY <1>3 DEF ParseCpuLine
<1>5. \A f \in CpuFields : At(f) \in 1..10 /\ CpuFieldOrder[At(f)] = f
  BY DEF CpuFields
<1> HIDE DEF At
<1>6. \A f \in CpuFields : (IF At(f) <= Len(line) THEN line[At(f)] ELSE 0) = t[f]
  BY <1>2, <1>5 DEF line
<1>7. ParseCpuLine(line) = t
  BY <1>4, <1>6
<1> QED
  BY <1>7 DEF line

LEMMA DiskText ==
  ASSUME NEW text, text = [d \in {"sda"} |-> text[d]],
         \A f \in DiskCounters \cup {"inFlight"} : Unsigned(text["sda"][f])
  PROVE  ParseDiskstats(text) = text
<1>1. {name \in DOMAIN text : \A f \in DiskCounters \cup {"inFlight"} : Unsigned(text[name][f])} = {"sda"}
  OBVIOUS
<1> QED
  BY <1>1 DEF ParseDiskstats

LEMMA NetText ==
  ASSUME NEW text, text = [d \in {"eth0"} |-> text[d]], \A f \in NetFields : Unsigned(text["eth0"][f])
  PROVE  ParseNetDev(text) = text
<1>1. {name \in DOMAIN text : \A f \in NetFields : Unsigned(text[name][f])} = {"eth0"}
  OBVIOUS
<1> QED
  BY <1>1 DEF ParseNetDev

(* What is read of a counter file: the counters as they are.               *)
LEMMA StatRead ==
  ASSUME HostShape(host)
  PROVE  /\ ReadProcStat(File(StatText)).ok
         /\ ReadProcStat(File(StatText)).sample = [total |-> host.total, cores |-> host.cores]
<1> DEFINE Line(t) == [i \in 1..10 |-> t[CpuFieldOrder[i]]]
           cores == [c \in DOMAIN StatText.cores |-> ParseCpuLine(StatText.cores[c])]
<1>1. \A t : Times(t) => t = [f \in CpuFields |-> t[f]] /\ (\A f \in CpuFields : t[f] \in Nat) /\ t # <<>>
  <2>1. "user" \in CpuFields
    BY DEF CpuFields, CpuFieldOrder
  <2>2. ASSUME NEW t \in [CpuFields -> Nat] PROVE t # <<>>
    BY <2>1
  <2> QED
    BY <2>2 DEF Times
<1>2. \A t : Times(t) => ParseCpuLine(Line(t)) = t
  BY <1>1, CpuLine
<1>3. /\ Times(host.total) /\ host.cores = [c \in DOMAIN host.cores |-> host.cores[c]]
      /\ \A c \in DOMAIN host.cores : Times(host.cores[c])
  BY DEF HostShape
<1>4. /\ StatText.total = Line(host.total)
      /\ StatText.cores = [c \in DOMAIN host.cores |-> Line(host.cores[c])]
  BY DEF StatText
<1> HIDE DEF Line
<1>5. ParseCpuLine(StatText.total) = host.total
  BY <1>2, <1>3, <1>4
<1>6. cores = host.cores
  BY <1>2, <1>3, <1>4
<1> HIDE DEF cores
<1>7. ~(ParseCpuLine(StatText.total) = Nothing \/ \E c \in DOMAIN cores : cores[c] = Nothing)
  BY <1>1, <1>3, <1>5, <1>6 DEF Nothing
<1>8. ParseProcStat(StatText) = [total |-> ParseCpuLine(StatText.total), cores |-> cores]
  BY <1>7 DEF ParseProcStat, cores
<1>9. ParseProcStat(StatText) = [total |-> host.total, cores |-> host.cores]
  BY <1>5, <1>6, <1>8
<1> DEFINE sample == ParseProcStat(StatText)
<1>10. ReadTextFile(File(StatText)) = Text(StatText)
  BY DEF ReadTextFile, File
<1>11. Text(StatText).ok /\ Text(StatText).text = StatText
  BY DEF Text
<1>12. sample # Nothing
  BY <1>9 DEF Nothing
<1>13. ReadProcStat(File(StatText)) = [ok |-> TRUE, sample |-> sample, extras |-> ParseProcStatExtras(StatText)]
  BY <1>10, <1>11, <1>12 DEF ReadProcStat
<1> QED
  BY <1>9, <1>13

(* The shares of an interval of n ticks are those of the counters.         *)
LEMMA SharesOfTime ==
  ASSUME NEW a, NEW b, Times(a), Times(b), \A f \in CpuFields : b[f] <= a[f],
         NEW n \in Nat, n > 0, SumTicks(a) - SumTicks(b) = n
  PROVE  /\ IsRate(UtilizationFor(a, b)["busy"], a["user"] - b["user"], 100, n)
         /\ IsRate(UtilizationFor(a, b)["idle"], a["idle"] - b["idle"], 100, n)
         /\ IsRate(UtilizationFor(a, b)["iowait"], a["iowait"] - b["iowait"], 100, n)
<1> DEFINE d == [f \in TotalFields |-> a[f] - b[f]]
           total == SumTicks(d)
           busy == total - d["idle"] - d["iowait"]
           Entry(s) == CASE s = "busy"           -> Percent(busy, total)
                         [] s = "irq"            -> Percent(d["irq"] + d["softirq"], total)
                         [] s = "busyPlusIowait" -> Percent(busy + d["iowait"], total)
                         [] OTHER                -> Percent(d[s], total)
<1>1. /\ TotalFields = {"user", "nice", "system", "idle", "iowait", "irq", "softirq", "steal"}
      /\ TotalFields \subseteq CpuFields
  <2>1. CpuFields = {"user", "nice", "system", "idle", "iowait", "irq", "softirq", "steal", "guest", "guestNice"}
    BY DEF CpuFields, CpuFieldOrder
  <2> QED
    BY <2>1 DEF TotalFields
<1>2. \A f \in TotalFields : a[f] \in Nat /\ b[f] \in Nat /\ b[f] <= a[f] /\ d[f] = a[f] - b[f]
  BY <1>1 DEF Times
<1>3. \A f \in Unused : a[f] = 0 /\ b[f] = 0
  BY DEF Times
<1> HIDE DEF d
<1>4. total = n /\ busy = a["user"] - b["user"]
  BY <1>1, <1>2, <1>3 DEF SumTicks, Unused
<1> HIDE DEF total, busy, Entry
<1>5. UtilizationFor(a, b) = [s \in Shares |-> Entry(s)]
  <2>1. ~(\E f \in TotalFields : d[f] < 0)
    BY <1>2
  <2>2. UtilizationFor(a, b) = IF \E f \in TotalFields : d[f] < 0 THEN NoUtilization("rollback")
                               ELSE [s \in Shares |-> Entry(s)]
    BY DEF UtilizationFor, d, total, busy, Entry
  <2> QED
    BY <2>1, <2>2
<1>6. \A k : Percent(k, n) = Derived(<<100 * k, n>>)
  BY DEF Percent
<1>7. \A k \in Int : IsRate(Derived(<<100 * k, n>>), k, 100, n)
  BY DEF IsRate, Derived, HasValue, Same
<1>8. /\ Entry("busy") = Percent(a["user"] - b["user"], n)
      /\ Entry("idle") = Percent(a["idle"] - b["idle"], n)
      /\ Entry("iowait") = Percent(a["iowait"] - b["iowait"], n)
  BY <1>1, <1>2, <1>4 DEF Entry
<1>9. {"busy", "idle", "iowait"} \subseteq Shares
  BY DEF Shares
<1> DEFINE u == UtilizationFor(a, b)
<1>10. /\ u["busy"] = Percent(a["user"] - b["user"], n)
       /\ u["idle"] = Percent(a["idle"] - b["idle"], n)
       /\ u["iowait"] = Percent(a["iowait"] - b["iowait"], n)
  BY <1>5, <1>8, <1>9
<1>11. /\ a["user"] - b["user"] \in Int /\ a["idle"] - b["idle"] \in Int
       /\ a["iowait"] - b["iowait"] \in Int
  BY <1>1, <1>2
<1> HIDE DEF u
<1>12. /\ IsRate(u["busy"], a["user"] - b["user"], 100, n)
       /\ IsRate(u["idle"], a["idle"] - b["idle"], 100, n)
       /\ IsRate(u["iowait"], a["iowait"] - b["iowait"], 100, n)
  BY <1>6, <1>7, <1>10, <1>11
<1> QED
  BY <1>12 DEF u

(* The idle share of one core.                                             *)
LEMMA IdleOfCore ==
  ASSUME NEW a, NEW b, Times(a), Times(b), \A f \in CpuFields : b[f] <= a[f],
         NEW n \in Nat, n > 0, SumTicks(a) - SumTicks(b) = n
  PROVE  IsRate(CoreUtilization(a, b)["idle"], a["idle"] - b["idle"], 100, n)
<1> DEFINE total == SumTicks(a) - SumTicks(b)
           idle == a["idle"] - b["idle"]
           iowait == a["iowait"] - b["iowait"]
<1>1. {"idle", "iowait"} \subseteq CpuFields
  BY DEF CpuFields, CpuFieldOrder
<1>2. idle \in Nat /\ iowait \in Nat
  BY <1>1 DEF Times
<1>3. total = n /\ ~(total < 0 \/ idle < 0 \/ iowait < 0)
  BY <1>2
<1> DEFINE Entry(s) == CASE s = "busy"   -> Percent(total - idle - iowait, total)
                         [] s = "idle"   -> Percent(idle, total)
                         [] s = "iowait" -> Percent(iowait, total)
<1>a. CoreUtilization(a, b) = IF total < 0 \/ idle < 0 \/ iowait < 0 THEN NoCore("rollback")
                              ELSE [s \in CoreShares |-> Entry(s)]
  BY Zenon DEF CoreUtilization
<1> HIDE DEF Entry, total, idle, iowait
<1>4. CoreUtilization(a, b) = [s \in CoreShares |-> Entry(s)]
  BY <1>3, <1>a
<1>5. CoreUtilization(a, b)["idle"] = Derived(<<100 * idle, n>>)
  BY <1>3, <1>4 DEF CoreShares, Entry, Percent
<1>6. IsRate(Derived(<<100 * idle, n>>), idle, 100, n)
  BY <1>2 DEF IsRate, Derived, HasValue, Same
<1> QED
  BY <1>5, <1>6 DEF idle

(* The two readings are compared when nothing forbids it.                  *)
LEMMA CpuBuilt ==
  ASSUME NEW file, NEW p, NEW now, ReadProcStat(file).ok, NoCpuInterval(p, BootId, now) = "none"
  PROVE  LET s == BuildCpuSnapshot(file, p, BootId, now).snapshot
             sample == ReadProcStat(file).sample
         IN  s.utilization = UtilizationFor(sample.total, p.times) /\ s.perCore = PerCore(sample.cores, p.cores)
  BY DEF BuildCpuSnapshot

(* A collection that reads /proc/stat after an earlier one that did.       *)
LEMMA CpuCollected ==
  ASSUME HostShape(host), clock \in Nat, NEW r, r.at \in Nat, r.at < clock, HostShape(r.host), CpuReached(r),
         DOMAIN host.cores = DOMAIN r.host.cores,
         NEW s, s = BuildCpuSnapshot(File(StatText), CpuBase(r), BootId, clock).snapshot
  PROVE  LET t == (clock - r.at) * Cardinality(DOMAIN host.cores)
             d(f) == host.total[f] - r.host.total[f]
         IN  /\ IsRate(s.utilization["busy"], d("user"), 100, t)
             /\ IsRate(s.utilization["idle"], d("idle"), 100, t)
             /\ IsRate(s.utilization["iowait"], d("iowait"), 100, t)
             /\ \A c \in DOMAIN host.cores :
                    IsRate(s.perCore[c]["idle"], host.cores[c]["idle"] - r.host.cores[c]["idle"], 100,
                           clock - r.at)
<1> DEFINE n == clock - r.at
           t == n * Cardinality(DOMAIN host.cores)
           b == CpuBase(r)
           read == ReadProcStat(File(StatText))
<1>1. read.ok /\ read.sample = [total |-> host.total, cores |-> host.cores]
  BY StatRead
<1>2. b = [times |-> r.host.total, cores |-> r.host.cores, atMs |-> r.at, bootId |-> BootId] /\ b # Nothing
  BY DEF CpuBase, Nothing
<1>3. n \in Nat /\ n > 0
  OBVIOUS
<1>4. NoCpuInterval(b, BootId, clock) = "none"
  BY <1>2, <1>3 DEF NoCpuInterval
<1>5. Cardinality(DOMAIN host.cores) \in {1, 2}
  BY CoreCount DEF HostShape
<1>6. t \in Nat /\ t > 0
  <2> HIDE DEF n
  <2> QED
    BY <1>3, <1>5
<1>7. /\ s.utilization = UtilizationFor(read.sample.total, b.times)
      /\ s.perCore = PerCore(read.sample.cores, b.cores)
  <2> HIDE DEF b
  <2> QED
    BY <1>1, <1>4, CpuBuilt DEF b
<1>9. s.utilization = UtilizationFor(host.total, r.host.total) /\ s.perCore = PerCore(host.cores, r.host.cores)
  <2> HIDE DEF read, b
  <2> QED
    BY <1>1, <1>2, <1>7
<1> HIDE DEF b, read
<1>10. /\ Times(host.total) /\ Times(r.host.total) /\ \A f \in CpuFields : r.host.total[f] <= host.total[f]
       /\ SumTicks(host.total) - SumTicks(r.host.total) = t
  BY DEF HostShape, CpuReached
<1> HIDE DEF t
<1>11. /\ IsRate(s.utilization["busy"], host.total["user"] - r.host.total["user"], 100, t)
       /\ IsRate(s.utilization["idle"], host.total["idle"] - r.host.total["idle"], 100, t)
       /\ IsRate(s.utilization["iowait"], host.total["iowait"] - r.host.total["iowait"], 100, t)
  BY <1>6, <1>9, <1>10, SharesOfTime
<1>12. ASSUME NEW c \in DOMAIN host.cores
       PROVE  IsRate(s.perCore[c]["idle"], host.cores[c]["idle"] - r.host.cores[c]["idle"], 100, n)
  <2>1. s.perCore[c] = CoreUtilization(host.cores[c], r.host.cores[c])
    BY <1>9 DEF PerCore
  <2>2. /\ Times(host.cores[c]) /\ Times(r.host.cores[c])
        /\ \A f \in CpuFields : r.host.cores[c][f] <= host.cores[c][f]
        /\ SumTicks(host.cores[c]) - SumTicks(r.host.cores[c]) = n
    BY DEF HostShape, CpuReached
  <2> HIDE DEF n
  <2> QED
    BY <1>3, <2>1, <2>2, IdleOfCore
<1> QED
  BY <1>11, <1>12 DEF t

LEMMA CpuKept ==
  ASSUME HostShape(host), NEW p
  PROVE  BuildCpuSnapshot(File(StatText), p, BootId, clock).previous = CpuBase(Truth)
<1> DEFINE read == ReadProcStat(File(StatText))
<1>1. read.ok /\ read.sample = [total |-> host.total, cores |-> host.cores]
  BY StatRead
<1> HIDE DEF read
<1>2. BuildCpuSnapshot(File(StatText), p, BootId, clock).previous =
        [times |-> read.sample.total, cores |-> read.sample.cores, atMs |-> clock, bootId |-> BootId]
  BY <1>1 DEF BuildCpuSnapshot, read
<1> QED
  BY <1>1, <1>2 DEF CpuBase, Truth

(* What a file that cannot be read leaves behind.                          *)
LEMMA UnreadFile ==
  ASSUME NEW errno, errno # "0"
  PROVE  ~ReadTextFile(NoFile(errno)).ok
<1>1. ReadTextFile(NoFile(errno)) = Failed(Classify(errno))
  BY DEF NoFile, ReadTextFile
<1> QED
  BY <1>1 DEF Failed

LEMMA StatUnread ==
  ASSUME NEW errno, errno # "0", NEW p
  PROVE  LET cpu == BuildCpuSnapshot(NoFile(errno), p, BootId, clock)
         IN  ~HasValue(cpu.snapshot.currentTimes) /\ (p # Nothing => cpu.previous = p)
<1>1. ~ReadProcStat(NoFile(errno)).ok
  BY UnreadFile DEF ReadProcStat, Failed
<1>2. \A why : ~HasValue(CpuUnread(why).currentTimes)
  BY DEF CpuUnread, Missing, HasValue
<1>3. BuildCpuSnapshot(NoFile(errno), p, BootId, clock) =
        [snapshot |-> CpuUnread(ReadProcStat(NoFile(errno)).failure), previous |-> CarriedCpu(p, BootId, clock)]
  BY <1>1 DEF BuildCpuSnapshot
<1> QED
  BY <1>2, <1>3 DEF CarriedCpu

LEMMA DiskUnread ==
  ASSUME NEW errno, errno # "0", NEW p
  PROVE  BuildDiskSnapshot(NoFile(errno), p, clock) = [snapshot |-> <<>>, previous |-> CarriedDisk(p, clock)]
  BY UnreadFile DEF BuildDiskSnapshot

LEMMA NetUnread ==
  ASSUME NEW errno, errno # "0", NEW p, NEW sys
  PROVE  BuildNetworkSnapshot(NoFile(errno), sys, p, clock) =
           [snapshot |-> <<>>, previous |-> IF p # Nothing THEN p ELSE [interfaces |-> <<>>, atMs |-> clock]]
  BY UnreadFile DEF BuildNetworkSnapshot

LEMMA DiskFields ==
  ASSUME NEW d \in DiskRecords
  PROVE  \A f \in DiskCounters \cup {"inFlight"} : d[f] \in Nat
<1>1. /\ d["readsCompleted"] \in Nat /\ d["writesCompleted"] \in Nat /\ d["sectorsRead"] \in Nat
      /\ d["sectorsWritten"] \in Nat /\ d["ioMillis"] \in Nat /\ d["inFlight"] \in Nat
  BY DEF DiskRecords
<1> QED
  BY <1>1 DEF DiskCounters

(* What a reading of the disk gives: rates against what was kept of it.    *)
LEMMA DiskBuilt ==
  ASSUME HostShape(host), NEW p
  PROVE  LET s == BuildDiskSnapshot(File(host.disk), p, clock)
             before == IF p # Nothing /\ "sda" \in DOMAIN p.devices THEN p.devices["sda"] ELSE Nothing
             interval == IF p = Nothing THEN 0 ELSE clock - p.atMs
         IN  /\ s.snapshot["sda"].rates = RatesOfDisk(host.disk["sda"], before, interval)
             /\ s.previous = DiskBase(Truth)
<1> DEFINE text == host.disk
           before == IF p # Nothing /\ "sda" \in DOMAIN p.devices THEN p.devices["sda"] ELSE Nothing
           interval == IF p = Nothing THEN 0 ELSE clock - p.atMs
<1>1. /\ text = [d \in {"sda"} |-> text[d]] /\ text["sda"] \in DiskRecords
  BY DEF HostShape
<1>2. \A f \in DiskCounters \cup {"inFlight"} : Unsigned(text["sda"][f])
  BY <1>1, DiskFields DEF Unsigned
<1> HIDE DEF text
<1>3. ParseDiskstats(text) = text
  BY <1>1, <1>2, DiskText
<1>4. {n \in DOMAIN text : ~text[n].pseudo} = {"sda"}
  BY <1>1 DEF DiskRecords
<1> DEFINE lines == [name \in {"sda"} |-> text[name]]
           Before(name) == IF p # Nothing /\ name \in DOMAIN p.devices THEN p.devices[name] ELSE Nothing
           devices == [name \in DOMAIN lines |-> BuildDevice(lines[name], Before(name), interval)]
           next == [name \in DOMAIN lines |-> [f \in DiskCounters |-> lines[name][f]]]
<1>5. BuildDevices(text, p, clock) = [devices |-> devices, next |-> next]
  BY <1>3, <1>4 DEF BuildDevices
<1>6. ReadTextFile(File(text)) = Text(text) /\ Text(text).ok /\ Text(text).text = text
  BY DEF ReadTextFile, File, Text
<1>7. /\ devices["sda"] = BuildDevice(text["sda"], before, interval)
      /\ next = [d \in {"sda"} |-> [f \in DiskCounters |-> text[d][f]]]
  BY DEF before
<1> HIDE DEF devices, next, before, interval
<1>8. BuildDiskSnapshot(File(text), p, clock) =
        [snapshot |-> devices, previous |-> [devices |-> next, atMs |-> clock]]
  BY <1>5, <1>6 DEF BuildDiskSnapshot
<1>9. BuildDevice(text["sda"], before, interval).rates = RatesOfDisk(text["sda"], before, interval)
  BY DEF BuildDevice
<1>10. DiskBase(Truth) = [devices |-> next, atMs |-> clock]
  BY <1>7 DEF DiskBase, Truth, text
<1> QED
  BY <1>7, <1>8, <1>9, <1>10 DEF text, before, interval

(* Why a disk has no rates, and what they are.                             *)
LEMMA DiskHasNoRates ==
  ASSUME NEW line, NEW before, NEW interval, NoDiskRates(line, before, interval) # "none"
  PROVE  NoRate(RatesOfDisk(line, before, interval))
<1> DEFINE why == NoDiskRates(line, before, interval)
           d(f) == line[f] - before[f]
           Entry(r) == IF why # "none" THEN Missing(why)
                       ELSE CASE r = "readBytesPerSec"  -> Rate(d("sectorsRead") * SectorBytes, interval, 1000)
                              [] r = "writeBytesPerSec" -> Rate(d("sectorsWritten") * SectorBytes, interval, 1000)
                              [] r = "readsPerSec"      -> Rate(d("readsCompleted"), interval, 1000)
                              [] r = "writesPerSec"     -> Rate(d("writesCompleted"), interval, 1000)
                              [] r = "busyPercent"      ->
                                   Derived(IF d("ioMillis") >= interval THEN <<100, 1>>
                                           ELSE <<100 * d("ioMillis"), interval>>)
<1>1. RatesOfDisk(line, before, interval) = [r \in DiskRates |-> Entry(r)]
  BY Zenon DEF RatesOfDisk
<1>2. \A r : Entry(r) = Missing(why)
  OBVIOUS
<1> HIDE DEF Entry
<1> QED
  BY <1>1, <1>2 DEF NoRate, Missing, HasValue

LEMMA DiskHasRates ==
  ASSUME NEW line \in DiskRecords, NEW before, \A f \in DiskCounters : before[f] \in Nat /\ before[f] <= line[f],
         NEW interval \in Nat, interval > 0, before # Nothing,
         NEW rates, rates = RatesOfDisk(line, before, interval)
  PROVE  /\ IsRate(rates["readsPerSec"], line.readsCompleted - before.readsCompleted, 1000, interval)
         /\ IsRate(rates["readBytesPerSec"], SectorBytes * (line.sectorsRead - before.sectorsRead), 1000, interval)
         /\ rates["busyPercent"].value[1] <= 100 * rates["busyPercent"].value[2]
<1> DEFINE why == NoDiskRates(line, before, interval)
           d(f) == line[f] - before[f]
           Entry(r) == IF why # "none" THEN Missing(why)
                       ELSE CASE r = "readBytesPerSec"  -> Rate(d("sectorsRead") * SectorBytes, interval, 1000)
                              [] r = "writeBytesPerSec" -> Rate(d("sectorsWritten") * SectorBytes, interval, 1000)
                              [] r = "readsPerSec"      -> Rate(d("readsCompleted"), interval, 1000)
                              [] r = "writesPerSec"     -> Rate(d("writesCompleted"), interval, 1000)
                              [] r = "busyPercent"      ->
                                   Derived(IF d("ioMillis") >= interval THEN <<100, 1>>
                                           ELSE <<100 * d("ioMillis"), interval>>)
<1>1. RatesOfDisk(line, before, interval) = [r \in DiskRates |-> Entry(r)]
  BY Zenon DEF RatesOfDisk
<1>2. \A f \in DiskCounters : d(f) \in Nat /\ ~(before[f] > line[f])
  BY DiskFields
<1>3. why = "none"
  BY <1>2 DEF NoDiskRates, DiskCounters
<1>4. d("readsCompleted") \in Nat /\ d("sectorsRead") \in Nat /\ d("ioMillis") \in Nat
  BY <1>2 DEF DiskCounters
<1>5. {"readBytesPerSec", "readsPerSec", "busyPercent"} \subseteq DiskRates
  BY DEF DiskRates
<1> HIDE DEF why, d
<1>6. /\ Entry("readsPerSec") = Rate(d("readsCompleted"), interval, 1000)
      /\ Entry("readBytesPerSec") = Rate(d("sectorsRead") * SectorBytes, interval, 1000)
      /\ Entry("busyPercent") = Derived(IF d("ioMillis") >= interval THEN <<100, 1>>
                                         ELSE <<100 * d("ioMillis"), interval>>)
  BY <1>3
<1> HIDE DEF Entry
<1>7. /\ rates["readsPerSec"] = Rate(d("readsCompleted"), interval, 1000)
      /\ rates["readBytesPerSec"] = Rate(d("sectorsRead") * SectorBytes, interval, 1000)
      /\ rates["busyPercent"] = Derived(IF d("ioMillis") >= interval THEN <<100, 1>>
                                         ELSE <<100 * d("ioMillis"), interval>>)
  BY <1>1, <1>5, <1>6
<1>8. \A n \in Nat : Rate(n, interval, 1000) = Derived(<<n * 1000, interval>>)
  BY DEF Rate
<1>9. IsRate(rates["readsPerSec"], d("readsCompleted"), 1000, interval)
  BY <1>4, <1>7, <1>8 DEF IsRate, Derived, HasValue, Same
<1>10. IsRate(rates["readBytesPerSec"], SectorBytes * d("sectorsRead"), 1000, interval)
  <2>1. d("sectorsRead") * SectorBytes \in Nat /\ d("sectorsRead") * SectorBytes = SectorBytes * d("sectorsRead")
    BY <1>4 DEF SectorBytes
  <2>2. rates["readBytesPerSec"] = Derived(<<(SectorBytes * d("sectorsRead")) * 1000, interval>>)
    BY <1>7, <1>8, <2>1
  <2> QED
    BY <2>2 DEF IsRate, Derived, HasValue, Same
<1>11. rates["busyPercent"].value[1] <= 100 * rates["busyPercent"].value[2]
  <2>1. CASE d("ioMillis") >= interval
    <3>1. rates["busyPercent"].value = <<100, 1>>
      BY <1>7, <2>1 DEF Derived
    <3> QED
      BY <3>1
  <2>2. CASE ~(d("ioMillis") >= interval)
    <3>1. rates["busyPercent"].value = <<100 * d("ioMillis"), interval>>
      BY <1>7, <2>2 DEF Derived
    <3> QED
      BY <1>4, <2>2, <3>1
  <2> QED
    BY <2>1, <2>2
<1> QED
  BY <1>9, <1>10, <1>11 DEF d

(* One more reading.                                                       *)
LEMMA Grown ==
  ASSUME NEW Any, readings \in Seq(Any), readings' = Append(readings, Truth)
  PROVE  /\ readings' \in Seq(Any \cup {Truth}) /\ Len(readings') = Len(readings) + 1 /\ Latest' = Truth
         /\ Len(readings) \in Nat /\ (readings = <<>> <=> Len(readings) = 0)
         /\ readings # <<>> => Prior' = Latest
<1> DEFINE Any2 == Any \cup {Truth}
<1>1. readings \in Seq(Any2) /\ Truth \in Any2
  OBVIOUS
<1> HIDE DEF Any2
<1>2. /\ readings' \in Seq(Any2) /\ Len(readings') = Len(readings) + 1
      /\ readings'[Len(readings) + 1] = Truth
      /\ \A i \in 1..Len(readings) : readings'[i] = readings[i]
      /\ Len(readings) \in Nat /\ (readings = <<>> <=> Len(readings) = 0)
  BY <1>1
<1> QED
  BY <1>2 DEF Latest, Prior, Any2

LEMMA DiskCollected ==
  ASSUME HostShape(host), clock \in Nat, focus = "disk", BaseOK, readings # <<>> => Reached(Latest),
         NEW Any, readings \in Seq(Any), readings' = Append(readings, Truth),
         NEW parts, parts.disk = BuildDiskSnapshot(File(host.disk), base.disk, clock).snapshot
  PROVE  DiskRatesAreReal(parts)'
<1> DEFINE p == base.disk
           before == IF p # Nothing /\ "sda" \in DOMAIN p.devices THEN p.devices["sda"] ELSE Nothing
           interval == IF p = Nothing THEN 0 ELSE clock - p.atMs
           now == host.disk["sda"]
           rates == parts.disk["sda"].rates
<1>1. rates = RatesOfDisk(now, before, interval)
  BY DiskBuilt
<1>2. now \in DiskRecords
  BY DEF HostShape
<1>g. /\ Len(readings') = Len(readings) + 1 /\ Latest' = Truth /\ (readings # <<>> => Prior' = Latest)
      /\ Len(readings) \in Nat /\ (readings = <<>> <=> Len(readings) = 0)
  BY Grown
<1>3. CASE readings = <<>>
  <2>1. before = Nothing
    BY <1>3 DEF BaseOK
  <2>2. ~Two'
    BY <1>3, <1>g DEF Two
  <2> HIDE DEF now, rates, interval
  <2>3. NoDiskRates(now, before, interval) # "none"
    BY <2>1 DEF NoDiskRates
  <2>4. NoRate(rates)
    BY <1>1, <2>1, <2>3, DiskHasNoRates
  <2> QED
    BY <2>2, <2>4 DEF DiskRatesAreReal, rates
<1>4. CASE readings # <<>>
  <2> DEFINE was == Latest.host.disk["sda"]
             kept == [f \in DiskCounters |-> was[f]]
             elapsed == clock - Latest.at
  <2>1. /\ Latest.at \in Nat /\ Latest.at <= clock /\ was \in DiskRecords /\ DiskReached(Latest)
    BY <1>4 DEF Reached, HostShape
  <2>2. p = DiskBase(Latest)
    BY <1>4 DEF BaseOK
  <2>3. before = kept /\ interval = elapsed /\ before # Nothing
    <3>1. DiskBase(Latest) = [devices |-> [d \in {"sda"} |-> [f \in DiskCounters |-> Latest.host.disk[d][f]]],
                              atMs |-> Latest.at]
      BY DEF DiskBase
    <3>2. p # Nothing /\ "sda" \in DOMAIN p.devices /\ p.devices["sda"] = kept /\ p.atMs = Latest.at
      BY <2>2, <3>1 DEF Nothing
    <3>3. "ioMillis" \in DOMAIN kept
      BY DEF DiskCounters
    <3> HIDE DEF kept
    <3> QED
      BY <3>2, <3>3 DEF Nothing
  <2>4. Latest' = Truth /\ Prior' = Latest /\ Len(readings') >= 2
    BY <1>4, <1>g
  <2>5. Elapsed' = elapsed /\ Latest'.host.disk["sda"] = now
    BY <2>4 DEF Elapsed, Truth
  <2>6. Two' <=> elapsed > 0
    BY <2>4, <2>5 DEF Two
  <2>7. \A f \in DiskCounters : before[f] = was[f] /\ was[f] \in Nat /\ now[f] \in Nat
    BY <1>2, <2>1, <2>3, DiskFields
  <2>8. elapsed \in Nat
    BY <2>1
  <2>a. was.plugged = now.plugged => \A f \in DiskCounters : was[f] <= now[f]
    BY <2>1 DEF DiskReached
  <2> HIDE DEF before, interval, was, now, rates, elapsed, kept
  <2>9. ASSUME elapsed = 0 PROVE NoRate(rates)
    BY <1>1, <2>3, <2>9, DiskHasNoRates DEF NoDiskRates
  <2>10. ASSUME elapsed > 0, now.plugged = was.plugged
         PROVE  /\ IsRate(rates["readsPerSec"], now.readsCompleted - was.readsCompleted, 1000, elapsed)
                /\ IsRate(rates["readBytesPerSec"], SectorBytes * (now.sectorsRead - was.sectorsRead), 1000, elapsed)
                /\ rates["busyPercent"].value[1] <= 100 * rates["busyPercent"].value[2]
    <3>1. \A f \in DiskCounters : before[f] \in Nat /\ before[f] <= now[f]
      BY <2>7, <2>10, <2>a
    <3>2. before.readsCompleted = was.readsCompleted /\ before.sectorsRead = was.sectorsRead
      BY <2>7 DEF DiskCounters
    <3> QED
      BY <1>1, <1>2, <2>3, <2>8, <2>10, <3>1, <3>2, DiskHasRates
  <2>11. ASSUME elapsed > 0, now.ioMillis < was.ioMillis PROVE NoRate(rates)
    <3>1. before["ioMillis"] > now["ioMillis"]
      BY <2>7, <2>11 DEF DiskCounters
    <3>a. \E f \in {"sectorsRead", "sectorsWritten", "ioMillis"} : before[f] > now[f]
      BY <3>1
    <3>b. before # Nothing /\ interval > 0
      BY <2>3, <2>11
    <3>2. NoDiskRates(now, before, interval) # "none"
      <4> DEFINE back == \E f \in {"sectorsRead", "sectorsWritten", "ioMillis"} : before[f] > now[f]
                 gone == before = Nothing
      <4>1. back /\ ~gone /\ interval > 0
        BY <3>a, <3>b
      <4>2. NoDiskRates(now, before, interval) =
              CASE gone -> "firstSample" [] ~gone /\ interval > 0 /\ back -> "rollback"
                [] ~gone /\ interval <= 0 -> "zeroInterval" [] OTHER -> "none"
        BY Zenon DEF NoDiskRates
      <4> HIDE DEF back, gone
      <4> QED
        BY <2>3, <2>8, <4>1, <4>2
    <3> QED
      BY <1>1, <2>3, <2>8, <3>2, DiskHasNoRates
  <2>12. ~Two' => NoRate(rates)
    BY <2>6, <2>8, <2>9
  <2> QED
    BY <2>4, <2>5, <2>6, <2>10, <2>11, <2>12 DEF DiskRatesAreReal, was, now, rates
<1> QED
  BY <1>3, <1>4

(* What a reading of the interface gives.                                  *)
LEMMA NetBuilt ==
  ASSUME HostShape(host), NEW p
  PROVE  LET s == BuildNetworkSnapshot(File(host.net), Links, p, clock)
             before == IF p # Nothing /\ "eth0" \in DOMAIN p.interfaces THEN p.interfaces["eth0"] ELSE Nothing
             interval == IF p = Nothing THEN 0 ELSE clock - p.atMs
         IN  /\ s.snapshot["eth0"].rates = RatesOfInterface(host.net["eth0"], before, interval)
             /\ s.previous = NetBase(Truth)
<1> DEFINE text == host.net
           before == IF p # Nothing /\ "eth0" \in DOMAIN p.interfaces THEN p.interfaces["eth0"] ELSE Nothing
           interval == IF p = Nothing THEN 0 ELSE clock - p.atMs
<1>1. /\ text = [i \in {"eth0"} |-> text[i]] /\ text["eth0"] \in [NetFields -> Nat]
  BY DEF HostShape
<1>2. \A f \in NetFields : Unsigned(text["eth0"][f])
  BY <1>1 DEF Unsigned
<1> HIDE DEF text
<1>3. ParseNetDev(text) = text /\ DOMAIN text = {"eth0"}
  BY <1>1, <1>2, NetText
<1> DEFINE Before(name) == IF p # Nothing /\ name \in DOMAIN p.interfaces THEN p.interfaces[name] ELSE Nothing
           sys == Links
           devices == [name \in {"eth0"} |-> BuildInterface(text[name], Before(name), interval, sys[name])]
           next == [i \in {"eth0"} |-> [f \in NetCounters |-> text[i][f]]]
<1>4. ReadTextFile(File(text)) = Text(text) /\ Text(text).ok /\ Text(text).text = text
  BY DEF ReadTextFile, File, Text
<1>5. BuildNetworkSnapshot(File(text), sys, p, clock) =
        [snapshot |-> devices, previous |-> [interfaces |-> next, atMs |-> clock]]
  <2> HIDE DEF sys
  <2> QED
    BY <1>3, <1>4 DEF BuildNetworkSnapshot
<1>6. devices["eth0"] = BuildInterface(text["eth0"], before, interval, sys["eth0"])
  BY DEF before
<1> HIDE DEF devices, before, interval, sys
<1>7. BuildInterface(text["eth0"], before, interval, sys["eth0"]).rates
        = RatesOfInterface(text["eth0"], before, interval)
  BY DEF BuildInterface
<1>8. NetBase(Truth) = [interfaces |-> next, atMs |-> clock]
  BY DEF NetBase, Truth, text
<1> HIDE DEF next
<1> QED
  BY <1>5, <1>6, <1>7, <1>8 DEF text, before, interval, sys

LEMMA NetCollected ==
  ASSUME HostShape(host), clock \in Nat, focus = "net", BaseOK, readings # <<>> => Reached(Latest),
         NEW Any, readings \in Seq(Any), readings' = Append(readings, Truth),
         NEW parts, parts.net = BuildNetworkSnapshot(File(host.net), Links, base.net, clock).snapshot
  PROVE  NetRatesAreReal(parts)'
<1> DEFINE p == base.net
           before == IF p # Nothing /\ "eth0" \in DOMAIN p.interfaces THEN p.interfaces["eth0"] ELSE Nothing
           interval == IF p = Nothing THEN 0 ELSE clock - p.atMs
           now == host.net["eth0"]
           rates == parts.net["eth0"].rates
<1>1. rates = RatesOfInterface(now, before, interval)
  BY NetBuilt
<1>2. now \in [NetFields -> Nat]
  BY DEF HostShape
<1>3. /\ Len(readings') = Len(readings) + 1 /\ Latest' = Truth /\ (readings # <<>> => Prior' = Latest)
      /\ Len(readings) \in Nat /\ (readings = <<>> <=> Len(readings) = 0)
  BY Grown
<1>4. rates = [r \in {"rxBytes", "txBytes"} |->
                 IF before = Nothing THEN Missing("firstSample")
                 ELSE IF interval <= 0 THEN Missing("zeroInterval")
                 ELSE ByteRate(now[r], before[r], interval)]
  BY <1>1 DEF RatesOfInterface
<1>5. before = Nothing \/ interval <= 0 => NoRate(rates)
  <2> HIDE DEF rates, before, interval, now
  <2> QED
    BY <1>4 DEF NoRate, Missing, HasValue
<1>6. CASE readings = <<>>
  <2>1. before = Nothing
    BY <1>6 DEF BaseOK
  <2>2. ~Two'
    BY <1>3, <1>6 DEF Two
  <2> QED
    BY <1>5, <2>1, <2>2 DEF NetRatesAreReal
<1>7. CASE readings # <<>>
  <2> DEFINE was == Latest.host.net["eth0"]
             kept == [f \in NetCounters |-> was[f]]
             elapsed == clock - Latest.at
  <2>1. /\ Latest.at \in Nat /\ Latest.at <= clock /\ was \in [NetFields -> Nat]
        /\ \A f \in NetFields : was[f] <= now[f]
    BY <1>7 DEF Reached, HostShape, NetReached
  <2>2. p = NetBase(Latest)
    BY <1>7 DEF BaseOK
  <2>3. before = kept /\ interval = elapsed /\ before # Nothing
    <3>1. NetBase(Latest) = [interfaces |-> [i \in {"eth0"} |-> [f \in NetCounters |-> Latest.host.net[i][f]]],
                             atMs |-> Latest.at]
      BY DEF NetBase
    <3>2. p # Nothing /\ "eth0" \in DOMAIN p.interfaces /\ p.interfaces["eth0"] = kept /\ p.atMs = Latest.at
      BY <2>2, <3>1 DEF Nothing
    <3>3. "rxBytes" \in DOMAIN kept
      BY DEF NetCounters
    <3> HIDE DEF kept
    <3> QED
      BY <3>2, <3>3 DEF Nothing
  <2>4. Latest' = Truth /\ Prior' = Latest /\ Len(readings') >= 2
    BY <1>3, <1>7
  <2>5. Elapsed' = elapsed /\ Latest'.host.net["eth0"] = now
    BY <2>4 DEF Elapsed, Truth
  <2>6. Two' <=> elapsed > 0
    BY <2>4, <2>5 DEF Two
  <2>7. elapsed \in Nat
    BY <2>1
  <2>8. "rxBytes" \in NetFields /\ "rxBytes" \in NetCounters
    BY DEF NetFields, NetCounters
  <2>9. now["rxBytes"] - was["rxBytes"] \in Nat /\ before["rxBytes"] = was["rxBytes"]
    BY <1>2, <2>1, <2>3, <2>8
  <2> HIDE DEF before, interval, was, now, rates, elapsed, kept
  <2>10. ASSUME elapsed > 0 PROVE IsRate(rates["rxBytes"], now["rxBytes"] - was["rxBytes"], 1000, elapsed)
    <3>1. rates["rxBytes"] = ByteRate(now["rxBytes"], was["rxBytes"], elapsed)
      BY <1>4, <2>3, <2>7, <2>9, <2>10
    <3>2. ByteRate(now["rxBytes"], was["rxBytes"], elapsed)
            = Derived(<<(now["rxBytes"] - was["rxBytes"]) * 1000, elapsed>>)
      BY <2>7, <2>9, <2>10 DEF ByteRate, Rate
    <3> QED
      BY <3>1, <3>2 DEF IsRate, Derived, HasValue, Same
  <2>11. ~Two' => NoRate(rates)
    BY <1>5, <2>3, <2>6, <2>7
  <2>12. Two' => IsRate(rates["rxBytes"], now["rxBytes"] - was["rxBytes"], 1000, elapsed)
    BY <2>6, <2>10
  <2> QED
    BY <2>4, <2>5, <2>11, <2>12 DEF NetRatesAreReal, was, now, rates
<1> QED
  BY <1>6, <1>7

LEMMA CpuRead ==
  ASSUME HostShape(host), clock \in Nat, focus = "cpu", BaseOK, readings # <<>> => Reached(Latest),
         NEW Any, readings \in Seq(Any), readings' = Append(readings, Truth),
         NEW parts, parts.cpu = BuildCpuSnapshot(File(StatText), base.cpu, BootId, clock).snapshot
  PROVE  CpuRatesAreReal(parts)'
<1>1. /\ Len(readings') = Len(readings) + 1 /\ Latest' = Truth /\ (readings # <<>> => Prior' = Latest)
      /\ Len(readings) \in Nat /\ (readings = <<>> <=> Len(readings) = 0)
  BY Grown
<1>2. CASE readings = <<>>
  BY <1>1, <1>2 DEF CpuRatesAreReal, Two
<1>3. CASE readings # <<>>
  <2> DEFINE r == Latest
             s == parts.cpu
             elapsed == clock - r.at
  <2>1. /\ r.at \in Nat /\ r.at <= clock /\ HostShape(r.host) /\ CpuReached(r) /\ base.cpu = CpuBase(r)
    BY <1>3 DEF Reached, BaseOK
  <2>2. Latest' = Truth /\ Prior' = r /\ Elapsed' = elapsed /\ Truth.host = host
    BY <1>1, <1>3 DEF Elapsed, Truth
  <2>3. Two' => elapsed > 0
    BY <2>2 DEF Two
  <2> DEFINE t == elapsed * Cardinality(DOMAIN host.cores)
             Claim == /\ IsRate(s.utilization["busy"], host.total["user"] - r.host.total["user"], 100, t)
                      /\ IsRate(s.utilization["idle"], host.total["idle"] - r.host.total["idle"], 100, t)
                      /\ IsRate(s.utilization["iowait"], host.total["iowait"] - r.host.total["iowait"], 100, t)
                      /\ \A c \in DOMAIN host.cores :
                             IsRate(s.perCore[c]["idle"], host.cores[c]["idle"] - r.host.cores[c]["idle"], 100,
                                    elapsed)
  <2>4. ASSUME elapsed > 0, DOMAIN host.cores = DOMAIN r.host.cores PROVE Claim
    <3>1. r.at < clock
      BY <2>1, <2>4
    <3> HIDE DEF r
    <3> QED
      BY <2>1, <2>4, <3>1, CpuCollected
  <2>5. CpuRatesAreReal(parts)' <=>
          (HasValue(s.currentTimes) /\ Two' /\ DOMAIN host.cores = DOMAIN r.host.cores => Claim)
    BY <2>2 DEF CpuRatesAreReal
  <2> HIDE DEF Claim
  <2> QED
    BY <2>3, <2>4, <2>5
<1> QED
  BY <1>2, <1>3

(* A step of the machine leaves what was collected alone.                  *)
LEMMA RatesFrame ==
  ASSUME RatesInv, UNCHANGED <<base, scan, snap, readings, focus>>, HostShape(host'),
         readings # <<>> => Reached(Latest)'
  PROVE  RatesInv'
<1>1. Latest' = Latest /\ Prior' = Prior
  BY DEF Latest, Prior
<1>2. \A parts : Real(parts)' <=> Real(parts)
  BY <1>1 DEF Real, CpuRatesAreReal, DiskRatesAreReal, NetRatesAreReal, Two, Elapsed
<1>3. BaseOK'
  BY <1>1 DEF RatesInv, BaseOK
<1>4. (scan # Nothing => ScanShape /\ Real(scan.parts))'
  BY <1>2 DEF RatesInv, ScanShape
<1>5. (Settled => Real(snap.parts))'
  BY <1>2 DEF RatesInv, Settled
<1> QED
  BY <1>3, <1>4, <1>5 DEF RatesInv

(* A tick of one core.                                                     *)
LEMMA Spending ==
  ASSUME NEW t, Times(t), NEW way \in {"user", "guest", "iowait", "idle"}
  PROVE  /\ Times(Spend(t, way)) /\ SumTicks(Spend(t, way)) = SumTicks(t) + 1
         /\ \A f \in CpuFields : t[f] <= Spend(t, way)[f]
<1> DEFINE w == IF way = "guest" THEN "user" ELSE way
           g == IF way = "guest" THEN 1 ELSE 0
           u == Spend(t, way)
<1>1. CpuFields = {"user", "nice", "system", "idle", "iowait", "irq", "softirq", "steal", "guest", "guestNice"}
  BY DEF CpuFields, CpuFieldOrder
<1>2. t \in [CpuFields -> Nat] /\ \A f \in Unused : t[f] = 0
  BY DEF Times
<1>3. w \in {"user", "iowait", "idle"} /\ g \in {0, 1}
  OBVIOUS
<1>4. u = [f \in CpuFields |-> IF f = w THEN t[f] + 1 ELSE IF f = "guest" THEN t[f] + g ELSE t[f]]
  <2> DEFINE m == [f \in CpuFields |-> IF f = w THEN t[f] + 1 ELSE t[f]]
  <2>1. [t EXCEPT ![w] = @ + 1] = m
    <3> HIDE DEF w
    <3> QED
      BY <1>2
  <2>2. u = [[t EXCEPT ![w] = @ + 1] EXCEPT !["guest"] = IF way = "guest" THEN @ + 1 ELSE @]
    BY DEF Spend
  <2>3. "guest" # w /\ "guest" \in CpuFields /\ t["guest"] \in Nat
    BY <1>1, <1>2
  <2>4. m["guest"] = t["guest"] /\ (IF way = "guest" THEN m["guest"] + 1 ELSE m["guest"]) = t["guest"] + g
    BY <2>3
  <2>5. u = [m EXCEPT !["guest"] = t["guest"] + g]
    <3> HIDE DEF m, g, w
    <3> QED
      BY <2>1, <2>2, <2>4
  <2> HIDE DEF w, g
  <2> QED
    BY <2>3, <2>5
<1> HIDE DEF w, g, u
<1>5. u \in [CpuFields -> Nat] /\ \A f \in CpuFields : t[f] <= u[f]
  BY <1>2, <1>3, <1>4
<1>6. \A f \in Unused : u[f] = 0
  BY <1>1, <1>2, <1>3, <1>4 DEF Unused
<1>7. /\ u["user"] = t["user"] + (IF w = "user" THEN 1 ELSE 0)
      /\ u["idle"] = t["idle"] + (IF w = "idle" THEN 1 ELSE 0)
      /\ u["iowait"] = t["iowait"] + (IF w = "iowait" THEN 1 ELSE 0)
  BY <1>1, <1>2, <1>3, <1>4
<1>8. SumTicks(u) = SumTicks(t) + 1
  BY <1>1, <1>2, <1>3, <1>6, <1>7 DEF SumTicks, Unused
<1> QED
  BY <1>5, <1>6, <1>8 DEF Times, u

(* The clock goes on, each core spends a tick.                             *)
LEMMA AdvanceCoresRates ==
  ASSUME RatesInv, MachineOK, NEW one \in {"user", "guest", "iowait"}, NEW two \in {"user", "idle"},
         AdvanceCores(<<one, two>>)
  PROVE  RatesInv'
<1> DEFINE ways == <<one, two>>
           total1 == Spend(host.total, one)
           total2 == Spend(total1, two)
           cores2 == [c \in DOMAIN host.cores |-> Spend(host.cores[c], ways[c])]
           both == 2 \in DOMAIN host.cores
<1>1. /\ clock' = clock + 1 /\ focus = "cpu" /\ focus' = focus /\ scan = Nothing
      /\ UNCHANGED <<base, scan, snap, readings>>
  BY DEF AdvanceCores, collector
<1>2. host' = [host EXCEPT !.cores = cores2, !.total = IF both THEN total2 ELSE total1]
  BY DEF AdvanceCores
<1>3. HostShape(host) /\ clock \in Nat
  BY DEF RatesInv, MachineOK
<1>4. /\ host'.total = (IF both THEN total2 ELSE total1) /\ host'.cores = cores2
      /\ host'.disk = host.disk /\ host'.net = host.net
      /\ host' = [total |-> host'.total, cores |-> host'.cores, disk |-> host'.disk, net |-> host'.net]
  <2> HIDE DEF total1, total2, cores2, both
  <2> QED
    BY <1>2, <1>3 DEF HostShape
<1>5. /\ DOMAIN host.cores \in {{1}, {1, 2}} /\ Times(host.total)
      /\ \A c \in DOMAIN host.cores : Times(host.cores[c]) /\ ways[c] \in {"user", "guest", "iowait", "idle"}
  BY <1>3 DEF HostShape
<1>6. /\ Times(total1) /\ SumTicks(total1) = SumTicks(host.total) + 1
      /\ \A f \in CpuFields : host.total[f] <= total1[f]
  BY <1>5, Spending
<1>7. /\ Times(total2) /\ SumTicks(total2) = SumTicks(total1) + 1
      /\ \A f \in CpuFields : total1[f] <= total2[f]
  <2> HIDE DEF total1
  <2> QED
    BY <1>6, Spending
<1>8. DOMAIN cores2 = DOMAIN host.cores /\ cores2 = [c \in DOMAIN cores2 |-> cores2[c]]
  OBVIOUS
<1>9. ASSUME NEW c \in DOMAIN host.cores
      PROVE  /\ Times(cores2[c]) /\ SumTicks(cores2[c]) = SumTicks(host.cores[c]) + 1
             /\ \A f \in CpuFields : host.cores[c][f] <= cores2[c][f]
  <2>1. cores2[c] = Spend(host.cores[c], ways[c])
    OBVIOUS
  <2> QED
    BY <1>5, <2>1, Spending
<1> HIDE DEF total1, total2, cores2
<1>10. HostShape(host')
  BY <1>3, <1>4, <1>5, <1>6, <1>7, <1>8, <1>9 DEF HostShape
<1>11. readings # <<>> => Reached(Latest)'
  <2> SUFFICES ASSUME readings # <<>> PROVE Reached(Latest)'
    OBVIOUS
  <2> DEFINE r == Latest
             n == Cardinality(DOMAIN host.cores)
  <2>1. /\ r' = r /\ r.at \in Nat /\ r.at <= clock /\ HostShape(r.host) /\ CpuReached(r)
        /\ r = [at |-> r.at, host |-> r.host]
    BY <1>1 DEF RatesInv, Reached, Latest
  <2>2. n = IF both THEN 2 ELSE 1
    BY <1>5, CoreCount
  <2>3. n \in Nat /\ SumTicks(host'.total) = SumTicks(host.total) + n
    <3>1. SumTicks(host.total) \in Nat
      BY <1>5, SumIsNat
    <3> HIDE DEF n, both
    <3> QED
      BY <1>4, <1>6, <1>7, <2>2, <3>1
  <2>4. CpuReached(r)'
    <3>1. /\ DOMAIN host'.cores \subseteq DOMAIN r.host.cores
          /\ \A f \in CpuFields : r.host.total[f] <= host'.total[f]
      <4>1. DOMAIN host'.cores = DOMAIN host.cores /\ DOMAIN host.cores \subseteq DOMAIN r.host.cores
        BY <1>4, <1>8, <2>1 DEF CpuReached
      <4>2. ASSUME NEW f \in CpuFields PROVE r.host.total[f] <= host'.total[f]
        <5>1. /\ r.host.total[f] \in Nat /\ host.total[f] \in Nat /\ total1[f] \in Nat /\ total2[f] \in Nat
              /\ r.host.total[f] <= host.total[f] /\ host.total[f] <= total1[f] /\ total1[f] <= total2[f]
          BY <1>3, <1>6, <1>7, <2>1 DEF HostShape, Times, CpuReached
        <5> QED
          BY <1>4, <5>1
      <4> QED
        BY <4>1, <4>2
    <3>2. ASSUME NEW c \in DOMAIN host'.cores
          PROVE  /\ \A f \in CpuFields : r.host.cores[c][f] <= host'.cores[c][f]
                 /\ SumTicks(host'.cores[c]) - SumTicks(r.host.cores[c]) = clock' - r.at
      <4>1. c \in DOMAIN host.cores /\ c \in DOMAIN r.host.cores /\ host'.cores[c] = cores2[c]
        BY <1>4, <1>8, <2>1 DEF CpuReached
      <4>2. ASSUME NEW f \in CpuFields PROVE r.host.cores[c][f] <= host'.cores[c][f]
        <5>1. /\ r.host.cores[c][f] \in Nat /\ host.cores[c][f] \in Nat /\ cores2[c][f] \in Nat
              /\ r.host.cores[c][f] <= host.cores[c][f] /\ host.cores[c][f] <= cores2[c][f]
          BY <1>3, <1>9, <2>1, <4>1 DEF HostShape, Times, CpuReached
        <5> QED
          BY <4>1, <5>1
      <4>3. /\ SumTicks(host.cores[c]) \in Nat /\ SumTicks(r.host.cores[c]) \in Nat
            /\ SumTicks(cores2[c]) = SumTicks(host.cores[c]) + 1
            /\ SumTicks(host.cores[c]) - SumTicks(r.host.cores[c]) = clock - r.at
        BY <1>3, <1>9, <2>1, <4>1, SumIsNat DEF HostShape, CpuReached
      <4> QED
        BY <1>1, <1>3, <2>1, <4>1, <4>2, <4>3
    <3>3. ASSUME DOMAIN r.host.cores = DOMAIN host'.cores
          PROVE  SumTicks(host'.total) - SumTicks(r.host.total) = (clock' - r.at) * Cardinality(DOMAIN host'.cores)
      <4>1. DOMAIN host'.cores = DOMAIN host.cores
        BY <1>4, <1>8
      <4>2. /\ SumTicks(host.total) \in Nat /\ SumTicks(r.host.total) \in Nat
            /\ SumTicks(host.total) - SumTicks(r.host.total) = (clock - r.at) * n
        BY <1>3, <2>1, <3>3, <4>1, SumIsNat DEF HostShape, CpuReached
      <4>3. Cardinality(DOMAIN host'.cores) = n /\ n \in {1, 2}
        BY <2>2, <4>1
      <4> HIDE DEF n
      <4> QED
        BY <1>1, <1>3, <2>1, <2>3, <4>2, <4>3
    <3> QED
      BY <2>1, <3>1, <3>2, <3>3 DEF CpuReached
  <2> QED
    BY <1>1, <1>3, <2>1, <2>4 DEF Reached
<1>12. UNCHANGED <<base, scan, snap, readings, focus>>
  BY <1>1
<1> QED
  BY <1>10, <1>11, <1>12, RatesFrame

(* The time passes while the counters stand still.                         *)
LEMMA StillRates ==
  ASSUME RatesInv, MachineOK, UNCHANGED <<host, base, scan, snap, readings, focus>>,
         clock' \in Nat, clock <= clock', focus = "cpu" => clock' = clock
  PROVE  RatesInv'
<1>1. HostShape(host') /\ Latest' = Latest /\ clock \in Nat
  BY DEF RatesInv, Latest, MachineOK
<1>2. readings # <<>> => Reached(Latest)'
  BY <1>1 DEF RatesInv, Reached, CpuReached, DiskReached, NetReached
<1> QED
  BY <1>1, <1>2, RatesFrame

(* The second core goes away.                                              *)
LEMMA UnplugRates ==
  ASSUME RatesInv, MachineOK, Unplug
  PROVE  RatesInv'
<1> DEFINE one == [c \in {1} |-> host.cores[c]]
<1>1. /\ focus = "cpu" /\ 2 \in DOMAIN host.cores /\ host' = [host EXCEPT !.cores = one]
      /\ UNCHANGED <<base, scan, snap, readings, focus, clock>>
  BY DEF Unplug, Event, collector
<1>2. HostShape(host)
  BY DEF RatesInv
<1>3. host' = [total |-> host.total, cores |-> one, disk |-> host.disk, net |-> host.net]
  <2> HIDE DEF one
  <2> QED
    BY <1>1, <1>2 DEF HostShape
<1>4. /\ DOMAIN host.cores = {1, 2} /\ DOMAIN one = {1} /\ one = [c \in DOMAIN one |-> one[c]]
      /\ one[1] = host.cores[1] /\ Times(host.cores[1])
  BY <1>1, <1>2 DEF HostShape
<1> HIDE DEF one
<1>5. HostShape(host')
  BY <1>2, <1>3, <1>4 DEF HostShape
<1>6. ASSUME readings # <<>> PROVE Reached(Latest)'
  <2> DEFINE r == Latest
  <2>1. /\ r' = r /\ r.at \in Nat /\ r.at <= clock /\ HostShape(r.host) /\ CpuReached(r)
        /\ r = [at |-> r.at, host |-> r.host]
    BY <1>1, <1>6 DEF RatesInv, Reached, Latest
  <2>2. host'.total = host.total /\ host'.cores = one
    BY <1>3
  <2>3. DOMAIN r.host.cores # DOMAIN one /\ {1} \subseteq DOMAIN r.host.cores
    BY <1>4, <2>1 DEF CpuReached
  <2>4. /\ \A f \in CpuFields : r.host.cores[1][f] <= one[1][f]
        /\ SumTicks(one[1]) - SumTicks(r.host.cores[1]) = clock - r.at
    BY <1>4, <2>1 DEF CpuReached
  <2>5. \A f \in CpuFields : r.host.total[f] <= host'.total[f]
    BY <2>1, <2>2 DEF CpuReached
  <2>6. CpuReached(r)'
    BY <1>1, <1>4, <2>1, <2>2, <2>3, <2>4, <2>5 DEF CpuReached
  <2> QED
    BY <1>1, <2>1, <2>6 DEF Reached
<1> QED
  BY <1>1, <1>5, <1>6, RatesFrame

(* The disk works, or is another one.                                      *)
LEMMA DiskMovesRates ==
  ASSUME RatesInv, MachineOK, focus = "disk", UNCHANGED <<base, scan, snap, readings, focus, clock>>,
         NEW d \in DiskRecords, host' = [host EXCEPT !.disk = [@ EXCEPT !["sda"] = d]],
         host.disk["sda"].plugged <= d.plugged,
         d.plugged = host.disk["sda"].plugged => \A f \in DiskCounters : host.disk["sda"][f] <= d[f]
  PROVE  RatesInv'
<1> DEFINE disk == [host.disk EXCEPT !["sda"] = d]
<1>1. HostShape(host) /\ host' = [host EXCEPT !.disk = disk]
  BY DEF RatesInv
<1>2. disk \in [{"sda"} -> DiskRecords] /\ disk["sda"] = d
  BY <1>1 DEF HostShape
<1> HIDE DEF disk
<1>3. host' = [total |-> host.total, cores |-> host.cores, disk |-> disk, net |-> host.net]
  BY <1>1 DEF HostShape
<1>4. HostShape(host')
  BY <1>1, <1>2, <1>3 DEF HostShape
<1>5. ASSUME readings # <<>> PROVE Reached(Latest)'
  <2> DEFINE r == Latest
             was == r.host.disk["sda"]
             now == host.disk["sda"]
  <2>1. /\ r' = r /\ r.at \in Nat /\ r.at <= clock /\ HostShape(r.host) /\ DiskReached(r)
        /\ r = [at |-> r.at, host |-> r.host] /\ host'.disk["sda"] = d
    BY <1>2, <1>3, <1>5 DEF RatesInv, Reached, Latest
  <2>2. was \in DiskRecords /\ now \in DiskRecords
    BY <1>1, <2>1 DEF HostShape
  <2>3. was.plugged <= now.plugged /\ (was.plugged = now.plugged => \A f \in DiskCounters : was[f] <= now[f])
    BY <2>1 DEF DiskReached
  <2>4. was.plugged \in Nat /\ now.plugged \in Nat /\ d.plugged \in Nat
    BY <2>2 DEF DiskRecords
  <2>5. \A f \in DiskCounters : was[f] \in Nat /\ now[f] \in Nat /\ d[f] \in Nat
    BY <2>2, DiskFields
  <2>6. now.plugged <= d.plugged /\ (d.plugged = now.plugged => \A f \in DiskCounters : now[f] <= d[f])
    OBVIOUS
  <2> HIDE DEF was, now
  <2>7. was.plugged <= d.plugged /\ (was.plugged = d.plugged => \A f \in DiskCounters : was[f] <= d[f])
    BY <2>3, <2>4, <2>5, <2>6
  <2>8. DiskReached(r)'
    BY <2>1, <2>7 DEF DiskReached, was
  <2> QED
    BY <2>1, <2>8 DEF Reached
<1> QED
  BY <1>4, <1>5, RatesFrame

LEMMA DiskWorksRates ==
  ASSUME RatesInv, MachineOK, NEW bytes \in {0, 1}, DiskWorks(bytes)
  PROVE  RatesInv'
<1> DEFINE now == host.disk["sda"]
           d == [now EXCEPT !.readsCompleted = @ + 1, !.sectorsRead = @ + bytes, !.ioMillis = @ + 1]
<1>1. /\ focus = "disk" /\ UNCHANGED <<base, scan, snap, readings, focus, clock>>
      /\ host' = [host EXCEPT !.disk["sda"].readsCompleted = @ + 1,
                              !.disk["sda"].sectorsRead = @ + bytes,
                              !.disk["sda"].ioMillis = @ + 1]
  BY DEF DiskWorks, Event, collector
<1>2. HostShape(host) /\ now \in DiskRecords
  BY DEF RatesInv, HostShape
<1>3. host' = [host EXCEPT !.disk = [@ EXCEPT !["sda"] = d]]
  <2>1. host = [total |-> host.total, cores |-> host.cores, disk |-> host.disk, net |-> host.net]
        /\ host.disk = [x \in {"sda"} |-> host.disk[x]]
    BY <1>2 DEF HostShape
  <2> QED
    BY <1>1, <1>2, <2>1 DEF DiskRecords
<1>4. /\ d \in DiskRecords /\ d.plugged = now.plugged
      /\ \A f \in DiskCounters : now[f] <= d[f]
  <2>1. /\ d \in DiskRecords /\ d.plugged = now.plugged
        /\ now["readsCompleted"] <= d["readsCompleted"] /\ now["writesCompleted"] <= d["writesCompleted"]
        /\ now["sectorsRead"] <= d["sectorsRead"] /\ now["sectorsWritten"] <= d["sectorsWritten"]
        /\ now["ioMillis"] <= d["ioMillis"]
    <3>1. /\ now.readsCompleted \in Nat /\ now.writesCompleted \in Nat /\ now.sectorsRead \in Nat
          /\ now.sectorsWritten \in Nat /\ now.ioMillis \in Nat
      BY <1>2, DiskFields DEF DiskCounters
    <3>2. /\ d.readsCompleted = now.readsCompleted + 1 /\ d.sectorsRead = now.sectorsRead + bytes
          /\ d.ioMillis = now.ioMillis + 1 /\ d.writesCompleted = now.writesCompleted
          /\ d.sectorsWritten = now.sectorsWritten /\ d.plugged = now.plugged
      <4> HIDE DEF now
      <4> QED
        BY <1>2 DEF DiskRecords
    <3>3. d \in DiskRecords
      <4> HIDE DEF now
      <4>1. DOMAIN d = DOMAIN now /\ d.inFlight = now.inFlight /\ d.pseudo = now.pseudo
        BY <1>2 DEF DiskRecords
      <4>2. d = [k \in DOMAIN now |-> d[k]]
        OBVIOUS
      <4>3. /\ d.readsCompleted \in Nat /\ d.writesCompleted \in Nat /\ d.sectorsRead \in Nat
            /\ d.sectorsWritten \in Nat /\ d.ioMillis \in Nat
        BY <3>1, <3>2
      <4> HIDE DEF d
      <4> QED
        BY <1>2, <3>2, <4>1, <4>2, <4>3 DEF DiskRecords
    <3> HIDE DEF d, now
    <3> QED
      BY <3>1, <3>2, <3>3
  <2> HIDE DEF d, now
  <2> QED
    BY <2>1 DEF DiskCounters
<1>5. now.plugged \in Nat
  BY <1>2 DEF DiskRecords
<1> HIDE DEF d
<1>6. now.plugged <= d.plugged /\ (d.plugged = now.plugged => \A f \in DiskCounters : now[f] <= d[f])
  BY <1>4, <1>5
<1> QED
  BY <1>1, <1>3, <1>4, <1>6, DiskMovesRates

LEMMA DiskReplacedRates ==
  ASSUME RatesInv, MachineOK, DiskReplaced
  PROVE  RatesInv'
<1> DEFINE now == host.disk["sda"]
           d == [Disk0 EXCEPT !.plugged = now.plugged + 1]
<1>1. /\ focus = "disk" /\ UNCHANGED <<base, scan, snap, readings, focus, clock>>
      /\ host' = [host EXCEPT !.disk["sda"] = d]
  BY DEF DiskReplaced, Event, collector
<1>2. now.plugged \in Nat
  BY DEF RatesInv, HostShape, DiskRecords
<1>3. d \in DiskRecords /\ d.plugged = now.plugged + 1
  <2> DEFINE n == now.plugged + 1
  <2>1. n \in Nat
    BY <1>2
  <2> HIDE DEF n
  <2>2. [Disk0 EXCEPT !.plugged = n] \in DiskRecords /\ [Disk0 EXCEPT !.plugged = n].plugged = n
    BY <2>1 DEF Disk0, DiskRecords
  <2> QED
    BY <2>2 DEF n
<1> HIDE DEF d
<1>4. host' = [host EXCEPT !.disk = [@ EXCEPT !["sda"] = d]]
  BY <1>1
<1> QED
  BY <1>1, <1>2, <1>3, <1>4, DiskMovesRates

(* Bytes arrive.                                                           *)
LEMMA NetWorksRates ==
  ASSUME RatesInv, MachineOK, NetWorks
  PROVE  RatesInv'
<1> DEFINE now == host.net["eth0"]
           next == [now EXCEPT !["rxBytes"] = @ + 1]
           net == [host.net EXCEPT !["eth0"] = next]
<1>1. /\ focus = "net" /\ UNCHANGED <<base, scan, snap, readings, focus, clock>>
      /\ host' = [host EXCEPT !.net["eth0"]["rxBytes"] = @ + 1]
  BY DEF NetWorks, Event, collector
<1>2. HostShape(host) /\ now \in [NetFields -> Nat] /\ host.net = [x \in {"eth0"} |-> host.net[x]]
  BY DEF RatesInv, HostShape
<1>3. next \in [NetFields -> Nat] /\ \A f \in NetFields : now[f] <= next[f]
  <2> HIDE DEF now
  <2>1. next = [f \in NetFields |-> IF f = "rxBytes" THEN now[f] + 1 ELSE now[f]]
    BY <1>2
  <2>2. \A f \in NetFields : now[f] \in Nat
    BY <1>2
  <2> HIDE DEF next
  <2> QED
    BY <2>1, <2>2
<1>4. host' = [host EXCEPT !.net = net]
  BY <1>1
<1> HIDE DEF next
<1>5. net \in [{"eth0"} -> [NetFields -> Nat]] /\ net["eth0"] = next
  BY <1>2, <1>3
<1> HIDE DEF net
<1>6. host' = [total |-> host.total, cores |-> host.cores, disk |-> host.disk, net |-> net]
  BY <1>2, <1>4 DEF HostShape
<1>7. HostShape(host')
  BY <1>2, <1>5, <1>6 DEF HostShape
<1>8. ASSUME readings # <<>> PROVE Reached(Latest)'
  <2> DEFINE r == Latest
             was == r.host.net["eth0"]
  <2>1. /\ r' = r /\ r.at \in Nat /\ r.at <= clock /\ HostShape(r.host) /\ NetReached(r)
        /\ r = [at |-> r.at, host |-> r.host] /\ host'.net["eth0"] = next
    BY <1>1, <1>5, <1>6, <1>8 DEF RatesInv, Reached, Latest
  <2>2. was \in [NetFields -> Nat] /\ \A f \in NetFields : was[f] <= now[f]
    BY <2>1 DEF HostShape, NetReached
  <2>3. \A f \in NetFields : was[f] \in Nat /\ now[f] \in Nat /\ next[f] \in Nat
    BY <1>2, <1>3, <2>2
  <2> HIDE DEF was, now
  <2>4. \A f \in NetFields : was[f] <= next[f]
    BY <1>3, <2>2, <2>3
  <2>5. NetReached(r)'
    BY <2>1, <2>4 DEF NetReached, was
  <2> QED
    BY <1>1, <2>1, <2>5 DEF Reached
<1> QED
  BY <1>1, <1>7, <1>8, RatesFrame

(* What a collection takes in of the counters.                             *)
LEMMA Collected ==
  ASSUME NEW errno, NEW files, BeginCollect(errno, files),
         base = [cpu |-> base.cpu, disk |-> base.disk, net |-> base.net, proc |-> base.proc]
  PROVE  LET cpu  == BuildCpuSnapshot(StatFile(errno), base.cpu, BootId, clock)
             disk == BuildDiskSnapshot(DiskstatsFile(errno), base.disk, clock)
             net  == BuildNetworkSnapshot(NetDevFile(errno), Links, base.net, clock)
         IN  /\ scan = Nothing /\ UNCHANGED <<focus, clock, host, snap>>
             /\ base' = [cpu |-> cpu.previous, disk |-> disk.previous, net |-> net.previous, proc |-> base.proc]
             /\ readings' = IF errno = "0" /\ focus \in {"cpu", "disk", "net"} THEN Append(readings, Truth)
                            ELSE readings
             /\ (scan # Nothing /\ ScanShape)' /\ scan'.parts.cpu = cpu.snapshot
             /\ scan'.parts.disk = disk.snapshot /\ scan'.parts.net = net.snapshot
             /\ gauges' = files /\ scan'.parts.memory = BuildMemorySnapshot(files.mem)
             /\ scan'.parts.thermal = DiscoverThermal(files.zones, files.hwmon, PackageNames)
             /\ \E id : /\ scan'.parts.identity = id
                       /\ scan'.parts.load =
                            BuildLoadSnapshot(files.load,
                                              IF HasValue(id.logicalCpus) THEN id.logicalCpus.value ELSE Null)
<1> DEFINE cpu  == BuildCpuSnapshot(StatFile(errno), base.cpu, BootId, clock)
           disk == BuildDiskSnapshot(DiskstatsFile(errno), base.disk, clock)
           net  == BuildNetworkSnapshot(NetDevFile(errno), Links, base.net, clock)
<1>1. /\ scan = Nothing /\ UNCHANGED <<focus, clock, work, kernel, snap, sampler>> /\ gauges' = files
      /\ base' = [base EXCEPT !.cpu = cpu.previous, !.disk = disk.previous, !.net = net.previous]
      /\ readings' = IF errno = "0" /\ focus \in {"cpu", "disk", "net"} THEN Append(readings, Truth) ELSE readings
  BY Zenon DEF BeginCollect
<1> DEFINE id   == BuildIdentity(BootId, files.cpuinfo, StatFile(errno), files.mem)
           cpus == IF HasValue(id.logicalCpus) THEN id.logicalCpus.value ELSE Null
           memory == BuildMemorySnapshot(files.mem)
           load == BuildLoadSnapshot(files.load, cpus)
           pressure == BuildPressure([r \in {"cpu", "memory", "io"} |-> files.pressure])
           filesystems == BuildFilesystems(<<[point |-> "/", statfs |-> files.statfs]>>, NoFile("EACCES"))
           thermal == DiscoverThermal(files.zones, files.hwmon, PackageNames)
           frequency == DiscoverFrequency(Text({"policy0"}), <<"policy0">>, [p \in {"policy0"} |-> Policy])
<1>2. scan' = [at |-> clock, left |-> Listed, began |-> table, stat |-> Nothing, found |-> Discovery(Listed),
               errors |-> IdentityErrors(id),
               parts |-> [cpu |-> cpu.snapshot, disk |-> disk.snapshot, net |-> net.snapshot, identity |-> id,
                          memory |-> memory, load |-> load, pressure |-> pressure, filesystems |-> filesystems,
                          thermal |-> thermal, frequency |-> frequency]]
  BY Zenon DEF BeginCollect
<1> HIDE DEF id, memory, load, pressure, filesystems, thermal, frequency
<1> HIDE DEF cpu, disk, net
<1>3. base' = [cpu |-> cpu.previous, disk |-> disk.previous, net |-> net.previous, proc |-> base.proc]
  BY <1>1
<1>4. (scan # Nothing /\ ScanShape)'
  BY <1>2 DEF Nothing, ScanShape
<1>5. scan'.parts.cpu = cpu.snapshot /\ scan'.parts.disk = disk.snapshot /\ scan'.parts.net = net.snapshot
  BY <1>2
<1>6. UNCHANGED <<focus, clock, host, snap>>
  BY <1>1 DEF kernel
<1>7. /\ scan'.parts.memory = memory /\ scan'.parts.thermal = thermal
      /\ scan'.parts.identity = id /\ scan'.parts.load = load
  BY <1>2
<1>8. scan'.parts.load = BuildLoadSnapshot(files.load, cpus)
  BY <1>7 DEF load
<1> HIDE DEF load
<1>9. \E x : /\ scan'.parts.identity = x
            /\ scan'.parts.load =
                 BuildLoadSnapshot(files.load, IF HasValue(x.logicalCpus) THEN x.logicalCpus.value ELSE Null)
  BY <1>7, <1>8, Zenon
<1> QED
  BY <1>1, <1>3, <1>4, <1>5, <1>6, <1>7, <1>9 DEF cpu, disk, net, memory, thermal

LEMMA BeginCollectRates ==
  ASSUME RatesInv, MachineOK, NEW errno \in {"0", "EACCES"}, NEW files, BeginCollect(errno, files)
  PROVE  RatesInv'
<1> DEFINE cpu  == BuildCpuSnapshot(StatFile(errno), base.cpu, BootId, clock)
           disk == BuildDiskSnapshot(DiskstatsFile(errno), base.disk, clock)
           net  == BuildNetworkSnapshot(NetDevFile(errno), Links, base.net, clock)
           parts == scan.parts
<1>1. /\ HostShape(host) /\ BaseOK /\ clock \in Nat /\ (readings # <<>> => Reached(Latest))
      /\ base = [cpu |-> base.cpu, disk |-> base.disk, net |-> base.net, proc |-> base.proc]
  BY DEF RatesInv, MachineOK, BaseOK
<1>2. /\ UNCHANGED <<focus, clock, host, snap>>
      /\ base' = [cpu |-> cpu.previous, disk |-> disk.previous, net |-> net.previous, proc |-> base.proc]
      /\ readings' = IF errno = "0" /\ focus \in {"cpu", "disk", "net"} THEN Append(readings, Truth) ELSE readings
      /\ (scan # Nothing /\ ScanShape)' /\ parts'.cpu = cpu.snapshot
      /\ parts'.disk = disk.snapshot /\ parts'.net = net.snapshot
  BY <1>1, Collected
<1>3. PICK Any : readings \in Seq(Any)
  BY DEF RatesInv
<1>4. ~Settled'
  BY <1>2 DEF Settled
<1>5. Truth = [at |-> clock, host |-> host] /\ Truth.at = clock /\ Truth.host = host
  BY DEF Truth
<1>6. /\ HostShape(host') /\ base'.cpu = cpu.previous /\ base'.disk = disk.previous /\ base'.net = net.previous
      /\ base' = [cpu |-> base'.cpu, disk |-> base'.disk, net |-> base'.net, proc |-> base'.proc]
  BY <1>1, <1>2
<1>7. CASE errno = "0" /\ focus \in {"cpu", "disk", "net"}
  <2>1. readings' = Append(readings, Truth)
    BY <1>2, <1>7
  <2>2. readings' \in Seq(Any \cup {Truth}) /\ Latest' = Truth /\ readings' # <<>>
    BY <1>3, <2>1, Grown
  <2>3. /\ StatFile(errno) = File(StatText) /\ DiskstatsFile(errno) = File(host.disk)
        /\ NetDevFile(errno) = File(host.net)
    BY <1>7 DEF StatFile, DiskstatsFile, NetDevFile, CounterFile
  <2>4. Reached(Latest)'
    <3>1. \A t : Times(t) => SumTicks(t) - SumTicks(t) = 0
      BY SumIsNat
    <3>2. \A t : Times(t) => \A f \in CpuFields : t[f] <= t[f]
      BY DEF Times
    <3>3. Cardinality(DOMAIN host.cores) \in Nat
      BY <1>1, CoreCount DEF HostShape
    <3>4. CpuReached(Truth)
      BY <1>1, <1>5, <3>1, <3>2, <3>3 DEF CpuReached, HostShape
    <3>5. DiskReached(Truth)
      <4>1. host.disk["sda"] \in DiskRecords
        BY <1>1 DEF HostShape
      <4>2. host.disk["sda"].plugged \in Nat /\ \A f \in DiskCounters : host.disk["sda"][f] \in Nat
        BY <4>1, DiskFields DEF DiskRecords
      <4> QED
        BY <1>5, <4>2 DEF DiskReached
    <3>6. NetReached(Truth)
      BY <1>1, <1>5 DEF NetReached, HostShape
    <3>7. Reached(Truth)
      BY <1>1, <1>5, <3>4, <3>5, <3>6 DEF Reached
    <3> QED
      BY <1>2, <2>2, <3>7 DEF Reached, CpuReached, DiskReached, NetReached
  <2>5. /\ focus = "cpu" => base'.cpu = CpuBase(Truth)
        /\ focus = "disk" => base'.disk = DiskBase(Truth)
        /\ focus = "net" => base'.net = NetBase(Truth)
    BY <1>1, <1>6, <2>3, CpuKept, DiskBuilt, NetBuilt
  <2>6. BaseOK'
    BY <1>2, <1>6, <2>2, <2>5 DEF BaseOK
  <2>7. Real(parts)'
    <3>1. focus = "cpu" => CpuRatesAreReal(parts)'
      BY <1>1, <1>2, <1>3, <2>1, <2>3, CpuRead
    <3>2. focus = "disk" => DiskRatesAreReal(parts)'
      BY <1>1, <1>2, <1>3, <2>1, <2>3, DiskCollected
    <3>3. focus = "net" => NetRatesAreReal(parts)'
      BY <1>1, <1>2, <1>3, <2>1, <2>3, NetCollected
    <3> QED
      BY <1>2, <3>1, <3>2, <3>3 DEF Real
  <2> QED
    BY <1>2, <1>4, <1>6, <2>2, <2>4, <2>6, <2>7 DEF RatesInv
<1>8. CASE ~(errno = "0" /\ focus \in {"cpu", "disk", "net"})
  <2>1. readings' = readings /\ Latest' = Latest
    BY <1>2, <1>8 DEF Latest
  <2>2. readings # <<>> => Reached(Latest)'
    BY <1>1, <1>2, <2>1 DEF Reached, CpuReached, DiskReached, NetReached
  <2>3. focus \in {"cpu", "disk", "net"} => errno # "0"
    BY <1>8
  <2>4. /\ focus = "cpu" => StatFile(errno) = NoFile(errno)
        /\ focus = "disk" => DiskstatsFile(errno) = NoFile(errno)
        /\ focus = "net" => NetDevFile(errno) = NoFile(errno)
    BY <2>3 DEF StatFile, DiskstatsFile, NetDevFile, CounterFile
  <2>5. focus = "cpu" => ~HasValue(parts'.cpu.currentTimes) /\ (base.cpu # Nothing => base'.cpu = base.cpu)
    <3> SUFFICES ASSUME focus = "cpu"
                 PROVE  ~HasValue(parts'.cpu.currentTimes) /\ (base.cpu # Nothing => base'.cpu = base.cpu)
      OBVIOUS
    <3>1. errno # "0" /\ cpu = BuildCpuSnapshot(NoFile(errno), base.cpu, BootId, clock)
      BY <2>3, <2>4
    <3>2. /\ ~HasValue(cpu.snapshot.currentTimes)
          /\ base.cpu # Nothing => cpu.previous = base.cpu
      BY <3>1, StatUnread
    <3> HIDE DEF cpu
    <3> QED
      BY <1>2, <1>6, <3>2
  <2>6. focus = "disk" => parts'.disk = <<>> /\ base'.disk = CarriedDisk(base.disk, clock)
    <3> SUFFICES ASSUME focus = "disk" PROVE parts'.disk = <<>> /\ base'.disk = CarriedDisk(base.disk, clock)
      OBVIOUS
    <3>1. errno # "0" /\ disk = BuildDiskSnapshot(NoFile(errno), base.disk, clock)
      BY <2>3, <2>4
    <3>2. disk.snapshot = <<>> /\ disk.previous = CarriedDisk(base.disk, clock)
      BY <3>1, DiskUnread
    <3> HIDE DEF disk
    <3> QED
      BY <1>2, <1>6, <3>2
  <2>7. focus = "net" => /\ parts'.net = <<>>
                         /\ base'.net = IF base.net # Nothing THEN base.net ELSE [interfaces |-> <<>>, atMs |-> clock]
    BY <1>2, <1>6, <2>3, <2>4, NetUnread
  <2>8. BaseOK'
    <3>1. \A r : CpuBase(r) # Nothing /\ DiskBase(r) # Nothing /\ NetBase(r) # Nothing
      BY DEF CpuBase, DiskBase, NetBase, Nothing
    <3>2. focus = "cpu" /\ readings # <<>> => base'.cpu = CpuBase(Latest)
      BY <1>1, <2>5, <3>1 DEF BaseOK
    <3>3. focus = "disk" => IF readings # <<>> THEN base'.disk = DiskBase(Latest)
                            ELSE base'.disk # Nothing => base'.disk.devices = <<>>
      BY <1>1, <2>6, <3>1 DEF BaseOK, CarriedDisk
    <3>4. focus = "net" => IF readings # <<>> THEN base'.net = NetBase(Latest)
                           ELSE base'.net # Nothing => base'.net.interfaces = <<>>
      BY <1>1, <2>7, <3>1 DEF BaseOK
    <3> QED
      BY <1>2, <1>6, <2>1, <3>2, <3>3, <3>4 DEF BaseOK
  <2>9. Real(parts)'
    <3>1. DOMAIN <<>> = {}
      OBVIOUS
    <3>2. focus = "cpu" => CpuRatesAreReal(parts)'
      BY <2>5 DEF CpuRatesAreReal
    <3>3. focus = "disk" => DiskRatesAreReal(parts)'
      BY <2>6, <3>1 DEF DiskRatesAreReal
    <3>4. focus = "net" => NetRatesAreReal(parts)'
      BY <2>7, <3>1 DEF NetRatesAreReal
    <3> QED
      BY <1>2, <3>2, <3>3, <3>4 DEF Real
  <2> QED
    BY <1>2, <1>3, <1>4, <1>6, <2>1, <2>2, <2>8, <2>9 DEF RatesInv
<1> QED
  BY <1>7, <1>8

(* The reads of the processes change nothing of the parts.                 *)
LEMMA PartsStay ==
  ASSUME ScanShape, ReadStat \/ ReadRest
  PROVE  /\ scan # Nothing /\ UNCHANGED <<focus, clock, host, gauges, base, snap, readings>>
         /\ (scan # Nothing /\ ScanShape)' /\ scan'.parts = scan.parts
<1>1. /\ scan # Nothing /\ UNCHANGED <<focus, clock, host, gauges, base, snap, readings>>
      /\ \E stat, left, found : scan' = [scan EXCEPT !.stat = stat, !.left = left, !.found = found]
  <2>1. CASE ReadStat
    <3>1. /\ scan # Nothing
          /\ UNCHANGED <<focus, clock, work, kernel, gauges, base, sequence, snap, readings, sampler>>
          /\ scan' = [scan EXCEPT !.stat = StatFileOf(Head(scan.left))]
      BY <2>1 DEF ReadStat
    <3>2. scan' = [scan EXCEPT !.stat = StatFileOf(Head(scan.left)), !.left = scan.left, !.found = scan.found]
      BY <3>1 DEF ScanShape
    <3> QED
      BY <3>1, <3>2 DEF kernel
  <2>2. CASE ReadRest
    <3> DEFINE found == Discovered(scan.found, ReadHostProcess(Head(scan.left), scan.stat, RestOf(Head(scan.left)), 1,
                                                               BootId, base.proc.identities, scan.at - base.proc.at),
                                   MaxSampled)
    <3>1. /\ scan # Nothing
          /\ UNCHANGED <<focus, clock, work, kernel, gauges, base, sequence, snap, readings, sampler>>
          /\ scan' = [scan EXCEPT !.stat = Nothing, !.left = Tail(scan.left), !.found = found]
      BY Zenon, <2>2 DEF ReadRest
    <3> HIDE DEF found
    <3> QED
      BY <3>1 DEF kernel
  <2> QED
    BY <2>1, <2>2
<1>2. PICK stat, left, found : scan' = [scan EXCEPT !.stat = stat, !.left = left, !.found = found]
  BY <1>1
<1>3. scan' = [at |-> scan.at, left |-> left, began |-> scan.began, stat |-> stat, found |-> found,
               errors |-> scan.errors, parts |-> scan.parts]
  BY <1>2 DEF ScanShape
<1>4. (scan # Nothing /\ ScanShape)' /\ scan'.parts = scan.parts
  BY <1>3 DEF ScanShape, Nothing
<1> QED
  BY <1>1, <1>4

LEMMA ScanRates ==
  ASSUME RatesInv, ReadStat \/ ReadRest
  PROVE  RatesInv'
<1>1. scan # Nothing
  BY DEF ReadStat, ReadRest
<1>2. ScanShape /\ Real(scan.parts)
  BY <1>1 DEF RatesInv
<1>3. /\ UNCHANGED <<focus, clock, host, base, snap, readings>>
      /\ (scan # Nothing /\ ScanShape)' /\ scan'.parts = scan.parts
  BY <1>2, PartsStay
<1>4. Latest' = Latest /\ Prior' = Prior /\ ~Settled'
  BY <1>3 DEF Latest, Prior, Settled
<1>5. Real(scan.parts)'
  BY <1>2, <1>3, <1>4 DEF Real, CpuRatesAreReal, DiskRatesAreReal, NetRatesAreReal, Two, Elapsed
<1>6. HostShape(host') /\ BaseOK' /\ (\E Any : readings' \in Seq(Any)) /\ (readings # <<>> => Reached(Latest))'
  BY <1>3, <1>4 DEF RatesInv, BaseOK, Reached, CpuReached, DiskReached, NetReached
<1> QED
  BY <1>3, <1>4, <1>5, <1>6 DEF RatesInv

(* The snapshot has the rates that were computed when it began.            *)
LEMMA EndCollectRates ==
  ASSUME RatesInv, EndCollect
  PROVE  RatesInv'
<1> DEFINE proc == [identities |-> scan.found.next, at |-> scan.at]
<1>1. /\ scan # Nothing /\ scan' = Nothing /\ base' = [base EXCEPT !.proc = proc]
      /\ UNCHANGED <<focus, clock, work, kernel, gauges, sequence, readings, sampler>>
      /\ snap'.parts = scan.parts
  BY DEF EndCollect
<1>2. UNCHANGED <<focus, clock, host, readings>>
  BY <1>1 DEF kernel
<1>3. Latest' = Latest /\ Prior' = Prior
  BY <1>2 DEF Latest, Prior
<1>4. Real(scan.parts)
  BY <1>1 DEF RatesInv
<1>5. Real(snap.parts)'
  BY <1>1, <1>2, <1>3, <1>4 DEF Real, CpuRatesAreReal, DiskRatesAreReal, NetRatesAreReal, Two, Elapsed
<1> HIDE DEF proc
<1>6. base' = [cpu |-> base.cpu, disk |-> base.disk, net |-> base.net, proc |-> proc]
  BY <1>1 DEF RatesInv, BaseOK
<1>7. HostShape(host') /\ BaseOK' /\ (\E Any : readings' \in Seq(Any)) /\ (readings # <<>> => Reached(Latest))'
  BY <1>2, <1>3, <1>6 DEF RatesInv, BaseOK, Reached, CpuReached, DiskReached, NetReached
<1> QED
  BY <1>1, <1>5, <1>7 DEF RatesInv, Settled

LEMMA InitRates == Init => RatesInv
<1> SUFFICES ASSUME Init PROVE RatesInv
  OBVIOUS
<1> DEFINE cores == [c \in 1..2 |-> ZeroTimes]
           disk == [d \in {"sda"} |-> Disk0]
           net == [i \in {"eth0"} |-> Net0]
           proc == [identities |-> <<>>, at |-> clock]
<1>1. /\ host = [total |-> ZeroTimes, cores |-> cores, disk |-> disk, net |-> net]
      /\ base = [cpu |-> Nothing, disk |-> Nothing, net |-> Nothing, proc |-> proc]
      /\ scan = Nothing /\ snap = Nothing /\ readings = <<>>
  BY Zenon DEF Init
<1>2. Times(ZeroTimes)
  <2>1. Unused \subseteq CpuFields
    BY DEF Unused, CpuFields, CpuFieldOrder
  <2> QED
    BY <2>1 DEF Times, ZeroTimes
<1>3. /\ DOMAIN cores = {1, 2} /\ cores = [c \in DOMAIN cores |-> cores[c]]
      /\ \A c \in DOMAIN cores : Times(cores[c])
  BY <1>2
<1>4. disk \in [{"sda"} -> DiskRecords]
  BY DEF Disk0, DiskRecords
<1>5. net \in [{"eth0"} -> [NetFields -> Nat]]
  BY DEF Net0
<1> HIDE DEF cores, disk, net, proc
<1>6. HostShape(host)
  BY <1>1, <1>2, <1>3, <1>4, <1>5 DEF HostShape
<1>7. BaseOK
  BY <1>1 DEF BaseOK
<1>8. readings \in Seq({}) /\ ~Settled
  BY <1>1 DEF Settled
<1> QED
  BY <1>1, <1>6, <1>7, <1>8 DEF RatesInv

LEMMA RatesSound == Spec => [](MachineOK /\ RatesInv)
<1>1. MachineOK /\ MachineOK' /\ RatesInv /\ [Next]_vars => RatesInv'
  <2> SUFFICES ASSUME MachineOK, MachineOK', RatesInv, [Next]_vars PROVE RatesInv'
    OBVIOUS
  <2>0. clock \in Nat /\ clock' \in Nat
    BY DEF MachineOK
  <2>1. CASE Advance
    <3>1. UNCHANGED <<host, base, scan, snap, readings, focus>> /\ clock' = clock + 1 /\ focus # "cpu"
      BY <2>1 DEF Advance, kernel, collector
    <3> QED
      BY <2>0, <3>1, StillRates
  <2>2. CASE \E one \in {"user", "guest", "iowait"}, two \in {"user", "idle"} : AdvanceCores(<<one, two>>)
    BY <2>2, AdvanceCoresRates
  <2>3. CASE Unplug
    BY <2>3, UnplugRates
  <2>4. CASE \E bytes \in {0, 1} : DiskWorks(bytes)
    BY <2>4, DiskWorksRates
  <2>5. CASE DiskReplaced
    BY <2>5, DiskReplacedRates
  <2>6. CASE NetWorks
    BY <2>6, NetWorksRates
  <2>7. ASSUME NEW pid \in Pids, NEW ppid \in {0, Engine}, Fork(pid, ppid) PROVE RatesInv'
    <3>1. UNCHANGED <<host, base, scan, snap, readings, focus>> /\ clock' = clock + 1 /\ focus # "cpu"
      BY <2>7 DEF Fork, collector
    <3> QED
      BY <2>0, <3>1, StillRates
  <2>8. ASSUME NEW pid \in Pids, Work(pid) \/ End(pid) PROVE RatesInv'
    <3>1. UNCHANGED <<host, base, scan, snap, readings, focus>> /\ clock' = clock
      BY <2>8 DEF Work, End, collector
    <3> QED
      BY <2>0, <3>1, StillRates
  <2>9. ASSUME NEW errno \in {"0", "EACCES"}, NEW files \in GaugeFiles, BeginCollect(errno, files) PROVE RatesInv'
    BY <2>9, BeginCollectRates
  <2>10. CASE ReadStat \/ ReadRest
    BY <2>10, ScanRates
  <2>11. CASE EndCollect
    BY <2>11, EndCollectRates
  <2>12. CASE Track \/ SampleStat \/ SampleRest \/ Untrack \/ UNCHANGED vars
    <3>1. UNCHANGED <<host, base, scan, snap, readings, focus>> /\ clock' = clock
      <4>1. CASE SampleRest
        BY Zenon, <4>1 DEF SampleRest, kernel, collector
      <4> QED
        BY <2>12, <4>1 DEF Track, SampleStat, Untrack, vars, kernel, collector
    <3> QED
      BY <2>0, <3>1, StillRates
  <2> QED
    BY <2>1, <2>2, <2>3, <2>4, <2>5, <2>6, <2>7, <2>8, <2>9, <2>10, <2>11, <2>12 DEF Next
<1>2. Init => RatesInv
  BY InitRates
<1> QED
  BY <1>1, <1>2, MachineSound, PTL DEF Spec

(* The host observation computes no rate that is not one: over the real    *)
(* increase of a counter and the real time since it was last read, however *)
(* many collections failed in between (cpu.ts, disk.ts, network.ts).       *)
THEOREM RatesOfTheHostAreReal == Spec => []RatesAreReal
<1>1. RatesInv => RatesAreReal
  BY DEF RatesInv, Real, RatesAreReal
<1> QED
  BY <1>1, RatesSound, PTL

-----------------------------------------------------------------------------
(* Summaries: they are made of the files of the collection in one go, so   *)
(* all there is to show is what the builders make of any such files.       *)

(* Any set of naturals has a least element.                                *)
LEMMA LeastOf ==
  ASSUME NEW T \in SUBSET Nat, T # {}
  PROVE  \E m \in T : \A k \in T : m <= k
<1> DEFINE R == OpToRel(<, Nat)
<1>1. IsWellFoundedOn(R, Nat)
  BY NatLessThanWellFounded
<1>2. \A x, y \in Nat : x < y => <<x, y>> \in R
  BY DEF OpToRel
<1> HIDE DEF R
<1>3. PICK m \in T : \A k \in T : ~(<<k, m>> \in R)
  BY <1>1, WFMin, Zenon
<1>4. ASSUME NEW k \in T PROVE m <= k
  <2>1. m \in Nat /\ k \in Nat
    BY Zenon
  <2>2. ~(k < m)
    BY <1>2, <1>3, <2>1, Zenon
  <2> QED
    BY <2>1, <2>2
<1> QED
  BY <1>4

(* Among readings that are bounded there is a first of the largest.        *)
LEMMA FirstOfTheLargest ==
  ASSUME NEW Q \in SUBSET Nat, Q # {}, NEW top \in Nat, NEW heat,
         \A k \in Q : heat[k] \in Nat /\ heat[k] <= top
  PROVE  \E i \in Q : \A j \in Q : heat[j] < heat[i] \/ (heat[j] = heat[i] /\ i <= j)
<1> DEFINE gaps == {top - heat[k] : k \in Q}
<1>1. gaps \in SUBSET Nat /\ gaps # {}
  <2>1. \A k \in Q : top - heat[k] \in Nat
    OBVIOUS
  <2> QED
    BY <2>1
<1>2. PICK least \in gaps : \A gap \in gaps : least <= gap
  <2> HIDE DEF gaps
  <2> QED
    BY <1>1, LeastOf
<1>3. PICK a \in Q : least = top - heat[a]
  BY <1>2
<1>4. \A k \in Q : heat[k] <= heat[a]
  <2> TAKE k \in Q
  <2>1. top - heat[a] <= top - heat[k]
    BY <1>2, <1>3
  <2> QED
    BY <2>1
<1> DEFINE largest == {k \in Q : heat[k] = heat[a]}
<1>5. largest \in SUBSET Nat /\ largest # {}
  BY <1>3
<1>6. PICK i \in largest : \A k \in largest : i <= k
  <2> HIDE DEF largest
  <2> QED
    BY <1>5, LeastOf
<1>7. ASSUME NEW j \in Q PROVE heat[j] < heat[i] \/ (heat[j] = heat[i] /\ i <= j)
  <2>1. heat[i] = heat[a] /\ heat[j] <= heat[a]
    BY <1>4, <1>6
  <2> QED
    BY <1>6, <2>1
<1> QED
  BY <1>6, <1>7

(* raw[i] is what the file of sensor i holds, up to top or nothing.        *)
Reads(sensors, raw, top) ==
  \A i \in DOMAIN sensors :
     /\ sensors[i].celsius = MilliToCelsius(raw[i])
     /\ raw[i] = Null \/ (raw[i] \in Nat /\ raw[i] <= top)

ReadingsOf(sensors, raw) == {raw[i] : i \in DOMAIN sensors} \ {Null}

NamedBy(sensors, name, reading) ==
  \E i \in DOMAIN sensors : sensors[i].name = name /\ sensors[i].celsius = Derived(reading)

LEMMA ReadableAre ==
  ASSUME NEW sensors, NEW raw, NEW top, Reads(sensors, raw, top)
  PROVE  /\ Readable(sensors) = {i \in DOMAIN sensors : raw[i] # Null}
         /\ \A i \in Readable(sensors) :
               /\ sensors[i].celsius = Derived(raw[i]) /\ Celsius(sensors[i]) = raw[i]
               /\ sensors[i].celsius.value = raw[i]
               /\ raw[i] \in Nat /\ raw[i] <= top /\ raw[i] \in ReadingsOf(sensors, raw)
         /\ \A r \in ReadingsOf(sensors, raw) : \E i \in Readable(sensors) : r = raw[i]
<1>1. ASSUME NEW i \in DOMAIN sensors
      PROVE  /\ HasValue(sensors[i].celsius) <=> raw[i] # Null
             /\ raw[i] # Null => sensors[i].celsius = Derived(raw[i]) /\ raw[i] \in Nat /\ raw[i] <= top
  BY DEF Reads, HasValue, MilliToCelsius, Missing, Derived
<1>2. \A x : Derived(x).value = x
  BY DEF Derived
<1>3. Readable(sensors) = {i \in DOMAIN sensors : raw[i] # Null}
  BY <1>1 DEF Readable
<1>4. ASSUME NEW i \in Readable(sensors)
      PROVE  /\ sensors[i].celsius = Derived(raw[i]) /\ Celsius(sensors[i]) = raw[i]
             /\ sensors[i].celsius.value = raw[i]
             /\ raw[i] \in Nat /\ raw[i] <= top /\ raw[i] \in ReadingsOf(sensors, raw)
  BY <1>1, <1>2, <1>3 DEF Celsius, ReadingsOf
<1> QED
  BY <1>3, <1>4 DEF ReadingsOf

(* The summary of sensors agrees with them.                                *)
LEMMA SummaryAgrees ==
  ASSUME NEW sensors, DOMAIN sensors \in SUBSET Nat, NEW raw, NEW top \in Nat,
         Reads(sensors, raw, top), NEW points
  PROVE  LET t == Summarise(sensors, points)
             R == ReadingsOf(sensors, raw)
         IN  /\ t.sensors = sensors
             /\ HasValue(t.highestCelsius) <=> R # {}
             /\ R # {} => t.highestCelsius.value = Max(R) /\ NamedBy(sensors, t.highestSensor.value, Max(R))
             /\ HasValue(t.packageCelsius) =>
                  t.packageCelsius.value \in R /\ NamedBy(sensors, t.packageSensor.value, t.packageCelsius.value)
<1> DEFINE t == Summarise(sensors, points)
           R == ReadingsOf(sensors, raw)
           Q == Readable(sensors)
           P == PackageSensors(sensors)
<1>1. /\ Q \in SUBSET Nat /\ Q \in SUBSET DOMAIN sensors
      /\ \A i \in Q : /\ sensors[i].celsius = Derived(raw[i]) /\ Celsius(sensors[i]) = raw[i]
                      /\ sensors[i].celsius.value = raw[i]
                      /\ raw[i] \in Nat /\ raw[i] <= top /\ raw[i] \in R
      /\ \A r \in R : \E i \in Q : r = raw[i]
  BY ReadableAre DEF Readable
<1>2. Q = {} <=> R = {}
  BY <1>1
<1>3. HasValue(t.highestCelsius) <=> Q # {}
  BY DEF Summarise, HasValue, Missing, Derived
<1>4. ASSUME Q # {}
      PROVE  t.highestCelsius.value = Max(R) /\ NamedBy(sensors, t.highestSensor.value, Max(R))
  <2>1. \E i \in Q : \A j \in Q : raw[j] < raw[i] \/ (raw[j] = raw[i] /\ i <= j)
    <3> HIDE DEF Q
    <3> QED
      BY <1>1, <1>4, FirstOfTheLargest
  <2>2. \E i \in Q : \A j \in Q : \/ Celsius(sensors[j]) < Celsius(sensors[i])
                                  \/ Celsius(sensors[j]) = Celsius(sensors[i]) /\ i <= j
    BY <1>1, <2>1
  <2> DEFINE top1 == Hottest(sensors)
  <2>3. top1 \in Q /\ \A j \in Q : raw[j] <= raw[top1]
    <3>1. /\ top1 \in Q
          /\ \A j \in Q : \/ Celsius(sensors[j]) < Celsius(sensors[top1])
                          \/ Celsius(sensors[j]) = Celsius(sensors[top1]) /\ top1 <= j
      BY <2>2 DEF Hottest
    <3> HIDE DEF Q, top1
    <3> QED
      BY <1>1, <3>1
  <2>4. t.highestCelsius = Derived(Celsius(sensors[top1])) /\ t.highestSensor = Observed(sensors[top1].name)
    BY <1>4 DEF Summarise
  <2> HIDE DEF top1, Q, R, t
  <2>5. raw[top1] \in R /\ \A r \in R : raw[top1] >= r
    BY <1>1, <2>3
  <2>6. Max(R) = raw[top1]
    <3>1. \A r \in R : r \in Nat
      BY <1>1
    <3> QED
      BY <2>5, <3>1 DEF Max
  <2>7. /\ t.highestCelsius.value = Celsius(sensors[top1])
        /\ t.highestSensor.value = sensors[top1].name
    BY <2>4 DEF Derived, Observed
  <2>8. /\ top1 \in DOMAIN sensors /\ Celsius(sensors[top1]) = raw[top1]
        /\ sensors[top1].celsius = Derived(raw[top1])
    BY <1>1, <2>3
  <2> QED
    BY <2>6, <2>7, <2>8 DEF NamedBy
<1>5. ASSUME HasValue(t.packageCelsius)
      PROVE  t.packageCelsius.value \in R /\ NamedBy(sensors, t.packageSensor.value, t.packageCelsius.value)
  <2>1. P # {} /\ P \in SUBSET Nat /\ P \in SUBSET Q
    BY <1>1, <1>5 DEF Summarise, HasValue, Missing, PackageSensors
  <2>2. FirstPackage(sensors) \in P
    <3>1. \E i \in P : \A j \in P : i <= j
      <4> HIDE DEF P
      <4> QED
        BY <2>1, LeastOf
    <3> QED
      BY <3>1 DEF FirstPackage
  <2> DEFINE i == FirstPackage(sensors)
  <2>3. /\ t.packageCelsius = Observed(sensors[i].celsius.value)
        /\ t.packageSensor = Observed(sensors[i].name)
    BY <2>1 DEF Summarise
  <2>4. i \in Q
    BY <2>1, <2>2
  <2> HIDE DEF i, P, Q, R, t
  <2> QED
    BY <1>1, <2>3, <2>4 DEF NamedBy, Observed
<1>6. t.sensors = sensors
  BY DEF Summarise
<1> QED
  BY <1>2, <1>3, <1>4, <1>5, <1>6

(* A set of one or two inputs has its elements one after the other.        *)
LEMMA InOrder ==
  ASSUME NEW I \in SUBSET {1, 2}
  PROVE  LET Nth(n) == CHOOSE i \in I : Cardinality({j \in I : j < i}) = n - 1
         IN  /\ Cardinality(I) \in Nat
             /\ \A n \in 1..Cardinality(I) : Nth(n) \in I
             /\ \A i \in I : \E n \in 1..Cardinality(I) : Nth(n) = i
<1> DEFINE Below(i) == {j \in I : j < i}
           Nth(n) == CHOOSE i \in I : Cardinality(Below(i)) = n - 1
<1>1. Cardinality({}) = 0 /\ Cardinality({1}) = 1 /\ Cardinality({2}) = 1
  BY FS_EmptySet, FS_Singleton
<1>2. Cardinality({1, 2}) = 2
  BY CoreCount
<1>3. CASE I = {}
  BY <1>1, <1>3
<1>4. ASSUME NEW a \in {1, 2}, I = {a} PROVE Cardinality(I) = 1 /\ Nth(1) = a
  <2>1. Below(a) = {}
    BY <1>4
  <2>2. Cardinality(I) = 1 /\ Cardinality(Below(a)) = 0
    BY <1>1, <1>4, <2>1
  <2> HIDE DEF Below
  <2> QED
    BY <1>4, <2>2
<1>5. ASSUME I = {1, 2} PROVE Cardinality(I) = 2 /\ Nth(1) = 1 /\ Nth(2) = 2
  <2>1. Below(1) = {} /\ Below(2) = {1}
    BY <1>5
  <2>2. Cardinality(I) = 2 /\ Cardinality(Below(1)) = 0 /\ Cardinality(Below(2)) = 1
    BY <1>1, <1>2, <1>5, <2>1
  <2> HIDE DEF Below
  <2> QED
    BY <1>5, <2>2
<1>6. I = {} \/ I = {1} \/ I = {2} \/ I = {1, 2}
  OBVIOUS
<1>7. /\ Cardinality(I) \in Nat
      /\ \A n \in 1..Cardinality(I) : Nth(n) \in I
      /\ \A i \in I : \E n \in 1..Cardinality(I) : Nth(n) = i
  <2> HIDE DEF Nth
  <2>1. CASE I = {}
    BY <1>1, <2>1
  <2>2. CASE I = {1}
    BY <1>4, <2>2
  <2>3. CASE I = {2}
    BY <1>4, <2>3
  <2>4. CASE I = {1, 2}
    BY <1>5, <2>4
  <2> QED
    BY <1>6, <2>1, <2>2, <2>3, <2>4
<1> QED
  BY <1>7

LEMMA Joined ==
  ASSUME NEW A, NEW B, NEW s \in Seq(A), NEW t \in Seq(B)
  PROVE  /\ DOMAIN (s \o t) = 1 .. Len(s) + Len(t)
         /\ \A i \in 1..Len(s) : (s \o t)[i] = s[i]
         /\ \A n \in 1..Len(t) : (s \o t)[Len(s) + n] = t[n]
OBVIOUS

(* What the temperature files of the zones and inputs hold.                *)
LEMMA TemperatureRead ==
  ASSUME NEW file \in Temperatures PROVE ReadUintFile(file) \in {Null, 1, 2}
<1>1. /\ ReadTextFile(NoFile("EIO")).ok = FALSE
      /\ \A x : ReadTextFile(File(x)).ok = TRUE /\ ReadTextFile(File(x)).text = x
  BY DEF ReadTextFile, NoFile, File, Text, Failed
<1>2. ReadUintFile(NoFile("EIO")) = Null /\ \A x : ReadUintFile(File(x)) = ParseUint(x)
  BY <1>1 DEF ReadUintFile
<1>3. ParseUint(Garbage) = Null /\ ParseUint(1) = 1 /\ ParseUint(2) = 2
  BY DEF ParseUint, Unsigned, Garbage, Null
<1> QED
  BY <1>2, <1>3 DEF Temperatures

ZonesRead(zones) == IF zones.ok THEN {ReadUintFile(zones.text[i].temp) : i \in DOMAIN zones.text} ELSE {}
InputsRead(hwmon) == IF hwmon.ok THEN {ReadUintFile(hwmon.text.inputs[i].input) : i \in 1..2} ELSE {}

(* The sensors of any files: each has what one of the files holds.         *)
LEMMA SensorsRead ==
  ASSUME NEW zones \in ZoneLists, NEW hwmon \in HwmonLists
  PROVE  \E sensors, points, raw :
            /\ DiscoverThermal(zones, hwmon, PackageNames) = Summarise(sensors, points)
            /\ DOMAIN sensors \in SUBSET Nat /\ Reads(sensors, raw, 2)
            /\ ReadingsOf(sensors, raw) = (ZonesRead(zones) \cup InputsRead(hwmon)) \ {Null}
<1> DEFINE listed == IF zones.ok THEN zones.text ELSE <<>>
           inputs == IF hwmon.ok THEN HwmonSensors(hwmon.text) ELSE {}
           Nth(n) == CHOOSE i \in inputs : Cardinality({j \in inputs : j < i}) = n - 1
           count == Cardinality(inputs)
           zoneSensors == [i \in DOMAIN listed |-> ZoneSensor(listed[i], PackageNames)]
           inputSensors == [n \in 1..count |-> HwmonSensor(hwmon.text, Nth(n), PackageNames)]
           sensors == zoneSensors \o inputSensors
           points == [i \in DOMAIN listed |-> DiscoverTripPoints(listed[i])]
           Reading(i) == ReadUintFile(hwmon.text.inputs[i].input)
           raw == [i \in DOMAIN listed |-> ReadUintFile(listed[i].temp)] \o [n \in 1..count |-> Reading(Nth(n))]
<1>1. DiscoverThermal(zones, hwmon, PackageNames) = Summarise(sensors, points)
  BY Zenon DEF DiscoverThermal
<1>2. /\ Len(listed) \in Nat /\ DOMAIN listed = 1..Len(listed)
      /\ \A i \in DOMAIN listed : listed[i].temp \in Temperatures
  <2>1. \A x : Text(x).ok = TRUE /\ Text(x).text = x
    BY DEF Text
  <2>2. Failed("missing").ok = FALSE
    BY DEF Failed
  <2>3. \A type, temp : Zone(type, temp).temp = temp
    BY DEF Zone
  <2>4. listed = <<>> \/ \E type, temp : temp \in Temperatures /\ listed = <<Zone(type, temp)>>
    <3>1. CASE zones = Failed("missing") \/ zones = Text(<<>>)
      BY <2>1, <2>2, <3>1
    <3>2. ASSUME NEW type, NEW temp \in Temperatures, zones = Text(<<Zone(type, temp)>>)
          PROVE  \E t, x : x \in Temperatures /\ listed = <<Zone(t, x)>>
      BY <2>1, <3>2
    <3>3. \/ zones \in {Failed("missing"), Text(<<>>)}
          \/ \E type \in {NoFile("ENOENT"), File("x86_pkg_temp"), File("acpitz")}, temp \in Temperatures :
                zones = Text(<<Zone(type, temp)>>)
      BY DEF ZoneLists
    <3> QED
      BY <3>1, <3>2, <3>3, Zenon
  <2> QED
    BY <2>3, <2>4
<1>3. hwmon.ok => /\ DOMAIN hwmon.text.inputs = 1..2
                  /\ \A i \in 1..2 : hwmon.text.inputs[i].input \in Temperatures
  <2>1. SUFFICES ASSUME hwmon.ok
                 PROVE  /\ DOMAIN hwmon.text.inputs = 1..2
                        /\ \A i \in 1..2 : hwmon.text.inputs[i].input \in Temperatures
    OBVIOUS
  <2>2. hwmon # Failed("missing")
    BY <2>1 DEF Failed
  <2>3. \E name, label : \E one, two \in Temperatures : hwmon = Text(Hwmon(name, label, one, two))
    BY <2>2 DEF HwmonLists
  <2>4. PICK name, label, one, two :
           one \in Temperatures /\ two \in Temperatures /\ hwmon = Text(Hwmon(name, label, one, two))
    BY <2>3, Zenon
  <2>5. hwmon.text.inputs = <<Input("temp1", one, label), Input("temp2", two, label)>>
    BY <2>4 DEF Text, Hwmon
  <2>6. \A prefix, temp : Input(prefix, temp, label).input = temp
    BY DEF Input
  <2> QED
    BY <2>4, <2>5, <2>6
<1>4. inputs = IF hwmon.ok THEN {i \in 1..2 : Reading(i) # Null} ELSE {}
  BY <1>3 DEF HwmonSensors
<1>5. inputs \in SUBSET {1, 2}
  BY <1>4
<1>6. /\ count \in Nat
      /\ \A n \in 1..count : Nth(n) \in inputs
      /\ \A i \in inputs : \E n \in 1..count : Nth(n) = i
  <2> HIDE DEF inputs
  <2> QED
    BY <1>5, InOrder
<1>7. /\ \A i \in DOMAIN listed : ReadUintFile(listed[i].temp) \in {Null, 1, 2}
      /\ \A i \in inputs : Reading(i) \in {1, 2}
  BY <1>2, <1>3, <1>4, TemperatureRead
<1>8. /\ \A i \in DOMAIN listed : zoneSensors[i].celsius = MilliToCelsius(ReadUintFile(listed[i].temp))
      /\ \A n \in 1..count : inputSensors[n].celsius = MilliToCelsius(Reading(Nth(n)))
  BY DEF ZoneSensor, HwmonSensor, Sensor
<1> DEFINE zoneRaw == [i \in DOMAIN listed |-> ReadUintFile(listed[i].temp)]
           inputRaw == [n \in 1..count |-> Reading(Nth(n))]
<1>9. /\ zoneSensors \in Seq({zoneSensors[i] : i \in DOMAIN listed}) /\ Len(zoneSensors) = Len(listed)
      /\ inputSensors \in Seq({inputSensors[n] : n \in 1..count}) /\ Len(inputSensors) = count
      /\ zoneRaw \in Seq({Null, 1, 2}) /\ Len(zoneRaw) = Len(listed)
      /\ inputRaw \in Seq({1, 2}) /\ Len(inputRaw) = count
  <2> HIDE DEF listed, inputs, Reading, Nth, count
  <2> QED
    BY <1>2, <1>6, <1>7
<1>10. /\ DOMAIN sensors = 1 .. Len(listed) + count
       /\ \A i \in 1..Len(listed) : sensors[i] = zoneSensors[i] /\ raw[i] = zoneRaw[i]
       /\ \A n \in 1..count : /\ sensors[Len(listed) + n] = inputSensors[n]
                              /\ raw[Len(listed) + n] = inputRaw[n]
  <2> DEFINE someZones == {zoneSensors[i] : i \in DOMAIN listed}
             someInputs == {inputSensors[n] : n \in 1..count}
  <2> HIDE DEF zoneSensors, inputSensors, zoneRaw, inputRaw, listed, count, someZones, someInputs
  <2>1. zoneSensors \in Seq(someZones) /\ inputSensors \in Seq(someInputs)
    BY <1>9 DEF someZones, someInputs
  <2>2. /\ DOMAIN sensors = 1 .. Len(zoneSensors) + Len(inputSensors)
        /\ \A i \in 1..Len(zoneSensors) : sensors[i] = zoneSensors[i]
        /\ \A n \in 1..Len(inputSensors) : sensors[Len(zoneSensors) + n] = inputSensors[n]
    BY <2>1, Joined
  <2>3. /\ \A i \in 1..Len(zoneRaw) : raw[i] = zoneRaw[i]
        /\ \A n \in 1..Len(inputRaw) : raw[Len(zoneRaw) + n] = inputRaw[n]
    BY <1>9, Joined DEF zoneRaw, inputRaw
  <2> QED
    BY <1>9, <2>2, <2>3
<1>11. \A i \in DOMAIN sensors : i \in 1..Len(listed) \/ \E n \in 1..count : i = Len(listed) + n
  <2> HIDE DEF sensors, listed, count
  <2> TAKE i \in DOMAIN sensors
  <2>1. i \in Int /\ 1 <= i /\ i <= Len(listed) + count
    BY <1>2, <1>6, <1>10
  <2>2. CASE i > Len(listed)
    <3> DEFINE n == i - Len(listed)
    <3>1. n \in 1..count /\ i = Len(listed) + n
      BY <1>2, <1>6, <2>1, <2>2
    <3> QED
      BY <3>1
  <2> QED
    BY <1>2, <2>1, <2>2
<1>12. ASSUME NEW i \in DOMAIN sensors
       PROVE  /\ sensors[i].celsius = MilliToCelsius(raw[i]) /\ raw[i] \in {Null, 1, 2}
              /\ raw[i] # Null => raw[i] \in ZonesRead(zones) \cup InputsRead(hwmon)
  <2>1. CASE i \in 1..Len(listed)
    <3>1. sensors[i].celsius = MilliToCelsius(raw[i]) /\ raw[i] = ReadUintFile(listed[i].temp)
      <4> HIDE DEF sensors, raw, zoneSensors, listed
      <4> QED
        BY <1>2, <1>8, <1>10, <2>1
    <3>2. ReadUintFile(listed[i].temp) \in ZonesRead(zones)
      BY <1>2, <2>1 DEF ZonesRead
    <3> QED
      BY <1>2, <1>7, <2>1, <3>1, <3>2
  <2>2. ASSUME NEW n \in 1..count, i = Len(listed) + n
        PROVE  /\ sensors[i].celsius = MilliToCelsius(raw[i]) /\ raw[i] \in {Null, 1, 2}
               /\ raw[i] # Null => raw[i] \in ZonesRead(zones) \cup InputsRead(hwmon)
    <3>1. sensors[i].celsius = MilliToCelsius(raw[i]) /\ raw[i] = Reading(Nth(n))
      <4> HIDE DEF sensors, raw, inputSensors, listed, count, Reading, Nth
      <4> QED
        BY <1>8, <1>10, <2>2
    <3>2. Nth(n) \in inputs
      BY <1>6
    <3>3. Nth(n) \in 1..2 /\ hwmon.ok
      <4> HIDE DEF Nth
      <4> QED
        BY <1>4, <3>2
    <3>4. Reading(Nth(n)) \in InputsRead(hwmon)
      <4> HIDE DEF Nth
      <4> QED
        BY <3>3 DEF InputsRead
    <3> HIDE DEF sensors, raw, inputs, Nth, Reading
    <3> QED
      BY <1>7, <3>1, <3>2, <3>4
  <2> QED
    BY <1>11, <2>1, <2>2
<1>13. ASSUME NEW r \in ZonesRead(zones) \cup InputsRead(hwmon), r # Null
       PROVE  \E i \in DOMAIN sensors : r = raw[i]
  <2>1. CASE r \in ZonesRead(zones)
    <3>1. PICK i \in DOMAIN listed : r = ReadUintFile(listed[i].temp)
      BY <2>1 DEF ZonesRead
    <3>2. i \in 1..Len(listed)
      BY <1>2
    <3>3. raw[i] = r
      BY <1>10, <3>1, <3>2
    <3>4. i \in DOMAIN sensors
      <4> HIDE DEF sensors, listed, count
      <4> QED
        BY <1>2, <1>6, <1>10, <3>2
    <3> QED
      BY <3>3, <3>4
  <2>2. CASE r \in InputsRead(hwmon)
    <3>1. PICK i \in 1..2 : hwmon.ok /\ r = Reading(i)
      BY <2>2 DEF InputsRead
    <3>2. i \in inputs
      BY <1>4, <1>13, <3>1
    <3>3. PICK n \in 1..count : Nth(n) = i
      BY <1>6, <3>2
    <3>4. raw[Len(listed) + n] = r
      <4>1. inputRaw[n] = Reading(Nth(n))
        OBVIOUS
      <4> HIDE DEF raw, inputRaw, listed, count, Nth, Reading
      <4> QED
        BY <1>10, <3>1, <3>3, <4>1
    <3>5. Len(listed) + n \in DOMAIN sensors
      <4> HIDE DEF sensors, listed, count
      <4> QED
        BY <1>2, <1>6, <1>10
    <3> QED
      BY <3>4, <3>5
  <2> QED
    BY <1>13, <2>1, <2>2
<1> HIDE DEF sensors, raw, points, listed, inputs, count, Reading, Nth
<1>14. Reads(sensors, raw, 2)
  BY <1>12 DEF Reads
<1>15. ReadingsOf(sensors, raw) = (ZonesRead(zones) \cup InputsRead(hwmon)) \ {Null}
  BY <1>12, <1>13 DEF ReadingsOf
<1>16. DOMAIN sensors \in SUBSET Nat
  BY <1>2, <1>6, <1>10
<1> QED
  BY <1>1, <1>14, <1>15, <1>16

(* What the memory files hold: the free swap is part of the swap.          *)
MemText(text) ==
    /\ \A k \in DOMAIN text : text[k] \in Nat
    /\ {"SwapTotal", "SwapFree"} \subseteq DOMAIN text => text["SwapFree"] <= text["SwapTotal"]

MemFileOK(file) == file = NoFile("EACCES") \/ \E text : file = File(text) /\ MemText(text)

(* MemoryAgrees of a memory record and the file it was made of.            *)
Adds(m, file) ==
    LET in(k) == HasValue(m.fields[k])
        v(k)  == m.fields[k].value
    IN  /\ HasValue(m.used) <=> in("MemTotal") /\ in("MemAvailable")
        /\ HasValue(m.used) => m.used.value + v("MemAvailable") = v("MemTotal")
        /\ HasValue(m.swapUsed) => m.swapUsed.value + v("SwapFree") = v("SwapTotal")
        /\ HasValue(m.swapPercent) => m.swapPercent.value[1] \in 0..100 * m.swapPercent.value[2]
        /\ file.errno # "0" => \A k \in MemFields : ~in(k)

LEMMA MetricsAre ==
  /\ \A x : HasValue(Observed(x)) /\ Observed(x).value = x
  /\ \A x : HasValue(Derived(x)) /\ Derived(x).value = x
  /\ \A x : HasValue(Estimate(x)) /\ Estimate(x).value = x
  /\ \A why : ~HasValue(Missing(why))
BY DEF HasValue, Observed, Derived, Estimate, Missing

LEMMA MemoryBuilt ==
  ASSUME NEW file, MemFileOK(file)
  PROVE  Adds(BuildMemorySnapshot(file), file)
<1> DEFINE m == BuildMemorySnapshot(file)
<1>1. ASSUME file = NoFile("EACCES") PROVE Adds(m, file)
  <2>1. ~ReadTextFile(file).ok
    BY <1>1 DEF NoFile, ReadTextFile, Failed
  <2> DEFINE why == ReadTextFile(file).failure
  <2>2. m = [fields |-> [k \in MemFields |-> Missing(why)], used |-> Missing(why), usedPercent |-> Missing(why),
             swapUsed |-> Missing(why), swapPercent |-> Missing(why)]
    BY <2>1 DEF BuildMemorySnapshot
  <2> HIDE DEF why, m
  <2>3. \A k \in MemFields : ~HasValue(m.fields[k])
    BY <2>2, MetricsAre
  <2>4. "MemTotal" \in MemFields
    BY DEF MemFields
  <2> QED
    BY <2>2, <2>3, <2>4, MetricsAre DEF Adds
<1>2. ASSUME NEW text, file = File(text), MemText(text) PROVE Adds(m, file)
  <2> DEFINE values == ParseMemInfo(text)
  <2>1. ReadTextFile(file).ok /\ ReadTextFile(file).text = text /\ file.errno = "0"
    BY <1>2 DEF File, ReadTextFile, Text
  <2>2. /\ DOMAIN values = MemFields \cap DOMAIN text
        /\ \A k \in DOMAIN values : values[k] = 1024 * text[k] /\ text[k] \in Nat
    <3>1. \A k \in DOMAIN text : text[k] \in Nat /\ Unsigned(text[k])
      BY <1>2 DEF MemText, Unsigned
    <3> QED
      BY <3>1 DEF ParseMemInfo
  <2>3. \A k \in DOMAIN values : values[k] \in Nat
    BY <2>2
  <2>4. {"SwapTotal", "SwapFree"} \subseteq DOMAIN values => values["SwapFree"] <= values["SwapTotal"]
    BY <1>2, <2>2 DEF MemText
  <2> DEFINE fields == [k \in MemFields |-> IF k = "MemAvailable" /\ k \in DOMAIN values THEN Estimate(values[k])
                                            ELSE Field(values, k)]
  <2>5. m = [fields |-> fields, used |-> UsedMemory(values), usedPercent |-> UsedPercent(values),
             swapUsed |-> UsedSwap(values), swapPercent |-> SwapPercent(values)]
    BY <2>1 DEF BuildMemorySnapshot
  <2> HIDE DEF values
  <2>6. \A k \in MemFields : /\ HasValue(fields[k]) <=> k \in DOMAIN values
                             /\ k \in DOMAIN values => fields[k].value = values[k]
    BY MetricsAre DEF Field
  <2>7. {"MemTotal", "MemAvailable", "SwapTotal", "SwapFree"} \subseteq MemFields
    BY DEF MemFields
  <2>8. /\ HasValue(UsedMemory(values)) <=> {"MemTotal", "MemAvailable"} \subseteq DOMAIN values
        /\ HasValue(UsedMemory(values)) => UsedMemory(values).value = values["MemTotal"] - values["MemAvailable"]
    BY MetricsAre DEF UsedMemory
  <2>9. /\ HasValue(UsedSwap(values)) <=> {"SwapTotal", "SwapFree"} \subseteq DOMAIN values
        /\ HasValue(UsedSwap(values)) => UsedSwap(values).value = values["SwapTotal"] - values["SwapFree"]
    BY MetricsAre DEF UsedSwap
  <2>10. ASSUME HasValue(SwapPercent(values))
         PROVE  SwapPercent(values).value[1] \in 0..100 * SwapPercent(values).value[2]
    <3>1. HasValue(UsedSwap(values))
      BY <2>10 DEF SwapPercent
    <3>2. /\ values["SwapTotal"] \in Nat /\ values["SwapFree"] \in Nat
          /\ values["SwapFree"] <= values["SwapTotal"]
          /\ UsedSwap(values).value = values["SwapTotal"] - values["SwapFree"]
      BY <2>3, <2>4, <2>9, <3>1
    <3>3. CASE values["SwapTotal"] = 0
      <4>1. SwapPercent(values) = Derived(<<0, 1>>)
        BY <3>1, <3>3 DEF SwapPercent
      <4> QED
        BY <4>1, MetricsAre
    <3>4. CASE values["SwapTotal"] # 0
      <4>1. SwapPercent(values) = Derived(<<100 * UsedSwap(values).value, values["SwapTotal"]>>)
        BY <3>1, <3>4 DEF SwapPercent
      <4>2. /\ SwapPercent(values).value[1] = 100 * (values["SwapTotal"] - values["SwapFree"])
            /\ SwapPercent(values).value[2] = values["SwapTotal"]
        BY <3>2, <4>1, MetricsAre
      <4> QED
        BY <3>2, <4>2
    <3> QED
      BY <3>3, <3>4
  <2> HIDE DEF m, fields
  <2>11. HasValue(m.used) => m.used.value + m.fields["MemAvailable"].value = m.fields["MemTotal"].value
    <3>1. HasValue(m.used) => /\ m.fields["MemAvailable"].value = values["MemAvailable"]
                              /\ m.fields["MemTotal"].value = values["MemTotal"]
                              /\ m.used.value = values["MemTotal"] - values["MemAvailable"]
                              /\ values["MemTotal"] \in Nat /\ values["MemAvailable"] \in Nat
      BY <2>3, <2>5, <2>6, <2>7, <2>8
    <3> QED
      BY <3>1
  <2>12. HasValue(m.swapUsed) => m.swapUsed.value + m.fields["SwapFree"].value = m.fields["SwapTotal"].value
    <3>1. HasValue(m.swapUsed) => /\ m.fields["SwapFree"].value = values["SwapFree"]
                                  /\ m.fields["SwapTotal"].value = values["SwapTotal"]
                                  /\ m.swapUsed.value = values["SwapTotal"] - values["SwapFree"]
                                  /\ values["SwapTotal"] \in Nat /\ values["SwapFree"] \in Nat
      BY <2>3, <2>5, <2>6, <2>7, <2>9
    <3> QED
      BY <3>1
  <2>13. HasValue(m.used) <=> HasValue(m.fields["MemTotal"]) /\ HasValue(m.fields["MemAvailable"])
    BY <2>5, <2>6, <2>7, <2>8
  <2>14. HasValue(m.swapPercent) => m.swapPercent.value[1] \in 0..100 * m.swapPercent.value[2]
    BY <2>5, <2>10
  <2> QED
    BY <2>1, <2>11, <2>12, <2>13, <2>14 DEF Adds
<1> QED
  BY <1>1, <1>2 DEF MemFileOK

LEMMA MemFilesAre == \A file \in MemFiles \cup {Gauges0.mem} : MemFileOK(file)
<1>1. ASSUME NEW keys, NEW total \in Nat, NEW free \in Nat, free <= total
      PROVE  MemFileOK(Meminfo(keys, total, free))
  <2> DEFINE text == [k \in keys |-> IF k \in {"MemTotal", "SwapTotal"} THEN total ELSE free]
  <2>1. MemText(text)
    BY <1>1 DEF MemText
  <2>2. Meminfo(keys, total, free) = File(text)
    BY DEF Meminfo
  <2> QED
    BY <2>1, <2>2, Zenon DEF MemFileOK
<1>2. \E keys : Gauges0.mem = Meminfo(keys, 1, 1)
  BY DEF Gauges0
<1>3. \A file \in MemFiles : \/ file = NoFile("EACCES")
                             \/ \E keys : file = Meminfo(keys, 0, 0) \/ file = Meminfo(keys, 2, 0)
                                                                    \/ file = Meminfo(keys, 2, 1)
  <2> DEFINE all == SUBSET {"MemTotal", "MemAvailable", "MemFree", "SwapTotal", "SwapFree"}
             some == {Meminfo(keys, 2, free) : keys \in all, free \in {0, 1}}
  <2>1. MemFiles = {NoFile("EACCES"), Meminfo({"MemTotal", "SwapTotal", "SwapFree"}, 0, 0)} \cup some
    BY DEF MemFiles
  <2> HIDE DEF all
  <2>2. \A file \in some : \E keys : file = Meminfo(keys, 2, 0) \/ file = Meminfo(keys, 2, 1)
    OBVIOUS
  <2> HIDE DEF some
  <2> QED
    BY <2>1, <2>2, Zenon
<1> QED
  BY <1>1, <1>2, <1>3 DEF MemFileOK

(* Load per processor is there only with the load and a processor count.   *)
LEMMA LoadBuilt ==
  ASSUME NEW file, NEW cpus, HasValue(BuildLoadSnapshot(file, cpus)["load1PerCpu"])
  PROVE  HasValue(BuildLoadSnapshot(file, cpus)["load1"]) /\ ~(cpus <= 0)
<1> DEFINE load == BuildLoadSnapshot(file, cpus)
           result == ReadTextFile(file)
           parsed == ParseLoadAvg(result.text)
           fields == LoadFields \cup {"load1PerCpu"}
           All(why) == [f \in fields |-> Missing(why)]
           full == [f \in fields |-> IF f # "load1PerCpu" THEN Observed(parsed[f])
                                     ELSE IF cpus <= 0 THEN Missing("noCpuCount")
                                     ELSE Derived(<<parsed["load1"], cpus>>)]
<1>1. load = IF ~result.ok THEN All(result.failure) ELSE IF parsed = Nothing THEN All("malformed") ELSE full
  BY Zenon DEF BuildLoadSnapshot
<1>2. "load1" \in fields /\ "load1PerCpu" \in fields
  BY DEF LoadFields
<1> HIDE DEF load, parsed, fields, result
<1>3. \A why : ~HasValue(All(why)["load1PerCpu"])
  BY <1>2, MetricsAre
<1>4. load = full
  BY <1>1, <1>3, Zenon DEF load
<1>5. HasValue(load["load1"])
  BY <1>2, <1>4, MetricsAre
<1>6. ~(cpus <= 0)
  BY <1>2, <1>4, MetricsAre DEF load
<1> QED
  BY <1>5, <1>6 DEF load

-----------------------------------------------------------------------------
(* The invariant: a collection is made of the files that were there when   *)
(* it began, and they stay those of the last collection.                   *)

GaugesOK(files) == MemFileOK(files.mem) /\ files.zones \in ZoneLists /\ files.hwmon \in HwmonLists

Summed(parts, files) ==
    /\ parts.memory = BuildMemorySnapshot(files.mem)
    /\ parts.thermal = DiscoverThermal(files.zones, files.hwmon, PackageNames)
    /\ HasValue(parts.load["load1PerCpu"]) =>
         HasValue(parts.identity.logicalCpus) /\ HasValue(parts.load["load1"])

SummaryInv ==
    /\ GaugesOK(gauges)
    /\ scan # Nothing => Summed(scan.parts, gauges)
    /\ Settled => Summed(snap.parts, gauges)

LEMMA GaugesAre == GaugesOK(Gauges0) /\ \A files \in GaugeFiles : GaugesOK(files)
<1>1. Gauges0.zones = Text(<<>>) /\ Gauges0.hwmon = Failed("missing")
  BY DEF Gauges0
<1>2. Text(<<>>) \in ZoneLists /\ Failed("missing") \in HwmonLists
  BY DEF ZoneLists, HwmonLists
<1>3. GaugesOK(Gauges0)
  BY <1>1, <1>2, MemFilesAre DEF GaugesOK
<1>4. \A x, y, z : /\ WithLevels(x, y, z).mem = x
                   /\ WithLevels(x, y, z).zones = Gauges0.zones /\ WithLevels(x, y, z).hwmon = Gauges0.hwmon
  BY DEF Gauges0, WithLevels
<1>5. \A x, y : /\ WithSpace(x, y).mem = Gauges0.mem
                /\ WithSpace(x, y).zones = Gauges0.zones /\ WithSpace(x, y).hwmon = Gauges0.hwmon
                /\ WithSensors(x, y).mem = Gauges0.mem
                /\ WithSensors(x, y).zones = x /\ WithSensors(x, y).hwmon = y
  BY DEF Gauges0, WithSpace, WithSensors
<1>6. \A x \in MemFiles : \A y, z : GaugesOK(WithLevels(x, y, z))
  BY <1>1, <1>2, <1>4, MemFilesAre DEF GaugesOK
<1>7. \A x, y : GaugesOK(WithSpace(x, y))
  BY <1>3, <1>5 DEF GaugesOK
<1>8. \A x \in ZoneLists : \A y \in HwmonLists : GaugesOK(WithSensors(x, y))
  BY <1>3, <1>5 DEF GaugesOK
<1>9. ASSUME NEW files \in GaugeFiles PROVE GaugesOK(files)
  <2>1. CASE focus = "gauges"
    BY <1>6, <1>7, <1>9, <2>1 DEF GaugeFiles
  <2>2. CASE focus = "thermal"
    BY <1>8, <1>9, <2>2 DEF GaugeFiles
  <2>3. CASE focus # "gauges" /\ focus # "thermal"
    BY <1>3, <1>9, <2>3 DEF GaugeFiles
  <2> QED
    BY <2>1, <2>2, <2>3
<1> QED
  BY <1>3, <1>9

(* What a collection sums up is what the property asks for.                *)
LEMMA SummedAgrees ==
  ASSUME GaugesOK(gauges), Summed(snap.parts, gauges)
  PROVE  MemoryAgrees /\ ThermalAgrees
<1>1. MemoryAgrees
  BY MemoryBuilt DEF GaugesOK, Summed, MemoryAgrees, Adds
<1>2. ThermalAgrees
  <2> DEFINE t == snap.parts.thermal
  <2>1. PICK sensors, points, raw :
           /\ t = Summarise(sensors, points)
           /\ DOMAIN sensors \in SUBSET Nat /\ Reads(sensors, raw, 2)
           /\ ReadingsOf(sensors, raw) = (ZonesRead(gauges.zones) \cup InputsRead(gauges.hwmon)) \ {Null}
    BY SensorsRead DEF GaugesOK, Summed
  <2>2. ReadingsOf(sensors, raw) = Readings
    BY <2>1 DEF Readings, ZoneReadings, HwmonReadings, ZonesRead, InputsRead
  <2>3. /\ t.sensors = sensors
        /\ HasValue(t.highestCelsius) <=> Readings # {}
        /\ Readings # {} => /\ t.highestCelsius.value = Max(Readings)
                            /\ NamedBy(sensors, t.highestSensor.value, Max(Readings))
        /\ HasValue(t.packageCelsius) =>
             t.packageCelsius.value \in Readings /\ NamedBy(sensors, t.packageSensor.value, t.packageCelsius.value)
    BY <2>1, <2>2, SummaryAgrees
  <2> QED
    BY <2>3, Zenon DEF ThermalAgrees, NamedBy
<1> QED
  BY <1>1, <1>2

LEMMA SummarySound == Spec => []SummaryInv
<1>1. Init => SummaryInv
  BY GaugesAre, Zenon DEF Init, SummaryInv, Settled
<1>2. MachineOK /\ RatesInv /\ SummaryInv /\ [Next]_vars => SummaryInv'
  <2> SUFFICES ASSUME MachineOK, RatesInv, SummaryInv, [Next]_vars PROVE SummaryInv'
    OBVIOUS
  <2>1. ASSUME UNCHANGED <<gauges, scan, snap>> PROVE SummaryInv'
    <3>1. Settled' <=> Settled
      BY <2>1 DEF Settled
    <3> QED
      BY <2>1, <3>1 DEF SummaryInv, Summed, GaugesOK
  <2>2. CASE Advance \/ Unplug \/ DiskReplaced \/ NetWorks
    BY <2>1, <2>2 DEF Advance, Unplug, DiskReplaced, NetWorks, collector
  <2>3. CASE \E one \in {"user", "guest", "iowait"}, two \in {"user", "idle"} : AdvanceCores(<<one, two>>)
    BY <2>1, <2>3 DEF AdvanceCores, collector
  <2>4. CASE \E bytes \in {0, 1} : DiskWorks(bytes)
    BY <2>1, <2>4 DEF DiskWorks, collector
  <2>5. CASE \E pid \in Pids, ppid \in {0, Engine} : Fork(pid, ppid)
    BY <2>1, <2>5 DEF Fork, collector
  <2>6. CASE \E pid \in Pids : Work(pid) \/ End(pid)
    BY <2>1, <2>6 DEF Work, End, collector
  <2>7. ASSUME NEW errno \in {"0", "EACCES"}, NEW files \in GaugeFiles, BeginCollect(errno, files)
        PROVE  SummaryInv'
    <3>1. base = [cpu |-> base.cpu, disk |-> base.disk, net |-> base.net, proc |-> base.proc]
      BY DEF RatesInv, BaseOK
    <3>2. /\ (scan # Nothing)' /\ gauges' = files /\ scan'.parts.memory = BuildMemorySnapshot(files.mem)
          /\ scan'.parts.thermal = DiscoverThermal(files.zones, files.hwmon, PackageNames)
          /\ \E id : /\ scan'.parts.identity = id
                     /\ scan'.parts.load =
                          BuildLoadSnapshot(files.load, IF HasValue(id.logicalCpus) THEN id.logicalCpus.value ELSE Null)
      BY <2>7, <3>1, Collected
    <3> DEFINE id   == scan'.parts.identity
               cpus == IF HasValue(id.logicalCpus) THEN id.logicalCpus.value ELSE Null
    <3>3. scan'.parts.load = BuildLoadSnapshot(files.load, cpus)
      BY <3>2
    <3>4. HasValue(scan'.parts.load["load1PerCpu"]) => HasValue(scan'.parts.load["load1"]) /\ ~(cpus <= 0)
      <4> HIDE DEF cpus
      <4> QED
        BY <3>3, LoadBuilt
    <3>5. ~(cpus <= 0) => HasValue(id.logicalCpus)
      BY DEF Null
    <3>6. Summed(scan'.parts, files)
      BY <3>2, <3>4, <3>5 DEF Summed
    <3>7. GaugesOK(files) /\ ~Settled'
      BY <3>2, GaugesAre DEF Settled
    <3> QED
      BY <3>2, <3>6, <3>7 DEF SummaryInv
  <2>8. CASE ReadStat \/ ReadRest
    <3>1. scan # Nothing
      BY <2>8 DEF ReadStat, ReadRest
    <3>2. ScanShape
      BY <3>1 DEF RatesInv
    <3>3. (scan # Nothing)' /\ scan'.parts = scan.parts /\ gauges' = gauges
      BY <2>8, <3>2, PartsStay
    <3>4. ~Settled'
      BY <3>3 DEF Settled
    <3> QED
      BY <3>1, <3>3, <3>4 DEF SummaryInv
  <2>9. CASE EndCollect
    <3>1. scan # Nothing /\ scan' = Nothing /\ snap'.parts = scan.parts /\ gauges' = gauges
      BY <2>9 DEF EndCollect
    <3> QED
      BY <3>1 DEF SummaryInv
  <2>10. CASE Track \/ SampleStat \/ SampleRest \/ Untrack \/ UNCHANGED vars
    <3>1. UNCHANGED <<gauges, scan, snap>>
      <4>1. CASE SampleRest
        BY Zenon, <4>1 DEF SampleRest, collector
      <4> QED
        BY <2>10, <4>1 DEF Track, SampleStat, Untrack, vars, collector
    <3> QED
      BY <2>1, <3>1
  <2> QED
    BY <2>2, <2>3, <2>4, <2>5, <2>6, <2>7, <2>8, <2>9, <2>10 DEF Next
<1> QED
  BY <1>1, <1>2, RatesSound, PTL DEF Spec

(* A summary agrees with what it summarises: used and available memory     *)
(* and swap add up, the hottest sensor is the hottest that could be read   *)
(* and the one that is named, load per processor needs a processor count,  *)
(* and nothing unreadable counts as zero (memory.ts, thermal.ts,           *)
(* pressure.ts).                                                           *)
THEOREM SummariesOfTheHostAgree == Spec => []SummariesAgree
<1>1. SummaryInv => SummariesAgree
  <2> SUFFICES ASSUME SummaryInv, Settled PROVE SummariesAgree
    BY DEF SummariesAgree
  <2>1. GaugesOK(gauges) /\ Summed(snap.parts, gauges)
    BY DEF SummaryInv
  <2> QED
    BY <2>1, SummedAgrees DEF SummariesAgree, Summed
<1> QED
  BY <1>1, SummarySound, PTL
=============================================================================
