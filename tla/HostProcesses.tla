--------------------------- MODULE HostProcesses ----------------------------
(***************************************************************************)
(* The process inventory of the host (processes.ts): what one row says     *)
(* about a process whose files are read one after the other, how a rate is *)
(* derived from the reading before, and what is said about the whole       *)
(* sample.                                                                 *)
(***************************************************************************)
EXTENDS HostMetrics
Seqs == INSTANCE SequencesExt

(* parseStatLine: the fields a row cannot do without, and three it can.    *)
StatRequired == {"pid", "ppid", "cpu", "start"}
StatOptional == {"minflt", "majflt", "threads"}

ParseStatLine(text) ==
    IF \E f \in StatRequired : ~Unsigned(text[f]) THEN Nothing
    ELSE [f \in DOMAIN text |-> IF f \in StatOptional THEN ParseUint(text[f]) ELSE text[f]]

(* The keys of status, io and schedstat that parse as a number.            *)
StatusFields == {"Uid", "Gid", "VmRSS", "VmSwap", "VmSize", "voluntary", "nonvoluntary"}
IoFields     == {"read_bytes", "write_bytes"}
SchedFields  == {"runtime", "wait", "timeslices"}

StatusMap(text) == RestrictDomain(text, LAMBDA k : Unsigned(text[k]))
ParseIo(text)   == RestrictDomain(text, LAMBDA k : k \in IoFields /\ Unsigned(text[k]))

(* All three numbers or none.                                              *)
ParseSchedstat(text) == IF \A f \in SchedFields : Unsigned(text[f]) THEN text ELSE <<>>

FieldOf(map, key, why) == IF key \in DOMAIN map THEN Observed(map[key]) ELSE Missing(why)

IdentityKey(pid, start, bootId) == <<pid, start, bootId>>

(* The state of a row whose file could not be read.                        *)
StateOfFailure(kind) ==
    CASE kind = "missing"    -> "EXITED"
      [] kind = "permission" -> "PERMISSION_DENIED"
      [] OTHER               -> "UNAVAILABLE"

RowFields == {"pid", "ppid", "state", "threads", "cpuTime", "minflt", "majflt"}
                \cup StatusFields \cup IoFields \cup SchedFields

EmptyRow(pid, bootId, state) ==
    [identity |-> IdentityKey(pid, Null, bootId),
     fields |-> [f \in RowFields |-> Missing(state)],
     cpuPercent |-> Missing(state), confidence |-> Missing(state),
     capsOwned |-> FALSE, rowState |-> state, sampled |-> FALSE]

(* CPU utilization needs the counters this very identity had before.       *)
NoCpuRate(previous, stat, interval, clockTicks) ==
    CASE previous = Nothing -> "firstSample"
      [] previous # Nothing /\ previous.start # stat["start"] -> "reused"
      [] /\ previous # Nothing /\ previous.start = stat["start"]
         /\ (interval <= 0 \/ clockTicks = Null) -> "noInterval"
      [] OTHER -> "none"

CpuRate(previous, stat, interval, clockTicks) ==
    LET why == NoCpuRate(previous, stat, interval, clockTicks)
        d   == stat["cpu"] - previous.cpuTicks
    IN  IF why # "none" THEN Missing(why)
        ELSE IF d < 0 THEN Missing("decreased")
        ELSE Derived(<<100 * 1000 * d, clockTicks * interval>>)

(* The counters kept for the next reading: only of an identity that had    *)
(* counters already.                                                       *)
CountersOf(previous, stat, io) ==
    IF previous = Nothing \/ previous.start # stat["start"] THEN Nothing
    ELSE [cpuTicks |-> stat["cpu"], start |-> stat["start"], minflt |-> stat["minflt"],
          io |-> [f \in IoFields |-> IF f \in DOMAIN io THEN io[f] ELSE previous.io[f]]]

(* The fields of a row, each from the file it is in.                       *)
FieldsOf(stat, statusRead, ioRead, schedRead, clockTicks) ==
    LET status == IF statusRead.ok THEN StatusMap(statusRead.text) ELSE <<>>
        io     == IF ioRead.ok THEN ParseIo(ioRead.text) ELSE <<>>
        sched  == IF schedRead.ok THEN ParseSchedstat(schedRead.text) ELSE <<>>
        Why(read) == IF read.ok THEN "absent" ELSE read.failure
    IN  [f \in RowFields |->
            CASE f \in {"pid", "ppid", "state"} -> Observed(stat[f])
              [] f \in StatOptional -> MetricOrUnavailable(stat[f], "unread")
              [] f = "cpuTime" -> IF clockTicks = Null THEN Missing("noClock")
                                  ELSE Derived(<<1000 * stat["cpu"], clockTicks>>)
              [] f \in StatusFields -> FieldOf(status, f, Why(statusRead))
              [] f \in IoFields     -> FieldOf(io, f, Why(ioRead))
              [] f \in SchedFields  -> FieldOf(sched, f, Why(schedRead))]

(* readHostProcess.  statFile is what /proc/<pid>/stat was, rest what the  *)
(* files read after it were; before are the counters by identity.          *)
ReadHostProcess(pid, statFile, rest, clockTicks, bootId, before, interval) ==
    LET statRead == ReadTextFile(statFile)
        stat     == ParseStatLine(statRead.text)
        key      == IdentityKey(pid, stat["start"], bootId)
        previous == IF key \in DOMAIN before THEN before[key] ELSE Nothing
        status   == ReadTextFile(rest.status)
        io       == ReadTextFile(rest.io)
        Kept     == IF io.ok THEN ParseIo(io.text) ELSE <<>>
        Replaced == status.ok /\ "Pid" \in DOMAIN status.text /\ status.text["Pid"] # pid
    IN  IF ~statRead.ok
        THEN [row |-> EmptyRow(pid, bootId, StateOfFailure(statRead.failure)), counters |-> Nothing]
        ELSE IF stat = Nothing
        THEN [row |-> EmptyRow(pid, bootId, "UNAVAILABLE"), counters |-> Nothing]
        ELSE IF Replaced
        THEN [row |-> EmptyRow(pid, bootId, "DISAPPEARED"), counters |-> Nothing]
        ELSE [row |-> [identity |-> key,
                       fields |-> FieldsOf(stat, status, io, ReadTextFile(rest.schedstat), clockTicks),
                       cpuPercent |-> CpuRate(previous, stat, interval, clockTicks),
                       confidence |-> Missing("unsettled"), capsOwned |-> FALSE,
                       rowState |-> IF status.ok THEN "LIVE" ELSE StateOfFailure(status.failure),
                       sampled |-> TRUE],
              counters |-> CountersOf(previous, stat, Kept)]

-----------------------------------------------------------------------------
(* The loop of discoverProcesses over the pids listed at its start.  Past  *)
(* the budget a row is emitted without being detailed; a process that was  *)
(* gone when it was read is left out.                                      *)

Discovery(listed) ==
    [rows |-> <<>>, discovered |-> Len(listed), sampled |-> 0, pssSkipped |-> 0,
     unavailable |-> 0, next |-> <<>>]

CountUnavailable(row) ==
    Cardinality({f \in RowFields : ~HasValue(row.fields[f])})
        + (IF HasValue(row.cpuPercent) THEN 0 ELSE 1) + (IF HasValue(row.confidence) THEN 0 ELSE 1)

WithRow(rows, row) == IF row.rowState = "EXITED" THEN rows ELSE Append(rows, row)

(* Mutant: what is past the budget is dropped from the inventory.          *)
Discovered_Dropping(d, result, maxSampled) ==
    IF d.sampled >= maxSampled THEN [d EXCEPT !.pssSkipped = @ + 1]
    ELSE [d EXCEPT !.sampled = @ + 1, !.rows = WithRow(@, result.row)]

Discovered(d, result, maxSampled) ==
    IF d.sampled >= maxSampled
    THEN [d EXCEPT !.pssSkipped = @ + 1,
                   !.rows = WithRow(@, [result.row EXCEPT !.sampled = FALSE])]
    ELSE [d EXCEPT !.sampled = @ + 1,
                   !.unavailable = @ + CountUnavailable(result.row),
                   !.rows = WithRow(@, result.row),
                   !.next = IF result.counters = Nothing THEN @
                            ELSE [k \in DOMAIN @ \cup {result.row.identity} |->
                                    IF k = result.row.identity THEN result.counters ELSE @[k]]]

Owned(row, owned) == row.identity \in owned

(* annotateRelationships: ownership by the full identity, and whether the  *)
(* parent is itself in the sample.                                         *)
AnnotateRelationships(rows, owned) ==
    LET pids == {rows[i].identity[1] : i \in DOMAIN rows}
    IN  [i \in DOMAIN rows |->
            [rows[i] EXCEPT
                !.capsOwned = Owned(rows[i], owned),
                !.confidence = IF ~HasValue(rows[i].fields["ppid"]) THEN Missing("noParent")
                               ELSE Observed(IF rows[i].fields["ppid"].value \in pids
                                             THEN "VERIFIED" ELSE "UNVERIFIED")]]

(* processSummaryFrom: a row is classified by its state letter when it is  *)
(* live; threads are summed over those that published them.                *)
Classified(rows) ==
    {i \in DOMAIN rows : rows[i].rowState = "LIVE" /\ HasValue(rows[i].fields["state"])}

InState(rows, letters) ==
    Observed(Cardinality({i \in Classified(rows) : rows[i].fields["state"].value \in letters}))

ProcessSummary(rows, created) ==
    LET counted == {i \in Classified(rows) : HasValue(rows[i].fields["threads"])}
    IN  [total |-> Observed(Len(rows)),
         running |-> InState(rows, {"R"}), sleeping |-> InState(rows, {"S"}),
         stopped |-> InState(rows, {"T", "t"}), zombie |-> InState(rows, {"Z"}),
         uninterruptible |-> InState(rows, {"D"}),
         threadsTotal |-> Observed(MapThenSumSet(LAMBDA i : rows[i].fields["threads"].value, counted)),
         processesCreated |-> MetricOrUnavailable(created, "absent")]

=============================================================================
