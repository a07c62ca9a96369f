------------------------------ MODULE Catalog -------------------------------
(***************************************************************************)
(* What the gateway may run: the command catalogue (catalog/commands.ts),  *)
(* the probe of an executable, the argument schema of every command        *)
(* (catalog/validation.ts), the controlled workloads (workloadCatalog.ts)  *)
(* and the workspace policy for files (security/policy.ts).  A command     *)
(* name is a symbol, an argument a sequence of symbols.                    *)
(***************************************************************************)
EXTENDS CommandLine, TLC

CONSTANTS Directories, RefusedPrograms

(* The programs of awk and sed that programPolicy.ts refuses.              *)
ASSUME DirectoriesAssumption == Directories \in Seq(STRING)

Bounds(min, max) == [min |-> min, max |-> max]
NoPath == <<>>

-----------------------------------------------------------------------------
(* The catalogue.  flags and words are written after one hyphen, long ones *)
(* after two; a flag of valued takes a value, glued to it or next to it.   *)
(* A bound that may be absent is a set of at most one range.               *)

Schema ==
    [flags |-> {}, words |-> {}, long |-> {}, valued |-> {}, maxPositional |-> 0, maxBytes |-> 64,
     integers |-> {}, paths |-> FALSE, leading |-> 0, program |-> FALSE, count |-> {},
     choices |-> {}, choiceFor |-> {}, choiceRange |-> {}]

NO_ARGS == Schema
Plain(flags, max, bytes) ==
    [Schema EXCEPT !.flags = flags, !.maxPositional = max, !.maxBytes = bytes]
Valued(flags, valued, max, bytes) == [Plain(flags, max, bytes) EXCEPT !.valued = valued]
Files(schema) == [schema EXCEPT !.paths = TRUE]
Pattern(schema) == [schema EXCEPT !.leading = 1]
Numbers(schema, min, max) == [schema EXCEPT !.integers = {Bounds(min, max)}]
Counted(schema) == [schema EXCEPT !.count = {Bounds(1, 100000)}]
Program(schema) == [Pattern(schema) EXCEPT !.program = TRUE]

Entry(schema, seconds, kib) == [schema |-> schema, timeout |-> seconds, output |-> kib]

ShellBasics ==
    "echo" :> Entry(Valued({"n", "e", "E"}, {"e", "E"}, 32, 4096), 10, 64)
    @@ "printf" :> Entry(Plain({"v"}, 32, 4096), 10, 64)
    @@ "pwd" :> Entry(NO_ARGS, 10, 4)
    @@ "true" :> Entry(NO_ARGS, 10, 1)
    @@ "false" :> Entry(NO_ARGS, 10, 1)
    @@ "sleep" :> Entry(Numbers(Plain({}, 1, 16), 0, 120), 130, 1)
    @@ "status_probe" :>
        Entry([Plain({}, 16, 64) EXCEPT !.choices = {"exit", "signal", "print"},
                                        !.choiceFor = {"exit", "signal"}, !.choiceRange = {Bounds(0, 255)}],
              10, 1)

HeadSchema == Counted(Pattern(Files(Valued({"n", "c", "q", "v"}, {"n", "c"}, 16, 255))))

FileTools ==
    "cat" :> Entry(Files(Plain({"n", "b", "A", "E", "T", "s"}, 16, 255)), 15, 256)
    @@ "head" :> Entry(HeadSchema, 15, 256)
    @@ "tail" :> Entry(HeadSchema, 15, 256)
    @@ "wc" :> Entry(Files(Plain({"l", "w", "c", "m"}, 16, 255)), 15, 32)
    @@ "stat" :> Entry(Files(Valued({"c", "f", "L"}, {"c", "f"}, 16, 255)), 15, 32)
    @@ "file" :> Entry(Files(Plain({"b", "i", "L"}, 16, 255)), 15, 32)
    @@ "ls" :> Entry(Files(Plain({"l", "a", "h", "1", "t", "S", "r"}, 16, 255)), 15, 128)

TextTools ==
    "grep" :> Entry(Pattern(Files(Plain({"c", "i", "v", "n", "q", "E", "F", "l", "h", "o", "w", "x"},
                                        16, 512))), 15, 256)
    @@ "sort" :> Entry(Files(Valued({"n", "r", "u", "h", "k", "t"}, {"k", "t"}, 16, 255)), 15, 256)
    @@ "uniq" :> Entry(Files(Plain({"c", "d", "u", "i"}, 16, 255)), 15, 128)
    @@ "cut" :> Entry(Files(Valued({"d", "f", "c", "s"}, {"d", "f", "c"}, 16, 255)), 15, 128)
    @@ "tr" :> Entry(Valued({"d", "s", "c", "C"}, {"d", "s", "c", "C"}, 2, 256), 15, 128)
    @@ "sed" :> Entry(Program(Files(Valued({"n", "e", "E", "r", "s"}, {"e"}, 16, 1024))), 15, 256)
    @@ "awk" :> Entry(Program(Files(Valued({"F", "v"}, {"F", "v"}, 16, 2048))), 15, 256)

HostTools ==
    "uname" :> Entry(Plain({"a", "s", "n", "r", "v", "m", "p", "i", "o"}, 0, 16), 10, 4)
    @@ "hostname" :> Entry(NO_ARGS, 10, 1)
    @@ "date" :> Entry(Valued({"u", "R", "I", "r"}, {"r"}, 0, 16), 10, 4)
    @@ "uptime" :> Entry(Plain({"p", "s"}, 0, 16), 10, 4)
    @@ "whoami" :> Entry(NO_ARGS, 10, 1)
    @@ "id" :> Entry(NO_ARGS, 10, 2)
    @@ "free" :> Entry(Plain({"b", "k", "m", "g", "h", "s", "t", "c"}, 0, 16), 10, 8)

DeviceTools ==
    "df" :> Entry(Plain({"h", "H", "T", "i", "t", "x", "a", "P"}, 8, 255), 15, 32)
    @@ "du" :> Entry(Files(Valued({"s", "h", "b", "k", "m", "d"}, {"d"}, 8, 255)), 20, 64)
    @@ "lscpu" :> Entry(Plain({"e", "j", "p", "J", "x", "a", "s", "r", "t", "c"}, 0, 16), 15, 64)
    @@ "lsblk" :> Entry(Valued({"a", "b", "d", "f", "l", "n", "p", "s", "S", "t", "J", "o"}, {"o"}, 0, 128),
                        15, 64)
    @@ "nproc" :> Entry(NO_ARGS, 10, 1)

ProcessTools ==
    "ps" :> Entry([Pattern(Valued({"a", "A", "e", "u", "o", "p", "n", "L", "x", "w", "h", "s"},
                                  {"o", "p", "u"}, 4, 512))
                   EXCEPT !.long = {"no-headers"}], 15, 512)
    @@ "pgrep" :> Entry(Valued({"a", "f", "l", "n", "o", "c", "u", "x"}, {"f", "u"}, 1, 128), 15, 32)
    @@ "seq" :> Entry(Numbers(Valued({"s", "f", "w"}, {"s", "f"}, 3, 16), 0, 10000000), 20, 256)

NetworkTools ==
    "ip" :> Entry([Plain({"4", "6", "c", "s", "o", "j", "t", "d"}, 2, 32) EXCEPT !.words = {"br"}], 15, 128)
    @@ "ss" :> Entry(Plain({"a", "l", "n", "p", "t", "u", "x", "w", "s", "e", "m"}, 2, 32), 15, 128)

DEFINITIONS ==
    ShellBasics @@ FileTools @@ TextTools @@ HostTools @@ DeviceTools @@ ProcessTools @@ NetworkTools

(* Binaries of this repository: looked at afresh by every probe.           *)
REPOSITORY_HELPERS == {"status_probe"}

-----------------------------------------------------------------------------
(* Workloads: each argument has its own range and default.                 *)

Argument(min, max, default) == [min |-> min, max |-> max, default |-> default]
Duration(default) == Argument(1, 30, default)
Memory == Argument(1, 256, 64)
FileIO == Argument(1, 64, 8)
Children == Argument(1, 4, 2)

WORKLOAD_PROFILES ==
    [caps_cpu_burn |-> <<Duration(10)>>,
     caps_memory_burn |-> <<Duration(10), Memory>>,
     caps_io_burn |-> <<Duration(10), FileIO>>,
     caps_mixed_burn |-> <<Duration(10), Memory, FileIO>>,
     caps_fork_tree |-> <<Duration(8), Children>>]

Workloads == DOMAIN WORKLOAD_PROFILES
WorkloadEntry == Entry(Numbers(Plain({}, 3, 16), 0, 1000000), 35, 64)

CatalogNames == DOMAIN DEFINITIONS \cup Workloads
EntryOf(command) == IF command \in Workloads THEN WorkloadEntry ELSE DEFINITIONS[command]

Digits == <<"0", "1", "2", "3", "4", "5", "6", "7", "8", "9">>
DigitOf(c) == CHOOSE d \in 0 .. 9 : Digits[d + 1] = c
IsNumber(token, width) ==
    /\ Len(token) \in 1 .. width
    /\ \A k \in DOMAIN token : token[k] \in ToSet(Digits)
NumberOf(token) == FoldLeft(LAMBDA n, c : 10 * n + DigitOf(c), 0, token)
Within(token, width, range) ==
    IsNumber(token, width) /\ NumberOf(token) >= range.min /\ NumberOf(token) <= range.max

(* validateWorkloadArgv: what the arguments must satisfy, and the argv     *)
(* with the missing ones filled in.                                        *)
WorkloadArgvOk(command, args) ==
    /\ Len(args) <= Len(WORKLOAD_PROFILES[command])
    /\ \A k \in DOMAIN args : Within(args[k], 9, WORKLOAD_PROFILES[command][k])

Decimal(n) ==
    (IF n >= 100 THEN <<Digits[(n \div 100) + 1]>> ELSE <<>>)
    \o (IF n >= 10 THEN <<Digits[((n \div 10) % 10) + 1]>> ELSE <<>>)
    \o <<Digits[(n % 10) + 1]>>

MaterializeWorkloadArgv(command, args) ==
    [k \in DOMAIN WORKLOAD_PROFILES[command] |->
        Decimal(IF k \in DOMAIN args THEN NumberOf(args[k]) ELSE WORKLOAD_PROFILES[command][k].default)]

-----------------------------------------------------------------------------
(* The probe.  host[name][d] says what directory d of the trusted ones     *)
(* holds under that name; the first directory with a file that verifies    *)
(* wins, and for a system command the answer is kept for good.             *)

Kinds == {"absent", "file", "linkInside", "linkToRootOwned", "linkToUserOwned", "notExecutable"}

(* verifyExecutableFile: a link is followed.                               *)
Executable(kind) == kind \notin {"absent", "notExecutable"}

(* verifyExecutablePath: what a link reaches outside the trusted           *)
(* directories must be root's and not writable by others.                  *)
Usable(kind) == Executable(kind) /\ kind # "linkToUserOwned"

ProbeSystemCommand(host, name) ==
    LET found == {d \in DOMAIN Directories : Usable(host[name][d])}
    IN  IF found = {} THEN NoPath ELSE <<"/", Directories[Min(found)], "/", name>>

(* A binary of the repository is trusted wherever its link leads.          *)
Located(host, name) == IF Executable(host[name][1]) THEN <<"/", "build", "/", name>> ELSE NoPath

LooksAfresh(name) == name \in REPOSITORY_HELPERS \cup Workloads

PathOf(host, cache, name) ==
    IF LooksAfresh(name) THEN Located(host, name)
    ELSE IF name \in DOMAIN cache THEN cache[name] ELSE ProbeSystemCommand(host, name)

Found(path) == [availability |-> IF path = NoPath THEN "UNAVAILABLE" ELSE "AVAILABLE", path |-> path]
ProbeCommand(host, cache, name) ==
    IF name \in CatalogNames THEN Found(PathOf(host, cache, name))
    ELSE [availability |-> "BLOCKED", path |-> NoPath]

(* What probing names leaves in the cache.                                 *)
Cached(host, cache, names) ==
    [name \in DOMAIN cache \cup {n \in names \cap CatalogNames : ~LooksAfresh(n)} |->
        IF name \in DOMAIN cache THEN cache[name] ELSE ProbeSystemCommand(host, name)]

-----------------------------------------------------------------------------
(* The workspace.  files maps a path, as its parts, to what is there.      *)

PathParts(token) == SplitBy(token, {"/", Backslash})

IsSafeRedirTarget(token) ==
    /\ Len(token) \in 1 .. 255
    /\ \E k \in DOMAIN token : token[k] \notin Blanks
    /\ \A k \in DOMAIN token : token[k] \notin {"~", "nul", Newline}
    /\ Head(token) # "/"
    /\ \A k \in DOMAIN PathParts(token) : PathParts(token)[k] \notin {<<>>, <<".">>, <<".", ".">>}

(* assertTargetInWorkspace: a target may be new, may not pass through a    *)
(* link, and nothing lies below a regular file.                            *)
PartsInWorkspace(files, parts) ==
    LET present == {k \in DOMAIN parts : SubSeq(parts, 1, k) \in DOMAIN files}
        KindAt(k) == files[SubSeq(parts, 1, k)]
    IN  \A k \in present :
            KindAt(k) \in {"file", "directory"} /\ (KindAt(k) = "file" => k = Len(parts))

TargetInWorkspace(files, token) ==
    IsSafeRedirTarget(token) /\ PartsInWorkspace(files, PathParts(token))

(* assertReadableFileInWorkspace: the file exists; a link that stays       *)
(* inside is followed.                                                     *)
ReadableFile(files, token) ==
    /\ IsSafeRedirTarget(token)
    /\ Head(token) # "-"
    /\ PathParts(token) \in DOMAIN files
    /\ files[PathParts(token)] \in {"file", "linkInside"}

-----------------------------------------------------------------------------
(* validateArguments: one argument after the other.                        *)

LooksLikePath(token) ==
    \/ token # <<>> /\ token[1] = "/"
    \/ token \in {<<".">>, <<".", ".">>}
    \/ IsPrefix(<<".", "/">>, token) \/ IsPrefix(<<".", ".", "/">>, token)

IsFlag(token) == Len(token) > 1 /\ token[1] = "-"

ScanStart == [ok |-> TRUE, pending |-> FALSE, positional |-> 0, choice |-> "none", paths |-> <<>>]
Reject(s) == [s EXCEPT !.ok = FALSE]

IntegerOk(ranges, token) == \A range \in ranges : Within(token, 10, range)

FlagValue(schema, s, token) ==
    IF IntegerOk(schema.integers, token) THEN [s EXCEPT !.pending = FALSE] ELSE Reject(s)

(* The rest of a cluster after a flag that takes a value is that value.    *)
GluedOk(schema, glued) ==
    IF schema.integers # {} THEN IntegerOk(schema.integers, glued)
    ELSE IsNumber(glued, 10) => IntegerOk(schema.count, glued)

(* Mutant: the letters after a flag that takes a value are flags, too.     *)
Cluster_ValueAsFlags(schema, s, letters) ==
    IF \E k \in DOMAIN letters : letters[k] \notin schema.flags THEN Reject(s)
    ELSE [s EXCEPT !.pending = Last(letters) \in schema.valued]

Cluster(schema, s, letters) ==
    LET takers == {k \in DOMAIN letters : letters[k] \in schema.valued /\ letters[k] \in schema.flags}
        end == IF takers = {} THEN Len(letters) ELSE Min(takers)
        glued == SubSeq(letters, end + 1, Len(letters))
    IN  IF \E k \in 1 .. end : letters[k] \notin schema.flags THEN Reject(s)
        ELSE IF takers = {} THEN s
        ELSE IF glued = <<>> THEN [s EXCEPT !.pending = TRUE]
        ELSE IF GluedOk(schema, glued) THEN s ELSE Reject(s)

Flag(schema, s, token) ==
    LET letters == Tail(token)
    IN  IF schema.count # {} /\ IsNumber(letters, 10)
        THEN IF IntegerOk(schema.count, letters) THEN s ELSE Reject(s)
        ELSE IF Head(letters) = "-"
        THEN IF Tail(letters) \in {<<w>> : w \in schema.long} THEN s ELSE Reject(s)
        ELSE IF letters \in {<<w>> : w \in schema.words} THEN s ELSE Cluster(schema, s, letters)

Positional(schema, s, token) ==
    LET n == s.positional + 1
        pattern == s.positional < schema.leading /\ ~LooksLikePath(token)
        choice == IF n = 1 /\ schema.choices # {} /\ token # <<>> THEN token[1] ELSE s.choice
        ok == /\ n <= schema.maxPositional
              /\ IntegerOk(schema.integers, token)
              /\ (n = 1 /\ schema.choices # {}) => token \in {<<c>> : c \in schema.choices}
              /\ (n = 2 /\ s.choice \in schema.choiceFor) => IntegerOk(schema.choiceRange, token)
              /\ (n = 1 /\ schema.program) => token \notin RefusedPrograms
    IN  IF ok THEN [s EXCEPT !.positional = n, !.choice = choice,
                             !.paths = IF schema.paths /\ ~pattern THEN Append(@, token) ELSE @]
        ELSE Reject(s)

ScanArgument(schema, s, token) ==
    IF ~s.ok \/ Len(token) > schema.maxBytes \/ "nul" \in ToSet(token) THEN Reject(s)
    ELSE IF s.pending THEN FlagValue(schema, s, token)
    ELSE IF IsFlag(token) THEN Flag(schema, s, token)
    ELSE Positional(schema, s, token)

ScanAfter(schema, args) ==
    LET after[k \in 0 .. Len(args)] ==
            IF k = 0 THEN ScanStart ELSE ScanArgument(schema, after[k - 1], args[k])
    IN  after
Scan(schema, args) == ScanAfter(schema, args)[Len(args)]
ScanOk(end, files) == end.ok /\ \A k \in DOMAIN end.paths : ReadableFile(files, end.paths[k])

ValidateArguments(command, args, files) == ScanOk(Scan(EntryOf(command).schema, args), files)
=============================================================================
