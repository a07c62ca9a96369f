------------------------ MODULE AdmissionProperties --------------------------
(***************************************************************************)
(* What holds between what was checked and what is run.                    *)
(***************************************************************************)
EXTENDS Admission

NoEmpty(argv) == Picked(argv, {k \in DOMAIN argv : argv[k] # <<>>})

(* What the engine runs is what the gateway checked: the same stages, each *)
(* with the executable that was probed, its arguments and redirections, a  *)
(* line being written out, lexed, checked, written out again and lexed     *)
(* again in between (grammar.ts:254 buildResolvedLine, parser.c:274        *)
(* parser_tokenize, main.c:371 run_line_mode).  Only an empty argument may *)
(* be lost, and only a line that the executables' paths made too long is   *)
(* not run at all.                                                         *)
WhatRunsWasValidated ==
    \A k \in DOMAIN started :
        LET e == started[k]
        IN  IF e.outgrown THEN e.plan.mode = "syntax"
            ELSE /\ e.plan.mode = "run"
                 /\ Len(e.plan.stages) = Len(e.stages)
                 /\ \A s \in DOMAIN e.stages :
                       /\ NoEmpty(e.plan.stages[s].argv) = NoEmpty(e.stages[s].argv)
                       /\ e.plan.stages[s].redirections = e.stages[s].redirections

-----------------------------------------------------------------------------
(* A program reads its options the usual way: a word after a hyphen is a   *)
(* cluster of letters; a letter that takes a value takes what follows it   *)
(* in its word, or the next argument.                                      *)

TakesNext(schema, word) ==
    /\ IsFlag(word) /\ word[2] # "-" /\ Tail(word) \notin {<<w>> : w \in schema.words}
    /\ ~(schema.count # {} /\ IsNumber(Tail(word), 10))
    /\ Last(word) \in schema.valued
    /\ \A k \in 2 .. Len(word) - 1 : word[k] \notin schema.valued

Readings(schema, args) ==
    {roles \in [DOMAIN args -> {"options", "value", "operand"}] :
        \A k \in DOMAIN args :
            /\ roles[k] = "value" <=> k > 1 /\ roles[k - 1] = "options" /\ TakesNext(schema, args[k - 1])
            /\ roles[k] = "options" => IsFlag(args[k])
            /\ roles[k] = "operand" => ~IsFlag(args[k])}

Letters(schema, word) ==
    {k \in 2 .. Len(word) : \A j \in 2 .. k - 1 : word[j] \notin schema.valued}

KnownOptions(schema, word) ==
    \/ schema.count # {} /\ IsNumber(Tail(word), 10)
    \/ word[2] = "-" /\ Len(word) = 3 /\ word[3] \in schema.long
    \/ Tail(word) \in {<<w>> : w \in schema.words}
    \/ word[2] # "-" /\ \A k \in Letters(schema, word) : word[k] \in schema.flags

Operands(roles) == {k \in DOMAIN roles : roles[k] = "operand"}
Place(roles, k) == Cardinality({j \in Operands(roles) : j <= k})

IsPattern(schema, roles, args, k) == Place(roles, k) - 1 < schema.leading /\ ~LooksLikePath(args[k])

(* What the schema of a command says of its arguments, all at once, when   *)
(* the workspace holds the files of disk.                                  *)
FollowsSchema(schema, args, disk) ==
    \A roles \in Readings(schema, args) :
        /\ \A k \in DOMAIN args : roles[k] = "options" => KnownOptions(schema, args[k])
        /\ \A k \in DOMAIN args : roles[k] \in {"value", "operand"} => IntegerOk(schema.integers, args[k])
        /\ \A k \in Operands(roles) :
              /\ Place(roles, k) <= schema.maxPositional
              /\ schema.paths /\ ~IsPattern(schema, roles, args, k) => ReadableFile(disk, args[k])
              /\ schema.choices # {} /\ Place(roles, k) = 1 => args[k] \in {<<c>> : c \in schema.choices}
              /\ schema.program /\ Place(roles, k) = 1 => args[k] \notin RefusedPrograms

(* The arguments of whatever runs, read as its program reads them, have no *)
(* option the catalogue does not list, not too many operands, and no       *)
(* operand that is neither a number in range, a permitted word nor a file  *)
(* of the workspace that can be read - by whichever route they came        *)
(* (validation.ts:46 validateArguments goes from left to right with a      *)
(* pending flag; terminal/grammar.ts:161 and routes.ts:478 call it).       *)
ArgumentsFollowTheSchema ==
    focus # "host" =>
        \A k \in DOMAIN started : \A s \in DOMAIN started[k].stages :
            FollowsSchema(EntryOf(started[k].stages[s].name).schema, Tail(started[k].stages[s].argv), files)

-----------------------------------------------------------------------------
Trusted(v) ==
    LET readable == {s \in ToSet(Sensors) : s.path \in DOMAIN v.found /\ v.found[s.path] # Unread}
        packages == {s \in readable : s.isPackage}
    IN  IF packages # {} THEN packages ELSE IF v.guard.sensor.kind = "auto" THEN readable ELSE {}

Chooses(v) == v.guard.enabled /\ v.guard.sensor.kind \in {"auto", "package"}
Still(v) == v.found = v.read

(* A guard that is to refuse lets nothing start while one of the sensors   *)
(* it may rely on is too warm, and refuses nothing while none is; the      *)
(* sensors being looked for, compared, and one of them read again          *)
(* (thermalGuard.ts:186 selectSensor, :337 evaluateThermalGuard,           *)
(* runner.ts:245).                                                         *)
HottestSensorDecides ==
    verdict # Nothing /\ Chooses(verdict) /\ Still(verdict) =>
        LET warm == {s \in Trusted(verdict) : verdict.read[s.path] >= verdict.guard.warning}
        IN  /\ Refuses(verdict.record) <=> warm # {} /\ verdict.guard.action # "WARN"
            /\ verdict.record.decision = "UNAVAILABLE_ALLOW" <=> Trusted(verdict) = {}
            /\ verdict.record.threshold = "critical" <=>
                  \E s \in warm : verdict.read[s.path] >= verdict.guard.critical
=============================================================================
