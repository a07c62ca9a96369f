----------------------------- MODULE EngineMain ------------------------------
(***************************************************************************)
(* The ways the engine is started (main.c) and its interactive loop with   *)
(* the three built-in commands (builtin.c).  Each way ends in a plan: the  *)
(* stages to run, or none.                                                 *)
(***************************************************************************)
EXTENDS Catalog

Option(name) == <<name>>
Monitor == Option("--monitor")
Json    == Option("--json")
RunLine == Option("--run-line")
RedirOf == [in |-> Option("--redir-in"), out |-> Option("--redir-out"), append |-> Option("--redir-append")]
OpOf(option) == IF option = RedirOf.in THEN <<"<">> ELSE IF option = RedirOf.out THEN <<">">> ELSE <<">", ">">>

Starts(args, option) == args # <<>> /\ args[1] = option
Without(args, option) == IF Starts(args, option) THEN Tail(args) ELSE args

-----------------------------------------------------------------------------
(* Up to three pairs of a redirection option and its file come before the  *)
(* command.                                                                *)

RedirPairs(args) ==
    LET Pair(k) == 2 * k <= Len(args) /\ args[2 * k - 1] \in {RedirOf[slot] : slot \in DOMAIN RedirOf}
    IN  Max({n \in 0 .. 3 : \A k \in 1 .. n : Pair(k)})

Plan(mode, stages) == [mode |-> mode, stages |-> stages]
Stage(argv, redirections) == [argv |-> argv, redirections |-> redirections]

ParsedPlan(parsed) ==
    IF parsed.ok
    THEN Plan("run", [k \in DOMAIN parsed.stages |->
                        Stage(parsed.stages[k].argv, parsed.stages[k].redirections)])
    ELSE Plan("syntax", <<>>)
LinePlan(line) == ParsedPlan(ParsePipeline(line))

(* monitor_one_shot *)
OneShotPlan(args) ==
    LET pairs == RedirPairs(args)
        redirections == [k \in 1 .. pairs |-> [op |-> OpOf(args[2 * k - 1]), target |-> args[2 * k]]]
        command == SubSeq(args, 2 * pairs + 1, Len(args))
    IN  IF command = <<>> THEN Plan("interactive", <<>>) ELSE Plan("run", <<Stage(command, redirections)>>)

Main(args) ==
    LET afterMonitor == IF Starts(args, Monitor) THEN Without(Tail(args), Json) ELSE args
        line == IF args[1] = Option("--inspect") THEN args[2] ELSE Without(Tail(afterMonitor), Json)[1]
    IN  IF args \in {<<Option("--parse")>>, <<Option("--help")>>, <<Option("--version")>>}
        THEN Plan("print", <<>>)
        ELSE IF Starts(afterMonitor, RunLine) /\ Without(Tail(afterMonitor), Json) = <<>> THEN Plan("usage", <<>>)
        ELSE IF Starts(afterMonitor, RunLine) \/ (Starts(args, Option("--inspect")) /\ Len(args) = 2)
        THEN LinePlan(line)
        ELSE IF Starts(args, Monitor) THEN OneShotPlan(afterMonitor)
        ELSE IF args # <<>> THEN Plan("run", <<Stage(args, <<>>)>>)
        ELSE Plan("interactive", <<>>)

-----------------------------------------------------------------------------
(* The interactive loop.  A shell is the last status, whether the loop is  *)
(* over, and the working directory.  A line it cannot read leaves the last *)
(* status alone.                                                           *)

ShellStart == [status |-> 0, over |-> FALSE, cwd |-> "home"]

(* parse_exit_status: strtol takes a sign; a status is 0 .. 255.            *)
Unsigned(token) == IF Head(token) \in {"+", "-"} THEN Tail(token) ELSE token
IsStatus(token) ==
    /\ token # <<>>
    /\ IsNumber(Unsigned(token), 9)
    /\ NumberOf(Unsigned(token)) <= IF Head(token) = "-" THEN 0 ELSE 255

BuiltinNames == {<<"exit">>, <<"cd">>, <<"help">>}

Exited(shell, argv) ==
    IF Len(argv) = 1 THEN [shell EXCEPT !.over = TRUE]
    ELSE IF IsStatus(argv[2]) THEN [shell EXCEPT !.over = TRUE, !.status = NumberOf(Unsigned(argv[2]))]
    ELSE [shell EXCEPT !.status = 1]

Moved(shell, argv, directories) ==
    LET to == IF Len(argv) = 1 THEN <<"home">> ELSE argv[2]
    IN  IF to \in directories THEN [shell EXCEPT !.cwd = to[1], !.status = 0] ELSE [shell EXCEPT !.status = 1]

(* A built-in has run before it is told that it takes no redirection.      *)
Ran(shell, argv, directories) ==
    CASE argv[1] = <<"exit">> -> Exited(shell, argv)
      [] argv[1] = <<"cd">> -> Moved(shell, argv, directories)
      [] OTHER -> [shell EXCEPT !.status = 0]

Told(shell, redirected) == IF ~shell.over /\ redirected THEN [shell EXCEPT !.status = 1] ELSE shell

BuiltinRun(shell, tokens, directories) ==
    Told(Ran(shell, ArgvOf(tokens), directories), OperatorsAt(tokens) # {})

(* outcome: the exit status of the last stage, when the line runs one.     *)
InteractiveTokens(shell, lexed, outcome, directories) ==
    CASE lexed.tokens = <<>> -> shell
      [] lexed.tokens # <<>> /\ lexed.tokens[1] \in BuiltinNames ->
            IF SplitOk(lexed.tokens) THEN BuiltinRun(shell, lexed.tokens, directories) ELSE shell
      [] OTHER -> IF ParsePipelineOf(lexed).ok THEN [shell EXCEPT !.status = outcome] ELSE shell

InteractiveLine(shell, line, outcome, directories) ==
    InteractiveTokens(shell, Tokenize(line), outcome, directories)
=============================================================================
