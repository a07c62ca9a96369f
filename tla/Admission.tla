------------------------------ MODULE Admission ------------------------------
(***************************************************************************)
(* How a request becomes an execution: the terminal routes                 *)
(* (api/terminal.ts), which have the engine lex a line and then check every *)
(* stage, the structured route (POST /api/sessions), the catalogue route,  *)
(* and ExecutionRunner.start with its thermal guard; then what the engine  *)
(* makes of the arguments it is started with.  Between the question to the *)
(* engine and its answer anything may happen; what follows the answer is   *)
(* one turn of the event loop.                                             *)
(*                                                                         *)
(* One behaviour is about one of the foci: the lines that are typed, the   *)
(* arguments that are sent, the temperatures, or the host that changes.    *)
(***************************************************************************)
EXTENDS EngineMain, ThermalGuard

CONSTANTS
    Seeds,        \* lines that are typed at once
    QuietLine,    \* the line of the behaviours about temperatures
    Pieces,       \* what is typed after a seed, bound MaxPieces
    Tokens,       \* arguments of structured requests, bound MaxSent
    Commands,     \* the commands of structured requests
    Changing,     \* the commands whose files change
    Envs,         \* environments the gateway is started in
    Heats,        \* what a sensor may read
    Workspaces,   \* what the workspace may hold
    Kinds0,       \* what the host holds at first: a kind for every name
    Targets,      \* redirections of structured requests
    MaxPieces, MaxSent, MaxRequests, MaxChanges   \* bounds

Nothing == <<>>

(* A reading is a number without a sign (thermalGuard.ts:510, read.ts:129  *)
(* readUintFile), and the thresholds are numbers; what is typed and sent   *)
(* consists of characters; a request has one redirection of each kind at   *)
(* most; and the path of a command fits in a token of the engine.          *)
ASSUME AdmissionAssumption ==
    /\ Heats \subseteq Nat /\ Heats # {}
    /\ \A env \in Envs : env.warning \in Int /\ env.critical \in Int
    /\ Seeds \cup Pieces \cup Tokens \cup {QuietLine} \subseteq Seq(STRING)
    /\ \A targets \in Targets :
          /\ targets \in Seq([slot : DOMAIN RedirOf, target : Seq(STRING)])
          /\ Len(targets) <= 3
    /\ 4 <= MaxToken

VARIABLES
    focus,      \* what the behaviour is about
    config,     \* CapsConfig, or Nothing when the gateway refused to start
    typed,      \* the line in the terminal, and the pieces typed after a seed
    sent,       \* the arguments of the structured request being written
    requests,   \* counts requests that start executions
    asked,      \* the terminal request whose inspection is awaited, with what the engine
                \* is going to answer, or Nothing
    reply,      \* the last answer
    started,    \* the executions, with what they were started from
    active,     \* how many of them the registry holds
    verdict,    \* the last decision of the guard, with what it saw, or Nothing
    cache,      \* probeCache
    host,       \* what the trusted directories hold
    files,      \* what the workspace holds
    temps,      \* what the sensors read
    shell,      \* an interactive engine somebody types the same lines into
    changes     \* counts changes of the host

gateway == <<config, requests, asked, reply, started, active, verdict, cache>>
world   == <<host, files, temps, changes>>
vars    == <<focus, typed, sent, gateway, world, shell>>

Up == config # Nothing
Idle == Up /\ asked = Nothing
Answer(status, code) == [status |-> status, code |-> code, shown |-> <<>>, differs |-> FALSE]

Init ==
    /\ focus \in {"lines", "arguments", "thermal", "host"}
    /\ \E env \in {e \in Envs : CoerceBoolean(e.guard) <=> focus = "thermal"} :
          config = IF ConfigurationOk(env) THEN LoadConfig(env) ELSE Nothing
    /\ typed = [line |-> IF focus = "thermal" THEN QuietLine ELSE <<>>, pieces |-> 0]
    /\ sent = <<>>
    /\ requests = 0
    /\ asked = Nothing
    /\ reply = Answer(0, "none")
    /\ started = <<>>
    /\ active = 0
    /\ verdict = Nothing
    /\ cache = <<>>
    /\ host = [name \in CatalogNames |-> Kinds0[name]]
    /\ files = [p \in {<<<<"a">>>>} |-> "file"]
    /\ temps \in [{Sensors[k].path : k \in DOMAIN Sensors} ->
                  IF focus = "thermal" THEN Heats \cup {Unread} ELSE {Min(Heats)}]
    /\ shell = ShellStart
    /\ changes = 0

-----------------------------------------------------------------------------
(* What is typed and sent.                                                 *)

Type ==
    /\ Idle /\ requests = 0
    /\ \/ /\ typed.line = <<>> /\ focus # "arguments"
          /\ \E seed \in Seeds : typed' = [line |-> seed, pieces |-> 0]
       \/ /\ focus = "lines" /\ typed.line # <<>> /\ typed.pieces < MaxPieces
          /\ \E piece \in Pieces : typed' = [line |-> typed.line \o piece, pieces |-> typed.pieces + 1]
    /\ UNCHANGED <<focus, sent, gateway, world, shell>>

Write ==
    /\ Idle /\ focus = "arguments" /\ requests = 0 /\ Len(sent) < MaxSent
    /\ \E token \in Tokens : sent' = Append(sent, token)
    /\ UNCHANGED <<focus, typed, gateway, world, shell>>

(* The lines above are typed into an interactive engine, too; outcome is   *)
(* how the last stage ends.                                                *)
Interact ==
    /\ focus = "lines" /\ typed.line # <<>> /\ ~shell.over
    /\ \E outcome \in 0 .. 1 :
          shell' = InteractiveLine(shell, typed.line, outcome, {<<"home">>, <<"a">>})
    /\ shell' # shell
    /\ UNCHANGED <<focus, typed, sent, gateway, world>>

-----------------------------------------------------------------------------
(* ExecutionRunner.start.  wish says what was asked for; between the reads *)
(* of the sensors time goes by.                                            *)

Cooler(t) == {u \in [DOMAIN t -> Heats \cup {Unread}] : Cardinality({p \in DOMAIN t : u[p] # t[p]}) = 1}
Later == IF focus = "thermal" THEN {temps} \cup Cooler(temps) ELSE {temps}

EngineArgv(wish) ==
    <<Monitor, Json>>
    \o IF wish.line # <<>> THEN <<RunLine, wish.line>>
       ELSE FlattenSeq([k \in DOMAIN wish.redirections |->
                          <<RedirOf[wish.redirections[k].slot], wish.redirections[k].target>>])
            \o wish.stages[1].argv

Execution(wish, record) ==
    [stages |-> wish.stages, timeout |-> wish.timeout, thermal |-> record,
     plan |-> Main(EngineArgv(wish)), outgrown |-> Len(wish.line) > MaxLine,
     limits |-> CapsLimitsApply(SanitizedEnv(config)).applied]

Start(wish) ==
    IF active >= config.maxConcurrent
    THEN /\ reply' = Answer(429, "CONCURRENCY_LIMIT_REACHED")
         /\ UNCHANGED <<started, active, verdict, temps>>
    ELSE \E later \in Later :
         LET record == EvaluateThermalGuard(config.thermalGuard, temps, later)
         IN  /\ temps' = later
             /\ verdict' = [guard |-> config.thermalGuard, found |-> temps, read |-> later, record |-> record]
             /\ \/ /\ reply' = Answer(500, "PERSISTENCE_FAILED")
                   /\ UNCHANGED <<started, active>>
                \/ /\ Refuses(record)
                   /\ reply' = Answer(503, "THERMAL_REFUSED")
                   /\ UNCHANGED <<started, active>>
                \/ /\ ~Refuses(record)
                   /\ reply' = Answer(500, "SPAWN_FAILED")
                   /\ UNCHANGED <<started, active>>
                \/ /\ ~Refuses(record)
                   /\ reply' = Answer(202, "STARTED")
                   /\ started' = Append(started, Execution(wish, record))
                   /\ active' = active + 1

Refuse(status, code) ==
    /\ reply' = Answer(status, code)
    /\ UNCHANGED <<started, active, verdict, temps>>

(* Bound: what a behaviour is about is asked for once, but for the host.   *)
Another ==
    /\ requests < IF focus = "host" THEN MaxRequests ELSE 1
    /\ requests' = requests + 1

-----------------------------------------------------------------------------
(* The terminal routes.                                                    *)

(* A name is one symbol; what is spelled with more is no name here.        *)
NameOf(token) == IF Len(token) = 1 THEN token[1] ELSE "unknown"

StageOk(stage) ==
    LET name == NameOf(stage.argv[1])
    IN  /\ "/" \notin ToSet(stage.argv[1])
        /\ ProbeCommand(host, cache, name).availability = "AVAILABLE"
        /\ ValidateArguments(name, Tail(stage.argv), files)
        /\ \A k \in DOMAIN stage.redirections : TargetInWorkspace(files, stage.redirections[k].target)

(* The stages are checked in order, up to the first that is refused.       *)
Checked(stages) == {k \in DOMAIN stages : \A j \in 1 .. k - 1 : StageOk(stages[j])}
Probed(stages) == {NameOf(stages[k].argv[1]) : k \in Checked(stages)}

Validated(stage) ==
    [name |-> NameOf(stage.argv[1]), argv |-> stage.argv, redirections |-> stage.redirections,
     executable |-> ProbeCommand(host, cache, NameOf(stage.argv[1])).path]

PipelineTimeout(stages) == Max({EntryOf(stages[k].name).timeout : k \in DOMAIN stages})
Effective(requested, default) ==
    LET wanted == NumberOr(requested, default)
    IN  IF wanted <= config.maxTimeout THEN wanted ELSE config.maxTimeout

(* The executable takes the place of the name.                             *)
Wish(stages, line, redirections, timeout) ==
    [line |-> line, redirections |-> redirections, timeout |-> timeout,
     stages |-> [k \in DOMAIN stages |->
                   [argv |-> <<stages[k].executable>> \o Tail(stages[k].argv),
                    redirections |-> stages[k].redirections, name |-> stages[k].name]]]

Ask ==
    /\ Idle /\ Another /\ typed.line # <<>>
    /\ \E route \in {"validate", "execute"} :
          \/ /\ Len(typed.line) > MaxLine
             /\ Refuse(400, "TERMINAL_SYNTAX")
             /\ UNCHANGED asked
          \/ /\ Len(typed.line) <= MaxLine
             /\ asked' = [route |-> route, line |-> typed.line, answer |-> ParsePipeline(typed.line)]
             /\ UNCHANGED <<reply, started, active, verdict, temps>>
    /\ UNCHANGED <<focus, typed, sent, config, cache, host, files, changes, shell>>

(* The engine did not answer within five seconds, or could not be started. *)
InspectFails ==
    /\ asked # Nothing
    /\ asked' = Nothing
    /\ Refuse(400, "TERMINAL_SYNTAX")
    /\ UNCHANGED <<focus, typed, sent, config, requests, cache, host, files, changes, shell>>

Shown(stages) ==
    [status |-> 200, code |-> "VALID", shown |-> RenderedLine(stages),
     differs |-> ResolutionDiffers(asked.line, stages)]

Execute(stages) ==
    Start(Wish(stages, ResolvedLine(stages), <<>>, Effective(NoNumber, PipelineTimeout(stages))))

Judge(stages, ok) ==
    CASE ~asked.answer.ok -> Refuse(400, "TERMINAL_SYNTAX")
      [] asked.answer.ok /\ ok # DOMAIN stages -> Refuse(403, "TERMINAL_POLICY")
      [] asked.answer.ok /\ ok = DOMAIN stages /\ asked.route = "validate" ->
            /\ reply' = Shown(stages)
            /\ UNCHANGED <<started, active, verdict, temps>>
      [] OTHER -> Execute([k \in DOMAIN stages |-> Validated(stages[k])])

Inspected ==
    /\ asked # Nothing
    /\ asked' = Nothing
    /\ cache' = Cached(host, cache, Probed(asked.answer.stages))
    /\ Judge(asked.answer.stages, {k \in DOMAIN asked.answer.stages : StageOk(asked.answer.stages[k])})
    /\ UNCHANGED <<focus, typed, sent, config, requests, host, files, changes, shell>>

-----------------------------------------------------------------------------
(* The structured route.                                                   *)

RedirectionsFor(targets) ==
    [k \in DOMAIN targets |->
        [op |-> OpOf(RedirOf[targets[k].slot]), target |-> targets[k].target]]

(* Fewer than two seconds beyond the budget are too few for the cleanup.   *)
TimeoutTooShort(command, args, timeout) ==
    command \in Workloads /\ timeout < NumberOf(args[1]) + 2

Create(command, targets, requested) ==
    LET probed == ProbeCommand(host, cache, command)
        timeout == Effective(requested, config.defaultTimeout)
        accepted == command \in Workloads => WorkloadArgvOk(command, sent)
        args == IF command \in Workloads /\ accepted THEN MaterializeWorkloadArgv(command, sent) ELSE sent
        stage == [name |-> command, argv |-> <<<<command>>>> \o args, executable |-> probed.path,
                  redirections |-> RedirectionsFor(targets)]
    IN  CASE probed.availability = "BLOCKED" -> Refuse(403, "COMMAND_NOT_ALLOWED")
          [] probed.availability = "UNAVAILABLE" -> Refuse(503, "COMMAND_UNAVAILABLE")
          [] ~accepted -> Refuse(400, "WORKLOAD_ARGUMENT_REJECTED")
          [] TimeoutTooShort(command, args, timeout) -> Refuse(400, "TIMEOUT_TOO_SHORT")
          [] ~ValidateArguments(command, args, files) -> Refuse(422, "ARGUMENT_REJECTED")
          [] \E k \in DOMAIN targets : ~TargetInWorkspace(files, targets[k].target) ->
                Refuse(422, "REDIRECTION_REJECTED")
          [] OTHER -> Start(Wish(<<stage>>, <<>>, targets, timeout))

Structured ==
    /\ Idle /\ Another /\ focus \in {"arguments", "host"}
    /\ \E command \in IF focus = "host" THEN Changing ELSE Commands, targets \in Targets, requested \in {NoNumber, 1} :
          /\ cache' = Cached(host, cache, {command})
          /\ Create(command, targets, requested)
    /\ UNCHANGED <<focus, typed, sent, config, asked, host, files, changes, shell>>

(* GET /api/catalog: every command is probed.                              *)
ReadCatalog ==
    /\ Idle /\ focus = "host"
    /\ cache' = Cached(host, cache, CatalogNames)
    /\ UNCHANGED <<focus, typed, sent, config, requests, asked, reply, started, active, verdict, world, shell>>

-----------------------------------------------------------------------------
(* The world.                                                              *)

Finish ==
    /\ active > 0
    /\ active' = active - 1
    /\ UNCHANGED <<focus, typed, sent, config, requests, asked, reply, started, verdict, cache, world, shell>>

Change ==
    /\ Up /\ changes < MaxChanges
    /\ changes' = changes + 1
    /\ \/ /\ focus = "host"
          /\ \E name \in Changing, d \in DOMAIN Directories, kind \in Kinds :
                host' = [host EXCEPT ![name][d] = kind]
          /\ UNCHANGED <<files, temps>>
       \/ /\ focus = "host" /\ files' \in Workspaces /\ UNCHANGED <<host, temps>>
       \/ /\ focus = "thermal"
          /\ \E p \in DOMAIN temps : temps' = [q \in DOMAIN temps \ {p} |-> temps[q]]
          /\ UNCHANGED <<host, files>>
    /\ UNCHANGED <<focus, typed, sent, gateway, shell>>

Next ==
    \/ Type \/ Write \/ Interact
    \/ Ask \/ InspectFails \/ Inspected
    \/ Structured \/ ReadCatalog
    \/ Finish \/ Change

Spec == Init /\ [][Next]_vars
=============================================================================
