---------------------------- MODULE CommandLine -----------------------------
(***************************************************************************)
(* The command line of the engine (parser.c): how a line becomes tokens,   *)
(* tokens become the stages of a pipeline, and how the gateway writes a    *)
(* validated pipeline back as a line for the same lexer to read again      *)
(* (grammar.ts).  A line is a sequence of symbols; a symbol is a character *)
(* with a meaning below, or stands for a run of characters without one.    *)
(***************************************************************************)
EXTENDS Naturals, Sequences, FiniteSets, SequencesExt

CONSTANTS MaxLine, MaxToken, MaxArgs, MaxStages

ASSUME LimitsAssumption == {MaxLine, MaxToken, MaxArgs, MaxStages} \subseteq Nat \ {0}

Space == " "
Newline == "newline"
SingleQuote == "'"
DoubleQuote == "\""
Backslash == "\\"
Hash == "#"
Blanks == {Space, Newline}

(* What a backslash escapes between double quotes.                         *)
EscapedInQuotes == {DoubleQuote, Backslash, "$", "backquote", Newline}

(* The characters that /^[A-Za-z0-9_@%+=:,./-]+$/ leaves out.              *)
Unsafe == Blanks \cup EscapedInQuotes \cup {SingleQuote, Hash, "|", "<", ">", "{", "}", "(", ")", "star", "~", ";"}

-----------------------------------------------------------------------------
(* The lexer.  held: a token has begun (have_token); over: the line was    *)
(* given up.  An empty token that is followed by a blank stays held and    *)
(* flows into the next one; only at the end of the line is it one of its   *)
(* own.                                                                    *)

LexStart == [mode |-> "plain", token |-> <<>>, held |-> FALSE, tokens |-> <<>>, over |-> FALSE]

GiveUp(s) == [s EXCEPT !.over = TRUE]

Push(s, c) == IF Len(s.token) >= MaxToken THEN GiveUp(s) ELSE [s EXCEPT !.token = Append(@, c)]

Flush(s) == [s EXCEPT !.tokens = Append(@, s.token), !.token = <<>>, !.held = FALSE]

AtBlank(s) == IF s.held /\ s.token # <<>> THEN Flush(s) ELSE s

InPlain(s, c) ==
    LET begun == [s EXCEPT !.held = TRUE]
    IN  IF c \in Blanks THEN AtBlank(s)
        ELSE IF c = Hash /\ ~s.held THEN [s EXCEPT !.mode = "comment"]
        ELSE IF Len(s.tokens) >= MaxArgs THEN GiveUp(s)
        ELSE IF c = SingleQuote THEN [begun EXCEPT !.mode = "single"]
        ELSE IF c = DoubleQuote THEN [begun EXCEPT !.mode = "double"]
        ELSE IF c = Backslash THEN [begun EXCEPT !.mode = "escape"]
        ELSE Push(begun, c)

InSingle(s, c) == IF c = SingleQuote THEN [s EXCEPT !.mode = "plain"] ELSE Push(s, c)

InDouble(s, c) ==
    IF c = DoubleQuote THEN [s EXCEPT !.mode = "plain"]
    ELSE IF c = Backslash THEN [s EXCEPT !.mode = "quotedEscape"]
    ELSE Push(s, c)

(* After a backslash between double quotes: a newline disappears with it,  *)
(* what it does not escape keeps it.                                       *)
AfterBackslash(s, c) ==
    LET back == [s EXCEPT !.mode = "double"]
    IN  IF c = Newline THEN back
        ELSE IF c \in EscapedInQuotes THEN Push(back, c)
        ELSE Push(Push(back, Backslash), c)

LexStep(s, c) ==
    IF s.over \/ s.mode = "comment" THEN s
    ELSE IF s.mode = "plain" THEN InPlain(s, c)
    ELSE IF s.mode = "single" THEN InSingle(s, c)
    ELSE IF s.mode = "double" THEN InDouble(s, c)
    ELSE IF s.mode = "quotedEscape" THEN AfterBackslash(s, c)
    ELSE Push([s EXCEPT !.mode = "plain"], c)

LexEnd(end, fits) ==
    IF fits /\ ~end.over /\ end.mode \in {"plain", "comment"}
    THEN [ok |-> TRUE, tokens |-> IF end.held THEN Append(end.tokens, end.token) ELSE end.tokens]
    ELSE [ok |-> FALSE, tokens |-> <<>>]

LexAfter(line) ==
    LET after[k \in 0 .. Len(line)] == IF k = 0 THEN LexStart ELSE LexStep(after[k - 1], line[k])
    IN  after

Tokenize(line) == LexEnd(LexAfter(line)[Len(line)], Len(line) <= MaxLine)

-----------------------------------------------------------------------------
(* Stages.  A bar or a redirection operator is recognised by the text of   *)
(* its token, whatever quoting it was written with.                        *)

Bar == <<"|">>
Operators == {<<"<">>, <<">">>, <<">", ">">>, <<"2", ">">>, <<"2", ">", ">">>}
RedirFd(op) == IF op = <<"<">> THEN 0 ELSE IF Head(op) = "2" THEN 2 ELSE 1

(* parser_split_redirections: an operator takes the token after it.        *)
OperatorsAt(tokens) == {i \in DOMAIN tokens : tokens[i] \in Operators}

SplitOk(tokens) ==
    \A i \in OperatorsAt(tokens) : i < Len(tokens) /\ tokens[i + 1] \notin Operators

(* The members of places among the first n, from the first to the last.    *)
InOrderUpTo(places, n) ==
    LET upTo[k \in 0 .. n] ==
            IF k = 0 THEN <<>> ELSE IF k \in places THEN Append(upTo[k - 1], k) ELSE upTo[k - 1]
    IN  upTo
InOrder(places, n) == InOrderUpTo(places, n)[n]

PickedAt(tokens, at) == [k \in DOMAIN at |-> tokens[at[k]]]
Picked(tokens, places) == PickedAt(tokens, InOrder(places, Len(tokens)))

ArgvOf(tokens) ==
    Picked(tokens, {i \in DOMAIN tokens : i \notin OperatorsAt(tokens) /\ i - 1 \notin OperatorsAt(tokens)})

RedirectionsOf(tokens) ==
    LET at == InOrder(OperatorsAt(tokens), Len(tokens))
    IN  [k \in DOMAIN at |-> [op |-> tokens[at[k]], target |-> tokens[at[k] + 1]]]

(* The pieces of a sequence between the elements of separators.            *)
SplitAt(seq, cuts) ==
    LET From(k) == IF k = 1 THEN 1 ELSE cuts[k - 1] + 1
        To(k) == IF k > Len(cuts) THEN Len(seq) ELSE cuts[k] - 1
    IN  [k \in 1 .. Len(cuts) + 1 |-> SubSeq(seq, From(k), To(k))]

SplitBy(seq, separators) ==
    SplitAt(seq, InOrder({i \in DOMAIN seq : seq[i] \in separators}, Len(seq)))

Parts(tokens) == SplitBy(tokens, {Bar})

StageOf(argv, redirections, k, count) ==
    LET Uses(operators) == \E r \in ToSet(redirections) : r.op \in operators
    IN  [argv |-> argv, redirections |-> redirections,
         stdin |-> IF k > 1 THEN "pipe" ELSE IF Uses({<<"<">>}) THEN "file" ELSE "inherit",
         stdout |-> IF k < count THEN "pipe" ELSE IF Uses({<<">">>, <<">", ">">>}) THEN "file" ELSE "inherit"]

PartOk(part) == part # <<>> /\ SplitOk(part) /\ ArgvOf(part) # <<>>

PipelineOf(parts, lexed) ==
    IF lexed /\ Len(parts) <= MaxStages /\ \A k \in DOMAIN parts : PartOk(parts[k])
    THEN [ok |-> TRUE,
          stages |-> [k \in DOMAIN parts |->
                        StageOf(ArgvOf(parts[k]), RedirectionsOf(parts[k]), k, Len(parts))]]
    ELSE [ok |-> FALSE, stages |-> <<>>]

ParsePipelineOf(lexed) == PipelineOf(Parts(lexed.tokens), lexed.ok)
ParsePipeline(line) == ParsePipelineOf(Tokenize(line))

-----------------------------------------------------------------------------
(* The way back: quoteForLexer and buildResolvedLine.                      *)

Joined(seqs, between) ==
    FlattenSeq([k \in DOMAIN seqs |-> IF k = 1 THEN seqs[k] ELSE between \o seqs[k]])

Escaped(token) ==
    FlattenSeq([k \in DOMAIN token |->
                  IF token[k] \in EscapedInQuotes \ {Newline} THEN <<Backslash, token[k]>> ELSE <<token[k]>>])

(* Mutant: a token of unsafe characters is quoted without escaping.        *)
QuoteForLexer_Bare(token) ==
    IF token # <<>> /\ \A k \in DOMAIN token : token[k] \notin Unsafe THEN token
    ELSE <<DoubleQuote>> \o token \o <<DoubleQuote>>

QuoteForLexer(token) ==
    IF token # <<>> /\ \A k \in DOMAIN token : token[k] \notin Unsafe THEN token
    ELSE <<DoubleQuote>> \o Escaped(token) \o <<DoubleQuote>>

ResolvedStage(stage) ==
    LET args == [k \in 1 .. Len(stage.argv) - 1 |-> QuoteForLexer(stage.argv[k + 1])]
        redirs == FlattenSeq([r \in DOMAIN stage.redirections |->
                                <<stage.redirections[r].op, QuoteForLexer(stage.redirections[r].target)>>])
    IN  Joined(<<QuoteForLexer(stage.executable)>> \o args \o redirs, <<Space>>)

ResolvedLine(stages) ==
    Joined([k \in DOMAIN stages |-> ResolvedStage(stages[k])], <<Space, "|", Space>>)

-----------------------------------------------------------------------------
(* The terminal page (lib/terminal.ts) shows the stages it was answered as *)
(* one line, and compares that line with what was typed.                   *)

QuoteArgv(token) ==
    IF token = <<>> THEN <<SingleQuote, SingleQuote>>
    ELSE IF \A k \in DOMAIN token : token[k] \notin Unsafe \ {"~"} THEN token
    ELSE <<SingleQuote>>
         \o FlattenSeq([k \in DOMAIN token |->
                          IF token[k] = SingleQuote
                          THEN <<SingleQuote, DoubleQuote, SingleQuote, DoubleQuote, SingleQuote>>
                          ELSE <<token[k]>>])
         \o <<SingleQuote>>

(* A redirection is shown by its direction alone.                          *)
ShownRedirection(redirection) ==
    (IF RedirFd(redirection.op) = 0 THEN <<Space, "<", Space>> ELSE <<Space, ">">>) \o redirection.target

RenderedLine(stages) ==
    LET Shown(stage) ==
            Joined([k \in DOMAIN stage.argv |-> QuoteArgv(stage.argv[k])], <<Space>>)
            \o FlattenSeq([r \in DOMAIN stage.redirections |-> ShownRedirection(stage.redirections[r])])
    IN  Joined([k \in DOMAIN stages |-> Shown(stages[k])], <<Space, "|", Space>>)

(* splitTokens: token boundaries only.                                     *)
SplitTokens(line) ==
    LET Step(s, c) ==
            CASE s.mode = "single" /\ c = SingleQuote -> [s EXCEPT !.mode = "plain"]
              [] s.mode = "double" /\ c = DoubleQuote -> [s EXCEPT !.mode = "plain"]
              [] s.mode # "plain" -> [s EXCEPT !.token = Append(@, c)]
              [] c = SingleQuote -> [s EXCEPT !.mode = "single", !.held = TRUE]
              [] c = DoubleQuote -> [s EXCEPT !.mode = "double", !.held = TRUE]
              [] c \in Blanks -> IF s.held THEN Flush(s) ELSE s
              [] OTHER -> [s EXCEPT !.token = Append(@, c), !.held = TRUE]
        end == FoldLeft(Step, LexStart, line)
    IN  (IF end.held THEN Flush(end) ELSE end).tokens

ResolutionDiffers(line, stages) == SplitTokens(line) # SplitTokens(RenderedLine(stages))
=============================================================================
