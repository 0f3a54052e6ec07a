---------------------------- MODULE CommandSafety ----------------------------
(***************************************************************************)
(* What the command promises to whoever runs it.                           *)
(***************************************************************************)
EXTENDS Command, ParserSafety

Places1 == {"arguments", "reading", "parsing", "compiling", "exited"}

\* Types
CommandTypeOK ==
  /\ ParserTypeOK
  /\ doing \in Places1
  /\ argi \in 1 .. Len(argv) + 1
  /\ args.given \subseteq SetOnce
  /\ args.flavor \in C!AllFlavors
  /\ args.features \subseteq C!AllFeatures
  /\ args.warnings \in {AllWarnings, NoWarnings} \cup {Disabled(kinds) : kinds \in SUBSET WarningKinds}
  /\ phase \in C!Phases \cup {"idle"}
  /\ status \in {-1, 0, 1, 2, 3}
  /\ status = -1 <=> doing # "exited"

(***************************************************************************)
(* Warnings                                                                *)
(***************************************************************************)
Disables(arg, kind) ==
  /\ arg.option = "warnings"
  /\ arg.value = <<<<"0">>>> \/ \E i \in DOMAIN arg.value : arg.value[i] = <<kind, "0">>
DisabledBy(n, kind) == \E i \in 1 .. n : Disables(argv[i], kind)

\* A kind of warnings is enabled as long as no argument has disabled it: the
\* arguments add up, in whatever order they come (warnings.rs:23-64).
WarningsAddUp ==
  \A kind \in WarningKinds : IsEnabled(args.warnings, kind) <=> ~DisabledBy(argi - 1, kind)

\* The warnings are in the output exactly if the arguments do not disable
\* them, as text and as JSON, although two different paths filter them
\* (main.rs:72-119, 157-179); what is not printed of them is announced.
WarningsIn(lines) ==
  {i \in DOMAIN lines : lines[i].is = "warning" /\ lines[i].code # "unknown feature"}
Announced == \E i \in DOMAIN stderr : stderr[i].is = "note"
WarningsReported ==
  doing = "exited" /\ outcome = C!Ok =>
    LET expected == IF DisabledBy(Len(argv), "compat") THEN 0 ELSE Len(diagnostics) IN
    IF "json" \in args.given
    THEN Cardinality(WarningsIn(stdout[1].diagnostics)) = expected /\ WarningsIn(stderr) = {}
    ELSE /\ Cardinality(WarningsIn(stderr)) = Min({expected, MaxPrinted})
         /\ Announced <=> expected > MaxPrinted

(***************************************************************************)
(* The exit status                                                         *)
(***************************************************************************)
ErrorTold ==
  \/ \E i \in DOMAIN stderr : stderr[i].is = "error"
  \/ \E i \in DOMAIN stdout : \E j \in DOMAIN stdout[i].diagnostics : stdout[i].diagnostics[j].is = "error"

\* The status is 0 exactly if there is a regex, or the help was asked for;
\* with JSON there is one object that says the same; and whoever gets another
\* status is told an error.  A panic has a status of its own, which
\* CommandTypeOK excludes.
StatusTellsOutcome ==
  doing = "exited" /\ status # 101 =>
    /\ status = 0 <=> outcome = C!Ok \/ stdout = <<Help>>
    /\ status = 0 => Len(stdout) = 1 /\ stdout[1].success /\ ~ErrorTold
    /\ status # 0 => ErrorTold
    /\ status = 1 /\ "json" \in args.given => Len(stdout) = 1 /\ stdout[1].is = "json" /\ ~stdout[1].success
    /\ status # 0 /\ "json" \notin args.given => stdout = <<>>

\* What is compiled is the whole source: no token is left, the tree is
\* well-formed, which is what the compiler relies on, and its nodes are in the
\* order of the source.
ProgramWellFormed ==
  doing = "compiling" /\ phase = "validate" /\ work = <<C!Validate(1)>> =>
    /\ Is(tokens, at, "EndOfInput")
    /\ C!WellFormed(prog)

\* What ProgramWellFormed asks of the constant Names, which stands for all
\* strings: it has the identifiers of the texts that are accepted.
NamesKnown ==
  stage = "parsed" =>
    \A i \in DOMAIN tokens : tokens[i].token = "Identifier" => NameOf(tokens[i].units) \in Names

(***************************************************************************)
(* Liveness                                                                *)
(***************************************************************************)
\* The command ends, whatever its arguments and its input.  The lexer always
\* moves on, the parser consumes tokens or returns, variables are expanded at
\* most once within themselves.
Exits == <>(doing = "exited")
=============================================================================
