------------------------------ MODULE Command ------------------------------
(***************************************************************************)
(* The command pomsky from its arguments to its exit status: it reads the  *)
(* arguments, then the input, parses it, compiles the tree and prints the  *)
(* regex and the diagnostics.  It composes the command line (Cli), the     *)
(* parser and the compiler, which gets the tree that the parser built.     *)
(***************************************************************************)
EXTENDS Cli, Diagnostics

CONSTANTS
  Names,         \* the names of groups, references and variables in the texts
  Calls,         \* a list of sets of calls, by what they exercise; a call is the source text, the
                 \* arguments, which say where the text is, what stdin is (terminal, invalid or
                 \* text) and stdout, and whether the file is there
  MaxRangeSize,  \* CompileOptions.max_range_size; 12
  MaxReference   \* the largest number in a reference by number; 99

\* An argument is an option with its value, split at commas and equals signs
Argument == [option : STRING, value : Seq(Seq(STRING))]
ASSUME CallsAssumption ==
  \A i \in DOMAIN Calls : \A call \in Calls[i] : call.argv \in Seq(Argument)

VARIABLES
  argv, argi, args,       \* the arguments, the next one, and what they have set
  place,                  \* stdin and the file
  doing, status,          \* what the process is at, and its exit status
  stdout, stderr,         \* what it has printed
  prog, flavor, features, phase, work, outcome,    \* Compiler, see there
  count, used_names, next_idx, default_quantifier,
  variables, current_vars, diagnostics, out, vals

cliVars == <<argv, argi, args, place>>
processVars == <<doing, status, stdout, stderr>>
compilerVars == <<prog, flavor, features, phase, work, outcome, count, used_names, next_idx,
                  default_quantifier, variables, current_vars, diagnostics, out, vals>>
commandVars == <<cliVars, processVars, parserVars, compilerVars>>

\* Only Init of Compiler mentions the three sets, and the input is given here
C == INSTANCE Compiler WITH result <- outcome, Programs <- {}, Flavors <- {}, FeatureSets <- {}
K == INSTANCE CharClasses

(***************************************************************************)
(* The tree that the compiler gets: the same nodes, numbered in source     *)
(* order.  A statement and its body are one node there, and what a leaf    *)
(* holds is reduced to what the passes look at.                            *)
(***************************************************************************)
Statement(n) == nodes[nodes[n].kids[1]]
TreeKids(n) ==
  IF nodes[n].kind # "stmt" THEN nodes[n].kids
  ELSE Statement(n).kids \o <<nodes[n].kids[2]>>

\* The characters of a class, with the error for the flavor
CompiledClass(n) == K!CompileClass(nodes[n].value, nodes[n].negative, args.flavor)

NameOf(units) ==      \* an identifier is one string
  IF units = <<>> THEN C!NoName ELSE FoldLeft(LAMBDA name, unit : name \o unit, "", units)
Label(kind, tag, num) == [kind |-> kind, tag |-> tag, num |-> num]
Plain(kind) == Label(kind, C!NoName, 0)

GroupKinds == Table({<<"Normal", "group">>, <<"Capturing", "capture">>, <<"Atomic", "atomic">>})
ReferenceKinds == Table({<<"Number", "refNumber">>, <<"Relative", "refRelative">>})
LookaroundKinds == Table({<<"Ahead", "lookahead">>, <<"Behind", "lookbehind">>})

TreeLabel(n) ==
  LET node == nodes[n]
      value == node.value
  IN CASE node.kind \in {"literal", "regex"} -> Label(node.kind, C!NoName, Len(value))
       [] node.kind = "class" ->
            Label("class", C!NoName, IF CompiledClass(n).error = "none" THEN 0 ELSE 1)
       [] node.kind = "range" -> Label("range", C!NoName, Len(value[2]))
       [] node.kind = "group" -> Label(GroupKinds[value[1]], NameOf(value[2]), 0)
       [] node.kind = "sequence" -> Plain("group")
       [] node.kind = "lookaround" -> Plain(LookaroundKinds[value[1]])
       [] node.kind = "reference" ->
            IF value[1] = "Named" THEN Label("refName", NameOf(value[2]), 0)
            ELSE Label(ReferenceKinds[value[1]], C!NoName, value[2])
       [] node.kind = "repetition" -> Label("repetition", value[3], 0)
       [] node.kind = "variable" -> Label("variable", NameOf(value[1]), 0)
       [] node.kind = "stmt" /\ Statement(n).kind = "let" ->
            Label("let", NameOf(Statement(n).value[1]), 0)
       [] node.kind = "stmt" /\ Statement(n).kind # "let" -> Plain(Statement(n).kind)
       [] node.kind \in {"alternation", "boundary", "dot"} -> Plain(node.kind)

\* The nodes below each one, itself first, in source order
Subtrees ==
  LET below[n \in DOMAIN nodes] ==
        <<n>> \o FlattenSeq([i \in DOMAIN TreeKids(n) |-> below[TreeKids(n)[i]]])
  IN below

Program(root) ==
  LET order == Subtrees[root]
      Number(n) == SelectInSeq(order, LAMBDA m : m = n)
  IN [size |-> Len(order),
      label |-> [i \in DOMAIN order |-> TreeLabel(order[i])],
      kids |-> [i \in DOMAIN order |->
                 [j \in DOMAIN TreeKids(order[i]) |-> Number(TreeKids(order[i])[j])]],
      last |-> [i \in DOMAIN order |-> i + Len(Subtrees[order[i]]) - 1]]

(***************************************************************************)
(* main()                                                                  *)
(***************************************************************************)
Starting ==
  /\ \E i \in DOMAIN Calls : \E call \in Calls[i] :
       text = call.text /\ argv = call.argv /\ place = call.place
  /\ argi = 1 /\ args = NoArgs
  /\ doing = "arguments" /\ status = -1 /\ stdout = <<>> /\ stderr = <<>>

CompilerIdle ==
  /\ prog = <<>> /\ flavor = "Pcre" /\ features = {} /\ phase = "idle" /\ work = <<>>
  /\ outcome = C!NoError /\ count = 0 /\ used_names = [x \in Names |-> 0]
  /\ C!NewCompileState
  /\ out = <<>> /\ vals = <<>>

CommandInit == Starting /\ Init /\ CompilerIdle

Exit(code, printed, lines) ==
  /\ doing' = "exited"
  /\ status' = code
  /\ stdout' = printed
  /\ stderr' = stderr \o lines
  /\ UNCHANGED <<cliVars, parserVars, compilerVars>>
Go(where) ==
  /\ doing' = where
  /\ UNCHANGED <<status, stdout, stderr, cliVars, parserVars, compilerVars>>

AdHoc(code) == <<Line("error", code, 0, 0, 0)>>

\* One turn of the loop over the arguments
ReadArg ==
  LET arg == argv[argi]
      error == ArgError(arg, args)
  IN /\ doing = "arguments"
     /\ argi <= Len(argv)
     /\ IF error # "none" THEN Exit(2, <<>>, ArgLines(arg) \o AdHoc(error))
        ELSE IF arg.option \in HelpOptions THEN Exit(0, <<Help>>, <<>>)
        ELSE /\ args' = WithArg(arg, args)
             /\ argi' = argi + 1
             /\ stderr' = stderr \o ArgLines(arg)
             /\ UNCHANGED <<argv, place, doing, status, stdout, parserVars, compilerVars>>

EndArgs ==
  /\ doing = "arguments"
  /\ argi > Len(argv)
  /\ IF argv = <<>> /\ place.stdin = "terminal" /\ place.stdout = "terminal"
     THEN Exit(0, <<Help>>, <<>>)
     ELSE IF InputError(args, place.stdin) # "none"
     THEN Exit(2, <<>>, AdHoc(InputError(args, place.stdin)))
     ELSE Go("reading")

ReadInput ==
  /\ doing = "reading"
  /\ IF "path" \in args.given /\ ~place.file THEN Exit(3, <<>>, AdHoc("file")) ELSE Go("parsing")

Parse ==
  /\ doing = "parsing"
  /\ ParserStep
  /\ UNCHANGED <<cliVars, processVars, compilerVars>>

\* The parser returned diagnostics, and an error among them; a panic in it ends
\* the process with the status 101
ParseFailed ==
  /\ doing = "parsing"
  /\ stage \in {"rejected", "panicked"}
  /\ IF stage = "panicked" \/ \E i \in DOMAIN errors : FromParseErrorPanics(errors[i])
     THEN Exit(101, <<>>, <<>>)
     ELSE IF "json" \in args.given
     THEN Exit(1, <<Json(FALSE, [i \in DOMAIN errors |-> ErrorLine(ParseDiagnostics[i])])>>, <<>>)
     ELSE Exit(1, <<>>, ParseErrorLines(ParseDiagnostics))

\* The parser has no warnings, so that there is nothing to print yet
BeginCompile ==
  /\ doing = "parsing"
  /\ stage = "parsed"
  /\ doing' = "compiling"
  /\ prog' = Program(result)
  /\ flavor' = args.flavor
  /\ features' = args.features
  /\ phase' = "validate"
  /\ work' = <<C!Validate(1)>>
  /\ UNCHANGED <<outcome, count, used_names, next_idx, default_quantifier, variables,
                 current_vars, diagnostics, out, vals, status, stdout, stderr, cliVars, parserVars>>

CompileStep ==
  /\ doing = "compiling"
  /\ phase # "done"
  /\ C!Next
  /\ UNCHANGED <<cliVars, processVars, parserVars>>

\* Mutant: with JSON, the status is that of having printed the result.
CompileFailedMutant ==
  /\ doing = "compiling"
  /\ phase = "done" /\ outcome # C!Ok
  /\ IF "json" \in args.given THEN Exit(0, <<Json(FALSE, AdHoc(outcome))>>, <<>>)
     ELSE Exit(1, <<>>, AdHoc(outcome))

CompileFailed ==
  /\ doing = "compiling"
  /\ phase = "done" /\ outcome # C!Ok
  /\ IF "json" \in args.given THEN Exit(1, <<Json(FALSE, AdHoc(outcome))>>, <<>>)
     ELSE Exit(1, <<>>, AdHoc(outcome))

PrintRegex ==
  /\ doing = "compiling"
  /\ phase = "done" /\ outcome = C!Ok
  /\ LET enabled == Filtered(diagnostics, args.warnings)
         lines == [i \in DOMAIN enabled |-> WarningLine("compat")]
     IN IF "json" \in args.given THEN Exit(0, <<Json(TRUE, lines)>>, <<>>)
        ELSE Exit(0, <<Regex>>, WarningLines(diagnostics, args.warnings))

\* The process has ended
Exited == doing = "exited" /\ UNCHANGED commandVars

CommandNext ==
  \/ ReadArg \/ EndArgs \/ ReadInput
  \/ Parse \/ ParseFailed
  \/ BeginCompile \/ CompileStep \/ CompileFailed \/ PrintRegex
  \/ Exited

\* The command is one thread, which waits for nothing once its input is there:
\* it goes on until it has exited.  Until then a step is always enabled, and
\* changes the state, so that this is WF_commandVars(CommandNext).
CommandSpec ==
  /\ CommandInit
  /\ [][CommandNext]_commandVars
  /\ []<>(doing = "exited") \/ []<><<CommandNext>>_commandVars
=============================================================================
