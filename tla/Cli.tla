-------------------------------- MODULE Cli --------------------------------
(***************************************************************************)
(* The command pomsky around the compiler: its arguments, which warnings   *)
(* they leave enabled, and what is printed of the diagnostics.             *)
(*                                                                         *)
(* An argument is an option with its value.  A value is split where the    *)
(* code splits it, at commas and then at equals signs: `-W compat=0,x` has *)
(* the value <<<<"compat", "0">>, <<"x">>>>.                               *)
(***************************************************************************)
EXTENDS Integers, Sequences, TLC, SequencesExt

CONSTANT MaxPrinted    \* how many errors or warnings are printed as text; 8

ASSUME MaxPrintedAssumption == MaxPrinted \in Nat \ {0}

(***************************************************************************)
(* A line on stderr is a diagnostic, a note that some are not shown, or    *)
(* the summary with their number.                                          *)
(***************************************************************************)
Line(is, code, start, end, count) ==
  [is |-> is, code |-> code, start |-> start, end |-> end, count |-> count]
ErrorLine(e) == Line("error", e.kind, e.start, e.end, 0)
WarningLine(kind) == Line("warning", kind, 0, 0, 0)
Note == Line("note", "omitted", 0, 0, 0)
Summary(count) == Line("summary", "-", 0, 0, count)

(***************************************************************************)
(* DiagnosticSet.  A set that is Enabled is always empty.                  *)
(***************************************************************************)
WarningKinds == {"compat", "deprecated"}
DiagnosticKinds ==
  WarningKinds \cup {"syntax", "resolve", "unsupported", "limits", "other"}

AllWarnings == [is |-> "All", kinds |-> {}]
NoWarnings == [is |-> "Enabled", kinds |-> {}]
Disabled(kinds) == [is |-> "Disabled", kinds |-> kinds]

IsEnabled(set, kind) ==
  \/ set.is = "All"
  \/ set.is = "Disabled" /\ kind \notin set.kinds
  \/ set.is = "Enabled" /\ kind \in set.kinds

\* rsplit_once: the last part is the value, and the rest is no kind if it
\* still has an equals sign
WarningKind(part) == IF Len(part) = 2 THEN part[1] ELSE "unknown"

WarningError(part) ==
  IF Len(part) < 2 THEN "WarningsNoEquals"
  ELSE IF part[Len(part)] # "0" THEN "WarningsNoZero"
  ELSE IF WarningKind(part) \notin DiagnosticKinds THEN "Other"
  ELSE IF WarningKind(part) \notin WarningKinds THEN "WarningsNotAllowed"
  ELSE "none"

\* DiagnosticSet::parse, where `set` is what the arguments before have left
WarningsError(value, set) ==
  LET refused == SelectInSeq(value, LAMBDA part : WarningError(part) # "none") IN
  IF value = <<<<"0">>>> \/ set.is = "Enabled" \/ refused = 0 THEN "none"
  ELSE WarningError(value[refused])

\* Mutant: the last argument counts alone.
WarningsSetMutant(value, set) ==
  IF value = <<<<"0">>>> THEN NoWarnings
  ELSE IF set.is = "Enabled" THEN set
  ELSE Disabled({WarningKind(value[i]) : i \in DOMAIN value})

WarningsSet(value, set) ==
  IF value = <<<<"0">>>> THEN NoWarnings
  ELSE IF set.is = "Enabled" THEN set
  ELSE Disabled(set.kinds \cup {WarningKind(value[i]) : i \in DOMAIN value})

(***************************************************************************)
(* The other values                                                        *)
(***************************************************************************)
FlavorOf ==
  [name \in {"pcre", "python", "java", "js", "javascript", "dotnet", ".net", "ruby", "rust"} |->
    CASE name = "pcre" -> "Pcre" [] name = "python" -> "Python" [] name = "java" -> "Java"
      [] name \in {"js", "javascript"} -> "JavaScript" [] name \in {"dotnet", ".net"} -> "DotNet"
      [] name = "ruby" -> "Ruby" [] name = "rust" -> "Rust"]

FeatureNamed ==
  [name \in {"grapheme", "numbered-groups", "named-groups", "atomic-groups", "references", "lazy-mode",
             "ranges", "variables", "lookahead", "lookbehind", "boundaries", "regexes", "dot"} |->
    CASE name = "numbered-groups" -> "numberedGroups" [] name = "named-groups" -> "namedGroups"
      [] name = "atomic-groups" -> "atomicGroups" [] name = "lazy-mode" -> "lazyMode"
      [] OTHER -> name]
Features == {FeatureNamed[x] : x \in DOMAIN FeatureNamed}

\* Mutant: a name that is not known is taken for a feature.
FeaturesInMutant(value) == {value[i][1] : i \in DOMAIN value}

\* parse_features: a name that is not known gets a warning and is passed over
FeaturesIn(value) ==
  {FeatureNamed[value[i][1]] : i \in {j \in DOMAIN value : value[j][1] \in DOMAIN FeatureNamed}}
UnknownFeatures(value) == {i \in DOMAIN value : value[i][1] \notin DOMAIN FeatureNamed}

(***************************************************************************)
(* parse_args_inner: what the arguments read so far have set.  `given` are *)
(* the options that may be given once.                                     *)
(***************************************************************************)
NoArgs == [given |-> {}, flavor |-> "Pcre", features |-> Features, warnings |-> AllWarnings]

SetOnce == {"input", "path", "debug", "flavor", "no-new-line", "allowed-features", "json"}
HelpOptions == {"-h", "--help", "--version"}

\* A value is parsed before the option is found to be there already
ArgError(arg, args) ==
  IF arg.option = "warnings" THEN WarningsError(arg.value, args.warnings)
  ELSE IF arg.option = "flavor" /\ arg.value[1][1] \notin DOMAIN FlavorOf THEN "UnknownFlavor"
  ELSE IF arg.option \notin SetOnce \cup HelpOptions THEN "Lexopt"
  ELSE IF arg.option \notin args.given THEN "none"
  ELSE IF arg.option = "input" THEN "Lexopt" ELSE "UnexpectedTwice"

WithArg(arg, args) ==
  IF arg.option = "warnings" THEN [args EXCEPT !.warnings = WarningsSet(arg.value, @)]
  ELSE LET given == args.given \cup {arg.option} IN
       IF arg.option = "flavor"
       THEN [args EXCEPT !.given = given, !.flavor = FlavorOf[arg.value[1][1]]]
       ELSE IF arg.option = "allowed-features"
       THEN [args EXCEPT !.given = given, !.features = FeaturesIn(arg.value)]
       ELSE [args EXCEPT !.given = given]

\* What reading the value of an argument prints
ArgLines(arg) ==
  IF arg.option # "allowed-features" THEN <<>>
  ELSE [i \in 1 .. Cardinality(UnknownFeatures(arg.value)) |-> WarningLine("unknown feature")]

\* Where the input comes from, once the arguments are read.  Without any
\* argument a terminal gets the help.
FromStdin(args) == {"input", "path"} \cap args.given = {}
InputError(args, stdin) ==
  IF {"input", "path"} \subseteq args.given THEN "InputAndPath"
  ELSE IF FromStdin(args) /\ stdin = "terminal" THEN "NoInput"
  ELSE IF FromStdin(args) /\ stdin = "invalid" THEN "StdinUtf8"
  ELSE "none"

(***************************************************************************)
(* print_parse_errors, print_warnings and CompilationResult                *)
(***************************************************************************)
FirstPrinted(lines) == SubSeq(lines, 1, IF Len(lines) < MaxPrinted THEN Len(lines) ELSE MaxPrinted)
NoteIf(more) == IF more THEN <<Note>> ELSE <<>>

ParseErrorLines(parsed) ==
  LET lines == [i \in DOMAIN parsed |-> ErrorLine(parsed[i])] IN
  FirstPrinted(lines) \o NoteIf(Len(lines) > MaxPrinted) \o <<Summary(Len(lines))>>

\* The warnings of the compiler are all of one kind, compat
Filtered(warnings, set) == IF IsEnabled(set, "compat") THEN warnings ELSE <<>>

\* Mutant: only the kinds together are looked at.
WarningLinesMutant(warnings, set) ==
  LET lines == [i \in DOMAIN warnings |-> WarningLine("compat")]
  IN IF set = NoWarnings THEN <<>>
     ELSE FirstPrinted(lines) \o NoteIf(Len(lines) > MaxPrinted)
          \o (IF Len(lines) > 1 THEN <<Summary(Len(lines))>> ELSE <<>>)

WarningLines(warnings, set) ==
  LET enabled == Filtered(warnings, set)
      lines == [i \in DOMAIN enabled |-> WarningLine("compat")]
  IN IF set = NoWarnings THEN <<>>
     ELSE FirstPrinted(lines) \o NoteIf(Len(lines) > MaxPrinted)
          \o (IF Len(lines) > 1 THEN <<Summary(Len(lines))>> ELSE <<>>)

\* CompilationResult, as it is written in JSON
Json(success, lines) == [is |-> "json", success |-> success, diagnostics |-> lines]
Regex == [is |-> "regex", success |-> TRUE, diagnostics |-> <<>>]
Help == [is |-> "help", success |-> TRUE, diagnostics |-> <<>>]
=============================================================================
