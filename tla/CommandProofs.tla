--------------------------- MODULE CommandProofs ---------------------------
(***************************************************************************)
(* For all calls: the arguments about warnings add up, what holds of the   *)
(* parser (levels of recursion, tokens, the places of errors) holds of it  *)
(* within the command, and the exit status and the two outputs agree on    *)
(* what came out, the warnings included.  For the outputs it is needed     *)
(* of the parser only that it rejects a text with an error, and of the     *)
(* compiler only that its warnings become more.                            *)
(* The tree that the parser hands to the compiler is well-formed: what the *)
(* frames of the parser hold is a forest, in the order of the source, and  *)
(* each atom holds what its kind needs.                                    *)
(***************************************************************************)
EXTENDS CommandSafety, ParserProofs

-----------------------------------------------------------------------------
(***************************************************************************)
(* The first part of a value that is refused                               *)
(***************************************************************************)
\* A value that is not refused has no part that is
LEMMA AcceptedParts ==
  ASSUME NEW value \in Seq(Seq(STRING)), NEW set,
         WarningsError(value, set) = "none",
         value # <<<<"0">>>>, set.is # "Enabled"
  PROVE  \A i \in DOMAIN value : WarningError(value[i]) = "none"
<1> DEFINE I == {i \in 1 .. Len(value) : WarningError(value[i]) # "none"}
<1>1. Len(value) \in Nat /\ DOMAIN value = 1 .. Len(value)
  BY LenProperties
<1>2. CASE I = {}
  BY <1>1, <1>2
<1>3. CASE I # {}
  <2>1. Min(I) \in I
    <3>1. I \subseteq Nat
      BY <1>1
    <3> HIDE DEF I
    <3> QED
      BY <1>3, <3>1, Least
  <2>2. Min(I) # 0
    BY <2>1
  <2>3. WarningsError(value, set) = WarningError(value[Min(I)])
    BY <1>3, <2>2 DEF WarningsError, SelectInSeq
  <2> QED
    BY <2>1, <2>3
<1> QED
  BY <1>2, <1>3

\* A part that is not refused is a kind of warnings with a zero
LEMMA AcceptedPart ==
  ASSUME NEW part \in Seq(STRING), WarningError(part) = "none"
  PROVE  /\ WarningKind(part) \in WarningKinds
         /\ part = <<WarningKind(part), "0">>
<1>1. WarningKind(part) \in WarningKinds /\ Len(part) >= 2 /\ part[Len(part)] = "0"
  BY LenProperties DEF WarningError
<1>2. Len(part) = 2 /\ WarningKind(part) = part[1]
  BY <1>1 DEF WarningKind, WarningKinds
<1>3. part = <<part[1], part[2]>>
  BY <1>2
<1> QED
  BY <1>1, <1>2, <1>3

-----------------------------------------------------------------------------
(***************************************************************************)
(* What the arguments leave enabled                                        *)
(***************************************************************************)
IsWarnings(set) ==
  \/ set \in {AllWarnings, NoWarnings}
  \/ set.is = "Disabled" /\ set = Disabled(set.kinds)

WarningsInv ==
  /\ argv \in Seq(Argument)
  /\ argi \in 1 .. Len(argv) + 1
  /\ "warnings" \in DOMAIN args
  /\ IsWarnings(args.warnings)
  /\ WarningsAddUp

\* What the value of one argument leaves enabled of a set
LEMMA ValueAddsUp ==
  ASSUME NEW value \in Seq(Seq(STRING)), NEW set, IsWarnings(set),
         WarningsError(value, set) = "none"
  PROVE  /\ IsWarnings(WarningsSet(value, set))
         /\ \A kind \in WarningKinds :
              IsEnabled(WarningsSet(value, set), kind)
                <=> /\ IsEnabled(set, kind)
                    /\ value # <<<<"0">>>>
                    /\ \A i \in DOMAIN value : value[i] # <<kind, "0">>
<1>1. CASE value = <<<<"0">>>>
  BY <1>1 DEF WarningsSet, IsWarnings, IsEnabled, NoWarnings
<1>2. CASE value # <<<<"0">>>> /\ set.is = "Enabled"
  BY <1>2 DEF WarningsSet, IsWarnings, IsEnabled, NoWarnings, AllWarnings
<1>3. CASE value # <<<<"0">>>> /\ set.is # "Enabled"
  <2> DEFINE named == {WarningKind(value[i]) : i \in DOMAIN value}
  <2>1. \A i \in DOMAIN value : value[i] \in Seq(STRING) /\ WarningError(value[i]) = "none"
    BY <1>3, AcceptedParts, ElementOfSeq, LenProperties
  <2>2. \A i \in DOMAIN value : value[i] = <<WarningKind(value[i]), "0">>
    BY <2>1, AcceptedPart
  <2>3. \A kind : kind \in named <=> \E i \in DOMAIN value : value[i] = <<kind, "0">>
    BY <2>2
  <2>4. WarningsSet(value, set) = Disabled(set.kinds \cup named)
    BY <1>3 DEF WarningsSet
  <2>5. IsWarnings(WarningsSet(value, set))
    BY <2>4 DEF IsWarnings, Disabled
  <2>6. \A kind : IsEnabled(set, kind) <=> kind \notin set.kinds
    BY <1>3 DEF IsWarnings, IsEnabled, AllWarnings, NoWarnings
  <2>7. \A kind : IsEnabled(WarningsSet(value, set), kind) <=> kind \notin set.kinds \cup named
    BY <2>4 DEF IsEnabled, Disabled
  <2> QED
    BY <1>3, <2>3, <2>5, <2>6, <2>7
<1> QED
  BY <1>1, <1>2, <1>3

LEMMA InitWarnings == CommandInit => WarningsInv
<1> SUFFICES ASSUME CommandInit
             PROVE  WarningsInv
  OBVIOUS
<1>1. argv \in Seq(Argument)
  BY CallsAssumption DEF CommandInit, Starting
<1>2. Len(argv) \in Nat /\ argi = 1 /\ args = NoArgs
  BY <1>1, LenProperties DEF CommandInit, Starting
<1>3. args.warnings = AllWarnings /\ "warnings" \in DOMAIN args
  BY <1>2 DEF NoArgs
<1>4. WarningsAddUp
  BY <1>2, <1>3 DEF WarningsAddUp, IsEnabled, AllWarnings, DisabledBy
<1> QED
  BY <1>1, <1>2, <1>3, <1>4 DEF WarningsInv, IsWarnings

\* Every action but the one that reads an argument leaves them alone
LEMMA ArgumentsKept ==
  ASSUME WarningsInv, UNCHANGED cliVars
  PROVE  WarningsInv'
<1> QED
  BY DEF WarningsInv, cliVars, WarningsAddUp, DisabledBy, Disables, IsEnabled, IsWarnings

LEMMA ReadArgAddsUp ==
  ASSUME WarningsInv, ReadArg
  PROVE  WarningsInv'
<1> DEFINE arg == argv[argi]
<1>1. CASE UNCHANGED cliVars
  BY <1>1, ArgumentsKept
<1>2. CASE /\ argi <= Len(argv) /\ ArgError(arg, args) = "none"
           /\ args' = WithArg(arg, args) /\ argi' = argi + 1 /\ argv' = argv
  <2>1. Len(argv) \in Nat /\ argi \in 1 .. Len(argv) /\ argi' - 1 = argi
    BY <1>2, LenProperties DEF WarningsInv
  <2>2. arg.value \in Seq(Seq(STRING))
    <3>1. arg \in Argument
      BY <2>1, ElementOfSeq DEF WarningsInv
    <3> QED
      BY <3>1 DEF Argument
  <2>3. \A kind : DisabledBy(argi, kind) <=> DisabledBy(argi - 1, kind) \/ Disables(arg, kind)
    BY <2>1 DEF DisabledBy
  <2>4. /\ "warnings" \in DOMAIN args' /\ IsWarnings(args'.warnings)
        /\ \A kind \in WarningKinds :
             IsEnabled(args'.warnings, kind)
               <=> IsEnabled(args.warnings, kind) /\ ~Disables(arg, kind)
    <3>1. CASE arg.option = "warnings"
      <4>1. args' = [args EXCEPT !.warnings = WarningsSet(arg.value, @)]
        BY <1>2, <3>1 DEF WithArg
      <4>2. args'.warnings = WarningsSet(arg.value, args.warnings) /\ "warnings" \in DOMAIN args'
        BY <4>1 DEF WarningsInv
      <4>3. WarningsError(arg.value, args.warnings) = "none"
        BY <1>2, <3>1 DEF ArgError
      <4> HIDE DEF arg
      <4>4. /\ IsWarnings(args'.warnings)
            /\ \A kind \in WarningKinds :
                 IsEnabled(args'.warnings, kind)
                   <=> /\ IsEnabled(args.warnings, kind)
                       /\ arg.value # <<<<"0">>>>
                       /\ \A i \in DOMAIN arg.value : arg.value[i] # <<kind, "0">>
        <5>1. IsWarnings(args.warnings)
          BY DEF WarningsInv
        <5> DEFINE after == WarningsSet(arg.value, args.warnings)
        <5>2. /\ IsWarnings(after)
              /\ \A kind \in WarningKinds :
                   IsEnabled(after, kind)
                     <=> /\ IsEnabled(args.warnings, kind)
                         /\ arg.value # <<<<"0">>>>
                         /\ \A i \in DOMAIN arg.value : arg.value[i] # <<kind, "0">>
          BY <2>2, <4>3, <5>1, ValueAddsUp
        <5> HIDE DEF after
        <5>3. args'.warnings = after
          BY <4>2 DEF after
        <5> QED
          BY <5>2, <5>3
      <4> QED
        BY <3>1, <4>2, <4>4 DEF Disables
    <3>2. CASE arg.option # "warnings"
      <4>1. args'.warnings = args.warnings /\ "warnings" \in DOMAIN args'
        BY <1>2, <3>2 DEF WithArg, WarningsInv
      <4> QED
        BY <3>2, <4>1 DEF WarningsInv, Disables
    <3> QED
      BY <3>1, <3>2
  <2>5. \A kind \in WarningKinds : IsEnabled(args'.warnings, kind) <=> ~DisabledBy(argi, kind)
    BY <2>3, <2>4 DEF WarningsInv, WarningsAddUp
  <2>6. WarningsAddUp'
    BY <1>2, <2>1, <2>5 DEF WarningsAddUp, DisabledBy, Disables, IsEnabled
  <2> QED
    BY <1>2, <2>1, <2>4, <2>6 DEF WarningsInv, IsWarnings
<1> QED
  BY <1>1, <1>2 DEF ReadArg, Exit

LEMMA StepWarnings == WarningsInv /\ [CommandNext]_commandVars => WarningsInv'
<1> SUFFICES ASSUME WarningsInv, [CommandNext]_commandVars
             PROVE  WarningsInv'
  OBVIOUS
<1>1. CASE ReadArg
  BY <1>1, ReadArgAddsUp
<1>2. CASE UNCHANGED cliVars
  BY <1>2, ArgumentsKept
<1>3. EndArgs \/ ReadInput \/ ParseFailed \/ CompileFailed \/ PrintRegex => UNCHANGED cliVars
  BY DEF EndArgs, ReadInput, ParseFailed, CompileFailed, PrintRegex, Exit, Go
<1>4. Parse \/ BeginCompile \/ CompileStep \/ Exited \/ UNCHANGED commandVars => UNCHANGED cliVars
  BY DEF Parse, BeginCompile, CompileStep, Exited, commandVars
<1> QED
  BY <1>1, <1>2, <1>3, <1>4 DEF CommandNext

\* A kind of warnings is enabled as long as no argument has disabled it, for
\* any number of arguments in any order (warnings.rs:23-64).
THEOREM WarningsAddUpHolds == CommandSpec => []WarningsAddUp
<1>1. WarningsInv => WarningsAddUp
  BY DEF WarningsInv
<1> QED
  BY <1>1, InitWarnings, StepWarnings, PTL DEF CommandSpec

-----------------------------------------------------------------------------
(***************************************************************************)
(* The parser within the command                                           *)
(***************************************************************************)
LEMMA ParserRuns == [CommandNext]_commandVars => [ParserStep]_parserVars
<1>1. ReadArg \/ EndArgs \/ ReadInput \/ ParseFailed \/ CompileFailed \/ PrintRegex
        => UNCHANGED parserVars
  BY DEF ReadArg, EndArgs, ReadInput, ParseFailed, CompileFailed, PrintRegex, Exit, Go
<1>2. BeginCompile \/ CompileStep \/ Exited \/ UNCHANGED commandVars => UNCHANGED parserVars
  BY DEF BeginCompile, CompileStep, Exited, commandVars
<1>3. Parse => ParserStep
  BY DEF Parse
<1> QED
  BY <1>1, <1>2, <1>3 DEF CommandNext

\* The levels of recursion stay balanced while the command runs, whatever the
\* text, the limit and the arguments are (main.rs:45-61, parser.rs:121-131).
THEOREM CommandRecursionBalanced == CommandSpec => []RecursionBalanced
<1>1. CommandInit => LevelsInv
  BY InitLevels DEF CommandInit
<1> QED
  BY <1>1, ParserRuns, StepLevels, LevelsBalance, PTL DEF CommandSpec

\* The command never panics in the lexer, and the tokens of its input tile it,
\* whatever the text is (main.rs:45-61, tokenize.rs:59-127).
THEOREM CommandTokensTile == CommandSpec => []TokensTile
<1>1. CommandInit => TilesInv
  BY InitTiles DEF CommandInit
<1> QED
  BY <1>1, ParserRuns, StepTiles, TilesTile, PTL DEF CommandSpec

\* Every error that the command tells is about characters of its input or about
\* its end, and the empty input is not refused, if expressions may be nested at
\* all: the limit of the command is 256 (main.rs:45-61, diagnostics.rs:62-63).
THEOREM CommandErrorsHavePlaces ==
  ASSUME Limit # 0
  PROVE  CommandSpec => []ErrorsHavePlaces
<1>1. CommandInit => ParserInv
  BY InitParser DEF CommandInit
<1>2. ParserInv => ErrorsHavePlaces
  BY PlacesHavePlaces DEF ParserInv
<1> QED
  BY <1>1, <1>2, ParserRuns, StepParser, PTL DEF CommandSpec

\* What the command compiles is a tree that is nested at most as deep as its
\* parser allows, so that no pass over the tree can exhaust the stack for a
\* reason other than statements (main.rs:45-61, parser.rs:121-131).
THEOREM CommandNestingBounded == CommandSpec => []NestingBounded
<1>1. CommandInit => NestingInv
  BY InitNesting DEF CommandInit
<1>2. NestingInv => NestingBounded
  BY DeepNesting DEF NestingInv
<1> QED
  BY <1>1, <1>2, ParserRuns, StepNesting, PTL DEF CommandSpec

-----------------------------------------------------------------------------
(***************************************************************************)
(* Lines                                                                   *)
(***************************************************************************)
LEMMA ElementsOfBoth ==
  ASSUME NEW s, NEW t, IsStack(s), IsStack(t)
  PROVE  Elements(s \o t) = Elements(s) \cup Elements(t)
<1> DEFINE r == s \o t
           m == Len(s)
           n == Len(t)
<1>1. /\ m \in Nat /\ n \in Nat
      /\ DOMAIN s = 1 .. m /\ DOMAIN t = 1 .. n /\ DOMAIN r = 1 .. m + n
      /\ \A i \in 1 .. m : r[i] = s[i]
      /\ \A i \in 1 .. n : r[m + i] = t[i]
  BY Concatenated
<1> HIDE DEF r, m, n
<1>2. \A i \in 1 .. m + n : i \in 1 .. m \/ \E j \in 1 .. n : i = m + j
  <2> SUFFICES ASSUME NEW i \in 1 .. m + n, i \notin 1 .. m
               PROVE  \E j \in 1 .. n : i = m + j
    OBVIOUS
  <2>1. i - m \in 1 .. n /\ i = m + (i - m)
    BY <1>1
  <2> QED
    BY <2>1
<1>3. \A j \in 1 .. n : m + j \in 1 .. m + n
  BY <1>1
<1>4. \A j \in 1 .. m : j \in 1 .. m + n
  BY <1>1
<1>5. Elements(r) = Elements(s) \cup Elements(t)
  <2>1. ASSUME NEW x \in Elements(r) PROVE x \in Elements(s) \cup Elements(t)
    <3>1. PICK i \in 1 .. m + n : r[i] = x
      BY <1>1, <2>1 DEF Elements
    <3>2. CASE i \in 1 .. m
      BY <1>1, <3>1, <3>2 DEF Elements
    <3>3. CASE i \notin 1 .. m
      <4>1. PICK j \in 1 .. n : i = m + j
        BY <1>2, <3>3
      <4>2. x = t[j]
        BY <1>1, <3>1, <4>1
      <4> QED
        BY <1>1, <4>2 DEF Elements
    <3> QED
      BY <3>2, <3>3
  <2>2. ASSUME NEW x \in Elements(s) PROVE x \in Elements(r)
    BY <1>1, <1>4, <2>2 DEF Elements
  <2>3. ASSUME NEW x \in Elements(t) PROVE x \in Elements(r)
    BY <1>1, <1>3, <2>3 DEF Elements
  <2> QED
    BY <2>1, <2>2, <2>3
<1> QED
  BY <1>5 DEF r

LEMMA NoElements == IsStack(<<>>) /\ Elements(<<>>) = {} /\ Len(<<>>) = 0
<1>1. <<>> \in Seq({}) /\ \A i \in DOMAIN <<>> : FALSE
  OBVIOUS
<1>2. IsStack(<<>>)
  BY <1>1, StackOf
<1> QED
  BY <1>1, <1>2 DEF Elements

LEMMA OneOnly ==
  ASSUME NEW x
  PROVE  IsStack(<<x>>) /\ Elements(<<x>>) = {x} /\ Len(<<x>>) = 1
  BY OneElement DEF Elements

LEMMA Listed ==
  ASSUME NEW n \in Nat, NEW S, NEW s \in [1 .. n -> S]
  PROVE  IsStack(s) /\ Len(s) = n /\ DOMAIN s = 1 .. n
<1>1. s \in Seq(S) /\ Len(s) = n
  BY SeqDef, LenProperties
<1> QED
  BY <1>1, StackOf

\* The first lines of a list
Shown(n) == IF n < MaxPrinted THEN n ELSE MaxPrinted

LEMMA FirstOnes ==
  ASSUME NEW s, IsStack(s)
  PROVE  /\ IsStack(FirstPrinted(s)) /\ Len(FirstPrinted(s)) = Shown(Len(s))
         /\ \A i \in 1 .. Shown(Len(s)) : FirstPrinted(s)[i] = s[i]
<1> DEFINE n == Shown(Len(s))
           t == FirstPrinted(s)
           S == Elements(s)
<1>1. Len(s) \in Nat /\ DOMAIN s = 1 .. Len(s)
  BY StackLen
<1>2. n \in Nat /\ n <= Len(s)
  BY <1>1, MaxPrintedAssumption DEF Shown
<1>3. t = SubSeq(s, 1, n)
  BY DEF FirstPrinted, Shown
<1>4. \A i \in 1 .. n : s[i] \in S
  BY <1>1, <1>2 DEF Elements
<1> HIDE DEF n, t, S
<1>5. /\ t \in Seq(S)
      /\ Len(t) = IF 1 <= n THEN n - 1 + 1 ELSE 0
      /\ \A i \in 1 .. n - 1 + 1 : t[i] = s[1 + i - 1]
  BY <1>2, <1>3, <1>4, SubSeqProperties
<1>6. Len(t) = n /\ n - 1 + 1 = n /\ \A i \in 1 .. n : 1 + i - 1 = i
  BY <1>2, <1>5
<1> QED
  BY <1>5, <1>6, StackOf DEF n, t

-----------------------------------------------------------------------------
(***************************************************************************)
(* What is printed                                                         *)
(***************************************************************************)
LEMMA LineIs ==
  /\ \A e : ErrorLine(e).is = "error"
  /\ \A kind : WarningLine(kind).is = "warning" /\ WarningLine(kind).code = kind
  /\ Note.is = "note"
  /\ \A n : Summary(n).is = "summary"
  BY DEF ErrorLine, WarningLine, Note, Summary, Line

UnknownFeature == WarningLine("unknown feature")
Compat == WarningLine("compat")

\* Nothing but the notices about the features that are not known
Notices(lines) == IsStack(lines) /\ Elements(lines) \subseteq {UnknownFeature}

LEMMA AdHocLine ==
  ASSUME NEW code
  PROVE  IsStack(AdHoc(code)) /\ \E line \in Elements(AdHoc(code)) : line.is = "error"
<1> DEFINE line == Line("error", code, 0, 0, 0)
<1>1. AdHoc(code) = <<line>>
  BY DEF AdHoc
<1>2. line.is = "error"
  BY DEF Line
<1> HIDE DEF line
<1> QED
  BY <1>1, <1>2, OneOnly

LEMMA ArgumentNotices ==
  ASSUME NEW arg \in Argument
  PROVE  Notices(ArgLines(arg))
<1>1. CASE arg.option # "allowed-features"
  BY <1>1, NoElements DEF ArgLines, Notices
<1>2. CASE arg.option = "allowed-features"
  <2> DEFINE value == arg.value
             l == Len(value)
             unknown == UnknownFeatures(value)
             n == Cardinality(unknown)
             lines == [i \in 1 .. n |-> UnknownFeature]
  <2>1. l \in Nat /\ unknown \in SUBSET (1 .. l)
    <3>1. value \in Seq(Seq(STRING))
      BY DEF Argument
    <3> QED
      BY <3>1, LenProperties DEF UnknownFeatures
  <2>2. ArgLines(arg) = lines
    BY <1>2 DEF ArgLines, UnknownFeature
  <2> HIDE DEF l, unknown
  <2>3. n \in Nat
    <3>1. 1 \in Int /\ l \in Int
      BY <2>1
    <3>2. IsFiniteSet(1 .. l)
      BY <3>1, FS_Interval
    <3>3. IsFiniteSet(unknown)
      BY <2>1, <3>2, FS_Subset
    <3> QED
      BY <3>3, FS_CardinalityType
  <2> HIDE DEF n
  <2>4. lines \in [1 .. n -> {UnknownFeature}] /\ Elements(lines) \subseteq {UnknownFeature}
    BY DEF Elements
  <2> HIDE DEF lines
  <2> QED
    BY <2>2, <2>3, <2>4, Listed DEF Notices
<1> QED
  BY <1>1, <1>2

\* The errors of the parser: one at least, since MaxPrinted is not 0
LEMMA ParseErrorsPrinted ==
  ASSUME NEW parsed, IsStack(parsed), parsed # <<>>
  PROVE  /\ IsStack(ParseErrorLines(parsed))
         /\ \E line \in Elements(ParseErrorLines(parsed)) : line.is = "error"
<1> DEFINE n == Len(parsed)
           lines == [i \in DOMAIN parsed |-> ErrorLine(parsed[i])]
           T == {ErrorLine(parsed[i]) : i \in 1 .. n}
           first == FirstPrinted(lines)
           note == NoteIf(Len(lines) > MaxPrinted)
           summary == <<Summary(Len(lines))>>
<1>1. n \in Nat /\ DOMAIN parsed = 1 .. n /\ n > 0
  BY StackLen
<1>2. lines \in [1 .. n -> T] /\ \A i \in 1 .. n : lines[i].is = "error"
  BY <1>1, LineIs
<1>3. ParseErrorLines(parsed) = first \o note \o summary
  BY DEF ParseErrorLines
<1> HIDE DEF lines, T, n
<1>4. IsStack(lines) /\ Len(lines) = n
  BY <1>1, <1>2, Listed
<1>5. /\ IsStack(first) /\ Len(first) = Shown(n)
      /\ \A i \in 1 .. Shown(n) : first[i] = lines[i]
  BY <1>4, FirstOnes
<1>6. 1 \in 1 .. Shown(n) /\ 1 \in 1 .. n
  BY <1>1, MaxPrintedAssumption DEF Shown
<1>7. \E line \in Elements(first) : line.is = "error"
  <2>1. 1 \in DOMAIN first
    BY <1>5, <1>6, StackLen
  <2> QED
    BY <1>2, <1>5, <1>6, <2>1 DEF Elements
<1>8. IsStack(note) /\ IsStack(summary)
  BY NoElements, OneOnly DEF NoteIf
<1> HIDE DEF first, note, summary
<1>9. IsStack(first \o note) /\ Elements(first) \subseteq Elements(first \o note)
  BY <1>5, <1>8, Concatenated, ElementsOfBoth
<1> QED
  BY <1>3, <1>7, <1>8, <1>9, Concatenated, ElementsOfBoth

\* The warnings of the compiler: as many as there are and may be printed, and the
\* note if there are more.
LEMMA WarningsPrinted ==
  ASSUME NEW warnings, IsStack(warnings), NEW set, set = NoWarnings => ~IsEnabled(set, "compat")
  PROVE  LET lines == WarningLines(warnings, set)
             n == IF IsEnabled(set, "compat") THEN Len(warnings) ELSE 0
         IN /\ IsStack(lines)
            /\ Shown(n) \in Nat /\ Shown(n) <= Len(lines)
            /\ \A i \in 1 .. Shown(n) : lines[i] = Compat
            /\ \A i \in Shown(n) + 1 .. Len(lines) : lines[i].is \in {"note", "summary"}
            /\ (\E i \in 1 .. Len(lines) : lines[i].is = "note") <=> n > MaxPrinted
<1> DEFINE on == IsEnabled(set, "compat")
           n == IF on THEN Len(warnings) ELSE 0
           printed == WarningLines(warnings, set)
           lines == [i \in DOMAIN Filtered(warnings, set) |-> Compat]
           first == FirstPrinted(lines)
           note == NoteIf(n > MaxPrinted)
           summary == IF n > 1 THEN <<Summary(n)>> ELSE <<>>
<1>1. n \in Nat /\ DOMAIN Filtered(warnings, set) = 1 .. n
  BY StackLen DEF Filtered
<1>2. lines \in [1 .. n -> {Compat}]
  BY <1>1
<1>3. IsStack(lines) /\ Len(lines) = n /\ \A i \in 1 .. n : lines[i] = Compat
  <2>1. \A i \in 1 .. n : lines[i] = Compat
    BY <1>1
  <2> HIDE DEF lines, n
  <2> QED
    BY <1>1, <1>2, <2>1, Listed
<1>4. printed = IF set = NoWarnings THEN <<>> ELSE first \o note \o summary
  BY <1>3 DEF WarningLines, Compat
<1> HIDE DEF lines
<1>5. /\ Shown(n) \in Nat /\ Shown(n) <= n
      /\ n = 0 => Shown(n) = 0 /\ ~(n > MaxPrinted)
  <2> HIDE DEF n
  <2> QED
    BY <1>1, MaxPrintedAssumption DEF Shown
<1>6. CASE set = NoWarnings
  <2>1. printed = <<>> /\ n = 0
    BY <1>4, <1>6
  <2>2. Shown(n) = 0 /\ Len(printed) = 0 /\ IsStack(printed) /\ 1 .. 0 = {} /\ 0 + 1 .. 0 = {}
    BY <1>5, <2>1, NoElements
  <2> QED
    BY <1>5, <2>1, <2>2
<1>7. CASE set # NoWarnings
  <2>1. printed = first \o note \o summary
    BY <1>4, <1>7
  <2>2. /\ IsStack(first) /\ Len(first) = Shown(n)
        /\ \A i \in 1 .. Shown(n) : first[i] = Compat
    BY <1>3, <1>5, FirstOnes
  <2>3. /\ IsStack(note) /\ (Len(note) = 1 <=> n > MaxPrinted) /\ Len(note) \in {0, 1}
        /\ \A i \in 1 .. Len(note) : note[i].is = "note"
    <3>1. CASE n > MaxPrinted
      <4>1. note = <<Note>>
        BY <3>1 DEF NoteIf
      <4> QED
        BY <3>1, <4>1, OneOnly, LineIs
    <3>2. CASE ~(n > MaxPrinted)
      <4>1. note = <<>>
        BY <3>2 DEF NoteIf
      <4> QED
        BY <3>2, <4>1, NoElements
    <3> QED
      BY <3>1, <3>2
  <2>4. /\ IsStack(summary) /\ Len(summary) \in {0, 1}
        /\ \A i \in 1 .. Len(summary) : summary[i].is = "summary"
    <3>1. CASE n > 1
      <4>1. summary = <<Summary(n)>>
        BY <3>1
      <4> HIDE DEF summary, n
      <4> QED
        BY <4>1, OneOnly, LineIs
    <3>2. CASE ~(n > 1)
      <4>1. summary = <<>>
        BY <3>2
      <4> QED
        BY <4>1, NoElements
    <3> QED
      BY <3>1, <3>2
  <2> DEFINE both == first \o note
             a == Len(first)
             b == Len(note)
             c == Len(summary)
  <2> HIDE DEF first, note, summary, n, printed, on
  <2>5. /\ IsStack(both) /\ Len(both) = a + b /\ a \in Nat /\ b \in Nat
        /\ \A i \in 1 .. a : both[i] = first[i]
        /\ \A i \in 1 .. b : both[a + i] = note[i]
    BY <2>2, <2>3, Concatenated
  <2> HIDE DEF both
  <2>6. /\ IsStack(printed) /\ Len(printed) = a + b + c /\ c \in Nat
        /\ \A i \in 1 .. a + b : printed[i] = both[i]
        /\ \A i \in 1 .. c : printed[a + b + i] = summary[i]
    BY <2>1, <2>4, <2>5, Concatenated DEF both
  <2>7. \A i \in 1 .. a : printed[i] = Compat
    BY <2>2, <2>5, <2>6
  <2>8. \A i \in 1 .. b : a + i \in 1 .. a + b + c /\ printed[a + i].is = "note"
    BY <2>3, <2>5, <2>6
  <2>9. \A i \in 1 .. c : printed[a + b + i].is = "summary"
    BY <2>4, <2>6
  <2>10. \A i \in a + 1 .. a + b + c : \/ \E j \in 1 .. b : i = a + j
                                       \/ \E j \in 1 .. c : i = a + b + j
    <3> SUFFICES ASSUME NEW i \in a + 1 .. a + b + c
                 PROVE  \/ \E j \in 1 .. b : i = a + j
                        \/ \E j \in 1 .. c : i = a + b + j
      OBVIOUS
    <3>1. CASE i <= a + b
      <4>1. i - a \in 1 .. b /\ i = a + (i - a)
        BY <2>5, <2>6, <3>1
      <4> QED
        BY <4>1
    <3>2. CASE i > a + b
      <4>1. i - (a + b) \in 1 .. c /\ i = a + b + (i - (a + b))
        BY <2>5, <2>6, <3>2
      <4> QED
        BY <4>1
    <3> QED
      BY <2>5, <3>1, <3>2
  <2>11. \A i \in a + 1 .. a + b + c : printed[i].is \in {"note", "summary"}
    BY <2>8, <2>9, <2>10
  <2>12. (\E i \in 1 .. a + b + c : printed[i].is = "note") <=> n > MaxPrinted
    <3>1. CASE n > MaxPrinted
      <4>1. 1 \in 1 .. b
        BY <2>3, <3>1
      <4> QED
        BY <2>8, <3>1, <4>1
    <3>2. CASE ~(n > MaxPrinted)
      <4>1. \A j \in 1 .. b : FALSE
        BY <2>3, <3>2
      <4>2. \A i \in 1 .. a + b + c : i \in 1 .. a \/ i \in a + 1 .. a + b + c
        BY <2>5, <2>6
      <4>3. \A i \in a + 1 .. a + b + c : printed[i].is = "summary"
        <5> SUFFICES ASSUME NEW i \in a + 1 .. a + b + c
                     PROVE  printed[i].is = "summary"
          OBVIOUS
        <5>1. PICK j \in 1 .. c : i = a + b + j
          BY <2>10, <4>1
        <5> QED
          BY <2>9, <5>1
      <4>4. \A i \in 1 .. a : printed[i].is = "warning"
        BY <2>7, LineIs DEF Compat
      <4> QED
        BY <3>2, <4>2, <4>3, <4>4
    <3> QED
      BY <3>1, <3>2
  <2>13. a = Shown(n) /\ a <= a + b + c
    BY <2>2, <2>5, <2>6
  <2> QED
    BY <1>5, <2>6, <2>7, <2>11, <2>12, <2>13 DEF printed, n, on
<1> QED
  BY <1>6, <1>7

-----------------------------------------------------------------------------
(***************************************************************************)
(* The exit status and the warnings                                        *)
(***************************************************************************)
OutputInv ==
  /\ ErrorsInv
  /\ IsStack(diagnostics)
  /\ doing # "exited" => stdout = <<>> /\ Notices(stderr)
  /\ doing \notin {"compiling", "exited"} => outcome # C!Ok
  /\ doing \in {"reading", "parsing", "compiling"} => argi = Len(argv) + 1
  /\ StatusTellsOutcome
  /\ WarningsReported

\* The end of the process, as the two properties want it
ErrorIn(objects) ==
  \E i \in DOMAIN objects : \E j \in DOMAIN objects[i].diagnostics : objects[i].diagnostics[j].is = "error"
Judged(code, printed, lines) ==
  code # 101 =>
    /\ code = 0 <=> outcome = C!Ok \/ printed = <<Help>>
    /\ code = 0 => /\ Len(printed) = 1 /\ printed[1].success /\ ~ErrorIn(printed)
                   /\ \A line \in Elements(lines) : line.is # "error"
    /\ code # 0 => ErrorIn(printed) \/ \E line \in Elements(lines) : line.is = "error"
    /\ code = 1 /\ "json" \in args.given => Len(printed) = 1 /\ printed[1].is = "json" /\ ~printed[1].success
    /\ code # 0 /\ "json" \notin args.given => printed = <<>>
Expected == IF DisabledBy(Len(argv), "compat") THEN 0 ELSE Len(diagnostics)
Reported(printed, lines) ==
  IF "json" \in args.given
  THEN Cardinality(WarningsIn(printed[1].diagnostics)) = Expected /\ WarningsIn(lines) = {}
  ELSE /\ Cardinality(WarningsIn(lines)) = Min({Expected, MaxPrinted})
       /\ (\E i \in DOMAIN lines : lines[i].is = "note") <=> Expected > MaxPrinted

LEMMA Leave ==
  ASSUME OutputInv, doing # "exited", NEW code, NEW printed, NEW lines,
         Exit(code, printed, lines), IsStack(lines), Judged(code, printed, lines),
         outcome = C!Ok => Reported(printed, stderr \o lines)
  PROVE  OutputInv'
<1>1. /\ doing' = "exited" /\ status' = code /\ stdout' = printed /\ stderr' = stderr \o lines
      /\ UNCHANGED <<cliVars, parserVars, compilerVars>>
  BY DEF Exit
<1>2. UNCHANGED <<args, argv, outcome, diagnostics, tokens, stage, errors>>
  BY <1>1 DEF cliVars, parserVars, lexVars, compilerVars
<1>3. ErrorsInv' /\ IsStack(diagnostics)'
  BY <1>2 DEF OutputInv, ErrorsInv, IsStack
<1>4. Notices(stderr)
  BY DEF OutputInv
<1>5. Elements(stderr') = Elements(stderr) \cup Elements(lines)
  BY <1>1, <1>4, ElementsOfBoth DEF Notices
<1>6. \A line \in Elements(stderr) : line.is = "warning"
  BY <1>4, LineIs DEF Notices, UnknownFeature
<1>7. (\E i \in DOMAIN stderr' : stderr'[i].is = "error")
        <=> \E line \in Elements(lines) : line.is = "error"
  <2>1. (\E i \in DOMAIN stderr' : stderr'[i].is = "error")
          <=> \E line \in Elements(stderr') : line.is = "error"
    BY DEF Elements
  <2> QED
    BY <1>5, <1>6, <2>1
<1>8. ErrorTold' <=> ErrorIn(printed) \/ \E line \in Elements(lines) : line.is = "error"
  BY <1>1, <1>7 DEF ErrorTold, ErrorIn
<1>9. StatusTellsOutcome'
  BY <1>1, <1>2, <1>8 DEF StatusTellsOutcome, Judged
<1>10. WarningsReported'
  BY <1>1, <1>2 DEF WarningsReported, Reported, Expected, WarningsIn, Announced, DisabledBy, Disables
<1> QED
  BY <1>1, <1>3, <1>9, <1>10 DEF OutputInv

\* The diagnostics of the compiler only become more
LEMMA CompilerWarns == C!Next => diagnostics' = diagnostics \/ \E n : diagnostics' = Append(diagnostics, n)
<1>f. ASSUME NEW e, C!Fail(e) PROVE diagnostics' = diagnostics
  BY <1>f DEF C!Fail, C!state
<1>1. C!ValidateRule \/ C!BeginCollect => diagnostics' = diagnostics
  BY <1>f DEF C!ValidateRule, C!BeginCollect, C!state
<1>2. C!CollectCapture \/ C!CollectReference \/ C!CollectLet \/ C!CollectOther \/ C!BeginCompile
        => diagnostics' = diagnostics
  BY <1>f DEF C!CollectCapture, C!CollectReference, C!CollectLet, C!CollectOther, C!BeginCompile, C!state
<1>3. C!CompileValue \/ C!CompileGroup \/ C!CompileAlternation \/ C!CompileRepetition
        => diagnostics' = diagnostics
  BY <1>f DEF C!CompileValue, C!CompileGroup, C!CompileAlternation, C!CompileRepetition, C!state
<1>4. C!CompileLookaround => diagnostics' = diagnostics \/ \E n : diagnostics' = Append(diagnostics, n)
  BY <1>f DEF C!CompileLookaround
<1>5. C!CompileMode \/ C!CompileLet \/ C!CompileVariable \/ C!CompileReference
        => diagnostics' = diagnostics
  BY <1>f DEF C!CompileMode, C!CompileLet, C!CompileVariable, C!CompileReference, C!state
<1>6. C!BuildGroup \/ C!BuildAlternation \/ C!BuildLookaround \/ C!BuildRepetition
        => diagnostics' = diagnostics
  BY <1>f DEF C!BuildGroup, C!BuildAlternation, C!BuildLookaround, C!BuildRepetition, C!state
<1>7. C!RestoreMode \/ C!UnbindLet \/ C!UnexpandVariable \/ C!Finish \/ C!Returned
        => diagnostics' = diagnostics
  BY <1>f DEF C!RestoreMode, C!UnbindLet, C!UnexpandVariable, C!Finish, C!Returned, C!state, C!vars
<1> QED
  BY <1>1, <1>2, <1>3, <1>4, <1>5, <1>6, <1>7 DEF C!Next

LEMMA HelpIs ==
  /\ Help.success /\ Help.diagnostics = <<>> /\ Help.is = "help"
  /\ Regex.success /\ Regex.diagnostics = <<>> /\ Regex.is = "regex"
  /\ \A success, lines : /\ Json(success, lines).is = "json"
                         /\ Json(success, lines).success = success
                         /\ Json(success, lines).diagnostics = lines
  BY DEF Help, Regex, Json

\* The process ends with an error on stderr
LEMMA Refused ==
  ASSUME OutputInv, doing # "exited", outcome # C!Ok, NEW code \in {1, 2, 3}, NEW lines,
         Exit(code, <<>>, lines), IsStack(lines), \E line \in Elements(lines) : line.is = "error",
         code = 1 => "json" \notin args.given
  PROVE  OutputInv'
<1> DEFINE printed == <<>>
<1>1. printed # <<Help>>
  <2>1. Len(<<Help>>) = 1 /\ Len(printed) = 0
    BY OneOnly
  <2> QED
    BY <2>1
<1> HIDE DEF printed
<1>2. Judged(code, printed, lines)
  BY <1>1 DEF Judged, printed
<1> QED
  BY <1>2, Leave DEF printed

\* The process ends with an error in its JSON output
LEMMA RefusedInJson ==
  ASSUME OutputInv, doing # "exited", outcome # C!Ok, NEW lines,
         Exit(1, <<Json(FALSE, lines)>>, <<>>), \E line \in Elements(lines) : line.is = "error",
         "json" \in args.given
  PROVE  OutputInv'
<1> DEFINE object == Json(FALSE, lines)
           printed == <<object>>
<1>1. object.is = "json" /\ object.success = FALSE /\ object.diagnostics = lines
  BY DEF Json
<1> HIDE DEF object
<1>2. Len(printed) = 1 /\ printed[1] = object /\ DOMAIN printed = {1}
  OBVIOUS
<1>3. printed # <<Help>>
  <2>1. <<Help>>[1] = Help /\ Help.is # object.is
    BY <1>1, HelpIs
  <2> QED
    BY <1>2, <2>1
<1>4. ErrorIn(printed)
  BY <1>1, <1>2 DEF ErrorIn, Elements
<1> HIDE DEF printed
<1>5. Judged(1, printed, <<>>)
  BY <1>1, <1>2, <1>3, <1>4 DEF Judged
<1> QED
  BY <1>5, Leave, NoElements DEF object, printed

\* The process ends with the help
LEMMA Helped ==
  ASSUME OutputInv, doing # "exited", outcome # C!Ok, Exit(0, <<Help>>, <<>>)
  PROVE  OutputInv'
<1> DEFINE printed == <<Help>>
<1>1. Len(printed) = 1 /\ printed[1] = Help /\ DOMAIN printed = {1}
  OBVIOUS
<1>2. ~ErrorIn(printed)
  <2>1. \A j \in DOMAIN <<>> : FALSE
    OBVIOUS
  <2> QED
    BY <1>1, <2>1, HelpIs DEF ErrorIn
<1>3. Judged(0, printed, <<>>)
  BY <1>1, <1>2, HelpIs, NoElements DEF Judged
<1> HIDE DEF printed
<1> QED
  BY <1>3, Leave, NoElements DEF printed

\* A step before the process has ended
LEMMA GoesOn ==
  ASSUME OutputInv, doing # "exited", doing' # "exited", UNCHANGED <<stdout, argv>>,
         ErrorsInv', IsStack(diagnostics)', Notices(stderr)',
         doing' # "compiling" => outcome' # C!Ok,
         doing' \in {"reading", "parsing", "compiling"} => argi' = Len(argv') + 1
  PROVE  OutputInv'
<1>1. stdout' = <<>>
  BY DEF OutputInv
<1>2. StatusTellsOutcome' /\ WarningsReported'
  BY DEF StatusTellsOutcome, WarningsReported
<1> QED
  BY <1>1, <1>2 DEF OutputInv

LEMMA Went ==
  ASSUME OutputInv, doing \in {"arguments", "reading"}, NEW where \in {"reading", "parsing"}, Go(where),
         argi = Len(argv) + 1
  PROVE  OutputInv'
<1>1. /\ doing' = where /\ UNCHANGED <<status, stdout, stderr, cliVars, parserVars, compilerVars>>
  BY DEF Go
<1>2. UNCHANGED <<stdout, stderr, argv, argi, outcome, diagnostics, tokens, stage, errors>>
  BY <1>1 DEF cliVars, parserVars, lexVars, compilerVars
<1>3. ErrorsInv' /\ IsStack(diagnostics)' /\ Notices(stderr)'
  BY <1>2 DEF OutputInv, ErrorsInv, IsStack, Notices, Elements
<1>4. outcome # C!Ok
  BY DEF OutputInv
<1> QED
  BY <1>1, <1>2, <1>3, <1>4, GoesOn

LEMMA InitOutput == CommandInit => OutputInv
<1> SUFFICES ASSUME CommandInit
             PROVE  OutputInv
  OBVIOUS
<1>1. /\ doing = "arguments" /\ stdout = <<>> /\ stderr = <<>>
      /\ outcome = C!NoError /\ diagnostics = <<>>
  BY DEF CommandInit, Starting, CompilerIdle, C!NewCompileState
<1>2. ErrorsInv
  BY InitErrors DEF CommandInit
<1>3. IsStack(diagnostics) /\ Notices(stderr)
  BY <1>1, NoElements DEF Notices
<1>4. outcome # C!Ok
  BY <1>1 DEF C!NoError, C!Ok
<1>5. StatusTellsOutcome /\ WarningsReported
  BY <1>1 DEF StatusTellsOutcome, WarningsReported
<1> QED
  BY <1>1, <1>2, <1>3, <1>4, <1>5 DEF OutputInv

-----------------------------------------------------------------------------
(***************************************************************************)
(* The actions                                                             *)
(***************************************************************************)
LEMMA ReadArgOutput ==
  ASSUME OutputInv, WarningsInv, ReadArg
  PROVE  OutputInv'
<1> DEFINE arg == argv[argi]
           error == ArgError(arg, args)
<1>1. doing = "arguments" /\ outcome # C!Ok
  BY DEF ReadArg, OutputInv
<1>2. arg \in Argument
  <2>1. Len(argv) \in Nat /\ argi \in 1 .. Len(argv)
    BY LenProperties DEF ReadArg, WarningsInv
  <2> QED
    BY <2>1, ElementOfSeq DEF WarningsInv
<1>3. \/ Exit(2, <<>>, ArgLines(arg) \o AdHoc(error))
      \/ Exit(0, <<Help>>, <<>>)
      \/ /\ args' = WithArg(arg, args) /\ argi' = argi + 1
         /\ stderr' = stderr \o ArgLines(arg)
         /\ UNCHANGED <<argv, place, doing, status, stdout, parserVars, compilerVars>>
  BY DEF ReadArg
<1> HIDE DEF arg, error
<1>4. Notices(ArgLines(arg))
  BY <1>2, ArgumentNotices
<1>5. CASE Exit(2, <<>>, ArgLines(arg) \o AdHoc(error))
  <2> DEFINE lines == ArgLines(arg) \o AdHoc(error)
  <2>1. IsStack(lines) /\ \E line \in Elements(lines) : line.is = "error"
    BY <1>4, AdHocLine, Concatenated, ElementsOfBoth DEF Notices
  <2> HIDE DEF lines
  <2> QED
    BY <1>1, <1>5, <2>1, Refused DEF lines
<1>6. CASE Exit(0, <<Help>>, <<>>)
  BY <1>1, <1>6, Helped
<1>7. CASE /\ args' = WithArg(arg, args) /\ argi' = argi + 1
           /\ stderr' = stderr \o ArgLines(arg)
           /\ UNCHANGED <<argv, place, doing, status, stdout, parserVars, compilerVars>>
  <2>1. UNCHANGED <<doing, stdout, argv, outcome, diagnostics, tokens, stage, errors>>
    BY <1>7 DEF parserVars, lexVars, compilerVars
  <2>2. ErrorsInv' /\ IsStack(diagnostics)'
    BY <2>1 DEF OutputInv, ErrorsInv, IsStack
  <2>3. Notices(stderr)
    BY <1>1 DEF OutputInv
  <2>4. Notices(stderr \o ArgLines(arg))
    BY <1>4, <2>3, Concatenated, ElementsOfBoth DEF Notices
  <2>5. Notices(stderr)'
    BY <1>7, <2>4 DEF Notices, Elements, IsStack
  <2> QED
    BY <1>1, <2>1, <2>2, <2>5, GoesOn
<1> QED
  BY <1>3, <1>5, <1>6, <1>7

LEMMA EndArgsOutput ==
  ASSUME OutputInv, WarningsInv, EndArgs
  PROVE  OutputInv'
<1> DEFINE error == InputError(args, place.stdin)
<1>1. doing = "arguments" /\ outcome # C!Ok
  BY DEF EndArgs, OutputInv
<1>2. argi = Len(argv) + 1
  BY LenProperties DEF EndArgs, WarningsInv
<1>3. Exit(0, <<Help>>, <<>>) \/ Exit(2, <<>>, AdHoc(error)) \/ Go("reading")
  BY DEF EndArgs
<1> HIDE DEF error
<1>4. CASE Exit(0, <<Help>>, <<>>)
  BY <1>1, <1>4, Helped
<1>5. CASE Exit(2, <<>>, AdHoc(error))
  BY <1>1, <1>5, AdHocLine, Refused
<1>6. CASE Go("reading")
  BY <1>1, <1>2, <1>6, Went
<1> QED
  BY <1>3, <1>4, <1>5, <1>6

LEMMA ReadInputOutput ==
  ASSUME OutputInv, ReadInput
  PROVE  OutputInv'
<1>1. doing = "reading" /\ outcome # C!Ok /\ argi = Len(argv) + 1
  BY DEF ReadInput, OutputInv
<1>2. Exit(3, <<>>, AdHoc("file")) \/ Go("parsing")
  BY DEF ReadInput
<1>3. CASE Exit(3, <<>>, AdHoc("file"))
  BY <1>1, <1>3, AdHocLine, Refused
<1>4. CASE Go("parsing")
  BY <1>1, <1>4, Went
<1> QED
  BY <1>2, <1>3, <1>4

LEMMA ParseOutput ==
  ASSUME OutputInv, Parse
  PROVE  OutputInv'
<1>1. /\ doing = "parsing" /\ outcome # C!Ok /\ argi = Len(argv) + 1
      /\ ParserStep /\ UNCHANGED <<cliVars, processVars, compilerVars>>
  BY DEF Parse, OutputInv
<1>2. UNCHANGED <<doing, stdout, stderr, argv, argi, outcome, diagnostics>>
  BY <1>1 DEF cliVars, processVars, compilerVars
<1>3. ErrorsInv'
  BY <1>1, StepErrors DEF OutputInv
<1>4. IsStack(diagnostics)' /\ Notices(stderr)'
  BY <1>1, <1>2 DEF OutputInv, IsStack, Notices, Elements
<1> QED
  BY <1>1, <1>2, <1>3, <1>4, GoesOn

LEMMA ParseFailedOutput ==
  ASSUME OutputInv, ParseFailed
  PROVE  OutputInv'
<1> DEFINE lines == [i \in DOMAIN errors |-> ErrorLine(ParseDiagnostics[i])]
<1>1. doing = "parsing" /\ outcome # C!Ok
  BY DEF ParseFailed, OutputInv
<1>2. \/ Exit(101, <<>>, <<>>)
      \/ /\ stage = "rejected" /\ "json" \in args.given
         /\ Exit(1, <<Json(FALSE, lines)>>, <<>>)
      \/ /\ stage = "rejected" /\ "json" \notin args.given
         /\ Exit(1, <<>>, ParseErrorLines(ParseDiagnostics))
  BY DEF ParseFailed
<1>3. CASE Exit(101, <<>>, <<>>)
  <2>1. Judged(101, <<>>, <<>>)
    BY DEF Judged
  <2> QED
    BY <1>1, <1>3, <2>1, Leave, NoElements
<1>4. ASSUME stage = "rejected"
      PROVE  /\ DOMAIN errors = 1 .. Len(errors) /\ 1 \in DOMAIN errors
             /\ IsStack(ParseDiagnostics) /\ ParseDiagnostics # <<>>
  <2> DEFINE n == Len(errors)
             T == {FromParseError(errors[i]) : i \in 1 .. n}
             parsed == ParseDiagnostics
  <2>1. n \in Nat /\ DOMAIN errors = 1 .. n /\ n > 0
    BY <1>4, StackLen DEF OutputInv, ErrorsInv
  <2>2. parsed \in [1 .. n -> T]
    BY <2>1 DEF ParseDiagnostics
  <2> HIDE DEF n, T, parsed
  <2>3. IsStack(parsed) /\ Len(parsed) = n
    BY <2>1, <2>2, Listed
  <2>4. parsed # <<>>
    BY <2>1, <2>3, StackLen
  <2> QED
    BY <2>1, <2>3, <2>4 DEF n, parsed
<1>5. CASE /\ stage = "rejected" /\ "json" \in args.given
           /\ Exit(1, <<Json(FALSE, lines)>>, <<>>)
  <2>1. \E line \in Elements(lines) : line.is = "error"
    <3>1. 1 \in DOMAIN lines /\ lines[1].is = "error"
      BY <1>4, <1>5, LineIs
    <3> QED
      BY <3>1 DEF Elements
  <2> HIDE DEF lines
  <2> QED
    BY <1>1, <1>5, <2>1, RefusedInJson
<1>6. CASE /\ stage = "rejected" /\ "json" \notin args.given
           /\ Exit(1, <<>>, ParseErrorLines(ParseDiagnostics))
  <2>1. /\ IsStack(ParseErrorLines(ParseDiagnostics))
        /\ \E line \in Elements(ParseErrorLines(ParseDiagnostics)) : line.is = "error"
    BY <1>4, <1>6, ParseErrorsPrinted
  <2> QED
    BY <1>1, <1>6, <2>1, Refused
<1> QED
  BY <1>2, <1>3, <1>5, <1>6

LEMMA BeginCompileOutput ==
  ASSUME OutputInv, BeginCompile
  PROVE  OutputInv'
<1>1. doing = "parsing" /\ argi = Len(argv) + 1 /\ doing' = "compiling"
  BY DEF BeginCompile, OutputInv
<1>2. UNCHANGED <<stdout, stderr, argv, argi, diagnostics, tokens, stage, errors>>
  BY DEF BeginCompile, cliVars, parserVars, lexVars
<1>3. ErrorsInv' /\ IsStack(diagnostics)' /\ Notices(stderr)'
  BY <1>1, <1>2 DEF OutputInv, ErrorsInv, IsStack, Notices, Elements
<1> QED
  BY <1>1, <1>2, <1>3, GoesOn

LEMMA CompileStepOutput ==
  ASSUME OutputInv, CompileStep
  PROVE  OutputInv'
<1>1. /\ doing = "compiling" /\ argi = Len(argv) + 1 /\ C!Next
      /\ UNCHANGED <<cliVars, processVars, parserVars>>
  BY DEF CompileStep, OutputInv
<1>2. UNCHANGED <<doing, stdout, stderr, argv, argi, tokens, stage, errors>>
  BY <1>1 DEF cliVars, processVars, parserVars, lexVars
<1>3. ErrorsInv' /\ Notices(stderr)'
  BY <1>1, <1>2 DEF OutputInv, ErrorsInv, IsStack, Notices, Elements
<1>4. IsStack(diagnostics)'
  <2>1. CASE diagnostics' = diagnostics
    BY <2>1 DEF OutputInv, IsStack
  <2>2. CASE \E n : diagnostics' = Append(diagnostics, n)
    <3>1. PICK n : diagnostics' = Append(diagnostics, n)
      BY <2>2
    <3>2. IsStack(Append(diagnostics, n))
      BY Appended DEF OutputInv
    <3> QED
      BY <3>1, <3>2 DEF IsStack
  <2> QED
    BY <1>1, <2>1, <2>2, CompilerWarns
<1> QED
  BY <1>1, <1>2, <1>3, <1>4, GoesOn

LEMMA CompileFailedOutput ==
  ASSUME OutputInv, CompileFailed
  PROVE  OutputInv'
<1>1. doing = "compiling" /\ outcome # C!Ok
  BY DEF CompileFailed
<1>2. \/ "json" \in args.given /\ Exit(1, <<Json(FALSE, AdHoc(outcome))>>, <<>>)
      \/ "json" \notin args.given /\ Exit(1, <<>>, AdHoc(outcome))
  BY DEF CompileFailed
<1> DEFINE lines == AdHoc(outcome)
<1>3. IsStack(lines) /\ \E line \in Elements(lines) : line.is = "error"
  BY AdHocLine
<1> HIDE DEF lines
<1>4. CASE "json" \in args.given /\ Exit(1, <<Json(FALSE, AdHoc(outcome))>>, <<>>)
  BY <1>1, <1>3, <1>4, RefusedInJson DEF lines
<1>5. CASE "json" \notin args.given /\ Exit(1, <<>>, AdHoc(outcome))
  BY <1>1, <1>3, <1>5, Refused DEF lines
<1> QED
  BY <1>2, <1>4, <1>5

LEMMA LesserOf ==
  ASSUME NEW n \in Nat
  PROVE  Min({n, MaxPrinted}) = Shown(n)
<1> DEFINE S == {n, MaxPrinted}
<1>1. MaxPrinted \in Nat
  BY MaxPrintedAssumption
<1>2. S \subseteq Nat /\ S # {}
  BY <1>1
<1>3. \E x \in S : \A y \in S : x <= y
  BY <1>1
<1>4. Min(S) \in S /\ \A y \in S : Min(S) <= y
  BY <1>3 DEF Min
<1>5. Min(S) \in Nat /\ (Min(S) = n \/ Min(S) = MaxPrinted) /\ Min(S) <= n /\ Min(S) <= MaxPrinted
  BY <1>1, <1>4
<1> HIDE DEF S
<1>6. Min(S) = Shown(n)
  BY <1>1, <1>5 DEF Shown
<1> QED
  BY <1>6 DEF S

LEMMA NoticesAreNoWarnings ==
  ASSUME NEW lines, Notices(lines)
  PROVE  WarningsIn(lines) = {} /\ \A i \in DOMAIN lines : lines[i].is = "warning"
<1>1. \A i \in DOMAIN lines : lines[i] = UnknownFeature
  BY DEF Notices, Elements
<1> QED
  BY <1>1, LineIs DEF WarningsIn, UnknownFeature

\* The warnings as text
LEMMA TextReported ==
  ASSUME NEW before, Notices(before), NEW lines, IsStack(lines), NEW n \in Nat,
         Shown(n) \in Nat, Shown(n) <= Len(lines),
         \A i \in 1 .. Shown(n) : lines[i] = Compat,
         \A i \in Shown(n) + 1 .. Len(lines) : lines[i].is \in {"note", "summary"},
         (\E i \in 1 .. Len(lines) : lines[i].is = "note") <=> n > MaxPrinted
  PROVE  /\ Cardinality(WarningsIn(before \o lines)) = Min({n, MaxPrinted})
         /\ (\E i \in DOMAIN (before \o lines) : (before \o lines)[i].is = "note") <=> n > MaxPrinted
         /\ \A line \in Elements(lines) : line.is # "error"
<1> DEFINE all == before \o lines
           a == Len(before)
           b == Len(lines)
           m == Shown(n)
<1>1. /\ a \in Nat /\ b \in Nat /\ DOMAIN all = 1 .. a + b
      /\ DOMAIN before = 1 .. a /\ DOMAIN lines = 1 .. b
      /\ \A i \in 1 .. a : all[i] = before[i]
      /\ \A i \in 1 .. b : all[a + i] = lines[i]
  BY Concatenated DEF Notices
<1>2. m \in Nat /\ m <= b
  OBVIOUS
<1>3. Compat.is = "warning" /\ Compat.code = "compat"
  BY LineIs DEF Compat
<1>4. /\ \A i \in 1 .. a : before[i].is = "warning" /\ before[i].code = "unknown feature"
  <2>1. \A i \in 1 .. a : before[i] = UnknownFeature
    BY <1>1 DEF Notices, Elements
  <2> QED
    BY <2>1, LineIs DEF UnknownFeature
<1> HIDE DEF all, a, b
<1>5. \A i \in a + 1 .. a + b : \E j \in 1 .. b : i = a + j /\ j = i - a
  <2> SUFFICES ASSUME NEW i \in a + 1 .. a + b
               PROVE  i - a \in 1 .. b /\ i = a + (i - a)
    OBVIOUS
  <2> QED
    BY <1>1
<1>6. \A i \in 1 .. a + b : i \in 1 .. a \/ i \in a + 1 .. a + b
  BY <1>1
<1>7. \A j \in 1 .. b : j \in 1 .. m \/ j \in m + 1 .. b
  BY <1>1, <1>2
<1>8. WarningsIn(all) = a + 1 .. a + m
  <2>1. ASSUME NEW i \in WarningsIn(all)
        PROVE  i \in a + 1 .. a + m
    <3>1. i \in 1 .. a + b /\ all[i].is = "warning" /\ all[i].code # "unknown feature"
      BY <1>1, <2>1 DEF WarningsIn
    <3>2. i \in a + 1 .. a + b
      BY <1>1, <1>4, <1>6, <3>1
    <3>3. PICK j \in 1 .. b : i = a + j
      BY <1>5, <3>2
    <3>4. j \in 1 .. m
      <4>1. lines[j].is = "warning"
        BY <1>1, <3>1, <3>3
      <4>2. j \in m + 1 .. b => lines[j].is \in {"note", "summary"}
        BY DEF b
      <4> QED
        BY <1>7, <4>1, <4>2
    <3> QED
      BY <1>1, <1>2, <3>3, <3>4
  <2>2. ASSUME NEW i \in a + 1 .. a + m
        PROVE  i \in WarningsIn(all)
    <3>1. i \in a + 1 .. a + b /\ i \in 1 .. a + b
      BY <1>1, <1>2
    <3>2. PICK j \in 1 .. b : i = a + j
      BY <1>5, <3>1
    <3>3. j \in 1 .. m
      BY <1>1, <1>2, <3>2
    <3>4. all[i] = Compat
      BY <1>1, <3>2, <3>3
    <3> QED
      BY <1>1, <1>3, <3>1, <3>4 DEF WarningsIn
  <2> QED
    BY <2>1, <2>2
<1>9. Cardinality(WarningsIn(all)) = m
  <2> DEFINE from == a + 1
             to == a + m
  <2>1. /\ from \in Int /\ to \in Int /\ to - from + 1 = m
        /\ from > to <=> m = 0
    BY <1>1, <1>2
  <2> HIDE DEF from, to, m
  <2>2. Cardinality(from .. to) = IF from > to THEN 0 ELSE to - from + 1
    BY <2>1, FS_Interval
  <2>3. Cardinality(from .. to) = m
    BY <2>1, <2>2
  <2> QED
    BY <1>8, <2>3 DEF from, to
<1>10. (\E i \in 1 .. a + b : all[i].is = "note") <=> \E j \in 1 .. b : lines[j].is = "note"
  <2>1. ASSUME NEW i \in 1 .. a + b, all[i].is = "note"
        PROVE  \E j \in 1 .. b : lines[j].is = "note"
    <3>1. i \in a + 1 .. a + b
      BY <1>1, <1>4, <1>6, <2>1
    <3>2. PICK j \in 1 .. b : i = a + j
      BY <1>5, <3>1
    <3> QED
      BY <1>1, <2>1, <3>2
  <2>2. ASSUME NEW j \in 1 .. b, lines[j].is = "note"
        PROVE  \E i \in 1 .. a + b : all[i].is = "note"
    <3>1. a + j \in 1 .. a + b
      BY <1>1
    <3> QED
      BY <1>1, <2>2, <3>1
  <2> QED
    BY <2>1, <2>2
<1>11. \A line \in Elements(lines) : line.is # "error"
  <2> SUFFICES ASSUME NEW j \in 1 .. b
               PROVE  lines[j].is # "error"
    BY <1>1 DEF Elements
  <2>1. j \in 1 .. m => lines[j] = Compat
    OBVIOUS
  <2>2. j \in m + 1 .. b => lines[j].is \in {"note", "summary"}
    BY DEF b
  <2> QED
    BY <1>3, <1>7, <2>1, <2>2
<1> QED
  BY <1>1, <1>9, <1>10, <1>11, LesserOf DEF all, b

LEMMA PrintRegexOutput ==
  ASSUME OutputInv, WarningsInv, PrintRegex
  PROVE  OutputInv'
<1> DEFINE on == IsEnabled(args.warnings, "compat")
           n == IF on THEN Len(diagnostics) ELSE 0
           enabled == Filtered(diagnostics, args.warnings)
           lines == [i \in DOMAIN enabled |-> WarningLine("compat")]
           object == Json(TRUE, lines)
           printed == WarningLines(diagnostics, args.warnings)
<1>1. doing = "compiling" /\ outcome = C!Ok /\ argi = Len(argv) + 1 /\ Notices(stderr)
  BY DEF PrintRegex, OutputInv
<1>2. \/ "json" \in args.given /\ Exit(0, <<object>>, <<>>)
      \/ "json" \notin args.given /\ Exit(0, <<Regex>>, printed)
  BY DEF PrintRegex
<1>3. /\ Len(diagnostics) \in Nat /\ DOMAIN diagnostics = 1 .. Len(diagnostics)
      /\ n \in Nat /\ DOMAIN enabled = 1 .. n
  BY StackLen DEF OutputInv, Filtered
<1>4. Expected = n
  <2>1. argi - 1 = Len(argv)
    BY <1>1, LenProperties DEF WarningsInv
  <2>2. on <=> ~DisabledBy(Len(argv), "compat")
    BY <2>1 DEF WarningsInv, WarningsAddUp, WarningKinds
  <2> QED
    BY <2>2 DEF Expected
<1>5. CASE "json" \in args.given /\ Exit(0, <<object>>, <<>>)
  <2> DEFINE objects == <<object>>
             all == stderr \o <<>>
  <2>1. \A i \in 1 .. n : lines[i].is = "warning" /\ lines[i].code = "compat"
    BY <1>3, LineIs
  <2>2. DOMAIN lines = 1 .. n
    BY <1>3
  <2>3. object.is = "json" /\ object.success = TRUE /\ object.diagnostics = lines
    <3> HIDE DEF lines
    <3> QED
      BY DEF Json
  <2>4. WarningsIn(lines) = 1 .. n
    BY <2>1, <2>2 DEF WarningsIn
  <2> HIDE DEF lines, object, n
  <2>5. Cardinality(WarningsIn(lines)) = n
    <3>1. 1 \in Int /\ n \in Int /\ n - 1 + 1 = n /\ (1 > n <=> n = 0)
      BY <1>3
    <3>2. Cardinality(1 .. n) = IF 1 > n THEN 0 ELSE n - 1 + 1
      BY <3>1, FS_Interval
    <3> QED
      BY <2>4, <3>1, <3>2
  <2>6. Len(objects) = 1 /\ objects[1] = object /\ DOMAIN objects = {1}
    OBVIOUS
  <2>7. ~ErrorIn(objects)
    <3>1. \A j \in DOMAIN lines : lines[j].is # "error"
      BY <2>1, <2>2
    <3> HIDE DEF objects
    <3> QED
      BY <2>3, <2>6, <3>1 DEF ErrorIn
  <2>8. Notices(all)
    BY <1>1, Concatenated, ElementsOfBoth, NoElements DEF Notices
  <2> HIDE DEF objects, all
  <2>9. Judged(0, objects, <<>>)
    BY <1>1, <2>3, <2>6, <2>7, NoElements DEF Judged
  <2>10. Reported(objects, all)
    BY <1>4, <1>5, <2>3, <2>5, <2>6, <2>8, NoticesAreNoWarnings DEF Reported
  <2> QED
    BY <1>1, <1>5, <2>9, <2>10, Leave, NoElements DEF objects, all
<1>6. CASE "json" \notin args.given /\ Exit(0, <<Regex>>, printed)
  <2> DEFINE objects == <<Regex>>
             all == stderr \o printed
             set == args.warnings
  <2>1. set = NoWarnings => ~IsEnabled(set, "compat")
    BY DEF NoWarnings, IsEnabled
  <2>2. IsStack(diagnostics)
    BY DEF OutputInv
  <2> HIDE DEF set
  <2>3. /\ IsStack(WarningLines(diagnostics, set))
        /\ Shown(n) \in Nat /\ Shown(n) <= Len(WarningLines(diagnostics, set))
        /\ \A i \in 1 .. Shown(n) : WarningLines(diagnostics, set)[i] = Compat
        /\ \A i \in Shown(n) + 1 .. Len(WarningLines(diagnostics, set)) :
             WarningLines(diagnostics, set)[i].is \in {"note", "summary"}
        /\ (\E i \in 1 .. Len(WarningLines(diagnostics, set)) :
              WarningLines(diagnostics, set)[i].is = "note") <=> n > MaxPrinted
    BY <2>1, <2>2, WarningsPrinted DEF set
  <2>4. printed = WarningLines(diagnostics, set)
    BY DEF set
  <2> HIDE DEF printed, n
  <2>5. /\ Cardinality(WarningsIn(all)) = Min({n, MaxPrinted})
        /\ (\E i \in DOMAIN all : all[i].is = "note") <=> n > MaxPrinted
        /\ \A line \in Elements(printed) : line.is # "error"
    BY <1>1, <1>3, <2>3, <2>4, TextReported
  <2>6. Len(objects) = 1 /\ objects[1] = Regex /\ DOMAIN objects = {1}
    OBVIOUS
  <2>7. ~ErrorIn(objects)
    <3>1. \A j \in DOMAIN <<>> : FALSE
      OBVIOUS
    <3> QED
      BY <2>6, <3>1, HelpIs DEF ErrorIn
  <2> HIDE DEF objects, all
  <2>8. Judged(0, objects, printed)
    BY <1>1, <2>5, <2>6, <2>7, HelpIs DEF Judged
  <2>9. Reported(objects, all)
    BY <1>4, <1>6, <2>5 DEF Reported
  <2> QED
    BY <1>1, <1>6, <2>3, <2>4, <2>8, <2>9, Leave DEF objects, all
<1> QED
  BY <1>2, <1>5, <1>6

LEMMA StepOutput == OutputInv /\ WarningsInv /\ [CommandNext]_commandVars => OutputInv'
<1> SUFFICES ASSUME OutputInv, WarningsInv, [CommandNext]_commandVars
             PROVE  OutputInv'
  OBVIOUS
<1>1. CASE UNCHANGED commandVars
  <2>1. UNCHANGED <<doing, status, stdout, stderr, args, argv, argi, outcome, diagnostics,
                    tokens, stage, errors>>
    BY <1>1 DEF commandVars, cliVars, processVars, parserVars, lexVars, compilerVars
  <2>2. ErrorsInv' /\ IsStack(diagnostics)' /\ (Notices(stderr)' <=> Notices(stderr))
    BY <2>1 DEF OutputInv, ErrorsInv, IsStack, Notices, Elements
  <2>3. StatusTellsOutcome'
    BY <2>1 DEF OutputInv, StatusTellsOutcome, ErrorTold
  <2>4. WarningsReported'
    BY <2>1 DEF OutputInv, WarningsReported, WarningsIn, Announced, DisabledBy, Disables
  <2> QED
    BY <2>1, <2>2, <2>3, <2>4 DEF OutputInv
<1>2. Exited => UNCHANGED commandVars
  BY DEF Exited
<1> QED
  BY <1>1, <1>2, ReadArgOutput, EndArgsOutput, ReadInputOutput, ParseOutput, ParseFailedOutput,
     BeginCompileOutput, CompileStepOutput, CompileFailedOutput, PrintRegexOutput DEF CommandNext

\* The exit status says whether there is a regex, and stdout, stderr and the JSON
\* object say the same: for all arguments, texts and limits (main.rs:17-125,
\* result/mod.rs:32-61).
THEOREM StatusTellsOutcomeHolds == CommandSpec => []StatusTellsOutcome
<1>1. OutputInv => StatusTellsOutcome
  BY DEF OutputInv
<1> QED
  BY <1>1, InitOutput, InitWarnings, StepOutput, StepWarnings, PTL DEF CommandSpec

\* The warnings of the compiler are printed exactly if no argument disables them,
\* the first MaxPrinted of them as text and all of them in JSON, and what is left
\* out is announced: for all arguments, texts and limits (main.rs:72-119, 157-179).
THEOREM WarningsReportedHolds == CommandSpec => []WarningsReported
<1>1. OutputInv => WarningsReported
  BY DEF OutputInv
<1> QED
  BY <1>1, InitOutput, InitWarnings, StepOutput, StepWarnings, PTL DEF CommandSpec

-----------------------------------------------------------------------------
(***************************************************************************)
(* Types, and that the process never panics                                *)
(***************************************************************************)
ArgsInv ==
  /\ argv \in Seq(Argument)
  /\ argi \in 1 .. Len(argv) + 1
  /\ DOMAIN args = {"given", "flavor", "features", "warnings"}
  /\ args.given \subseteq SetOnce
  /\ args.flavor \in C!AllFlavors
  /\ args.features \subseteq C!AllFeatures
  /\ args.warnings \in {AllWarnings, NoWarnings} \cup {Disabled(kinds) : kinds \in SUBSET WarningKinds}

ProcessInv ==
  /\ doing \in Places1
  /\ phase \in C!Phases \cup {"idle"}
  /\ status \in {-1, 0, 1, 2, 3}
  /\ status = -1 <=> doing # "exited"

LEMMA FlavorKnown ==
  ASSUME NEW name \in DOMAIN FlavorOf
  PROVE  FlavorOf[name] \in C!AllFlavors
  BY DEF FlavorOf, C!AllFlavors

LEMMA FeaturesKnown ==
  /\ \A name \in DOMAIN FeatureNamed : FeatureNamed[name] \in C!AllFeatures
  /\ Features \subseteq C!AllFeatures
  /\ \A value : FeaturesIn(value) \subseteq C!AllFeatures
<1>1. \A name \in DOMAIN FeatureNamed : FeatureNamed[name] \in C!AllFeatures
  BY DEF FeatureNamed, C!AllFeatures
<1> QED
  BY <1>1 DEF Features, FeaturesIn

LEMMA InitArgs == CommandInit => ArgsInv
<1> SUFFICES ASSUME CommandInit
             PROVE  ArgsInv
  OBVIOUS
<1>1. argv \in Seq(Argument)
  BY CallsAssumption DEF CommandInit, Starting
<1>2. Len(argv) \in Nat /\ argi = 1 /\ args = NoArgs
  BY <1>1, LenProperties DEF CommandInit, Starting
<1>3. /\ DOMAIN args = {"given", "flavor", "features", "warnings"} /\ args.given = {}
      /\ args.flavor = "Pcre" /\ args.features = Features /\ args.warnings = AllWarnings
  BY <1>2 DEF NoArgs
<1> QED
  BY <1>1, <1>2, <1>3, FeaturesKnown DEF ArgsInv, C!AllFlavors

LEMMA SetOfWarnings ==
  ASSUME NEW value \in Seq(Seq(STRING)),
         NEW set \in {AllWarnings, NoWarnings} \cup {Disabled(kinds) : kinds \in SUBSET WarningKinds},
         WarningsError(value, set) = "none"
  PROVE  WarningsSet(value, set) \in
           {AllWarnings, NoWarnings} \cup {Disabled(kinds) : kinds \in SUBSET WarningKinds}
<1>1. CASE value = <<<<"0">>>>
  BY <1>1 DEF WarningsSet
<1>2. CASE value # <<<<"0">>>> /\ set.is = "Enabled"
  BY <1>2 DEF WarningsSet
<1>3. CASE value # <<<<"0">>>> /\ set.is # "Enabled"
  <2> DEFINE named == {WarningKind(value[i]) : i \in DOMAIN value}
  <2>1. \A i \in DOMAIN value : value[i] \in Seq(STRING) /\ WarningError(value[i]) = "none"
    BY <1>3, AcceptedParts, ElementOfSeq, LenProperties
  <2>2. named \subseteq WarningKinds
    BY <2>1, AcceptedPart
  <2>3. set.kinds \subseteq WarningKinds
    BY <1>3 DEF AllWarnings, NoWarnings, Disabled
  <2>4. WarningsSet(value, set) = Disabled(set.kinds \cup named)
    BY <1>3 DEF WarningsSet
  <2> QED
    BY <2>2, <2>3, <2>4
<1> QED
  BY <1>1, <1>2, <1>3

LEMMA ReadArgTypes ==
  ASSUME ArgsInv, ReadArg
  PROVE  ArgsInv'
<1> DEFINE arg == argv[argi]
<1>1. CASE UNCHANGED cliVars
  BY <1>1 DEF ArgsInv, cliVars
<1>2. CASE /\ argi <= Len(argv) /\ ArgError(arg, args) = "none" /\ arg.option \notin HelpOptions
           /\ args' = WithArg(arg, args) /\ argi' = argi + 1 /\ argv' = argv
  <2>1. Len(argv) \in Nat /\ argi \in 1 .. Len(argv) /\ argi' \in 1 .. Len(argv) + 1
    BY <1>2, LenProperties DEF ArgsInv
  <2>2. arg.value \in Seq(Seq(STRING))
    <3>1. arg \in Argument
      BY <2>1, ElementOfSeq DEF ArgsInv
    <3> QED
      BY <3>1 DEF Argument
  <2>3. /\ argv \in Seq(Argument) /\ DOMAIN args = {"given", "flavor", "features", "warnings"}
        /\ args.given \subseteq SetOnce /\ args.flavor \in C!AllFlavors
        /\ args.features \subseteq C!AllFeatures
        /\ args.warnings \in
             {AllWarnings, NoWarnings} \cup {Disabled(kinds) : kinds \in SUBSET WarningKinds}
    BY DEF ArgsInv
  <2> HIDE DEF arg
  <2>4. CASE arg.option = "warnings"
    <3>1. WarningsError(arg.value, args.warnings) = "none"
      BY <1>2, <2>4 DEF ArgError
    <3> DEFINE after == WarningsSet(arg.value, args.warnings)
    <3>2. after \in {AllWarnings, NoWarnings} \cup {Disabled(kinds) : kinds \in SUBSET WarningKinds}
      BY <2>2, <2>3, <3>1, SetOfWarnings
    <3>3. args' = [args EXCEPT !.warnings = after]
      BY <1>2, <2>4 DEF WithArg
    <3> HIDE DEF after
    <3>4. /\ DOMAIN args' = DOMAIN args /\ args'.given = args.given /\ args'.flavor = args.flavor
          /\ args'.features = args.features /\ args'.warnings = after
      BY <2>3, <3>3
    <3> QED
      BY <1>2, <2>1, <2>3, <3>2, <3>4 DEF ArgsInv
  <2>5. CASE arg.option # "warnings"
    <3>1. arg.option \in SetOnce
      BY <1>2, <2>5 DEF ArgError
    <3> DEFINE given == args.given \cup {arg.option}
    <3>2. given \subseteq SetOnce
      BY <2>3, <3>1
    <3>3. arg.option = "flavor" => arg.value[1][1] \in DOMAIN FlavorOf
      BY <1>2, <2>5 DEF ArgError
    <3>4. args' = IF arg.option = "flavor"
                  THEN [args EXCEPT !.given = given, !.flavor = FlavorOf[arg.value[1][1]]]
                  ELSE IF arg.option = "allowed-features"
                  THEN [args EXCEPT !.given = given, !.features = FeaturesIn(arg.value)]
                  ELSE [args EXCEPT !.given = given]
      BY <1>2, <2>5 DEF WithArg
    <3> HIDE DEF given
    <3>5. /\ DOMAIN args' = DOMAIN args /\ args'.given = given /\ args'.warnings = args.warnings
          /\ args'.flavor = IF arg.option = "flavor" THEN FlavorOf[arg.value[1][1]] ELSE args.flavor
          /\ args'.features = IF arg.option = "allowed-features" THEN FeaturesIn(arg.value)
                              ELSE args.features
      BY <2>3, <3>4
    <3>6. args'.flavor \in C!AllFlavors
      BY <2>3, <3>3, <3>5, FlavorKnown
    <3>7. args'.features \subseteq C!AllFeatures
      BY <2>3, <3>5, FeaturesKnown
    <3> QED
      BY <1>2, <2>1, <2>3, <3>2, <3>5, <3>6, <3>7 DEF ArgsInv
  <2> QED
    BY <2>4, <2>5
<1> QED
  BY <1>1, <1>2 DEF ReadArg, Exit

LEMMA StepArgs == ArgsInv /\ [CommandNext]_commandVars => ArgsInv'
<1> SUFFICES ASSUME ArgsInv, [CommandNext]_commandVars
             PROVE  ArgsInv'
  OBVIOUS
<1>1. CASE ReadArg
  BY <1>1, ReadArgTypes
<1>2. CASE UNCHANGED cliVars
  BY <1>2 DEF ArgsInv, cliVars
<1>3. EndArgs \/ ReadInput \/ ParseFailed \/ CompileFailed \/ PrintRegex => UNCHANGED cliVars
  BY DEF EndArgs, ReadInput, ParseFailed, CompileFailed, PrintRegex, Exit, Go
<1>4. Parse \/ BeginCompile \/ CompileStep \/ Exited \/ UNCHANGED commandVars => UNCHANGED cliVars
  BY DEF Parse, BeginCompile, CompileStep, Exited, commandVars
<1> QED
  BY <1>1, <1>2, <1>3, <1>4 DEF CommandNext

LEMMA InitProcess == CommandInit => ProcessInv
  BY DEF CommandInit, Starting, CompilerIdle, ProcessInv, Places1

\* The passes follow each other, and nothing else is a phase
LEMMA PhasesKept == C!Next => phase' = phase \/ phase' \in C!Phases
<1>f. ASSUME NEW e, C!Fail(e) PROVE phase' \in C!Phases
  BY <1>f DEF C!Fail, C!Phases
<1>1. C!ValidateRule \/ C!BeginCollect => phase' = phase \/ phase' \in C!Phases
  BY <1>f DEF C!ValidateRule, C!BeginCollect, C!Phases
<1>2. C!CollectCapture \/ C!CollectReference \/ C!CollectLet \/ C!CollectOther \/ C!BeginCompile
        => phase' = phase \/ phase' \in C!Phases
  BY <1>f DEF C!CollectCapture, C!CollectReference, C!CollectLet, C!CollectOther, C!BeginCompile, C!Phases
<1>3. C!CompileValue \/ C!CompileGroup \/ C!CompileAlternation \/ C!CompileRepetition
        => phase' = phase \/ phase' \in C!Phases
  BY <1>f DEF C!CompileValue, C!CompileGroup, C!CompileAlternation, C!CompileRepetition, C!Phases
<1>4. C!CompileLookaround => phase' = phase \/ phase' \in C!Phases
  BY <1>f DEF C!CompileLookaround
<1>5. C!CompileMode \/ C!CompileLet \/ C!CompileVariable \/ C!CompileReference
        => phase' = phase \/ phase' \in C!Phases
  BY <1>f DEF C!CompileMode, C!CompileLet, C!CompileVariable, C!CompileReference
<1>6. C!BuildGroup \/ C!BuildAlternation \/ C!BuildLookaround \/ C!BuildRepetition
        => phase' = phase \/ phase' \in C!Phases
  BY <1>f DEF C!BuildGroup, C!BuildAlternation, C!BuildLookaround, C!BuildRepetition
<1>7. C!RestoreMode \/ C!UnbindLet \/ C!UnexpandVariable \/ C!Finish \/ C!Returned
        => phase' = phase \/ phase' \in C!Phases
  BY <1>f DEF C!RestoreMode, C!UnbindLet, C!UnexpandVariable, C!Finish, C!Returned, C!vars, C!Phases
<1> QED
  BY <1>1, <1>2, <1>3, <1>4, <1>5, <1>6, <1>7 DEF C!Next

LEMMA StepProcess == ParserInv /\ ProcessInv /\ [CommandNext]_commandVars => ProcessInv'
<1> SUFFICES ASSUME ParserInv, ProcessInv, [CommandNext]_commandVars
             PROVE  ProcessInv'
  OBVIOUS
<1>e. ASSUME NEW code \in {0, 1, 2, 3}, NEW printed, NEW lines, Exit(code, printed, lines)
      PROVE  ProcessInv'
  BY <1>e DEF Exit, ProcessInv, Places1, compilerVars
<1>g. ASSUME NEW where \in {"reading", "parsing"}, doing # "exited", Go(where)
      PROVE  ProcessInv'
  BY <1>g DEF Go, ProcessInv, Places1, compilerVars
<1>s. ASSUME doing' = doing, status' = status, phase' = phase \/ phase' \in C!Phases
      PROVE  ProcessInv'
  BY <1>s DEF ProcessInv
<1>1. ReadArg => ProcessInv'
  BY <1>e, <1>s DEF ReadArg, compilerVars
<1>2. EndArgs => ProcessInv'
  BY <1>e, <1>g DEF EndArgs
<1>3. ReadInput => ProcessInv'
  BY <1>e, <1>g DEF ReadInput
<1>4. Parse => ProcessInv'
  BY <1>s DEF Parse, processVars, compilerVars
<1>5. CASE ParseFailed
  <2>1. stage # "panicked"
    BY DEF ParserInv, TilesInv
  <2>2. ASSUME NEW i \in DOMAIN errors, FromParseErrorPanics(errors[i]), stage = "rejected"
        PROVE  FALSE
    <3>1. TilesInv /\ Place(errors[i]) /\ text # <<>>
      BY <2>2 DEF ParserInv, PlacesInv, EmptyInv
    <3> QED
      BY <2>2, <3>1, NoParsePanic
  <2>3. \/ \E printed, lines : Exit(1, printed, lines)
        \/ \E i \in DOMAIN errors : FromParseErrorPanics(errors[i]) /\ stage = "rejected"
    BY <1>5, <2>1 DEF ParseFailed
  <2> QED
    BY <1>e, <2>2, <2>3
<1>6. BeginCompile => ProcessInv'
  BY DEF BeginCompile, ProcessInv, Places1, C!Phases
<1>7. CompileStep => ProcessInv'
  BY <1>s, PhasesKept DEF CompileStep, processVars
<1>8. CompileFailed \/ PrintRegex => ProcessInv'
  BY <1>e DEF CompileFailed, PrintRegex
<1>9. Exited \/ UNCHANGED commandVars => ProcessInv'
  BY <1>s DEF Exited, commandVars, processVars, compilerVars
<1> QED
  BY <1>1, <1>2, <1>3, <1>4, <1>5, <1>6, <1>7, <1>8, <1>9 DEF CommandNext

\* The command never panics, neither in the lexer nor when it turns an error into a
\* diagnostic, and ends with one of four statuses; what the arguments set are options,
\* a flavor, features and warnings that exist; the tree is one at every moment: for all arguments,
\* texts and limits but 0 (main.rs:17-125, parse.rs:19-102, warnings.rs:23-64, diagnostics.rs:62-63).
THEOREM CommandTypes ==
  ASSUME Limit # 0
  PROVE  CommandSpec => []CommandTypeOK
<1> DEFINE Inv == /\ ParserInv /\ NestingInv /\ PositionInv
                  /\ ArgsInv /\ ProcessInv
<1>1. CommandInit => Inv
  BY InitParser, InitNesting, InitPosition, InitArgs, InitProcess DEF CommandInit
<1>2. Inv /\ [CommandNext]_commandVars => Inv'
  <2>1. [CommandNext]_commandVars => [ParserStep]_parserVars
    BY ParserRuns
  <2>2. ParserInv /\ [ParserStep]_parserVars => ParserInv'
    BY StepParser
  <2>3. NestingInv /\ [ParserStep]_parserVars => NestingInv'
    BY StepNesting
  <2>4. NestingInv /\ PositionInv /\ [ParserStep]_parserVars => PositionInv'
    BY StepPosition DEF NestingInv
  <2> QED
    BY <2>1, <2>2, <2>3, <2>4, StepArgs, StepProcess
<1>3. Inv => CommandTypeOK
  <2>1. NestingInv /\ PositionInv => ParserTypeOK
    BY TypesOfParser DEF NestingInv
  <2> QED
    BY <2>1 DEF ArgsInv, ProcessInv, CommandTypeOK
<1> HIDE DEF Inv
<1> QED
  BY <1>1, <1>2, <1>3, PTL DEF CommandSpec

-----------------------------------------------------------------------------
(***************************************************************************)
(* What the atoms hold                                                     *)
(***************************************************************************)
\* A list that is gathered from one number to a later one
Gathering(a, m, l, x, later) ==
  LET from[j \in a .. m] == IF j > l THEN <<>> ELSE <<x[j]>> \o from[later[j]] IN from[a]

LEMMA Gathered ==
  ASSUME NEW a \in Nat, NEW m \in Nat, a <= m, NEW l \in Nat, NEW x, NEW later,
         \A j \in a .. m : j <= l => later[j] \in j + 1 .. m
  PROVE  IsStack(Gathering(a, m, l, x, later))
<1> DEFINE Value(j, f) == IF j > l THEN <<>> ELSE <<x[j]>> \o f[later[j]]
           Is1(j, f) == f = [i \in j .. m |-> Value(i, f)]
           S == {j \in a .. m + 1 : \E f : Is1(j, f)}
<1>1. m + 1 \in Nat /\ a \in a .. m /\ a \in a .. m + 1
  OBVIOUS
<1>2. ASSUME NEW j \in a .. m, NEW f, NEW g, j <= l => f[later[j]] = g[later[j]]
      PROVE  Value(j, f) = Value(j, g)
  <2>1. CASE j > l
    BY <2>1
  <2>2. CASE ~(j > l)
    <3>1. j <= l
      BY <2>2
    <3> QED
      BY <1>2, <2>2, <3>1
  <2> QED
    BY <2>1, <2>2
<1>3. ASSUME NEW j \in a .. m + 1, \A k \in j + 1 .. m + 1 : k \in S
      PROVE  j \in S
  <2>1. CASE j = m + 1
    <3>1. j .. m = {}
      BY <1>1, <2>1
    <3> DEFINE f == [i \in {} |-> 0]
    <3>2. Is1(j, f)
      BY <3>1
    <3> QED
      BY <3>2
  <2>2. CASE j # m + 1
    <3>1. j + 1 \in j + 1 .. m + 1 /\ j \in a .. m /\ j .. m = {j} \cup (j + 1 .. m)
          /\ j \notin j + 1 .. m
      BY <1>1, <2>2
    <3>2. PICK f : Is1(j + 1, f)
      BY <1>3, <3>1
    <3> DEFINE h == [i \in j .. m |-> IF i = j THEN Value(j, f) ELSE f[i]]
    <3>3. \A i \in j + 1 .. m : f[i] = Value(i, f)
      BY <3>2
    <3> HIDE DEF Value
    <3>4. h[j] = Value(j, f) /\ \A i \in j + 1 .. m : h[i] = f[i]
      BY <3>1
    <3>5. \A i \in j .. m : i <= l => later[i] \in j + 1 .. m
      <4> SUFFICES ASSUME NEW i \in j .. m, i <= l PROVE later[i] \in j + 1 .. m
        OBVIOUS
      <4>1. i \in a .. m /\ i + 1 .. m \subseteq j + 1 .. m
        BY <1>1
      <4> QED
        BY <4>1
    <3> HIDE DEF h
    <3>6. \A i \in j .. m : h[i] = Value(i, h)
      <4> SUFFICES ASSUME NEW i \in j .. m PROVE h[i] = Value(i, h)
        OBVIOUS
      <4>1. i \in a .. m
        BY <1>1
      <4>2. i <= l => h[later[i]] = f[later[i]]
        BY <3>4, <3>5
      <4>3. Value(i, h) = Value(i, f)
        BY <1>2, <4>1, <4>2
      <4>4. h[i] = Value(i, f)
        BY <3>1, <3>3, <3>4
      <4> QED
        BY <4>3, <4>4
    <3>7. Is1(j, h)
      <4>1. h = [i \in j .. m |-> h[i]]
        BY DEF h
      <4> QED
        BY <3>6, <4>1
    <3> QED
      BY <3>7
  <2> QED
    BY <2>1, <2>2
<1>4. \E f : Is1(a, f)
  <2>1. a \in S
    <3> HIDE DEF S
    <3> QED
      BY <1>1, <1>3, Downwards
  <2> QED
    BY <2>1
<1> DEFINE g == CHOOSE f : Is1(a, f)
<1>5. Is1(a, g)
  <2> HIDE DEF Is1
  <2> QED
    BY <1>4
<1> HIDE DEF g
<1> DEFINE T == {j \in a .. m : IsStack(g[j])}
<1>6. ASSUME NEW j \in a .. m, \A k \in j + 1 .. m : k \in T PROVE j \in T
  <2>1. g[j] = Value(j, g)
    BY <1>5
  <2>2. CASE j > l
    BY <2>1, <2>2, EmptyStack
  <2>3. CASE ~(j > l)
    <3>1. j <= l
      BY <2>3
    <3>2. IsStack(g[later[j]])
      BY <1>6, <3>1
    <3>3. IsStack(<<x[j]>>)
      BY OneElement
    <3>4. IsStack(<<x[j]>> \o g[later[j]])
      BY <3>2, <3>3, Concatenated
    <3> QED
      BY <2>1, <2>3, <3>4
  <2> QED
    BY <2>2, <2>3
<1>7. a \in T
  <2> HIDE DEF T
  <2> QED
    BY <1>1, <1>6, Downwards
<1> QED
  BY <1>7 DEF g, Gathering

LEMMA UnescapedLength ==
  ASSUME NEW units, IsStack(units)
  PROVE  Len(Unescaped(units)) \in Nat
<1> DEFINE l == Len(units)
           x == [i \in 1 .. l + 2 |-> IF units[i] = "\\" THEN units[i + 1] ELSE units[i]]
           later == [i \in 1 .. l + 2 |-> IF units[i] = "\\" THEN i + 2 ELSE i + 1]
           f == CHOOSE f : f = [i \in 1 .. l + 2 |-> IF i > l THEN <<>> ELSE <<x[i]>> \o f[later[i]]]
<1>1. l \in Nat /\ l + 2 \in Nat /\ 1 <= l + 2
  BY StackLen
<1> HIDE DEF l
<1>2. \A j \in 1 .. l + 2 : j <= l => later[j] \in j + 1 .. l + 2
  BY <1>1
<1>3. Unescaped(units) = f[1]
  <2>1. \A t : [i \in 1 .. l + 2 |->
                  IF i > l THEN <<>>
                  ELSE IF units[i] = "\\" THEN <<units[i + 1]>> \o t[i + 2]
                  ELSE <<units[i]>> \o t[i + 1]]
               = [i \in 1 .. l + 2 |-> IF i > l THEN <<>> ELSE <<x[i]>> \o t[later[i]]]
    <3> SUFFICES ASSUME NEW t, NEW i \in 1 .. l + 2
                 PROVE  (IF i > l THEN <<>>
                         ELSE IF units[i] = "\\" THEN <<units[i + 1]>> \o t[i + 2]
                         ELSE <<units[i]>> \o t[i + 1])
                        = IF i > l THEN <<>> ELSE <<x[i]>> \o t[later[i]]
      OBVIOUS
    <3>1. x[i] = IF units[i] = "\\" THEN units[i + 1] ELSE units[i]
      OBVIOUS
    <3>2. later[i] = IF units[i] = "\\" THEN i + 2 ELSE i + 1
      OBVIOUS
    <3> HIDE DEF x, later
    <3> QED
      BY <3>1, <3>2, Zenon
  <2>2. Unescaped(units) =
          (CHOOSE t : t = [i \in 1 .. l + 2 |->
                  IF i > l THEN <<>>
                  ELSE IF units[i] = "\\" THEN <<units[i + 1]>> \o t[i + 2]
                  ELSE <<units[i]>> \o t[i + 1]])[1]
    BY DEF Unescaped, l
  <2> HIDE DEF x, later
  <2> QED
    BY <2>1, <2>2, Zenon
<1> HIDE DEF x, later
<1>4. Unescaped(units) = Gathering(1, l + 2, l, x, later)
  BY <1>3 DEF Gathering
<1>5. IsStack(Gathering(1, l + 2, l, x, later))
  BY <1>1, <1>2, Gathered
<1> QED
  BY <1>4, <1>5, StackLen

LEMMA InnerLength ==
  ASSUME NEW units, IsStack(units)
  PROVE  IsStack(Inner(units))
<1> DEFINE l == Len(units)
           t == SubSeq(units, 2, l - 1)
<1>1. l \in Nat
  BY StackLen
<1>2. t = [i \in 1 .. l - 2 |-> units[i + 1]]
  BY <1>1
<1> DEFINE S == {units[i + 1] : i \in 1 .. l - 2}
<1>3. CASE l < 2
  <2>1. t = <<>>
    BY <1>1, <1>2, <1>3
  <2> QED
    BY <2>1, EmptyStack DEF Inner
<1>4. CASE ~(l < 2)
  <2>1. l - 2 \in Nat
    BY <1>1, <1>4
  <2>2. t \in [1 .. l - 2 -> S]
    BY <1>2
  <2>3. t \in Seq(S)
    BY <2>1, <2>2, SeqDef
  <2> QED
    BY <2>3, StackOf DEF Inner
<1> QED
  BY <1>3, <1>4

\* The tokens of a text
Written(ts) == Ended(ts) /\ DOMAIN ts = 1 .. Len(ts) /\ \A i \in 1 .. Len(ts) : IsStack(ts[i].units)

LeafShape(node, ts) ==
  /\ NodeFields \subseteq DOMAIN node
  /\ node.kind \in LeafKinds /\ node.kids = <<>>
  /\ Holds(node.kind, node.value, ts)
Leaves(ts, r) == r.is = "found" => LeafShape(r.value, ts)

LEMMA LeafHasShape ==
  ASSUME NEW node, NEW ts, LeafShape(node, ts)
  PROVE  Shape(node, ts) /\ node.kind \notin StatementKinds
<1>1. node.kind \in RuleKinds /\ node.kind \notin StatementKinds /\ Len(<<>>) = 0
  BY DEF LeafShape, LeafKinds, RuleKinds, StatementKinds, ModeWords
<1>2. Spans(node.kind, node.kids)
  BY DEF LeafShape, LeafKinds, Spans
<1> QED
  BY <1>1, <1>2 DEF LeafShape, Shape

LEMMA LeafResults ==
  ASSUME NEW ts
  PROVE  /\ \A kind, v, a : kind \in LeafKinds /\ Holds(kind, v, ts) => Leaves(ts, Found(a, Node(kind, <<>>, v)))
         /\ \A a : Leaves(ts, Absent(a))
         /\ \A a, e : Leaves(ts, Failed(a, e))
  BY DEF Leaves, LeafShape, Found, Absent, Failed, Node, NodeFields

LEMMA ConsumedNumber ==
  ASSUME NEW ts, NEW o, NEW max
  PROVE  /\ ConsumeNumber(ts, o, max).is = "found" => ConsumeNumber(ts, o, max).value \in Int
         /\ ExpectNumber(ts, o, max).is = "found" => ExpectNumber(ts, o, max).value \in Int
<1>1. \A x : x \in 0 .. max => x \in Int
  OBVIOUS
<1>2. ConsumeNumber(ts, o, max).is = "found" => ConsumeNumber(ts, o, max).value \in Int
  BY <1>1 DEF ConsumeNumber, Absent, Failed, Found
<1> QED
  BY <1>2 DEF ExpectNumber, Failed

LEMMA TextLeaves ==
  ASSUME NEW ts, NEW o, IsStack(ts[o].units), NEW kind \in {"literal", "regex"}
  PROVE  Leaves(ts, Text(ts, o, kind))
<1> DEFINE q == QuotedText(ts, o)
           r == Text(ts, o, kind)
           units == Inner(ts[o].units)
<1>1. IsStack(units)
  BY InnerLength
<1>2. \/ q = Found(o + 1, units)
      \/ \E e : q = Failed(o, e)
      \/ q = Found(o + 1, Unescaped(units))
  BY Zenon DEF QuotedText
<1>3. Len(units) \in Nat /\ Len(Unescaped(units)) \in Nat
  BY <1>1, StackLen, UnescapedLength
<1> HIDE DEF units
<1>4. q.is = "found" => Len(q.value) \in Nat
  BY <1>2, <1>3 DEF Found, Failed
<1>5. IF q.is = "found" THEN r = Found(o + 1, Node(kind, <<>>, q.value)) ELSE r = q
  BY Zenon DEF Text, Then
<1> HIDE DEF q, r
<1>6. q.is = "found" => Holds(kind, q.value, ts)
  BY <1>4 DEF Holds
<1>7. Leaves(ts, r)
  BY <1>5, <1>6, LeafResults DEF LeafKinds, Leaves
<1> QED
  BY <1>7 DEF r

LEMMA ReferenceLeaves ==
  ASSUME NEW ts, Written(ts), NEW o \in 1 .. Len(ts)
  PROVE  Leaves(ts, ReferenceAtom(ts, o))
<1> DEFINE r == ReferenceAtom(ts, o)
           far == ExpectNumber(ts, o + 2, MaxOffset)
           near == ConsumeNumber(ts, o + 1, MaxRepetition)
<1>1. CASE ~Is(ts, o, "DoubleColon")
  BY <1>1, LeafResults DEF ReferenceAtom
<1>2. CASE Is(ts, o, "DoubleColon")
  <2>1. o + 1 \in DOMAIN ts
    BY <1>2, NotLast DEF Is, Written
  <2>2. CASE Is(ts, o + 1, "Plus") \/ Is(ts, o + 1, "Dash")
    <3>1. r = Relative(far, 1) \/ r = Relative(far, -1)
      BY <1>2, <2>2, Zenon DEF ReferenceAtom
    <3>2. IF far.is = "found"
          THEN \/ r = Found(far.at, Node("reference", <<>>, <<"Relative", 1 * far.value>>))
               \/ r = Found(far.at, Node("reference", <<>>, <<"Relative", (-1) * far.value>>))
          ELSE r = far
      BY <3>1, Zenon DEF Relative, Then
    <3>3. far.is = "found" => far.value \in Int
      BY ConsumedNumber
    <3> HIDE DEF r, far
    <3>4. \A x \in Int : Holds("reference", <<"Relative", x>>, ts)
      BY DEF Holds, IsReference
    <3>5. far.is = "found" => 1 * far.value \in Int /\ (-1) * far.value \in Int
      BY <3>3
    <3>6. Leaves(ts, r)
      BY <3>2, <3>4, <3>5, LeafResults DEF Leaves, LeafKinds
    <3> QED
      BY <3>6 DEF r
  <2>3. CASE ~Is(ts, o + 1, "Plus") /\ ~Is(ts, o + 1, "Dash")
    <3>1. near.is \in {"found", "absent", "failed"}
      BY DEF ConsumeNumber, Found, Absent, Failed
    <3>2. near.is = "found" => r = Found(near.at, Node("reference", <<>>, <<"Number", near.value>>))
      BY <1>2, <2>3 DEF ReferenceAtom, Then, OrElse, Found
    <3>3. near.is = "failed" => r = near
      BY <1>2, <2>3 DEF ReferenceAtom, Then, OrElse
    <3>4. near.is = "absent" =>
            \/ r = Failed(o + 1, ErrorAt("ExpectedGroupName", ts[o + 1]))
            \/ /\ Is(ts, o + 1, "Identifier")
               /\ r = Found(o + 2, Node("reference", <<>>, <<"Named", ts[o + 1].units>>))
      BY <1>2, <2>3 DEF ReferenceAtom, Then, OrElse
    <3>5. near.is = "found" => Holds("reference", <<"Number", near.value>>, ts)
      <4>1. near.is = "found" => near.value \in Int
        BY ConsumedNumber
      <4> HIDE DEF near
      <4> QED
        BY <4>1 DEF Holds, IsReference
    <3>6. Is(ts, o + 1, "Identifier") => Holds("reference", <<"Named", ts[o + 1].units>>, ts)
      BY <2>1 DEF Holds, IsReference, IsName, Is
    <3> HIDE DEF r, near
    <3>7. Leaves(ts, r)
      BY <3>1, <3>2, <3>3, <3>4, <3>5, <3>6, LeafResults DEF Leaves, LeafKinds
    <3> QED
      BY <3>7 DEF r
  <2> QED
    BY <2>2, <2>3
<1> QED
  BY <1>1, <1>2

LEMMA RangeLeaves ==
  ASSUME NEW ts, Written(ts), NEW o \in 1 .. Len(ts)
  PROVE  Leaves(ts, RangeAtom(ts, o))
<1> DEFINE r == RangeAtom(ts, o)
           base == ExpectNumber(ts, o + 5, 36)
<1>1. CASE r = RangeBounds(ts, o, 10, o + 4) \/ r = RangeBounds(ts, o, base.value, base.at)
  <2>1. CASE Is(ts, o + 3, "String") /\ o + 3 \in 1 .. Len(ts)
    <3> DEFINE first == DigitsOf(Inner(ts[o + 1].units))
               end == Inner(ts[o + 3].units)
               last == DigitsOf(end)
    <3>1. Len(last) \in Nat
      <4>1. IsStack(end)
        BY <2>1, InnerLength DEF Written
      <4> HIDE DEF end
      <4>2. DOMAIN end = 1 .. Len(end) /\ Len(end) \in Nat
        BY <4>1, StackLen
      <4> DEFINE T == {DigitValue(end[i]) : i \in DOMAIN end}
      <4>3. last \in [1 .. Len(end) -> T]
        BY <4>2 DEF DigitsOf
      <4> HIDE DEF T, last
      <4>4. last \in Seq(T)
        BY <4>2, <4>3, SeqDef
      <4>5. IsStack(last)
        BY <4>4, StackOf
      <4> QED
        BY <4>5, StackLen
    <3>2. \A radix, a : \/ \E b, e : RangeBounds(ts, o, radix, a) = Failed(b, e)
                        \/ RangeBounds(ts, o, radix, a) = Found(a, Node("range", <<>>, <<first, last, radix>>))
      BY Zenon DEF RangeBounds
    <3> HIDE DEF first, last, r
    <3>3. \A radix : Holds("range", <<first, last, radix>>, ts)
      BY <3>1 DEF Holds
    <3>4. Leaves(ts, r)
      BY <1>1, <3>2, <3>3, LeafResults DEF LeafKinds
    <3> QED
      BY <3>4 DEF r
  <2>2. CASE ~Is(ts, o + 3, "String") \/ o + 3 \notin 1 .. Len(ts)
    <3>1. CASE ~IsReserved(ts, o, "range")
      BY <3>1, LeafResults DEF RangeAtom
    <3>2. CASE IsReserved(ts, o, "range") /\ ~Is(ts, o + 1, "String")
      BY <3>2, LeafResults DEF RangeAtom
    <3>3. CASE IsReserved(ts, o, "range") /\ Is(ts, o + 1, "String") /\ ~Is(ts, o + 2, "Dash")
      BY <3>3, LeafResults DEF RangeAtom
    <3>4. CASE IsReserved(ts, o, "range") /\ Is(ts, o + 1, "String") /\ Is(ts, o + 2, "Dash")
      <4>1. o + 1 \in 1 .. Len(ts) /\ o \in Nat
        BY <3>4, NotLast DEF IsReserved, Is, Written
      <4>2. o + 2 \in 1 .. Len(ts)
        BY <3>4, <4>1, NotLast DEF IsReserved, Is, Written
      <4>3. o + 3 \in 1 .. Len(ts)
        BY <3>4, <4>1, <4>2, NotLast DEF IsReserved, Is, Written
      <4>4. r = Failed(o, ErrorAt("ExpectedString", ts[o + 3]))
        BY <2>2, <3>4, <4>3, Zenon DEF RangeAtom
      <4> QED
        BY <4>4, LeafResults
    <3> QED
      BY <3>1, <3>2, <3>3, <3>4
  <2> QED
    BY <2>1, <2>2
<1>2. \/ r = RangeBounds(ts, o, 10, o + 4) \/ r = RangeBounds(ts, o, base.value, base.at)
      \/ r = Absent(o) \/ (\E a, e : r = Failed(a, e)) \/ (base.is # "found" /\ r = base)
  BY Zenon DEF RangeAtom, Then
<1>3. base.is # "found" => Leaves(ts, base)
  BY DEF Leaves
<1> HIDE DEF r, base
<1>4. Leaves(ts, r)
  BY <1>1, <1>2, <1>3, LeafResults DEF r
<1> QED
  BY <1>4 DEF r

LEMMA LeafAtomLeaves ==
  ASSUME NEW ts, Written(ts), NEW o \in 1 .. Len(ts)
  PROVE  Leaves(ts, LeafAtom(ts, o))
<1>0. o \in DOMAIN ts /\ IsStack(ts[o].units) /\ Ended(ts)
  BY DEF Written
<1>1. Leaves(ts, StringAtom(ts, o))
  BY <1>0, TextLeaves, LeafResults DEF StringAtom
<1>2. Leaves(ts, CharSet(ts, o))
  <2> DEFINE i == CharSetInner(ts, o + 1)
             r == CharSet(ts, o)
  <2>1. \/ r = Absent(o) \/ \E a, e : r = Failed(a, e)
        \/ i.is # "found" /\ r = i
        \/ \E a, v : r = Found(a, Node("class", <<>>, v))
    BY Zenon DEF CharSet, Then
  <2> HIDE DEF i, r
  <2>2. \A v : Holds("class", v, ts)
    BY DEF Holds
  <2>3. i.is # "found" => Leaves(ts, i)
    BY DEF Leaves
  <2>4. Leaves(ts, r)
    BY <2>1, <2>2, <2>3, LeafResults DEF LeafKinds
  <2> QED
    BY <2>4 DEF r
<1>3. Leaves(ts, BoundaryAtom(ts, o))
  <2>1. BoundaryAtom(ts, o) = Absent(o) \/ \E v : BoundaryAtom(ts, o) = Found(o + 1, Node("boundary", <<>>, v))
    BY Zenon DEF BoundaryAtom
  <2>2. \A v : Holds("boundary", v, ts)
    BY DEF Holds
  <2> QED
    BY <2>1, <2>2, LeafResults DEF LeafKinds
<1>4. Leaves(ts, ReferenceAtom(ts, o))
  BY ReferenceLeaves
<1>5. Leaves(ts, CodePointAtom(ts, o))
  <2> DEFINE c == CodePoint(ts, o)
             r == CodePointAtom(ts, o)
  <2>1. IF c.is = "found" THEN \E v : r = Found(c.at, Node("class", <<>>, v)) ELSE r = c
    BY Zenon DEF CodePointAtom, Then
  <2>2. \A v : Holds("class", v, ts)
    BY DEF Holds
  <2>3. c.is # "found" => Leaves(ts, c)
    BY DEF Leaves
  <2> HIDE DEF c, r
  <2>4. Leaves(ts, r)
    BY <2>1, <2>2, <2>3, LeafResults DEF LeafKinds
  <2> QED
    BY <2>4 DEF r
<1>6. Leaves(ts, RangeAtom(ts, o))
  BY RangeLeaves
<1>7. Leaves(ts, RegexAtom(ts, o))
  <2>1. CASE ~IsReserved(ts, o, "regex")
    BY <2>1, LeafResults DEF RegexAtom
  <2>2. CASE IsReserved(ts, o, "regex") /\ ~Is(ts, o + 1, "String")
    BY <2>2, LeafResults DEF RegexAtom
  <2>3. CASE IsReserved(ts, o, "regex") /\ Is(ts, o + 1, "String")
    <3>1. o + 1 \in 1 .. Len(ts)
      BY <1>0, <2>3, NotLast DEF Is, IsReserved
    <3>2. RegexAtom(ts, o) = Text(ts, o + 1, "regex")
      BY <2>3, Zenon DEF RegexAtom
    <3>3. IsStack(ts[o + 1].units)
      BY <3>1 DEF Written
    <3> QED
      BY <3>2, <3>3, TextLeaves
  <2> QED
    BY <2>1, <2>2, <2>3
<1>8. Leaves(ts, VariableAtom(ts, o))
  <2>1. Is(ts, o, "Identifier") => Holds("variable", <<ts[o].units>>, ts)
    BY <1>0 DEF Holds, IsName, Is
  <2> QED
    BY <2>1, LeafResults DEF VariableAtom, LeafKinds
<1>9. Leaves(ts, DotAtom(ts, o))
  <2>1. Holds("dot", <<>>, ts)
    BY DEF Holds
  <2> QED
    BY <2>1, LeafResults DEF DotAtom, LeafKinds
<1> DEFINE results == <<StringAtom(ts, o), CharSet(ts, o), BoundaryAtom(ts, o), ReferenceAtom(ts, o),
                        CodePointAtom(ts, o), RangeAtom(ts, o), RegexAtom(ts, o),
                        VariableAtom(ts, o), DotAtom(ts, o)>>
<1>10. \A i \in 1 .. 9 : Leaves(ts, results[i])
  <2>1. /\ results[1] = StringAtom(ts, o) /\ results[2] = CharSet(ts, o)
        /\ results[3] = BoundaryAtom(ts, o) /\ results[4] = ReferenceAtom(ts, o)
        /\ results[5] = CodePointAtom(ts, o) /\ results[6] = RangeAtom(ts, o)
        /\ results[7] = RegexAtom(ts, o) /\ results[8] = VariableAtom(ts, o)
        /\ results[9] = DotAtom(ts, o)
    OBVIOUS
  <2>2. \A i \in 1 .. 9 : i \in {1, 2, 3, 4, 5, 6, 7, 8, 9}
    OBVIOUS
  <2> HIDE DEF results
  <2> QED
    BY <1>1, <1>2, <1>3, <1>4, <1>5, <1>6, <1>7, <1>8, <1>9, <2>1, <2>2
<1>11. DOMAIN results = 1 .. 9 /\ Len(results) = 9
  OBVIOUS
<1>12. LeafAtom(ts, o) = FirstPresent(results)
  BY Zenon DEF LeafAtom
<1> HIDE DEF results
<1>13. \E i \in 1 .. 9 : FirstPresent(results) = results[i]
  <2>1. 9 \in Nat \ {0}
    OBVIOUS
  <2> QED
    BY <1>11, <2>1, FirstIsOne
<1> QED
  BY <1>10, <1>12, <1>13

\* The quantifier comes after the two bounds
IsQuantified(repetition) ==
  repetition.is = "found" => repetition.value[3] \in {"Greedy", "Lazy", "Default"}
IsPair(v) == v \in Seq({v[1], v[2]}) /\ Len(v) = 2

LEMMA PairIs ==
  ASSUME NEW x, NEW y
  PROVE  IsPair(<<x, y>>)
  BY DEF IsPair

LEMMA BracesPair ==
  ASSUME NEW ts, NEW o
  PROVE  Braces(ts, o).is = "found" => IsPair(Braces(ts, o).value)
<1> DEFINE r == Braces(ts, o)
           lower == ConsumeNumber(ts, o + 1, MaxRepetition)
           upper == ConsumeNumber(ts, After(ts, lower.at, "Comma"), MaxRepetition)
<1>1. \/ r = Absent(o) \/ (lower.is = "failed" /\ r = lower) \/ r = Bounds(ts, o, lower, upper)
  BY Zenon DEF Braces
<1> HIDE DEF lower
<1>2. \/ upper.is = "failed" /\ Bounds(ts, o, lower, upper) = upper
      \/ \E a, e : Bounds(ts, o, lower, upper) = Failed(a, e)
      \/ \E a, x, y : Bounds(ts, o, lower, upper) = Found(a, <<x, y>>)
  BY Zenon DEF Bounds
<1> HIDE DEF upper, r
<1>3. \/ r.is # "found" \/ \E a, x, y : r = Found(a, <<x, y>>)
  <2>1. (\A a : Absent(a).is # "found") /\ \A a, e : Failed(a, e).is # "found"
    BY DEF Absent, Failed
  <2>2. lower.is = "failed" => lower.is # "found"
    OBVIOUS
  <2>3. upper.is = "failed" => upper.is # "found"
    OBVIOUS
  <2> QED
    BY <1>1, <1>2, <2>1, <2>2, <2>3, Zenon
<1>4. r.is = "found" => IsPair(r.value)
  BY <1>3, PairIs DEF Found
<1> QED
  BY <1>4 DEF r

LEMMA ThirdOf ==
  ASSUME NEW v, IsPair(v), NEW x
  PROVE  (v \o <<x>>)[3] = x
<1> DEFINE S == {v[1], v[2], x}
<1>1. v \in Seq(S) /\ Len(v) = 2
  BY SeqMonotonic DEF IsPair
<1>2. <<x>> \in Seq(S) /\ Len(<<x>>) = 1 /\ <<x>>[1] = x
  OBVIOUS
<1> DEFINE t == <<x>>
<1>3. t \in Seq(S) /\ Len(t) = 1 /\ t[1] = x
  BY <1>2
<1> HIDE DEF S, t
<1>4. \A i \in 1 .. Len(v) + Len(t) : (v \o t)[i] = IF i <= Len(v) THEN v[i] ELSE t[i - Len(v)]
  BY <1>1, <1>3, ConcatProperties
<1>5. 3 \in 1 .. 2 + 1 /\ ~(3 <= 2) /\ 3 - 2 = 1
  OBVIOUS
<1>6. (v \o t)[3] = x
  BY <1>1, <1>3, <1>4, <1>5
<1> QED
  BY <1>6 DEF t

LEMMA RepetitionQuantified ==
  ASSUME NEW ts, NEW o
  PROVE  IsQuantified(Repetition(ts, o))
<1> DEFINE r == Repetition(ts, o)
           kind == IF ts[o].token \in DOMAIN RepetitionSymbol
                   THEN Found(o + 1, RepetitionSymbol[ts[o].token]) ELSE Braces(ts, o)
           quantifier == QuantifierWord(ts, kind.at)
           a == IF quantifier = "Default" THEN kind.at ELSE kind.at + 1
           again == Braces(ts, a)
           pairs == {<<"Plus", <<1, Unbounded>>>>, <<"Star", <<0, Unbounded>>>>, <<"QuestionMark", <<0, 1>>>>}
<1>1. quantifier \in {"Greedy", "Lazy", "Default"}
  BY DEF QuantifierWord
<1>2. kind.is = "found" => IsPair(kind.value)
  <2>1. \A t \in DOMAIN RepetitionSymbol : IsPair(RepetitionSymbol[t])
    <3>1. /\ DOMAIN RepetitionSymbol = {p[1] : p \in pairs}
          /\ \A t \in DOMAIN RepetitionSymbol : RepetitionSymbol[t] = (CHOOSE p \in pairs : p[1] = t)[2]
      BY DEF RepetitionSymbol, Table
    <3>2. \A p \in pairs : \E x, y : p[2] = <<x, y>>
      OBVIOUS
    <3> HIDE DEF pairs
    <3>3. \A p \in pairs : IsPair(p[2])
      BY <3>2, PairIs
    <3> SUFFICES ASSUME NEW t \in DOMAIN RepetitionSymbol PROVE IsPair(RepetitionSymbol[t])
      OBVIOUS
    <3>4. \E p \in pairs : p[1] = t
      BY <3>1
    <3>5. (CHOOSE p \in pairs : p[1] = t) \in pairs
      BY <3>4
    <3> QED
      BY <3>1, <3>3, <3>5
  <2> QED
    BY <2>1, BracesPair DEF Found
<1>3. CASE kind.is # "found"
  <2>1. r = kind
    BY <1>3, Zenon DEF Repetition, Then
  <2> QED
    BY <1>3, <2>1 DEF IsQuantified
<1>4. CASE kind.is = "found"
  <2>1. r = IF ts[a].token \in {"Plus", "Star"} THEN Failed(a, ErrorAt("MultiRepetition", ts[a]))
            ELSE IF Is(ts, a, "QuestionMark") THEN Failed(a, ErrorAt("QmSuffix", ts[a]))
            ELSE OrElse(IF again.is = "found"
                        THEN Failed(a, Joined("MultiRepetition", ts[a], ts[again.at - 1])) ELSE again,
                   Found(a, kind.value \o <<quantifier>>))
    BY <1>4, Zenon DEF Repetition, Then
  <2> HIDE DEF r, quantifier, a, again
  <2>2. \/ (\E b, e : r = Failed(b, e)) \/ (again.is # "found" /\ r = again)
        \/ r = Found(a, kind.value \o <<quantifier>>)
    BY <2>1, Zenon DEF OrElse
  <2>3. (kind.value \o <<quantifier>>)[3] = quantifier
    BY <1>2, <1>4, ThirdOf
  <2> DEFINE all == kind.value \o <<quantifier>>
  <2> HIDE DEF kind, all
  <2>4. IsQuantified(r)
    <3>1. \/ (\E b, e : r = Failed(b, e)) \/ (again.is # "found" /\ r = again) \/ r = Found(a, all)
      BY <2>2 DEF all
    <3>2. all[3] \in {"Greedy", "Lazy", "Default"}
      BY <1>1, <2>3 DEF all, quantifier
    <3> QED
      BY <3>1, <3>2 DEF IsQuantified, Failed, Found
  <2> QED
    BY <2>4 DEF r
<1> QED
  BY <1>3, <1>4

-----------------------------------------------------------------------------
LEMMA TokensWritten ==
  ASSUME TilesInv, Ended(tokens)
  PROVE  Written(tokens)
<1>1. Len(tokens) \in Nat /\ DOMAIN tokens = 1 .. Len(tokens)
  BY StackLen DEF TilesInv
<1> SUFFICES ASSUME NEW i \in DOMAIN tokens PROVE IsStack(tokens[i].units)
  BY <1>1 DEF Written
<1>2. PICK p \in 1 .. Len(text) + 1, q \in 1 .. Len(text) + 1 :
        p <= q /\ tokens[i].units = SubSeq(text, p, q - 1)
  BY TokenUnits
<1>3. Len(text) \in Nat
  BY TextLen DEF TilesInv
<1> DEFINE t == SubSeq(text, p, q - 1)
           S == {text[k + p - 1] : k \in 1 .. q - p}
<1>4. t = [k \in 1 .. q - p |-> text[k + p - 1]] /\ q - p \in Nat
  BY <1>2, <1>3
<1> HIDE DEF t
<1>5. t \in [1 .. q - p -> S]
  BY <1>4
<1>6. t \in Seq(S)
  <2> HIDE DEF S
  <2> QED
    BY <1>4, <1>5, SeqDef
<1>7. IsStack(t)
  BY <1>6, StackOf
<1> QED
  BY <1>2, <1>7 DEF t

LEMMA GroupKindTag ==
  ASSUME TilesInv, Ended(tokens), NEW o \in 1 .. Len(tokens), GroupKind(o).is # "failed"
  PROVE  IsGroupTag(tokens, GroupKind(o).value)
<1> DEFINE r == GroupKind(o)
           name == tokens[o + 1]
<1>1. Is(tokens, o, "Colon") => o + 1 \in DOMAIN tokens
  BY NotLast, StackLen DEF Is, TilesInv
<1>2. \/ \E a : r = Found(a, <<"Atomic", <<>>>>)
      \/ \E a : r = Found(a, <<"Normal", <<>>>>)
      \/ \E a : r = Found(a, <<"Capturing", <<>>>>)
      \/ \E a, e : r = Failed(a, e)
      \/ /\ Is(tokens, o, "Colon") /\ name.token = "Identifier"
         /\ r = Found(o + 2, <<"Capturing", name.units>>)
  BY Zenon DEF GroupKind
<1>3. \A kind \in {"Normal", "Capturing", "Atomic"} : IsGroupTag(tokens, <<kind, <<>>>>)
  BY DEF IsGroupTag
<1>4. Is(tokens, o, "Colon") /\ name.token = "Identifier" => IsGroupTag(tokens, <<"Capturing", name.units>>)
  BY <1>1 DEF IsGroupTag, IsName
<1> HIDE DEF name, r
<1>5. r.is # "failed" => IsGroupTag(tokens, r.value)
  BY <1>2, <1>3, <1>4 DEF Found, Failed
<1> QED
  BY <1>5 DEF r

LEMMA LookaroundTag ==
  ASSUME NEW token \in DOMAIN LookaroundKind
  PROVE  IsLookaroundTag(<<LookaroundKind[token]>>)
<1> DEFINE pairs == {<<"LookAhead", "Ahead">>, <<"LookBehind", "Behind">>}
<1>1. /\ DOMAIN LookaroundKind = {p[1] : p \in pairs}
      /\ LookaroundKind[token] = (CHOOSE p \in pairs : p[1] = token)[2]
  BY DEF LookaroundKind, Table
<1>2. \A p \in pairs : p[2] \in {"Ahead", "Behind"}
  OBVIOUS
<1> HIDE DEF pairs
<1>3. (CHOOSE p \in pairs : p[1] = token) \in pairs
  BY <1>1
<1>4. LookaroundKind[token] \in {"Ahead", "Behind"}
  BY <1>1, <1>2, <1>3
<1> QED
  BY <1>4 DEF IsLookaroundTag

LEMMA InitTree == Init => TreeInv
<1> SUFFICES ASSUME Init PROVE TreeInv
  OBVIOUS
<1> DEFINE F == [i \in 1 .. 0 |-> 0]
<1>1. F \in [1 .. 0 -> Nat] /\ \A i \in 1 .. 0 : FALSE
  OBVIOUS
<1> HIDE DEF F
<1>2. TreeFits(<<>>, F, <<>>)
  BY <1>1, EmptyStack DEF TreeFits
<1>3. StackFits(<<>>, <<>>, F, <<>>)
  BY EmptyStack DEF StackFits
<1> QED
  BY <1>2, <1>3, EmptyStack DEF Init, TreeInv, Fits

LEMMA TreeThere ==
  ASSUME NEW F, Fits(nodes', stack', result', F, tokens')
  PROVE  (\E G : Fits(nodes, stack, result, G, tokens))'
  BY DEF Fits, TreeFits, StackFits, NodeFits, FrameFits, InOrder, Follows, RulesOf, Elements, Collects,
     HasTag, IsGroupTag, IsLookaroundTag, IsName, IsReference, Holds, Spans, Shape, Row, Parts, IsStack, MayCall,
     NodeFields, FrameFields, Functions, StatementKinds, ModeWords, LeafKinds, RuleKinds

LEMMA TreeAfter ==
  ASSUME nodes' = <<>>, stack' = <<>>, result' = 0, NEW F, Fits(nodes', stack', result', F, tokens')
  PROVE  TreeInv'
<1>1. (\E G : Fits(nodes, stack, result, G, tokens))'
  BY TreeThere
<1>2. (stage = "lexing" => nodes = <<>> /\ stack = <<>> /\ result = 0)'
  OBVIOUS
<1> QED
  BY <1>1, <1>2 DEF TreeInv

LEMMA LexingFits ==
  ASSUME TreeInv, LexToken \/ EndLexing
  PROVE  TreeInv'
<1> DEFINE F == [i \in 1 .. 0 |-> 0]
           f == Frame("modified", 0, <<>>)
<1>0. F \in [1 .. 0 -> Nat] /\ \A i \in 1 .. 0 : FALSE
  OBVIOUS
<1> HIDE DEF F
<1>1. nodes = <<>> /\ stack = <<>> /\ result = 0
  BY DEF TreeInv, LexToken, EndLexing
<1>2. \A ts : TreeFits(<<>>, F, ts) /\ StackFits(<<>>, <<>>, F, ts)
  BY <1>0, EmptyStack DEF TreeFits, StackFits
<1>3. \A ts : Fits(<<>>, <<>>, 0, F, ts)
  BY <1>2, EmptyStack DEF Fits
<1>4. CASE LexToken
  <2>1. nodes' = <<>> /\ stack' = <<>> /\ result' = 0
    BY <1>1, <1>4 DEF LexToken, AddToken, parseVars
  <2>2. Fits(nodes', stack', result', F, tokens')
    BY <1>3, <2>1
  <2> QED
    BY <2>1, <2>2, TreeAfter
<1>5. CASE EndLexing
  <2>1. /\ nodes' = <<>> /\ stack' \in {<<>>, <<f>>} /\ result' = 0 /\ stage' # "lexing"
    BY <1>1, <1>5 DEF EndLexing
  <2> DEFINE ts == tokens'
  <2>2. FrameFits(f, <<>>, F, ts) /\ RulesOf(f) = {} /\ f.fn = "modified"
    <3>1. HasTag("modified", 0, <<>>, ts) /\ "modified" \in Functions
      BY DEF HasTag, Functions
    <3> HIDE DEF ts
    <3> QED
      BY <3>1, NewFrameFits
  <2> HIDE DEF f, ts
  <2>3. StackFits(Append(<<>>, f), <<>>, F, ts)
    BY <1>2, <2>2, FramePushedFits
  <2>4. Append(<<>>, f) = <<f>>
    OBVIOUS
  <2>5. StackFits(stack', <<>>, F, ts)
    BY <1>2, <2>1, <2>3, <2>4
  <2>6. Fits(nodes', stack', result', F, tokens')
    BY <1>3, <2>1, <2>5 DEF Fits, ts
  <2> QED
    BY <2>1, <2>6, TreeNext
<1> QED
  BY <1>4, <1>5

LEMMA ModeModifierFits == TreeInv /\ ParseModeModifier => TreeInv'
<1> SUFFICES ASSUME TreeInv, ParseModeModifier PROVE TreeInv'
  OBVIOUS
<1>1. stage = "parsing" /\ stack # <<>> /\ result = 0 /\ Top.fn = "modified"
  BY DEF ParseModeModifier, Calling
<1>2. PICK F : Fits(nodes, stack, result, F, tokens)
  BY DEF TreeInv
<1>3. CASE \E e : Fail(e)
  BY <1>3, FailFits
<1>4. CASE ~\E e : Fail(e)
  <2>1. PICK word \in ModeWords :
          /\ nodes' = Append(nodes, Node(word, <<>>, <<>>)) /\ result' = 0
          /\ stage' = stage /\ tokens' = tokens
          /\ stack' = Append(SubSeq(stack, 1, Len(stack) - 1), WithItem(stack[Len(stack)], Len(nodes) + 1))
    BY <1>1, <1>4 DEF ParseModeModifier, Replaced, Below, Top, WithItem, Going, lexVars
  <2> DEFINE node == Node(word, <<>>, <<>>)
  <2>2. NodeFields \subseteq DOMAIN node /\ node.kind = word /\ node.kids = <<>> /\ node.value = <<>>
    BY DEF Node, NodeFields
  <2>3. TreeFits(nodes, F, tokens) /\ StackFits(stack, nodes, F, tokens)
    BY <1>1, <1>2, TopFits
  <2>4. nodes' = Append(nodes, node)
    BY <2>1
  <2> HIDE DEF node
  <2>5. Shape(node, tokens) /\ node.kind \in StatementKinds
    <3>1. word \in StatementKinds /\ word \notin LeafKinds /\ word \in {"enable", "disable"}
      BY DEF StatementKinds, ModeWords, LeafKinds
    <3>2. Holds(word, <<>>, tokens)
      BY <3>1 DEF Holds
    <3>3. Spans(word, <<>>)
      BY <3>1 DEF Spans
    <3> QED
      BY <2>2, <3>1, <3>2, <3>3 DEF Shape
  <2>6. Row(node.kids, Len(nodes), F)
    BY <2>2, NoRow
  <2>7. Parts(node, node.kids, nodes)
    BY <2>2, EmptyStack DEF Parts
  <2>8. stack[Len(stack)].fn = "modified"
    BY <1>1 DEF Top
  <2> QED
    BY <1>1, <2>1, <2>2, <2>3, <2>4, <2>5, <2>6, <2>7, <2>8, StatementFits
<1> QED
  BY <1>3, <1>4

LEMMA BodyFits == TreeInv /\ ParseBody => TreeInv'
<1> SUFFICES ASSUME TreeInv, ParseBody PROVE TreeInv'
  OBVIOUS
<1>1. stage = "parsing" /\ stack # <<>> /\ result = 0 /\ CallOr(stack, at) /\ stack[Len(stack)].fn = "modified"
  BY DEF ParseBody, Calling, Top
<1>2. PICK F : Fits(nodes, stack, result, F, tokens)
  BY DEF TreeInv
<1> QED
  BY <1>1, <1>2, TopFits, CallOrFits

LEMMA LetFits == TilesInv /\ PlacesInv /\ TreeInv /\ ParseLet => TreeInv'
<1> SUFFICES ASSUME TilesInv, PlacesInv, TreeInv, ParseLet PROVE TreeInv'
  OBVIOUS
<1> DEFINE f == Frame("let", at + 1, <<>>)
           t == Append(stack, f)
<1>1. stage = "parsing" /\ stack # <<>> /\ result = 0 /\ Top.fn = "modified" /\ IsReserved(tokens, at, "let")
  BY DEF ParseLet, Calling
<1>2. (\E e : Fail(e)) \/ (tokens[at + 1].token = "Identifier" /\ CallOr(t, at + 3))
  BY DEF ParseLet
<1>3. CASE \E e : Fail(e)
  BY <1>3, FailFits
<1>4. CASE tokens[at + 1].token = "Identifier" /\ CallOr(t, at + 3)
  <2>1. PICK F : Fits(nodes, stack, result, F, tokens)
    BY DEF TreeInv
  <2>2. TreeFits(nodes, F, tokens) /\ StackFits(stack, nodes, F, tokens)
    BY <1>1, <2>1, TopFits
  <2>3. at + 1 \in DOMAIN tokens
    <3>1. Ended(tokens) /\ at \in 1 .. Len(tokens)
      BY <1>1, Running
    <3> QED
      BY <1>1, <3>1, NotLast, TokensWritten DEF IsReserved, Is, Written
  <2>4. FrameFits(f, nodes, F, tokens) /\ RulesOf(f) = {} /\ f.fn = "let"
    <3>1. HasTag("let", at + 1, <<>>, tokens) /\ "let" \in Functions
      BY <1>4, <2>3 DEF HasTag, Functions
    <3> QED
      BY <3>1, NewFrameFits
  <2> HIDE DEF f
  <2>5. MayCall(stack[Len(stack)].fn, f.fn)
    BY <1>1, <2>4 DEF MayCall, Top
  <2>6. StackFits(t, nodes, F, tokens)
    BY <2>2, <2>4, <2>5, FramePushedFits
  <2>7. t[Len(t)] = f
    BY <2>2, Appended DEF StackFits
  <2> HIDE DEF t
  <2>8. t[Len(t)].fn \in {"modified", "let"}
    BY <2>4, <2>7
  <2> QED
    BY <1>1, <1>4, <2>2, <2>6, <2>8, CallOrFits
<1> QED
  BY <1>2, <1>3, <1>4

\* The frame below, when a function returns that is called by another one
LEMMA CallerFits ==
  ASSUME LevelsInv, stack # <<>>, Top.fn # "modified", NEW F, StackFits(stack, nodes, F, tokens)
  PROVE  LET s == SubSeq(stack, 1, Len(stack) - 1) IN
         /\ StackFits(s, nodes, F, tokens) /\ s # <<>>
         /\ s[Len(s)] = stack[Len(stack) - 1] /\ MayCall(s[Len(s)].fn, Top.fn)
         /\ SubSeq(s, 1, Len(s) - 1) = SubSeq(stack, 1, Len(stack) - 2)
<1> DEFINE s == SubSeq(stack, 1, Len(stack) - 1)
<1>1. /\ s # <<>> /\ Len(s) = Len(stack) - 1 /\ s[Len(stack) - 1] = stack[Len(stack) - 1]
      /\ SubSeq(s, 1, Len(stack) - 1 - 1) = SubSeq(stack, 1, Len(stack) - 2)
  BY HasCaller DEF LevelsInv, Top
<1>2. StackFits(s, nodes, F, tokens) /\ (s # <<>> => MayCall(stack[Len(stack) - 1].fn, stack[Len(stack)].fn))
  BY FramePoppedFits
<1> HIDE DEF s
<1> QED
  BY <1>1, <1>2 DEF s, Top

LEMMA EndLetFits == LevelsInv /\ TreeInv /\ EndLet => TreeInv'
<1> SUFFICES ASSUME LevelsInv, TreeInv, EndLet PROVE TreeInv'
  OBVIOUS
<1> DEFINE s == SubSeq(stack, 1, Len(stack) - 1)
           from == Top.from
           node == Node("let", <<result>>, <<tokens[from].units, from>>)
<1>1. stage = "parsing" /\ stack # <<>> /\ result # 0 /\ Top.fn = "let"
  BY DEF EndLet, Returned
<1>2. PICK F : Fits(nodes, stack, result, F, tokens)
  BY DEF TreeInv
<1>3. CASE \E e : Fail(e)
  BY <1>3, FailFits
<1>4. CASE ~\E e : Fail(e)
  <2>1. /\ TreeFits(nodes, F, tokens) /\ StackFits(stack, nodes, F, tokens) /\ Len(nodes) \in Nat
        /\ FrameFits(Top, nodes, F, tokens)
        /\ result \in 1 .. Len(nodes) /\ nodes[result].kind \notin StatementKinds /\ Follows(s, F, result)
    BY <1>1, <1>2, TopFits DEF Below
  <2>2. /\ s # <<>> /\ s[Len(s)] = stack[Len(stack) - 1] /\ StackFits(s, nodes, F, tokens)
        /\ SubSeq(s, 1, Len(s) - 1) = SubSeq(stack, 1, Len(stack) - 2)
        /\ MayCall(s[Len(s)].fn, "let")
    BY <1>1, <2>1, CallerFits
  <2>3. s[Len(s)].fn = "modified"
    BY <2>2 DEF MayCall
  <2>4. /\ nodes' = Append(nodes, node) /\ result' = 0 /\ stage' = stage /\ tokens' = tokens
        /\ stack' = Append(SubSeq(stack, 1, Len(stack) - 2), WithItem(stack[Len(stack) - 1], Len(nodes) + 1))
    BY <1>4 DEF EndLet, WithItem, Going, lexVars
  <2>5. /\ NodeFields \subseteq DOMAIN node /\ node.kind = "let" /\ node.kids = <<result>>
        /\ node.value = <<tokens[from].units, from>>
    BY DEF Node, NodeFields
  <2>6. HasTag("let", from, Top.tag, tokens)
    BY <1>1, <2>1 DEF FrameFits
  <2> HIDE DEF node, s, from
  <2>7. Shape(node, tokens) /\ node.kind \in StatementKinds
    <3>1. "let" \in StatementKinds /\ "let" \notin LeafKinds \cup ModeWords /\ Len(<<result>>) = 1
      BY DEF StatementKinds, ModeWords, LeafKinds
    <3>2. Holds("let", <<tokens[from].units, from>>, tokens)
      <4>1. IsName(tokens, tokens[from].units)
        BY <2>6 DEF HasTag, IsName
      <4> QED
        BY <4>1 DEF Holds
    <3>3. Spans("let", <<result>>)
      BY <3>1 DEF Spans
    <3> QED
      BY <2>5, <3>1, <3>2, <3>3 DEF Shape
  <2>8. Row(node.kids, Len(nodes), F)
    BY <2>1, <2>5, OneRow
  <2>9. Parts(node, node.kids, nodes) /\ node.kids[1] = result
    <3>1. DOMAIN <<result>> = {1} /\ <<result>>[1] = result
      OBVIOUS
    <3> QED
      BY <2>1, <2>5, <3>1, Zenon DEF Parts
  <2>10. stack' = Append(SubSeq(s, 1, Len(s) - 1), WithItem(s[Len(s)], Len(nodes) + 1))
    BY <2>2, <2>4
  <2> QED
    BY <1>1, <2>1, <2>2, <2>3, <2>4, <2>7, <2>8, <2>9, <2>10, StatementFits
<1> QED
  BY <1>3, <1>4

\* The statements of a block, around its expression
LEMMA StatementsFit ==
  ASSUME NEW ns, NEW F, NEW ts, TreeFits(ns, F, ts),
         NEW items, Row(items, Len(ns), F), \A i \in DOMAIN items : ns[items[i]].kind \in StatementKinds,
         NEW rule \in 1 .. Len(ns), ns[rule].kind \notin StatementKinds,
         \A i \in DOMAIN items : items[i] < F[rule],
         NEW list, AreStatements(list, items, rule, Len(ns))
  PROVE  \E G : /\ Extends(ns, F, ns \o list, G, ts) /\ Len(ns \o list) = Len(ns) + Len(items)
                /\ items # <<>> =>
                     /\ G[Len(ns) + Len(items)] = F[items[1]]
                     /\ (ns \o list)[Len(ns) + Len(items)].kind = "stmt"
<1> DEFINE n == Len(ns)
           k == Len(items)
           ms == ns \o list
           G == [i \in 1 .. n + k |-> IF i \in 1 .. n THEN F[i] ELSE F[items[k + 1 - (i - n)]]]
<1>1. /\ IsStack(ms) /\ Len(ms) = n + k /\ n \in Nat /\ k \in Nat /\ DOMAIN items = 1 .. k
      /\ \A i \in 1 .. n : ms[i] = ns[i]
      /\ \A i \in 1 .. k : ms[n + i] = list[i]
  <2>1. IsStack(ns) /\ IsStack(list) /\ Len(list) = k
    BY DEF TreeFits, AreStatements
  <2>2. k \in Nat /\ DOMAIN items = 1 .. k
    BY StackLen DEF Row
  <2>3. DOMAIN list = 1 .. k
    BY <2>1, StackLen
  <2>4. /\ IsStack(ms) /\ Len(ms) = n + Len(list) /\ n \in Nat /\ DOMAIN list = 1 .. Len(list)
        /\ \A i \in 1 .. n : ms[i] = ns[i]
        /\ \A i \in 1 .. Len(list) : ms[n + i] = list[i]
    BY <2>1, Concatenated
  <2> HIDE DEF k, n, ms
  <2> QED
    BY <2>1, <2>2, <2>4
<1>2. F \in [1 .. n -> Nat] /\ \A i \in 1 .. n : NodeFits(ns, i, F, ts)
  BY DEF TreeFits
<1>3. /\ \A i \in 1 .. k : items[i] \in 1 .. n /\ ns[items[i]].kind \in StatementKinds /\ items[i] < F[rule]
      /\ \A i, j \in 1 .. k : i < j => items[i] < F[items[j]]
      /\ rule \in 1 .. n /\ ns[rule].kind \notin StatementKinds
  BY <1>1 DEF Row
<1>4. \A j \in 1 .. k : list[j] = Node("stmt", <<items[k + 1 - j], IF j = 1 THEN rule ELSE n + j - 1>>, <<>>)
  BY DEF AreStatements
<1> HIDE DEF n, k, ms
<1>5. /\ G \in [1 .. n + k -> Nat] /\ \A i \in 1 .. n : G[i] = F[i]
      /\ \A j \in 1 .. k : G[n + j] = F[items[k + 1 - j]]
  <2>1. \A i \in 1 .. n + k : i \notin 1 .. n => k + 1 - (i - n) \in 1 .. k
    BY <1>1
  <2>2. G \in [1 .. n + k -> Nat] /\ \A i \in 1 .. n : G[i] = F[i]
    BY <1>1, <1>2, <1>3, <2>1
  <2>3. \A j \in 1 .. k : n + j \in 1 .. n + k /\ n + j \notin 1 .. n /\ (n + j) - n = j
    BY <1>1
  <2>4. \A j \in 1 .. k : G[n + j] = F[items[k + 1 - j]]
    BY <2>3
  <2> QED
    BY <2>2, <2>4
<1> HIDE DEF G
<1>6. ASSUME NEW i \in 1 .. n PROVE NodeFits(ms, i, G, ts)
  <2> DEFINE x == ns[i]
  <2>1. NodeFits(ns, i, F, ts) /\ ms[i] = x /\ G[i] = F[i]
    BY <1>1, <1>2, <1>5
  <2>2. \A j \in DOMAIN x.kids : x.kids[j] \in 1 .. i - 1
    BY <2>1 DEF NodeFits, Row
  <2>3. \A h : h \in 1 .. i - 1 => h \in 1 .. n /\ G[h] = F[h] /\ ms[h] = ns[h]
    BY <1>1, <1>5
  <2>4. Row(x.kids, i - 1, G)
    <3>1. Row(x.kids, i - 1, F)
      BY <2>1 DEF NodeFits
    <3> QED
      BY <2>2, <2>3, <3>1 DEF Row
  <2>5. Parts(x, x.kids, ms)
    <3>1. Parts(x, x.kids, ns)
      BY <2>1 DEF NodeFits
    <3> QED
      BY <2>2, <2>3, <3>1 DEF Parts
  <2>6. Shape(x, ts) /\ F[i] <= i /\ \A j \in DOMAIN x.kids : F[i] <= F[x.kids[j]]
    BY <2>1 DEF NodeFits
  <2>7. \A j \in DOMAIN x.kids : G[i] <= G[x.kids[j]]
    BY <2>1, <2>2, <2>3, <2>6
  <2> HIDE DEF x
  <2> QED
    BY <2>1, <2>4, <2>5, <2>6, <2>7 DEF NodeFits
<1>7. ASSUME NEW j \in 1 .. k PROVE NodeFits(ms, n + j, G, ts)
  <2> DEFINE i == n + j
             m == i - 1
             a == items[k + 1 - j]
             c == IF j = 1 THEN rule ELSE n + j - 1
             kids == <<a, c>>
             node == Node("stmt", kids, <<>>)
  <2>1. ms[i] = node
    BY <1>1, <1>4
  <2>2. NodeFields \subseteq DOMAIN node /\ node.kind = "stmt" /\ node.kids = kids /\ node.value = <<>>
    BY DEF Node, NodeFields
  <2>3. k + 1 - j \in 1 .. k /\ m \in Nat /\ n <= m /\ i \in Nat /\ m < i
    BY <1>1
  <2>4. a \in 1 .. n /\ a \in 1 .. m /\ ns[a].kind \in StatementKinds /\ G[a] = F[a] /\ ms[a] = ns[a]
    <3>1. a \in 1 .. n /\ ns[a].kind \in StatementKinds
      BY <1>3, <2>3
    <3> HIDE DEF a, i, m
    <3>2. a \in 1 .. m
      BY <1>1, <2>3, <3>1
    <3> QED
      BY <1>1, <1>5, <3>1, <3>2
  <2>5. G[i] = F[a]
    BY <1>5
  <2>6. F[a] <= a /\ F[a] \in Nat
    BY <1>2, <2>4 DEF NodeFits
  <2>7. c \in 1 .. m /\ ms[c].kind \notin StatementKinds /\ a < G[c]
    <3>1. CASE j = 1
      <4>1. c = rule /\ G[rule] = F[rule] /\ ms[rule] = ns[rule]
        BY <1>1, <1>3, <1>5, <3>1
      <4>2. a < F[rule]
        BY <1>3, <2>3
      <4> HIDE DEF c, a, m, i
      <4>3. rule \in 1 .. m
        BY <1>1, <1>3, <2>3
      <4> QED
        BY <1>3, <4>1, <4>2, <4>3
    <3>2. CASE j # 1
      <4>1. j - 1 \in 1 .. k /\ k + 1 - (j - 1) \in 1 .. k /\ k + 1 - j < k + 1 - (j - 1) /\ n + (j - 1) = n + j - 1
        BY <1>1, <3>2
      <4> DEFINE b == items[k + 1 - (j - 1)]
      <4>2. c = n + (j - 1) /\ c = m
        BY <1>1, <3>2
      <4>3. G[n + (j - 1)] = F[b]
        BY <1>5, <4>1
      <4>4. a < F[b]
        BY <1>3, <2>3, <4>1
      <4>5. ms[n + (j - 1)].kind = "stmt"
        <5> DEFINE h == j - 1
        <5>1. h \in 1 .. k
          BY <4>1
        <5> HIDE DEF h
        <5>2. ms[n + h] = list[h]
          BY <1>1, <5>1
        <5>3. \E q : list[h] = Node("stmt", q, <<>>)
          BY <1>4, <5>1
        <5>4. \A q : Node("stmt", q, <<>>).kind = "stmt"
          BY DEF Node
        <5>5. ms[n + h].kind = "stmt"
          BY <5>2, <5>3, <5>4
        <5> QED
          BY <5>5 DEF h
      <4>6. c \in 1 .. m
        BY <1>1, <4>2, <4>1
      <4> HIDE DEF c, m, a, b
      <4> QED
        BY <4>2, <4>3, <4>4, <4>5, <4>6 DEF StatementKinds, ModeWords
    <3> QED
      BY <3>1, <3>2
  <2> HIDE DEF i, m, a, c, node
  <2>8. Row(kids, m, G)
    BY <2>4, <2>7, TwoRow
  <2>9. DOMAIN kids = {1, 2} /\ kids[1] = a /\ kids[2] = c /\ Len(kids) = 2
    OBVIOUS
  <2> HIDE DEF kids
  <2>10. Parts(node, kids, ms)
    <3>1. ms[kids[1]].kind \in StatementKinds /\ ms[kids[2]].kind \notin StatementKinds
      BY <2>4, <2>7, <2>9
    <3> QED
      BY <2>2, <2>9, <3>1 DEF Parts
  <2>11. Shape(node, ts)
    <3>1. "stmt" \in RuleKinds /\ "stmt" \notin LeafKinds \cup ModeWords
      BY DEF RuleKinds, LeafKinds, ModeWords
    <3>2. Holds("stmt", <<>>, ts)
      BY DEF Holds
    <3>3. Spans("stmt", kids)
      BY <2>9, <3>1 DEF Spans
    <3> QED
      BY <2>2, <3>1, <3>2, <3>3 DEF Shape
  <2>12. G[i] <= i /\ \A q \in DOMAIN kids : G[i] <= G[kids[q]]
    <3>1. G[c] \in Nat
      <4>1. c \in 1 .. n + k
        BY <1>1, <2>3, <2>7 DEF m, i
      <4> QED
        BY <1>5, <4>1
    <3>2. F[a] <= i /\ F[a] <= G[a] /\ F[a] <= G[c]
      BY <2>3, <2>4, <2>6, <2>7, <3>1
    <3> QED
      BY <2>5, <2>9, <3>2
  <2>13. NodeFits(ms, i, G, ts)
    <3>1. Row(kids, i - 1, G)
      BY <2>8 DEF m
    <3> QED
      BY <2>1, <2>2, <2>10, <2>11, <2>12, <3>1 DEF NodeFits
  <2> QED
    BY <2>13 DEF i
<1>8. ASSUME NEW i \in 1 .. n + k PROVE NodeFits(ms, i, G, ts)
  <2>1. CASE i \in 1 .. n
    BY <1>6, <2>1
  <2>2. CASE i \notin 1 .. n
    <3>1. i - n \in 1 .. k /\ n + (i - n) = i
      BY <1>1, <2>2
    <3> QED
      BY <1>7, <3>1
  <2> QED
    BY <2>1, <2>2
<1>9. TreeFits(ms, G, ts)
  BY <1>1, <1>5, <1>8 DEF TreeFits
<1>10. Extends(ns, F, ms, G, ts)
  <2>1. n + k \in Nat /\ n <= n + k
    BY <1>1
  <2> QED
    BY <1>1, <1>5, <1>9, <2>1 DEF Extends, n
<1>11. items # <<>> => G[n + k] = F[items[1]] /\ ms[n + k].kind = "stmt"
  <2> SUFFICES ASSUME items # <<>> PROVE G[n + k] = F[items[1]] /\ ms[n + k].kind = "stmt"
    OBVIOUS
  <2>1. k \in 1 .. k /\ k + 1 - k = 1
    <3>1. k > 0
      BY StackLen DEF Row, k
    <3> QED
      BY <1>1, <3>1
  <2>2. \A q : Node("stmt", q, <<>>).kind = "stmt"
    BY DEF Node
  <2>3. G[n + k] = F[items[1]]
    BY <1>5, <2>1
  <2>4. \E q : list[k] = Node("stmt", q, <<>>)
    BY <1>4, <2>1
  <2>5. ms[n + k] = list[k]
    BY <1>1, <2>1
  <2> QED
    BY <2>2, <2>3, <2>4, <2>5
<1> QED
  BY <1>1, <1>10, <1>11 DEF n, k, ms

LEMMA StatementsList ==
  ASSUME NEW items, IsStack(items), NEW rule
  PROVE  AreStatements(Statements(items, rule), items, rule, Len(nodes))
<1> DEFINE n == Len(nodes)
           k == Len(items)
           list == Statements(items, rule)
           T == {list[j] : j \in 1 .. k}
<1>1. k \in Nat
  BY StackLen
<1>2. list = [j \in 1 .. k |-> Node("stmt", <<items[k + 1 - j], IF j = 1 THEN rule ELSE n + j - 1>>, <<>>)]
  BY DEF Statements
<1>3. list \in [1 .. k -> T] /\ DOMAIN list = 1 .. k
  <2> HIDE DEF k, n
  <2> QED
    BY <1>2
<1>4. \A j \in 1 .. k : list[j] = Node("stmt", <<items[k + 1 - j], IF j = 1 THEN rule ELSE n + j - 1>>, <<>>)
  <2> HIDE DEF k, n
  <2> QED
    BY <1>2
<1> HIDE DEF list, T, k, n
<1>5. list \in Seq(T)
  BY <1>1, <1>3, SeqDef
<1>6. IsStack(list) /\ Len(list) \in Nat /\ DOMAIN list = 1 .. Len(list)
  BY <1>5, StackOf, StackLen
<1>7. Len(list) = k
  BY <1>1, <1>3, <1>6
<1> QED
  BY <1>4, <1>6, <1>7 DEF AreStatements, list, n, k

LEMMA EndModifiedFits == TreeInv /\ EndModified => TreeInv'
<1> SUFFICES ASSUME TreeInv, EndModified PROVE TreeInv'
  OBVIOUS
<1> DEFINE n == Len(nodes)
           items == Top.items
           k == Len(items)
           list == Statements(items, result)
           ms == nodes \o list
<1>1. stage = "parsing" /\ stack # <<>> /\ result # 0 /\ Top.fn = "modified"
  BY DEF EndModified, Returned
<1>2. PICK F : Fits(nodes, stack, result, F, tokens)
  BY DEF TreeInv
<1>3. CASE \E e : Fail(e)
  BY <1>3, FailFits
<1>4. CASE ~\E e : Fail(e)
  <2>1. /\ nodes' = ms /\ stack' = Below /\ stage' = stage /\ tokens' = tokens
        /\ result' = IF items = <<>> THEN result ELSE n + k
    BY <1>4 DEF EndModified, Going, lexVars
  <2>2. /\ TreeFits(nodes, F, tokens) /\ n \in Nat /\ StackFits(stack, nodes, F, tokens)
        /\ FrameFits(Top, nodes, F, tokens) /\ (\A y \in RulesOf(Top) : Follows(Below, F, y))
        /\ result \in 1 .. n /\ nodes[result].kind \notin StatementKinds
        /\ Follows(Below, F, result) /\ \A x \in RulesOf(Top) : x < F[result]
    BY <1>1, <1>2, TopFits
  <2>3. /\ Row(items, n, F) /\ \A i \in DOMAIN items : nodes[items[i]].kind \in StatementKinds
    BY <1>1, <2>2 DEF FrameFits, Collects
  <2>4. IsStack(items) /\ k \in Nat /\ DOMAIN items = 1 .. k /\ (items # <<>> => k > 0)
    BY <2>3, StackLen DEF Row
  <2>5. \A i \in DOMAIN items : items[i] \in RulesOf(Top)
    BY DEF RulesOf, Elements
  <2>6. \A i \in DOMAIN items : items[i] < F[result]
    BY <2>2, <2>5
  <2>7. AreStatements(list, items, result, n)
    BY <2>4, StatementsList
  <2> HIDE DEF items, list
  <2>8. PICK G : /\ Extends(nodes, F, ms, G, tokens) /\ Len(ms) = n + k
                 /\ items # <<>> => G[n + k] = F[items[1]] /\ ms[n + k].kind = "stmt"
    BY <2>2, <2>3, <2>6, <2>7, StatementsFit
  <2> HIDE DEF ms
  <2>9. StackFits(Below, ms, G, tokens)
    <3>1. StackFits(stack, ms, G, tokens)
      BY <2>2, <2>8, StackExtends
    <3> QED
      BY <1>1, <3>1, FramePoppedFits DEF Below
  <2>10. StackFits(Below, nodes, F, tokens)
    BY <1>1, <2>2, FramePoppedFits DEF Below
  <2>11. /\ result' \in 0 .. Len(ms) /\ ms[result'].kind \notin StatementKinds
         /\ Follows(Below, G, result')
    <3>1. CASE items = <<>>
      <4>1. result' = result /\ ms[result].kind = nodes[result].kind
        BY <2>1, <2>2, <2>8, <3>1 DEF Extends
      <4>2. Follows(Below, G, result)
        BY <2>2, <2>8, FollowsStill
      <4>3. result \in 0 .. n + k
        BY <2>2, <2>4
      <4> QED
        BY <2>2, <2>8, <4>1, <4>2, <4>3
    <3>2. CASE items # <<>>
      <4>1. result' = n + k /\ n + k \in 0 .. n + k
        BY <2>1, <2>2, <2>4, <3>2
      <4>2. Follows(Below, F, items[1])
        BY <2>2, <2>4, <2>5, <3>2
      <4>3. G[n + k] = F[items[1]] /\ ms[n + k].kind \notin StatementKinds
        BY <2>8, <3>2 DEF StatementKinds, ModeWords
      <4>4. Follows(Below, G, n + k)
        BY <4>2, <4>3 DEF Follows
      <4> QED
        BY <2>8, <4>1, <4>3, <4>4
    <3> QED
      BY <3>1, <3>2
  <2>12. Fits(nodes', stack', result', G, tokens')
    <3> DEFINE r == result'
    <3>1. r \in 0 .. Len(ms) /\ ms[r].kind \notin StatementKinds /\ Follows(Below, G, r)
      BY <2>11
    <3> HIDE DEF r
    <3>2. Fits(ms, Below, r, G, tokens)
      BY <2>8, <2>9, <3>1 DEF Fits, Extends
    <3> QED
      BY <2>1, <3>2 DEF r
  <2> QED
    BY <1>1, <2>1, <2>12, TreeNext
<1> QED
  BY <1>3, <1>4

LEMMA LookaroundFits == TreeInv /\ ParseLookaround => TreeInv'
<1> SUFFICES ASSUME TreeInv, ParseLookaround PROVE TreeInv'
  OBVIOUS
<1> DEFINE tag == <<LookaroundKind[tokens[FixAt].token]>>
<1>1. /\ stage = "parsing" /\ stack # <<>> /\ result = 0 /\ Top.fn = "or"
      /\ tokens[FixAt].token \in DOMAIN LookaroundKind /\ CallModified("lookaround", tag, FixAt + 1)
  BY DEF ParseLookaround, Calling
<1>2. HasTag("lookaround", at, tag, tokens)
  <2>1. IsLookaroundTag(tag)
    BY <1>1, LookaroundTag
  <2> QED
    BY <2>1 DEF HasTag
<1> QED
  BY <1>1, <1>2, CallModifiedFits

LEMMA GroupFits == TilesInv /\ PlacesInv /\ TreeInv /\ ParseGroup => TreeInv'
<1> SUFFICES ASSUME TilesInv, PlacesInv, TreeInv, ParseGroup PROVE TreeInv'
  OBVIOUS
<1> DEFINE kind == GroupKind(FixAt)
<1>1. stage = "parsing" /\ stack # <<>> /\ result = 0 /\ Top.fn = "or" /\ OpenGroup(kind)
  BY DEF ParseGroup, Calling
<1>2. Ended(tokens) /\ FixAt \in 1 .. Len(tokens)
  BY <1>1, Running, FixPlaced
<1>3. kind.is # "failed" => IsGroupTag(tokens, kind.value)
  BY <1>2, GroupKindTag
<1> HIDE DEF kind
<1>4. (\E e : Fail(e)) \/ (kind.is # "failed" /\ CallModified("group", kind.value, kind.at + 1))
  BY <1>1, Zenon DEF OpenGroup
<1>5. kind.is # "failed" => HasTag("group", at, kind.value, tokens)
  BY <1>3 DEF HasTag
<1> QED
  BY <1>1, <1>4, <1>5, FailFits, CallModifiedFits

\* A group or a lookaround around the rule that was returned
LEMMA EnclosingFits ==
  ASSUME LevelsInv, stack # <<>>, result # 0, Top.fn \in {"group", "lookaround"},
         NEW F, Fits(nodes, stack, result, F, tokens)
  PROVE  LET s == SubSeq(stack, 1, Len(stack) - 1)
             ns == Append(nodes, Node(Top.fn, <<result>>, Top.tag)) IN
         /\ StackFits(s, nodes, F, tokens) /\ s # <<>> /\ s[Len(s)].fn = "or"
         /\ s[Len(s)] = stack[Len(stack) - 1]
         /\ SubSeq(s, 1, Len(s) - 1) = SubSeq(stack, 1, Len(stack) - 2)
         /\ Len(ns) # 0 /\ ns[Len(ns)].kind \notin StatementKinds
         /\ \E G : Extends(nodes, F, ns, G, tokens) /\ Follows(s, G, Len(ns))
<1> DEFINE s == SubSeq(stack, 1, Len(stack) - 1)
           node == Node(Top.fn, <<result>>, Top.tag)
           ns == Append(nodes, node)
           n == Len(nodes)
<1>1. /\ StackFits(s, nodes, F, tokens) /\ s # <<>> /\ s[Len(s)] = stack[Len(stack) - 1]
      /\ SubSeq(s, 1, Len(s) - 1) = SubSeq(stack, 1, Len(stack) - 2)
      /\ MayCall(s[Len(s)].fn, Top.fn)
  <2>1. StackFits(stack, nodes, F, tokens) /\ Top.fn # "modified"
    BY DEF Fits
  <2> QED
    BY <2>1, CallerFits
<1>2. s[Len(s)].fn = "or"
  BY <1>1 DEF MayCall
<1>3. /\ TreeFits(nodes, F, tokens) /\ n \in Nat /\ result \in 1 .. n
      /\ nodes[result].kind \notin StatementKinds
      /\ Follows(s, F, result) /\ FrameFits(Top, nodes, F, tokens)
  BY TopFits DEF Below
<1>4. NodeFields \subseteq DOMAIN node /\ node.kind = Top.fn /\ node.kids = <<result>> /\ node.value = Top.tag
  BY DEF Node, NodeFields
<1>5. HasTag(Top.fn, Top.from, Top.tag, tokens)
  BY <1>3 DEF FrameFits
<1>6. /\ node.kind \in RuleKinds /\ node.kind \notin StatementKinds
      /\ node.kind \notin {"literal", "regex", "range", "reference", "variable", "let", "repetition", "stmt"}
      /\ node.kind \notin LeafKinds \cup ModeWords
  BY <1>4 DEF RuleKinds, StatementKinds, ModeWords, LeafKinds
<1>7. Len(<<result>>) = 1 /\ <<result>> # <<>> /\ <<result>>[1] = result /\ \A j \in DOMAIN <<result>> : <<result>>[j] = result
  OBVIOUS
<1> HIDE DEF node
<1>8. Shape(node, tokens)
  <2>1. Holds(node.kind, node.value, tokens)
    BY <1>4, <1>5, <1>6 DEF Holds, HasTag
  <2>2. Spans(node.kind, node.kids)
    BY <1>4, <1>6, <1>7 DEF Spans
  <2> QED
    BY <1>4, <1>6, <2>1, <2>2 DEF Shape
<1>9. Row(node.kids, n, F)
  BY <1>3, <1>4, OneRow
<1>10. Parts(node, node.kids, nodes)
  <2>1. \A j \in DOMAIN <<result>> : nodes[<<result>>[j]].kind \notin StatementKinds
    BY <1>3, <1>7
  <2> QED
    BY <1>4, <1>6, <2>1 DEF Parts
<1>11. PICK G : /\ Extends(nodes, F, ns, G, tokens) /\ Len(ns) = n + 1 /\ ns[n + 1] = node
                /\ G[n + 1] = IF node.kids = <<>> THEN n + 1 ELSE F[node.kids[1]]
  <2>1. \E G : /\ Extends(nodes, F, Append(nodes, node), G, tokens)
               /\ Len(Append(nodes, node)) = Len(nodes) + 1 /\ Append(nodes, node)[Len(nodes) + 1] = node
               /\ G[Len(nodes) + 1] = IF node.kids = <<>> THEN Len(nodes) + 1 ELSE F[node.kids[1]]
    BY <1>3, <1>8, <1>9, <1>10, NodeAddedFits
  <2> QED
    BY <2>1
<1> HIDE DEF ns, s
<1>12. Follows(s, G, Len(nodes) + 1)
  <2>1. node.kids # <<>> => Follows(s, F, node.kids[1])
    BY <1>3, <1>4, <1>7
  <2>2. G[Len(nodes) + 1] = IF node.kids = <<>> THEN Len(nodes) + 1 ELSE F[node.kids[1]]
    BY <1>11
  <2> QED
    BY <1>1, <1>11, <2>1, <2>2, NodeFollows
<1>13. Len(ns) # 0 /\ ns[Len(ns)] = node /\ Follows(s, G, Len(ns))
  BY <1>3, <1>11, <1>12
<1> QED
  BY <1>1, <1>2, <1>6, <1>11, <1>13 DEF s, ns, node

LEMMA EndLookaroundFits == LevelsInv /\ TreeInv /\ EndLookaround => TreeInv'
<1> SUFFICES ASSUME LevelsInv, TreeInv, EndLookaround PROVE TreeInv'
  OBVIOUS
<1> DEFINE s == SubSeq(stack, 1, Len(stack) - 1)
           ns == Append(nodes, Node(Top.fn, <<result>>, Top.tag))
<1>1. /\ stage = "parsing" /\ stack # <<>> /\ result # 0 /\ Top.fn \in {"group", "lookaround"}
      /\ AddFix(ns, at, recursion + 1, SubSeq(stack, 1, Len(stack) - 2), stack[Len(stack) - 1],
                Top.from, stack[Len(stack) - 1].nots)
  BY DEF EndLookaround, Returned
<1>2. PICK F : Fits(nodes, stack, result, F, tokens)
  BY DEF TreeInv
<1>3. /\ StackFits(s, nodes, F, tokens) /\ s # <<>> /\ s[Len(s)].fn = "or"
      /\ s[Len(s)] = stack[Len(stack) - 1]
      /\ SubSeq(s, 1, Len(s) - 1) = SubSeq(stack, 1, Len(stack) - 2)
      /\ Len(ns) # 0 /\ ns[Len(ns)].kind \notin StatementKinds
      /\ \E G : Extends(nodes, F, ns, G, tokens) /\ Follows(s, G, Len(ns))
  BY <1>1, <1>2, EnclosingFits
<1> HIDE DEF ns, s
<1>4. AddFix(ns, at, recursion + 1, SubSeq(s, 1, Len(s) - 1), s[Len(s)], Top.from, stack[Len(stack) - 1].nots)
  BY <1>1, <1>3
<1> QED
  BY <1>1, <1>3, <1>4, AddFixFits

LEMMA EndGroupFits == LevelsInv /\ TreeInv /\ EndGroup => TreeInv'
<1> SUFFICES ASSUME LevelsInv, TreeInv, EndGroup PROVE TreeInv'
  OBVIOUS
<1> DEFINE s == SubSeq(stack, 1, Len(stack) - 1)
           ns == Append(nodes, Node(Top.fn, <<result>>, Top.tag))
           repetition == Repetition(tokens, at + 1)
<1>1. /\ stage = "parsing" /\ stack # <<>> /\ result # 0 /\ Top.fn \in {"group", "lookaround"}
      /\ \/ \E e : Fail(e)
         \/ AddRepeated(ns, repetition, recursion + 1, SubSeq(stack, 1, Len(stack) - 2),
                        stack[Len(stack) - 1], Top.from, stack[Len(stack) - 1].nots)
  BY DEF EndGroup, Returned
<1>2. PICK F : Fits(nodes, stack, result, F, tokens)
  BY DEF TreeInv
<1>3. /\ StackFits(s, nodes, F, tokens) /\ s # <<>> /\ s[Len(s)].fn = "or"
      /\ s[Len(s)] = stack[Len(stack) - 1]
      /\ SubSeq(s, 1, Len(s) - 1) = SubSeq(stack, 1, Len(stack) - 2)
      /\ Len(ns) # 0 /\ ns[Len(ns)].kind \notin StatementKinds
      /\ \E G : Extends(nodes, F, ns, G, tokens) /\ Follows(s, G, Len(ns))
  BY <1>1, <1>2, EnclosingFits
<1>4. repetition.is = "found" => repetition.value[3] \in {"Greedy", "Lazy", "Default"}
  BY RepetitionQuantified DEF IsQuantified
<1> HIDE DEF ns, s, repetition
<1>5. (\E e : Fail(e)) \/
      AddRepeated(ns, repetition, recursion + 1, SubSeq(s, 1, Len(s) - 1), s[Len(s)], Top.from,
                  stack[Len(stack) - 1].nots)
  BY <1>1, <1>3
<1> QED
  BY <1>1, <1>3, <1>4, <1>5, AddRepeatedFits, FailFits

LEMMA AtomFits == PlacesInv /\ TilesInv /\ TreeInv /\ ParseAtom => TreeInv'
<1> SUFFICES ASSUME PlacesInv, TilesInv, TreeInv, ParseAtom PROVE TreeInv'
  OBVIOUS
<1> DEFINE atom == LeafAtom(tokens, FixAt)
           node == atom.value
           ns == Append(nodes, node)
           repetition == Repetition(tokens, atom.at)
<1>1. stage = "parsing" /\ stack # <<>> /\ Top.fn = "or" /\ atom.is # "absent" /\ AddAtom(atom)
  BY DEF ParseAtom, AtAtom, Calling
<1>2. Ended(tokens) /\ FixAt \in 1 .. Len(tokens)
  BY <1>1, Running, FixPlaced
<1>3. NodeOutcome(tokens, FixAt, atom) /\ Leaves(tokens, atom)
  BY <1>2, LeafAtomOutcome, LeafAtomLeaves, TokensWritten
<1> HIDE DEF atom
<1>4. CASE atom.is = "failed"
  BY <1>1, <1>4, FailFits DEF AddAtom
<1>5. CASE atom.is # "failed"
  <2>1. PICK F : Fits(nodes, stack, result, F, tokens)
    BY DEF TreeInv
  <2>2. TreeFits(nodes, F, tokens) /\ StackFits(stack, nodes, F, tokens) /\ Len(nodes) \in Nat
    BY <1>1, <2>1, TopFits
  <2>3. LeafShape(node, tokens)
    BY <1>1, <1>3, <1>5 DEF NodeOutcome, Outcome, Fails, Leaves
  <2>4. Shape(node, tokens) /\ node.kind \notin StatementKinds /\ node.kids = <<>>
    BY <2>3, LeafHasShape DEF LeafShape
  <2>5. AddRepeated(ns, repetition, recursion, SubSeq(stack, 1, Len(stack) - 1), stack[Len(stack)],
                    at, FixAt - at)
    BY <1>1, <1>5 DEF AddAtom, Below, Top
  <2>6. repetition.is = "found" => repetition.value[3] \in {"Greedy", "Lazy", "Default"}
    BY RepetitionQuantified DEF IsQuantified
  <2> HIDE DEF node, repetition
  <2>7. Row(node.kids, Len(nodes), F) /\ Parts(node, node.kids, nodes)
    BY <2>4, NoRow, EmptyStack DEF Parts
  <2>8. PICK G : /\ Extends(nodes, F, ns, G, tokens)
                 /\ Len(ns) = Len(nodes) + 1 /\ ns[Len(nodes) + 1] = node
                 /\ G[Len(nodes) + 1] = IF node.kids = <<>> THEN Len(nodes) + 1 ELSE F[node.kids[1]]
    BY <2>2, <2>4, <2>7, NodeAddedFits
  <2> HIDE DEF ns
  <2>9. Follows(stack, G, Len(nodes) + 1)
    BY <2>2, <2>4, <2>8, NodeFollows
  <2>10. Len(ns) # 0 /\ ns[Len(ns)].kind \notin StatementKinds /\ Follows(stack, G, Len(ns))
    BY <2>2, <2>4, <2>8, <2>9
  <2>11. stack[Len(stack)].fn = "or"
    BY <1>1 DEF Top
  <2> QED
    BY <1>1, <2>2, <2>5, <2>6, <2>8, <2>10, <2>11, AddRepeatedFits
<1> QED
  BY <1>4, <1>5

LEMMA SequenceFits ==
  ASSUME stack # <<>>, Top.fn = "or", Top.fixes # <<>>, NEW F, Fits(nodes, stack, result, F, tokens)
  PROVE  \E G : /\ Extends(nodes, F, Sequence, G, tokens)
                /\ SequenceRule \in 1 .. Len(Sequence)
                /\ Sequence[SequenceRule].kind \notin StatementKinds
                /\ Follows(Below, G, SequenceRule)
                /\ \A i \in DOMAIN Top.items : Top.items[i] < G[SequenceRule]
<1> DEFINE fixes == Top.fixes
           n == Len(nodes)
           first == fixes[1]
<1>1. /\ TreeFits(nodes, F, tokens) /\ n \in Nat /\ StackFits(Below, nodes, F, tokens)
      /\ FrameFits(Top, nodes, F, tokens) /\ \A y \in RulesOf(Top) : Follows(Below, F, y)
  BY TopFits
<1>2. /\ Row(fixes, n, F) /\ (\A j \in DOMAIN fixes : nodes[fixes[j]].kind \notin StatementKinds)
      /\ \A i \in DOMAIN Top.items, j \in DOMAIN fixes : Top.items[i] < F[fixes[j]]
      /\ Row(Top.items, n, F)
  BY <1>1, Zenon DEF FrameFits, Collects
<1>3. 1 \in DOMAIN fixes
  BY <1>2, StackLen DEF Row
<1>4. /\ first \in 1 .. n /\ first \in RulesOf(Top) /\ nodes[first].kind \notin StatementKinds
      /\ \A i \in DOMAIN Top.items : Top.items[i] < F[first]
  BY <1>2, <1>3 DEF Row, RulesOf, Elements
<1>5. Follows(Below, F, first)
  BY <1>1, <1>4
<1>6. CASE Len(fixes) = 1
  <2>1. Sequence = nodes /\ SequenceRule = first
    BY <1>6 DEF Sequence, SequenceRule
  <2>2. Extends(nodes, F, nodes, F, tokens)
    BY <1>1, SameExtends
  <2> HIDE DEF first, fixes
  <2> QED
    BY <1>4, <1>5, <2>1, <2>2 DEF n
<1>7. CASE Len(fixes) # 1
  <2> DEFINE node == Node("sequence", fixes, <<>>)
             ns == Append(nodes, node)
  <2>1. Sequence = ns /\ SequenceRule = n + 1
    BY <1>7 DEF Sequence, SequenceRule
  <2>2. NodeFields \subseteq DOMAIN node /\ node.kind = "sequence" /\ node.kids = fixes
    BY DEF Node, NodeFields
  <2> HIDE DEF node, fixes, first
  <2>3. Shape(node, tokens) /\ node.kind \notin StatementKinds
    BY <2>2 DEF Shape, Holds, Spans, RuleKinds, StatementKinds, LeafKinds, ModeWords
  <2>4. Row(node.kids, Len(nodes), F) /\ Parts(node, node.kids, nodes)
    BY <1>2, <2>2 DEF Parts
  <2>5. PICK G : /\ Extends(nodes, F, ns, G, tokens) /\ Len(ns) = Len(nodes) + 1 /\ ns[Len(nodes) + 1] = node
                 /\ G[Len(nodes) + 1] = IF node.kids = <<>> THEN Len(nodes) + 1 ELSE F[node.kids[1]]
    BY <1>1, <2>3, <2>4, NodeAddedFits
  <2> HIDE DEF ns
  <2>6. node.kids # <<>> /\ node.kids[1] = first
    BY <2>2 DEF first, fixes
  <2>7. Follows(Below, G, Len(nodes) + 1)
    BY <1>1, <1>5, <2>5, <2>6, NodeFollows
  <2>8. G[n + 1] = F[first] /\ ns[n + 1] = node /\ n + 1 \in 1 .. Len(ns)
    BY <1>1, <2>5, <2>6
  <2> QED
    BY <1>4, <2>1, <2>3, <2>5, <2>7, <2>8
<1> QED
  BY <1>6, <1>7

LEMMA AlternativeFits == TreeInv /\ stage = "parsing" /\ stack # <<>> /\ result = 0 /\ Top.fn = "or" /\ NextAlternative => TreeInv'
<1> SUFFICES ASSUME TreeInv, stage = "parsing", stack # <<>>, result = 0, Top.fn = "or", NextAlternative
             PROVE  TreeInv'
  OBVIOUS
<1> DEFINE top == Top
           x == SequenceRule
           ns == Sequence
           m == Len(ns)
           more == Append(top.items, x)
           f == [top EXCEPT !.items = Append(@, x), !.fixes = <<>>]
           t == Append(SubSeq(stack, 1, Len(stack) - 1), f)
<1>1. PICK F : Fits(nodes, stack, result, F, tokens)
  BY DEF TreeInv
<1>2. /\ nodes' = ns /\ stack' = t /\ result' = 0 /\ Top.fixes # <<>>
      /\ stage' = stage /\ tokens' = tokens
  BY DEF NextAlternative, Replaced, Below, Going, lexVars
<1>3. PICK G : /\ Extends(nodes, F, ns, G, tokens) /\ x \in 1 .. m /\ ns[x].kind \notin StatementKinds
               /\ Follows(Below, G, x) /\ \A i \in DOMAIN top.items : top.items[i] < G[x]
  BY <1>1, <1>2, SequenceFits
<1>4. /\ StackFits(stack, nodes, F, tokens) /\ FrameFits(top, nodes, F, tokens)
      /\ (\A y \in RulesOf(top) : Follows(Below, F, y))
  BY <1>1, TopFits
<1>5. StackFits(stack, ns, G, tokens) /\ Collects(top, ns, G) /\ TreeFits(ns, G, tokens) /\ m \in Nat
  BY <1>3, <1>4, StackExtends, FrameExtends DEF FrameFits, Extends
<1>6. \A y \in RulesOf(top) : Follows(Below, G, y)
  <2>1. \A y \in RulesOf(top) : y \in 1 .. Len(nodes)
    BY <1>4, RulesAreNodes DEF FrameFits
  <2> QED
    BY <1>3, <1>4, <2>1, FollowsStill
<1>7. top.fn = "or"
  OBVIOUS
<1> HIDE DEF top, x, ns
<1>8. /\ FrameFields \subseteq DOMAIN top /\ top.fn \in Functions /\ HasTag(top.fn, top.from, top.tag, tokens)
      /\ Row(top.items, m, G) /\ \A i \in DOMAIN top.items : ns[top.items[i]].kind \notin StatementKinds
  BY <1>4, <1>5, <1>7 DEF FrameFits, Collects
<1>9. /\ FrameFields \subseteq DOMAIN f /\ f.fn = top.fn /\ f.items = more /\ f.fixes = <<>>
      /\ f.from = top.from /\ f.tag = top.tag
  BY <1>8 DEF FrameFields
<1>10. Row(more, m, G) /\ Elements(more) = Elements(top.items) \cup {x}
  BY <1>3, <1>8, RowAppended
<1> HIDE DEF f, more, m
<1>11. \A i \in DOMAIN more : more[i] \in Elements(top.items) \cup {x}
  BY <1>10 DEF Elements
<1>12. \A i \in DOMAIN more : ns[more[i]].kind \notin StatementKinds
  BY <1>3, <1>8, <1>11 DEF Elements
<1>13. FrameFits(f, ns, G, tokens)
  <2>1. Row(f.fixes, m, G) /\ \A j \in DOMAIN f.fixes : FALSE
    BY <1>9, NoRow, EmptyStack
  <2>2. Collects(f, ns, G)
    BY <1>7, <1>9, <1>10, <1>12, <2>1 DEF Collects, m
  <2> QED
    BY <1>8, <1>9, <2>2 DEF FrameFits
<1>14. \A y \in RulesOf(f) : Follows(Below, G, y)
  <2>1. RulesOf(f) \subseteq RulesOf(top) \cup {x}
    BY <1>9, <1>10, NoRow DEF RulesOf
  <2> QED
    BY <1>3, <1>6, <2>1
<1>15. StackFits(t, ns, G, tokens)
  <2>1. f.fn = stack[Len(stack)].fn
    BY <1>9 DEF top, Top
  <2> QED
    BY <1>5, <1>13, <1>14, <2>1, FrameReplacedFits DEF Below
<1> HIDE DEF t
<1>16. Fits(nodes', stack', result', G, tokens')
  <2>1. 0 \in 0 .. m
    BY <1>5 DEF m
  <2> QED
    BY <1>2, <1>5, <1>15, <2>1 DEF Fits, m
<1> QED
  BY <1>2, <1>16, TreeNext

LEMMA EndOrFits == TreeInv /\ stage = "parsing" /\ stack # <<>> /\ result = 0 /\ Top.fn = "or" /\ EndOr => TreeInv'
<1> SUFFICES ASSUME TreeInv, stage = "parsing", stack # <<>>, result = 0, Top.fn = "or", EndOr
             PROVE  TreeInv'
  OBVIOUS
<1> DEFINE items == Top.items
           x == SequenceRule
           ns == Sequence
           all == Append(items, x)
           node == Node("alternation", all, <<>>)
           ms == Append(ns, node)
           m == Len(ns)
<1>1. PICK F : Fits(nodes, stack, result, F, tokens)
  BY DEF TreeInv
<1>2. /\ Top.fixes # <<>>
      /\ IF Len(all) = 1 THEN ReturnOr(ns, x) ELSE ReturnOr(ms, m + 1)
  BY DEF EndOr
<1>3. PICK G : /\ Extends(nodes, F, ns, G, tokens) /\ x \in 1 .. m /\ ns[x].kind \notin StatementKinds
               /\ Follows(Below, G, x) /\ \A i \in DOMAIN items : items[i] < G[x]
  BY <1>1, <1>2, SequenceFits
<1>4. /\ StackFits(stack, nodes, F, tokens) /\ StackFits(Below, nodes, F, tokens) /\ FrameFits(Top, nodes, F, tokens)
      /\ (\A y \in RulesOf(Top) : Follows(Below, F, y))
  BY <1>1, TopFits
<1>5. StackFits(Below, ns, G, tokens) /\ Collects(Top, ns, G) /\ TreeFits(ns, G, tokens) /\ m \in Nat
  BY <1>3, <1>4, StackExtends, FrameExtends DEF FrameFits, Extends
<1>6. Row(items, m, G) /\ \A i \in DOMAIN items : ns[items[i]].kind \notin StatementKinds
  BY <1>5 DEF Collects, StatementKinds
<1>7. CASE Len(all) = 1
  <2>1. ReturnOr(ns, x)
    BY <1>2, <1>7
  <2> HIDE DEF ns, x
  <2> QED
    BY <1>1, <1>3, <1>4, <2>1, ReturnOrFits DEF m
<1>8. CASE Len(all) # 1
  <2>1. ReturnOr(ms, m + 1)
    BY <1>2, <1>8
  <2>2. NodeFields \subseteq DOMAIN node /\ node.kind = "alternation" /\ node.kids = all
    BY DEF Node, NodeFields
  <2>3. \A i \in DOMAIN items : items[i] \in RulesOf(Top) /\ items[i] \in 1 .. Len(nodes)
    <3>1. \A i \in DOMAIN items : items[i] \in RulesOf(Top)
      BY DEF RulesOf, Elements
    <3> QED
      BY <1>4, <3>1, RulesAreNodes DEF FrameFits
  <2> HIDE DEF node, items, x, m, ns
  <2>4. Row(all, m, G) /\ Elements(all) = Elements(items) \cup {x}
    BY <1>3, <1>6, RowAppended
  <2>5. all # <<>> /\ 1 \in DOMAIN all
    BY <1>6, Appended, StackLen DEF Row
  <2>6. \A i \in DOMAIN all : all[i] \in Elements(items) \cup {x}
    BY <2>4 DEF Elements
  <2> HIDE DEF all
  <2>7. \A i \in DOMAIN all : ns[all[i]].kind \notin StatementKinds /\ Follows(Below, G, all[i])
    <3>1. \A i \in DOMAIN items : Follows(Below, G, items[i])
      <4>1. \A i \in DOMAIN items : Follows(Below, F, items[i])
        BY <1>4, <2>3
      <4> QED
        BY <1>3, <2>3, <4>1, FollowsStill
    <3> QED
      BY <1>3, <1>6, <2>6, <3>1 DEF Elements
  <2>8. Shape(node, tokens) /\ node.kind \notin StatementKinds
    BY <2>2 DEF Shape, Holds, Spans, RuleKinds, StatementKinds, LeafKinds, ModeWords
  <2>9. Row(node.kids, Len(ns), G) /\ Parts(node, node.kids, ns)
    BY <2>2, <2>4, <2>7 DEF Parts, m
  <2>10. PICK H : /\ Extends(ns, G, ms, H, tokens) /\ Len(ms) = Len(ns) + 1 /\ ms[Len(ns) + 1] = node
                  /\ H[Len(ns) + 1] = IF node.kids = <<>> THEN Len(ns) + 1 ELSE G[node.kids[1]]
    BY <1>5, <2>8, <2>9, NodeAddedFits
  <2> HIDE DEF ms
  <2>11. Follows(Below, H, Len(ns) + 1)
    <3>1. node.kids # <<>> => Follows(Below, G, node.kids[1])
      BY <2>2, <2>5, <2>7
    <3> QED
      BY <1>5, <2>10, <3>1, NodeFollows
  <2>12. Extends(nodes, F, ms, H, tokens)
    BY <1>3, <2>10, ExtendsTwice
  <2>13. m + 1 \in 1 .. Len(ms) /\ ms[m + 1] = node /\ Follows(Below, H, m + 1)
    BY <1>5, <2>10, <2>11 DEF m
  <2> QED
    BY <1>1, <1>4, <2>1, <2>8, <2>12, <2>13, ReturnOrFits
<1> QED
  BY <1>7, <1>8

LEMMA EmptyFits == TreeInv /\ stage = "parsing" /\ stack # <<>> /\ result = 0 /\ EmptyExpression => TreeInv'
<1> SUFFICES ASSUME TreeInv, stage = "parsing", stack # <<>>, result = 0, EmptyExpression PROVE TreeInv'
  OBVIOUS
<1> DEFINE node == Node("literal", <<>>, <<>>)
           ns == Append(nodes, node)
           n == Len(nodes)
<1>1. PICK F : Fits(nodes, stack, result, F, tokens)
  BY DEF TreeInv
<1>2. /\ TreeFits(nodes, F, tokens) /\ StackFits(stack, nodes, F, tokens) /\ n \in Nat
      /\ StackFits(Below, nodes, F, tokens)
  BY <1>1, TopFits
<1>3. /\ NodeFields \subseteq DOMAIN node /\ node.kind = "literal" /\ node.kids = <<>> /\ node.value = <<>>
      /\ ReturnOr(ns, n + 1)
  BY DEF Node, NodeFields, EmptyExpression
<1> HIDE DEF node
<1>4. Shape(node, tokens) /\ node.kind \notin StatementKinds
  BY <1>3 DEF Shape, Holds, Spans, RuleKinds, StatementKinds, LeafKinds, ModeWords
<1>5. Row(node.kids, Len(nodes), F) /\ Parts(node, node.kids, nodes)
  BY <1>3, NoRow, EmptyStack DEF Parts
<1>6. PICK G : /\ Extends(nodes, F, ns, G, tokens) /\ Len(ns) = Len(nodes) + 1 /\ ns[Len(nodes) + 1] = node
               /\ G[Len(nodes) + 1] = IF node.kids = <<>> THEN Len(nodes) + 1 ELSE F[node.kids[1]]
  BY <1>2, <1>4, <1>5, NodeAddedFits
<1> HIDE DEF ns
<1>7. Follows(Below, G, Len(nodes) + 1)
  BY <1>2, <1>3, <1>6, NodeFollows
<1>8. n + 1 \in 1 .. Len(ns) /\ ns[n + 1] = node /\ Follows(Below, G, n + 1)
  BY <1>2, <1>6, <1>7
<1> QED
  BY <1>2, <1>3, <1>4, <1>6, <1>8, ReturnOrFits

LEMMA NoFixFits == TreeInv /\ NoFix => TreeInv'
<1> SUFFICES ASSUME TreeInv, NoFix PROVE TreeInv'
  OBVIOUS
<1>1. stage = "parsing" /\ stack # <<>> /\ result = 0 /\ Top.fn = "or"
  BY DEF NoFix, AtAtom, Calling
<1>2. CASE LoneNot \/ LonePipe
  BY <1>2, FailFits DEF LoneNot, LonePipe
<1> QED
  BY <1>1, <1>2, AlternativeFits, EndOrFits, EmptyFits DEF NoFix

LEMMA StepTree == TilesInv /\ PlacesInv /\ LevelsInv /\ TreeInv /\ [ParserStep]_parserVars => TreeInv'
<1> SUFFICES ASSUME TilesInv, PlacesInv, LevelsInv, TreeInv, [ParserStep]_parserVars PROVE TreeInv'
  OBVIOUS
<1>1. CASE LexToken \/ EndLexing
  BY <1>1, LexingFits
<1>2. CASE ParseModeModifier \/ ParseLet \/ EndLet \/ ParseBody \/ EndModified
  BY <1>2, ModeModifierFits, LetFits, EndLetFits, BodyFits, EndModifiedFits
<1>3. CASE ParseLookaround \/ EndLookaround \/ ParseGroup \/ EndGroup \/ ParseAtom \/ NoFix
  BY <1>3, LookaroundFits, EndLookaroundFits, GroupFits, EndGroupFits, AtomFits, NoFixFits
<1>4. CASE EndParse
  <2>1. (\E e : Fail(e)) \/ (stage' = "parsed" /\ UNCHANGED <<lexVars, parseVars, errors>>)
    BY <1>4 DEF EndParse
  <2> QED
    BY <2>1, FailFits, TreeStays DEF lexVars
<1>5. CASE UNCHANGED parserVars
  <2>1. UNCHANGED parseVars /\ tokens' = tokens /\ stage' = stage
    BY <1>5 DEF parserVars, lexVars
  <2>2. CASE stage # "lexing"
    BY <2>1, <2>2, TreeStays
  <2>3. CASE stage = "lexing"
    <3>1. nodes' = <<>> /\ stack' = <<>> /\ result' = 0 /\ \E F : Fits(nodes, stack, result, F, tokens)
      BY <2>1, <2>3 DEF TreeInv, parseVars
    <3>2. \E F : Fits(nodes', stack', result', F, tokens')
      BY <2>1, <3>1 DEF parseVars
    <3> QED
      BY <3>1, <3>2, TreeAfter
  <2> QED
    BY <2>2, <2>3
<1> QED
  BY <1>1, <1>2, <1>3, <1>4, <1>5 DEF ParserStep

-----------------------------------------------------------------------------
(***************************************************************************)
(* Lists of nodes, one row after the other                                 *)
(***************************************************************************)
\* Row j of several takes the places O[j - 1] + 1 .. O[j] of all of them
Offsets(rows, n, O) ==
  O \in [0 .. n -> Nat] /\ O[0] = 0 /\ \A j \in 1 .. n : O[j] = O[j - 1] + Len(rows[j])
InRows(rows, O, i, v) ==
  /\ IsStack(v) /\ Len(v) = O[i]
  /\ \A j \in 1 .. i : \A q \in 1 .. Len(rows[j]) : v[O[j - 1] + q] = rows[j][q]
  /\ \A x \in 1 .. O[i] : \E j \in 1 .. i : x \in O[j - 1] + 1 .. O[j]

LEMMA OffsetsRise ==
  ASSUME NEW n \in Nat, NEW rows, NEW O, Offsets(rows, n, O), \A j \in 1 .. n : Len(rows[j]) \in Nat,
         NEW i \in 0 .. n, NEW j \in 0 .. n, i <= j
  PROVE  O[i] \in Nat /\ O[j] \in Nat /\ O[i] <= O[j]
<1> DEFINE Low == {k \in i .. n : ~(O[i] <= O[k])}
<1>1. O \in [0 .. n -> Nat] /\ \A k \in 1 .. n : O[k] = O[k - 1] + Len(rows[k])
  BY DEF Offsets
<1>2. Low = {}
  <2> SUFFICES ASSUME Low # {} PROVE FALSE
    OBVIOUS
  <2>1. PICK k \in Low : \A m \in Low : k <= m
    <3>1. Low \subseteq Nat
      OBVIOUS
    <3> HIDE DEF Low
    <3> QED
      BY <3>1, Least
  <2>2. k \in i .. n /\ ~(O[i] <= O[k]) /\ O[i] \in Nat
    BY <1>1, <2>1
  <2>3. k \in 1 .. n /\ k - 1 \in i .. n /\ k - 1 \in 0 .. n /\ ~(k <= k - 1)
    BY <2>2
  <2>4. O[i] <= O[k - 1]
    BY <2>1, <2>3
  <2>5. O[k] = O[k - 1] + Len(rows[k]) /\ Len(rows[k]) \in Nat /\ O[k - 1] \in Nat
    BY <1>1, <2>3
  <2> QED
    BY <2>2, <2>4, <2>5
<1>3. j \in i .. n
  OBVIOUS
<1>4. O[i] <= O[j]
  BY <1>2, <1>3
<1> QED
  BY <1>1, <1>4

LEMMA NextInRows ==
  ASSUME NEW n \in Nat, NEW rows, NEW O, Offsets(rows, n, O), \A j \in 1 .. n : IsStack(rows[j]),
         NEW i \in 1 .. n, NEW v, InRows(rows, O, i - 1, v)
  PROVE  InRows(rows, O, i, v \o rows[i])
<1> DEFINE r == rows[i]
           w == v \o r
           a == O[i - 1]
           l == Len(r)
           h == i - 1
<1>1. \A j \in 1 .. n : Len(rows[j]) \in Nat
  BY StackLen
<1>2. O \in [0 .. n -> Nat] /\ O[0] = 0 /\ O[i] = a + l /\ a \in Nat /\ l \in Nat
      /\ \A j \in 1 .. n : O[j] = O[j - 1] + Len(rows[j])
  BY <1>1 DEF Offsets
<1>3. /\ IsStack(v) /\ Len(v) = a
      /\ \A j \in 1 .. h : \A q \in 1 .. Len(rows[j]) : v[O[j - 1] + q] = rows[j][q]
      /\ \A x \in 1 .. a : \E j \in 1 .. h : x \in O[j - 1] + 1 .. O[j]
  BY DEF InRows
<1>4. /\ IsStack(w) /\ Len(w) = a + l /\ (\A k \in 1 .. a : w[k] = v[k])
      /\ \A k \in 1 .. l : w[a + k] = r[k]
  <2>1. IsStack(r)
    OBVIOUS
  <2>2. IsStack(v) /\ Len(v) = a
    BY <1>3
  <2> HIDE DEF r, a
  <2>3. /\ IsStack(v \o r) /\ Len(v \o r) = Len(v) + Len(r)
        /\ \A k \in 1 .. Len(v) : (v \o r)[k] = v[k]
    BY <2>1, <2>2, Concatenated
  <2>4. \A k \in 1 .. Len(r) : (v \o r)[Len(v) + k] = r[k]
    BY <2>1, <2>2, Concatenated
  <2> QED
    BY <2>2, <2>3, <2>4
<1> HIDE DEF w, l
<1>5. \A j \in 1 .. i : j = i \/ j \in 1 .. h
  OBVIOUS
<1>6. ASSUME NEW j \in 1 .. h, NEW q \in 1 .. Len(rows[j]) PROVE w[O[j - 1] + q] = rows[j][q]
  <2>1. j \in 0 .. n /\ h \in 0 .. n /\ j <= h /\ j \in 1 .. n /\ j - 1 \in 0 .. n
    OBVIOUS
  <2>2. O[j] \in Nat /\ O[h] \in Nat /\ O[j] <= O[h]
    BY <1>1, <2>1, OffsetsRise
  <2> DEFINE x == O[j - 1] + q
             y == O[j - 1]
  <2>3. y \in Nat /\ O[j] = y + Len(rows[j]) /\ Len(rows[j]) \in Nat /\ a = O[h]
    BY <1>1, <1>2, <2>1
  <2> HIDE DEF y, a, h
  <2>4. x \in 1 .. a
    BY <2>2, <2>3 DEF y
  <2>5. v[x] = rows[j][q]
    BY <1>3, <2>1
  <2> HIDE DEF x
  <2>6. w[x] = rows[j][q]
    BY <1>4, <2>4, <2>5
  <2> QED
    BY <2>6 DEF x
<1>7. \A q \in 1 .. Len(rows[i]) : w[O[i - 1] + q] = rows[i][q]
  BY <1>4 DEF l
<1>8. ASSUME NEW x \in 1 .. O[i] PROVE \E j \in 1 .. i : x \in O[j - 1] + 1 .. O[j]
  <2>1. CASE x <= a
    <3>1. x \in 1 .. a
      BY <1>2, <2>1
    <3>2. PICK j \in 1 .. h : x \in O[j - 1] + 1 .. O[j]
      BY <1>3, <3>1
    <3>3. j \in 1 .. i
      OBVIOUS
    <3> QED
      BY <3>2, <3>3
  <2>2. CASE ~(x <= a)
    <3>1. x \in a + 1 .. O[i]
      BY <1>2, <2>2
    <3>2. i \in 1 .. i
      OBVIOUS
    <3> QED
      BY <3>1, <3>2
  <2> QED
    BY <2>1, <2>2
<1> HIDE DEF h, r
<1>9. \A j \in 1 .. i : \A q \in 1 .. Len(rows[j]) : w[O[j - 1] + q] = rows[j][q]
  BY <1>5, <1>6, <1>7
<1>10. Len(w) = O[i]
  BY <1>2, <1>4
<1>11. InRows(rows, O, i, w)
  BY <1>4, <1>8, <1>9, <1>10 DEF InRows
<1> QED
  BY <1>11 DEF w, r

LEMMA FirstInRows ==
  ASSUME NEW n \in Nat \ {0}, NEW rows, NEW O, Offsets(rows, n, O), \A j \in 1 .. n : IsStack(rows[j])
  PROVE  InRows(rows, O, 1, rows[1])
<1> DEFINE r == rows[1]
           l == Len(r)
<1>1. 1 \in 1 .. n /\ 1 - 1 = 0 /\ \A j \in 1 .. 1 : j = 1
  OBVIOUS
<1>2. IsStack(r) /\ l \in Nat
  BY <1>1, StackLen
<1>3. O[0] = 0 /\ O[1] = O[1 - 1] + l
  BY <1>1 DEF Offsets
<1> HIDE DEF l
<1>4. O[0] = 0 /\ O[1 - 1] = 0 /\ O[1] = l
  BY <1>1, <1>2, <1>3
<1>5. \A q \in 1 .. l : r[O[1 - 1] + q] = r[q]
  BY <1>2, <1>4
<1>6. \A x \in 1 .. O[1] : x \in O[1 - 1] + 1 .. O[1]
  BY <1>2, <1>4
<1>7. 1 \in 1 .. 1
  OBVIOUS
<1> QED
  BY <1>1, <1>2, <1>4, <1>5, <1>6, <1>7 DEF InRows, l

\* FlattenSeq puts the rows one after the other
LEMMA FlattenedRows ==
  ASSUME NEW n \in Nat, NEW rows, IsStack(rows), Len(rows) = n, \A j \in 1 .. n : IsStack(rows[j])
  PROVE  \E O : Offsets(rows, n, O) /\ InRows(rows, O, n, FlattenSeq(rows))
<1> DEFINE step == [j \in 1 .. n |-> Len(rows[j])]
<1>1. step \in [1 .. n -> Nat]
  BY StackLen
<1>2. PICK O \in [0 .. n -> Nat] : O[0] = 0 /\ \A j \in 1 .. n : O[j] = O[j - 1] + step[j]
  <2> HIDE DEF step
  <2> QED
    BY <1>1, RunningSum
<1>3. Offsets(rows, n, O)
  BY <1>2 DEF Offsets
<1>4. CASE n = 0
  <2>1. FlattenSeq(rows) = rows
    BY <1>4 DEF FlattenSeq
  <2>2. InRows(rows, O, 0, rows)
    BY <1>2, <1>4 DEF InRows
  <2> QED
    BY <1>3, <1>4, <2>1, <2>2
<1>5. CASE n # 0
  <2> DEFINE Grown1(k, w) == /\ w = [i \in 1 .. k |-> w[i]] /\ Grows(rows, k, w)
                             /\ \A i \in 1 .. k : InRows(rows, O, i, w[i])
             Missing == {k \in 1 .. n : ~ \E w : Grown1(k, w)}
  <2>1. Missing = {}
    <3> SUFFICES ASSUME Missing # {} PROVE FALSE
      OBVIOUS
    <3>1. PICK k \in Missing : \A m \in Missing : k <= m
      <4>1. Missing \subseteq Nat
        OBVIOUS
      <4> HIDE DEF Missing
      <4> QED
        BY <4>1, Least
    <3>2. k \in 1 .. n /\ ~ \E w : Grown1(k, w)
      BY <3>1
    <3>3. CASE k = 1
      <4> DEFINE w == [i \in 1 .. 1 |-> rows[1]]
      <4>1. w = [i \in 1 .. 1 |-> w[i]] /\ w[1] = rows[1] /\ \A i \in 1 .. 1 : w[i] = rows[1] /\ i = 1
        OBVIOUS
      <4>2. InRows(rows, O, 1, rows[1])
        BY <1>3, <1>5, FirstInRows
      <4>3. \A i \in 2 .. 1 : FALSE
        OBVIOUS
      <4> HIDE DEF w
      <4>4. Grown1(1, w)
        BY <4>1, <4>2, <4>3 DEF Grows
      <4> QED
        BY <3>2, <3>3, <4>4
    <3>4. CASE k # 1
      <4> DEFINE m == k - 1
      <4>1. m \in 1 .. n /\ ~(k <= m) /\ k \in 1 .. n /\ k \in 2 .. n /\ m \in 1 .. m
            /\ \A i \in 1 .. k : i = k \/ i \in 1 .. m
        BY <3>2, <3>4
      <4>2. PICK w : Grown1(m, w)
        <5> HIDE DEF Grown1, m
        <5> QED
          BY <3>1, <4>1
      <4> DEFINE last == w[m] \o rows[k]
                 u == [i \in 1 .. k |-> IF i = k THEN last ELSE w[i]]
      <4>3. u = [i \in 1 .. k |-> u[i]] /\ u[k] = last /\ \A i \in 1 .. m : u[i] = w[i]
        BY <3>2
      <4>4. InRows(rows, O, k, last)
        <5>1. InRows(rows, O, k - 1, w[m])
          BY <4>1, <4>2
        <5> QED
          BY <1>3, <4>1, <5>1, NextInRows
      <4>5. w[1] = rows[1] /\ \A i \in 2 .. m : w[i] = w[i - 1] \o rows[i]
        BY <4>2 DEF Grows
      <4> HIDE DEF u, last
      <4>6. Grows(rows, k, u)
        <5>1. u[1] = rows[1]
          <6>1. 1 \in 1 .. m
            BY <4>1
          <6> QED
            BY <4>3, <4>5, <6>1
        <5>2. ASSUME NEW i \in 2 .. k PROVE u[i] = u[i - 1] \o rows[i]
          <6>1. i - 1 \in 1 .. m
            BY <4>1
          <6>2. u[i - 1] = w[i - 1]
            BY <4>3, <6>1
          <6>3. CASE i = k
            BY <4>3, <6>2, <6>3 DEF last
          <6>4. CASE i # k
            <7>1. i \in 2 .. m /\ i \in 1 .. m
              BY <4>1, <6>4
            <7> QED
              BY <4>3, <4>5, <6>2, <7>1
          <6> QED
            BY <6>3, <6>4
        <5> QED
          BY <5>1, <5>2 DEF Grows
      <4> HIDE DEF m
      <4>7. \A i \in 1 .. k : InRows(rows, O, i, u[i])
        BY <4>1, <4>2, <4>3, <4>4
      <4>8. Grown1(k, u)
        BY <4>3, <4>6, <4>7
      <4> QED
        BY <3>2, <4>8
    <3> QED
      BY <3>3, <3>4
  <2>2. n \in 1 .. n
    BY <1>5
  <2>3. PICK w : Grown1(n, w)
    <3> HIDE DEF Grown1
    <3> QED
      BY <2>1, <2>2
  <2> DEFINE T == {w[i] : i \in 1 .. n}
  <2>4. w \in [1 .. n -> T]
    <3>1. [i \in 1 .. n |-> w[i]] \in [1 .. n -> T]
      OBVIOUS
    <3> HIDE DEF T
    <3> QED
      BY <2>3, <3>1
  <2> HIDE DEF T
  <2>5. FlattenSeq(rows) = w[n]
    BY <1>5, <2>3, <2>4, Flattened
  <2>6. InRows(rows, O, n, w[n])
    BY <2>2, <2>3
  <2> QED
    BY <1>3, <2>5, <2>6
<1> QED
  BY <1>4, <1>5

-----------------------------------------------------------------------------
(***************************************************************************)
(* The tree that the compiler gets                                         *)
(***************************************************************************)
IsRule(n) == nodes[n].kind \notin StatementKinds

LEMMA TreeKidsFit ==
  ASSUME NEW F, TreeFits(nodes, F, tokens), NEW n \in 1 .. Len(nodes)
  PROVE  /\ Row(TreeKids(n), n - 1, F)
         /\ \A j \in DOMAIN TreeKids(n) : F[n] <= F[TreeKids(n)[j]] /\ IsRule(TreeKids(n)[j])
<1> DEFINE l == Len(nodes)
           x == nodes[n]
<1>1. l \in Nat /\ F \in [1 .. l -> Nat] /\ \A i \in 1 .. l : NodeFits(nodes, i, F, tokens)
  BY StackLen DEF TreeFits
<1>2. /\ Shape(x, tokens) /\ Row(x.kids, n - 1, F) /\ F[n] <= n
      /\ (\A j \in DOMAIN x.kids : F[n] <= F[x.kids[j]]) /\ Parts(x, x.kids, nodes)
  BY <1>1 DEF NodeFits
<1>3. CASE x.kind # "stmt"
  <2>1. TreeKids(n) = x.kids
    BY <1>3 DEF TreeKids
  <2> QED
    BY <1>2, <1>3, <2>1 DEF Parts, IsRule
<1>4. CASE x.kind = "stmt"
  <2> DEFINE s == x.kids[1]
             r == x.kids[2]
             kids == nodes[s].kids
             all == kids \o <<r>>
  <2>1. TreeKids(n) = all
    BY <1>4 DEF TreeKids, Statement
  <2>2. Len(x.kids) = 2 /\ DOMAIN x.kids = 1 .. 2
    BY <1>2, <1>4, StackLen DEF Shape, Spans, Row
  <2>3. 1 \in DOMAIN x.kids /\ 2 \in DOMAIN x.kids /\ 1 < 2
    BY <2>2
  <2>4. /\ s \in 1 .. n - 1 /\ r \in 1 .. n - 1 /\ s < F[r] /\ F[n] <= F[s] /\ F[n] <= F[r]
        /\ nodes[s].kind \in StatementKinds /\ nodes[r].kind \notin StatementKinds
    BY <1>2, <1>4, <2>3 DEF Row, Parts
  <2> HIDE DEF x, r, s
  <2>5. s \in 1 .. l /\ r \in 1 .. l /\ n \in 1 .. l
    BY <1>1, <2>4
  <2>6. /\ Row(kids, s - 1, F) /\ F[s] <= s /\ (\A j \in DOMAIN kids : F[s] <= F[kids[j]])
        /\ \A j \in DOMAIN kids : nodes[kids[j]].kind \notin StatementKinds
    <3>1. NodeFits(nodes, s, F, tokens)
      BY <1>1, <2>5
    <3>2. nodes[s].kind # "stmt"
      BY <2>4 DEF StatementKinds, ModeWords
    <3> QED
      BY <3>1, <3>2 DEF NodeFits, Parts
  <2> DEFINE k == Len(kids)
  <2>7. IsStack(kids) /\ k \in Nat /\ DOMAIN kids = 1 .. k
        /\ \A j \in 1 .. k : kids[j] \in 1 .. s - 1
        /\ \A c, d \in 1 .. k : c < d => kids[c] < F[kids[d]]
    BY <2>6, StackLen DEF Row
  <2>8. IsStack(<<r>>) /\ Len(<<r>>) = 1 /\ <<r>>[1] = r
    <3>1. <<r>> \in Seq({r})
      OBVIOUS
    <3> QED
      BY <3>1, StackOf
  <2>9. /\ IsStack(all) /\ DOMAIN all = 1 .. k + 1 /\ (\A j \in 1 .. k : all[j] = kids[j])
        /\ all[k + 1] = r
    <3> DEFINE t == <<r>>
    <3>1. IsStack(t) /\ Len(t) = 1 /\ t[1] = r /\ 1 \in 1 .. 1
      BY <2>8
    <3> HIDE DEF t, kids
    <3>2. /\ IsStack(kids \o t) /\ DOMAIN (kids \o t) = 1 .. Len(kids) + Len(t)
          /\ (\A i \in 1 .. Len(kids) : (kids \o t)[i] = kids[i])
      BY <2>7, <3>1, Concatenated
    <3>3. (kids \o t)[Len(kids) + 1] = t[1]
      <4>1. IsStack(kids) /\ IsStack(t) /\ 1 \in 1 .. Len(t)
        BY <2>7, <3>1
      <4> QED
        BY <4>1, Concatenated
    <3> QED
      BY <3>1, <3>2, <3>3 DEF t
  <2> HIDE DEF all, k, kids
  <2>10. \A j \in 1 .. k + 1 : j = k + 1 \/ j \in 1 .. k
    BY <2>7
  <2>11. \A j \in 1 .. k : kids[j] \in 1 .. n - 1 /\ kids[j] < F[r] /\ F[n] <= F[kids[j]]
    <3> SUFFICES ASSUME NEW j \in 1 .. k PROVE kids[j] \in 1 .. n - 1 /\ kids[j] < F[r] /\ F[n] <= F[kids[j]]
      OBVIOUS
    <3> DEFINE y == kids[j]
    <3>1. y \in 1 .. s - 1 /\ F[s] <= F[y]
      BY <2>6, <2>7
    <3> HIDE DEF y
    <3>2. y \in 1 .. l /\ y \in 1 .. n - 1
      BY <1>1, <2>4, <3>1
    <3>3. F[y] \in Nat /\ F[r] \in Nat /\ F[s] \in Nat /\ F[n] \in Nat
      BY <1>1, <2>5, <3>2
    <3>4. y < F[r] /\ F[n] <= F[y]
      BY <2>4, <3>1, <3>3
    <3> QED
      BY <3>2, <3>4 DEF y
  <2>12. ASSUME NEW i \in 1 .. k + 1, NEW j \in 1 .. k + 1, i < j PROVE all[i] < F[all[j]]
    <3>1. i \in 1 .. k
      BY <2>7, <2>12
    <3> QED
      BY <2>7, <2>9, <2>10, <2>11, <2>12, <3>1
  <2>13. Row(all, n - 1, F)
    BY <2>4, <2>9, <2>10, <2>11, <2>12 DEF Row
  <2>14. \A j \in DOMAIN all : F[n] <= F[all[j]] /\ IsRule(all[j])
    BY <2>4, <2>6, <2>7, <2>9, <2>10, <2>11 DEF IsRule
  <2> QED
    BY <2>1, <2>13, <2>14
<1> QED
  BY <1>3, <1>4

-----------------------------------------------------------------------------
(***************************************************************************)
(* The subtrees, as lists of nodes                                         *)
(***************************************************************************)
RowsOf(g, n) == [i \in DOMAIN TreeKids(n) |-> g[TreeKids(n)[i]]]
Joining(g, n) == <<n>> \o FlattenSeq(RowsOf(g, n))

LEMMA SameRows ==
  ASSUME NEW F, TreeFits(nodes, F, tokens), NEW n \in 1 .. Len(nodes),
         NEW g, NEW h, \A k \in 1 .. n - 1 : h[k] = g[k]
  PROVE  Joining(h, n) = Joining(g, n)
<1>1. \A i \in DOMAIN TreeKids(n) : TreeKids(n)[i] \in 1 .. n - 1
  BY TreeKidsFit DEF Row
<1>2. \A i \in DOMAIN TreeKids(n) : h[TreeKids(n)[i]] = g[TreeKids(n)[i]]
  BY <1>1
<1>3. RowsOf(h, n) = RowsOf(g, n)
  BY <1>2, Zenon DEF RowsOf
<1> QED
  BY <1>3 DEF Joining

LEMMA SubtreesDefined ==
  ASSUME NEW F, TreeFits(nodes, F, tokens)
  PROVE  \A n \in 1 .. Len(nodes) : Subtrees[n] = Joining(Subtrees, n)
<1> DEFINE l == Len(nodes)
           Is1(n, g) == g = [i \in 1 .. n |-> Joining(g, i)]
           Missing == {n \in 0 .. l : ~ \E g : Is1(n, g)}
<1>1. l \in Nat /\ DOMAIN nodes = 1 .. l
  BY StackLen DEF TreeFits
<1>2. \A n \in 1 .. l : \A g, h : (\A k \in 1 .. n - 1 : h[k] = g[k]) => Joining(h, n) = Joining(g, n)
  BY SameRows
<1> HIDE DEF l
<1>3. Missing = {}
  <2> SUFFICES ASSUME Missing # {} PROVE FALSE
    OBVIOUS
  <2>1. PICK n \in Missing : \A k \in Missing : n <= k
    <3>1. Missing \subseteq Nat
      BY <1>1
    <3> HIDE DEF Missing
    <3> QED
      BY <3>1, Least
  <2>2. n \in 0 .. l /\ n \in Nat /\ ~ \E g : Is1(n, g)
    BY <1>1, <2>1
  <2>3. CASE n = 0
    <3> DEFINE g == [i \in 1 .. 0 |-> 0]
    <3>1. g = [i \in 1 .. 0 |-> Joining(g, i)]
      OBVIOUS
    <3> HIDE DEF g
    <3>2. Is1(0, g)
      BY <3>1
    <3> HIDE DEF Is1
    <3> QED
      BY <2>2, <2>3, <3>2
  <2>4. CASE n # 0
    <3> DEFINE m == n - 1
    <3>1. m \in 0 .. l /\ ~(n <= m) /\ n \in 1 .. n /\ \A i \in 1 .. n : i = n \/ i \in 1 .. m
      BY <1>1, <2>2, <2>4
    <3>2. PICK g : Is1(m, g)
      <4> HIDE DEF Is1, m
      <4> QED
        BY <2>1, <3>1
    <3> DEFINE last == Joining(g, n)
               h == [i \in 1 .. n |-> IF i = n THEN last ELSE g[i]]
    <3>3. /\ h[n] = last /\ \A i \in 1 .. m : h[i] = g[i]
      BY <2>2, <2>4
    <3>4. \A i \in 1 .. m : g[i] = Joining(g, i)
      <4> DEFINE e == [i \in 1 .. m |-> Joining(g, i)]
      <4>1. \A i \in 1 .. m : e[i] = Joining(g, i)
        OBVIOUS
      <4>2. g = e
        BY <3>2
      <4> HIDE DEF e
      <4> QED
        BY <4>1, <4>2
    <3>5. ASSUME NEW i \in 1 .. n PROVE (IF i = n THEN last ELSE g[i]) = Joining(h, i)
      <4> HIDE DEF h
      <4>1. \A k \in 1 .. i - 1 : h[k] = g[k]
        <5>1. \A k \in 1 .. i - 1 : k \in 1 .. m
          BY <2>2
        <5> QED
          BY <3>3, <5>1
      <4>2. i \in 1 .. l
        BY <1>1, <2>2
      <4>3. Joining(h, i) = Joining(g, i)
        BY <1>2, <4>1, <4>2
      <4> HIDE DEF m
      <4> QED
        BY <3>1, <3>4, <4>3 DEF last
    <3>6. [i \in 1 .. n |-> IF i = n THEN last ELSE g[i]] = [i \in 1 .. n |-> Joining(h, i)]
      <4> HIDE DEF last, h
      <4> QED
        BY <3>5, Zenon
    <3>7. h = [i \in 1 .. n |-> Joining(h, i)]
      BY <3>6, Zenon
    <3> HIDE DEF h
    <3>8. Is1(n, h)
      BY <3>7
    <3> HIDE DEF Is1
    <3> QED
      BY <2>2, <3>8
  <2> QED
    BY <2>3, <2>4
<1>4. PICK g : Is1(l, g)
  <2>1. l \in 0 .. l
    BY <1>1
  <2> HIDE DEF Is1
  <2> QED
    BY <1>3, <2>1
<1>5. g = [n \in DOMAIN nodes |-> <<n>> \o FlattenSeq([i \in DOMAIN TreeKids(n) |-> g[TreeKids(n)[i]]])]
  BY <1>1, <1>4, Zenon DEF Joining, RowsOf
<1>6. Subtrees = [n \in DOMAIN nodes |->
                   <<n>> \o FlattenSeq([i \in DOMAIN TreeKids(n) |-> Subtrees[TreeKids(n)[i]]])]
  BY <1>5, Zenon DEF Subtrees
<1> DEFINE s == Subtrees
<1>7. s = [n \in DOMAIN nodes |-> Joining(s, n)]
  <2> HIDE DEF s
  <2> QED
    BY <1>6, Zenon DEF s, Joining, RowsOf
<1> HIDE DEF s
<1>8. \A n \in 1 .. l : s[n] = Joining(s, n)
  <2> DEFINE e == [n \in DOMAIN nodes |-> Joining(s, n)]
  <2>1. \A n \in 1 .. l : e[n] = Joining(s, n)
    BY <1>1
  <2>2. s = e
    BY <1>7
  <2> HIDE DEF e
  <2> QED
    BY <2>1, <2>2
<1> QED
  BY <1>8 DEF s, l

\* The subtrees of the kids of n come one after the other, after n itself
Laid(n, O) ==
  LET k == Len(TreeKids(n)) IN
  /\ O \in [0 .. k -> Nat] /\ O[0] = 0
  /\ \A j \in 1 .. k : O[j] = O[j - 1] + Len(Subtrees[TreeKids(n)[j]])
  /\ Len(Subtrees[n]) = 1 + O[k]
  /\ \A j \in 1 .. k : \A q \in 1 .. Len(Subtrees[TreeKids(n)[j]]) :
       Subtrees[n][1 + O[j - 1] + q] = Subtrees[TreeKids(n)[j]][q]
  /\ \A x \in 1 .. O[k] : \E j \in 1 .. k : x \in O[j - 1] + 1 .. O[j]

LEMMA Single ==
  ASSUME NEW x
  PROVE  IsStack(<<x>>) /\ Len(<<x>>) = 1 /\ <<x>>[1] = x
<1>1. <<x>> \in Seq({x})
  OBVIOUS
<1> QED
  BY <1>1, StackOf

LEMMA Prefixed ==
  ASSUME NEW t, IsStack(t), NEW x
  PROVE  /\ IsStack(<<x>> \o t) /\ Len(<<x>> \o t) = 1 + Len(t) /\ (<<x>> \o t)[1] = x
         /\ \A i \in 1 .. Len(t) : (<<x>> \o t)[1 + i] = t[i]
<1> DEFINE one == <<x>>
<1>1. IsStack(one) /\ Len(one) = 1 /\ one[1] = x /\ 1 \in 1 .. 1
  BY Single
<1> HIDE DEF one
<1>2. /\ IsStack(one \o t) /\ Len(one \o t) = Len(one) + Len(t)
      /\ \A i \in 1 .. Len(one) : (one \o t)[i] = one[i]
  BY <1>1, Concatenated
<1>3. \A i \in 1 .. Len(t) : (one \o t)[Len(one) + i] = t[i]
  <2>1. IsStack(one)
    BY <1>1
  <2> QED
    BY ONLY <2>1, IsStack(t), Concatenated
<1>4. /\ IsStack(one \o t) /\ Len(one \o t) = 1 + Len(t) /\ (one \o t)[1] = x
      /\ \A i \in 1 .. Len(t) : (one \o t)[1 + i] = t[i]
  BY <1>1, <1>2, <1>3
<1> QED
  BY <1>4 DEF one

LEMMA LaidOut ==
  ASSUME NEW F, TreeFits(nodes, F, tokens), NEW n \in 1 .. Len(nodes),
         \A j \in DOMAIN TreeKids(n) : IsStack(Subtrees[TreeKids(n)[j]])
  PROVE  IsStack(Subtrees[n]) /\ Subtrees[n][1] = n /\ \E O : Laid(n, O)
<1> DEFINE kids == TreeKids(n)
           k == Len(kids)
           rows == RowsOf(Subtrees, n)
           flat == FlattenSeq(rows)
           all == Subtrees[n]
<1>1. IsStack(kids) /\ k \in Nat /\ DOMAIN kids = 1 .. k
  BY TreeKidsFit, StackLen DEF Row
<1>2. all = <<n>> \o flat
  BY SubtreesDefined DEF Joining
<1>3. IsStack(rows) /\ Len(rows) = k /\ \A j \in 1 .. k : rows[j] = Subtrees[kids[j]]
  <2> DEFINE T == {Subtrees[kids[j]] : j \in 1 .. k}
  <2>1. rows \in [1 .. k -> T] /\ \A j \in 1 .. k : rows[j] = Subtrees[kids[j]]
    BY <1>1 DEF RowsOf
  <2> HIDE DEF rows, k, T
  <2>2. IsStack(rows) /\ Len(rows) = k
    BY <1>1, <2>1, RowIsStack
  <2> QED
    BY <2>1, <2>2
<1>4. \A j \in 1 .. k : IsStack(rows[j])
  BY <1>1, <1>3
<1> HIDE DEF rows, k
<1>5. PICK O : Offsets(rows, k, O) /\ InRows(rows, O, k, flat)
  BY <1>1, <1>3, <1>4, FlattenedRows
<1>7. IsStack(flat) /\ Len(flat) = O[k]
  BY <1>5 DEF InRows
<1> HIDE DEF flat, all
<1>8. /\ IsStack(all) /\ Len(all) = 1 + O[k] /\ all[1] = n
      /\ \A i \in 1 .. Len(flat) : all[1 + i] = flat[i]
  <2>1. /\ IsStack(<<n>> \o flat) /\ Len(<<n>> \o flat) = 1 + Len(flat) /\ (<<n>> \o flat)[1] = n
        /\ \A i \in 1 .. Len(flat) : (<<n>> \o flat)[1 + i] = flat[i]
    BY <1>7, Prefixed
  <2> QED
    BY <1>2, <1>7, <2>1
<1>9. /\ O \in [0 .. k -> Nat] /\ O[0] = 0
      /\ \A j \in 1 .. k : O[j] = O[j - 1] + Len(rows[j])
  BY <1>5 DEF Offsets
<1>10. ASSUME NEW j \in 1 .. k, NEW q \in 1 .. Len(rows[j])
       PROVE  all[1 + O[j - 1] + q] = rows[j][q]
  <2> DEFINE a == O[j - 1]
             b == O[j]
             x == a + q
  <2>1. Len(rows[j]) \in Nat
    BY <1>4, StackLen
  <2>2. j - 1 \in 0 .. k /\ j \in 0 .. k /\ k \in 0 .. k /\ j <= k
    BY <1>1
  <2>3. a \in Nat /\ b = a + Len(rows[j])
    BY <1>9, <2>2
  <2>4. b \in Nat /\ O[k] \in Nat /\ b <= O[k]
    <3>1. \A i \in 1 .. k : Len(rows[i]) \in Nat
      BY <1>4, StackLen
    <3> QED
      BY <1>1, <1>5, <2>2, <3>1, OffsetsRise
  <2>5. flat[O[j - 1] + q] = rows[j][q]
    BY <1>5 DEF InRows
  <2> HIDE DEF a, b
  <2>6. x \in 1 .. O[k] /\ 1 + x = 1 + a + q
    BY <2>1, <2>3, <2>4
  <2> HIDE DEF x
  <2>7. all[1 + x] = flat[x]
    BY <1>7, <1>8, <2>6
  <2>8. flat[x] = rows[j][q]
    BY <2>5 DEF x, a
  <2> QED
    BY <2>6, <2>7, <2>8 DEF a
<1>11. \A x \in 1 .. O[k] : \E j \in 1 .. k : x \in O[j - 1] + 1 .. O[j]
  BY <1>5 DEF InRows
<1>12. Laid(n, O)
  <2>1. \A j \in 1 .. k : O[j] = O[j - 1] + Len(Subtrees[kids[j]])
    BY <1>3, <1>9
  <2>2. \A j \in 1 .. k : \A q \in 1 .. Len(Subtrees[kids[j]]) : all[1 + O[j - 1] + q] = Subtrees[kids[j]][q]
    BY <1>3, <1>10
  <2> QED
    BY <1>8, <1>9, <1>11, <2>1, <2>2 DEF Laid, k, all
<1> QED
  BY <1>8, <1>12 DEF all

\* The list of the subtree of n has no node twice, none from elsewhere, and the lists of its subtrees
Within(n, F) ==
  \A p \in DOMAIN Subtrees[n] :
    LET m == Subtrees[n][p] IN m # 0 /\ m \in F[n] .. n /\ (p > 1 => IsRule(m))
Distinct(n) == \A p, q \in DOMAIN Subtrees[n] : Subtrees[n][p] = Subtrees[n][q] => p = q
\* The subtree of m is in that of n, after d others
HasSubtree(n, m, d) ==
  /\ IsStack(Subtrees[m]) /\ Len(Subtrees[m]) # 0
  /\ d + Len(Subtrees[m]) <= Len(Subtrees[n])
  /\ \A q \in 1 .. Len(Subtrees[m]) : Subtrees[n][d + q] = Subtrees[m][q]
Spread(n, F) ==
  /\ IsStack(Subtrees[n]) /\ Len(Subtrees[n]) # 0 /\ Subtrees[n][1] = n
  /\ Within(n, F) /\ Distinct(n)
  /\ \A p \in DOMAIN Subtrees[n] : HasSubtree(n, Subtrees[n][p], p - 1)

\* A place in the subtree of n is that of n itself or one in the subtree of a kid
OfKid(n, O, p, j, q) ==
  LET kid == TreeKids(n)[j] IN
  /\ j \in 1 .. Len(TreeKids(n)) /\ q \in 1 .. Len(Subtrees[kid])
  /\ p = 1 + O[j - 1] + q /\ O[j - 1] \in Nat
  /\ 1 + O[j - 1] + Len(Subtrees[kid]) <= Len(Subtrees[n])
  /\ \A x \in 1 .. Len(Subtrees[kid]) : Subtrees[n][1 + O[j - 1] + x] = Subtrees[kid][x]
  /\ Subtrees[n][p] = Subtrees[kid][q]

LEMMA PlacesInside ==
  ASSUME NEW n, IsStack(TreeKids(n)), \A j \in DOMAIN TreeKids(n) : IsStack(Subtrees[TreeKids(n)[j]]),
         NEW O, Laid(n, O), NEW p \in 2 .. Len(Subtrees[n])
  PROVE  \E j, q : OfKid(n, O, p, j, q)
<1> DEFINE kids == TreeKids(n)
           k == Len(kids)
           rows == [j \in 1 .. k |-> Subtrees[kids[j]]]
           l == Len(Subtrees[n])
<1>1. k \in Nat /\ DOMAIN kids = 1 .. k
  BY StackLen
<1>2. /\ O \in [0 .. k -> Nat] /\ O[0] = 0
      /\ \A j \in 1 .. k : O[j] = O[j - 1] + Len(Subtrees[kids[j]])
      /\ l = 1 + O[k]
      /\ \A j \in 1 .. k : \A q \in 1 .. Len(Subtrees[kids[j]]) :
           Subtrees[n][1 + O[j - 1] + q] = Subtrees[kids[j]][q]
      /\ \A x \in 1 .. O[k] : \E j \in 1 .. k : x \in O[j - 1] + 1 .. O[j]
  BY DEF Laid
<1>3. Offsets(rows, k, O) /\ \A j \in 1 .. k : Len(rows[j]) \in Nat
  <2>1. \A j \in 1 .. k : rows[j] = Subtrees[kids[j]] /\ IsStack(rows[j])
    BY <1>1
  <2> HIDE DEF rows
  <2>2. \A j \in 1 .. k : Len(rows[j]) \in Nat
    BY <2>1, StackLen
  <2>3. \A j \in 1 .. k : O[j] = O[j - 1] + Len(rows[j])
    BY <1>2, <2>1
  <2> QED
    BY <1>2, <2>2, <2>3 DEF Offsets
<1> HIDE DEF k, l
<1>4. k \in 0 .. k /\ O[k] \in Nat
  BY <1>1, <1>2
<1>5. p - 1 \in 1 .. O[k] /\ p \in Nat
  BY <1>2, <1>4 DEF l
<1>6. PICK j \in 1 .. k : p - 1 \in O[j - 1] + 1 .. O[j]
  BY <1>2, <1>5
<1> DEFINE a == O[j - 1]
           b == O[j]
           w == Len(Subtrees[kids[j]])
           q == p - 1 - a
<1>7. j - 1 \in 0 .. k /\ j \in 0 .. k /\ j <= k
  BY <1>1
<1>8. b \in Nat /\ b <= O[k]
  BY <1>1, <1>3, <1>4, <1>7, OffsetsRise
<1>9. a \in Nat /\ b = a + w /\ w \in Nat
  <2>1. w \in Nat
    BY <1>1, StackLen
  <2> QED
    BY <1>2, <1>7, <2>1
<1>10. p - 1 \in a + 1 .. b
  BY <1>6
<1> HIDE DEF a, b, w
<1>11. q \in 1 .. w /\ p = 1 + a + q /\ 1 + a + w <= l
  BY <1>2, <1>4, <1>5, <1>8, <1>9, <1>10
<1>12. \A x \in 1 .. w : Subtrees[n][1 + a + x] = Subtrees[kids[j]][x]
  BY <1>2 DEF a, w
<1> HIDE DEF q
<1>13. Subtrees[n][p] = Subtrees[kids[j]][q]
  BY <1>11, <1>12
<1>14. OfKid(n, O, p, j, q)
  BY <1>9, <1>11, <1>12, <1>13 DEF OfKid, a, w, k, l
<1> QED
  BY <1>14

LEMMA SpreadStep ==
  ASSUME NEW F, TreeFits(nodes, F, tokens), NEW n \in 1 .. Len(nodes),
         \A j \in DOMAIN TreeKids(n) : Spread(TreeKids(n)[j], F)
  PROVE  Spread(n, F)
<1> DEFINE kids == TreeKids(n)
           s == Subtrees[n]
           l == Len(s)
<1>1. /\ IsStack(kids) /\ DOMAIN kids = 1 .. Len(kids)
      /\ \A j \in DOMAIN kids : kids[j] \in 1 .. n - 1 /\ F[n] <= F[kids[j]] /\ IsRule(kids[j])
      /\ \A i, j \in DOMAIN kids : i < j => kids[i] < F[kids[j]]
  BY TreeKidsFit, StackLen DEF Row
<1>2. F \in [1 .. Len(nodes) -> Nat] /\ Len(nodes) \in Nat /\ F[n] <= n /\ F[n] \in Nat /\ n \in Nat
  BY StackLen DEF TreeFits, NodeFits
<1>3. \A j \in DOMAIN kids : IsStack(Subtrees[kids[j]])
  BY DEF Spread
<1>4. IsStack(s) /\ s[1] = n /\ \E O : Laid(n, O)
  BY <1>3, LaidOut
<1>5. PICK O : Laid(n, O)
  BY <1>4
<1>6. l \in Nat /\ DOMAIN s = 1 .. l
  BY <1>4, StackLen
<1>7. l # 0 /\ 1 \in 1 .. l
  <2>1. l = 1 + O[Len(kids)] /\ O[Len(kids)] \in Nat
    <3>1. Len(kids) \in 0 .. Len(kids)
      BY <1>1, StackLen
    <3> QED
      BY <1>5, <3>1 DEF Laid
  <2> HIDE DEF l
  <2> QED
    BY <2>1
<1>8. ASSUME NEW p \in 2 .. l PROVE \E j, q : OfKid(n, O, p, j, q)
  BY <1>1, <1>3, <1>5, PlacesInside
<1>9. \A p \in 1 .. l : p = 1 \/ p \in 2 .. l
  BY <1>6
<1> HIDE DEF l
<1>10. ASSUME NEW p, NEW j, NEW q, OfKid(n, O, p, j, q)
       PROVE  /\ kids[j] \in 1 .. n - 1 /\ s[p] \in F[kids[j]] .. kids[j] /\ IsRule(s[p])
              /\ s[p] \in F[n] .. n /\ s[p] < n /\ s[p] # 0 /\ j \in DOMAIN kids
              /\ Spread(kids[j], F) /\ q \in DOMAIN Subtrees[kids[j]] /\ s[p] = Subtrees[kids[j]][q]
  <2> DEFINE kid == kids[j]
  <2>1. j \in DOMAIN kids /\ q \in 1 .. Len(Subtrees[kid]) /\ s[p] = Subtrees[kid][q]
    BY <1>1, <1>10 DEF OfKid
  <2>2. kid \in 1 .. n - 1 /\ F[n] <= F[kid] /\ IsRule(kid) /\ Spread(kid, F)
    BY <1>1, <2>1
  <2>3. /\ IsStack(Subtrees[kid]) /\ Subtrees[kid][1] = kid
        /\ DOMAIN Subtrees[kid] = 1 .. Len(Subtrees[kid])
        /\ Within(kid, F)
    BY <2>2, StackLen DEF Spread
  <2> HIDE DEF kid, kids, s
  <2>4. s[p] # 0 /\ s[p] \in F[kid] .. kid /\ (q > 1 => IsRule(s[p]))
    BY <2>1, <2>3 DEF Within
  <2>5. IsRule(s[p])
    <3>1. CASE q > 1
      BY <2>4, <3>1
    <3>2. CASE ~(q > 1)
      <4>1. q = 1
        BY <2>1, <3>2
      <4> QED
        BY <2>1, <2>2, <2>3, <4>1
    <3> QED
      BY <3>1, <3>2
  <2>6. s[p] \in F[n] .. n /\ s[p] < n
    <3>1. kid \in 1 .. Len(nodes) /\ F[kid] \in Nat
      BY <1>2, <2>2
    <3> QED
      BY <1>2, <2>2, <2>4, <3>1
  <2> QED
    BY <2>1, <2>2, <2>3, <2>4, <2>5, <2>6 DEF kid
<1>11. ASSUME NEW p \in 2 .. l PROVE s[p] # 0 /\ s[p] \in F[n] .. n /\ s[p] < n /\ IsRule(s[p])
  BY <1>8, <1>10
<1>12. Within(n, F)
  <2>1. n # 0 /\ n \in F[n] .. n
    BY <1>2
  <2>2. \A p \in 1 .. l : p > 1 => p # 1
    BY <1>6
  <2> QED
    BY <1>4, <1>6, <1>9, <1>11, <2>1, <2>2 DEF Within, s
<1>13. ASSUME NEW p \in 1 .. l, NEW x \in 1 .. l, s[p] = s[x] PROVE p = x
  <2>1. CASE p = 1 \/ x = 1
    <3>1. ~(n < n)
      BY <1>2
    <3> QED
      BY <1>4, <1>9, <1>11, <1>13, <2>1, <3>1
  <2>2. CASE ~(p = 1 \/ x = 1)
    <3>1. p \in 2 .. l /\ x \in 2 .. l
      BY <1>9, <2>2
    <3>2. PICK i, q : OfKid(n, O, p, i, q)
      BY <1>8, <3>1
    <3>3. PICK j, r : OfKid(n, O, x, j, r)
      BY <1>8, <3>1
    <3>4. ASSUME NEW c \in DOMAIN kids, NEW d \in DOMAIN kids, c < d,
                 s[p] \in F[kids[c]] .. kids[c], s[p] \in F[kids[d]] .. kids[d]
          PROVE  FALSE
      <4> DEFINE u == kids[c]
                 v == kids[d]
                 y == s[p]
      <4>1. u \in 1 .. Len(nodes) /\ v \in 1 .. Len(nodes) /\ u < F[v]
        BY <1>1, <1>2, <3>4
      <4>2. F[u] \in Nat /\ F[v] \in Nat /\ y \in F[u] .. u /\ y \in F[v] .. v
        BY <1>2, <3>4, <4>1
      <4> HIDE DEF u, v, y
      <4> QED
        BY <4>1, <4>2
    <3>5. /\ s[p] \in F[kids[i]] .. kids[i] /\ i \in DOMAIN kids
          /\ Spread(kids[i], F) /\ q \in DOMAIN Subtrees[kids[i]] /\ s[p] = Subtrees[kids[i]][q]
      BY <1>10, <3>2
    <3>6. /\ s[x] \in F[kids[j]] .. kids[j] /\ j \in DOMAIN kids
          /\ r \in DOMAIN Subtrees[kids[j]] /\ s[x] = Subtrees[kids[j]][r]
      BY <1>10, <3>3
    <3>7. i = j
      <4>1. ~(i < j) /\ ~(j < i)
        BY <1>13, <3>4, <3>5, <3>6
      <4>2. i \in Nat /\ j \in Nat
        BY <1>1, <3>5, <3>6
      <4> QED
        BY <4>1, <4>2
    <3>8. q = r
      BY <1>13, <3>5, <3>6, <3>7 DEF Spread, Distinct
    <3> QED
      BY <3>2, <3>3, <3>7, <3>8 DEF OfKid
  <2> QED
    BY <2>1, <2>2
<1>14. Distinct(n)
  BY <1>6, <1>13 DEF Distinct, s
<1>15. HasSubtree(n, n, 0)
  <2>1. \A q \in 1 .. l : 0 + q = q
    BY <1>6
  <2>2. 0 + l <= l
    BY <1>6
  <2> QED
    BY <1>4, <1>7, <2>1, <2>2 DEF HasSubtree, l, s
<1>16. ASSUME NEW p \in 2 .. l PROVE HasSubtree(n, s[p], p - 1)
  <2>1. PICK j, q : OfKid(n, O, p, j, q)
    BY <1>8
  <2> DEFINE kid == kids[j]
             m == s[p]
             t == Subtrees[kid]
             u == Subtrees[m]
             a == O[j - 1]
             d == p - 1
             e == q - 1
  <2>2. Spread(kid, F) /\ q \in DOMAIN t /\ m = t[q]
    BY <1>10, <2>1
  <2>3. /\ p = 1 + a + q /\ a \in Nat /\ 1 + a + Len(t) <= l
        /\ \A x \in 1 .. Len(t) : s[1 + a + x] = t[x]
    BY <2>1 DEF OfKid, l
  <2>4. HasSubtree(kid, m, q - 1) /\ IsStack(t)
    BY <2>2 DEF Spread
  <2>5. q \in 1 .. Len(t) /\ Len(t) \in Nat
    BY <2>2, <2>4, StackLen
  <2>6. /\ IsStack(u) /\ Len(u) # 0 /\ e + Len(u) <= Len(t)
        /\ \A x \in 1 .. Len(u) : t[e + x] = u[x]
    BY <2>4 DEF HasSubtree
  <2>7. Len(u) \in Nat
    BY <2>6, StackLen
  <2>8. e \in Nat /\ q = e + 1
    BY <2>5
  <2> HIDE DEF kid, m, t, u, a, e, s
  <2>9. d = a + q /\ d \in Nat
    BY <2>3, <2>5
  <2>10. d + Len(u) <= l
    BY <1>6, <2>3, <2>5, <2>6, <2>7, <2>8, <2>9
  <2> HIDE DEF d
  <2>11. ASSUME NEW x \in 1 .. Len(u) PROVE s[d + x] = u[x]
    <3> DEFINE y == e + x
    <3>1. y \in 1 .. Len(t) /\ d + x = 1 + a + y
      BY <2>3, <2>5, <2>6, <2>7, <2>8, <2>9
    <3>2. t[y] = u[x]
      BY <2>6
    <3> HIDE DEF y
    <3>3. s[1 + a + y] = t[y]
      BY <2>3, <3>1
    <3> QED
      BY <3>1, <3>2, <3>3
  <2>12. HasSubtree(n, m, d)
    BY <2>6, <2>10, <2>11 DEF HasSubtree, u, l, s
  <2> QED
    BY <2>12 DEF m, d
<1>17. \A p \in DOMAIN s : HasSubtree(n, s[p], p - 1)
  <2>1. 1 - 1 = 0
    OBVIOUS
  <2>2. \A p \in 1 .. l : HasSubtree(n, s[p], p - 1)
    BY <1>4, <1>9, <1>15, <1>16, <2>1
  <2> QED
    BY <1>6, <2>2
<1> QED
  BY <1>4, <1>7, <1>12, <1>14, <1>17 DEF Spread, l

LEMMA SubtreesSpread ==
  ASSUME NEW F, TreeFits(nodes, F, tokens)
  PROVE  \A n \in 1 .. Len(nodes) : Spread(n, F)
<1> DEFINE l == Len(nodes)
           Odd == {n \in 1 .. l : ~Spread(n, F)}
<1>1. l \in Nat
  BY StackLen DEF TreeFits
<1> SUFFICES ASSUME Odd # {} PROVE FALSE
  OBVIOUS
<1>2. PICK n \in Odd : \A k \in Odd : n <= k
  <2>1. Odd \subseteq Nat
    BY <1>1
  <2> HIDE DEF Odd
  <2> QED
    BY <2>1, Least
<1>3. n \in 1 .. l /\ ~Spread(n, F)
  BY <1>2
<1>4. ASSUME NEW j \in DOMAIN TreeKids(n) PROVE Spread(TreeKids(n)[j], F)
  <2> DEFINE k == TreeKids(n)[j]
  <2>1. k \in 1 .. n - 1
    BY <1>3, TreeKidsFit DEF Row
  <2> HIDE DEF k
  <2>2. k \in 1 .. l /\ ~(n <= k)
    BY <1>1, <1>3, <2>1
  <2>3. Spread(k, F)
    BY <1>2, <2>2
  <2> QED
    BY <2>3 DEF k
<1> QED
  BY <1>3, <1>4, SpreadStep

-----------------------------------------------------------------------------
(***************************************************************************)
(* The label and the children of a node                                    *)
(***************************************************************************)
TokensNamed ==
  \A i \in DOMAIN tokens : tokens[i].token = "Identifier" => NameOf(tokens[i].units) \in Names

\* What the compiler relies on of the label and of the number of children
Labelled(label, kids) ==
  /\ label \in C!Label
  /\ label.kind \in C!ValueKinds \cup C!ReferenceKinds \cup {"variable"} => kids = <<>>
  /\ label.kind \in C!LookaroundKinds \cup C!ModeKinds \cup {"repetition"} => Len(kids) = 1
  /\ label.kind = "let" => Len(kids) = 2
  /\ label.kind = "capture" => label.tag \in Names \cup {C!NoName}
  /\ label.kind \in {"let", "refName"} => label.tag \in Names

LEMMA LabelIs ==
  ASSUME NEW kind, NEW tag, NEW num \in Int, NEW kids, kind \in C!Kinds, tag \in C!AnyTag,
         kind \in C!ValueKinds \cup C!ReferenceKinds \cup {"variable"} => kids = <<>>,
         kind \in C!LookaroundKinds \cup C!ModeKinds \cup {"repetition"} => Len(kids) = 1,
         kind = "let" => Len(kids) = 2,
         kind = "capture" => tag \in Names \cup {C!NoName},
         kind \in {"let", "refName"} => tag \in Names
  PROVE  Labelled(Label(kind, tag, num), kids)
<1> DEFINE label == Label(kind, tag, num)
<1>1. label \in C!Label /\ label.kind = kind /\ label.tag = tag
  BY DEF Label, C!Label
<1> HIDE DEF label
<1>2. Labelled(label, kids)
  BY <1>1 DEF Labelled
<1> QED
  BY <1>2 DEF label

LEMMA NamesOf ==
  ASSUME TokensNamed, NEW units, units = <<>> \/ IsName(tokens, units)
  PROVE  NameOf(units) \in Names \cup {C!NoName} /\ (IsName(tokens, units) => NameOf(units) \in Names)
<1>1. IsName(tokens, units) => NameOf(units) \in Names
  BY DEF IsName, TokensNamed
<1>2. units = <<>> => NameOf(units) = C!NoName
  BY Zenon DEF NameOf
<1> QED
  BY <1>1, <1>2

LEMMA NoNameIs == C!NoName \in C!AnyTag /\ Names \subseteq C!AnyTag /\ {"Greedy", "Lazy", "Default"} \subseteq C!AnyTag
<1> QED
  BY DEF C!AnyTag, C!Quantifiers

LEMMA GroupKindIs ==
  ASSUME NEW kind \in {"Normal", "Capturing", "Atomic"}
  PROVE  GroupKinds[kind] \in C!GroupKinds
<1> DEFINE pairs == {<<"Normal", "group">>, <<"Capturing", "capture">>, <<"Atomic", "atomic">>}
<1>1. DOMAIN GroupKinds = {p[1] : p \in pairs}
  BY DEF GroupKinds, Table
<1>2. kind \in {p[1] : p \in pairs}
  OBVIOUS
<1>3. GroupKinds[kind] = (CHOOSE p \in pairs : p[1] = kind)[2]
  BY <1>2 DEF GroupKinds, Table
<1>4. \A p \in pairs : p[2] \in C!GroupKinds
  BY DEF C!GroupKinds
<1> HIDE DEF pairs
<1>5. (CHOOSE p \in pairs : p[1] = kind) \in pairs
  BY <1>2
<1> QED
  BY <1>3, <1>4, <1>5

LEMMA ReferenceKindIs ==
  ASSUME NEW kind \in {"Number", "Relative"}
  PROVE  ReferenceKinds[kind] \in {"refNumber", "refRelative"}
<1> DEFINE pairs == {<<"Number", "refNumber">>, <<"Relative", "refRelative">>}
<1>2. kind \in {p[1] : p \in pairs}
  OBVIOUS
<1>3. ReferenceKinds[kind] = (CHOOSE p \in pairs : p[1] = kind)[2]
  BY <1>2 DEF ReferenceKinds, Table
<1>4. \A p \in pairs : p[2] \in {"refNumber", "refRelative"}
  OBVIOUS
<1> HIDE DEF pairs
<1>5. (CHOOSE p \in pairs : p[1] = kind) \in pairs
  BY <1>2
<1> QED
  BY <1>3, <1>4, <1>5

LEMMA LookaroundKindIs ==
  ASSUME NEW kind \in {"Ahead", "Behind"}
  PROVE  LookaroundKinds[kind] \in C!LookaroundKinds
<1> DEFINE pairs == {<<"Ahead", "lookahead">>, <<"Behind", "lookbehind">>}
<1>2. kind \in {p[1] : p \in pairs}
  OBVIOUS
<1>3. LookaroundKinds[kind] = (CHOOSE p \in pairs : p[1] = kind)[2]
  BY <1>2 DEF LookaroundKinds, Table
<1>4. \A p \in pairs : p[2] \in C!LookaroundKinds
  BY DEF C!LookaroundKinds
<1> HIDE DEF pairs
<1>5. (CHOOSE p \in pairs : p[1] = kind) \in pairs
  BY <1>2
<1> QED
  BY <1>3, <1>4, <1>5

LEMMA TreeLabelIs ==
  ASSUME NEW n
  PROVE  LET kind == nodes[n].kind
             value == nodes[n].value IN
         /\ kind \in {"literal", "regex"} => TreeLabel(n) = Label(kind, C!NoName, Len(value))
         /\ kind = "class" => \E x \in {0, 1} : TreeLabel(n) = Label("class", C!NoName, x)
         /\ kind = "range" => TreeLabel(n) = Label("range", C!NoName, Len(value[2]))
         /\ kind = "group" => TreeLabel(n) = Label(GroupKinds[value[1]], NameOf(value[2]), 0)
         /\ kind = "sequence" => TreeLabel(n) = Plain("group")
         /\ kind = "lookaround" => TreeLabel(n) = Plain(LookaroundKinds[value[1]])
         /\ kind = "reference" =>
              /\ value[1] = "Named" => TreeLabel(n) = Label("refName", NameOf(value[2]), 0)
              /\ value[1] # "Named" => TreeLabel(n) = Label(ReferenceKinds[value[1]], C!NoName, value[2])
         /\ kind = "repetition" => TreeLabel(n) = Label("repetition", value[3], 0)
         /\ kind = "variable" => TreeLabel(n) = Label("variable", NameOf(value[1]), 0)
         /\ kind = "stmt" =>
              /\ Statement(n).kind = "let" => TreeLabel(n) = Label("let", NameOf(Statement(n).value[1]), 0)
              /\ Statement(n).kind # "let" => TreeLabel(n) = Plain(Statement(n).kind)
         /\ kind \in {"alternation", "boundary", "dot"} => TreeLabel(n) = Plain(kind)
<1> DEFINE kind == nodes[n].kind
<1>1. kind = "literal" => TreeLabel(n) = Label(kind, C!NoName, Len(nodes[n].value))
  BY DEF TreeLabel
<1> QED
  BY DEF TreeLabel

\* The parts of a statement
LEMMA StatementOf ==
  ASSUME NEW F, TreeFits(nodes, F, tokens), NEW n \in 1 .. Len(nodes), nodes[n].kind = "stmt"
  PROVE  /\ Statement(n).kind \in StatementKinds
         /\ Statement(n).kind = "let" => IsName(tokens, Statement(n).value[1])
         /\ Len(TreeKids(n)) = IF Statement(n).kind = "let" THEN 2 ELSE 1
<1> DEFINE x == nodes[n]
           s == x.kids[1]
           r == x.kids[2]
           kids == nodes[s].kids
<1>1. Len(nodes) \in Nat /\ \A i \in 1 .. Len(nodes) : NodeFits(nodes, i, F, tokens)
  BY StackLen DEF TreeFits
<1>2. Shape(x, tokens) /\ Row(x.kids, n - 1, F) /\ Parts(x, x.kids, nodes)
  BY <1>1 DEF NodeFits
<1>3. DOMAIN x.kids = 1 .. 2
  BY <1>2, StackLen DEF Shape, Spans, Row
<1>4. s \in 1 .. n - 1 /\ nodes[s].kind \in StatementKinds
  BY <1>2, <1>3 DEF Row, Parts
<1> HIDE DEF x, s
<1>5. s \in 1 .. Len(nodes)
  BY <1>1, <1>4
<1>6. Shape(nodes[s], tokens) /\ IsStack(kids)
  BY <1>1, <1>5 DEF NodeFits, Row
<1>7. Statement(n) = nodes[s]
  BY DEF Statement, s, x
<1>8. Statement(n).kind = "let" => IsName(tokens, Statement(n).value[1])
  BY <1>6, <1>7 DEF Shape, Holds
<1>9. Len(kids) = IF nodes[s].kind = "let" THEN 1 ELSE 0
  <2>1. nodes[s].kind # "let" => nodes[s].kind \in ModeWords
    BY <1>4 DEF StatementKinds
  <2>2. nodes[s].kind = "let" => Len(kids) = 1
    BY <1>6 DEF Shape, Spans
  <2>3. nodes[s].kind \in ModeWords => Len(kids) = 0
    BY <1>6, EmptyStack DEF Shape, Spans
  <2> QED
    BY <2>1, <2>2, <2>3
<1>10. TreeKids(n) = kids \o <<r>>
  BY <1>7 DEF TreeKids, Statement, x, s
<1>11. Len(TreeKids(n)) = Len(kids) + 1
  <2> HIDE DEF kids, r
  <2> DEFINE t == <<r>>
  <2>1. IsStack(t) /\ Len(t) = 1
    BY Single
  <2> HIDE DEF t
  <2>2. Len(kids \o t) = Len(kids) + Len(t)
    BY <1>6, <2>1, Concatenated
  <2> QED
    BY <1>10, <2>1, <2>2 DEF t
<1> QED
  BY <1>4, <1>7, <1>8, <1>9, <1>11

LEMMA LabelFits ==
  ASSUME NEW F, TreeFits(nodes, F, tokens), TokensNamed, NEW n \in 1 .. Len(nodes), IsRule(n)
  PROVE  Labelled(TreeLabel(n), TreeKids(n))
<1> DEFINE x == nodes[n]
           kind == x.kind
           value == x.value
           kids == TreeKids(n)
<1> SUFFICES Labelled(TreeLabel(n), kids)
  OBVIOUS
<1>1. Shape(x, tokens)
  BY DEF TreeFits, NodeFits
<1>2. kind \in RuleKinds /\ Holds(kind, value, tokens) /\ Spans(kind, x.kids)
  BY <1>1 DEF Shape, IsRule
<1>3. kind # "stmt" => kids = x.kids
  BY DEF TreeKids
<1>4. ASSUME NEW k \in C!Kinds, TreeLabel(n) = Plain(k),
             k \in C!ValueKinds => kids = <<>>,
             k \in C!LookaroundKinds \cup C!ModeKinds => Len(kids) = 1,
             k \notin C!ReferenceKinds \cup {"variable", "repetition", "let", "capture"}
      PROVE  Labelled(TreeLabel(n), kids)
  <2> HIDE DEF kids
  <2>1. k # "refName"
    BY <1>4 DEF C!ReferenceKinds
  <2> QED
    BY <1>4, <2>1, NoNameIs, LabelIs DEF Plain
<1>5. CASE kind \in {"literal", "regex"}
  <2>1. kids = <<>> /\ Len(value) \in Int
    BY <1>2, <1>3, <1>5 DEF Holds, Spans, LeafKinds
  <2>2. kind \in C!Kinds /\ kind \in C!ValueKinds
    BY <1>5 DEF C!Kinds, C!ValueKinds
  <2>3. TreeLabel(n) = Label(kind, C!NoName, Len(value))
    BY <1>5, TreeLabelIs
  <2> HIDE DEF kids, kind, value
  <2> QED
    BY <1>5, <2>1, <2>2, <2>3, NoNameIs, LabelIs DEF C!LookaroundKinds, C!ModeKinds
<1>6. CASE kind = "class"
  <2>1. kids = <<>>
    BY <1>2, <1>3, <1>6 DEF Spans, LeafKinds
  <2>2. PICK y \in {0, 1} : TreeLabel(n) = Label("class", C!NoName, y)
    BY <1>6, TreeLabelIs
  <2>3. "class" \in C!Kinds /\ y \in Int
    BY DEF C!Kinds, C!ValueKinds
  <2> HIDE DEF kids, kind, value
  <2> QED
    BY <2>1, <2>2, <2>3, NoNameIs, LabelIs DEF C!LookaroundKinds, C!ModeKinds
<1>7. CASE kind = "range"
  <2>1. kids = <<>> /\ Len(value[2]) \in Int
    BY <1>2, <1>3, <1>7 DEF Holds, Spans, LeafKinds
  <2>2. "range" \in C!Kinds
    BY DEF C!Kinds, C!ValueKinds
  <2>3. TreeLabel(n) = Label("range", C!NoName, Len(value[2]))
    BY <1>7, TreeLabelIs
  <2> HIDE DEF kids, kind, value
  <2> QED
    BY <2>1, <2>2, <2>3, NoNameIs, LabelIs DEF C!LookaroundKinds, C!ModeKinds
<1>8. CASE kind = "reference"
  <2>1. kids = <<>> /\ IsReference(tokens, value)
    BY <1>2, <1>3, <1>8 DEF Holds, Spans, LeafKinds
  <2>2. CASE value[1] = "Named" /\ IsName(tokens, value[2])
    <3>1. NameOf(value[2]) \in Names
      BY <2>2, NamesOf
    <3>2. TreeLabel(n) = Label("refName", NameOf(value[2]), 0)
      BY <1>8, <2>2, TreeLabelIs
    <3>3. "refName" \in C!Kinds
      BY DEF C!Kinds, C!ReferenceKinds
    <3> HIDE DEF kids, kind, value
    <3> QED
      BY <2>1, <3>1, <3>2, <3>3, NoNameIs, LabelIs DEF C!LookaroundKinds, C!ModeKinds
  <2>3. CASE value[1] \in {"Number", "Relative"} /\ value[2] \in Int
    <3> DEFINE k == ReferenceKinds[value[1]]
    <3>1. k \in {"refNumber", "refRelative"}
      BY <2>3, ReferenceKindIs
    <3>2. TreeLabel(n) = Label(k, C!NoName, value[2])
      BY <1>8, <2>3, TreeLabelIs
    <3> HIDE DEF kids, kind, value, k
    <3>3. k \in C!Kinds
      BY <3>1 DEF C!Kinds, C!ReferenceKinds
    <3> QED
      BY <2>1, <2>3, <3>1, <3>2, <3>3, NoNameIs, LabelIs DEF C!LookaroundKinds, C!ModeKinds
  <2> QED
    BY <2>1, <2>2, <2>3 DEF IsReference
<1>9. CASE kind = "variable"
  <2>1. kids = <<>> /\ NameOf(value[1]) \in Names
    <3>1. IsName(tokens, value[1])
      BY <1>2, <1>9 DEF Holds
    <3> QED
      BY <1>2, <1>3, <1>9, <3>1, NamesOf DEF Spans, LeafKinds
  <2>2. "variable" \in C!Kinds
    BY DEF C!Kinds
  <2>3. TreeLabel(n) = Label("variable", NameOf(value[1]), 0)
    BY <1>9, TreeLabelIs
  <2> HIDE DEF kids, kind, value
  <2> QED
    BY <2>1, <2>2, <2>3, NoNameIs, LabelIs DEF C!LookaroundKinds, C!ModeKinds
<1>10. CASE kind \in {"boundary", "dot"}
  <2>1. kids = <<>>
    BY <1>2, <1>3, <1>10 DEF Spans, LeafKinds
  <2>2. TreeLabel(n) = Plain(kind)
    BY <1>10, TreeLabelIs
  <2> HIDE DEF kids, value
  <2> QED
    BY <1>4, <1>10, <2>1, <2>2 DEF C!Kinds, C!ValueKinds, C!LookaroundKinds, C!ModeKinds, C!ReferenceKinds
<1>11. CASE kind = "alternation"
  <2>1. TreeLabel(n) = Plain(kind)
    BY <1>11, TreeLabelIs
  <2> HIDE DEF kids, value
  <2> QED
    BY <1>4, <1>11, <2>1 DEF C!Kinds, C!ValueKinds, C!LookaroundKinds, C!ModeKinds, C!ReferenceKinds
<1>12. CASE kind = "sequence"
  <2>1. TreeLabel(n) = Plain("group")
    BY <1>12, TreeLabelIs
  <2> HIDE DEF kids, value, kind
  <2> QED
    BY <1>4, <2>1 DEF C!Kinds, C!GroupKinds, C!ValueKinds, C!LookaroundKinds, C!ModeKinds, C!ReferenceKinds
<1>13. CASE kind = "lookaround"
  <2> DEFINE k == LookaroundKinds[value[1]]
  <2>1. Len(kids) = 1 /\ k \in C!LookaroundKinds
    <3>1. value[1] \in {"Ahead", "Behind"}
      BY <1>2, <1>13 DEF Holds, IsLookaroundTag
    <3> QED
      BY <1>2, <1>3, <1>13, <3>1, LookaroundKindIs DEF Spans
  <2>2. TreeLabel(n) = Plain(k)
    BY <1>13, TreeLabelIs
  <2> HIDE DEF kids, value, kind, k
  <2> QED
    BY <1>4, <2>1, <2>2 DEF C!Kinds, C!ValueKinds, C!LookaroundKinds, C!ModeKinds, C!ReferenceKinds
<1>14. CASE kind = "repetition"
  <2>1. Len(kids) = 1 /\ value[3] \in {"Greedy", "Lazy", "Default"}
    BY <1>2, <1>3, <1>14 DEF Holds, Spans
  <2>2. "repetition" \in C!Kinds
    BY DEF C!Kinds
  <2>3. TreeLabel(n) = Label("repetition", value[3], 0)
    BY <1>14, TreeLabelIs
  <2> HIDE DEF kids, kind, value
  <2>4. value[3] \in C!AnyTag
    BY <2>1, NoNameIs
  <2> QED
    BY <2>1, <2>2, <2>3, <2>4, LabelIs DEF C!ValueKinds, C!ReferenceKinds
<1>15. CASE kind = "group"
  <2> DEFINE k == GroupKinds[value[1]]
             tag == NameOf(value[2])
  <2>1. k \in C!GroupKinds /\ tag \in Names \cup {C!NoName}
    <3>1. value[1] \in {"Normal", "Capturing", "Atomic"} /\ (value[2] = <<>> \/ IsName(tokens, value[2]))
      BY <1>2, <1>15 DEF Holds, IsGroupTag
    <3>2. k \in C!GroupKinds
      BY <3>1, GroupKindIs
    <3>3. tag \in Names \cup {C!NoName}
      BY <3>1, NamesOf
    <3> QED
      BY <3>2, <3>3
  <2>2. TreeLabel(n) = Label(k, tag, 0)
    BY <1>15, TreeLabelIs
  <2> HIDE DEF kids, kind, value, k, tag
  <2>3. k \in C!Kinds /\ tag \in C!AnyTag
    BY <2>1, NoNameIs DEF C!Kinds
  <2>4. k \notin C!ValueKinds \cup C!ReferenceKinds \cup {"variable", "let", "refName", "repetition"} \cup C!LookaroundKinds \cup C!ModeKinds
    BY <2>1 DEF C!GroupKinds, C!ValueKinds, C!LookaroundKinds, C!ModeKinds, C!ReferenceKinds
  <2> QED
    BY <2>1, <2>2, <2>3, <2>4, LabelIs
<1>16. CASE kind = "stmt"
  <2> DEFINE k == Statement(n).kind
             tag == NameOf(Statement(n).value[1])
  <2>1. /\ k \in StatementKinds /\ (k = "let" => IsName(tokens, Statement(n).value[1]))
        /\ Len(kids) = IF k = "let" THEN 2 ELSE 1
    BY <1>16, StatementOf
  <2>2. CASE k = "let"
    <3>1. TreeLabel(n) = Label("let", tag, 0) /\ Len(kids) = 2 /\ tag \in Names
      BY <1>16, <2>1, <2>2, TreeLabelIs, NamesOf
    <3> HIDE DEF kids, kind, value, k, tag
    <3>2. "let" \in C!Kinds /\ tag \in C!AnyTag
      BY <3>1, NoNameIs DEF C!Kinds
    <3> QED
      BY <3>1, <3>2, LabelIs DEF C!ValueKinds, C!LookaroundKinds, C!ModeKinds, C!ReferenceKinds
  <2>3. CASE k # "let"
    <3>1. TreeLabel(n) = Plain(k) /\ Len(kids) = 1 /\ k \in ModeWords
      BY <1>16, <2>1, <2>3, TreeLabelIs DEF StatementKinds
    <3> HIDE DEF kids, kind, value, k, tag
    <3> QED
      BY <1>4, <3>1 DEF ModeWords, C!Kinds, C!ValueKinds, C!LookaroundKinds, C!ModeKinds, C!ReferenceKinds
  <2> QED
    BY <2>2, <2>3
<1> QED
  BY <1>2, <1>5, <1>6, <1>7, <1>8, <1>9, <1>10, <1>11, <1>12, <1>13, <1>14, <1>15, <1>16
     DEF RuleKinds, LeafKinds

-----------------------------------------------------------------------------
(***************************************************************************)
(* The nodes are numbered in the order of the list                         *)
(***************************************************************************)
Numbering(order, n) == SelectInSeq(order, LAMBDA m : m = n)

LEMMA NumberIs ==
  ASSUME NEW root, IsStack(Subtrees[root]), Distinct(root), NEW p \in DOMAIN Subtrees[root]
  PROVE  Numbering(Subtrees[root], Subtrees[root][p]) = p
<1> DEFINE order == Subtrees[root]
           I == {i \in 1 .. Len(order) : order[i] = order[p]}
<1>1. Len(order) \in Nat /\ DOMAIN order = 1 .. Len(order) /\ p \in 1 .. Len(order)
  BY StackLen
<1>2. I = {p}
  <2>1. \A i \in 1 .. Len(order) : order[i] = order[p] => i = p
    BY <1>1 DEF Distinct
  <2> HIDE DEF order
  <2> QED
    BY <1>1, <2>1
<1>3. Numbering(order, order[p]) = Min(I)
  <2>1. I # {}
    BY <1>2
  <2> QED
    BY <2>1 DEF Numbering, SelectInSeq
<1>4. Min({p}) = p
  <2>1. {p} \subseteq Nat /\ {p} # {}
    BY <1>1
  <2> QED
    BY <2>1, Least
<1> HIDE DEF I
<1> QED
  BY <1>2, <1>3, <1>4

\* The program as a table over the places in the list
LEMMA ProgramIs ==
  ASSUME NEW root
  PROVE  LET p == Program(root)
             order == Subtrees[root] IN
         /\ p.size = Len(order)
         /\ p.label = [i \in DOMAIN order |-> TreeLabel(order[i])]
         /\ p.kids = [i \in DOMAIN order |->
                       [j \in DOMAIN TreeKids(order[i]) |-> Numbering(order, TreeKids(order[i])[j])]]
         /\ p.last = [i \in DOMAIN order |-> i + Len(Subtrees[order[i]]) - 1]
<1> QED
  BY Zenon DEF Program, Numbering

LEMMA LaidRises ==
  ASSUME NEW n, IsStack(TreeKids(n)), \A j \in DOMAIN TreeKids(n) : IsStack(Subtrees[TreeKids(n)[j]]),
         NEW O, Laid(n, O)
  PROVE  \A j \in DOMAIN TreeKids(n) :
           /\ O[j - 1] \in Nat /\ O[j] \in Nat /\ O[Len(TreeKids(n))] \in Nat
           /\ O[j] <= O[Len(TreeKids(n))]
           /\ O[j] = O[j - 1] + Len(Subtrees[TreeKids(n)[j]])
<1> DEFINE kids == TreeKids(n)
           k == Len(kids)
           rows == [j \in 1 .. k |-> Subtrees[kids[j]]]
<1>1. k \in Nat /\ DOMAIN kids = 1 .. k
  BY StackLen
<1>2. /\ O \in [0 .. k -> Nat] /\ O[0] = 0
      /\ \A j \in 1 .. k : O[j] = O[j - 1] + Len(Subtrees[kids[j]])
  BY DEF Laid
<1>3. Offsets(rows, k, O) /\ \A j \in 1 .. k : Len(rows[j]) \in Nat
  <2>1. \A j \in 1 .. k : rows[j] = Subtrees[kids[j]] /\ IsStack(rows[j])
    BY <1>1
  <2> HIDE DEF rows
  <2>2. \A j \in 1 .. k : Len(rows[j]) \in Nat
    BY <2>1, StackLen
  <2>3. \A j \in 1 .. k : O[j] = O[j - 1] + Len(rows[j])
    BY <1>2, <2>1
  <2> QED
    BY <1>2, <2>2, <2>3 DEF Offsets
<1> HIDE DEF k, rows
<1>4. k \in 0 .. k /\ \A j \in 1 .. k : j - 1 \in 0 .. k /\ j \in 0 .. k /\ j <= k
  BY <1>1
<1>5. ASSUME NEW j \in 1 .. k PROVE O[j] <= O[k]
  BY <1>1, <1>3, <1>4, OffsetsRise
<1> QED
  BY <1>1, <1>2, <1>4, <1>5 DEF k

\* The numbers of the children of node i of the list
LEMMA KidNumber ==
  ASSUME NEW root, NEW F, Spread(root, F), NEW i \in DOMAIN Subtrees[root],
         IsStack(TreeKids(Subtrees[root][i])),
         NEW O, Laid(Subtrees[root][i], O),
         NEW j \in DOMAIN TreeKids(Subtrees[root][i]),
         \A x \in DOMAIN TreeKids(Subtrees[root][i]) : Spread(TreeKids(Subtrees[root][i])[x], F)
  PROVE  /\ i + 1 + O[j - 1] \in DOMAIN Subtrees[root]
         /\ Numbering(Subtrees[root], TreeKids(Subtrees[root][i])[j]) = i + 1 + O[j - 1]
         /\ Subtrees[root][i + 1 + O[j - 1]] = TreeKids(Subtrees[root][i])[j]
<1> DEFINE order == Subtrees[root]
           m == order[i]
           kids == TreeKids(m)
           kid == kids[j]
           s == Subtrees[m]
           t == Subtrees[kid]
           k == Len(kids)
           l == Len(order)
           d == i - 1
<1>1. k \in Nat /\ DOMAIN kids = 1 .. k /\ j \in 1 .. k
  BY StackLen
<1>2. /\ IsStack(order) /\ Distinct(root) /\ l \in Nat /\ DOMAIN order = 1 .. l /\ i \in 1 .. l
  BY StackLen DEF Spread
<1>3. /\ IsStack(s) /\ d + Len(s) <= l /\ \A q \in 1 .. Len(s) : order[d + q] = s[q]
  BY DEF Spread, HasSubtree
<1>4. Len(s) \in Nat
  BY <1>3, StackLen
<1>5. /\ O \in [0 .. k -> Nat] /\ O[0] = 0 /\ O[j] = O[j - 1] + Len(t) /\ Len(s) = 1 + O[k]
      /\ \A q \in 1 .. Len(t) : s[1 + O[j - 1] + q] = t[q]
      /\ \A x \in 1 .. k : O[x] = O[x - 1] + Len(Subtrees[kids[x]])
  BY <1>1 DEF Laid
<1>6. Len(t) \in Nat /\ Len(t) # 0 /\ t[1] = kid
  BY StackLen DEF Spread
<1>7. O[j - 1] \in Nat /\ O[j] \in Nat /\ O[k] \in Nat /\ O[j] <= O[k]
  <2>1. \A x \in DOMAIN kids : IsStack(Subtrees[kids[x]])
    BY DEF Spread
  <2>2. \A x \in DOMAIN kids : O[x - 1] \in Nat /\ O[x] \in Nat /\ O[Len(kids)] \in Nat /\ O[x] <= O[Len(kids)]
    BY <2>1, LaidRises
  <2> QED
    BY <2>2
<1> DEFINE a == O[j - 1]
           y == 1 + a + 1
           z == d + y
<1>8. /\ y \in 1 .. Len(s) /\ z \in 1 .. l /\ z = i + 1 + a /\ 1 \in 1 .. Len(t)
  <2>1. a \in Nat /\ 1 + a + Len(t) <= Len(s)
    BY <1>4, <1>5, <1>6, <1>7
  <2> HIDE DEF a, s, t, l
  <2> QED
    BY <1>2, <1>3, <1>4, <1>6, <2>1
<1>9. order[z] = kid
  <2>1. order[d + y] = s[y]
    BY <1>3, <1>8
  <2>2. s[1 + O[j - 1] + 1] = t[1]
    BY <1>5, <1>8
  <2> QED
    BY <1>6, <2>1, <2>2
<1>10. Numbering(order, kid) = z
  <2> HIDE DEF z, kid
  <2>1. Numbering(order, order[z]) = z
    BY <1>2, <1>8, NumberIs
  <2> QED
    BY <1>9, <2>1
<1> HIDE DEF z
<1> QED
  BY <1>2, <1>8, <1>9, <1>10

LEMMA ListedNode ==
  ASSUME NEW F, TreeFits(nodes, F, tokens), NEW root \in 1 .. Len(nodes), IsRule(root),
         NEW i \in DOMAIN Subtrees[root]
  PROVE  LET m == Subtrees[root][i] IN
         /\ m \in 1 .. Len(nodes) /\ IsRule(m) /\ Spread(m, F) /\ IsStack(TreeKids(m))
         /\ \A j \in DOMAIN TreeKids(m) : Spread(TreeKids(m)[j], F)
         /\ \E O : Laid(m, O)
<1> DEFINE l == Len(nodes)
           order == Subtrees[root]
           m == order[i]
           kids == TreeKids(m)
<1>1. l \in Nat /\ F \in [1 .. l -> Nat] /\ \A n \in 1 .. l : NodeFits(nodes, n, F, tokens)
  BY StackLen DEF TreeFits
<1>2. \A n \in 1 .. l : Spread(n, F)
  BY SubtreesSpread
<1>3. Within(root, F) /\ IsStack(order) /\ order[1] = root
  BY <1>2 DEF Spread
<1>4. i \in Nat \ {0}
  <2>1. DOMAIN order = 1 .. Len(order) /\ Len(order) \in Nat /\ i \in DOMAIN order
    BY <1>3, StackLen
  <2> HIDE DEF order
  <2> QED
    BY <2>1
<1>5. F[root] \in Nat /\ m # 0 /\ m \in F[root] .. root /\ (i > 1 => IsRule(m))
  BY <1>1, <1>3 DEF Within
<1>6. IsRule(m)
  BY <1>3, <1>4, <1>5
<1> HIDE DEF m
<1>8. m \in 1 .. l
  BY <1>1, <1>5
<1>9. IsStack(kids) /\ \A j \in DOMAIN kids : kids[j] \in 1 .. m - 1
  BY <1>8, TreeKidsFit DEF Row
<1>10. \A j \in DOMAIN kids : Spread(kids[j], F)
  <2>1. 1 .. m - 1 \subseteq 1 .. l
    BY <1>1, <1>8
  <2> QED
    BY <1>2, <1>9, <2>1
<1>11. \E O : Laid(m, O)
  <2>1. \A j \in DOMAIN kids : IsStack(Subtrees[kids[j]])
    BY <1>10 DEF Spread
  <2> QED
    BY <1>8, <2>1, LaidOut
<1> QED
  BY <1>2, <1>6, <1>8, <1>9, <1>10, <1>11 DEF m

LEMMA ListOf ==
  ASSUME NEW n \in Nat, NEW T, NEW s \in [1 .. n -> T]
  PROVE  s \in Seq(T) /\ Len(s) = n /\ (n = 0 => s = <<>>)
<1>1. s \in Seq(T)
  BY SeqDef
<1>2. Len(s) \in Nat /\ DOMAIN s = 1 .. Len(s) /\ DOMAIN s = 1 .. n
  BY <1>1, LenProperties
<1>3. Len(s) = n
  BY <1>2
<1>4. n = 0 => s = <<>>
  BY <1>1, <1>3, EmptySeq
<1> QED
  BY <1>1, <1>3, <1>4

\* Node i of the program has the subtrees of its children one after the other
LEMMA NumbersRise ==
  ASSUME NEW F, TreeFits(nodes, F, tokens), NEW root \in 1 .. Len(nodes), IsRule(root),
         NEW i \in DOMAIN Subtrees[root]
  PROVE  LET p == Program(root)
             m == Subtrees[root][i]
             l == Len(Subtrees[root]) IN
         /\ p.kids[i] \in Seq(1 .. l) /\ Len(p.kids[i]) = Len(TreeKids(m))
         /\ TreeKids(m) = <<>> => p.kids[i] = <<>>
         /\ p.last[i] \in i .. l
         /\ C!Children(p, i)
<1> DEFINE p == Program(root)
           order == Subtrees[root]
           m == order[i]
           kids == TreeKids(m)
           l == Len(order)
           k == Len(kids)
           s == Subtrees[m]
           Size(x) == Len(Subtrees[order[x]])
           Kid(j) == Numbering(order, kids[j])
<1>1. Spread(root, F)
  BY SubtreesSpread
<1>2. /\ m \in 1 .. Len(nodes) /\ IsRule(m) /\ Spread(m, F) /\ IsStack(kids)
      /\ \A j \in DOMAIN kids : Spread(kids[j], F)
      /\ \E O : Laid(m, O)
  BY ListedNode
<1>3. PICK O : Laid(m, O)
  BY <1>2
<1>4. k \in Nat /\ DOMAIN kids = 1 .. k
  BY <1>2, StackLen
<1>5. /\ l \in Nat /\ DOMAIN order = 1 .. l /\ i \in 1 .. l
  BY <1>1, StackLen DEF Spread
<1>6. O[0] = 0 /\ Len(s) = 1 + O[k] /\ O[k] \in Nat
  <2>1. k \in 0 .. k
    BY <1>4
  <2> QED
    BY <1>3, <2>1 DEF Laid
<1>7. i - 1 + Len(s) <= l
  BY <1>1 DEF Spread, HasSubtree
<1>8. ASSUME NEW j \in 1 .. k
      PROVE  /\ Kid(j) = i + 1 + O[j - 1] /\ Kid(j) \in 1 .. l /\ order[Kid(j)] = kids[j]
             /\ O[j - 1] \in Nat /\ O[j] \in Nat /\ O[j] = O[j - 1] + Len(Subtrees[kids[j]])
  <2>1. \A x \in DOMAIN kids : IsStack(Subtrees[kids[x]])
    BY <1>2 DEF Spread
  <2>2. \A x \in DOMAIN kids :
          /\ O[x - 1] \in Nat /\ O[x] \in Nat /\ O[Len(kids)] \in Nat
          /\ O[x] <= O[Len(kids)]
          /\ O[x] = O[x - 1] + Len(Subtrees[kids[x]])
    BY <1>2, <1>3, <2>1, LaidRises
  <2>3. /\ i + 1 + O[j - 1] \in DOMAIN order
        /\ Numbering(order, kids[j]) = i + 1 + O[j - 1]
        /\ order[i + 1 + O[j - 1]] = kids[j]
    <3>1. j \in DOMAIN kids /\ IsStack(kids) /\ \A x \in DOMAIN kids : Spread(kids[x], F)
      BY <1>2, <1>4
    <3>2. Spread(root, F) /\ Laid(m, O)
      BY <1>1, <1>3
    <3> QED
      <4> HIDE DEF p, s, l, k, Size, Kid
      <4>1. i + 1 + O[j - 1] \in DOMAIN order
        BY <3>1, <3>2, KidNumber
      <4>2. Numbering(order, kids[j]) = i + 1 + O[j - 1]
        BY <3>1, <3>2, KidNumber
      <4>3. order[i + 1 + O[j - 1]] = kids[j]
        BY <3>1, <3>2, KidNumber
      <4> QED
        BY <4>1, <4>2, <4>3
  <2>4. /\ O[j - 1] \in Nat /\ O[j] \in Nat /\ O[j] = O[j - 1] + Len(Subtrees[kids[j]])
    BY <1>4, <2>2
  <2> HIDE DEF kids, order
  <2> QED
    BY <1>5, <2>3, <2>4
<1>9. p.kids[i] = [j \in DOMAIN kids |-> Kid(j)]
  <2>1. p.kids = [x \in DOMAIN order |->
                   [j \in DOMAIN TreeKids(order[x]) |-> Numbering(order, TreeKids(order[x])[j])]]
    BY ProgramIs
  <2> QED
    BY <2>1
<1>10. \A x \in 1 .. l : p.last[x] = x + Size(x) - 1
  <2>1. p.last = [x \in DOMAIN order |-> x + Len(Subtrees[order[x]]) - 1]
    BY ProgramIs
  <2> QED
    BY <1>5, <2>1
<1>11. /\ p.kids[i] \in Seq(1 .. l) /\ Len(p.kids[i]) = k /\ (k = 0 => p.kids[i] = <<>>)
       /\ \A j \in 1 .. k : p.kids[i][j] = Kid(j)
  <2> DEFINE f == [j \in DOMAIN kids |-> Kid(j)]
  <2>1. f \in [1 .. k -> 1 .. l] /\ \A j \in 1 .. k : f[j] = Kid(j)
    <3> HIDE DEF Kid, order, kids
    <3> QED
      BY <1>4, <1>8
  <2> HIDE DEF f
  <2>2. f \in Seq(1 .. l) /\ Len(f) = k /\ (k = 0 => f = <<>>)
    BY <1>4, <2>1, ListOf
  <2> QED
    BY <1>9, <2>1, <2>2 DEF f
<1> DEFINE ps == p.kids[i]
           last == p.last
<1>12. last[i] = i + O[k]
  <2> HIDE DEF order, s
  <2>1. last[i] = i + Len(s) - 1
    BY <1>5, <1>10 DEF s
  <2> QED
    BY <1>5, <1>6, <2>1
<1>13. ASSUME NEW j \in 1 .. k PROVE ps[j] = i + 1 + O[j - 1] /\ last[ps[j]] = i + O[j] /\ O[j] \in Nat
  <2> DEFINE z == Kid(j)
  <2>1. ps[j] = z /\ z = i + 1 + O[j - 1] /\ z \in 1 .. l /\ order[z] = kids[j]
    BY <1>8, <1>11
  <2> HIDE DEF z
  <2>2. last[z] = z + Len(Subtrees[kids[j]]) - 1
    BY <1>10, <2>1
  <2>3. O[j - 1] \in Nat /\ O[j] \in Nat /\ O[j] = O[j - 1] + Len(Subtrees[kids[j]])
    BY <1>8
  <2> DEFINE w == Len(Subtrees[kids[j]])
  <2>4. w \in Nat
    BY <1>2, <1>4, StackLen DEF Spread
  <2> HIDE DEF w
  <2>5. z + w - 1 = i + O[j]
    <3> DEFINE b == O[j - 1]
    <3>1. b \in Nat /\ O[j] = b + w /\ z = i + 1 + b /\ i \in Nat
      BY <1>5, <2>1, <2>3 DEF w
    <3> HIDE DEF b
    <3> QED
      BY <2>4, <3>1
  <2> QED
    BY <2>1, <2>2, <2>3, <2>5 DEF w
<1>14. last[i] \in i .. l
  BY <1>5, <1>6, <1>7, <1>12
<1> HIDE DEF ps, last, k, l, order, m, kids
<1>15. ps = <<>> => last[i] = i
  <2>1. ps = <<>> => k = 0
    BY <1>11, EmptyStack DEF ps
  <2> QED
    BY <1>5, <1>6, <1>12, <2>1
<1>16. ps # <<>> => ps[1] = i + 1 /\ last[ps[Len(ps)]] = last[i]
  <2> SUFFICES ASSUME ps # <<>> PROVE ps[1] = i + 1 /\ last[ps[Len(ps)]] = last[i]
    OBVIOUS
  <2>1. k # 0 /\ Len(ps) = k
    BY <1>11 DEF ps
  <2>2. 1 \in 1 .. k /\ k \in 1 .. k /\ 1 - 1 = 0
    BY <1>4, <2>1
  <2>3. ps[1] = i + 1 + O[1 - 1] /\ last[ps[k]] = i + O[k]
    BY <1>13, <2>2
  <2> QED
    BY <1>5, <1>6, <1>12, <2>1, <2>2, <2>3
<1>17. \A j \in 1 .. Len(ps) - 1 : ps[j + 1] = last[ps[j]] + 1
  <2> SUFFICES ASSUME NEW j \in 1 .. k - 1 PROVE ps[j + 1] = last[ps[j]] + 1
    BY <1>11 DEF ps
  <2> DEFINE h == j + 1
  <2>1. h \in 1 .. k /\ j \in 1 .. k /\ h - 1 = j
    BY <1>4
  <2>2. ps[h] = i + 1 + O[h - 1] /\ last[ps[j]] = i + O[j] /\ O[j] \in Nat
    BY <1>13, <2>1
  <2> HIDE DEF h
  <2>3. ps[h] = last[ps[j]] + 1
    BY <1>5, <2>1, <2>2
  <2> QED
    BY <2>3 DEF h
<1>18. C!Children(p, i)
  <2> HIDE DEF p
  <2> QED
    BY <1>15, <1>16, <1>17 DEF C!Children, ps, last
<1>19. kids = <<>> => p.kids[i] = <<>>
  BY <1>11, EmptyStack DEF k
<1> QED
  BY <1>11, <1>14, <1>18, <1>19 DEF ps, last, k, l, order, m, kids

LEMMA ProgramFits ==
  ASSUME NEW F, TreeFits(nodes, F, tokens), TokensNamed, NEW root \in 1 .. Len(nodes), IsRule(root)
  PROVE  C!WellFormed(Program(root))
<1> DEFINE p == Program(root)
           order == Subtrees[root]
           l == Len(order)
<1>1. Spread(root, F)
  BY SubtreesSpread
<1>2. l \in Nat \ {0} /\ DOMAIN order = 1 .. l /\ order[1] = root
  BY <1>1, StackLen DEF Spread
<1>3. /\ p.size = l
      /\ p.label = [i \in DOMAIN order |-> TreeLabel(order[i])]
      /\ p.kids = [i \in DOMAIN order |->
                    [j \in DOMAIN TreeKids(order[i]) |-> Numbering(order, TreeKids(order[i])[j])]]
      /\ p.last = [i \in DOMAIN order |-> i + Len(Subtrees[order[i]]) - 1]
  BY ProgramIs
<1>4. ASSUME NEW i \in 1 .. l PROVE Labelled(TreeLabel(order[i]), TreeKids(order[i]))
  <2>1. order[i] \in 1 .. Len(nodes) /\ IsRule(order[i])
    BY <1>2, ListedNode
  <2> HIDE DEF order
  <2> QED
    BY <2>1, LabelFits
<1>5. ASSUME NEW i \in 1 .. l
      PROVE  /\ p.kids[i] \in Seq(1 .. l) /\ Len(p.kids[i]) = Len(TreeKids(order[i]))
             /\ TreeKids(order[i]) = <<>> => p.kids[i] = <<>>
             /\ p.last[i] \in i .. l
             /\ C!Children(p, i)
  BY <1>2, NumbersRise
<1>6. C!Nodes(p) = 1 .. l
  BY <1>3 DEF C!Nodes
<1>7. /\ p.label = [i \in 1 .. l |-> TreeLabel(order[i])]
      /\ DOMAIN p.kids = 1 .. l /\ p.kids = [i \in 1 .. l |-> p.kids[i]]
      /\ DOMAIN p.last = 1 .. l /\ p.last = [i \in 1 .. l |-> p.last[i]]
      /\ p.last[1] = 1 + Len(order) - 1
  <2>1. 1 \in 1 .. l
    BY <1>2
  <2> QED
    BY <1>2, <1>3, <2>1
<1> HIDE DEF p, order
<1>8. p.label \in [1 .. l -> C!Label] /\ \A i \in 1 .. l : p.label[i] = TreeLabel(order[i])
  BY <1>4, <1>7 DEF Labelled
<1> HIDE DEF l
<1>9. p.kids \in [1 .. l -> Seq(1 .. l)]
  BY <1>5, <1>7
<1>10. p.last \in [1 .. l -> 1 .. l] /\ \A i \in 1 .. l : i <= p.last[i]
  <2>1. ASSUME NEW i \in 1 .. l PROVE p.last[i] \in 1 .. l /\ i <= p.last[i]
    BY <1>2, <1>5
  <2> QED
    BY <1>7, <2>1
<1>11. p.last[1] = p.size
  BY <1>2, <1>3, <1>7 DEF l
<1>12. ASSUME NEW i \in 1 .. l PROVE C!Arity(p, i) /\ C!Tags(p, i)
  <2> DEFINE label == TreeLabel(order[i])
             kids == TreeKids(order[i])
  <2>1. Labelled(label, kids) /\ p.label[i] = label
    BY <1>4, <1>8
  <2>2. Len(p.kids[i]) = Len(kids) /\ (kids = <<>> => p.kids[i] = <<>>)
    BY <1>5
  <2> HIDE DEF label, kids
  <2> QED
    BY <2>1, <2>2 DEF Labelled, C!Arity, C!Tags
<1>13. \A n \in 1 .. l : n <= p.last[n] /\ C!Children(p, n) /\ C!Arity(p, n) /\ C!Tags(p, n)
  BY <1>5, <1>10, <1>12
<1>14. C!WellFormed(p)
  BY <1>2, <1>3, <1>6, <1>8, <1>9, <1>10, <1>11, <1>13 DEF C!WellFormed
<1> QED
  BY <1>14 DEF p

-----------------------------------------------------------------------------
(***************************************************************************)
(* The compiler keeps the program that it got                              *)
(***************************************************************************)
CompileInv ==
  /\ stage = "parsed" => Is(tokens, at, "EndOfInput")
  /\ doing = "compiling" => stage = "parsed" /\ C!WellFormed(prog)

LEMMA ProgramKept == C!Next => prog' = prog
<1>1. C!ValidateRule \/ C!BeginCollect => prog' = prog
  BY DEF C!ValidateRule, C!BeginCollect, C!input
<1>2. C!CollectCapture \/ C!CollectReference \/ C!CollectLet \/ C!CollectOther \/ C!BeginCompile
        => prog' = prog
  BY DEF C!CollectCapture, C!CollectReference, C!CollectLet, C!CollectOther, C!BeginCompile, C!input
<1>3. C!CompileValue \/ C!CompileGroup \/ C!CompileAlternation \/ C!CompileRepetition
        => prog' = prog
  BY DEF C!CompileValue, C!CompileGroup, C!CompileAlternation, C!CompileRepetition, C!input
<1>4. C!CompileLookaround => prog' = prog
  BY DEF C!CompileLookaround, C!input
<1>5. C!CompileMode \/ C!CompileLet \/ C!CompileVariable \/ C!CompileReference
        => prog' = prog
  BY DEF C!CompileMode, C!CompileLet, C!CompileVariable, C!CompileReference, C!input
<1>6. C!BuildGroup \/ C!BuildAlternation \/ C!BuildLookaround \/ C!BuildRepetition
        => prog' = prog
  BY DEF C!BuildGroup, C!BuildAlternation, C!BuildLookaround, C!BuildRepetition, C!input
<1>7. C!RestoreMode \/ C!UnbindLet \/ C!UnexpandVariable \/ C!Finish \/ C!Returned
        => prog' = prog
  BY DEF C!RestoreMode, C!UnbindLet, C!UnexpandVariable, C!Finish, C!Returned, C!input, C!vars
<1> QED
  BY <1>1, <1>2, <1>3, <1>4, <1>5, <1>6, <1>7 DEF C!Next

\* Nothing but the end of parse() makes the tree the result
LEMMA ParsedAtEnd ==
  ASSUME ParserStep, stage' = "parsed"
  PROVE  stage = "parsing" /\ Is(tokens, at, "EndOfInput") /\ UNCHANGED <<tokens, at>>
<1>f. ASSUME NEW e, Fail(e) PROVE FALSE
  BY <1>f DEF Fail
<1>g. ASSUME stage = "parsing", Going PROVE FALSE
  BY <1>g DEF Going
<1>c. ASSUME NEW frames, NEW o, stage = "parsing", CallOr(frames, o) PROVE FALSE
  BY <1>c, <1>f, <1>g DEF CallOr
<1>m. ASSUME NEW fn, NEW tag, NEW o, stage = "parsing", CallModified(fn, tag, o) PROVE FALSE
  BY <1>m, <1>f, <1>g DEF CallModified
<1>a. ASSUME NEW ns, NEW o, NEW left, NEW frames, NEW frame, NEW from, NEW nots, stage = "parsing",
             AddFix(ns, o, left, frames, frame, from, nots)
      PROVE  FALSE
  BY <1>a, <1>f, <1>g DEF AddFix
<1>r. ASSUME NEW ns, NEW repetition, NEW left, NEW frames, NEW frame, NEW from, NEW nots,
             stage = "parsing", AddRepeated(ns, repetition, left, frames, frame, from, nots)
      PROVE  FALSE
  BY <1>r, <1>f, <1>a DEF AddRepeated
<1>1. ~LexToken
  BY DEF LexToken, AddToken
<1>2. ~EndLexing
  <2> SUFFICES ASSUME EndLexing PROVE FALSE
    OBVIOUS
  <2> DEFINE found == {i \in DOMAIN tokens : IsErrorToken(tokens[i])}
  <2>1. stage' = IF found = {} THEN "parsing" ELSE "rejected"
    BY Zenon DEF EndLexing
  <2> HIDE DEF found
  <2> QED
    BY <2>1
<1>3. ~ParseModeModifier
  BY <1>f, <1>g DEF ParseModeModifier, Calling
<1>4. ~ParseLet
  BY <1>f, <1>c DEF ParseLet, Calling
<1>5. ~EndLet
  BY <1>f, <1>g DEF EndLet, Returned
<1>6. ~ParseBody
  BY <1>c DEF ParseBody, Calling
<1>7. ~EndModified
  BY <1>f, <1>g DEF EndModified, Returned
<1>8. ~ParseLookaround
  BY <1>m DEF ParseLookaround, Calling
<1>9. ~EndLookaround
  BY <1>a DEF EndLookaround, Returned
<1>10. ~ParseGroup
  BY <1>f, <1>m DEF ParseGroup, OpenGroup, Calling
<1>11. ~EndGroup
  BY <1>f, <1>r DEF EndGroup, Returned
<1>12. ~ParseAtom
  BY <1>f, <1>r DEF ParseAtom, AtAtom, AddAtom, Calling
<1>13. ~NoFix
  BY <1>f, <1>g DEF NoFix, AtAtom, Calling, LoneNot, NextAlternative, LonePipe, EmptyExpression, EndOr, ReturnOr
<1> QED
  BY <1>1, <1>2, <1>3, <1>4, <1>5, <1>6, <1>7, <1>8, <1>9, <1>10, <1>11, <1>12, <1>13, <1>f
     DEF ParserStep, EndParse, lexVars, parseVars

\* Once it is the result, the parser does nothing more
LEMMA ParsedStays ==
  ASSUME stage = "parsed", [ParserStep]_parserVars
  PROVE  UNCHANGED parserVars
  BY DEF ParserStep, LexToken, EndLexing, ParseModeModifier, ParseLet, EndLet, ParseBody, EndModified,
         ParseLookaround, EndLookaround, ParseGroup, EndGroup, ParseAtom, AtAtom, NoFix, EndParse,
         Calling, Returned

LEMMA InitCompile == CommandInit => CompileInv
  BY DEF CommandInit, Starting, Init, CompileInv

LEMMA BegunFits ==
  ASSUME TreeInv, RuleInv, NamesKnown, BeginCompile
  PROVE  C!WellFormed(prog')
<1>1. PICK F : Fits(nodes, stack, result, F, tokens)
  BY DEF TreeInv
<1>2. stage = "parsed" /\ prog' = Program(result)
  BY DEF BeginCompile
<1>3. result # 0 /\ result \in 0 .. Len(nodes) /\ TreeFits(nodes, F, tokens) /\ nodes[result].kind \notin StatementKinds
  BY <1>1, <1>2 DEF RuleInv, Fits
<1>4. result \in 1 .. Len(nodes)
  <2>1. Len(nodes) \in Nat
    BY <1>3, StackLen DEF TreeFits
  <2> QED
    BY <1>3, <2>1
<1>5. TokensNamed
  BY <1>2 DEF NamesKnown, TokensNamed
<1>6. C!WellFormed(Program(result))
  BY <1>3, <1>4, <1>5, ProgramFits DEF IsRule
<1> QED
  BY <1>2, <1>6

LEMMA StepCompile ==
  TreeInv /\ RuleInv /\ NamesKnown /\ CompileInv /\ [CommandNext]_commandVars => CompileInv'
<1> SUFFICES ASSUME TreeInv, RuleInv, NamesKnown, CompileInv, [CommandNext]_commandVars PROVE CompileInv'
  OBVIOUS
<1>1. [ParserStep]_parserVars
  BY ParserRuns
<1>2. (stage = "parsed" => Is(tokens, at, "EndOfInput"))'
  <2> SUFFICES ASSUME stage' = "parsed" PROVE Is(tokens, at, "EndOfInput")'
    OBVIOUS
  <2>1. CASE UNCHANGED parserVars
    BY <2>1 DEF CompileInv, parserVars, lexVars, parseVars, Is
  <2>2. CASE ParserStep
    BY <2>2, ParsedAtEnd DEF Is
  <2> QED
    BY <1>1, <2>1, <2>2
<1>3. ASSUME doing = "compiling", prog' = prog, doing' = doing
      PROVE  stage' = "parsed" /\ C!WellFormed(prog')
  BY <1>1, <1>3, ParsedStays DEF CompileInv, parserVars
<1>4. ASSUME BeginCompile PROVE stage' = "parsed" /\ C!WellFormed(prog')
  <2>1. stage' = "parsed"
    BY <1>4 DEF BeginCompile, parserVars
  <2> QED
    BY <1>4, <2>1, BegunFits
<1>5. ASSUME ~BeginCompile, doing' = "compiling" PROVE stage' = "parsed" /\ C!WellFormed(prog')
  <2>1. ReadArg \/ EndArgs \/ ReadInput \/ ParseFailed \/ CompileFailed \/ PrintRegex
          => doing' # "compiling" \/ (doing' = doing /\ prog' = prog)
    BY DEF ReadArg, EndArgs, ReadInput, ParseFailed, CompileFailed, PrintRegex, Exit, Go, compilerVars
  <2>2. Parse \/ CompileStep \/ Exited \/ UNCHANGED commandVars => doing' = doing /\ prog' = prog
    BY ProgramKept DEF Parse, CompileStep, Exited, commandVars, processVars, compilerVars
  <2>3. doing' = doing /\ prog' = prog
    BY <1>5, <2>1, <2>2 DEF CommandNext
  <2>4. doing = "compiling"
    BY <1>5, <2>3
  <2> QED
    BY <1>3, <2>3, <2>4
<1>6. doing' = "compiling" => stage' = "parsed" /\ C!WellFormed(prog')
  BY <1>4, <1>5
<1>7. (doing = "compiling" => stage = "parsed" /\ C!WellFormed(prog))'
  BY <1>6 DEF C!WellFormed, C!Nodes, C!Children, C!Arity, C!Tags
<1> QED
  BY <1>2, <1>7 DEF CompileInv

\* What the command compiles is the whole source, and a well-formed tree, numbered in the order of
\* the source: every node has the children that its kind asks for, and the names, numbers and kinds
\* that the compiler knows, for all texts, limits and arguments, if Names has the identifiers of
\* the texts that are accepted
\* (main.rs:45-61, parse.rs:19-40, parser_impl.rs:19-560).
THEOREM CommandCompilesWhole == CommandSpec /\ []NamesKnown => []ProgramWellFormed
<1> DEFINE Inv == NestingInv /\ TreeInv /\ CompileInv
<1>1. CommandInit => Inv
  BY InitNesting, InitTree, InitCompile DEF CommandInit
<1>2. Inv /\ NamesKnown /\ [CommandNext]_commandVars => Inv'
  <2>1. [CommandNext]_commandVars => [ParserStep]_parserVars
    BY ParserRuns
  <2>2. NestingInv /\ [ParserStep]_parserVars => NestingInv'
    BY StepNesting
  <2>3. NestingInv /\ TreeInv /\ [ParserStep]_parserVars => TreeInv'
    BY StepTree DEF NestingInv
  <2>4. NestingInv /\ TreeInv /\ NamesKnown /\ CompileInv /\ [CommandNext]_commandVars => CompileInv'
    BY StepCompile DEF NestingInv
  <2> QED
    BY <2>1, <2>2, <2>3, <2>4
<1>3. Inv => ProgramWellFormed
  BY DEF CompileInv, ProgramWellFormed
<1> HIDE DEF Inv
<1> QED
  BY <1>1, <1>2, <1>3, PTL DEF CommandSpec
=============================================================================
