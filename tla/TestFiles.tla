----------------------------- MODULE TestFiles -----------------------------
(***************************************************************************)
(* A test case of the integration tests (pomsky-lib/tests/it/files.rs) is  *)
(* a file: a line of options, a program, a line of dashes and the regex or *)
(* the errors the program is expected to compile to.  A run judges the     *)
(* file; with --bless it replaces what was expected by what it got.        *)
(*                                                                         *)
(* A text is the list of its lines, which line breaks separate: the empty  *)
(* text is one blank line.  Between runs a developer may change the        *)
(* compiler; another file, saved by hand, starts another behaviour.  A run *)
(* may die at any point, since the program exits as soon as it sees that   *)
(* the task of another test has panicked.                                  *)
(***************************************************************************)
EXTENDS Integers, Sequences, SequencesExt

CONSTANTS
  Files,               \* what a developer may save
  Versions,            \* the versions of the compiler, 1 .. a bound
  Compile(_, _, _),    \* parse_and_compile of a program, for a flavor, in a version
  Accepts(_, _)        \* whether the engine of a flavor compiles a regex

(***************************************************************************)
(* Lines and options                                                       *)
(***************************************************************************)
Text(words) == [kind |-> "text", words |-> words]
Dashes == [kind |-> "dashes"]                             \* five dashes or more
OptionLine(settings) == [kind |-> "options", settings |-> settings]  \* begins with #!
Empty == <<Text("")>>

Lines == [kind : {"text"}, words : STRING] \cup {Dashes}
           \cup [kind : {"options"}, settings : Seq(STRING \X STRING)]
ASSUME FilesAssumption == Files \subseteq Seq(Lines) \ {<<>>}

\* The names of the flavors in lower case, which is how they are compared
FlavorNamed ==
  [name \in {"pcre", "js", "javascript", "java", ".net", "dotnet", "python", "rust", "ruby"} |->
     CASE name = "pcre" -> "Pcre" [] name \in {"js", "javascript"} -> "JavaScript"
       [] name = "java" -> "Java" [] name \in {".net", "dotnet"} -> "DotNet"
       [] name = "python" -> "Python" [] name = "rust" -> "Rust" [] name = "ruby" -> "Ruby"]
Flavors == {FlavorNamed[name] : name \in DOMAIN FlavorNamed}
NameOf(flavor) == CHOOSE name \in DOMAIN FlavorNamed \ {"js", ".net"} : FlavorNamed[name] = flavor

Yes == {"yes", "true", ""}
No == {"no", "false"}

\* The last of the settings with one of these keys counts.  A setting whose key or
\* value is not known is skipped with a warning.
LastOf(settings, keys, values, default) ==
  LET known == {i \in DOMAIN settings : settings[i][1] \in keys /\ settings[i][2] \in values}
  IN IF known = {} THEN default ELSE settings[Max(known)][2]

can_compile_regex(flavor) == flavor \in {"Rust", "Pcre", "Ruby", "JavaScript", "Java", "Python"}

ParseOptions(settings) ==
  LET flavor == FlavorNamed[LastOf(settings, {"flavor"}, DOMAIN FlavorNamed, "rust")]
      compile == IF can_compile_regex(flavor) THEN "yes" ELSE "no"
  IN [flavor |-> flavor,
      expected_outcome |-> LastOf(settings, {"expect"}, {"success", "error"}, "success"),
      ignore |-> LastOf(settings, {"ignore", "ignored"}, Yes \cup No, "no") \in Yes,
      compile |-> LastOf(settings, {"compile"}, Yes \cup No, compile) \in Yes]

process_content(content) ==
  LET cuts == {i \in 2 .. Len(content) : content[i] = Dashes}
      cut == IF cuts = {} THEN Len(content) + 1 ELSE Min(cuts)
      head == SubSeq(content, 1, cut - 1)
      rest == SubSeq(content, cut + 1, Len(content))
      marked == head[1].kind = "options"
  IN [input |-> IF ~marked THEN head ELSE IF Len(head) = 1 THEN Empty ELSE Tail(head),
      expected |-> IF rest = <<>> THEN Empty ELSE rest,
      \* the first line is lost when no line break follows it
      options |-> ParseOptions(IF marked /\ Len(head) > 1 THEN head[1].settings ELSE <<>>)]

\* Mutant: what is expected to fail is not marked.
CreateContentMutant(input, text, settings) == input \o <<Dashes>> \o text

create_content(input, text, settings) ==
  LET written ==
        (IF settings.expected_outcome = "error" THEN << <<"expect", "error">> >> ELSE <<>>)
          \o (IF settings.ignore THEN << <<"ignore", "">> >> ELSE <<>>)
          \o (IF settings.flavor # "Rust" THEN << <<"flavor", NameOf(settings.flavor)>> >> ELSE <<>>)
  IN (IF written = <<>> THEN <<>> ELSE <<OptionLine(written)>>) \o input \o <<Dashes>> \o text

\* The compiler returns a regex or none, and what it has to say, in lines.
ASSUME CompilerAssumption ==
  \A f \in Files, flavor \in Flavors, v \in Versions :
    LET found == Compile(process_content(f).input, flavor, v)
    IN found.regex \in Seq(Lines) /\ found.messages \in Seq(Lines)

(***************************************************************************)
(* State                                                                   *)
(***************************************************************************)
VARIABLES
  file,      \* the file on the disk
  version,   \* of the compiler
  pc,        \* idle, or where test_file is
  args,      \* bless and include_ignored
  content,   \* the file as the run has read it, empty between runs
  result,    \* the TestResult of the last run
  saved,     \* the file as the developer saved it
  blessed,   \* the file is the work of a run, and nothing has changed since
  torn       \* a run has died while it wrote the file

vars == <<file, version, pc, args, content, result, saved, blessed, torn>>

Results == {"Success", "Ignored", "Blessed", "IncorrectResult", "InvalidOutput", "none"}

NoArgs == [bless |-> FALSE, include_ignored |-> FALSE]

test == process_content(content)
options == test.options
compiled == Compile(test.input, options.flavor, version)

\* What the run got: the regex with its warnings, or the errors
got == IF compiled.regex = <<>> THEN compiled.messages ELSE compiled.regex \o compiled.messages
outcome == IF compiled.regex = <<>> THEN "error" ELSE "success"

\* An error is also expected when none is written down.
AsExpected ==
  /\ options.expected_outcome = outcome
  /\ test.expected = got \/ (outcome = "error" /\ test.expected = Empty)

Init ==
  /\ file \in Files /\ version \in Versions
  /\ pc = "idle" /\ args = NoArgs
  /\ content = <<>> /\ result = "none"
  /\ saved = file /\ blessed = FALSE /\ torn = FALSE

(***************************************************************************)
(* A run                                                                   *)
(***************************************************************************)
\* collect_samples reads the file.
Start ==
  /\ pc = "idle" /\ pc' = "judge"
  /\ content' = file
  /\ args' \in [bless : BOOLEAN, include_ignored : BOOLEAN]
  /\ UNCHANGED <<file, version, result, saved, blessed, torn>>

Finish(r) == pc' = "idle" /\ args' = NoArgs /\ content' = <<>> /\ result' = r
Return(r) == Finish(r) /\ UNCHANGED <<file, version, saved, blessed, torn>>

Judging == pc = "judge" /\ (options.ignore => args.include_ignored)

Ignore == pc = "judge" /\ options.ignore /\ ~args.include_ignored /\ Return("Ignored")

Reject ==
  /\ Judging /\ AsExpected
  /\ outcome = "success" /\ options.compile /\ can_compile_regex(options.flavor)
  /\ ~Accepts(compiled.regex, options.flavor)
  /\ Return("InvalidOutput")

Pass ==
  /\ Judging /\ AsExpected
  /\ \/ outcome = "error"
     \/ ~options.compile
     \/ ~can_compile_regex(options.flavor)
     \/ Accepts(compiled.regex, options.flavor)
  /\ Return("Success")

Fail == Judging /\ ~AsExpected /\ ~args.bless /\ Return("IncorrectResult")

\* fs::write empties the file before it writes.
Truncate ==
  /\ Judging /\ ~AsExpected /\ args.bless
  /\ pc' = "write" /\ file' = Empty
  /\ UNCHANGED <<version, args, content, result, saved, blessed, torn>>

\* Mutant: the other options are those of a test without any.
WriteMutant ==
  /\ pc = "write"
  /\ file' = create_content(test.input, got, [ParseOptions(<<>>) EXCEPT !.expected_outcome = outcome])
  /\ Finish("Blessed") /\ blessed' = TRUE
  /\ UNCHANGED <<version, saved, torn>>

Write ==
  /\ pc = "write"
  /\ file' = create_content(test.input, got, [options EXCEPT !.expected_outcome = outcome])
  /\ Finish("Blessed") /\ blessed' = TRUE
  /\ UNCHANGED <<version, saved, torn>>

\* process::exit(1) in the driver, or a panic of the compiler
Die ==
  /\ pc # "idle" /\ Finish("none")
  /\ torn' = (torn \/ pc = "write")
  /\ UNCHANGED <<file, version, saved, blessed>>

(***************************************************************************)
(* Between runs                                                            *)
(***************************************************************************)
ChangeCompiler ==
  /\ pc = "idle"
  /\ version' \in Versions \ {version}
  /\ blessed' = FALSE /\ result' = "none"
  /\ UNCHANGED <<file, pc, args, content, saved, torn>>

Next ==
  \/ Start \/ Ignore \/ Reject \/ Pass \/ Fail \/ Truncate \/ Write \/ Die
  \/ ChangeCompiler

Spec == Init /\ [][Next]_vars

(***************************************************************************)
(* Properties                                                              *)
(***************************************************************************)
\* The first line of the program cannot be taken for options or for dashes.  A
\* program that begins with `#!` (a comment) or with dashes (an error) may be read
\* as something else once it is written behind other options.
Plain(input) == input[1].kind = "text"

Purpose(f) ==
  LET t == process_content(f)
  IN [input |-> t.input, flavor |-> t.options.flavor, ignore |-> t.options.ignore]

\* Until the compiler changes, no run finds the result of a blessed test incorrect,
\* and none writes the file again.  An engine may still refuse the regex: blessing does
\* not ask it, and drops compile=false.  It relates create_content to process_content
\* and to the comparison in test_file, over runs.
BlessedStays ==
  blessed /\ ~torn /\ Plain(process_content(saved).input)
    => pc # "write" /\ result # "IncorrectResult"

\* Blessing changes what is expected of a program, and never the program, its flavor
\* or whether it is ignored, however often the compiler changes and the test is blessed
\* again; only a run that dies while it writes loses them (files.rs, create_content).
PurposeKept ==
  pc # "write" /\ ~torn /\ Plain(process_content(saved).input) => Purpose(file) = Purpose(saved)

=============================================================================
