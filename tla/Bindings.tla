------------------------------ MODULE Bindings ------------------------------
(***************************************************************************)
(* compile() of pomsky-wasm: a source is parsed and compiled, and each     *)
(* diagnostic is handed to JavaScript with a range in UTF-16 code units.   *)
(* What the compiler makes of a tree is not modelled here: it returns      *)
(* diagnostics about any part of the source that rules cover, or none.     *)
(* Each is converted by itself, so one is enough.                          *)
(***************************************************************************)
EXTENDS Diagnostics

CONSTANTS
  Inputs,        \* the sources
  FlavorNames,   \* the flavors JavaScript may ask for
  Utf16Length    \* the UTF-16 code units of each character of more than one byte

VARIABLES
  asked,     \* the flavor
  call,      \* what the call is doing, or how it ended
  ranges     \* the diagnostics of the result: their range, and the place it is for

vars == <<parserVars, asked, call, ranges>>

\* JavaScript counts a character as one code unit or two
ASSUME Utf16Assumption == \A u \in DOMAIN Utf16Length : Utf16Length[u] \in Nat

\* parse_flavor
KnownFlavors == {"javascript", "js", "java", "dotnet", ".net", "pcre", "python", "ruby", "rust"}

Utf16Of(u) == IF u \in DOMAIN Utf16Length THEN Utf16Length[u] ELSE BytesOf(u)
Utf16Count(units) ==
  LET n[i \in 0 .. Len(units)] == IF i = 0 THEN 0 ELSE n[i - 1] + Utf16Of(units[i])
  IN n[Len(units)]

\* Mutant: the range counts bytes.
ConvertMutant(d) == [start |-> d.start, end |-> d.end, place |-> <<d.start, d.end>>]

\* convert_diagnostic cuts the source at the end of the place, then at its start;
\* split_at panics inside a character, and at the start if it is after the end.
Convert(d) ==
  LET start16 == Utf16Count(SubSeq(text, 1, UnitAt(begin, d.start) - 1))
  IN [start |-> start16, end |-> start16 + Utf16Count(SliceOf(d)), place |-> <<d.start, d.end>>]

BindingsInit ==
  /\ text \in Inputs /\ Init
  /\ asked \in FlavorNames
  /\ call = "called" /\ ranges = <<>>

Finish(how, found) ==
  /\ call' = how /\ ranges' = found
  /\ UNCHANGED <<parserVars, asked>>

UnknownFlavor ==
  /\ call = "called" /\ asked \notin KnownFlavors
  /\ Finish("thrown", <<>>)

Parse ==
  /\ call = "called" /\ asked \in KnownFlavors
  /\ ParserStep
  /\ UNCHANGED <<asked, call, ranges>>

ReturnDiagnostics(list) ==
  IF \E i \in DOMAIN list : ~AtCharacters(list[i]) THEN Finish("panicked", <<>>)
  ELSE Finish("returned", [i \in DOMAIN list |-> Convert(list[i])])

ParseFailed ==
  /\ call = "called" /\ stage \in {"rejected", "panicked"}
  /\ IF stage = "panicked" \/ \E i \in DOMAIN errors : FromParseErrorPanics(errors[i]) THEN Finish("panicked", <<>>)
     ELSE ReturnDiagnostics(ParseDiagnostics)

\* The places of the rules begin and end with a token; an empty one is the source.
CompilePlaces ==
  {[start |-> 0, end |-> SourceLength]}
    \cup {[start |-> tokens[i].start, end |-> tokens[j].end] : i, j \in DOMAIN tokens}

Compile ==
  /\ call = "called" /\ stage = "parsed"
  /\ \/ Finish("returned", <<>>)
     \/ \E d \in CompilePlaces : d.start <= d.end /\ ReturnDiagnostics(<<d>>)

CallEnded == call # "called" /\ UNCHANGED vars

BindingsNext == UnknownFlavor \/ Parse \/ ParseFailed \/ Compile \/ CallEnded
BindingsSpec == BindingsInit /\ [][BindingsNext]_vars

(***************************************************************************)
(* Properties                                                              *)
(***************************************************************************)
\* The source as JavaScript has it: code units, each with the byte its character is at
CodeUnits == FlattenSeq([i \in DOMAIN text |-> [k \in 1 .. Utf16Of(text[i]) |-> begin[i]]])

\* The range of a diagnostic cuts the string that JavaScript holds where its place cuts
\* the source, whatever characters come before: lengths in bytes and in code units differ,
\* and convert_diagnostic counts both (lib.rs:101-105).
RangesDenote ==
  \A i \in DOMAIN ranges :
    /\ 0 <= ranges[i].start /\ ranges[i].start <= ranges[i].end /\ ranges[i].end <= Len(CodeUnits)
    /\ \A k \in DOMAIN CodeUnits :
         /\ k <= ranges[i].start <=> CodeUnits[k] < ranges[i].place[1]
         /\ k <= ranges[i].end <=> CodeUnits[k] < ranges[i].place[2]

\* The place of an invalid escape, as it is reported, begins at the backslash
CutsCharacter(d) ==
  d.kind = "InvalidEscapeInString" /\ BytesOf(text[UnitAt(begin, d.start) + 1]) > 1

\* A call panics exactly if the source has an escape that is invalid because of a
\* character of several bytes: get_help narrows the place of the error to the backslash
\* and one byte more, and convert_diagnostic cannot cut the source there (help.rs:55-59,
\* lib.rs:117-121).  Every other call returns or throws, wherever long characters are.
PanicsExactlyInEscapes ==
  call # "called" =>
    (call = "panicked" <=> stage = "rejected" /\ \E i \in DOMAIN errors : CutsCharacter(ParseDiagnostics[i]))
=============================================================================
