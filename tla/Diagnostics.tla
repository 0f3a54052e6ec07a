---------------------------- MODULE Diagnostics ----------------------------
(***************************************************************************)
(* Diagnostic::from_parse_error and get_help of pomsky-lib: an error of    *)
(* the parser becomes a diagnostic with a place in the source and a help.  *)
(***************************************************************************)
EXTENDS Parser

SourceLength == begin[Len(text) + 1]

\* An error whose span is empty is about the whole source.
RangeOf(e) == IF e.end = 0 THEN [kind |-> e.kind, start |-> 0, end |-> SourceLength] ELSE e

\* The text a place denotes; only a place at characters does
AtCharacters(e) == UnitAt(begin, e.start) # 0 /\ UnitAt(begin, e.end) # 0 /\ e.start <= e.end
SliceOf(e) == SubSeq(text, UnitAt(begin, e.start), UnitAt(begin, e.end) - 1)

\* The help on an escape narrows the place to the backslash and one byte more.  The
\* parser says where in the string the backslash is, counted from one.
EscapeOffset(slice) == Begins(slice)[InvalidEscape(Inner(slice)) + 1] + 1
WithHelp(e) ==
  IF e.kind # "InvalidEscapeInString" THEN e
  ELSE LET escape == EscapeOffset(SliceOf(e))
       IN [kind |-> e.kind, start |-> e.start + escape - 1, end |-> e.start + escape + 1]

\* The help on the order of bounds looks for the dash between them.
HelpPanics(e) ==
  e.kind \in {"RangeIsNotIncreasing", "DescendingRange"} /\ "-" \notin Range(SliceOf(e))

FromParseError(e) == WithHelp(RangeOf(e))
FromParseErrorPanics(e) == ~AtCharacters(RangeOf(e)) \/ HelpPanics(RangeOf(e))

ParseDiagnostics == [i \in DOMAIN errors |-> FromParseError(errors[i])]
=============================================================================
