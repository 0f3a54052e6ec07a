------------------------------- MODULE Atoms -------------------------------
(***************************************************************************)
(* The functions of the parser that do not recurse: literals, character    *)
(* sets, code points, ranges, references, boundaries, repetitions.  Each   *)
(* takes the tokens and the offset of the next one.  It finds a node (or   *)
(* the part of one) and the offset after it, finds nothing and consumes    *)
(* nothing, or fails with the error that ends the parse.                   *)
(*                                                                         *)
(* The last token is EndOfInput, with the empty span that span() reports   *)
(* when no token is left.                                                  *)
(***************************************************************************)
EXTENDS Lexer

CONSTANTS
  DecimalValue,   \* the value of a run of digits, in base 10
  HexValue,       \* the value of a hexadecimal unit, in base 16
  CodeOf,         \* the code point of a unit of one character
  AsciiNames,     \* the runs of letters that begin with ascii_
  UnicodeNames,   \* PARSE_LUT, for the names of categories, scripts, blocks, properties
  MaxOffset       \* i32::MAX, the largest offset of a relative reference

MaxRepetition == 65535
MaxCodePoint == 1114111
Unbounded == -1

ErrorAt(kind, token) == [kind |-> kind, start |-> token.start, end |-> token.end]
Joined(kind, first, last) == [kind |-> kind, start |-> first.start, end |-> last.end]
NoError == [kind |-> "none", start |-> 0, end |-> 0]

Found(at, value) == [is |-> "found", at |-> at, value |-> value, error |-> NoError]
Absent(at) == [is |-> "absent", at |-> at, value |-> <<>>, error |-> NoError]
Failed(at, error) == [is |-> "failed", at |-> at, value |-> <<>>, error |-> error]

\* What is found goes on to Continue; what is absent leaves the choice to others
Then(r, Continue(_)) == IF r.is = "found" THEN Continue(r) ELSE r
OrElse(r, other) == IF r.is = "absent" THEN other ELSE r

(***************************************************************************)
(* A node of the tree: its variant of Rule, whether it is negated, its     *)
(* children (numbers of nodes) and what else its variant holds.            *)
(***************************************************************************)
Node(kind, kids, value) ==
  [kind |-> kind, negative |-> FALSE, kids |-> kids, value |-> value]

Is(ts, o, token) == ts[o].token = token
IsReserved(ts, o, word) == Is(ts, o, "ReservedName") /\ ts[o].units = <<word>>
After(ts, o, token) == IF Is(ts, o, token) THEN o + 1 ELSE o
Inner(units) == SubSeq(units, 2, Len(units) - 1)      \* strip_first_last

(***************************************************************************)
(* Numbers and text                                                        *)
(***************************************************************************)
NumberOf(units) ==
  LET n[i \in 0 .. Len(units)] ==
        IF i = 0 THEN 0 ELSE n[i - 1] * 10 ^ BytesOf(units[i]) + DecimalValue[units[i]]
  IN n[Len(units)]

\* consume_number: found with the value, absent, or too large
ConsumeNumber(ts, o, max) ==
  IF ~Is(ts, o, "Number") THEN Absent(o)
  ELSE IF NumberOf(ts[o].units) \notin 0 .. max THEN Failed(o, ErrorAt("NumberTooLarge", ts[o]))
  ELSE Found(o + 1, NumberOf(ts[o].units))

ExpectNumber(ts, o, max) ==
  IF Is(ts, o, "Number") THEN ConsumeNumber(ts, o, max)
  ELSE Failed(o, ErrorAt("ExpectedNumber", ts[o]))

\* parse_quoted_text: in double quotes a backslash is followed by a
\* backslash or a quote, and stands for it
InvalidEscape(units) ==
  LET from[i \in 1 .. Len(units) + 1] ==     \* the first one at or after unit i, or 0
        IF i > Len(units) THEN 0
        ELSE IF units[i] # "\\" THEN from[i + 1]
        ELSE IF i = Len(units) \/ units[i + 1] \notin {"\\", "\""} THEN i
        ELSE from[i + 2]
  IN from[1]

Unescaped(units) ==
  LET text[i \in 1 .. Len(units) + 2] ==
        IF i > Len(units) THEN <<>>
        ELSE IF units[i] = "\\" THEN <<units[i + 1]>> \o text[i + 2]
        ELSE <<units[i]>> \o text[i + 1]
  IN text[1]

QuotedText(ts, o) ==
  LET units == Inner(ts[o].units) IN
  IF ts[o].units[1] = "'" THEN Found(o + 1, units)
  ELSE IF InvalidEscape(units) # 0 THEN Failed(o, ErrorAt("InvalidEscapeInString", ts[o]))
  ELSE Found(o + 1, Unescaped(units))

\* The digits of a bound of a range, as parse_number reads its bytes
DigitValue(u) ==
  IF u \in DOMAIN HexValue /\ BytesOf(u) = 1 THEN HexValue[u]
  ELSE IF u \in Letters /\ BytesOf(u) = 1 THEN (CodeOf[u] % 32) + 9
  ELSE 255
DigitsOf(units) == [i \in DOMAIN units |-> DigitValue(units[i])]
IsDigits(units, radix) == \A i \in DOMAIN units : DigitValue(units[i]) < radix

(***************************************************************************)
(* Code points: `U+41`, the same without the plus, and single letters      *)
(***************************************************************************)
\* Any number above the largest code point is as good as MaxCodePoint + 1
HexNumber(units) ==
  LET n[i \in 0 .. Len(units)] ==
        IF i = 0 THEN 0
        ELSE IF n[i - 1] > MaxCodePoint THEN n[i - 1]
        ELSE n[i - 1] * 16 ^ BytesOf(units[i]) + HexValue[units[i]]
  IN n[Len(units)]
HexDigits(units) == FoldLeft(LAMBDA n, u : n + BytesOf(u), 0, units)
IsScalarValue(n) == n <= MaxCodePoint /\ n \notin 55296 .. 57343

\* An identifier that is a U followed by a hexadecimal number is a code point
\* if the number has 32 bits, which leaves room for leading zeros, and a
\* variable if it has more
MaxHexDigits == 6
Significant(units) ==
  LET zeros == SelectInSeq(units, LAMBDA u : HexValue[u] # 0) IN
  IF zeros = 0 THEN <<>> ELSE SubSeq(units, zeros, Len(units))
IsBareCodePoint(units) ==
  /\ Len(units) > 1 /\ units[1] = "U"
  /\ \A i \in 2 .. Len(units) : units[i] \in AsciiHexDigits
  /\ HexDigits(Significant(Tail(units))) <= 8

CodePoint(ts, o) ==
  LET units == ts[o].units
      Checked(n) == IF IsScalarValue(n) THEN Found(o + 1, n)
                    ELSE Failed(o, ErrorAt("CodePointInvalid", ts[o]))
  IN IF Is(ts, o, "CodePoint")
     THEN Checked(IF HexDigits(Tail(Tail(units))) > MaxHexDigits THEN MaxCodePoint + 1
                  ELSE HexNumber(Tail(Tail(units))))
     ELSE IF Is(ts, o, "Identifier") /\ IsBareCodePoint(units) THEN Checked(HexNumber(Tail(units)))
     ELSE Absent(o)

SpecialChars == "n" :> 10 @@ "r" :> 13 @@ "t" :> 9 @@ "a" :> 7 @@ "e" :> 27 @@ "f" :> 12

(***************************************************************************)
(* Character sets                                                          *)
(***************************************************************************)
Item(is, first, last, name, negative) ==
  [is |-> is, first |-> first, last |-> last, name |-> name, negative |-> negative]
CharItem(c) == Item("char", c, c, <<"-", "-">>, FALSE)
RangeItem(first, last) == Item("range", first, last, <<"-", "-">>, FALSE)
NamedItem(name, negative) == Item("named", 0, 0, name, negative)

AsciiLower == RangeItem(97, 122)
AsciiUpper == RangeItem(65, 90)
AsciiDigit == RangeItem(48, 57)
AsciiGroup ==
  "ascii_alpha" :> <<AsciiLower, AsciiUpper>>
  @@ "ascii_alnum" :> <<AsciiDigit, AsciiLower, AsciiUpper>>
  @@ "ascii" :> <<RangeItem(0, 127)>>
  @@ "ascii_blank" :> <<CharItem(32), CharItem(9)>>
  @@ "ascii_cntrl" :> <<RangeItem(0, 31), CharItem(127)>>
  @@ "ascii_digit" :> <<AsciiDigit>>
  @@ "ascii_graph" :> <<RangeItem(33, 126)>>
  @@ "ascii_lower" :> <<AsciiLower>>
  @@ "ascii_print" :> <<RangeItem(32, 126)>>
  @@ "ascii_punct" :> <<RangeItem(33, 47), RangeItem(58, 64), RangeItem(91, 96), RangeItem(123, 126)>>
  @@ "ascii_space" :> <<CharItem(32), CharItem(9), CharItem(10), CharItem(13), CharItem(11), CharItem(12)>>
  @@ "ascii_upper" :> <<AsciiUpper>>
  @@ "ascii_word" :> <<AsciiDigit, AsciiLower, AsciiUpper, CharItem(95)>>
  @@ "ascii_xdigit" :> <<AsciiDigit, RangeItem(97, 102), RangeItem(65, 70)>>

Shorthands ==
  "w" :> <<"shorthand", "Word">> @@ "word" :> <<"shorthand", "Word">>
  @@ "d" :> <<"shorthand", "Digit">> @@ "digit" :> <<"shorthand", "Digit">>
  @@ "s" :> <<"shorthand", "Space">> @@ "space" :> <<"shorthand", "Space">>
  @@ "h" :> <<"shorthand", "HorizSpace">> @@ "horiz_space" :> <<"shorthand", "HorizSpace">>
  @@ "v" :> <<"shorthand", "VertSpace">> @@ "vert_space" :> <<"shorthand", "VertSpace">>
GroupNames == Shorthands @@ UnicodeNames

\* CharGroup::try_from_group_name
NamedGroup(ts, o, negative) ==
  LET units == ts[o].units
      name == units[1]
      ascii == units = <<"ascii">> \/ name \in AsciiNames
      known == Len(units) = 1 /\ name \in DOMAIN (IF ascii THEN AsciiGroup ELSE GroupNames)
  IN IF ascii /\ negative THEN Failed(o, ErrorAt("NegativeAsciiClass", ts[o]))
     ELSE IF Is(ts, o, "Dot") THEN Failed(o, ErrorAt("DotInSet", ts[o]))
     ELSE IF ~known THEN Failed(o, ErrorAt("UnknownNamedClass", ts[o]))
     ELSE Found(o + 1, IF ascii THEN AsciiGroup[name] ELSE <<NamedItem(GroupNames[name], negative)>>)

CharGroupIdent(ts, o, negative) ==
  IF ts[o].token \in {"Dot", "Identifier"} THEN NamedGroup(ts, o, negative)
  ELSE IF Is(ts, o, "ReservedName") THEN Failed(o, ErrorAt("UnexpectedKeyword", ts[o]))
  ELSE Absent(o)

\* parse_string_or_char: the value is the number of a string token or a code
\* point; ToChar turns it into a character or fails
StringOrChar(ts, o) ==
  LET special == ts[o].units[1]
      Char(c) == Found(c.at, <<"char", c.value>>)
  IN IF Is(ts, o, "String") THEN Found(o + 1, <<"string", o>>)
     ELSE OrElse(Then(CodePoint(ts, o), Char),
            IF Is(ts, o, "Identifier") /\ Len(ts[o].units) = 1 /\ special \in DOMAIN SpecialChars
            THEN Found(o + 1, <<"char", SpecialChars[special]>>) ELSE Absent(o))

CharsIn(units) == FoldLeft(LAMBDA n, u : n + (IF u \in AsciiAlnum THEN BytesOf(u) ELSE 1), 0, units)

ToChar(ts, value, o) ==
  LET Single(text) ==
        IF text.value = <<>> THEN Failed(o, ErrorAt("EmptyString", ts[value[2]]))
        ELSE IF CharsIn(text.value) > 1 THEN Failed(o, ErrorAt("TooManyCodePoints", ts[value[2]]))
        ELSE Found(o, CodeOf[text.value[1]])
  IN IF value[1] = "char" THEN Found(o, value[2]) ELSE Then(QuotedText(ts, value[2]), Single)

CharRange(ts, o, first, dash) ==      \* `first`, read at o, is followed by a dash
  LET To(second) ==
        Then(ToChar(ts, first.value, o), LAMBDA from :
          Then(ToChar(ts, second.value, dash + 1), LAMBDA to :
            IF from.value > to.value THEN Failed(o, Joined("DescendingRange", ts[o], ts[dash + 1]))
            ELSE Found(second.at, <<RangeItem(from.value, to.value)>>)))
  IN Then(OrElse(StringOrChar(ts, dash + 1), Failed(dash + 1, ErrorAt("ExpectedCodePoint", ts[dash + 1]))),
          To)

CharGroupCharsOrRange(ts, o) ==
  LET Chars(first) ==
        IF Is(ts, first.at, "Dash") THEN CharRange(ts, o, first, first.at)
        ELSE IF first.value[1] = "char" THEN Found(first.at, <<CharItem(first.value[2])>>)
        ELSE Then(QuotedText(ts, o), LAMBDA text :
               Found(first.at, [i \in DOMAIN text.value |-> CharItem(CodeOf[text.value[i]])]))
  IN Then(StringOrChar(ts, o), Chars)

\* The offset after a run of `!`
AfterNots(ts, o) ==
  LET i[j \in o .. Len(ts)] == IF Is(ts, j, "Not") THEN i[j + 1] ELSE j IN i[o]
IsOdd(n) == n % 2 # 0

\* One turn of the loop of parse_char_set_inner
CharSetItem(ts, o) ==
  LET at == AfterNots(ts, o)
      nots == at - o
      Refused(kind) == Failed(o, Joined(kind, ts[o], ts[at - 1]))
      Chars(chars) == IF nots > 0 THEN Refused("UnallowedNot") ELSE chars
      Named(named) == IF nots > 1 THEN Refused("UnallowedMultiNot") ELSE named
  IN OrElse(Then(CharGroupCharsOrRange(ts, at), Chars),
       OrElse(Then(CharGroupIdent(ts, at, IsOdd(nots)), Named),
         IF nots > 0 THEN Failed(at, ErrorAt("ExpectedIdentifier", ts[at])) ELSE Absent(o)))

CharSetInner(ts, o) ==
  LET items[j \in o .. Len(ts)] ==
        LET More(item) == Then(items[item.at], LAMBDA rest : Found(rest.at, item.value \o rest.value))
        IN OrElse(Then(CharSetItem(ts, j), More), Found(j, <<>>))
  IN items[o]

CharSet(ts, o) ==
  LET Closed(inner) ==
        IF ~Is(ts, inner.at, "CloseBracket")
        THEN Failed(inner.at, ErrorAt("ExpectedCharSetItem", ts[inner.at]))
        ELSE IF inner.value = <<>> THEN Failed(o, Joined("EmptyCharSet", ts[o], ts[inner.at]))
        ELSE Found(inner.at + 1, Node("class", <<>>, inner.value))
  IN IF ~Is(ts, o, "OpenBracket") THEN Absent(o)
     ELSE IF Is(ts, o + 1, "Caret") THEN Failed(o, ErrorAt("CaretInGroup", ts[o + 1]))
     ELSE Then(CharSetInner(ts, o + 1), Closed)

(***************************************************************************)
(* The other atoms                                                         *)
(***************************************************************************)
Text(ts, o, kind) == Then(QuotedText(ts, o), LAMBDA text : Found(o + 1, Node(kind, <<>>, text.value)))

StringAtom(ts, o) == IF Is(ts, o, "String") THEN Text(ts, o, "literal") ELSE Absent(o)

BoundaryKind == Table({<<"Caret", "Start">>, <<"Dollar", "End">>, <<"BWord", "Word">>})
BoundaryAtom(ts, o) ==
  IF ts[o].token \in DOMAIN BoundaryKind
  THEN Found(o + 1, Node("boundary", <<>>, <<BoundaryKind[ts[o].token]>>)) ELSE Absent(o)

Relative(number, sign) ==
  Then(number, LAMBDA n : Found(n.at, Node("reference", <<>>, <<"Relative", sign * n.value>>)))

ReferenceAtom(ts, o) ==
  LET Number(n) == Found(n.at, Node("reference", <<>>, <<"Number", n.value>>)) IN
  IF ~Is(ts, o, "DoubleColon") THEN Absent(o)
  ELSE IF Is(ts, o + 1, "Plus") THEN Relative(ExpectNumber(ts, o + 2, MaxOffset), 1)
  ELSE IF Is(ts, o + 1, "Dash") THEN Relative(ExpectNumber(ts, o + 2, MaxOffset), -1)
  ELSE OrElse(Then(ConsumeNumber(ts, o + 1, MaxRepetition), Number),
         IF ~Is(ts, o + 1, "Identifier") THEN Failed(o + 1, ErrorAt("ExpectedGroupName", ts[o + 1]))
         ELSE Found(o + 2, Node("reference", <<>>, <<"Named", ts[o + 1].units>>)))

CodePointAtom(ts, o) ==
  Then(CodePoint(ts, o), LAMBDA c : Found(c.at, Node("class", <<>>, <<CharItem(c.value)>>)))

\* The order of bounds: fewer digits first, then digit by digit
Precedes(a, b) ==
  \E i \in DOMAIN a : a[i] < b[i] /\ \A j \in 1 .. i - 1 : a[j] = b[j]
IsIncreasing(start, end) ==
  ~(Len(start) > Len(end) \/ (Len(start) = Len(end) /\ Precedes(end, start)))

RangeBounds(ts, o, radix, at) ==
  LET start == Inner(ts[o + 1].units)
      end == Inner(ts[o + 3].units)
  IN IF ~IsDigits(start, radix) THEN Failed(o, ErrorAt("InvalidDigit", ts[o + 1]))
     ELSE IF ~IsDigits(end, radix) THEN Failed(o, ErrorAt("InvalidDigit", ts[o + 3]))
     ELSE IF ~IsIncreasing(DigitsOf(start), DigitsOf(end))
     THEN Failed(o, Joined("RangeIsNotIncreasing", ts[o + 1], ts[o + 3]))
     ELSE Found(at, Node("range", <<>>, <<DigitsOf(start), DigitsOf(end), radix>>))

RangeAtom(ts, o) ==
  LET Based(base) ==
        IF base.value < 2 THEN Failed(o, ErrorAt("NumberTooSmall", ts[o + 5]))
        ELSE RangeBounds(ts, o, base.value, base.at)
  IN IF ~IsReserved(ts, o, "range") THEN Absent(o)
     ELSE IF ~Is(ts, o + 1, "String") THEN Failed(o, ErrorAt("ExpectedString", ts[o + 1]))
     ELSE IF ~Is(ts, o + 2, "Dash") THEN Failed(o, ErrorAt("ExpectedDash", ts[o + 2]))
     ELSE IF ~Is(ts, o + 3, "String") THEN Failed(o, ErrorAt("ExpectedString", ts[o + 3]))
     ELSE IF ~IsReserved(ts, o + 4, "base") THEN RangeBounds(ts, o, 10, o + 4)
     ELSE Then(ExpectNumber(ts, o + 5, 36), Based)

RegexAtom(ts, o) ==
  IF ~IsReserved(ts, o, "regex") THEN Absent(o)
  ELSE IF ~Is(ts, o + 1, "String") THEN Failed(o, ErrorAt("ExpectedString", ts[o + 1]))
  ELSE Text(ts, o + 1, "regex")

VariableAtom(ts, o) ==
  IF Is(ts, o, "Identifier") THEN Found(o + 1, Node("variable", <<>>, <<ts[o].units>>))
  ELSE Absent(o)

DotAtom(ts, o) == IF Is(ts, o, "Dot") THEN Found(o + 1, Node("dot", <<>>, <<>>)) ELSE Absent(o)

\* parse_atom after parse_group: the first that does not come back empty-handed
FirstPresent(results) ==
  LET i == SelectInSeq(results, LAMBDA r : r.is # "absent") IN
  IF i = 0 THEN results[1] ELSE results[i]
LeafAtom(ts, o) ==
  FirstPresent(<<StringAtom(ts, o), CharSet(ts, o), BoundaryAtom(ts, o), ReferenceAtom(ts, o),
                 CodePointAtom(ts, o), RangeAtom(ts, o), RegexAtom(ts, o), VariableAtom(ts, o),
                 DotAtom(ts, o)>>)

(***************************************************************************)
(* Repetitions                                                             *)
(***************************************************************************)
RepetitionSymbol ==
  Table({<<"Plus", <<1, Unbounded>>>>, <<"Star", <<0, Unbounded>>>>, <<"QuestionMark", <<0, 1>>>>})

\* `{2}`, `{2,}`, `{,2}` or `{2,5}`: the value is the pair of bounds
Bounds(ts, o, lower, upper) ==
  LET low == IF lower.is = "found" THEN lower.value ELSE 0
      high == IF upper.is = "found" THEN upper.value ELSE Unbounded
      n == IF lower.is = "found" THEN low ELSE high
      Closed(bounds) ==
        IF Is(ts, upper.at, "CloseBrace") THEN Found(upper.at + 1, bounds)
        ELSE Failed(o, ErrorAt("ExpectedCloseBrace", ts[upper.at]))
  IN IF upper.is = "failed" THEN upper
     ELSE IF Is(ts, lower.at, "Comma")
     THEN IF high # Unbounded /\ low > high
          THEN Failed(o, Joined("NotAscending", ts[o + 1], ts[upper.at - 1]))
          ELSE Closed(<<low, high>>)
     ELSE IF lower.is = "found" /\ upper.is = "found"
     THEN Failed(o, ErrorAt("ExpectedBraceOrComma", ts[upper.at - 1]))
     ELSE IF lower.is = "absent" /\ upper.is = "absent"
     THEN Failed(o, ErrorAt("ExpectedNumber", ts[o + 1]))
     ELSE Closed(<<n, n>>)

Braces(ts, o) ==
  LET Upto(lower) ==
        IF lower.is = "failed" THEN lower
        ELSE Bounds(ts, o, lower, ConsumeNumber(ts, After(ts, lower.at, "Comma"), MaxRepetition))
  IN IF Is(ts, o, "OpenBrace") THEN Upto(ConsumeNumber(ts, o + 1, MaxRepetition)) ELSE Absent(o)

QuantifierWord(ts, o) ==
  IF IsReserved(ts, o, "greedy") THEN "Greedy" ELSE IF IsReserved(ts, o, "lazy") THEN "Lazy"
  ELSE "Default"

\* parse_repetition: absent, or <<lower, upper, quantifier>>
Repetition(ts, o) ==
  LET Quantified(kind) ==
        LET quantifier == QuantifierWord(ts, kind.at)
            at == IF quantifier = "Default" THEN kind.at ELSE kind.at + 1
            Again(braces) == Failed(at, Joined("MultiRepetition", ts[at], ts[braces.at - 1]))
        IN IF ts[at].token \in {"Plus", "Star"} THEN Failed(at, ErrorAt("MultiRepetition", ts[at]))
           ELSE IF Is(ts, at, "QuestionMark") THEN Failed(at, ErrorAt("QmSuffix", ts[at]))
           ELSE OrElse(Then(Braces(ts, at), Again), Found(at, kind.value \o <<quantifier>>))
  IN Then(IF ts[o].token \in DOMAIN RepetitionSymbol
          THEN Found(o + 1, RepetitionSymbol[ts[o].token]) ELSE Braces(ts, o),
          Quantified)
=============================================================================
