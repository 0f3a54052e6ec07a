------------------------------- MODULE Lexer -------------------------------
(***************************************************************************)
(* tokenize() of pomsky-syntax: a source text becomes a list of tokens     *)
(* with the byte range of each.                                            *)
(*                                                                         *)
(* A text is a sequence of units.  A unit is a character, or a run of      *)
(* letters or of digits that no rule of the lexer takes apart; what the    *)
(* lexer asks of a character is a set it is in, and the number of bytes it *)
(* has.  The lexer counts in bytes and slices the text at byte offsets, so *)
(* a wrong length lands inside a character, which makes Rust panic:        *)
(* UnitAt is 0 there.                                                      *)
(***************************************************************************)
EXTENDS Integers, Sequences, TLC, SequencesExt

CONSTANTS
  Letters,       \* runs of ASCII letters other than those in HexLetters
  HexLetters,    \* runs of the letters a-f and A-F
  Numerals,      \* runs of ASCII digits
  WideLetters,   \* alphabetic characters of more than one byte
  Blanks,        \* white space, "newline" included
  Symbols,       \* characters no rule of the lexer mentions
  ByteLength     \* the bytes of each unit that has more than one

(***************************************************************************)
(* Classes of units                                                        *)
(***************************************************************************)
BytesOf(u) == IF u \in DOMAIN ByteLength THEN ByteLength[u] ELSE 1
AsciiHexDigits == HexLetters \cup Numerals
AsciiAlnum == Letters \cup AsciiHexDigits
WordStart == Letters \cup HexLetters \cup WideLetters \cup {"_"}
WordPart == WordStart \cup Numerals

Punctuation == {"<", ">", "%", ":", "^", "$", "*", "+", "?", "|", "(", ")", "{", "}", "[", "]", ",", "!",
                "-", ".", ";", "=", "#", "'", "\"", "\\", "_"}
Units == WordPart \cup Blanks \cup Symbols \cup Punctuation
Texts == Seq(Units)

\* The characters that the lexer names are ASCII
ASSUME BytesAssumption ==
  /\ \A u \in DOMAIN ByteLength : ByteLength[u] \in Nat \ {0}
  /\ DOMAIN ByteLength \cap Punctuation = {}

ReservedWords == {"let", "lazy", "greedy", "range", "base", "atomic", "enable",
                  "disable", "if", "else", "recursion", "regex"}

\* The function that has these pairs
Table(pairs) == [x \in {p[1] : p \in pairs} |-> (CHOOSE p \in pairs : p[1] = x)[2]]

PairToken ==
  Table({<<<<"<", "%">>, "DeprStart">>, <<<<"%", ">">>, "DeprEnd">>, <<<<">", ">">>, "LookAhead">>,
         <<<<"<", "<">>, "LookBehind">>, <<<<":", ":">>, "DoubleColon">>})

SingleToken ==
  Table({<<"^", "Caret">>, <<"$", "Dollar">>, <<"%", "BWord">>, <<"*", "Star">>, <<"+", "Plus">>,
         <<"?", "QuestionMark">>, <<"|", "Pipe">>, <<":", "Colon">>, <<")", "CloseParen">>,
         <<"{", "OpenBrace">>, <<"}", "CloseBrace">>, <<",", "Comma">>, <<"!", "Not">>,
         <<"[", "OpenBracket">>, <<"-", "Dash">>, <<"]", "CloseBracket">>, <<".", "Dot">>,
         <<";", "Semicolon">>, <<"=", "Equals">>})

(***************************************************************************)
(* The errors of LexErrorMsg, which the lexer reports as a token, and the  *)
(* error token without a message.                                          *)
(***************************************************************************)
GroupErrors ==
  {"GroupNonCapturing", "GroupLookahead", "GroupLookaheadNeg", "GroupLookbehind",
   "GroupLookbehindNeg", "GroupNamedCapture", "GroupPcreBackreference", "GroupComment",
   "GroupAtomic", "GroupConditional", "GroupBranchReset", "GroupSubroutineCall", "GroupOther"}
BackslashErrors ==
  {"Backslash", "BackslashU4", "BackslashX2", "BackslashUnicode", "BackslashProperty",
   "BackslashGK"}
LexErrors == GroupErrors \cup BackslashErrors \cup {"UnclosedString", "DeprStart", "DeprEnd", "Error"}

(***************************************************************************)
(* Positions.  begin[i] is the byte at which unit i starts; the last entry *)
(* is the length of the text.                                              *)
(***************************************************************************)
Begins(t) ==
  LET b[i \in 1 .. Len(t) + 1] == IF i = 1 THEN 0 ELSE b[i - 1] + BytesOf(t[i - 1]) IN b

UnitAt(begin, byte) ==
  IF \E i \in DOMAIN begin : begin[i] = byte
  THEN CHOOSE i \in DOMAIN begin : begin[i] = byte ELSE 0

At(t, i) == IF i \in DOMAIN t THEN t[i] ELSE "end"

(***************************************************************************)
(* MicroRegex: automata that match a prefix and never backtrack.  A match  *)
(* that starts at unit i is given by the unit after it, a failure by 0.    *)
(***************************************************************************)
Many0(t, i, class) == Min({j \in i .. Len(t) + 1 : j = Len(t) + 1 \/ t[j] \notin class})
Many1(t, i, class) == LET j == Many0(t, i, class) IN IF j > i THEN j ELSE 0
Starts(t, i, units) ==
  IF i > 0 /\ i + Len(units) - 1 <= Len(t) /\ SubSeq(t, i, i + Len(units) - 1) = units
  THEN i + Len(units) ELSE 0
Times(t, i, n, class) ==
  IF i + n - 1 <= Len(t) /\ \A j \in i .. i + n - 1 : t[j] \in class /\ BytesOf(t[j]) = 1
  THEN i + n ELSE 0
Enclosed(t, i, open, class, close) ==
  LET o == Starts(t, i, open)
      m == IF o = 0 THEN 0 ELSE Many1(t, o, class)
  IN IF m = 0 THEN 0 ELSE Starts(t, m, close)
AnyOf(ends) == IF ends \subseteq {0} THEN 0 ELSE CHOOSE e \in ends : e # 0

\* The first alternative, in the order of the list, that matches
FirstMatch(alternatives) ==
  alternatives[Min({k \in DOMAIN alternatives : alternatives[k][1] # 0})]

(***************************************************************************)
(* Regex syntax that Pomsky does not have, recognised to be explained:     *)
(* groups that begin with `(?` and escapes.  i is the unit after `(?`, or  *)
(* after the backslash.                                                    *)
(***************************************************************************)
SpecialGroup(t, i) ==
  LET ident == AsciiAlnum \cup {"-", "+"}
      inside == Units \ {")"}
      comment == IF Starts(t, i, <<"#">>) = 0 THEN 0
                 ELSE Starts(t, Many0(t, i + 1, inside), <<")">>)
  IN FirstMatch(<<
       <<Starts(t, i, <<":">>), "GroupNonCapturing">>,
       <<Starts(t, i, <<"=">>), "GroupLookahead">>,
       <<Starts(t, i, <<"!">>), "GroupLookaheadNeg">>,
       <<Starts(t, i, <<">">>), "GroupAtomic">>,
       <<Starts(t, i, <<"(">>), "GroupConditional">>,
       <<Starts(t, i, <<"|">>), "GroupBranchReset">>,
       <<Starts(t, i, <<"<", "=">>), "GroupLookbehind">>,
       <<Starts(t, i, <<"<", "!">>), "GroupLookbehindNeg">>,
       <<AnyOf({Enclosed(t, i, open, ident, <<">">>) : open \in {<<"P", "<">>, <<"<">>}}),
         "GroupNamedCapture">>,
       <<Enclosed(t, i, <<"'">>, ident, <<"'">>), "GroupNamedCapture">>,
       <<Enclosed(t, i, <<"P", "=">>, ident, <<")">>), "GroupPcreBackreference">>,
       <<AnyOf({Starts(t, i, <<"P", ">">>), Starts(t, i, <<"&">>)}), "GroupSubroutineCall">>,
       <<comment, "GroupComment">>,
       <<i, "GroupOther">> >>)

Escape(t, i) ==
  LET ident == AsciiAlnum \cup {"-", "+", "_"}
      c == At(t, i)
      braces == Enclosed(t, i + 1, <<"{">>, ident, <<"}">>)
      sign == IF At(t, i + 1) \in {"-", "+"} THEN 1 ELSE 0
  IN FirstMatch(<<
       <<IF c \in {"u", "x"} THEN Enclosed(t, i + 1, <<"{">>, AsciiHexDigits, <<"}">>) ELSE 0,
         "BackslashUnicode">>,
       <<IF c = "u" THEN Times(t, i + 1, 4, AsciiHexDigits) ELSE 0, "BackslashU4">>,
       <<IF c = "x" THEN Times(t, i + 1, 2, AsciiHexDigits) ELSE 0, "BackslashX2">>,
       <<IF c \in {"k", "g"}
         THEN AnyOf({Enclosed(t, i + 1, <<"<">>, ident, <<">">>), braces,
                     Enclosed(t, i + 1, <<"'">>, ident, <<"'">>),
                     Times(t, i + 1 + sign, 1, Numerals)})
         ELSE 0, "BackslashGK">>,
       <<IF c \in {"p", "P"}
         THEN AnyOf({Times(t, i + 1, 1, AsciiAlnum), braces,
                     Enclosed(t, i + 1, <<"{", "^">>, ident, <<"}">>)})
         ELSE 0, "BackslashProperty">>,
       <<i + 1, "Backslash">> >>)

(***************************************************************************)
(* Quoted text.  find() gives the byte of the closing quote, counted from  *)
(* the byte after the opening one; -1 when there is none.  In double       *)
(* quotes a backslash hides the character after it, whatever its length.   *)
(***************************************************************************)
FindQuote(t, begin, i) ==
  LET quotes == {j \in i + 1 .. Len(t) : t[j] = "'"} IN
  IF quotes = {} THEN -1 ELSE begin[Min(quotes)] - (begin[i] + 1)

\* Mutant: every character has one byte.
EscapedLengthMutant(next) == 2

\* The bytes find_unescaped_quote moves on by when it meets a backslash
EscapedLength(next) == 1 + BytesOf(next)

FindUnescapedQuote(t, begin, i) ==
  LET None == Len(t) + 1
      step == [j \in 1 .. Len(t) |->
                 IF t[j] # "\\" THEN j + 1
                 ELSE IF j = Len(t) THEN None
                 ELSE UnitAt(begin, begin[j] + EscapedLength(t[j + 1]))]
      from[j \in 0 .. None] ==      \* the closing quote when the search is at unit j
        IF j = 0 THEN 0 ELSE IF j = None THEN None
        ELSE IF t[j] = "\"" THEN j ELSE from[step[j]]
      quote == from[i + 1]
  IN IF quote = None THEN -1 ELSE IF quote = 0 THEN -2 ELSE begin[quote] - (begin[i] + 1)

(***************************************************************************)
(* consume_chain!: the length in bytes and the token at unit i             *)
(***************************************************************************)
ErrorLength(c) == BytesOf(c)

Quoted(t, begin, i, inner) ==
  IF inner = -1 THEN <<begin[Len(t) + 1] - begin[i], "UnclosedString">>
  ELSE <<inner + 2, "String">>

CodePointEnd(t, i) ==
  IF Starts(t, i, <<"U", "+">>) = 0 THEN 0 ELSE Many1(t, i + 2, AsciiHexDigits)

Lexeme(t, begin, i) ==
  LET c == t[i]
      pair == <<c, At(t, i + 1)>>
      Match(m) == <<begin[m[1]] - begin[i], m[2]>>
      Word(end) == <<end, IF end = i + 1 /\ c \in ReservedWords THEN "ReservedName" ELSE "Identifier">>
  IN CASE pair \in DOMAIN PairToken -> <<2, PairToken[pair]>>
       [] pair \notin DOMAIN PairToken /\ c \in DOMAIN SingleToken -> <<1, SingleToken[c]>>
       [] c = "'" -> Quoted(t, begin, i, FindQuote(t, begin, i))
       [] c = "\"" -> Quoted(t, begin, i, FindUnescapedQuote(t, begin, i))
       [] CodePointEnd(t, i) # 0 -> Match(<<CodePointEnd(t, i), "CodePoint">>)
       [] c \in Numerals -> Match(<<Many1(t, i, Numerals), "Number">>)
       [] CodePointEnd(t, i) = 0 /\ c \in WordStart -> Match(Word(Many0(t, i + 1, WordPart)))
       [] pair = <<"(", "?">> -> Match(SpecialGroup(t, i + 2))
       [] c = "(" /\ pair # <<"(", "?">> -> <<1, "OpenParen">>
       [] c = "\\" /\ i < Len(t) -> Match(Escape(t, i + 1))
       [] OTHER -> <<ErrorLength(c), "Error">>

\* trim_start and the comments: the first unit that belongs to a token
SkipBlanks(t, i) ==
  LET comment == Units \ {"newline"}
      skip[j \in 1 .. Len(t) + 1] ==
        LET k == Many0(t, j, Blanks) IN
        IF At(t, k) # "#" THEN k ELSE skip[Many0(t, k, comment)]
  IN skip[i]
=============================================================================
