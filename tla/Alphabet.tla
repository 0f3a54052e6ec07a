------------------------------ MODULE Alphabet ------------------------------
(***************************************************************************)
(* The units of the source texts that the model checker compiles, what     *)
(* they are, and how texts are put together.                               *)
(***************************************************************************)
EXTENDS Lexer

\* Units
MCLetters == ReservedWords \cup
  {"x", "z", "w", "s", "h", "v", "Z", "n", "U", "k", "p", "u", "P", "Greek", "Latin", "InLatin", "Alphabetic",
   "ascii_lower", "ascii_long", "long"}
MCHexLetters == {"a", "b", "c", "d", "f", "F"}
MCNumerals == {"0", "1", "2", "3", "9", "36", "37", "65535", "65536", "100"}
MCWideLetters == {"eacute"}
MCBlanks == {" ", "newline", "nbsp"}
MCSymbols == {"emoji", "@", "&", "~"}
MCByteLength ==
  "eacute" :> 2 @@ "emoji" :> 4 @@ "nbsp" :> 2 @@ "65535" :> 5 @@ "65536" :> 5 @@ "100" :> 3 @@ "36" :> 2 @@ "37" :> 2
  @@ "let" :> 3 @@ "lazy" :> 4 @@ "greedy" :> 6 @@ "range" :> 5 @@ "base" :> 4 @@ "atomic" :> 6
  @@ "enable" :> 6 @@ "disable" :> 7 @@ "if" :> 2 @@ "else" :> 4 @@ "recursion" :> 9 @@ "regex" :> 5
  @@ "Greek" :> 5 @@ "Latin" :> 5 @@ "InLatin" :> 7 @@ "Alphabetic" :> 10 @@ "ascii_lower" :> 11
  @@ "ascii_long" :> 10 @@ "long" :> 33
MCDecimalValue ==
  "0" :> 0 @@ "1" :> 1 @@ "2" :> 2 @@ "3" :> 3 @@ "9" :> 9 @@ "65535" :> 65535 @@ "65536" :> 65536
  @@ "100" :> 100 @@ "36" :> 36 @@ "37" :> 37
MCHexValue ==
  "0" :> 0 @@ "1" :> 1 @@ "2" :> 2 @@ "3" :> 3 @@ "9" :> 9 @@ "a" :> 10 @@ "b" :> 11 @@ "c" :> 12
  @@ "d" :> 13 @@ "f" :> 15 @@ "F" :> 15 @@ "100" :> 256 @@ "36" :> 54 @@ "37" :> 55
MCCodeOf ==
  "x" :> 120 @@ "z" :> 122 @@ "a" :> 97 @@ "b" :> 98 @@ "c" :> 99 @@ "-" :> 45 @@ "]" :> 93 @@ "[" :> 91
  @@ "^" :> 94 @@ "\\" :> 92 @@ "&" :> 38 @@ "|" :> 124 @@ "~" :> 126 @@ "emoji" :> 128512 @@ "nbsp" :> 160
  @@ "eacute" :> 233 @@ "@" :> 64 @@ " " :> 32 @@ "1" :> 49
MCAsciiNames == {"ascii_lower", "ascii_long"}
MCUnicodeNames ==
  "Z" :> <<"category", "Separator">> @@ "Greek" :> <<"script", "Greek">>
  @@ "InLatin" :> <<"block", "InLatin">> @@ "Alphabetic" :> <<"other", "Alphabetic">>

\* Texts.  A chunk is a sequence of units.
TextsOf(chunks, n) == {FlattenSeq(list) : list \in UNION {[1 .. k -> chunks] : k \in 0 .. n}}
Each(set) == {<<u>> : u \in set}
Quote(units) == <<"'">> \o units \o <<"'">>
X == Quote(<<"x">>)
=============================================================================
