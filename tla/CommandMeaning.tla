--------------------------- MODULE CommandMeaning ---------------------------
(***************************************************************************)
(* The meaning of character sets and ranges, in the source and in the      *)
(* regex, by definitions that know nothing of the code in between.         *)
(***************************************************************************)
EXTENDS CommandSafety
R == INSTANCE RangeCompiler

\* Just before the passes run
Parsed == doing = "compiling" /\ phase = "validate" /\ work = <<C!Validate(1)>>
NodesOf(kind) == {n \in DOMAIN nodes : nodes[n].kind = kind}

(***************************************************************************)
(* Character sets.  Chars has characters with a special meaning in some    *)
(* regex, and of each category, so that no two of the named sets agree.    *)
(***************************************************************************)
Chars == {9, 10, 11, 32, 38, 45, 48, 57, 65, 91, 92, 93, 94, 95, 97, 98, 99, 120, 122, 124, 126, 127,
          133, 160, 170, 769, 945, 1632, 8232, 8255, 128512}
CategoryMembers ==
  "Alphabetic" :> {65, 97, 98, 99, 120, 122, 170, 945} @@ "Mark" :> {769}
  @@ "Decimal_Number" :> {48, 57, 1632} @@ "Connector_Punctuation" :> {95, 8255}
  @@ "Space_Separator" :> {32, 160} @@ "Separator" :> {32, 160, 8232} @@ "Greek" :> {945}
  @@ "Latin" :> {65, 97, 98, 99, 120, 122, 170} @@ "InLatin" :> {97, 98} @@ "Space" :> {9, 10, 11, 32, 133, 160, 8232}
  @@ "VertSpace" :> {10, 11, 133, 8232}
MembersOf ==
  LET m == CategoryMembers IN
  m @@ "Digit" :> m["Decimal_Number"] @@ "HorizSpace" :> {9} \cup m["Space_Separator"]
  @@ "Word" :> m["Alphabetic"] \cup m["Mark"] \cup m["Decimal_Number"] \cup m["Connector_Punctuation"]

Complement(negative, set) == IF negative THEN Chars \ set ELSE set

\* In the source
ItemMembers(item) ==
  IF item.is = "named" THEN Complement(item.negative, MembersOf[item.name[2]])
  ELSE Chars \cap item.first .. item.last
ClassMembers(n) ==
  Complement(nodes[n].negative, UNION {ItemMembers(item) : item \in Range(nodes[n].value)})

\* In the regex, as an engine reads it.  A character is raw or escaped; raw
\* ones have a meaning: brackets, a dash between two, a caret in front, and in
\* some flavors two of a kind in a row are an operator on sets.
IsChar(symbol) == symbol[1] \in {"raw", "esc"}
SetOperators(f) ==
  IF f = "Rust" THEN {38, 45, 126} ELSE IF f \in {"Java", "Ruby"} THEN {38} ELSE {}
Misread(inner, f) ==
  \/ \E i \in DOMAIN inner : inner[i][1] = "raw" /\ inner[i][2] \in {91, 92, 93}
  \/ \E i \in 1 .. Len(inner) - 1 :
       inner[i] = inner[i + 1] /\ inner[i][1] = "raw" /\ inner[i][2] \in SetOperators(f)

\* The set of the inner symbols from the i-th on
SetMembers(inner) ==
  LET members[i \in 1 .. Len(inner) + 1] ==
        IF i > Len(inner) THEN {}
        ELSE IF ~IsChar(inner[i])
        THEN Complement(inner[i][3], MembersOf[inner[i][2][2]]) \cup members[i + 1]
        ELSE IF i + 2 <= Len(inner) /\ inner[i + 1] = <<"raw", 45, FALSE>> /\ IsChar(inner[i + 2])
        THEN (Chars \cap inner[i][2] .. inner[i + 2][2]) \cup members[i + 3]
        ELSE (Chars \cap {inner[i][2]}) \cup members[i + 1]
  IN members[1]

IsSet(symbols) == Head(symbols) = <<"raw", 91, FALSE>>
InnerSymbols(symbols) ==
  LET inner == SubSeq(symbols, 2, Len(symbols) - 1) IN
  IF Head(inner) = <<"raw", 94, FALSE>> THEN Tail(inner) ELSE inner
ReadMembers(symbols) ==
  IF IsSet(symbols)
  THEN Complement(symbols[2] = <<"raw", 94, FALSE>>, SetMembers(InnerSymbols(symbols)))
  ELSE SetMembers(symbols)

\* Two tildes in a row, which are an operator in Rust and are not escaped
TildesMeet(symbols) ==
  \E i \in 1 .. Len(symbols) - 1 : symbols[i] = symbols[i + 1] /\ symbols[i] = <<"raw", 126, FALSE>>

\* A character set that compiles matches, in every flavor, the characters it
\* names: every special character is escaped where it has to be, and what a
\* named class is rewritten to in a flavor is the same set (char_class.rs:97-161,
\* 188-437, literal.rs:19-57).
ClassFaithful ==
  Parsed =>
    \A n \in NodesOf("class") : CompiledClass(n).error = "none" =>
      LET symbols == K!PrintClass(CompiledClass(n).regex, args.flavor) IN
      \/ args.flavor = "Rust" /\ TildesMeet(symbols)
      \/ /\ IsSet(symbols) => ~Misread(InnerSymbols(symbols), args.flavor)
         /\ ReadMembers(symbols) = ClassMembers(n)

\* "if the class is negative, it can't contain both `w` and `!w`, where `w` is
\* any group name that can be negated" (char_class.rs:173-174)
NoOpposites ==
  Parsed =>
    \A n \in NodesOf("class") : nodes[n].negative /\ CompiledClass(n).error = "none" =>
      \A a, b \in Range(nodes[n].value) :
        a.is = "named" /\ b.is = "named" /\ a.name = b.name => a.negative = b.negative

(***************************************************************************)
(* Ranges.  A word is a sequence of digits; a rule that reads a word from  *)
(* the positions `from` can stop at the positions RuleEnds.                *)
(***************************************************************************)
RECURSIVE RuleEnds(_, _, _), PartEnds(_, _, _), RepeatEnds(_, _, _, _)
RuleEnds(rule, word, from) ==
  CASE rule.is = "empty" -> from
    [] rule.is = "class" ->
         {i + 1 : i \in {j \in from : j <= Len(word) /\ word[j] \in rule.start .. rule.end}}
    [] rule.is = "alt" -> UNION {PartEnds(parts, word, from) : parts \in Range(rule.alternatives)}
    [] rule.is = "repeat" -> RepeatEnds(rule, word, from, 0)
PartEnds(parts, word, from) ==
  IF parts = <<>> THEN from ELSE PartEnds(Tail(parts), word, RuleEnds(Head(parts), word, from))
RepeatEnds(rule, word, from, n) ==
  (IF n >= rule.min THEN from ELSE {})
  \cup (IF n = rule.max THEN {} ELSE RepeatEnds(rule, word, RuleEnds(rule.rule, word, from), n + 1))

\* A class of digits is written as the characters of these digits, in upper
\* and in lower case, and no others
Spelled(d) == IF d <= 9 THEN {48 + d} ELSE {87 + d, 55 + d}
Written(class) == {c \in 32 .. 126 : \E i \in Range(R!DigitCharItems(class.start, class.end)) : c \in i[1] .. i[2]}
RECURSIVE ClassesIn(_)
ClassesIn(rule) ==
  CASE rule.is = "class" -> {rule}
    [] rule.is = "repeat" -> ClassesIn(rule.rule)
    [] rule.is = "alt" -> UNION {UNION {ClassesIn(part) : part \in Range(parts)} : parts \in Range(rule.alternatives)}
    [] OTHER -> {}
WellSpelled(rule) ==
  \A class \in ClassesIn(rule) : Written(class) = UNION {Spelled(d) : d \in class.start .. class.end}

Accepts(rule, word) == Len(word) + 1 \in RuleEnds(rule, word, {1})

ValueOf(word, radix) == FoldLeft(LAMBDA n, digit : n * radix + digit, 0, word)
IsPlain(word) == word # <<>> /\ (Len(word) = 1 \/ word[1] # 0)
WordsUpTo(radix, n) == UNION {[1 .. k -> 0 .. radix - 1] : k \in 0 .. n}

\* The regex of a range "exactly match[es] a string containing a number in a
\* certain range" (range.rs:35-36): of all words of digits, it accepts the
\* numbers between the bounds, written without leading zeros, or, when both
\* bounds have as many digits, with as many digits as these.
RangeExact ==
  Parsed =>
    \A n \in NodesOf("range") :
      LET start == nodes[n].value[1]
          end == nodes[n].value[2]
          radix == nodes[n].value[3]
          rule == R!RangeRule(start, end, radix)
          Formed(word) == IF Len(start) = Len(end) THEN Len(word) = Len(end) ELSE IsPlain(word)
          Within(word) == ValueOf(word, radix) \in ValueOf(start, radix) .. ValueOf(end, radix)
      IN Len(start) = Len(end) \/ (IsPlain(start) /\ IsPlain(end)) =>
         /\ WellSpelled(rule)
         /\ \A word \in WordsUpTo(radix, Len(end) + 1) :
              Accepts(rule, word) <=> Formed(word) /\ Within(word)
=============================================================================
