--------------------------- MODULE EmitterSafety ---------------------------
(***************************************************************************)
(* What a tree and what a printed regex match, and that the optimizer and  *)
(* the printer preserve it.                                                *)
(*                                                                         *)
(* A language is the sequence of the words that are matched, in the order  *)
(* in which a backtracking engine tries them, cut off after MaxLength      *)
(* symbols.  The symbols of a word are letters, and where a group that is  *)
(* more than a pair of parentheses begins and ends.                        *)
(***************************************************************************)
EXTENDS Emitter, FiniteSets

CONSTANT MaxLength

-----------------------------------------------------------------------------
(***************************************************************************)
(* Languages.                                                              *)
(***************************************************************************)
\* Every word where it first occurs.
RECURSIVE Distinct(_)
Distinct(words) ==
  IF words = <<>> THEN <<>>
  ELSE <<Head(words)>> \o SelectSeq(Distinct(Tail(words)), LAMBDA word : word # Head(words))

Language(words) == Distinct(SelectSeq(words, LAMBDA word : Len(word) <= MaxLength))

Empty == <<<<>>>>
Only(symbol) == <<<<symbol>>>>
Prefixed(prefix, words) == [i \in DOMAIN words |-> prefix \o words[i]]

RECURSIVE Products(_, _)
Products(first, second) ==
  IF first = <<>> THEN <<>>
  ELSE Prefixed(Head(first), second) \o Products(Tail(first), second)

Both(first, second) == Language(Products(first, second))
Either(first, second) == Language(first \o second)

RECURSIVE InSequence(_)
InSequence(languages) ==
  IF languages = <<>> THEN Empty ELSE Both(Head(languages), InSequence(Tail(languages)))

\* A group marks the words of its content.
Marked(opening, language) ==
  Language([i \in DOMAIN language |-> <<opening>> \o language[i] \o <<Token(")")>>])

\* An atomic group has no effect on what is empty.
MarkedAtomic(language) == IF language = Empty THEN Empty ELSE Marked(Token("(?>"), language)

\* Rounds that are required come first.  Any other is taken, if the quantifier is
\* greedy, or left out, if it is lazy, as long as that leads to a match, and has to
\* match something.
RECURSIVE Repeated(_, _, _, _)
Repeated(language, required, allowed, quantifier) ==
  LET again(words) ==
        Both(words, Repeated(language, IF required = 0 THEN 0 ELSE required - 1,
                             allowed - 1, quantifier))
      round == SelectSeq(language, LAMBDA word : word # <<>>)
  IN CASE allowed = 0 -> Empty
       [] allowed > 0 /\ required > 0 -> again(language)
       [] allowed > 0 /\ required = 0 /\ quantifier = "Greedy" -> Either(again(round), Empty)
       [] allowed > 0 /\ required = 0 /\ quantifier = "Lazy" -> Either(Empty, again(round))

\* More than MaxLength optional rounds make no difference.
Rounds(language, bounds, quantifier) ==
  LET allowed == IF Endless(bounds) THEN bounds.lower + MaxLength ELSE bounds.upper
  IN Repeated(language, bounds.lower, allowed, quantifier)

-----------------------------------------------------------------------------
(***************************************************************************)
(* What a tree matches.                                                    *)
(***************************************************************************)
BarAt(text) == SelectInSeq(text, LAMBDA letter : letter = "|")

\* A regex that is printed verbatim has at most one bar and no groups.
TextLanguage(text) ==
  IF BarAt(text) = 0 THEN <<Tokens(text)>>
  ELSE <<Tokens(SubSeq(text, 1, BarAt(text) - 1)),
         Tokens(SubSeq(text, BarAt(text) + 1, Len(text)))>>

RECURSIVE Matches(_)
Matches(regex) ==
  LET parts == [i \in DOMAIN regex.parts |-> Matches(regex.parts[i])]
      sequence == InSequence(parts)
  IN CASE regex.kind \in {"literal", "unescaped", "item", "boundary"} ->
            TextLanguage(regex.text)
       [] regex.kind = "normal" -> sequence
       [] regex.kind = "capture" -> Marked(<<"(", regex.name>>, sequence)
       [] regex.kind = "atomic" -> MarkedAtomic(sequence)
       [] regex.kind = "lookaround" -> Marked(Token(regex.name), sequence)
       [] regex.kind = "alternation" -> Language(FlattenSeq(parts))
       [] regex.kind = "repetition" -> Rounds(parts[1], regex.bounds, regex.quantifier)

-----------------------------------------------------------------------------
(***************************************************************************)
(* What the engine takes the printed tokens for.                           *)
(***************************************************************************)
Lookarounds == {Token("(?="), Token("(?!"), Token("(?<="), Token("(?<!")}
IsMarking(token) == token \in Lookarounds \/ token[1] = "("
IsOpening(token) == IsMarking(token) \/ token \in {Token("(?:"), Token("(?>")}
IsQuantifier(token) == token[1] = "quantifier"
Assertions == {Token("^"), Token("$"), Token("\\b"), Token("\\B")}

\* How many groups are open after the first n tokens.
Depth(tokens, n) ==
  Cardinality({m \in 1 .. n : IsOpening(tokens[m])})
    - Cardinality({m \in 1 .. n : tokens[m] = Token(")")})

\* What the tokens begin with ends where no group is open any more.
AtomEnd(tokens) ==
  CHOOSE n \in DOMAIN tokens :
    Depth(tokens, n) = 0 /\ \A m \in 1 .. n - 1 : Depth(tokens, m) # 0

Bars(tokens) == {n \in DOMAIN tokens : tokens[n] = Token("|") /\ Depth(tokens, n) = 0}

\* There is nothing to repeat, or what may not be repeated.
Misplaced(tokens) ==
  \/ IsQuantifier(tokens[1])
  \/ /\ Len(tokens) > AtomEnd(tokens)
     /\ IsQuantifier(tokens[AtomEnd(tokens) + 1])
     /\ tokens[1] \in Assertions \/ (flavor = "JavaScript" /\ tokens[1] \in Lookarounds)

Refused == Only(Token("syntax error"))

RECURSIVE Parsed(_)
Parsed(tokens) ==
  IF Bars(tokens) # {} THEN
    LET bar == CHOOSE n \in Bars(tokens) : \A m \in Bars(tokens) : n <= m
    IN Either(Parsed(SubSeq(tokens, 1, bar - 1)), Parsed(SubSeq(tokens, bar + 1, Len(tokens))))
  ELSE IF tokens = <<>> THEN Empty
  ELSE IF Misplaced(tokens) THEN Refused
  ELSE
    LET end == AtomEnd(tokens)
        inner == Parsed(SubSeq(tokens, 2, end - 1))
        atom == CASE tokens[1] = Token("(?:") -> inner
                  [] tokens[1] = Token("(?>") -> MarkedAtomic(inner)
                  [] IsMarking(tokens[1]) -> Marked(tokens[1], inner)
                  [] OTHER -> Only(tokens[1])
        repeated == Len(tokens) > end /\ IsQuantifier(tokens[end + 1])
        quantifier == tokens[end + 1]
    IN IF repeated
       THEN Both(Rounds(atom, quantifier[2], quantifier[3]),
                 Parsed(SubSeq(tokens, end + 2, Len(tokens))))
       ELSE Both(atom, Parsed(SubSeq(tokens, end + 1, Len(tokens))))

-----------------------------------------------------------------------------
(***************************************************************************)
(* Properties.                                                             *)
(***************************************************************************)
\* optimize removes empty parts and groups and combines repetitions, and yet the
\* tree matches the same words, and prefers the same ones, as before.
OptimizePreserves == pc = "codegen" => Matches(compiled) = Matches(source)

\* What codegen prints, with parentheses only where they are needed, is parsed by
\* the engine into what the optimized tree stands for: no bar reaches further than
\* its alternation, no quantifier applies to more or less than its content or to
\* what cannot be repeated, and what is not printed matches the empty text only.
CodegenFaithful == pc = "done" => Parsed(buf) = Matches(compiled)

RECURSIVE CapturesOf(_)
CapturesOf(regex) ==
  CASE regex.kind \in {"literal", "unescaped", "item", "boundary"} -> <<>>
    [] regex.kind = "capture" -> <<regex.name>> \o CapturesOf(Content(regex))
    [] OTHER -> FlattenSeq([i \in DOMAIN regex.parts |-> CapturesOf(regex.parts[i])])

\* The capturing groups of the rules are all printed, each once and in their order,
\* even an empty one or one that can never match: references have been resolved to
\* their numbers before optimize runs.
CapturesKept ==
  pc = "done" =>
    LET openings == SelectSeq(buf, LAMBDA token : token[1] = "(")
    IN CapturesOf(source) = [i \in DOMAIN openings |-> openings[i][2]]

\* "In Ruby, disallow repeated assertions (boundaries or lookarounds)" (CHANGELOG.md):
\* what Repetition::compile refuses in the content of a repetition does not appear when
\* optimize removes the empty parts next to an assertion.
AssertionsNotRepeated ==
  flavor = "Ruby" /\ pc # "optimize" => ~RepeatsAssertion(compiled)
=============================================================================
