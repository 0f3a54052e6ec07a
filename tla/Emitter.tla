------------------------------ MODULE Emitter ------------------------------
(***************************************************************************)
(* The end of Expr::compile: the regex tree that compiling the rules has   *)
(* built is optimized in place and then printed.                           *)
(*                                                                         *)
(* A tree is a record with its kind.  Leaves have a text, a sequence of    *)
(* letters; what is printed as one unit, such as a character class or a    *)
(* reference, is an "item".  All others have parts.  Since the value of a  *)
(* variable is compiled into the place where it is used, every tree may be *)
(* a part of every other tree.                                             *)
(***************************************************************************)
EXTENDS Repetitions, SequencesExt

CONSTANTS Trees,     \* what the rules are compiled to
          Flavors

VARIABLES source,    \* the tree before it was optimized
          flavor,
          pc,        \* what is done next
          compiled,  \* the tree
          count,     \* what optimize has returned
          buf        \* what has been printed

vars == <<source, flavor, pc, compiled, count, buf>>

Literal(text) == [kind |-> "literal", text |-> text]
Unescaped(text) == [kind |-> "unescaped", text |-> text]
Item(text) == [kind |-> "item", text |-> text]
Boundary(text) == [kind |-> "boundary", text |-> text]
Normal(parts) == [kind |-> "normal", parts |-> parts]
Capture(name, part) == [kind |-> "capture", name |-> name, parts |-> <<part>>]
Atomic(part) == [kind |-> "atomic", parts |-> <<part>>]
Alternation(parts) == [kind |-> "alternation", parts |-> parts]
Lookaround(opening, content) ==
  [kind |-> "lookaround", name |-> opening, parts |-> <<content>>]
Repetition(content, bounds, quantifier) ==
  [kind |-> "repetition", parts |-> <<content>>, bounds |-> bounds, quantifier |-> quantifier]

GroupKinds == {"normal", "capture", "atomic"}
Content(regex) == regex.parts[1]

-----------------------------------------------------------------------------
(***************************************************************************)
(* Regex::optimize.  It returns how much the tree matches, roughly: where  *)
(* it is Zero, the caller should remove the tree.                          *)
(***************************************************************************)
Counts == {"Zero", "One", "Many"}
Optimized(regex, n) == [regex |-> regex, count |-> n]

AddCount(m, n) ==
  CASE m = "Zero" -> n
    [] n = "Zero" -> m
    [] OTHER -> "Many"

LiteralCount(text) ==
  CASE Len(text) = 0 -> "Zero"
    [] Len(text) = 1 -> "One"
    [] OTHER -> "Many"

\* Mutant: an empty capturing group is removed.
GroupCountMutant(group, n) == IF group.parts = <<>> THEN "Zero" ELSE n

GroupCount(group, n) ==
  CASE group.kind = "capture" -> "One"
    [] group.kind # "capture" /\ group.parts = <<>> -> "Zero"
    [] OTHER -> n

\* The parts of a group are optimized and those that are Zero are removed; a group
\* that does nothing is replaced by its only part.
OptimizeGroup(group, parts) ==
  LET kept == SelectSeq(parts, LAMBDA part : part.count # "Zero")
      rest == [group EXCEPT !.parts = [i \in DOMAIN kept |-> kept[i].regex]]
      sum == FoldLeft(LAMBDA n, part : AddCount(n, part.count), "Zero", parts)
  IN IF Len(kept) = 1 /\ group.kind = "normal" /\ kept[1].regex.kind # "unescaped"
     THEN Optimized(kept[1].regex, sum)
     ELSE Optimized(rest, GroupCount(rest, sum))

\* A repetition and its only content become one repetition.
Merges(outer, content) ==
  /\ content.count = "One"
  /\ content.regex.kind = "repetition"
  /\ content.regex.quantifier = outer.quantifier
  /\ Reducible(outer.bounds, content.regex.bounds)

OptimizeRepetition(outer, content) ==
  CASE content.count = "Zero" ->
         Optimized([outer EXCEPT !.parts = <<content.regex>>], "Zero")
    [] Merges(outer, content) ->
         Optimized([content.regex EXCEPT
                      !.bounds = Reduced(outer.bounds, content.regex.bounds)], "One")
    [] OTHER -> Optimized([outer EXCEPT !.parts = <<content.regex>>], "One")

RECURSIVE OptimizeRegex(_)
OptimizeRegex(regex) ==
  LET parts == [i \in DOMAIN regex.parts |-> OptimizeRegex(regex.parts[i])]
      changed == [regex EXCEPT !.parts = [i \in DOMAIN parts |-> parts[i].regex]]
  IN CASE regex.kind = "literal" -> Optimized(regex, LiteralCount(regex.text))
       [] regex.kind = "unescaped" -> Optimized(regex, "Many")
       [] regex.kind \in {"item", "boundary"} -> Optimized(regex, "One")
       [] regex.kind \in GroupKinds -> OptimizeGroup(regex, parts)
       [] regex.kind = "lookaround" -> Optimized(changed, "One")
       [] regex.kind = "alternation" ->
            IF Len(regex.parts) = 1 THEN parts[1] ELSE Optimized(changed, "One")
       [] regex.kind = "repetition" ->
            IF regex.bounds = Bounds(1, 1) THEN parts[1]
            ELSE OptimizeRepetition(regex, parts[1])

-----------------------------------------------------------------------------
(***************************************************************************)
(* Regex::codegen.  It prints tokens: letters, parentheses and what opens  *)
(* a group, bars, and quantifiers.                                         *)
(***************************************************************************)
Token(text) == <<text>>
Quantified(bounds, quantifier) == <<"quantifier", bounds, quantifier>>
Tokens(text) == [i \in DOMAIN text |-> Token(text[i])]
Enclosed(opening, tokens) == <<opening>> \o tokens \o <<Token(")")>>
InParens(needed, tokens) == IF needed THEN Enclosed(Token("(?:"), tokens) ELSE tokens

NeedsParensInSequence(regex) == regex.kind = "alternation"

\* Mutant: nothing is put in parentheses to be repeated but what has several parts.
RECURSIVE NeedsParensMutant(_)
NeedsParensMutant(regex) ==
  CASE regex.kind = "literal" -> Len(regex.text) # 1
    [] regex.kind = "normal" -> Len(regex.parts) # 1 \/ NeedsParensMutant(regex.parts[1])
    [] OTHER -> regex.kind \in {"alternation", "boundary", "unescaped"}

RECURSIVE NeedsParensBeforeRepetition(_)
NeedsParensBeforeRepetition(regex) ==
  CASE regex.kind = "literal" -> Len(regex.text) # 1
    [] regex.kind = "normal" ->
         Len(regex.parts) # 1 \/ NeedsParensBeforeRepetition(regex.parts[1])
    [] regex.kind = "lookaround" -> flavor = "JavaScript"
    [] OTHER -> regex.kind \in {"repetition", "alternation", "boundary", "unescaped"}

\* A quantifier that says how often exactly has no use for `?`.
QuantifierTokens(bounds, quantifier) ==
  LET printed == IF bounds.lower = bounds.upper THEN "Greedy" ELSE quantifier
  IN IF bounds = Bounds(1, 1) THEN <<>> ELSE <<Quantified(bounds, printed)>>

RECURSIVE CodegenRegex(_)
CodegenRegex(regex) ==
  LET parts == [i \in DOMAIN regex.parts |-> CodegenRegex(regex.parts[i])]
      needsParens(part) ==
        IF Len(parts) = 1 THEN part.kind = "unescaped" ELSE NeedsParensInSequence(part)
  IN CASE regex.kind \in {"literal", "unescaped", "item", "boundary"} -> Tokens(regex.text)
       [] regex.kind = "capture" -> Enclosed(<<"(", regex.name>>, FlattenSeq(parts))
       [] regex.kind = "atomic" -> Enclosed(Token("(?>"), FlattenSeq(parts))
       [] regex.kind = "lookaround" -> Enclosed(Token(regex.name), parts[1])
       [] regex.kind = "normal" ->
            FlattenSeq([i \in DOMAIN parts |-> InParens(needsParens(regex.parts[i]), parts[i])])
       [] regex.kind = "alternation" ->
            Front(FlattenSeq([i \in DOMAIN parts |-> Append(parts[i], Token("|"))]))
       [] regex.kind = "repetition" ->
            IF Content(regex) = Literal(<<>>) THEN <<>>
            ELSE InParens(NeedsParensBeforeRepetition(Content(regex)), parts[1])
                   \o QuantifierTokens(regex.bounds, regex.quantifier)

-----------------------------------------------------------------------------
(***************************************************************************)
(* What Repetition::compile has refused for Ruby, when a tree is handed    *)
(* over: the check looks at the content as it is before optimize.          *)
(***************************************************************************)
LeafKinds == {"literal", "unescaped", "item", "boundary"}

RECURSIVE ResultIsEmpty(_)
ResultIsEmpty(regex) ==
  CASE regex.kind \in {"literal", "unescaped"} -> regex.text = <<>>
    [] regex.kind \in GroupKinds ->
         \A i \in DOMAIN regex.parts : ResultIsEmpty(regex.parts[i])
    [] OTHER -> FALSE

RECURSIVE IsAssertion(_)
IsAssertion(regex) ==
  CASE regex.kind \in {"lookaround", "boundary"} -> TRUE
    [] regex.kind = "normal" ->
         LET nonEmpty == SelectSeq(regex.parts, LAMBDA part : ~ResultIsEmpty(part))
         IN Len(nonEmpty) = 1 /\ IsAssertion(nonEmpty[1])
    [] regex.kind = "alternation" -> \E i \in DOMAIN regex.parts : IsAssertion(regex.parts[i])
    [] OTHER -> FALSE

RECURSIVE RepeatsAssertion(_)
RepeatsAssertion(regex) ==
  /\ regex.kind \notin LeafKinds
  /\ \/ regex.kind = "repetition" /\ IsAssertion(Content(regex))
     \/ \E i \in DOMAIN regex.parts : RepeatsAssertion(regex.parts[i])

-----------------------------------------------------------------------------
Init ==
  /\ source \in Trees
  /\ flavor \in Flavors
  /\ flavor = "Ruby" => ~RepeatsAssertion(source)
  /\ pc = "optimize"
  /\ compiled = source
  /\ count = "Zero"
  /\ buf = <<>>

Optimize ==
  /\ pc = "optimize"
  /\ compiled' = OptimizeRegex(compiled).regex
  /\ count' = OptimizeRegex(compiled).count
  /\ pc' = "codegen"
  /\ UNCHANGED <<source, flavor, buf>>

Codegen ==
  /\ pc = "codegen" /\ count # "Zero"
  /\ buf' = CodegenRegex(compiled)
  /\ pc' = "done"
  /\ UNCHANGED <<source, flavor, compiled, count>>

\* An empty regex is not printed at all.
PrintNothing ==
  /\ pc = "codegen" /\ count = "Zero"
  /\ pc' = "done"
  /\ UNCHANGED <<source, flavor, compiled, count, buf>>

Returned ==
  /\ pc = "done"
  /\ UNCHANGED vars

Next == Optimize \/ Codegen \/ PrintNothing \/ Returned

Spec == Init /\ [][Next]_vars
=============================================================================
