--------------------------- MODULE RangeCompiler ---------------------------
(***************************************************************************)
(* The compilation of `range 'a'-'b'`: range() turns two lists of digits   *)
(* into a rule that matches the numbers between them, one digit of both at *)
(* a time, and merges alternatives on the way.                             *)
(*                                                                         *)
(* Where the code would fail a debug assertion, subtract below zero or     *)
(* make a class that ends before it starts, the rule is Bug.               *)
(***************************************************************************)
EXTENDS Integers, Sequences
LOCAL INSTANCE SequencesExt

Empty == [is |-> "empty"]
Bug == [is |-> "bug"]
Class(start, end) ==
  IF 0 <= start /\ start <= end THEN [is |-> "class", start |-> start, end |-> end] ELSE Bug
Alt(alternatives) == [is |-> "alt", alternatives |-> alternatives]

Repeat(rule, min, max) ==
  IF min < 0 \/ min > max \/ rule = Bug THEN Bug
  ELSE IF max = 0 THEN Empty
  ELSE IF max = 1 /\ min = 1 THEN rule
  ELSE [is |-> "repeat", rule |-> rule, min |-> min, max |-> max]

Optional(rule) ==
  IF rule.is = "repeat" /\ rule.min <= 1 THEN [rule EXCEPT !.min = 0] ELSE Repeat(rule, 0, 1)

(***************************************************************************)
(* merge_and_optimize_alternatives                                         *)
(***************************************************************************)
\* Two equal parts become a repetition, and an empty second part goes away
Simplified(parts) ==
  IF Len(parts) = 2 /\ parts[1] = parts[2] THEN <<Repeat(parts[1], 2, 2)>>
  ELSE IF Len(parts) = 2 /\ parts[2] = Empty THEN <<parts[1]>>
  ELSE parts

\* The same after a merge, when a class may be followed by its own repetition
SimplifiedMerge(class, rest) ==
  IF class = rest THEN <<Repeat(class, 2, 2)>>
  ELSE IF rest.is = "repeat" /\ rest.rule = class THEN <<Repeat(class, rest.min + 1, rest.max + 1)>>
  ELSE <<class, rest>>

Mergeable(last, parts) ==
  /\ Len(last) = 2 /\ Len(parts) = 2
  /\ last[1].is = "class" /\ parts[1].is = "class"
  /\ last[2] = parts[2]

\* Consecutive classes with the same rest become one class
MergeAlternative(merged, alternative) ==
  LET parts == Simplified(alternative)
      last == merged[Len(merged)]
  IN IF merged = <<>> \/ ~Mergeable(last, parts) THEN Append(merged, parts)
     ELSE IF last[1].end + 1 # parts[1].start THEN Append(merged, <<Bug>>)
     ELSE [merged EXCEPT ![Len(merged)] =
             SimplifiedMerge(Class(last[1].start, parts[1].end), last[2])]

MergeAlternatives(alternatives) ==
  LET merged == FoldLeft(MergeAlternative, <<>>, alternatives) IN
  IF Len(merged) = 1 /\ Len(merged[1]) = 1 THEN merged[1][1] ELSE Alt(merged)

(***************************************************************************)
(* range()                                                                 *)
(***************************************************************************)
Digits(digit, count) == [i \in 1 .. count |-> digit]
Smaller(a, b) == \E i \in DOMAIN a : a[i] < b[i] /\ \A j \in 1 .. i - 1 : a[j] = b[j]
InOrder(a, b) == Len(a) < Len(b) \/ (Len(a) = Len(b) /\ ~Smaller(b, a))
Lower(x, y) == IF x < y THEN x ELSE y
Upper(x, y) == IF x < y THEN y ELSE x

\* 1. a first digit below those of both bounds: the number must be longer
BelowBoth(min, isFirst, la, lb, hi) ==
  LET lo == IF isFirst THEN 1 ELSE 0 IN
  IF min > lo /\ la < lb THEN <<<<Class(lo, min - 1), Repeat(Class(0, hi), la + 1, lb)>>>> ELSE <<>>

\* Mutant: a number that begins with a larger digit may be as long as the bound.
AboveBothMutant(max, la, lb, hi) ==
  IF max < hi /\ la < lb THEN <<<<Class(max + 1, hi), Repeat(Class(0, hi), la, lb)>>>> ELSE <<>>

\* 5. a first digit above those of both bounds: the number must be shorter
AboveBoth(max, la, lb, hi) ==
  IF max < hi /\ la < lb THEN <<<<Class(max + 1, hi), Repeat(Class(0, hi), la, lb - 1)>>>> ELSE <<>>

\* 2. to 4.: the first digit is that of a bound, or between them; rule[x, y]
\* is range() of the digits that are left
BetweenBoth(a, b, isFirst, radix, rule) ==
  LET ax == a[1]  bx == b[1]
      aRest == Tail(a)  bRest == Tail(b)
      la == Len(aRest)  lb == Len(bRest)
      hi == radix - 1
      min == Lower(ax, bx)  max == Upper(ax, bx)
      any == Class(0, hi)
  IN IF ax = bx THEN <<<<Class(ax, bx), rule[aRest, bRest, FALSE]>>>>
     ELSE IF ax < bx
     THEN (IF isFirst /\ ax = 0 /\ aRest = <<>> THEN <<<<Class(0, 0)>>>>
           ELSE <<<<Class(min, min), rule[aRest, Digits(hi, lb), FALSE]>>>>)
          \o (IF max - min >= 2 THEN <<<<Class(min + 1, max - 1), Repeat(any, la, lb)>>>> ELSE <<>>)
          \o <<<<Class(max, max), rule[Digits(0, la), bRest, FALSE]>>>>
     ELSE <<<<Class(min, min), rule[Digits(0, Len(a)), bRest, FALSE]>>>>
          \o (IF max - min >= 2 /\ la + 2 <= lb
              THEN <<<<Class(min + 1, max - 1), Repeat(any, la + 1, lb - 1)>>>> ELSE <<>>)
          \o <<<<Class(max, max), rule[aRest, Digits(hi, lb - 1), FALSE]>>>>

RangeRule(start, end, radix) ==
  LET rule[a \in Seq(0 .. radix - 1), b \in Seq(0 .. radix - 1), isFirst \in BOOLEAN] ==
        LET la == Len(a) - 1
            lb == Len(b) - 1
        IN IF ~InOrder(a, b) THEN Bug
           ELSE IF b = <<>> THEN Empty
           ELSE IF a = <<>> THEN Optional(rule[<<0>>, b, FALSE])
           ELSE IF la = 0 /\ lb = 0 THEN Class(a[1], b[1])
           ELSE MergeAlternatives(
                  BelowBoth(Lower(a[1], b[1]), isFirst, la, lb, radix - 1)
                  \o BetweenBoth(a, b, isFirst, radix, rule)
                  \o AboveBoth(Upper(a[1], b[1]), la, lb, radix - 1))
  IN rule[start, end, TRUE]

(***************************************************************************)
(* Class::to_regex: the characters of a class of digits, as pairs of the   *)
(* first and the last of each item                                         *)
(***************************************************************************)
DigitChar(d) == d + 48
LowerChar(d) == d + 97 - 10
UpperChar(d) == d + 65 - 10
DigitCharItems(a, b) ==
  IF b <= 9 THEN <<<<DigitChar(a), DigitChar(b)>>>>
  ELSE IF a >= 10 THEN <<<<LowerChar(a), LowerChar(b)>>, <<UpperChar(a), UpperChar(b)>>>>
  ELSE <<<<DigitChar(a), 57>>, <<97, LowerChar(b)>>, <<65, UpperChar(b)>>>>
=============================================================================
