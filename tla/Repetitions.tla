---------------------------- MODULE Repetitions ----------------------------
(***************************************************************************)
(* Bounds of repetitions, and what regex/optimize.rs makes of a repetition *)
(* of a repetition.                                                        *)
(***************************************************************************)
EXTENDS Integers

CONSTANT MaxCount    \* u32::MAX, where saturating_mul stops

ASSUME MaxCountAssumption == MaxCount \in Nat \ {0, 1}

\* upper_bound: None.
Unbounded == -1
Bounds(lower, upper) == [lower |-> lower, upper |-> upper]
RepetitionKind ==
  {kind \in [lower : 0 .. MaxCount, upper : (0 .. MaxCount) \cup {Unbounded}] :
     kind.upper = Unbounded \/ kind.lower <= kind.upper}

Smaller(m, n) == IF m <= n THEN m ELSE n
SaturatingMul(m, n) == Smaller(m * n, MaxCount)
Optional == Bounds(0, 1)
\* The pattern `lower_bound: 0 | 1`.
AtMostOne(kind) == kind.lower <= 1
Endless(kind) == kind.upper = Unbounded

\* Mutant: every two bounds are combined.
ReducibleMutant(outer, inner) == TRUE

\* reduce_repetitions returns a bound, by one of its four arms,
Reducible(outer, inner) ==
  \/ AtMostOne(outer) /\ AtMostOne(inner)
  \/ Endless(outer) /\ Endless(inner)

\* and this is the bound it returns.
Reduced(outer, inner) ==
  LET lower == Smaller(inner.lower, outer.lower) IN
  IF AtMostOne(outer) /\ AtMostOne(inner) THEN
    IF Endless(outer) \/ Endless(inner) THEN Bounds(lower, Unbounded)
    ELSE IF inner = Optional THEN Bounds(0, outer.upper)
    ELSE IF outer = Optional THEN Bounds(0, inner.upper)
    ELSE Bounds(lower, SaturatingMul(outer.upper, inner.upper))
  ELSE Bounds(SaturatingMul(outer.lower, inner.lower), Unbounded)

-----------------------------------------------------------------------------
(***************************************************************************)
(* What it should return.                                                  *)
(***************************************************************************)

\* A repetition matches its content n times.
Allows(kind, n) == kind.lower <= n /\ (Endless(kind) \/ n <= kind.upper)

\* n is the sum of k numbers that the repetition allows.
AllowsTimes(kind, k, n) ==
  /\ k * kind.lower <= n
  /\ IF Endless(kind) THEN k = 0 => n = 0 ELSE n <= k * kind.upper

\* A repetition of a repetition matches the innermost content n times.
AllowsNested(outer, inner, n) ==
  \E k \in Nat : Allows(outer, k) /\ AllowsTimes(inner, k, n)

\* The reductions that lose no match and add none.  Those that are left out repeat
\* an endless repetition no times, or no times endlessly, or endlessly, perhaps not
\* at all, what has to occur twice.
Sound(outer, inner) ==
  /\ outer.upper = 0 => ~Endless(inner)
  /\ Endless(outer) => inner.upper # 0
  /\ Endless(outer) /\ Endless(inner) /\ outer.lower = 0 => AtMostOne(inner)

\* No product is too large for its type.
Fits(outer, inner) ==
  outer.lower * inner.lower <= MaxCount /\ outer.upper * inner.upper <= MaxCount
=============================================================================
