-------------------------- MODULE RepetitionProofs --------------------------
(***************************************************************************)
(* reduce_repetitions returns the right bound, for all bounds but those    *)
(* that the definition of Sound leaves out, and a wrong one for these.     *)
(***************************************************************************)
EXTENDS Repetitions, TLAPS

\* Products of natural numbers are natural numbers and grow with their factors.
LEMMA Products ==
  /\ \A m, n \in Nat : m * n \in Nat
  /\ \A k, m, n \in Nat : m <= n => k * m <= k * n /\ m * k <= n * k
<1>1. \A m, n \in Nat : m * n \in Nat
  OBVIOUS
<1>2. ASSUME NEW k \in Nat, NEW m \in Nat, NEW n \in Nat, m <= n
      PROVE  k * m <= k * n /\ m * k <= n * k
  <2>1. n - m \in Nat
    BY <1>2
  <2>2. k * (n - m) \in Nat
    BY <1>1, <2>1
  <2>3. k * (n - m) = k * n - k * m
    OBVIOUS
  <2>4. k * n \in Nat /\ k * m \in Nat /\ m * k = k * m /\ n * k = k * n
    BY <1>1
  <2> QED
    BY <2>2, <2>3, <2>4
<1> QED
  BY <1>1, <1>2

LEMMA Numbers ==
  ASSUME NEW kind \in RepetitionKind
  PROVE  /\ kind.lower \in Nat
         /\ kind.upper \in Nat \/ Endless(kind)
         /\ ~Endless(kind) => kind.upper \in Nat /\ kind.lower <= kind.upper
  BY MaxCountAssumption DEF RepetitionKind, Endless, Unbounded

\* The number of rounds that proves that a repetition of an endless repetition, or
\* an endless repetition of one, allows a number.
LEMMA EndlessReduced ==
  ASSUME NEW outer \in RepetitionKind, NEW inner \in RepetitionKind, NEW n \in Nat,
         AtMostOne(outer), AtMostOne(inner), Endless(outer) \/ Endless(inner),
         Sound(outer, inner)
  PROVE  AllowsNested(outer, inner, n) <=> Smaller(inner.lower, outer.lower) <= n
<1>1. /\ outer.lower \in {0, 1} /\ inner.lower \in {0, 1}
      /\ Endless(outer) \/ (outer.upper \in Nat /\ outer.lower <= outer.upper)
      /\ Endless(inner) \/ (inner.upper \in Nat /\ inner.lower <= inner.upper)
  BY Numbers DEF AtMostOne
<1>2. ASSUME AllowsNested(outer, inner, n) PROVE Smaller(inner.lower, outer.lower) <= n
  <2>1. PICK k \in Nat : outer.lower <= k /\ k * inner.lower <= n
    BY <1>2 DEF AllowsNested, Allows, AllowsTimes
  <2> QED
    BY <1>1, <2>1 DEF Smaller
<1>3. ASSUME Smaller(inner.lower, outer.lower) <= n PROVE AllowsNested(outer, inner, n)
  <2>1. CASE n = 0
    <3>1. outer.lower = 0 \/ inner.lower = 0
      BY <1>1, <1>3, <2>1 DEF Smaller
    <3>2. CASE outer.lower = 0
      BY <1>1, <2>1, <3>2 DEF AllowsNested, Allows, AllowsTimes, Endless, Unbounded
    <3>3. CASE inner.lower = 0 /\ outer.lower = 1
      <4>1. Allows(outer, 1)
        BY <1>1, <3>3 DEF Allows
      <4>2. AllowsTimes(inner, 1, 0)
        BY <1>1, <3>3 DEF AllowsTimes
      <4> QED
        BY <2>1, <4>1, <4>2 DEF AllowsNested
    <3> QED
      BY <1>1, <3>1, <3>2, <3>3
  <2>2. CASE n > 0 /\ Endless(inner)
    <3>1. Allows(outer, 1)
      BY <1>1, <2>2 DEF Allows, Sound, Endless, Unbounded
    <3>2. AllowsTimes(inner, 1, n)
      BY <1>1, <2>2 DEF AllowsTimes
    <3> QED
      BY <3>1, <3>2 DEF AllowsNested
  <2>3. CASE n > 0 /\ ~Endless(inner)
    <3>1. Endless(outer) /\ inner.upper \in Nat \ {0}
      BY <1>1, <2>3 DEF Sound
    <3>2. Allows(outer, n)
      BY <1>1, <2>3, <3>1 DEF Allows
    <3>3. n <= n * inner.upper
      BY <3>1, Products
    <3>4. AllowsTimes(inner, n, n)
      BY <1>1, <2>3, <3>3 DEF AllowsTimes
    <3> QED
      BY <3>2, <3>4 DEF AllowsNested
  <2> QED
    BY <2>1, <2>2, <2>3
<1> QED
  BY <1>2, <1>3

\* Two bounded repetitions, of at most one round at least, multiply.
LEMMA BoundedReduced ==
  ASSUME NEW outer \in RepetitionKind, NEW inner \in RepetitionKind, NEW n \in Nat,
         AtMostOne(outer), AtMostOne(inner), ~Endless(outer), ~Endless(inner)
  PROVE  AllowsNested(outer, inner, n)
           <=> Smaller(inner.lower, outer.lower) <= n /\ n <= outer.upper * inner.upper
<1> DEFINE o == outer.upper
           i == inner.upper
<1>1. /\ outer.lower \in {0, 1} /\ inner.lower \in {0, 1}
      /\ o \in Nat /\ outer.lower <= o
      /\ i \in Nat /\ inner.lower <= i
  BY Numbers DEF AtMostOne
<1>2. ASSUME AllowsNested(outer, inner, n)
      PROVE  Smaller(inner.lower, outer.lower) <= n /\ n <= o * i
  <2>1. PICK k \in Nat : /\ outer.lower <= k /\ k <= o
                         /\ k * inner.lower <= n /\ n <= k * i
    BY <1>2 DEF AllowsNested, Allows, AllowsTimes
  <2>2. k * i <= o * i /\ k * i \in Nat /\ o * i \in Nat
    BY <1>1, <2>1, Products
  <2>3. n <= o * i
    BY <2>1, <2>2
  <2>4. Smaller(inner.lower, outer.lower) <= n
    BY <1>1, <2>1 DEF Smaller
  <2> QED
    BY <2>3, <2>4
<1>3. ASSUME Smaller(inner.lower, outer.lower) <= n, n <= o * i
      PROVE  AllowsNested(outer, inner, n)
  <2>1. CASE inner.lower = 0
    <3>1. Allows(outer, o)
      BY <1>1 DEF Allows
    <3>2. AllowsTimes(inner, o, n)
      BY <1>1, <1>3, <2>1 DEF AllowsTimes
    <3> QED
      BY <1>1, <3>1, <3>2 DEF AllowsNested
  <2>2. CASE inner.lower = 1 /\ n <= o
    <3>1. Allows(outer, n)
      BY <1>1, <1>3, <2>2 DEF Allows, Smaller
    <3>2. n <= n * i
      BY <1>1, <2>2, Products
    <3>3. AllowsTimes(inner, n, n)
      BY <2>2, <3>2 DEF AllowsTimes
    <3> QED
      BY <3>1, <3>3 DEF AllowsNested
  <2>3. CASE inner.lower = 1 /\ n > o
    <3>1. Allows(outer, o)
      BY <1>1 DEF Allows
    <3>2. AllowsTimes(inner, o, n)
      BY <1>1, <1>3, <2>3 DEF AllowsTimes
    <3> QED
      BY <1>1, <3>1, <3>2 DEF AllowsNested
  <2> QED
    BY <1>1, <2>1, <2>2, <2>3
<1> QED
  BY <1>2, <1>3

\* Two endless repetitions multiply their lower bounds.
LEMMA LowerReduced ==
  ASSUME NEW outer \in RepetitionKind, NEW inner \in RepetitionKind, NEW n \in Nat,
         Endless(outer), Endless(inner), Sound(outer, inner)
  PROVE  AllowsNested(outer, inner, n) <=> outer.lower * inner.lower <= n
<1> DEFINE o == outer.lower
           i == inner.lower
<1>1. o \in Nat /\ i \in Nat
  BY Numbers
<1>2. CASE o = 0
  <2>1. AtMostOne(inner)
    BY <1>2 DEF Sound
  <2>2. Smaller(i, o) <= n
    BY <1>1, <1>2 DEF Smaller
  <2>3. o * i = 0
    BY <1>1, <1>2
  <2> QED
    BY <1>2, <2>1, <2>2, <2>3, EndlessReduced DEF AtMostOne
<1>3. CASE o # 0
  <2>1. ASSUME AllowsNested(outer, inner, n) PROVE o * i <= n
    <3>1. PICK k \in Nat : o <= k /\ k * i <= n
      BY <2>1 DEF AllowsNested, Allows, AllowsTimes
    <3>2. o * i <= k * i /\ o * i \in Nat /\ k * i \in Nat
      BY <1>1, <3>1, Products
    <3> QED
      BY <3>1, <3>2
  <2>2. ASSUME o * i <= n PROVE AllowsNested(outer, inner, n)
    <3>1. Allows(outer, o)
      BY <1>1 DEF Allows
    <3>2. AllowsTimes(inner, o, n)
      BY <1>3, <2>2 DEF AllowsTimes
    <3> QED
      BY <1>1, <3>1, <3>2 DEF AllowsNested
  <2> QED
    BY <1>3, <2>1, <2>2
<1> QED
  BY <1>2, <1>3

\* Wherever reduce_repetitions returns a bound for two bounds that Sound admits,
\* and no product saturates, the new repetition matches exactly as often as the
\* two nested ones.
THEOREM ReductionSound ==
  ASSUME NEW outer \in RepetitionKind, NEW inner \in RepetitionKind,
         Reducible(outer, inner), Sound(outer, inner), Fits(outer, inner), NEW n \in Nat
  PROVE  Allows(Reduced(outer, inner), n) <=> AllowsNested(outer, inner, n)
<1>1. /\ outer.lower \in Nat /\ inner.lower \in Nat
      /\ Endless(outer) \/ (outer.upper \in Nat /\ outer.lower <= outer.upper)
      /\ Endless(inner) \/ (inner.upper \in Nat /\ inner.lower <= inner.upper)
  BY Numbers
<1>2. CASE AtMostOne(outer) /\ AtMostOne(inner) /\ (Endless(outer) \/ Endless(inner))
  BY <1>1, <1>2, EndlessReduced DEF Allows, Reduced, Bounds, Endless, Unbounded
<1>3. CASE AtMostOne(outer) /\ AtMostOne(inner) /\ ~(Endless(outer) \/ Endless(inner))
  <2>1. Reduced(outer, inner)
          = Bounds(Smaller(inner.lower, outer.lower), outer.upper * inner.upper)
    <3>1. CASE inner = Optional
      BY <1>1, <1>3, <3>1 DEF Reduced, Bounds, Optional, Smaller
    <3>2. CASE inner # Optional /\ outer = Optional
      BY <1>1, <1>3, <3>2 DEF Reduced, Bounds, Optional, Smaller
    <3>3. CASE inner # Optional /\ outer # Optional
      <4>1. SaturatingMul(outer.upper, inner.upper) = outer.upper * inner.upper
        BY <1>1, <1>3, Products, MaxCountAssumption DEF Fits, SaturatingMul, Smaller
      <4> QED
        BY <1>3, <3>3, <4>1 DEF Reduced
    <3> QED
      BY <3>1, <3>2, <3>3
  <2>2. ~Endless(Reduced(outer, inner))
    BY <1>1, <1>3, <2>1, Products DEF Bounds, Endless, Unbounded
  <2> QED
    BY <1>3, <2>1, <2>2, BoundedReduced DEF Allows, Bounds
<1>4. CASE ~(AtMostOne(outer) /\ AtMostOne(inner))
  <2>1. Endless(outer) /\ Endless(inner)
    BY <1>4 DEF Reducible
  <2>2. SaturatingMul(outer.lower, inner.lower) = outer.lower * inner.lower
    BY <1>1, Products, MaxCountAssumption DEF Fits, SaturatingMul, Smaller
  <2>3. outer.lower # 0
    BY <1>4, <2>1 DEF Sound, AtMostOne
  <2> QED
    BY <1>4, <2>1, <2>2, <2>3, LowerReduced DEF Allows, Reduced, Bounds, Endless, Unbounded
<1> QED
  BY <1>2, <1>3, <1>4

\* And wherever it returns a bound for two bounds that Sound leaves out, such as
\* those of `('a'{2,})*` or `('a'*){0}`, the bound is wrong: it allows one match of
\* the content, and the nested repetitions do not.
THEOREM ReductionUnsound ==
  ASSUME NEW outer \in RepetitionKind, NEW inner \in RepetitionKind,
         Reducible(outer, inner), ~Sound(outer, inner)
  PROVE  Allows(Reduced(outer, inner), 1) /\ ~AllowsNested(outer, inner, 1)
<1>1. /\ outer.lower \in Nat /\ inner.lower \in Nat
      /\ Endless(outer) \/ (outer.upper \in Nat /\ outer.lower <= outer.upper)
      /\ Endless(inner) \/ (inner.upper \in Nat /\ inner.lower <= inner.upper)
  BY Numbers
<1>2. ASSUME outer.lower * inner.lower = 0 \/ (AtMostOne(outer) /\ AtMostOne(inner)),
             Endless(outer) \/ Endless(inner),
             outer.lower = 0 \/ inner.lower = 0
      PROVE  Allows(Reduced(outer, inner), 1)
  BY <1>1, <1>2, MaxCountAssumption
     DEF Allows, Reduced, Bounds, SaturatingMul, Smaller, Endless, Unbounded, AtMostOne
<1>3. CASE outer.upper = 0 /\ Endless(inner)
  <2>1. AtMostOne(outer) /\ AtMostOne(inner) /\ outer.lower = 0
    BY <1>1, <1>3 DEF Reducible, AtMostOne, Endless, Unbounded
  <2>2. \A k \in Nat : Allows(outer, k) => k = 0
    BY <1>1, <1>3 DEF Allows, Endless, Unbounded
  <2>3. ~AllowsNested(outer, inner, 1)
    BY <1>3, <2>2 DEF AllowsNested, AllowsTimes
  <2> QED
    BY <1>2, <1>3, <2>1, <2>3
<1>4. CASE Endless(outer) /\ inner.upper = 0
  <2>1. AtMostOne(outer) /\ AtMostOne(inner) /\ inner.lower = 0
    BY <1>1, <1>4 DEF Reducible, AtMostOne, Endless, Unbounded
  <2>2. \A k \in Nat : ~AllowsTimes(inner, k, 1)
    BY <1>4 DEF AllowsTimes, Endless, Unbounded
  <2>3. ~AllowsNested(outer, inner, 1)
    BY <2>2 DEF AllowsNested
  <2> QED
    BY <1>2, <1>4, <2>1, <2>3
<1>5. CASE Endless(outer) /\ Endless(inner) /\ outer.lower = 0 /\ ~AtMostOne(inner)
  <2>1. ASSUME NEW k \in Nat PROVE ~AllowsTimes(inner, k, 1)
    <3>1. CASE k = 0
      BY <1>5, <3>1 DEF AllowsTimes
    <3>2. CASE k # 0
      <4>1. 1 * inner.lower <= k * inner.lower
        BY <1>1, <3>2, Products
      <4>2. 1 * inner.lower = inner.lower /\ inner.lower > 1 /\ k * inner.lower \in Nat
        BY <1>1, <1>5, Products DEF AtMostOne
      <4>3. k * inner.lower > 1
        BY <1>1, <4>1, <4>2
      <4> QED
        BY <4>2, <4>3 DEF AllowsTimes
    <3> QED
      BY <3>1, <3>2
  <2>2. ~AllowsNested(outer, inner, 1)
    BY <2>1 DEF AllowsNested
  <2>3. outer.lower * inner.lower = 0
    BY <1>1, <1>5
  <2> QED
    BY <1>2, <1>5, <2>2, <2>3
<1> QED
  BY <1>3, <1>4, <1>5 DEF Sound
=============================================================================
