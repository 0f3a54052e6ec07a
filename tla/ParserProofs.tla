---------------------------- MODULE ParserProofs ----------------------------
(***************************************************************************)
(* For every limit and every text: the levels of recursion are balanced,   *)
(* the tokens tile the text, and a text that is refused is refused with an *)
(* error, each of which has a place in the text.  At the end, what it      *)
(* means that the nodes are a tree in the order of the source, which       *)
(* CommandProofs needs.                                                    *)
(***************************************************************************)
EXTENDS ParserSafety, Diagnostics, FiniteSetTheorems, SequenceTheorems, WellFoundedInduction, TLAPS

(***************************************************************************)
(* The stack s with r levels left is balanced: every frame that counts has *)
(* taken a level, and a frame has at most twice as many frames up to it as *)
(* levels, and Slack more.  What a frame may be on top of is what keeps    *)
(* the slack from adding up: a block that is not the first is on a group   *)
(* or lookaround, and an expression has come after a let before anything   *)
(* else does.                                                              *)
(***************************************************************************)
IsStack(s) == s \in Seq({s[k] : k \in DOMAIN s})
LevelsUpTo(s, n) == {k \in 1 .. n : s[k].fn \in Levels}
Slack(fn) == IF fn = "let" THEN 2 ELSE IF fn \in {"modified", "or"} THEN 1 ELSE 0

Balanced(s, r) ==
  /\ IsStack(s)
  /\ r \in Nat
  /\ \A k \in DOMAIN s : "fn" \in DOMAIN s[k]
  /\ s # <<>> => s[1].fn = "modified"
  /\ r + Cardinality(LevelsUpTo(s, Len(s))) = Limit
  /\ \A k \in DOMAIN s : k <= 2 * Cardinality(LevelsUpTo(s, k)) + Slack(s[k].fn)

LevelsInv ==
  /\ Balanced(stack, recursion)
  /\ stage = "lexing" => recursion = Limit

-----------------------------------------------------------------------------
(***************************************************************************)
(* Sequences                                                               *)
(***************************************************************************)
LEMMA StackOf ==
  ASSUME NEW T, NEW s \in Seq(T)
  PROVE  IsStack(s)
<1> DEFINE S == {s[k] : k \in DOMAIN s}
<1>1. Len(s) \in Nat /\ s \in [1 .. Len(s) -> T] /\ DOMAIN s = 1 .. Len(s)
  BY LenProperties
<1>2. s \in [1 .. Len(s) -> S]
  BY <1>1
<1> QED
  BY <1>1, <1>2, SeqDef DEF IsStack

LEMMA StackLen ==
  ASSUME NEW s, IsStack(s)
  PROVE  /\ Len(s) \in Nat /\ DOMAIN s = 1 .. Len(s)
         /\ s # <<>> <=> Len(s) > 0
<1> QED
  BY LenProperties, EmptySeq DEF IsStack

LEMMA Appended ==
  ASSUME NEW s, IsStack(s), NEW f
  PROVE  /\ IsStack(Append(s, f)) /\ Append(s, f) # <<>>
         /\ Len(Append(s, f)) = Len(s) + 1 /\ DOMAIN Append(s, f) = 1 .. Len(s) + 1
         /\ Append(s, f)[Len(s) + 1] = f
         /\ \A k \in 1 .. Len(s) : Append(s, f)[k] = s[k]
<1> DEFINE S == {s[k] : k \in DOMAIN s} \cup {f}
<1>1. s \in Seq(S) /\ f \in S
  BY SeqMonotonic DEF IsStack
<1>2. Append(s, f) \in Seq(S)
  BY <1>1
<1>3. Len(s) \in Nat /\ Len(Append(s, f)) = Len(s) + 1
  BY <1>1
<1>4. /\ Append(s, f)[Len(s) + 1] = f
      /\ \A k \in 1 .. Len(s) : Append(s, f)[k] = s[k]
  BY <1>1
<1> HIDE DEF S
<1>5. IsStack(Append(s, f))
  BY <1>2, StackOf
<1> QED
  BY <1>3, <1>4, <1>5, StackLen

LEMMA Popped ==
  ASSUME NEW s, IsStack(s), s # <<>>
  PROVE  /\ IsStack(SubSeq(s, 1, Len(s) - 1))
         /\ Len(SubSeq(s, 1, Len(s) - 1)) = Len(s) - 1
         /\ \A k \in 1 .. Len(s) - 1 : SubSeq(s, 1, Len(s) - 1)[k] = s[k]
<1> DEFINE S == {s[k] : k \in DOMAIN s}
           t == SubSeq(s, 1, Len(s) - 1)
<1>1. s \in Seq(S) /\ Len(s) \in Nat \ {0} /\ DOMAIN s = 1 .. Len(s)
  BY StackLen DEF IsStack
<1>2. \A k \in 1 .. Len(s) - 1 : s[k] \in S
  BY <1>1
<1> HIDE DEF S
<1>3. /\ t \in Seq(S)
      /\ Len(t) = IF 1 <= Len(s) - 1 THEN Len(s) - 1 - 1 + 1 ELSE 0
      /\ \A k \in 1 .. Len(s) - 1 - 1 + 1 : t[k] = s[1 + k - 1]
  BY <1>1, <1>2, SubSeqProperties
<1>4. IsStack(t)
  BY <1>3, StackOf
<1>5. 1 <= Len(s) - 1 \/ Len(s) = 1
  BY <1>1
<1>6. Len(t) = Len(s) - 1
  BY <1>1, <1>3, <1>5
<1>7. \A k \in 1 .. Len(s) - 1 : t[k] = s[k]
  BY <1>1, <1>3
<1> QED
  BY <1>4, <1>6, <1>7

Elements(s) == {s[i] : i \in DOMAIN s}

LEMMA Concatenated ==
  ASSUME NEW s, NEW t, IsStack(s), IsStack(t)
  PROVE  /\ IsStack(s \o t) /\ Len(s \o t) = Len(s) + Len(t)
         /\ Len(s) \in Nat /\ Len(t) \in Nat
         /\ DOMAIN s = 1 .. Len(s) /\ DOMAIN t = 1 .. Len(t)
         /\ DOMAIN (s \o t) = 1 .. Len(s) + Len(t)
         /\ \A i \in 1 .. Len(s) : (s \o t)[i] = s[i]
         /\ \A i \in 1 .. Len(t) : (s \o t)[Len(s) + i] = t[i]
<1> DEFINE S == Elements(s) \cup Elements(t)
           r == s \o t
<1>1. s \in Seq(S) /\ t \in Seq(S)
  BY SeqMonotonic DEF IsStack, Elements
<1>2. /\ r \in Seq(S) /\ Len(r) = Len(s) + Len(t) /\ Len(s) \in Nat /\ Len(t) \in Nat
      /\ \A i \in 1 .. Len(s) : r[i] = s[i]
      /\ \A i \in 1 .. Len(t) : r[Len(s) + i] = t[i]
  <2> HIDE DEF S
  <2> QED
    BY <1>1
<1> HIDE DEF S, r
<1>3. IsStack(r)
  BY <1>2, StackOf
<1> QED
  BY <1>2, <1>3, StackLen DEF r

-----------------------------------------------------------------------------
(***************************************************************************)
(* Balanced stacks                                                         *)
(***************************************************************************)
LEMMA LevelsFinite ==
  ASSUME NEW s, NEW n \in Nat
  PROVE  IsFiniteSet(LevelsUpTo(s, n)) /\ Cardinality(LevelsUpTo(s, n)) \in Nat
<1>1. IsFiniteSet(1 .. n) /\ LevelsUpTo(s, n) \in SUBSET (1 .. n)
  BY FS_Interval DEF LevelsUpTo
<1> QED
  BY <1>1, FS_Subset, FS_CardinalityType

\* Stacks whose first n functions are the same have the same levels up to n
LEMMA SameLevels ==
  ASSUME NEW s, NEW t, NEW n \in Nat, \A k \in 1 .. n : t[k].fn = s[k].fn
  PROVE  LevelsUpTo(t, n) = LevelsUpTo(s, n)
<1> QED
  BY DEF LevelsUpTo

LEMMA OneMore ==
  ASSUME NEW s, NEW n \in Nat
  PROVE  Cardinality(LevelsUpTo(s, n + 1)) =
           Cardinality(LevelsUpTo(s, n)) + (IF s[n + 1].fn \in Levels THEN 1 ELSE 0)
<1>1. IsFiniteSet(LevelsUpTo(s, n)) /\ n + 1 \notin LevelsUpTo(s, n)
  BY LevelsFinite DEF LevelsUpTo
<1>2. CASE s[n + 1].fn \in Levels
  <2>1. LevelsUpTo(s, n + 1) = LevelsUpTo(s, n) \cup {n + 1}
    BY <1>2 DEF LevelsUpTo
  <2> QED
    BY <1>1, <1>2, <2>1, FS_AddElement
<1>3. CASE s[n + 1].fn \notin Levels
  <2>1. LevelsUpTo(s, n + 1) = LevelsUpTo(s, n)
    BY <1>3 DEF LevelsUpTo
  <2> QED
    BY <1>1, <1>3, <2>1, LevelsFinite
<1> QED
  BY <1>2, <1>3

\* What may be called from a function
MayCall(caller, fn) ==
  CASE fn = "let" -> caller = "modified"
    [] fn = "or" -> caller \in {"modified", "let"}
    [] fn \in {"group", "lookaround"} -> caller = "or"
    [] fn = "modified" -> caller \in {"group", "lookaround"}
    [] OTHER -> FALSE

LEMMA PushBalanced ==
  ASSUME NEW s, NEW r, Balanced(s, r), s # <<>>,
         NEW f, "fn" \in DOMAIN f, MayCall(s[Len(s)].fn, f.fn),
         f.fn \in Levels => r # 0
  PROVE  Balanced(Append(s, f), IF f.fn \in Levels THEN r - 1 ELSE r)
<1> DEFINE t == Append(s, f)
           n == Len(s)
<1>1. IsStack(s) /\ n \in Nat \ {0} /\ DOMAIN s = 1 .. n
  BY StackLen DEF Balanced
<1>2. /\ IsStack(t) /\ t # <<>> /\ Len(t) = n + 1 /\ DOMAIN t = 1 .. n + 1
      /\ t[n + 1] = f
      /\ \A k \in 1 .. n : t[k] = s[k]
  BY <1>1, Appended
<1> HIDE DEF t
<1>3. \A k \in 1 .. n : LevelsUpTo(t, k) = LevelsUpTo(s, k)
  BY <1>1, <1>2, SameLevels
<1>4. Cardinality(LevelsUpTo(t, n + 1)) =
        Cardinality(LevelsUpTo(s, n)) + (IF f.fn \in Levels THEN 1 ELSE 0)
  <2>1. Cardinality(LevelsUpTo(t, n + 1)) =
          Cardinality(LevelsUpTo(t, n)) + (IF t[n + 1].fn \in Levels THEN 1 ELSE 0)
    BY <1>1, OneMore
  <2> QED
    BY <1>1, <1>2, <1>3, <2>1
<1>5. Cardinality(LevelsUpTo(s, n)) \in Nat
  BY <1>1, LevelsFinite
<1>6. n <= 2 * Cardinality(LevelsUpTo(s, n)) + Slack(s[n].fn)
  BY <1>1 DEF Balanced
<1>7. n + 1 <= 2 * Cardinality(LevelsUpTo(t, n + 1)) + Slack(f.fn)
  BY <1>1, <1>4, <1>5, <1>6 DEF MayCall, Slack, Levels
<1>8. \A k \in DOMAIN t : k <= 2 * Cardinality(LevelsUpTo(t, k)) + Slack(t[k].fn)
  BY <1>1, <1>2, <1>3, <1>7 DEF Balanced
<1>9. \A k \in DOMAIN t : "fn" \in DOMAIN t[k]
  BY <1>1, <1>2 DEF Balanced
<1>10. t[1].fn = "modified"
  BY <1>1, <1>2 DEF Balanced
<1>11. r \in Nat /\ r + Cardinality(LevelsUpTo(s, n)) = Limit
  BY DEF Balanced
<1> QED
  BY <1>1, <1>2, <1>4, <1>5, <1>8, <1>9, <1>10, <1>11 DEF Balanced, t

LEMMA PopBalanced ==
  ASSUME NEW s, NEW r, Balanced(s, r), s # <<>>
  PROVE  Balanced(SubSeq(s, 1, Len(s) - 1), IF s[Len(s)].fn \in Levels THEN r + 1 ELSE r)
<1> DEFINE t == SubSeq(s, 1, Len(s) - 1)
           m == Len(s) - 1
<1>1. IsStack(s) /\ Len(s) \in Nat \ {0} /\ m \in Nat /\ DOMAIN s = 1 .. m + 1 /\ Len(s) = m + 1
  BY StackLen DEF Balanced
<1>2. IsStack(t) /\ Len(t) = m /\ \A k \in 1 .. m : t[k] = s[k]
  BY <1>1, Popped
<1> HIDE DEF t, m
<1>3. DOMAIN t = 1 .. m /\ (t # <<>> => m > 0)
  BY <1>2, StackLen
<1>4. \A k \in 0 .. m : LevelsUpTo(t, k) = LevelsUpTo(s, k)
  BY <1>1, <1>2, SameLevels
<1>5. Cardinality(LevelsUpTo(s, m + 1)) =
        Cardinality(LevelsUpTo(t, m)) + (IF s[m + 1].fn \in Levels THEN 1 ELSE 0)
  BY <1>1, <1>4, OneMore
<1>6. Cardinality(LevelsUpTo(t, m)) \in Nat
  BY <1>1, LevelsFinite
<1>7. r \in Nat /\ r + Cardinality(LevelsUpTo(s, m + 1)) = Limit
  BY <1>1 DEF Balanced
<1>8. \A k \in DOMAIN t : k <= 2 * Cardinality(LevelsUpTo(t, k)) + Slack(t[k].fn)
  BY <1>1, <1>2, <1>3, <1>4 DEF Balanced
<1>9. /\ \A k \in DOMAIN t : "fn" \in DOMAIN t[k]
      /\ t # <<>> => t[1].fn = "modified"
  BY <1>1, <1>2, <1>3 DEF Balanced
<1> QED
  BY <1>1, <1>2, <1>5, <1>6, <1>7, <1>8, <1>9 DEF Balanced, t

\* A frame is updated: its function stays the same
LEMMA UpdateBalanced ==
  ASSUME NEW s, NEW r, Balanced(s, r), s # <<>>,
         NEW f, "fn" \in DOMAIN f, f.fn = s[Len(s)].fn
  PROVE  /\ Balanced(Append(SubSeq(s, 1, Len(s) - 1), f), r)
         /\ Append(SubSeq(s, 1, Len(s) - 1), f) # <<>>
         /\ Len(Append(SubSeq(s, 1, Len(s) - 1), f)) = Len(s)
         /\ Append(SubSeq(s, 1, Len(s) - 1), f)[Len(s)] = f
<1> DEFINE b == SubSeq(s, 1, Len(s) - 1)
           t == Append(b, f)
           n == Len(s)
<1>1. IsStack(s) /\ n \in Nat \ {0} /\ DOMAIN s = 1 .. n
  BY StackLen DEF Balanced
<1>2. IsStack(b) /\ Len(b) = n - 1 /\ \A k \in 1 .. n - 1 : b[k] = s[k]
  BY <1>1, Popped
<1> HIDE DEF b
<1>3. /\ IsStack(t) /\ t # <<>> /\ Len(t) = n /\ DOMAIN t = 1 .. n
      /\ t[n] = f
      /\ \A k \in 1 .. n - 1 : t[k] = s[k]
  <2>1. Len(b) + 1 = n
    BY <1>1, <1>2
  <2>2. /\ IsStack(t) /\ t # <<>> /\ Len(t) = Len(b) + 1 /\ DOMAIN t = 1 .. Len(b) + 1
        /\ t[Len(b) + 1] = f
        /\ \A k \in 1 .. Len(b) : t[k] = b[k]
    BY <1>2, Appended
  <2> QED
    BY <1>1, <1>2, <2>1, <2>2
<1> HIDE DEF t
<1>4. \A k \in 1 .. n : t[k].fn = s[k].fn
  BY <1>1, <1>3
<1>5. \A k \in 1 .. n : LevelsUpTo(t, k) = LevelsUpTo(s, k)
  BY <1>1, <1>4, SameLevels
<1>6. \A k \in DOMAIN t : k <= 2 * Cardinality(LevelsUpTo(t, k)) + Slack(t[k].fn)
  BY <1>1, <1>3, <1>4, <1>5 DEF Balanced
<1>7. \A k \in DOMAIN t : "fn" \in DOMAIN t[k]
  BY <1>1, <1>3 DEF Balanced
<1>8. r \in Nat /\ r + Cardinality(LevelsUpTo(t, n)) = Limit /\ t[1].fn = "modified"
  BY <1>1, <1>4, <1>5 DEF Balanced
<1> QED
  BY <1>3, <1>6, <1>7, <1>8 DEF Balanced, t, b

LEMMA BalancedBounds ==
  ASSUME NEW s, NEW r, Balanced(s, r)
  PROVE  /\ r + Cardinality({k \in DOMAIN s : s[k].fn \in Levels}) = Limit
         /\ Len(s) <= 2 * (Limit - r) + 2
<1>1. IsStack(s) /\ Len(s) \in Nat /\ DOMAIN s = 1 .. Len(s)
  BY StackLen DEF Balanced
<1>2. LevelsUpTo(s, Len(s)) = {k \in DOMAIN s : s[k].fn \in Levels}
  BY <1>1 DEF LevelsUpTo
<1>3. Cardinality(LevelsUpTo(s, Len(s))) \in Nat
  BY <1>1, LevelsFinite
<1>4. r \in Nat /\ r + Cardinality(LevelsUpTo(s, Len(s))) = Limit
  BY DEF Balanced
<1>5. CASE Len(s) = 0
  BY <1>2, <1>3, <1>4, <1>5
<1>6. CASE Len(s) # 0
  <2>1. Len(s) <= 2 * Cardinality(LevelsUpTo(s, Len(s))) + Slack(s[Len(s)].fn)
    BY <1>1, <1>6 DEF Balanced
  <2>2. Slack(s[Len(s)].fn) \in 0 .. 2
    BY DEF Slack
  <2> QED
    BY <1>1, <1>2, <1>3, <1>4, <2>1, <2>2
<1> QED
  BY <1>5, <1>6

-----------------------------------------------------------------------------
(***************************************************************************)
(* Frames and calls                                                        *)
(***************************************************************************)
LEMMA FrameFn ==
  ASSUME NEW fn, NEW from, NEW tag
  PROVE  "fn" \in DOMAIN Frame(fn, from, tag) /\ Frame(fn, from, tag).fn = fn
<1> QED
  BY DEF Frame

\* Updating the fields of a frame leaves its function alone
LEMMA FrameUpdate ==
  ASSUME NEW f, "fn" \in DOMAIN f, NEW x
  PROVE  /\ "fn" \in DOMAIN [f EXCEPT !.items = x] /\ [f EXCEPT !.items = x].fn = f.fn
         /\ "fn" \in DOMAIN [f EXCEPT !.fixes = x] /\ [f EXCEPT !.fixes = x].fn = f.fn
         /\ "fn" \in DOMAIN [f EXCEPT !.nots = x] /\ [f EXCEPT !.nots = x].fn = f.fn
<1> QED
  OBVIOUS

LEMMA TopFrame ==
  ASSUME NEW s, NEW r, Balanced(s, r), s # <<>>
  PROVE  "fn" \in DOMAIN s[Len(s)]
<1>1. IsStack(s) /\ Len(s) \in 1 .. Len(s) /\ DOMAIN s = 1 .. Len(s)
  BY StackLen DEF Balanced
<1> QED
  BY <1>1 DEF Balanced

\* The top of a stack that is not a block has a caller
LEMMA HasCaller ==
  ASSUME NEW s, NEW r, Balanced(s, r), s # <<>>, s[Len(s)].fn # "modified"
  PROVE  /\ SubSeq(s, 1, Len(s) - 1) # <<>>
         /\ Len(SubSeq(s, 1, Len(s) - 1)) = Len(s) - 1
         /\ SubSeq(s, 1, Len(s) - 1)[Len(s) - 1] = s[Len(s) - 1]
         /\ SubSeq(SubSeq(s, 1, Len(s) - 1), 1, Len(s) - 1 - 1) = SubSeq(s, 1, Len(s) - 2)
<1> DEFINE t == SubSeq(s, 1, Len(s) - 1)
<1>1. IsStack(s) /\ Len(s) \in Nat \ {0} /\ DOMAIN s = 1 .. Len(s)
  BY StackLen DEF Balanced
<1>2. Len(s) # 1
  BY DEF Balanced
<1>3. IsStack(t) /\ Len(t) = Len(s) - 1 /\ \A k \in 1 .. Len(s) - 1 : t[k] = s[k]
  BY <1>1, Popped
<1> HIDE DEF t
<1>4. t # <<>>
  BY <1>1, <1>2, <1>3, StackLen
<1>5. SubSeq(t, 1, Len(s) - 2) = SubSeq(s, 1, Len(s) - 2)
  <2> DEFINE m == Len(s) - 2
  <2>1. m \in Nat /\ m <= Len(s) - 1
    BY <1>1, <1>2
  <2>2. \A k \in 1 .. m : t[k] = s[k]
    BY <1>1, <1>3
  <2>3. SubSeq(t, 1, m) = [k \in 1 .. m |-> t[k]] /\ SubSeq(s, 1, m) = [k \in 1 .. m |-> s[k]]
    BY <2>1
  <2> QED
    BY <2>2, <2>3
<1> QED
  BY <1>1, <1>3, <1>4, <1>5 DEF t

LEMMA FailKeeps ==
  ASSUME LevelsInv, NEW error, Fail(error)
  PROVE  LevelsInv'
<1> QED
  BY DEF LevelsInv, Fail, parseVars, Balanced, IsStack, LevelsUpTo

LEMMA CallOrKeeps ==
  ASSUME LevelsInv, stage = "parsing",
         NEW frames, Balanced(frames, recursion), frames # <<>>,
         frames[Len(frames)].fn \in {"modified", "let"},
         NEW o, CallOr(frames, o)
  PROVE  LevelsInv'
<1>1. CASE recursion = 0
  BY <1>1, FailKeeps DEF CallOr
<1>2. CASE recursion # 0
  <2> DEFINE f == Frame("or", IF Is(tokens, o, "Pipe") THEN o ELSE 0, <<>>)
  <2>1. stack' = Append(frames, f) /\ recursion' = recursion - 1 /\ stage' = stage
    BY <1>2 DEF CallOr, Going
  <2>2. "fn" \in DOMAIN f /\ f.fn = "or"
    BY FrameFn
  <2> HIDE DEF f
  <2>3. Balanced(Append(frames, f), IF f.fn \in Levels THEN recursion - 1 ELSE recursion)
    BY <1>2, <2>2, PushBalanced DEF MayCall
  <2>4. Balanced(Append(frames, f), recursion - 1)
    BY <2>2, <2>3 DEF Levels
  <2>5. Balanced(stack, recursion)'
    BY <2>1, <2>4 DEF Balanced, IsStack, LevelsUpTo
  <2> QED
    BY <2>1, <2>5 DEF LevelsInv
<1> QED
  BY <1>1, <1>2

LEMMA CallModifiedKeeps ==
  ASSUME LevelsInv, stage = "parsing", stack # <<>>, Top.fn = "or",
         NEW fn \in {"group", "lookaround"}, NEW tag, NEW o, CallModified(fn, tag, o)
  PROVE  LevelsInv'
<1>1. CASE recursion = 0
  BY <1>1, FailKeeps DEF CallModified
<1>2. CASE recursion # 0
  <2> DEFINE caller == [Top EXCEPT !.nots = FixAt - at]
             f == Frame(fn, at, tag)
             block == Frame("modified", 0, <<>>)
             s0 == Append(SubSeq(stack, 1, Len(stack) - 1), caller)
             s1 == Append(s0, f)
             s2 == Append(s1, block)
  <2>1. Balanced(stack, recursion)
    BY DEF LevelsInv
  <2>2. "fn" \in DOMAIN caller /\ caller.fn = stack[Len(stack)].fn
    BY <2>1, TopFrame, FrameUpdate DEF Top
  <2>3. "fn" \in DOMAIN f /\ f.fn = fn /\ "fn" \in DOMAIN block /\ block.fn = "modified"
    BY FrameFn
  <2>4. stack' = s0 \o <<f, block>> /\ recursion' = recursion - 1 /\ stage' = stage
    BY <1>2 DEF CallModified, Going, Replaced, Below
  <2> HIDE DEF caller, f, block
  <2>5. Balanced(s0, recursion) /\ s0 # <<>> /\ Len(s0) = Len(stack) /\ s0[Len(stack)] = caller
    BY <2>1, <2>2, UpdateBalanced
  <2>6. s0[Len(s0)].fn = "or"
    BY <2>2, <2>5 DEF Top
  <2> HIDE DEF s0
  <2>7. Balanced(s1, recursion - 1)
    <3>1. Balanced(s1, IF f.fn \in Levels THEN recursion - 1 ELSE recursion)
      BY <1>2, <2>3, <2>5, <2>6, PushBalanced DEF MayCall
    <3> QED
      BY <2>3, <3>1 DEF Levels
  <2>8. s1 # <<>> /\ s1[Len(s1)] = f
    BY <2>5, Appended DEF Balanced
  <2> HIDE DEF s1
  <2>9. Balanced(s2, recursion - 1)
    <3>1. Balanced(s2, IF block.fn \in Levels THEN recursion - 1 - 1 ELSE recursion - 1)
      BY <2>3, <2>7, <2>8, PushBalanced DEF MayCall, Levels
    <3> QED
      BY <2>3, <3>1 DEF Levels
  <2>10. stack' = s2
    <3> DEFINE S == {s0[k] : k \in DOMAIN s0} \cup {f, block}
    <3>1. s0 \in Seq(S) /\ f \in S /\ block \in S
      BY <2>5, SeqMonotonic DEF Balanced, IsStack
    <3> HIDE DEF S
    <3>2. s0 \o <<f, block>> = Append(Append(s0, f), block)
      BY <3>1
    <3> QED
      BY <2>4, <3>2 DEF s1
  <2>11. Balanced(stack, recursion)'
    BY <2>4, <2>9, <2>10 DEF Balanced, IsStack, LevelsUpTo
  <2> QED
    BY <2>4, <2>11 DEF LevelsInv
<1> QED
  BY <1>1, <1>2

\* `frame` on `frames` is the stack s of those who wait for the fix
LEMMA AddFixKeeps ==
  ASSUME LevelsInv, stage = "parsing",
         NEW s, NEW left, Balanced(s, left), s # <<>>,
         NEW ns, NEW o, NEW from, NEW nots,
         AddFix(ns, o, left, SubSeq(s, 1, Len(s) - 1), s[Len(s)], from, nots)
  PROVE  LevelsInv'
<1>1. CASE NotsError(ns, Len(ns), nots) # "none"
  BY <1>1, FailKeeps DEF AddFix
<1>2. CASE NotsError(ns, Len(ns), nots) = "none"
  <2> DEFINE f == [s[Len(s)] EXCEPT !.fixes = Append(@, Len(ns))]
             t == Append(SubSeq(s, 1, Len(s) - 1), f)
  <2>1. stack' = t /\ recursion' = left /\ stage' = stage
    BY <1>2 DEF AddFix, Going
  <2>2. "fn" \in DOMAIN f /\ f.fn = s[Len(s)].fn
    BY TopFrame, FrameUpdate
  <2> HIDE DEF f
  <2>3. Balanced(t, left)
    BY <2>2, UpdateBalanced
  <2>4. Balanced(stack, recursion)'
    BY <2>1, <2>3 DEF Balanced, IsStack, LevelsUpTo
  <2> QED
    BY <2>1, <2>4 DEF LevelsInv
<1> QED
  BY <1>1, <1>2

LEMMA AddRepeatedKeeps ==
  ASSUME LevelsInv, stage = "parsing",
         NEW s, NEW left, Balanced(s, left), s # <<>>,
         NEW ns, NEW repetition, NEW from, NEW nots,
         AddRepeated(ns, repetition, left, SubSeq(s, 1, Len(s) - 1), s[Len(s)], from, nots)
  PROVE  LevelsInv'
<1> QED
  BY FailKeeps, AddFixKeeps DEF AddRepeated

LEMMA ReturnOrKeeps ==
  ASSUME LevelsInv, stage = "parsing", stack # <<>>, Top.fn = "or", NEW ns, NEW n, ReturnOr(ns, n)
  PROVE  LevelsInv'
<1> DEFINE t == SubSeq(stack, 1, Len(stack) - 1)
<1>1. Balanced(t, IF stack[Len(stack)].fn \in Levels THEN recursion + 1 ELSE recursion)
  BY PopBalanced DEF LevelsInv
<1>2. stack' = t /\ recursion' = recursion + 1 /\ stage' = stage
  BY DEF ReturnOr, Below, Going
<1>3. Balanced(t, recursion + 1)
  BY <1>1 DEF Top, Levels
<1>4. Balanced(stack, recursion)'
  BY <1>2, <1>3 DEF Balanced, IsStack, LevelsUpTo
<1> QED
  BY <1>2, <1>4 DEF LevelsInv

-----------------------------------------------------------------------------
(***************************************************************************)
(* The steps                                                               *)
(***************************************************************************)
LEMMA OneBlock ==
  ASSUME NEW s, IsStack(s), Len(s) <= 1,
         \A k \in DOMAIN s : "fn" \in DOMAIN s[k] /\ s[k].fn = "modified"
  PROVE  Balanced(s, Limit)
<1>1. Len(s) \in Nat /\ DOMAIN s = 1 .. Len(s) /\ (s # <<>> => 1 \in DOMAIN s)
  BY StackLen
<1>2. \A k \in 0 .. Len(s) : LevelsUpTo(s, k) = {}
  BY <1>1 DEF LevelsUpTo, Levels
<1>3. \A k \in 0 .. Len(s) : Cardinality(LevelsUpTo(s, k)) = 0
  BY <1>2, FS_EmptySet, Zenon
<1>4. Limit + Cardinality(LevelsUpTo(s, Len(s))) = Limit
  BY <1>1, <1>3, LimitAssumption
<1>5. \A k \in DOMAIN s : k <= 2 * Cardinality(LevelsUpTo(s, k)) + Slack(s[k].fn)
  <2>1. \A k \in DOMAIN s : k = 1 /\ Cardinality(LevelsUpTo(s, k)) = 0 /\ Slack(s[k].fn) = 1
    BY <1>1, <1>3 DEF Slack
  <2> QED
    BY <2>1
<1> QED
  BY <1>1, <1>4, <1>5, LimitAssumption DEF Balanced

LEMMA FirstBlock ==
  Balanced(<<>>, Limit) /\ Balanced(<<Frame("modified", 0, <<>>)>>, Limit)
<1> DEFINE f == Frame("modified", 0, <<>>)
<1>1. "fn" \in DOMAIN f /\ f.fn = "modified"
  BY FrameFn
<1> HIDE DEF f
<1>2. <<>> \in Seq({f}) /\ <<f>> \in Seq({f})
  OBVIOUS
<1>3. IsStack(<<>>) /\ IsStack(<<f>>)
  BY <1>2, StackOf
<1>4. Balanced(<<>>, Limit)
  <2>1. Len(<<>>) = 0 /\ DOMAIN <<>> = {}
    OBVIOUS
  <2> QED
    BY <1>3, <2>1, OneBlock
<1>5. Balanced(<<f>>, Limit)
  <2> DEFINE s == <<f>>
  <2>1. Len(s) = 1 /\ \A k \in DOMAIN s : s[k] = f
    OBVIOUS
  <2>2. IsStack(s)
    BY <1>3
  <2> HIDE DEF s
  <2>3. Len(s) <= 1 /\ \A k \in DOMAIN s : "fn" \in DOMAIN s[k] /\ s[k].fn = "modified"
    BY <1>1, <2>1
  <2>4. Balanced(s, Limit)
    BY <2>2, <2>3, OneBlock
  <2> QED
    BY <2>4 DEF s
<1> QED
  BY <1>4, <1>5 DEF f

LEMMA InitLevels == Init => LevelsInv
<1> QED
  BY FirstBlock DEF Init, LevelsInv

LEMMA StepLevels == LevelsInv /\ [ParserStep]_parserVars => LevelsInv'
<1> SUFFICES ASSUME LevelsInv, [ParserStep]_parserVars
             PROVE  LevelsInv'
  OBVIOUS
<1>0. Balanced(stack, recursion)
  BY DEF LevelsInv
<1>s. ASSUME stack' = stack, recursion' = recursion, stage' = "lexing" => stage = "lexing"
      PROVE  LevelsInv'
  BY <1>s DEF LevelsInv, Balanced, IsStack, LevelsUpTo
<1>u. ASSUME NEW f, "fn" \in DOMAIN f, f.fn = Top.fn, stack # <<>>, stage # "lexing",
             stack' = Replaced(f), recursion' = recursion, stage' = stage
      PROVE  LevelsInv'
  <2>1. Balanced(Replaced(f), recursion)
    BY <1>0, <1>u, UpdateBalanced DEF Replaced, Below, Top
  <2>2. Balanced(stack, recursion)'
    BY <1>u, <2>1 DEF Balanced, IsStack, LevelsUpTo
  <2> QED
    BY <1>u, <2>2 DEF LevelsInv
<1>1. CASE LexToken
  <2>1. stack' = stack /\ recursion' = recursion /\ stage = "lexing"
    BY <1>1 DEF LexToken, AddToken, parseVars
  <2> QED
    BY <1>s, <2>1
<1>2. CASE EndLexing
  <2>1. /\ stack' \in {<<>>, <<Frame("modified", 0, <<>>)>>}
        /\ recursion' = Limit /\ stage' # "lexing"
    BY <1>2 DEF EndLexing, LevelsInv
  <2>2. Balanced(stack', Limit)
    BY <2>1, FirstBlock
  <2>3. Balanced(stack, recursion)'
    BY <2>1, <2>2 DEF Balanced, IsStack, LevelsUpTo
  <2> QED
    BY <2>1, <2>3 DEF LevelsInv
<1>3. CASE ParseModeModifier
  <2>1. stage = "parsing" /\ stack # <<>>
    BY <1>3 DEF ParseModeModifier, Calling
  <2>2. (\E e : Fail(e)) \/
        (\E x : stack' = Replaced([Top EXCEPT !.items = x]) /\ recursion' = recursion /\ stage' = stage)
    BY <1>3 DEF ParseModeModifier, Going
  <2> QED
    BY <1>0, <1>u, <2>1, <2>2, FailKeeps, TopFrame, FrameUpdate DEF Top
<1>4. CASE ParseLet
  <2> DEFINE f == Frame("let", at + 1, <<>>)
  <2>1. stage = "parsing" /\ stack # <<>> /\ stack[Len(stack)].fn = "modified"
    BY <1>4 DEF ParseLet, Calling, Top
  <2>2. (\E e : Fail(e)) \/ CallOr(Append(stack, f), at + 3)
    BY <1>4 DEF ParseLet
  <2>3. "fn" \in DOMAIN f /\ f.fn = "let"
    BY FrameFn
  <2> HIDE DEF f
  <2>4. Balanced(Append(stack, f), recursion)
    <3>1. Balanced(Append(stack, f), IF f.fn \in Levels THEN recursion - 1 ELSE recursion)
      BY <1>0, <2>1, <2>3, PushBalanced DEF MayCall, Levels
    <3> QED
      BY <2>3, <3>1 DEF Levels
  <2>5. Append(stack, f) # <<>> /\ Append(stack, f)[Len(Append(stack, f))].fn = "let"
    BY <1>0, <2>3, Appended DEF Balanced
  <2> QED
    BY <2>1, <2>2, <2>4, <2>5, FailKeeps, CallOrKeeps
<1>5. CASE EndLet
  <2>1. stage = "parsing" /\ stack # <<>> /\ stack[Len(stack)].fn = "let"
    BY <1>5 DEF EndLet, Returned, Top
  <2>2. CASE \E e : Fail(e)
    BY <2>2, FailKeeps
  <2>3. CASE ~\E e : Fail(e)
    <3> DEFINE s == SubSeq(stack, 1, Len(stack) - 1)
               f == [s[Len(s)] EXCEPT !.items = Append(@, Len(nodes) + 1)]
               t == Append(SubSeq(s, 1, Len(s) - 1), f)
    <3>1. /\ s # <<>> /\ Len(s) = Len(stack) - 1 /\ s[Len(s)] = stack[Len(stack) - 1]
          /\ SubSeq(s, 1, Len(s) - 1) = SubSeq(stack, 1, Len(stack) - 2)
      BY <1>0, <2>1, HasCaller
    <3>2. stack' = t /\ recursion' = recursion /\ stage' = stage
      BY <1>5, <2>3, <3>1 DEF EndLet, Going
    <3>3. Balanced(s, recursion)
      <4>1. Balanced(s, IF stack[Len(stack)].fn \in Levels THEN recursion + 1 ELSE recursion)
        BY <1>0, <2>1, PopBalanced
      <4> QED
        BY <2>1, <4>1 DEF Levels
    <3> HIDE DEF s
    <3>4. "fn" \in DOMAIN f /\ f.fn = s[Len(s)].fn
      BY <3>1, <3>3, TopFrame, FrameUpdate
    <3> HIDE DEF f
    <3>5. Balanced(t, recursion)
      BY <3>1, <3>3, <3>4, UpdateBalanced
    <3>6. Balanced(stack, recursion)'
      BY <3>2, <3>5 DEF Balanced, IsStack, LevelsUpTo
    <3> QED
      BY <2>1, <3>2, <3>6 DEF LevelsInv
  <2> QED
    BY <2>2, <2>3
<1>6. CASE ParseBody
  <2>1. stage = "parsing" /\ stack # <<>> /\ stack[Len(stack)].fn = "modified" /\ CallOr(stack, at)
    BY <1>6 DEF ParseBody, Calling, Top
  <2> QED
    BY <1>0, <2>1, CallOrKeeps
<1>7. CASE EndModified
  <2>1. stage = "parsing" /\ stack # <<>> /\ stack[Len(stack)].fn = "modified"
    BY <1>7 DEF EndModified, Returned, Top
  <2>2. (\E e : Fail(e)) \/ (stack' = Below /\ recursion' = recursion /\ stage' = stage)
    BY <1>7 DEF EndModified, Going
  <2>3. Balanced(Below, recursion)
    <3>1. Balanced(Below, IF stack[Len(stack)].fn \in Levels THEN recursion + 1 ELSE recursion)
      BY <1>0, <2>1, PopBalanced DEF Below
    <3> QED
      BY <2>1, <3>1 DEF Levels
  <2>4. ASSUME stack' = Below, recursion' = recursion, stage' = stage
        PROVE  LevelsInv'
    <3>1. Balanced(stack, recursion)'
      BY <2>3, <2>4 DEF Balanced, IsStack, LevelsUpTo
    <3> QED
      BY <2>1, <2>4, <3>1 DEF LevelsInv
  <2> QED
    BY <2>2, <2>4, FailKeeps
<1>8. CASE ParseLookaround
  <2>1. stage = "parsing" /\ stack # <<>> /\ Top.fn = "or"
    BY <1>8 DEF ParseLookaround, Calling
  <2>2. CallModified("lookaround", <<LookaroundKind[tokens[FixAt].token]>>, FixAt + 1)
    BY <1>8 DEF ParseLookaround
  <2> QED
    BY <2>1, <2>2, CallModifiedKeeps
<1>p. ASSUME stage = "parsing", stack # <<>>, stack[Len(stack)].fn \in {"group", "lookaround"}
      PROVE  LET s == SubSeq(stack, 1, Len(stack) - 1) IN
             /\ Balanced(s, recursion + 1) /\ s # <<>>
             /\ s[Len(s)] = stack[Len(stack) - 1]
             /\ SubSeq(s, 1, Len(s) - 1) = SubSeq(stack, 1, Len(stack) - 2)
  <2>1. Balanced(SubSeq(stack, 1, Len(stack) - 1),
                 IF stack[Len(stack)].fn \in Levels THEN recursion + 1 ELSE recursion)
    BY <1>0, <1>p, PopBalanced
  <2>2. Balanced(SubSeq(stack, 1, Len(stack) - 1), recursion + 1)
    BY <1>p, <2>1 DEF Levels
  <2> QED
    BY <1>0, <1>p, <2>2, HasCaller
<1>9. CASE EndLookaround
  <2> DEFINE s == SubSeq(stack, 1, Len(stack) - 1)
             ns == Append(nodes, Node("lookaround", <<result>>, Top.tag))
  <2>1. stage = "parsing" /\ stack # <<>> /\ stack[Len(stack)].fn = "lookaround"
    BY <1>9 DEF EndLookaround, Returned, Top
  <2>2. AddFix(ns, at, recursion + 1, SubSeq(stack, 1, Len(stack) - 2), stack[Len(stack) - 1],
               Top.from, stack[Len(stack) - 1].nots)
    BY <1>9 DEF EndLookaround
  <2>3. /\ Balanced(s, recursion + 1) /\ s # <<>>
        /\ s[Len(s)] = stack[Len(stack) - 1]
        /\ SubSeq(s, 1, Len(s) - 1) = SubSeq(stack, 1, Len(stack) - 2)
    BY <1>p, <2>1
  <2> HIDE DEF s, ns
  <2>4. AddFix(ns, at, recursion + 1, SubSeq(s, 1, Len(s) - 1), s[Len(s)],
               Top.from, stack[Len(stack) - 1].nots)
    BY <2>2, <2>3
  <2> QED
    BY <2>1, <2>3, <2>4, AddFixKeeps
<1>10. CASE ParseGroup
  <2>1. stage = "parsing" /\ stack # <<>> /\ Top.fn = "or" /\ OpenGroup(GroupKind(FixAt))
    BY <1>10 DEF ParseGroup, Calling
  <2>2. (\E e : Fail(e)) \/ (\E tag, o : CallModified("group", tag, o))
    BY <2>1 DEF OpenGroup
  <2> QED
    BY <2>1, <2>2, FailKeeps, CallModifiedKeeps
<1>11. CASE EndGroup
  <2> DEFINE s == SubSeq(stack, 1, Len(stack) - 1)
             ns == Append(nodes, Node("group", <<result>>, Top.tag))
  <2>1. stage = "parsing" /\ stack # <<>> /\ stack[Len(stack)].fn = "group"
    BY <1>11 DEF EndGroup, Returned, Top
  <2>2. \/ \E e : Fail(e)
        \/ AddRepeated(ns, Repetition(tokens, at + 1), recursion + 1,
                       SubSeq(stack, 1, Len(stack) - 2), stack[Len(stack) - 1],
                       Top.from, stack[Len(stack) - 1].nots)
    BY <1>11 DEF EndGroup
  <2>3. /\ Balanced(s, recursion + 1) /\ s # <<>>
        /\ s[Len(s)] = stack[Len(stack) - 1]
        /\ SubSeq(s, 1, Len(s) - 1) = SubSeq(stack, 1, Len(stack) - 2)
    BY <1>p, <2>1
  <2> HIDE DEF s, ns
  <2>4. ASSUME ~\E e : Fail(e)
        PROVE  AddRepeated(ns, Repetition(tokens, at + 1), recursion + 1,
                           SubSeq(s, 1, Len(s) - 1), s[Len(s)], Top.from, stack[Len(stack) - 1].nots)
    BY <2>2, <2>3, <2>4
  <2> QED
    BY <2>1, <2>3, <2>4, FailKeeps, AddRepeatedKeeps
<1>12. CASE ParseAtom
  <2>1. stage = "parsing" /\ stack # <<>> /\ AddAtom(LeafAtom(tokens, FixAt))
    BY <1>12 DEF ParseAtom, AtAtom, Calling
  <2>2. \/ \E e : Fail(e)
        \/ \E ns, repetition, from, nots :
             AddRepeated(ns, repetition, recursion, SubSeq(stack, 1, Len(stack) - 1),
                         stack[Len(stack)], from, nots)
    BY <2>1 DEF AddAtom, Below, Top
  <2> QED
    BY <1>0, <2>1, <2>2, FailKeeps, AddRepeatedKeeps
<1>13. CASE NoFix
  <2>1. stage = "parsing" /\ stack # <<>> /\ Top.fn = "or"
    BY <1>13 DEF NoFix, AtAtom, Calling
  <2>2. CASE LoneNot
    BY <2>2, FailKeeps DEF LoneNot
  <2>3. CASE NextAlternative
    <3> DEFINE f == [[Top EXCEPT !.items = Append(Top.items, SequenceRule)] EXCEPT !.fixes = <<>>]
    <3>1. stack' = Replaced(f) /\ recursion' = recursion /\ stage' = stage
      BY <2>3 DEF NextAlternative, Going
    <3>2. "fn" \in DOMAIN f /\ f.fn = Top.fn
      BY <1>0, <2>1, TopFrame, FrameUpdate DEF Top
    <3> HIDE DEF f
    <3> QED
      BY <1>u, <2>1, <3>1, <3>2
  <2>4. CASE LonePipe
    BY <2>4, FailKeeps DEF LonePipe
  <2>5. CASE EmptyExpression
    BY <2>1, <2>5, ReturnOrKeeps DEF EmptyExpression
  <2>6. CASE EndOr
    <3>1. \E ns, n : ReturnOr(ns, n)
      BY <2>6 DEF EndOr
    <3> QED
      BY <2>1, <3>1, ReturnOrKeeps
  <2> QED
    BY <1>13, <2>2, <2>3, <2>4, <2>5, <2>6 DEF NoFix
<1>14. CASE EndParse
  <2>1. (\E e : Fail(e)) \/ (stack' = stack /\ recursion' = recursion /\ stage' = "parsed")
    BY <1>14 DEF EndParse, parseVars
  <2> QED
    BY <1>s, <2>1, FailKeeps
<1>15. CASE UNCHANGED parserVars
  BY <1>s, <1>15 DEF parserVars, parseVars
<1> QED
  BY <1>1, <1>2, <1>3, <1>4, <1>5, <1>6, <1>7, <1>8, <1>9, <1>10, <1>11, <1>12, <1>13, <1>14, <1>15
  DEF ParserStep

-----------------------------------------------------------------------------
LEMMA LevelsBalance == LevelsInv => RecursionBalanced
<1> QED
  BY BalancedBounds DEF LevelsInv, RecursionBalanced

\* The levels of recursion that are left and those that the running functions
\* have taken add up to the limit, and the stack is at most twice as deep, for
\* any source text and any limit (parser.rs:121-131, parser_impl.rs:12-290).
THEOREM RecursionBalancedHolds == Spec => []RecursionBalanced
<1> QED
  BY InitLevels, StepLevels, LevelsBalance, PTL DEF Spec

-----------------------------------------------------------------------------
(***************************************************************************)
(* A text that is refused is refused with an error.                        *)
(***************************************************************************)
ErrorsInv ==
  /\ IsStack(tokens)
  /\ stage = "rejected" => IsStack(errors) /\ errors # <<>>

LEMMA OneElement ==
  ASSUME NEW x
  PROVE  IsStack(<<x>>) /\ <<x>> # <<>>
<1>1. <<x>> \in Seq({x})
  OBVIOUS
<1> QED
  BY <1>1, StackOf

LEMMA InitErrors == Init => ErrorsInv
<1>1. <<>> \in Seq({}) /\ IsStack(<<>>)
  BY EmptySeq, StackOf
<1> QED
  BY <1>1 DEF Init, ErrorsInv

LEMMA StepErrors == ErrorsInv /\ [ParserStep]_parserVars => ErrorsInv'
<1> SUFFICES ASSUME ErrorsInv, [ParserStep]_parserVars
             PROVE  ErrorsInv'
  OBVIOUS
<1>g. ASSUME UNCHANGED tokens, stage' # "rejected" \/ (stage' = stage /\ errors' = errors)
      PROVE  ErrorsInv'
  BY <1>g DEF ErrorsInv, IsStack
<1>f. ASSUME NEW error, Fail(error)
      PROVE  ErrorsInv'
  <2>1. errors' = <<error>> /\ tokens' = tokens
    BY <1>f DEF Fail, lexVars
  <2>2. IsStack(<<error>>) /\ <<error>> # <<>>
    BY OneElement
  <2> QED
    BY <2>1, <2>2 DEF ErrorsInv, IsStack
<1>1. CASE LexToken
  <2>1. CASE UNCHANGED tokens /\ stage' = "panicked"
    BY <1>g, <2>1
  <2>2. CASE stage' = "lexing" /\ \E token : tokens' = Append(tokens, token)
    <3>1. PICK token : tokens' = Append(tokens, token)
      BY <2>2
    <3>2. IsStack(Append(tokens, token))
      BY Appended DEF ErrorsInv
    <3> QED
      BY <2>2, <3>1, <3>2 DEF ErrorsInv, IsStack
  <2> QED
    BY <1>1, <2>1, <2>2 DEF LexToken, AddToken, lexVars
<1>2. CASE EndLexing
  <2> DEFINE found == {i \in DOMAIN tokens : IsErrorToken(tokens[i])}
             n == Cardinality(found)
             Nth(k) == CHOOSE i \in found : Cardinality({j \in found : j <= i}) = k
             list == [k \in 1 .. n |-> LexError(tokens[Nth(k)])]
             added == [token |-> "EndOfInput", units |-> <<>>,
                       start |-> begin[Len(text) + 1], end |-> begin[Len(text) + 1]]
  <2>1. /\ tokens' = Append(tokens, added) /\ errors' = list
        /\ stage' = IF found = {} THEN "parsing" ELSE "rejected"
    BY <1>2 DEF EndLexing
  <2>2. IsStack(Append(tokens, added))
    <3> HIDE DEF added
    <3> QED
      BY Appended DEF ErrorsInv
  <2>3. n \in Nat /\ (found # {} => n # 0)
    <3>1. Len(tokens) \in Nat /\ found \in SUBSET (1 .. Len(tokens))
      BY StackLen DEF ErrorsInv
    <3> DEFINE l == Len(tokens)
    <3> HIDE DEF found, l
    <3>2. IsFiniteSet(1 .. l)
      <4>1. 1 \in Int /\ l \in Int
        BY <3>1 DEF l
      <4> QED
        BY <4>1, FS_Interval
    <3>3. IsFiniteSet(found)
      BY <3>1, <3>2, FS_Subset DEF l
    <3> QED
      BY <3>3, FS_CardinalityType, FS_EmptySet
  <2> HIDE DEF added, found, n, Nth
  <2>4. found # {} => IsStack(list) /\ list # <<>>
    <3> DEFINE T == {list[k] : k \in 1 .. n}
    <3>1. list \in [1 .. n -> T]
      OBVIOUS
    <3>2. found # {} => 1 \in 1 .. n
      BY <2>3
    <3> HIDE DEF list, T
    <3>3. list \in Seq(T) /\ DOMAIN list = 1 .. n
      BY <2>3, <3>1, SeqDef
    <3>4. IsStack(list)
      BY <3>3, StackOf
    <3>5. found # {} => list # <<>>
      <4>1. \A k \in DOMAIN <<>> : FALSE
        OBVIOUS
      <4> QED
        BY <3>2, <3>3, <4>1
    <3> QED
      BY <3>4, <3>5
  <2> QED
    BY <2>1, <2>2, <2>4 DEF ErrorsInv, IsStack
<1>3. CASE ParseModeModifier
  BY <1>3, <1>g, <1>f DEF ParseModeModifier, Going, lexVars
<1>o. ASSUME NEW frames, NEW o, CallOr(frames, o)
      PROVE  ErrorsInv'
  BY <1>o, <1>g, <1>f DEF CallOr, Going, lexVars
<1>4. CASE ParseLet
  BY <1>4, <1>o, <1>f DEF ParseLet
<1>5. CASE EndLet
  BY <1>5, <1>g, <1>f DEF EndLet, Going, lexVars
<1>6. CASE ParseBody
  BY <1>6, <1>o DEF ParseBody
<1>7. CASE EndModified
  BY <1>7, <1>g, <1>f DEF EndModified, Going, lexVars
<1>m. ASSUME NEW fn, NEW tag, NEW o, CallModified(fn, tag, o)
      PROVE  ErrorsInv'
  BY <1>m, <1>g, <1>f DEF CallModified, Going, lexVars
<1>x. ASSUME NEW ns, NEW o, NEW left, NEW frames, NEW frame, NEW from, NEW nots,
             AddFix(ns, o, left, frames, frame, from, nots)
      PROVE  ErrorsInv'
  BY <1>x, <1>g, <1>f DEF AddFix, Going, lexVars
<1>r. ASSUME NEW ns, NEW repetition, NEW left, NEW frames, NEW frame, NEW from, NEW nots,
             AddRepeated(ns, repetition, left, frames, frame, from, nots)
      PROVE  ErrorsInv'
  BY <1>r, <1>x, <1>f DEF AddRepeated
<1>8. CASE ParseLookaround
  BY <1>8, <1>m DEF ParseLookaround
<1>9. CASE EndLookaround
  BY <1>9, <1>x DEF EndLookaround
<1>10. CASE ParseGroup
  BY <1>10, <1>m, <1>f DEF ParseGroup, OpenGroup
<1>11. CASE EndGroup
  BY <1>11, <1>r, <1>f DEF EndGroup
<1>12. CASE ParseAtom
  BY <1>12, <1>r, <1>f DEF ParseAtom, AddAtom
<1>13. CASE NoFix
  <2>1. ASSUME NEW ns, NEW n, ReturnOr(ns, n)
        PROVE  ErrorsInv'
    BY <2>1, <1>g DEF ReturnOr, Going, lexVars
  <2>2. LoneNot \/ LonePipe => ErrorsInv'
    BY <1>f DEF LoneNot, LonePipe
  <2>3. NextAlternative => ErrorsInv'
    BY <1>g DEF NextAlternative, Going, lexVars
  <2>4. EmptyExpression \/ EndOr => ErrorsInv'
    BY <2>1 DEF EmptyExpression, EndOr
  <2> QED
    BY <1>13, <2>2, <2>3, <2>4 DEF NoFix
<1>14. CASE EndParse
  BY <1>14, <1>g, <1>f DEF EndParse, lexVars
<1>15. CASE UNCHANGED parserVars
  BY <1>15, <1>g DEF parserVars, lexVars
<1> QED
  BY <1>1, <1>2, <1>3, <1>4, <1>5, <1>6, <1>7, <1>8, <1>9, <1>10, <1>11, <1>12, <1>13, <1>14,
     <1>15 DEF ParserStep

-----------------------------------------------------------------------------
(***************************************************************************)
(* Numbers and positions                                                   *)
(***************************************************************************)
\* What holds of no least number does not hold of any: induction, as the provers
\* can use it
LEMMA Least ==
  ASSUME NEW S, S \subseteq Nat, S # {}
  PROVE  /\ \E x \in S : \A y \in S : x <= y
         /\ Min(S) \in S /\ \A y \in S : Min(S) <= y
<1>1. PICK x \in S : \A y \in S : <<y, x>> \notin OpToRel(<, Nat)
  BY WFMin, NatLessThanWellFounded, Zenon
<1>2. \A y \in S : ~(y < x)
  BY <1>1, Zenon DEF OpToRel
<1>3. \A y \in S : x <= y
  BY <1>2
<1> QED
  BY <1>3 DEF Min

LEMMA Bytes ==
  ASSUME NEW u
  PROVE  BytesOf(u) \in Nat \ {0} /\ (u \in Punctuation => BytesOf(u) = 1)
  BY BytesAssumption DEF BytesOf

\* Where the units of a text begin
Positions(t, b) ==
  /\ b \in [1 .. Len(t) + 1 -> Nat]
  /\ b[1] = 0
  /\ \A i \in 1 .. Len(t) : b[i + 1] = b[i] + BytesOf(t[i])

LEMMA TextLen ==
  ASSUME NEW t \in Texts
  PROVE  /\ Len(t) \in Nat /\ DOMAIN t = 1 .. Len(t)
         /\ \A i \in 1 .. Len(t) : t[i] \in Units
  BY LenProperties, ElementOfSeq DEF Texts

LEMMA BeginsPositions ==
  ASSUME NEW t \in Texts
  PROVE  Positions(t, Begins(t))
<1> DEFINE l == Len(t)
           Fits(n, g) == /\ g \in [1 .. n + 1 -> Nat] /\ g[1] = 0
                       /\ \A i \in 1 .. n : g[i + 1] = g[i] + BytesOf(t[i])
           Missing == {n \in 0 .. l : ~ \E g : Fits(n, g)}
<1>1. l \in Nat
  BY TextLen
<1>2. Missing = {}
  <2> SUFFICES ASSUME Missing # {} PROVE FALSE
    OBVIOUS
  <2> DEFINE n == Min(Missing)
  <2>1. n \in Missing /\ \A k \in Missing : n <= k
    <3>1. Missing \subseteq Nat
      BY <1>1
    <3> HIDE DEF Missing
    <3> QED
      BY <3>1, Least
  <2>2. n \in 0 .. l /\ n \in Nat
    BY <1>1, <2>1
  <2> HIDE DEF n
  <2>3. CASE n = 0
    <3> DEFINE g == [i \in 1 .. 1 |-> 0]
    <3>1. Fits(0, g)
      OBVIOUS
    <3> HIDE DEF g
    <3> QED
      BY <2>1, <2>3, <3>1
  <2>4. CASE n # 0
    <3>1. n - 1 \in 0 .. l /\ ~(n <= n - 1) /\ n - 1 + 1 = n
      BY <1>1, <2>2, <2>4
    <3>2. PICK g : Fits(n - 1, g)
      BY <2>1, <3>1
    <3> DEFINE h == [i \in 1 .. n + 1 |-> IF i = n + 1 THEN g[n] + BytesOf(t[n]) ELSE g[i]]
    <3>3. g \in [1 .. n -> Nat] /\ g[1] = 0 /\ \A i \in 1 .. n - 1 : g[i + 1] = g[i] + BytesOf(t[i])
      BY <3>1, <3>2
    <3>4. BytesOf(t[n]) \in Nat
      BY Bytes
    <3>5. h \in [1 .. n + 1 -> Nat] /\ h[1] = 0
      BY <2>2, <2>4, <3>3, <3>4
    <3>6. \A i \in 1 .. n : h[i + 1] = h[i] + BytesOf(t[i])
      <4> SUFFICES ASSUME NEW i \in 1 .. n PROVE h[i + 1] = h[i] + BytesOf(t[i])
        OBVIOUS
      <4>1. CASE i = n
        BY <2>2, <4>1
      <4>2. CASE i # n
        <5>1. i \in 1 .. n - 1 /\ i + 1 \in 1 .. n + 1 /\ i + 1 # n + 1 /\ i \in 1 .. n + 1 /\ i # n + 1
          BY <2>2, <4>2
        <5> QED
          BY <3>3, <5>1
      <4> QED
        BY <4>1, <4>2
    <3> HIDE DEF h
    <3>7. Fits(n, h)
      BY <3>5, <3>6
    <3> QED
      BY <2>1, <3>7
  <2> QED
    BY <2>3, <2>4
<1>3. PICK g : Fits(l, g)
  BY <1>1, <1>2
<1>4. g = [i \in 1 .. l + 1 |-> IF i = 1 THEN 0 ELSE g[i - 1] + BytesOf(t[i - 1])]
  <2>1. \A i \in 1 .. l + 1 : i # 1 => i - 1 \in 1 .. l /\ i - 1 + 1 = i
    BY <1>1
  <2> QED
    BY <1>3, <2>1
<1> DEFINE b == Begins(t)
<1>5. b = [i \in 1 .. l + 1 |-> IF i = 1 THEN 0 ELSE b[i - 1] + BytesOf(t[i - 1])]
  BY <1>4 DEF Begins
<1> HIDE DEF b, l
<1>6. b[1] = 0 /\ \A i \in 1 .. l : b[i + 1] = b[i] + BytesOf(t[i])
  <2>1. 1 \in 1 .. l + 1 /\ \A i \in 1 .. l : i + 1 \in 1 .. l + 1 /\ i + 1 # 1 /\ i + 1 - 1 = i
    BY <1>1
  <2> DEFINE c == [i \in 1 .. l + 1 |-> IF i = 1 THEN 0 ELSE b[i - 1] + BytesOf(t[i - 1])]
  <2>2. b = c
    BY <1>5
  <2>3. c[1] = 0 /\ \A i \in 1 .. l : c[i + 1] = b[i] + BytesOf(t[i])
    BY <2>1
  <2> HIDE DEF c
  <2> QED
    BY <2>2, <2>3
<1>7. \A i \in 1 .. l + 1 : b[i] \in Nat
  <2> DEFINE Odd == {i \in 1 .. l + 1 : b[i] \notin Nat}
  <2> SUFFICES ASSUME Odd # {} PROVE FALSE
    OBVIOUS
  <2>1. PICK i \in Odd : \A k \in Odd : i <= k
    <3>1. Odd \subseteq Nat
      BY <1>1
    <3> HIDE DEF Odd
    <3> QED
      BY <3>1, Least
  <2>2. i # 1
    BY <1>6, <2>1
  <2>3. i - 1 \in 1 .. l /\ i - 1 \in 1 .. l + 1 /\ i - 1 + 1 = i /\ ~(i <= i - 1)
    BY <1>1, <2>1, <2>2
  <2>4. b[i - 1] \in Nat
    BY <2>1, <2>3
  <2>5. b[i] = b[i - 1] + BytesOf(t[i - 1]) /\ BytesOf(t[i - 1]) \in Nat
    BY <1>6, <2>3, Bytes
  <2> QED
    BY <2>1, <2>4, <2>5
<1>8. b \in [1 .. l + 1 -> Nat]
  BY <1>5, <1>7
<1> QED
  BY <1>6, <1>8 DEF Positions, b, l

\* No two units begin at the same byte
LEMMA PositionsIncrease ==
  ASSUME NEW t \in Texts, NEW b, Positions(t, b)
  PROVE  \A j \in 1 .. Len(t) + 1 : \A i \in 1 .. j - 1 : b[i] < b[j]
<1> DEFINE l == Len(t)
           Late == {j \in 1 .. l + 1 : \E i \in 1 .. j - 1 : ~(b[i] < b[j])}
<1>1. l \in Nat
  BY TextLen
<1>2. b \in [1 .. l + 1 -> Nat] /\ \A i \in 1 .. l : b[i + 1] = b[i] + BytesOf(t[i])
  BY DEF Positions
<1> HIDE DEF l
<1> SUFFICES ASSUME Late # {} PROVE FALSE
  BY DEF l
<1>3. PICK j \in Late : \A k \in Late : j <= k
  <2>1. Late \subseteq Nat
    BY <1>1
  <2> HIDE DEF Late
  <2> QED
    BY <2>1, Least
<1>4. PICK i \in 1 .. j - 1 : ~(b[i] < b[j])
  BY <1>3
<1>5. /\ j \in 1 .. l + 1 /\ j - 1 \in 1 .. l /\ j - 1 \in 1 .. l + 1 /\ j - 1 + 1 = j
      /\ ~(j <= j - 1) /\ i \in 1 .. l + 1
  BY <1>1, <1>3, <1>4
<1>6. b[j] = b[j - 1] + BytesOf(t[j - 1]) /\ b[j - 1] \in Nat /\ b[i] \in Nat
  BY <1>2, <1>5
<1>7. BytesOf(t[j - 1]) \in Nat \ {0}
  BY Bytes
<1>8. i = j - 1 \/ i \in 1 .. j - 1 - 1
  BY <1>4, <1>5
<1>9. i \in 1 .. j - 1 - 1 => b[i] < b[j - 1]
  BY <1>3, <1>5
<1> QED
  BY <1>4, <1>6, <1>7, <1>8, <1>9

\* So that the byte at which a unit begins tells the unit
LEMMA UnitFound ==
  ASSUME NEW t \in Texts, NEW b, Positions(t, b), NEW i \in 1 .. Len(t) + 1
  PROVE  UnitAt(b, b[i]) = i
<1>1. Len(t) \in Nat /\ DOMAIN b = 1 .. Len(t) + 1
  BY TextLen DEF Positions
<1>2. \A j \in DOMAIN b : b[j] = b[i] => j = i
  <2> SUFFICES ASSUME NEW j \in DOMAIN b, j # i PROVE b[j] # b[i]
    OBVIOUS
  <2>1. j \in 1 .. Len(t) + 1 /\ (j \in 1 .. i - 1 \/ i \in 1 .. j - 1)
    BY <1>1
  <2>2. b[j] \in Nat /\ b[i] \in Nat
    BY <2>1 DEF Positions
  <2>3. b[j] < b[i] \/ b[i] < b[j]
    BY <2>1, PositionsIncrease
  <2> QED
    BY <2>2, <2>3
<1> QED
  BY <1>1, <1>2 DEF UnitAt

LEMMA PositionsGrow ==
  ASSUME NEW t \in Texts, NEW b, Positions(t, b),
         NEW i \in 1 .. Len(t) + 1, NEW j \in 1 .. Len(t) + 1, i < j
  PROVE  b[i] \in Nat /\ b[j] \in Nat /\ b[i] < b[j] /\ b[j] - b[i] \in Nat \ {0}
<1>1. b[i] \in Nat /\ b[j] \in Nat
  BY DEF Positions
<1>2. i \in 1 .. j - 1
  BY TextLen
<1>3. b[i] < b[j]
  BY <1>2, PositionsIncrease
<1> QED
  BY <1>1, <1>3

-----------------------------------------------------------------------------
(***************************************************************************)
(* Matches.  A match that starts at unit i ends after it, within the text; *)
(* 0 means that there is none.                                             *)
(***************************************************************************)
LEMMA ManyMatch ==
  ASSUME NEW t \in Texts, NEW i \in 1 .. Len(t) + 1, NEW class
  PROVE  /\ Many0(t, i, class) \in i .. Len(t) + 1
         /\ \A j \in i .. Many0(t, i, class) - 1 : t[j] \in class
         /\ Many0(t, i, class) = Len(t) + 1 \/ t[Many0(t, i, class)] \notin class
         /\ i <= Len(t) /\ t[i] \in class => Many0(t, i, class) \in i + 1 .. Len(t) + 1
<1> DEFINE l == Len(t)
           S == {j \in i .. l + 1 : j = l + 1 \/ t[j] \notin class}
           m == Many0(t, i, class)
<1>1. l \in Nat /\ l + 1 \in S /\ S \subseteq Nat
  BY TextLen
<1>2. m = Min(S)
  BY DEF Many0
<1>3. m \in S /\ \A j \in S : m <= j
  <2> HIDE DEF S, m
  <2> QED
    BY <1>1, <1>2, Least
<1> HIDE DEF m
<1>4. m \in i .. l + 1 /\ (m = l + 1 \/ t[m] \notin class)
  BY <1>3
<1>5. \A j \in i .. m - 1 : t[j] \in class
  <2> SUFFICES ASSUME NEW j \in i .. m - 1, t[j] \notin class PROVE FALSE
    OBVIOUS
  <2>1. j \in S /\ ~(m <= j)
    BY <1>1, <1>4
  <2> QED
    BY <1>3, <2>1
<1>6. i <= l /\ t[i] \in class => m \in i + 1 .. l + 1
  BY <1>1, <1>4
<1> QED
  BY <1>4, <1>5, <1>6 DEF m

LEMMA Many1Match ==
  ASSUME NEW t \in Texts, NEW i \in 1 .. Len(t) + 1, NEW class
  PROVE  /\ Many1(t, i, class) \in {0} \cup (i + 1 .. Len(t) + 1)
         /\ i <= Len(t) /\ t[i] \in class => Many1(t, i, class) \in i + 1 .. Len(t) + 1
<1> DEFINE l == Len(t)
           m == Many0(t, i, class)
<1>1. l \in Nat
  BY TextLen
<1>2. m \in i .. l + 1 /\ (i <= l /\ t[i] \in class => m \in i + 1 .. l + 1)
  BY ManyMatch
<1>3. Many1(t, i, class) = IF m > i THEN m ELSE 0
  BY DEF Many1
<1> HIDE DEF l, m
<1> QED
  BY <1>1, <1>2, <1>3 DEF l

LEMMA StartsMatch ==
  ASSUME NEW t \in Texts, NEW i \in Nat, NEW units, NEW n \in Nat \ {0}, Len(units) = n
  PROVE  /\ Starts(t, i, units) \in {0} \cup (i + 1 .. Len(t) + 1)
         /\ Starts(t, i, units) # 0 => Starts(t, i, units) = i + n /\ i \in 1 .. Len(t)
<1>1. Len(t) \in Nat
  BY TextLen
<1>2. \/ Starts(t, i, units) = 0
      \/ Starts(t, i, units) = i + n /\ i > 0 /\ i + n - 1 <= Len(t)
  BY DEF Starts
<1> QED
  BY <1>1, <1>2

LEMMA TimesMatch ==
  ASSUME NEW t \in Texts, NEW i \in Nat, NEW n \in Nat \ {0}, NEW class
  PROVE  Times(t, i, n, class) \in {0} \cup (i + 1 .. Len(t) + 1)
<1>1. Len(t) \in Nat
  BY TextLen
<1>2. \/ Times(t, i, n, class) = 0
      \/ Times(t, i, n, class) = i + n /\ i + n - 1 <= Len(t)
  BY DEF Times
<1> QED
  BY <1>1, <1>2

LEMMA EnclosedMatch ==
  ASSUME NEW t \in Texts, NEW i \in Nat, NEW open, NEW class, NEW close,
         NEW n \in Nat \ {0}, Len(open) = n, Len(close) = 1
  PROVE  Enclosed(t, i, open, class, close) \in {0} \cup (i + 1 .. Len(t) + 1)
<1> DEFINE l == Len(t)
           o == Starts(t, i, open)
           m == Many1(t, o, class)
           e == Starts(t, m, close)
<1>1. l \in Nat
  BY TextLen
<1>2. Enclosed(t, i, open, class, close) = IF o = 0 \/ m = 0 THEN 0 ELSE e
  BY DEF Enclosed
<1>3. o \in {0} \cup (i + 1 .. l + 1)
  BY StartsMatch
<1>4. o # 0 => o \in 1 .. l + 1 /\ m \in {0} \cup (o + 1 .. l + 1)
  <2>1. o # 0 => o \in 1 .. l + 1
    BY <1>1, <1>3
  <2> HIDE DEF o
  <2> QED
    BY <2>1, Many1Match
<1>5. o # 0 /\ m # 0 => e \in {0} \cup (m + 1 .. l + 1)
  <2>1. o # 0 /\ m # 0 => m \in Nat
    BY <1>1, <1>4
  <2> SUFFICES ASSUME o # 0, m # 0 PROVE e \in {0} \cup (m + 1 .. l + 1)
    OBVIOUS
  <2>2. 1 \in Nat \ {0} /\ m \in Nat
    BY <2>1
  <2> HIDE DEF m, o
  <2> QED
    BY <2>2, StartsMatch
<1> HIDE DEF l, o, m, e
<1> QED
  BY <1>1, <1>2, <1>3, <1>4, <1>5 DEF l

LEMMA AnyOfMatch ==
  ASSUME NEW ends, NEW R, ends \subseteq {0} \cup R
  PROVE  AnyOf(ends) \in {0} \cup R
<1>1. CASE ends \subseteq {0}
  BY <1>1 DEF AnyOf
<1>2. CASE ~(ends \subseteq {0})
  <2>1. \E e \in ends : e # 0
    BY <1>2
  <2>2. AnyOf(ends) = CHOOSE e \in ends : e # 0
    BY <1>2 DEF AnyOf
  <2> QED
    BY <2>1, <2>2
<1> QED
  BY <1>1, <1>2

\* The last alternative always matches
LEMMA FirstMatched ==
  ASSUME NEW n \in Nat \ {0}, NEW alternatives, DOMAIN alternatives = 1 .. n, NEW R,
         0 \notin R, \A k \in 1 .. n : alternatives[k][1] \in {0} \cup R,
         alternatives[n][1] # 0
  PROVE  FirstMatch(alternatives)[1] \in R
<1> DEFINE S == {k \in DOMAIN alternatives : alternatives[k][1] # 0}
<1>1. S \subseteq Nat /\ S # {}
  <2>1. n \in S
    OBVIOUS
  <2> QED
    BY <2>1
<1>2. Min(S) \in S
  <2> HIDE DEF S
  <2> QED
    BY <1>1, Least
<1> QED
  BY <1>2 DEF FirstMatch

\* Regex syntax after `(?` and after a backslash
LEMMA SpecialGroupMatch ==
  ASSUME NEW t \in Texts, NEW i \in 1 .. Len(t) + 1
  PROVE  SpecialGroup(t, i)[1] \in i .. Len(t) + 1
<1> DEFINE l == Len(t)
           R == i .. l + 1
           ident == AsciiAlnum \cup {"-", "+"}
           inside == Units \ {")"}
           comment == IF Starts(t, i, <<"#">>) = 0 THEN 0
                      ELSE Starts(t, Many0(t, i + 1, inside), <<")">>)
           named == AnyOf({Enclosed(t, i, open, ident, <<">">>) : open \in {<<"P", "<">>, <<"<">>}})
           called == AnyOf({Starts(t, i, <<"P", ">">>), Starts(t, i, <<"&">>)})
           quoted == Enclosed(t, i, <<"'">>, ident, <<"'">>)
           back == Enclosed(t, i, <<"P", "=">>, ident, <<")">>)
           one == {<<":">>, <<"=">>, <<"!">>, <<">">>, <<"(">>, <<"|">>}
<1>1. l \in Nat /\ i \in Nat /\ i \in 1 .. l + 1 /\ 0 \notin R /\ i \in R /\ i # 0 /\ i + 1 .. l + 1 \subseteq R
  BY TextLen
<1>2. /\ (\A x : Len(<<x>>) = 1) /\ (\A x, y : Len(<<x, y>>) = 2)
      /\ 1 \in Nat \ {0} /\ 2 \in Nat \ {0}
  OBVIOUS
<1>3. \A x : Starts(t, i, <<x>>) \in {0} \cup R
  <2> SUFFICES ASSUME NEW x PROVE Starts(t, i, <<x>>) \in {0} \cup (i + 1 .. l + 1)
    BY <1>1
  <2> QED
    BY <1>1, <1>2, StartsMatch
<1>4. \A x, y : Starts(t, i, <<x, y>>) \in {0} \cup R
  <2> SUFFICES ASSUME NEW x, NEW y PROVE Starts(t, i, <<x, y>>) \in {0} \cup (i + 1 .. l + 1)
    BY <1>1
  <2> QED
    BY <1>1, <1>2, StartsMatch
<1>5. \A x, z : Enclosed(t, i, <<x>>, ident, <<z>>) \in {0} \cup R
  <2> SUFFICES ASSUME NEW x, NEW z
               PROVE  Enclosed(t, i, <<x>>, ident, <<z>>) \in {0} \cup (i + 1 .. l + 1)
    BY <1>1
  <2> HIDE DEF ident
  <2> QED
    BY <1>1, <1>2, EnclosedMatch
<1>6. \A x, y, z : Enclosed(t, i, <<x, y>>, ident, <<z>>) \in {0} \cup R
  <2> SUFFICES ASSUME NEW x, NEW y, NEW z
               PROVE  Enclosed(t, i, <<x, y>>, ident, <<z>>) \in {0} \cup (i + 1 .. l + 1)
    BY <1>1
  <2> HIDE DEF ident
  <2> QED
    BY <1>1, <1>2, EnclosedMatch
<1>7. named \in {0} \cup R
  <2> DEFINE ends == {Enclosed(t, i, open, ident, <<">">>) : open \in {<<"P", "<">>, <<"<">>}}
  <2>1. ends \subseteq {0} \cup R
    <3> HIDE DEF R, ident
    <3> QED
      BY <1>5, <1>6
  <2> HIDE DEF ends, R
  <2>2. AnyOf(ends) \in {0} \cup R
    BY <2>1, AnyOfMatch
  <2> QED
    BY <2>2 DEF ends
<1>8. called \in {0} \cup R
  <2> DEFINE ends == {Starts(t, i, <<"P", ">">>), Starts(t, i, <<"&">>)}
  <2>1. ends \subseteq {0} \cup R
    <3> HIDE DEF R
    <3> QED
      BY <1>3, <1>4
  <2> HIDE DEF ends, R
  <2>2. AnyOf(ends) \in {0} \cup R
    BY <2>1, AnyOfMatch
  <2> QED
    BY <2>2 DEF ends
<1>9. comment \in {0} \cup R
  <2> DEFINE m == Many0(t, i + 1, inside)
  <2> SUFFICES ASSUME Starts(t, i, <<"#">>) # 0 PROVE Starts(t, m, <<")">>) \in {0} \cup R
    OBVIOUS
  <2>1. i \in 1 .. l
    BY <1>1, <1>2, StartsMatch
  <2>2. i + 1 \in 1 .. l + 1
    BY <1>1, <2>1
  <2>3. m \in i + 1 .. l + 1
    <3> HIDE DEF inside
    <3> QED
      BY <2>2, ManyMatch
  <2>4. m \in Nat /\ m + 1 .. l + 1 \subseteq R
    <3> HIDE DEF m, l
    <3>1. m \in Nat /\ i <= m
      BY <1>1, <2>3
    <3> QED
      BY <1>1, <3>1
  <2> HIDE DEF m, R
  <2>5. Starts(t, m, <<")">>) \in {0} \cup (m + 1 .. l + 1)
    BY <1>2, <2>4, StartsMatch
  <2> QED
    BY <2>4, <2>5
<1> DEFINE list == <<
             <<Starts(t, i, <<":">>), "GroupNonCapturing">>,
             <<Starts(t, i, <<"=">>), "GroupLookahead">>,
             <<Starts(t, i, <<"!">>), "GroupLookaheadNeg">>,
             <<Starts(t, i, <<">">>), "GroupAtomic">>,
             <<Starts(t, i, <<"(">>), "GroupConditional">>,
             <<Starts(t, i, <<"|">>), "GroupBranchReset">>,
             <<Starts(t, i, <<"<", "=">>), "GroupLookbehind">>,
             <<Starts(t, i, <<"<", "!">>), "GroupLookbehindNeg">>,
             <<named, "GroupNamedCapture">>,
             <<quoted, "GroupNamedCapture">>,
             <<back, "GroupPcreBackreference">>,
             <<called, "GroupSubroutineCall">>,
             <<comment, "GroupComment">>,
             <<i, "GroupOther">> >>
<1>10. SpecialGroup(t, i) = FirstMatch(list)
  BY DEF SpecialGroup
<1>11. quoted \in {0} \cup R /\ back \in {0} \cup R
  <2> HIDE DEF R, ident
  <2> QED
    BY <1>5, <1>6
<1> HIDE DEF named, quoted, back, called, comment, R, ident
<1>12. DOMAIN list = 1 .. 14 /\ list[14][1] = i
  OBVIOUS
<1>13. \A k \in 1 .. 14 : list[k][1] \in {0} \cup R
  <2> DEFINE Z == {0} \cup R
  <2>1. /\ (\A x : Starts(t, i, <<x>>) \in Z) /\ (\A x, y : Starts(t, i, <<x, y>>) \in Z)
        /\ named \in Z /\ quoted \in Z /\ back \in Z /\ called \in Z /\ comment \in Z /\ i \in Z
    BY <1>1, <1>3, <1>4, <1>7, <1>8, <1>9, <1>11
  <2> HIDE DEF Z
  <2> DEFINE s1 == Starts(t, i, <<":">>)
             s2 == Starts(t, i, <<"=">>)
             s3 == Starts(t, i, <<"!">>)
             s4 == Starts(t, i, <<">">>)
             s5 == Starts(t, i, <<"(">>)
             s6 == Starts(t, i, <<"|">>)
             s7 == Starts(t, i, <<"<", "=">>)
             s8 == Starts(t, i, <<"<", "!">>)
  <2>2. /\ s1 \in Z /\ s2 \in Z /\ s3 \in Z /\ s4 \in Z /\ s5 \in Z /\ s6 \in Z
        /\ s7 \in Z /\ s8 \in Z /\ named \in Z /\ quoted \in Z /\ back \in Z /\ called \in Z
        /\ comment \in Z /\ i \in Z
    BY <2>1
  <2> HIDE DEF s1, s2, s3, s4, s5, s6, s7, s8
  <2>3. list = << <<s1, "GroupNonCapturing">>, <<s2, "GroupLookahead">>, <<s3, "GroupLookaheadNeg">>,
                  <<s4, "GroupAtomic">>, <<s5, "GroupConditional">>, <<s6, "GroupBranchReset">>,
                  <<s7, "GroupLookbehind">>, <<s8, "GroupLookbehindNeg">>,
                  <<named, "GroupNamedCapture">>, <<quoted, "GroupNamedCapture">>,
                  <<back, "GroupPcreBackreference">>, <<called, "GroupSubroutineCall">>,
                  <<comment, "GroupComment">>, <<i, "GroupOther">> >>
    BY DEF s1, s2, s3, s4, s5, s6, s7, s8
  <2> HIDE DEF list
  <2>4. /\ list[1][1] \in Z /\ list[2][1] \in Z /\ list[3][1] \in Z /\ list[4][1] \in Z
        /\ list[5][1] \in Z /\ list[6][1] \in Z /\ list[7][1] \in Z /\ list[8][1] \in Z
        /\ list[9][1] \in Z /\ list[10][1] \in Z /\ list[11][1] \in Z /\ list[12][1] \in Z
        /\ list[13][1] \in Z /\ list[14][1] \in Z
    BY <2>2, <2>3
  <2>5. \A k \in 1 .. 14 : \/ k = 1 \/ k = 2 \/ k = 3 \/ k = 4 \/ k = 5 \/ k = 6 \/ k = 7 \/ k = 8
                          \/ k = 9 \/ k = 10 \/ k = 11 \/ k = 12 \/ k = 13 \/ k = 14
    OBVIOUS
  <2>6. \A k \in 1 .. 14 : list[k][1] \in Z
    BY <2>4, <2>5
  <2> QED
    BY <2>6 DEF Z
<1> HIDE DEF list
<1>14. FirstMatch(list)[1] \in R
  <2>1. 14 \in Nat \ {0}
    OBVIOUS
  <2> QED
    BY <1>1, <1>12, <1>13, <2>1, FirstMatched
<1> QED
  BY <1>10, <1>14 DEF R

LEMMA EscapeMatch ==
  ASSUME NEW t \in Texts, NEW i \in 1 .. Len(t)
  PROVE  Escape(t, i)[1] \in i + 1 .. Len(t) + 1
<1> DEFINE l == Len(t)
           R == i + 1 .. l + 1
           j == i + 1
           ident == AsciiAlnum \cup {"-", "+", "_"}
           c == At(t, i)
           braces == Enclosed(t, j, <<"{">>, ident, <<"}">>)
           sign == IF At(t, j) \in {"-", "+"} THEN 1 ELSE 0
           hex == Enclosed(t, j, <<"{">>, AsciiHexDigits, <<"}">>)
           angles == Enclosed(t, j, <<"<">>, ident, <<">">>)
           quotes == Enclosed(t, j, <<"'">>, ident, <<"'">>)
           negated == Enclosed(t, j, <<"{", "^">>, ident, <<"}">>)
           four == Times(t, j, 4, AsciiHexDigits)
           two == Times(t, j, 2, AsciiHexDigits)
           number == Times(t, j + sign, 1, Numerals)
           letter == Times(t, j, 1, AsciiAlnum)
           refs == {angles, braces, quotes, number}
           props == {letter, braces, negated}
<1>1. /\ l \in Nat /\ i \in Nat /\ j \in Nat /\ j \in R /\ 0 \notin R /\ j # 0
      /\ j + 1 .. l + 1 \subseteq R /\ j + 1 + 1 .. l + 1 \subseteq R
  BY TextLen
<1>2. /\ (\A x : Len(<<x>>) = 1) /\ (\A x, y : Len(<<x, y>>) = 2)
      /\ 1 \in Nat \ {0} /\ 2 \in Nat \ {0} /\ 4 \in Nat \ {0}
  OBVIOUS
<1> HIDE DEF j, R, ident
<1>3. /\ braces \in {0} \cup R /\ hex \in {0} \cup R /\ angles \in {0} \cup R
      /\ quotes \in {0} \cup R /\ negated \in {0} \cup R
  <2>1. /\ braces \in {0} \cup (j + 1 .. l + 1) /\ hex \in {0} \cup (j + 1 .. l + 1)
        /\ angles \in {0} \cup (j + 1 .. l + 1) /\ quotes \in {0} \cup (j + 1 .. l + 1)
    BY <1>1, <1>2, EnclosedMatch
  <2>2. negated \in {0} \cup (j + 1 .. l + 1)
    BY <1>1, <1>2, EnclosedMatch
  <2> QED
    BY <1>1, <2>1, <2>2
<1>4. four \in {0} \cup R /\ two \in {0} \cup R /\ letter \in {0} \cup R
  <2>1. /\ four \in {0} \cup (j + 1 .. l + 1) /\ two \in {0} \cup (j + 1 .. l + 1)
        /\ letter \in {0} \cup (j + 1 .. l + 1)
    BY <1>1, <1>2, TimesMatch
  <2> QED
    BY <1>1, <2>1
<1>5. number \in {0} \cup R
  <2>1. sign \in {0, 1}
    OBVIOUS
  <2> HIDE DEF sign
  <2> DEFINE k == j + sign
  <2>2. k \in Nat /\ (k = j \/ k = j + 1)
    BY <1>1, <2>1
  <2>3. k + 1 .. l + 1 \subseteq R
    BY <1>1, <2>2
  <2> HIDE DEF k
  <2>4. Times(t, k, 1, Numerals) \in {0} \cup (k + 1 .. l + 1)
    BY <1>2, <2>2, TimesMatch
  <2>5. Times(t, k, 1, Numerals) \in {0} \cup R
    BY <2>3, <2>4
  <2> QED
    BY <2>5 DEF k
<1> HIDE DEF braces, hex, angles, quotes, negated, four, two, number, letter
<1>6. refs \subseteq {0} \cup R /\ props \subseteq {0} \cup R
  BY <1>3, <1>4, <1>5
<1>7. AnyOf(refs) \in {0} \cup R /\ AnyOf(props) \in {0} \cup R
  <2> HIDE DEF refs, props
  <2> QED
    BY <1>6, AnyOfMatch
<1> DEFINE list == <<
             <<IF c \in {"u", "x"} THEN hex ELSE 0, "BackslashUnicode">>,
             <<IF c = "u" THEN four ELSE 0, "BackslashU4">>,
             <<IF c = "x" THEN two ELSE 0, "BackslashX2">>,
             <<IF c \in {"k", "g"} THEN AnyOf(refs) ELSE 0, "BackslashGK">>,
             <<IF c \in {"p", "P"} THEN AnyOf(props) ELSE 0, "BackslashProperty">>,
             <<j, "Backslash">> >>
<1>8. Escape(t, i) = FirstMatch(list)
  BY DEF Escape, j, ident, braces, hex, angles, quotes, negated, four, two, number, letter
<1>9. DOMAIN list = 1 .. 6 /\ list[6][1] = j
  OBVIOUS
<1>10. \A k \in 1 .. 6 : list[k][1] \in {0} \cup R
  <2> HIDE DEF refs, props, c
  <2> DEFINE Z == {0} \cup R
  <2>1. /\ 0 \in Z /\ hex \in Z /\ four \in Z /\ two \in Z /\ AnyOf(refs) \in Z
        /\ AnyOf(props) \in Z /\ j \in Z
    BY <1>1, <1>3, <1>4, <1>7
  <2> HIDE DEF Z
  <2>2. \A k \in 1 .. 6 : list[k][1] \in Z
    BY <2>1
  <2> QED
    BY <2>2 DEF Z
<1> HIDE DEF list
<1>11. FirstMatch(list)[1] \in R
  <2>1. 6 \in Nat \ {0}
    OBVIOUS
  <2> QED
    BY <1>1, <1>9, <1>10, <2>1, FirstMatched
<1> QED
  BY <1>8, <1>11 DEF R, j

-----------------------------------------------------------------------------
(***************************************************************************)
(* Searches that go on later in the text                                   *)
(***************************************************************************)
\* What holds of a number when it holds of the greater ones holds of all
LEMMA Downwards ==
  ASSUME NEW a \in Nat, NEW m \in Nat, NEW S,
         \A j \in a .. m : (\A k \in j + 1 .. m : k \in S) => j \in S
  PROVE  \A j \in a .. m : j \in S
<1> DEFINE Missing == {n \in 0 .. m : n <= m - a /\ m - n \notin S}
<1> SUFFICES ASSUME NEW j \in a .. m, j \notin S PROVE FALSE
  OBVIOUS
<1>1. m - j \in Missing
  OBVIOUS
<1>2. PICK n \in Missing : \A k \in Missing : n <= k
  <2>1. Missing \subseteq Nat
    OBVIOUS
  <2> HIDE DEF Missing
  <2> QED
    BY <1>1, <2>1, Least
<1>3. m - n \in a .. m /\ m - n \notin S
  BY <1>2
<1>4. \A k \in m - n + 1 .. m : k \in S
  <2> SUFFICES ASSUME NEW k \in m - n + 1 .. m, k \notin S PROVE FALSE
    OBVIOUS
  <2>1. m - k \in Missing /\ ~(n <= m - k)
    BY <1>3
  <2> QED
    BY <1>2, <2>1
<1> QED
  BY <1>3, <1>4

\* A function that is given on some numbers, and on the others by its value at a
\* greater one, exists
Advances(a, m, Stop, value, later, V) ==
  \A j \in a .. m : IF j \in Stop THEN value[j] \in V ELSE later[j] \in j + 1 .. m

LEMMA Search ==
  ASSUME NEW a \in Nat, NEW m \in Nat, NEW Stop, NEW value, NEW later, NEW V,
         Advances(a, m, Stop, value, later, V)
  PROVE  \E f \in [a .. m -> V] :
           \A j \in a .. m : f[j] = IF j \in Stop THEN value[j] ELSE f[later[j]]
<1> DEFINE Fits(j, f) == f = [i \in j .. m |-> IF i \in Stop THEN value[i] ELSE f[later[i]]]
           S == {j \in a .. m + 1 : \E f : Fits(j, f)}
<1>0. \A j \in a .. m : IF j \in Stop THEN value[j] \in V ELSE later[j] \in j + 1 .. m
  BY DEF Advances
<1>1. m + 1 \in Nat
  OBVIOUS
<1>2. ASSUME NEW j \in a .. m + 1, \A k \in j + 1 .. m + 1 : k \in S
      PROVE  j \in S
  <2>1. CASE j = m + 1
    <3>1. j .. m = {}
      BY <2>1
    <3> DEFINE f == [i \in {} |-> 0]
    <3>2. Fits(j, f)
      BY <3>1
    <3> QED
      BY <3>2
  <2>2. CASE j # m + 1
    <3>1. j + 1 \in j + 1 .. m + 1 /\ j \in a .. m /\ j .. m = {j} \cup (j + 1 .. m)
          /\ j \notin j + 1 .. m
      BY <2>2
    <3>2. PICK f : Fits(j + 1, f)
      BY <1>2, <3>1
    <3> DEFINE h == [i \in j .. m |-> IF i = j
                       THEN IF j \in Stop THEN value[j] ELSE f[later[j]] ELSE f[i]]
               c == [i \in j .. m |-> IF i \in Stop THEN value[i] ELSE h[later[i]]]
    <3>3. \A i \in j + 1 .. m : f[i] = IF i \in Stop THEN value[i] ELSE f[later[i]]
      BY <3>2
    <3>4. \A i \in j + 1 .. m : h[i] = f[i]
      BY <3>1
    <3>5. h[j] = IF j \in Stop THEN value[j] ELSE f[later[j]]
      BY <3>1
    <3>6. \A i \in j .. m : i \in Stop \/ later[i] \in j + 1 .. m
      <4> SUFFICES ASSUME NEW i \in j .. m, i \notin Stop PROVE later[i] \in j + 1 .. m
        OBVIOUS
      <4>1. i \in a .. m /\ i + 1 .. m \subseteq j + 1 .. m
        OBVIOUS
      <4> QED
        BY <1>0, <4>1
    <3>7. \A i \in j .. m : h[i] = IF i \in Stop THEN value[i] ELSE h[later[i]]
      <4> SUFFICES ASSUME NEW i \in j .. m
                   PROVE  h[i] = IF i \in Stop THEN value[i] ELSE h[later[i]]
        OBVIOUS
      <4> HIDE DEF h
      <4>1. i \in Stop \/ h[later[i]] = f[later[i]]
        BY <3>4, <3>6
      <4>2. h[i] = IF i \in Stop THEN value[i] ELSE f[later[i]]
        BY <3>1, <3>3, <3>4, <3>5
      <4> QED
        BY <4>1, <4>2
    <3>8. h = c
      <4>1. DOMAIN h = j .. m /\ DOMAIN c = j .. m
        OBVIOUS
      <4>2. \A i \in j .. m : h[i] = c[i]
        <5> HIDE DEF h
        <5> QED
          BY <3>7
      <4>3. h = [i \in j .. m |-> h[i]] /\ c = [i \in j .. m |-> c[i]]
        OBVIOUS
      <4> HIDE DEF h, c
      <4> QED
        BY <4>1, <4>2, <4>3
    <3>9. Fits(j, h)
      <4> HIDE DEF h
      <4> QED
        BY <3>8
    <3> HIDE DEF h, c
    <3> QED
      BY <3>9
  <2> QED
    BY <2>1, <2>2
<1>3. \A j \in a .. m + 1 : j \in S
  <2> HIDE DEF S
  <2> QED
    BY <1>1, <1>2, Downwards
<1>4. \E f : Fits(a, f)
  <2>1. CASE a <= m + 1
    <3>1. a \in S
      BY <1>3, <2>1
    <3> QED
      BY <3>1
  <2>2. CASE ~(a <= m + 1)
    <3>1. a .. m = {}
      BY <2>2
    <3> DEFINE f == [i \in {} |-> 0]
    <3>2. Fits(a, f)
      BY <3>1
    <3> QED
      BY <3>2
  <2> QED
    BY <2>1, <2>2
<1>5. PICK f : Fits(a, f)
  BY <1>4
<1>6. \A j \in a .. m : f[j] = IF j \in Stop THEN value[j] ELSE f[later[j]]
  BY <1>5
<1> DEFINE T == {j \in a .. m : f[j] \in V}
<1>7. \A j \in a .. m : (\A k \in j + 1 .. m : k \in T) => j \in T
  BY <1>0, <1>6
<1>8. \A j \in a .. m : j \in T
  <2> HIDE DEF T
  <2> QED
    BY <1>7, Downwards
<1>9. f \in [a .. m -> V]
  BY <1>5, <1>8
<1> QED
  BY <1>6, <1>9

-----------------------------------------------------------------------------
(***************************************************************************)
(* Quoted text                                                             *)
(***************************************************************************)
\* A quoted text that begins at unit i ends after the unit q
Closed(t, b, i, inner) ==
  \/ inner = -1
  \/ \E q \in i + 1 .. Len(t) : inner = b[q] - (b[i] + 1) /\ BytesOf(t[q]) = 1

LEMMA FindQuoteMatch ==
  ASSUME NEW t \in Texts, NEW b, Positions(t, b), NEW i \in 1 .. Len(t)
  PROVE  Closed(t, b, i, FindQuote(t, b, i))
<1> DEFINE S == {j \in i + 1 .. Len(t) : t[j] = "'"}
<1>1. Len(t) \in Nat
  BY TextLen
<1>2. CASE S = {}
  BY <1>2 DEF FindQuote, Closed
<1>3. CASE S # {}
  <2> DEFINE q == Min(S)
  <2>1. q \in S
    <3>1. S \subseteq Nat
      BY <1>1
    <3> HIDE DEF S
    <3> QED
      BY <1>3, <3>1, Least
  <2>2. FindQuote(t, b, i) = b[q] - (b[i] + 1)
    BY <1>3 DEF FindQuote
  <2>3. BytesOf(t[q]) = 1
    BY <2>1, Bytes DEF Punctuation
  <2> HIDE DEF q
  <2> QED
    BY <2>1, <2>2, <2>3 DEF Closed
<1> QED
  BY <1>2, <1>3

LEMMA FindUnescapedQuoteMatch ==
  ASSUME NEW t \in Texts, NEW b, Positions(t, b), NEW i \in 1 .. Len(t)
  PROVE  Closed(t, b, i, FindUnescapedQuote(t, b, i))
<1> DEFINE l == Len(t)
           dq == "\""
           None == l + 1
           step == [j \in 1 .. l |->
                      IF t[j] # "\\" THEN j + 1
                      ELSE IF j = l THEN None
                      ELSE UnitAt(b, b[j] + EscapedLength(t[j + 1]))]
           Stop == {0, None} \cup {j \in 1 .. l : t[j] = dq}
           value == [j \in 0 .. None |-> j]
           from == CHOOSE f : f = [j \in 0 .. None |->
                     IF j = 0 THEN 0 ELSE IF j = None THEN None
                     ELSE IF t[j] = dq THEN j ELSE f[step[j]]]
           quote == from[i + 1]
<1>1. l \in Nat /\ None \in Nat /\ i \in 1 .. l
  BY TextLen
<1>p. /\ \A j \in 1 .. l + 1 : b[j] \in Nat
      /\ \A j \in 1 .. l : b[j + 1] = b[j] + BytesOf(t[j])
  BY DEF Positions
<1>u. \A j \in 1 .. l + 1 : UnitAt(b, b[j]) = j
  BY UnitFound
<1> HIDE DEF l, dq
<1>2. \A j \in 1 .. l : step[j] \in j + 1 .. None
  <2> SUFFICES ASSUME NEW j \in 1 .. l PROVE step[j] \in j + 1 .. None
    OBVIOUS
  <2>1. step[j] = IF t[j] # "\\" THEN j + 1 ELSE IF j = l THEN None
                  ELSE UnitAt(b, b[j] + EscapedLength(t[j + 1]))
    OBVIOUS
  <2> HIDE DEF step
  <2>2. CASE t[j] # "\\" \/ j = l
    BY <1>1, <2>1, <2>2
  <2>3. CASE t[j] = "\\" /\ j # l
    <3>1. j + 1 \in 1 .. l /\ j + 1 + 1 \in 1 .. l + 1 /\ j + 1 + 1 = j + 2 /\ j + 2 \in j + 1 .. None
      BY <1>1, <2>3
    <3>2. BytesOf(t[j]) = 1
      BY <2>3, Bytes DEF Punctuation
    <3>3. b[j + 1] = b[j] + 1 /\ b[j + 2] = b[j + 1] + BytesOf(t[j + 1])
      BY <1>p, <3>1, <3>2
    <3>4. b[j] \in Nat /\ BytesOf(t[j + 1]) \in Nat
      <4>1. j \in 1 .. l + 1
        BY <1>1
      <4> QED
        BY <1>p, <4>1, Bytes
    <3>5. b[j] + EscapedLength(t[j + 1]) = b[j + 2]
      BY <3>3, <3>4 DEF EscapedLength
    <3>6. UnitAt(b, b[j + 2]) = j + 2
      BY <1>u, <3>1
    <3> QED
      BY <2>1, <2>3, <3>1, <3>5, <3>6
  <2> QED
    BY <2>2, <2>3
<1> HIDE DEF step
<1>3. \A j \in 0 .. None :
        IF j \in Stop THEN value[j] \in 0 .. None ELSE step[j] \in j + 1 .. None
  BY <1>1, <1>2
<1>4. \E g \in [0 .. None -> 0 .. None] :
        \A j \in 0 .. None : g[j] = IF j \in Stop THEN value[j] ELSE g[step[j]]
  <2>1. Advances(0, None, Stop, value, step, 0 .. None)
    BY <1>3 DEF Advances
  <2>2. 0 \in Nat
    OBVIOUS
  <2> HIDE DEF Stop, value, None
  <2> QED
    BY <1>1, <2>1, <2>2, Search
<1>5. PICK g \in [0 .. None -> 0 .. None] :
        \A j \in 0 .. None : g[j] = IF j \in Stop THEN value[j] ELSE g[step[j]]
  BY <1>4
<1>6. g = [j \in 0 .. None |->
             IF j = 0 THEN 0 ELSE IF j = None THEN None
             ELSE IF t[j] = dq THEN j ELSE g[step[j]]]
  <2>1. \A j \in 0 .. None :
          (IF j \in Stop THEN value[j] ELSE g[step[j]])
          = IF j = 0 THEN 0 ELSE IF j = None THEN None
            ELSE IF t[j] = dq THEN j ELSE g[step[j]]
    <3>1. \A j \in 0 .. None : value[j] = j
      OBVIOUS
    <3>2. \A j \in 0 .. None : j \in Stop <=> j = 0 \/ j = None \/ t[j] = dq
      <4>1. \A j \in 0 .. None : j = 0 \/ j = None \/ j \in 1 .. l
        BY <1>1
      <4> HIDE DEF None
      <4> QED
        BY <4>1
    <3> HIDE DEF Stop, value, None
    <3> QED
      BY <3>1, <3>2
  <2> HIDE DEF Stop, value
  <2> QED
    BY <1>5, <2>1
<1>7. from = [j \in 0 .. None |->
                IF j = 0 THEN 0 ELSE IF j = None THEN None
                ELSE IF t[j] = dq THEN j ELSE from[step[j]]]
  BY <1>6
<1> HIDE DEF from
<1> DEFINE Good == {j \in 1 .. None : from[j] \in j .. None /\ (from[j] = None \/ t[from[j]] = dq)}
<1>8. \A j \in 1 .. None : (\A k \in j + 1 .. None : k \in Good) => j \in Good
  <2> SUFFICES ASSUME NEW j \in 1 .. None, \A k \in j + 1 .. None : k \in Good
               PROVE  from[j] \in j .. None /\ (from[j] = None \/ t[from[j]] = dq)
    OBVIOUS
  <2>1. from[j] = IF j = None THEN None ELSE IF t[j] = dq THEN j ELSE from[step[j]]
    <3>1. j \in 0 .. None /\ j # 0
      BY <1>1
    <3> DEFINE c == [n \in 0 .. None |->
                       IF n = 0 THEN 0 ELSE IF n = None THEN None
                       ELSE IF t[n] = dq THEN n ELSE from[step[n]]]
    <3>2. c[j] = IF j = None THEN None ELSE IF t[j] = dq THEN j ELSE from[step[j]]
      BY <3>1
    <3>3. from = c
      BY <1>7
    <3> HIDE DEF c
    <3> QED
      BY <3>2, <3>3
  <2>2. CASE j = None \/ t[j] = dq
    <3>1. from[j] = j /\ j \in j .. None
      BY <1>1, <2>1, <2>2
    <3> HIDE DEF None
    <3> QED
      BY <2>2, <3>1
  <2>3. CASE j # None /\ t[j] # dq
    <3>1. j \in 1 .. l
      BY <1>1, <2>3
    <3>2. step[j] \in j + 1 .. None /\ step[j] \in Good
      BY <1>2, <3>1
    <3>3. from[j] = from[step[j]]
      BY <2>1, <2>3
    <3>4. from[j] \in step[j] .. None /\ (from[j] = None \/ t[from[j]] = dq)
      <4> HIDE DEF None
      <4> QED
        BY <3>2, <3>3
    <3>5. step[j] .. None \subseteq j .. None
      <4> DEFINE k == step[j]
      <4>1. k \in j + 1 .. None
        BY <3>2
      <4> HIDE DEF k
      <4>2. k .. None \subseteq j .. None
        BY <1>1, <4>1
      <4> QED
        BY <4>2 DEF k
    <3> HIDE DEF None
    <3> QED
      BY <3>4, <3>5
  <2> QED
    BY <2>2, <2>3
<1>9. \A j \in 1 .. None : j \in Good
  <2>1. 1 \in Nat
    OBVIOUS
  <2> HIDE DEF Good, None
  <2> QED
    BY <1>1, <1>8, <2>1, Downwards
<1>10. i + 1 \in 1 .. None
  BY <1>1
<1>11. quote \in i + 1 .. None /\ (quote = None \/ t[quote] = dq)
  BY <1>9, <1>10
<1>12. FindUnescapedQuote(t, b, i)
       = IF quote = None THEN -1 ELSE IF quote = 0 THEN -2 ELSE b[quote] - (b[i] + 1)
  BY DEF FindUnescapedQuote, from, step, l, dq
<1> HIDE DEF quote
<1>13. CASE quote = None
  BY <1>12, <1>13 DEF Closed
<1>14. CASE quote # None
  <2>1. quote \in i + 1 .. l /\ quote # 0
    BY <1>1, <1>11, <1>14
  <2>2. BytesOf(t[quote]) = 1
    BY <1>11, <1>14, Bytes DEF Punctuation, dq
  <2> QED
    BY <1>12, <1>14, <2>1, <2>2 DEF Closed, l
<1> QED
  BY <1>13, <1>14

-----------------------------------------------------------------------------
(***************************************************************************)
(* A lexeme ends at a character after it, and white space is skipped       *)
(***************************************************************************)
LaterUnits(t, b, i) == {b[m] - b[i] : m \in i + 1 .. Len(t) + 1}

LEMMA QuotedMatch ==
  ASSUME NEW t \in Texts, NEW b, Positions(t, b), NEW i \in 1 .. Len(t),
         NEW inner, Closed(t, b, i, inner)
  PROVE  Quoted(t, b, i, inner)[1] \in LaterUnits(t, b, i)
<1>1. Len(t) \in Nat /\ Len(t) + 1 \in i + 1 .. Len(t) + 1
  BY TextLen
<1>2. CASE inner = -1
  <2>1. Quoted(t, b, i, inner)[1] = b[Len(t) + 1] - b[i]
    BY <1>2 DEF Quoted
  <2> QED
    BY <1>1, <2>1 DEF LaterUnits
<1>3. CASE inner # -1
  <2>1. Quoted(t, b, i, inner)[1] = inner + 2
    BY <1>3 DEF Quoted
  <2>2. PICK q \in i + 1 .. Len(t) : inner = b[q] - (b[i] + 1) /\ BytesOf(t[q]) = 1
    BY <1>3 DEF Closed
  <2>3. q \in 1 .. Len(t) /\ q \in 1 .. Len(t) + 1 /\ q + 1 \in i + 1 .. Len(t) + 1
    BY <1>1
  <2>4. b[q] \in Nat /\ b[i] \in Nat
    <3>1. i \in 1 .. Len(t) + 1
      BY <1>1
    <3> QED
      BY <2>3, <3>1 DEF Positions
  <2>5. b[q + 1] = b[q] + 1
    BY <2>2, <2>3 DEF Positions
  <2>6. inner + 2 = b[q + 1] - b[i]
    <3> DEFINE x == b[q]
               y == b[i]
               z == b[q + 1]
    <3>1. inner = x - (y + 1) /\ x \in Nat /\ y \in Nat /\ z = x + 1
      BY <2>2, <2>4, <2>5
    <3> HIDE DEF x, y, z
    <3>2. inner + 2 = z - y
      BY <3>1
    <3> QED
      BY <3>2 DEF y, z
  <2> QED
    BY <2>1, <2>3, <2>6 DEF LaterUnits
<1> QED
  BY <1>2, <1>3

LEMMA PairLength ==
  ASSUME NEW c, NEW d, <<c, d>> \in DOMAIN PairToken
  PROVE  c \in Punctuation /\ d \in Punctuation /\ d # "end"
<1>1. DOMAIN PairToken = {<<"<", "%">>, <<"%", ">">>, <<">", ">">>, <<"<", "<">>, <<":", ":">>}
  BY DEF PairToken, Table
<1>2. /\ c \in {"<", "%", ">", ":"}
      /\ d \in {"<", "%", ">", ":"}
  BY <1>1
<1> QED
  BY <1>2 DEF Punctuation

LEMMA SingleLength ==
  ASSUME NEW c, c \in DOMAIN SingleToken
  PROVE  c \in Punctuation
<1> DEFINE pairs ==
      {<<"^", "Caret">>, <<"$", "Dollar">>, <<"%", "BWord">>, <<"*", "Star">>, <<"+", "Plus">>,
       <<"?", "QuestionMark">>, <<"|", "Pipe">>, <<":", "Colon">>, <<")", "CloseParen">>,
       <<"{", "OpenBrace">>, <<"}", "CloseBrace">>, <<",", "Comma">>, <<"!", "Not">>,
       <<"[", "OpenBracket">>, <<"-", "Dash">>, <<"]", "CloseBracket">>, <<".", "Dot">>,
       <<";", "Semicolon">>, <<"=", "Equals">>}
           chars == {"^", "$", "%", "*", "+", "?", "|", ":", ")", "{", "}", ",", "!", "[", "-", "]",
                     ".", ";", "="}
<1>1. SingleToken = Table(pairs)
  BY DEF SingleToken
<1>2. \A p \in pairs : p[1] \in chars
  <2> SUFFICES ASSUME NEW p \in pairs PROVE p[1] \in chars
    OBVIOUS
  <2>1. \E x \in chars : \E y : p = <<x, y>>
    BY ZenonT(60)
  <2> HIDE DEF chars, pairs
  <2> QED
    BY <2>1
<1> HIDE DEF pairs
<1>3. DOMAIN SingleToken = {p[1] : p \in pairs}
  BY <1>1 DEF Table
<1> HIDE DEF chars
<1>4. c \in chars
  BY <1>2, <1>3
<1> QED
  BY <1>4, Zenon DEF Punctuation, chars

LEMMA LexemeMatch ==
  ASSUME NEW t \in Texts, NEW b, Positions(t, b), NEW i \in 1 .. Len(t)
  PROVE  Lexeme(t, b, i)[1] \in LaterUnits(t, b, i)
<1> DEFINE l == Len(t)
           E == LaterUnits(t, b, i)
           c == t[i]
           d == At(t, i + 1)
           g1 == <<c, d>> \in DOMAIN PairToken
           g2 == <<c, d>> \notin DOMAIN PairToken /\ c \in DOMAIN SingleToken
           g4 == c = "\""
           g6 == c \in Numerals
           g7 == CodePointEnd(t, i) = 0 /\ c \in WordStart
           g8 == <<c, d>> = <<"(", "?">>
           g10 == c = "\\" /\ i < l
           v1 == <<2, PairToken[<<c, d>>]>>
           v2 == <<1, SingleToken[c]>>
           v3 == Quoted(t, b, i, FindQuote(t, b, i))
           v4 == Quoted(t, b, i, FindUnescapedQuote(t, b, i))
           word == Many0(t, i + 1, WordPart)
           v5 == <<b[CodePointEnd(t, i)] - b[i], "CodePoint">>
           v6 == <<b[Many1(t, i, Numerals)] - b[i], "Number">>
           v7 == <<b[word] - b[i],
                   IF word = i + 1 /\ c \in ReservedWords THEN "ReservedName" ELSE "Identifier">>
           v8 == <<b[SpecialGroup(t, i + 2)[1]] - b[i], SpecialGroup(t, i + 2)[2]>>
           v9 == <<1, "OpenParen">>
           v10 == <<b[Escape(t, i + 1)[1]] - b[i], Escape(t, i + 1)[2]>>
           v11 == <<ErrorLength(c), "Error">>
<1>1. l \in Nat /\ DOMAIN t = 1 .. l /\ i \in 1 .. l /\ i \in Nat /\ i + 1 \in 1 .. l + 1
  BY TextLen
<1>2. \A m \in i + 1 .. l + 1 : b[m] - b[i] \in E
  BY DEF LaterUnits
<1>3. ASSUME BytesOf(c) = 1
      PROVE  1 \in E
  <2>1. b[i] \in Nat /\ b[i + 1] = b[i] + 1
    <3>1. i \in 1 .. l + 1
      BY <1>1
    <3> QED
      BY <1>1, <1>3, <3>1 DEF Positions
  <2>2. 1 = b[i + 1] - b[i] /\ i + 1 \in i + 1 .. l + 1
    BY <1>1, <2>1
  <2> QED
    BY <1>2, <2>2
<1>4. ASSUME g1 PROVE v1[1] \in E
  <2>1. c \in Punctuation /\ d \in Punctuation /\ d # "end"
    BY <1>4, PairLength
  <2>2. i + 1 \in 1 .. l /\ d = t[i + 1] /\ i + 2 \in i + 1 .. l + 1 /\ i + 1 + 1 = i + 2
    <3>1. i + 1 \in DOMAIN t /\ d = t[i + 1]
      BY <2>1 DEF At
    <3> HIDE DEF d, l
    <3> QED
      BY <1>1, <3>1
  <2>3. b[i] \in Nat /\ b[i + 1] = b[i] + BytesOf(c) /\ b[i + 2] = b[i + 1] + BytesOf(d)
    <3>1. i \in 1 .. l + 1
      BY <1>1
    <3> QED
      BY <1>1, <2>2, <3>1 DEF Positions
  <2>4. BytesOf(c) = 1 /\ BytesOf(d) = 1
    BY <2>1, Bytes
  <2>5. b[i + 2] - b[i] = 2
    <3> HIDE DEF c, d
    <3> QED
      BY <2>3, <2>4
  <2> QED
    BY <1>2, <2>2, <2>5
<1>5. ASSUME g2 PROVE v2[1] \in E
  BY <1>3, <1>5, SingleLength, Bytes
<1>6. v3[1] \in E
  BY FindQuoteMatch, QuotedMatch
<1>7. v4[1] \in E
  BY FindUnescapedQuoteMatch, QuotedMatch
<1>8. ASSUME CodePointEnd(t, i) # 0 PROVE v5[1] \in E
  <2> DEFINE s == Starts(t, i, <<"U", "+">>)
             m == Many1(t, i + 2, AsciiHexDigits)
  <2>1. s # 0 /\ CodePointEnd(t, i) = m
    BY <1>8 DEF CodePointEnd
  <2>2. s \in {0} \cup (i + 1 .. l + 1) /\ s = i + 2
    <3> DEFINE units == <<"U", "+">>
    <3>1. 2 \in Nat \ {0} /\ Len(units) = 2
      OBVIOUS
    <3> DEFINE two == 2
    <3>0. two \in Nat \ {0} /\ Len(units) = two
      OBVIOUS
    <3> HIDE DEF units, two
    <3>2. Starts(t, i, units) \in {0} \cup (i + 1 .. Len(t) + 1)
      BY <1>1, <3>1, StartsMatch
    <3>3. Starts(t, i, units) # 0 => Starts(t, i, units) = i + two
      BY <1>1, <3>0, StartsMatch
    <3> QED
      BY <2>1, <3>2, <3>3 DEF units, two
  <2>3. i + 2 \in 1 .. l + 1
    BY <1>1, <2>1, <2>2
  <2>4. m \in {0} \cup (i + 2 + 1 .. l + 1)
    BY <2>3, Many1Match
  <2> HIDE DEF m
  <2>5. m \in i + 1 .. l + 1
    BY <1>1, <1>8, <2>1, <2>4
  <2> QED
    BY <1>2, <2>1, <2>5
<1>9. ASSUME g6 PROVE v6[1] \in E
  <2>1. i \in 1 .. l + 1 /\ i <= l
    BY <1>1
  <2>2. Many1(t, i, Numerals) \in i + 1 .. l + 1
    BY <1>9, <2>1, Many1Match
  <2> QED
    BY <1>2, <2>2
<1>10. v7[1] \in E
  BY <1>1, <1>2, ManyMatch
<1>11. ASSUME g8 PROVE v8[1] \in E
  <2>1. d # "end"
    BY <1>11
  <2>2. i + 2 \in 1 .. l + 1
    <3>1. i + 1 \in DOMAIN t
      BY <2>1 DEF At
    <3> QED
      BY <1>1, <3>1
  <2> DEFINE m == SpecialGroup(t, i + 2)[1]
  <2>3. m \in i + 2 .. l + 1
    BY <2>2, SpecialGroupMatch
  <2>4. m \in i + 1 .. l + 1
    <3> HIDE DEF m
    <3> QED
      BY <1>1, <2>3
  <2> QED
    BY <1>2, <2>4
<1>12. ASSUME c = "(" PROVE v9[1] \in E
  <2>1. BytesOf(c) = 1
    BY <1>12, Bytes DEF Punctuation
  <2> QED
    BY <1>3, <2>1
<1>13. ASSUME g10 PROVE v10[1] \in E
  <2>1. i + 1 \in 1 .. l
    BY <1>1, <1>13
  <2> DEFINE m == Escape(t, i + 1)[1]
  <2>2. m \in i + 1 + 1 .. l + 1
    BY <2>1, EscapeMatch
  <2>3. m \in i + 1 .. l + 1
    <3> HIDE DEF m
    <3> QED
      BY <1>1, <2>2
  <2> QED
    BY <1>2, <2>3
<1>14. v11[1] \in E
  <2>1. b[i] \in Nat /\ b[i + 1] = b[i] + BytesOf(c)
    <3>1. i \in 1 .. l + 1
      BY <1>1
    <3> QED
      BY <1>1, <3>1 DEF Positions
  <2>2. BytesOf(c) = b[i + 1] - b[i] /\ i + 1 \in i + 1 .. l + 1
    <3>1. BytesOf(c) \in Nat
      BY Bytes
    <3> HIDE DEF c
    <3> QED
      BY <1>1, <2>1, <3>1
  <2> QED
    BY <1>2, <2>2 DEF ErrorLength
<1> DEFINE g3 == c = "'"
           g5 == CodePointEnd(t, i) # 0
           g9 == c = "(" /\ <<c, d>> # <<"(", "?">>
<1>15. Lexeme(t, b, i) = CASE g1 -> v1 [] g2 -> v2 [] g3 -> v3 [] g4 -> v4 [] g5 -> v5 [] g6 -> v6
                           [] g7 -> v7 [] g8 -> v8 [] g9 -> v9 [] g10 -> v10 [] OTHER -> v11
  BY DEF Lexeme
<1>16. /\ (g1 => v1[1] \in E) /\ (g2 => v2[1] \in E) /\ v3[1] \in E /\ v4[1] \in E
       /\ (g5 => v5[1] \in E) /\ (g6 => v6[1] \in E) /\ v7[1] \in E /\ (g8 => v8[1] \in E)
       /\ (g9 => v9[1] \in E) /\ (g10 => v10[1] \in E) /\ v11[1] \in E
  <2> HIDE DEF E, v1, v2, v3, v4, v5, v6, v7, v8, v9, v10, v11, g1, g2, g4, g6, g8, g10
  <2> QED
    BY <1>4, <1>5, <1>6, <1>7, <1>8, <1>9, <1>10, <1>11, <1>12, <1>13, <1>14
<1> HIDE DEF E, v1, v2, v3, v4, v5, v6, v7, v8, v9, v10, v11, g1, g2, g3, g4, g5, g6, g7, g8, g9, g10
<1> DEFINE lexeme == Lexeme(t, b, i)
<1> HIDE DEF lexeme
<1>17. \/ (g1 /\ lexeme = v1) \/ (g2 /\ lexeme = v2) \/ (g3 /\ lexeme = v3)
       \/ (g4 /\ lexeme = v4) \/ (g5 /\ lexeme = v5) \/ (g6 /\ lexeme = v6)
       \/ (g7 /\ lexeme = v7) \/ (g8 /\ lexeme = v8) \/ (g9 /\ lexeme = v9)
       \/ (g10 /\ lexeme = v10) \/ lexeme = v11
  BY <1>15 DEF lexeme
<1>18. lexeme[1] \in E
  BY <1>16, <1>17
<1> QED
  BY <1>18 DEF E, lexeme

\* What may lie between two tokens: at unit j, white space or a comment that
\* begins at or after unit `from`
Skippable(t, from, j) ==
  t[j] \in Blanks \/ \E c \in from .. j : t[c] = "#" /\ "newline" \notin Range(SubSeq(t, c, j))

LEMMA SkipBlanksMatch ==
  ASSUME NEW t \in Texts, NEW i \in 1 .. Len(t) + 1
  PROVE  /\ SkipBlanks(t, i) \in i .. Len(t) + 1
         /\ \A j \in i .. SkipBlanks(t, i) - 1 : Skippable(t, i, j)
<1> DEFINE l == Len(t)
           End == l + 1
           comment == Units \ {"newline"}
           blank == [j \in 1 .. End |-> Many0(t, j, Blanks)]
           later == [j \in 1 .. End |-> Many0(t, blank[j], comment)]
           Stop == {j \in 1 .. End : At(t, blank[j]) # "#"}
           skip == CHOOSE f : f = [j \in 1 .. End |->
                     LET k == Many0(t, j, Blanks) IN
                     IF At(t, k) # "#" THEN k ELSE f[Many0(t, k, comment)]]
<1>1. l \in Nat /\ End \in Nat /\ i \in 1 .. End /\ DOMAIN t = 1 .. l
  BY TextLen
<1>2. \A j \in 1 .. End : /\ blank[j] \in j .. End
                          /\ \A n \in j .. blank[j] - 1 : t[n] \in Blanks
  BY ManyMatch
<1>3. "#" \in comment
  BY DEF Units, Punctuation
<1> HIDE DEF comment, blank
<1>4. ASSUME NEW j \in 1 .. End, j \notin Stop
      PROVE  /\ blank[j] \in 1 .. l /\ t[blank[j]] = "#"
             /\ later[j] \in blank[j] + 1 .. End
             /\ \A n \in blank[j] .. later[j] - 1 : t[n] \in comment
  <2>1. At(t, blank[j]) = "#"
    BY <1>4
  <2>2. blank[j] \in 1 .. l /\ t[blank[j]] = "#"
    BY <1>1, <2>1 DEF At
  <2> DEFINE k == blank[j]
  <2>3. later[j] = Many0(t, k, comment)
    OBVIOUS
  <2>4. k \in 1 .. l + 1 /\ k <= l /\ t[k] \in comment
    BY <1>1, <1>3, <2>2
  <2> HIDE DEF k, later
  <2>5. later[j] \in k + 1 .. l + 1 /\ \A n \in k .. later[j] - 1 : t[n] \in comment
    BY <2>3, <2>4, ManyMatch
  <2> QED
    BY <2>2, <2>5 DEF k
<1>5. Advances(1, End, Stop, blank, later, 1 .. End)
  <2>1. ASSUME NEW j \in 1 .. End
        PROVE  IF j \in Stop THEN blank[j] \in 1 .. End ELSE later[j] \in j + 1 .. End
    <3>1. blank[j] \in j .. End
      BY <1>2
    <3> HIDE DEF Stop, later
    <3>2. blank[j] \in 1 .. End
      BY <1>1, <3>1
    <3>3. CASE j \notin Stop
      <4>1. later[j] \in blank[j] + 1 .. End
        BY <1>4, <3>3
      <4> QED
        BY <1>1, <3>1, <3>3, <4>1
    <3> QED
      BY <3>2, <3>3
  <2> HIDE DEF Stop, later
  <2> QED
    BY <2>1 DEF Advances
<1>6. PICK g \in [1 .. End -> 1 .. End] :
        \A j \in 1 .. End : g[j] = IF j \in Stop THEN blank[j] ELSE g[later[j]]
  <2> DEFINE one == 1
             V == one .. End
  <2>1. one \in Nat /\ End \in Nat /\ Advances(one, End, Stop, blank, later, V)
    BY <1>1, <1>5
  <2> HIDE DEF Stop, later, End, V, one
  <2>2. \E g \in [one .. End -> V] :
          \A j \in one .. End : g[j] = IF j \in Stop THEN blank[j] ELSE g[later[j]]
    BY <2>1, Search
  <2> QED
    BY <2>2 DEF V, one
<1> DEFINE Body(f) == [j \in 1 .. End |-> LET k == Many0(t, j, Blanks) IN
                         IF At(t, k) # "#" THEN k ELSE f[Many0(t, k, comment)]]
<1>7. \A f : Body(f) = [j \in 1 .. End |-> IF j \in Stop THEN blank[j] ELSE f[later[j]]]
  BY DEF blank
<1>8. g = Body(g)
  <2> HIDE DEF Body, Stop, later
  <2> QED
    BY <1>6, <1>7
<1>9. skip = Body(skip)
  BY <1>8
<1> HIDE DEF skip, Body
<1>10. skip = [j \in 1 .. End |-> IF j \in Stop THEN blank[j] ELSE skip[later[j]]]
  BY <1>7, <1>9
<1>11. \A j \in 1 .. End : skip[j] = IF j \in Stop THEN blank[j] ELSE skip[later[j]]
  <2> DEFINE c == [j \in 1 .. End |-> IF j \in Stop THEN blank[j] ELSE skip[later[j]]]
  <2>1. \A j \in 1 .. End : c[j] = IF j \in Stop THEN blank[j] ELSE skip[later[j]]
    OBVIOUS
  <2>2. skip = c
    BY <1>10
  <2> HIDE DEF c
  <2> QED
    BY <2>1, <2>2
<1> HIDE DEF Stop, later
<1> DEFINE Good == {j \in 1 .. End : /\ skip[j] \in j .. End
                                     /\ \A n \in j .. skip[j] - 1 : Skippable(t, j, n)}
<1>12. \A j \in 1 .. End : (\A k \in j + 1 .. End : k \in Good) => j \in Good
  <2> SUFFICES ASSUME NEW j \in 1 .. End, \A k \in j + 1 .. End : k \in Good
               PROVE  /\ skip[j] \in j .. End
                      /\ \A n \in j .. skip[j] - 1 : Skippable(t, j, n)
    OBVIOUS
  <2> DEFINE b == blank[j]
             m == later[j]
             s == skip[j]
  <2>1. b \in j .. End /\ \A n \in j .. b - 1 : Skippable(t, j, n)
    BY <1>2 DEF Skippable
  <2>2. CASE j \in Stop
    BY <1>11, <2>1, <2>2
  <2>3. CASE j \notin Stop
    <3>1. /\ b \in 1 .. l /\ t[b] = "#" /\ m \in b + 1 .. End
          /\ \A n \in b .. m - 1 : t[n] \in comment
      BY <1>4, <2>3
    <3>2. s = skip[m]
      BY <1>11, <2>3
    <3> HIDE DEF b, m, s
    <3>3. m \in j + 1 .. End
      BY <1>1, <2>1, <3>1
    <3>4. s \in m .. End /\ \A n \in m .. s - 1 : Skippable(t, m, n)
      BY <3>2, <3>3
    <3>5. s \in j .. End
      BY <1>1, <3>3, <3>4
    <3>6. ASSUME NEW n \in j .. s - 1
          PROVE  Skippable(t, j, n)
      <4>1. n \in j .. b - 1 \/ n \in b .. m - 1 \/ n \in m .. s - 1
        BY <1>1, <2>1, <3>1, <3>4
      <4>2. CASE n \in b .. m - 1
        <5>1. b \in j .. n
          BY <1>1, <2>1, <4>2
        <5> DEFINE u == SubSeq(t, b, n)
        <5>2. \A x \in DOMAIN u : u[x] # "newline"
          <6>1. \A x \in b .. n : t[x] \in comment
            BY <1>1, <3>1, <4>2
          <6>2. /\ b \in Nat /\ n \in Nat /\ b <= n + 1
                /\ \A x \in b .. n : t[x] \in Units
            BY <1>1, <2>1, <3>1, <4>2, <6>1 DEF comment
          <6>3. DOMAIN u = 1 .. n - b + 1 /\ \A x \in 1 .. n - b + 1 : u[x] = t[b + x - 1]
            <7>1. Len(u) = IF b <= n THEN n - b + 1 ELSE 0
              BY <6>2, SubSeqProperties
            <7> QED
              BY <6>2, SubSeqProperties, LenProperties
          <6>4. \A x \in 1 .. n - b + 1 : b + x - 1 \in b .. n
            BY <6>2
          <6> HIDE DEF u
          <6> QED
            BY <6>1, <6>3, <6>4 DEF comment
        <5>3. "newline" \notin Range(u)
          <6> HIDE DEF u
          <6> QED
            BY <5>2 DEF Range
        <5> QED
          BY <3>1, <5>1, <5>3 DEF Skippable
      <4>3. CASE n \in m .. s - 1
        <5>1. Skippable(t, m, n)
          BY <3>4, <4>3
        <5>2. m .. n \subseteq j .. n
          BY <1>1, <3>3
        <5> QED
          BY <5>1, <5>2 DEF Skippable
      <4> QED
        BY <2>1, <4>1, <4>2, <4>3
    <3> QED
      BY <3>5, <3>6 DEF s
  <2> QED
    BY <2>2, <2>3
<1>13. \A j \in 1 .. End : j \in Good
  <2>1. 1 \in Nat
    OBVIOUS
  <2> HIDE DEF Good, End
  <2> QED
    BY <1>1, <1>12, <2>1, Downwards
<1>14. SkipBlanks(t, i) = skip[i]
  BY DEF SkipBlanks, skip, comment
<1> QED
  BY <1>1, <1>13, <1>14

-----------------------------------------------------------------------------
(***************************************************************************)
(* A dash token is a dash                                                  *)
(***************************************************************************)
LEMMA PairNotDash ==
  ASSUME NEW x \in DOMAIN PairToken
  PROVE  PairToken[x] # "Dash"
<1> DEFINE pairs ==
      {<<<<"<", "%">>, "DeprStart">>, <<<<"%", ">">>, "DeprEnd">>, <<<<">", ">">>, "LookAhead">>,
       <<<<"<", "<">>, "LookBehind">>, <<<<":", ":">>, "DoubleColon">>}
<1>1. PairToken = Table(pairs)
  BY DEF PairToken
<1>2. \A p \in pairs : p[2] # "Dash"
  OBVIOUS
<1> HIDE DEF pairs
<1>3. /\ x \in {p[1] : p \in pairs}
      /\ PairToken[x] = (CHOOSE p \in pairs : p[1] = x)[2]
  BY <1>1 DEF Table
<1>4. (CHOOSE p \in pairs : p[1] = x) \in pairs
  BY <1>3
<1> QED
  BY <1>2, <1>3, <1>4

LEMMA SingleDash ==
  ASSUME NEW c \in DOMAIN SingleToken, SingleToken[c] = "Dash"
  PROVE  c = "-"
<1> DEFINE pairs ==
      {<<"^", "Caret">>, <<"$", "Dollar">>, <<"%", "BWord">>, <<"*", "Star">>, <<"+", "Plus">>,
       <<"?", "QuestionMark">>, <<"|", "Pipe">>, <<":", "Colon">>, <<")", "CloseParen">>,
       <<"{", "OpenBrace">>, <<"}", "CloseBrace">>, <<",", "Comma">>, <<"!", "Not">>,
       <<"[", "OpenBracket">>, <<"-", "Dash">>, <<"]", "CloseBracket">>, <<".", "Dot">>,
       <<";", "Semicolon">>, <<"=", "Equals">>}
           others == {"Caret", "Dollar", "BWord", "Star", "Plus", "QuestionMark", "Pipe", "Colon", "CloseParen",
                      "OpenBrace", "CloseBrace", "Comma", "Not", "OpenBracket", "CloseBracket", "Dot",
                      "Semicolon", "Equals"}
<1>1. SingleToken = Table(pairs)
  BY DEF SingleToken
<1>2. \A p \in pairs : p[2] = "Dash" => p[1] = "-"
  <2> SUFFICES ASSUME NEW p \in pairs PROVE p[2] = "Dash" => p[1] = "-"
    OBVIOUS
  <2>1. p = <<"-", "Dash">> \/ \E x : \E y \in others : p = <<x, y>>
    BY ZenonT(60)
  <2>2. "Dash" \notin others
    OBVIOUS
  <2> HIDE DEF pairs, others
  <2> QED
    BY <2>1, <2>2
<1> HIDE DEF pairs
<1>3. /\ c \in {p[1] : p \in pairs}
      /\ SingleToken[c] = (CHOOSE p \in pairs : p[1] = c)[2]
  BY <1>1 DEF Table
<1>4. (CHOOSE p \in pairs : p[1] = c) \in pairs /\ (CHOOSE p \in pairs : p[1] = c)[1] = c
  BY <1>3
<1> QED
  BY <1>2, <1>3, <1>4

LEMMA FirstNamed ==
  ASSUME NEW n \in Nat \ {0}, NEW alternatives, DOMAIN alternatives = 1 .. n, NEW name,
         \A k \in 1 .. n : alternatives[k][2] # name, alternatives[n][1] # 0
  PROVE  FirstMatch(alternatives)[2] # name
<1> DEFINE S == {k \in DOMAIN alternatives : alternatives[k][1] # 0}
<1>1. S \subseteq Nat /\ S # {}
  <2>1. n \in S
    OBVIOUS
  <2> QED
    BY <2>1
<1>2. Min(S) \in S
  <2> HIDE DEF S
  <2> QED
    BY <1>1, Least
<1> QED
  BY <1>2 DEF FirstMatch

LEMMA GroupNotDash ==
  ASSUME NEW t, NEW i, i # 0
  PROVE  SpecialGroup(t, i)[2] # "Dash"
<1> DEFINE ident == AsciiAlnum \cup {"-", "+"}
           inside == Units \ {")"}
           comment == IF Starts(t, i, <<"#">>) = 0 THEN 0
                      ELSE Starts(t, Many0(t, i + 1, inside), <<")">>)
           s1 == Starts(t, i, <<":">>)
           s2 == Starts(t, i, <<"=">>)
           s3 == Starts(t, i, <<"!">>)
           s4 == Starts(t, i, <<">">>)
           s5 == Starts(t, i, <<"(">>)
           s6 == Starts(t, i, <<"|">>)
           s7 == Starts(t, i, <<"<", "=">>)
           s8 == Starts(t, i, <<"<", "!">>)
           s9 == AnyOf({Enclosed(t, i, open, ident, <<">">>) : open \in {<<"P", "<">>, <<"<">>}})
           s10 == Enclosed(t, i, <<"'">>, ident, <<"'">>)
           s11 == Enclosed(t, i, <<"P", "=">>, ident, <<")">>)
           s12 == AnyOf({Starts(t, i, <<"P", ">">>), Starts(t, i, <<"&">>)})
           list == <<
             <<s1, "GroupNonCapturing">>, <<s2, "GroupLookahead">>, <<s3, "GroupLookaheadNeg">>,
             <<s4, "GroupAtomic">>, <<s5, "GroupConditional">>, <<s6, "GroupBranchReset">>,
             <<s7, "GroupLookbehind">>, <<s8, "GroupLookbehindNeg">>,
             <<s9, "GroupNamedCapture">>, <<s10, "GroupNamedCapture">>,
             <<s11, "GroupPcreBackreference">>, <<s12, "GroupSubroutineCall">>,
             <<comment, "GroupComment">>, <<i, "GroupOther">> >>
<1>3. SpecialGroup(t, i) = FirstMatch(list)
  BY DEF SpecialGroup
<1> HIDE DEF s1, s2, s3, s4, s5, s6, s7, s8, s9, s10, s11, s12, comment
<1>1. DOMAIN list = 1 .. 14 /\ list[14][1] = i
  OBVIOUS
<1>2. \A k \in 1 .. 14 : list[k][2] # "Dash"
  <2>1. /\ list[1][2] # "Dash" /\ list[2][2] # "Dash" /\ list[3][2] # "Dash" /\ list[4][2] # "Dash"
        /\ list[5][2] # "Dash" /\ list[6][2] # "Dash" /\ list[7][2] # "Dash" /\ list[8][2] # "Dash"
        /\ list[9][2] # "Dash" /\ list[10][2] # "Dash" /\ list[11][2] # "Dash" /\ list[12][2] # "Dash"
        /\ list[13][2] # "Dash" /\ list[14][2] # "Dash"
    OBVIOUS
  <2> HIDE DEF list
  <2>2. \A k \in 1 .. 14 : \/ k = 1 \/ k = 2 \/ k = 3 \/ k = 4 \/ k = 5 \/ k = 6 \/ k = 7 \/ k = 8
                          \/ k = 9 \/ k = 10 \/ k = 11 \/ k = 12 \/ k = 13 \/ k = 14
    OBVIOUS
  <2> QED
    BY <2>1, <2>2
<1>4. 14 \in Nat \ {0}
  OBVIOUS
<1> HIDE DEF list
<1>5. FirstMatch(list)[2] # "Dash"
  <2> DEFINE n == 14
  <2>1. n \in Nat \ {0} /\ DOMAIN list = 1 .. n /\ list[n][1] # 0
    BY <1>1, <1>4
  <2>2. \A k \in 1 .. n : list[k][2] # "Dash"
    BY <1>2
  <2> HIDE DEF n
  <2> QED
    BY <2>1, <2>2, FirstNamed
<1> QED
  BY <1>3, <1>5

LEMMA EscapeNotDash ==
  ASSUME NEW t, NEW i, i + 1 # 0
  PROVE  Escape(t, i)[2] # "Dash"
<1> SUFFICES ASSUME NEW s1, NEW s2, NEW s3, NEW s4, NEW s5,
                    Escape(t, i) = FirstMatch(<<
                      <<s1, "BackslashUnicode">>, <<s2, "BackslashU4">>, <<s3, "BackslashX2">>,
                      <<s4, "BackslashGK">>, <<s5, "BackslashProperty">>, <<i + 1, "Backslash">> >>)
             PROVE  Escape(t, i)[2] # "Dash"
  BY Zenon DEF Escape
<1> DEFINE list == << <<s1, "BackslashUnicode">>, <<s2, "BackslashU4">>, <<s3, "BackslashX2">>,
                      <<s4, "BackslashGK">>, <<s5, "BackslashProperty">>, <<i + 1, "Backslash">> >>
<1>1. DOMAIN list = 1 .. 6 /\ list[6][1] = i + 1
  OBVIOUS
<1>2. \A k \in 1 .. 6 : list[k][2] # "Dash"
  OBVIOUS
<1>3. Escape(t, i) = FirstMatch(list)
  OBVIOUS
<1>4. 6 \in Nat \ {0}
  OBVIOUS
<1> HIDE DEF list
<1>5. FirstMatch(list)[2] # "Dash"
  BY <1>1, <1>2, <1>4, FirstNamed
<1> QED
  BY <1>3, <1>5

LEMMA DashLexeme ==
  ASSUME NEW t, NEW b, NEW i \in Nat, Lexeme(t, b, i)[2] = "Dash"
  PROVE  t[i] = "-"
<1> DEFINE c == t[i]
           d == At(t, i + 1)
           v1 == <<2, PairToken[<<c, d>>]>>
           v2 == <<1, SingleToken[c]>>
           v3 == Quoted(t, b, i, FindQuote(t, b, i))
           v4 == Quoted(t, b, i, FindUnescapedQuote(t, b, i))
           v5 == <<b[CodePointEnd(t, i)] - b[i], "CodePoint">>
           v6 == <<b[Many1(t, i, Numerals)] - b[i], "Number">>
           word == Many0(t, i + 1, WordPart)
           v7 == <<b[word] - b[i],
                   IF word = i + 1 /\ c \in ReservedWords THEN "ReservedName" ELSE "Identifier">>
           v8 == <<b[SpecialGroup(t, i + 2)[1]] - b[i], SpecialGroup(t, i + 2)[2]>>
           v10 == <<b[Escape(t, i + 1)[1]] - b[i], Escape(t, i + 1)[2]>>
           v11 == <<ErrorLength(c), "Error">>
           g1 == <<c, d>> \in DOMAIN PairToken
           g2 == <<c, d>> \notin DOMAIN PairToken /\ c \in DOMAIN SingleToken
           g3 == c = "'"
           g4 == c = "\""
           g5 == CodePointEnd(t, i) # 0
           g6 == c \in Numerals
           g7 == CodePointEnd(t, i) = 0 /\ c \in WordStart
           g8 == <<c, d>> = <<"(", "?">>
           g9 == c = "(" /\ <<c, d>> # <<"(", "?">>
           v9 == <<1, "OpenParen">>
           g10 == c = "\\" /\ i < Len(t)
           lexeme == Lexeme(t, b, i)
<1>1. lexeme = CASE g1 -> v1 [] g2 -> v2 [] g3 -> v3 [] g4 -> v4 [] g5 -> v5 [] g6 -> v6
                 [] g7 -> v7 [] g8 -> v8 [] g9 -> v9 [] g10 -> v10 [] OTHER -> v11
  BY DEF Lexeme
<1>2. g1 => v1[2] # "Dash"
  BY PairNotDash
<1>3. g2 /\ v2[2] = "Dash" => c = "-"
  BY SingleDash
<1>4. \A inner : Quoted(t, b, i, inner)[2] # "Dash"
  BY DEF Quoted
<1>5. v3[2] # "Dash" /\ v4[2] # "Dash"
  <2> HIDE DEF Quoted
  <2> QED
    BY <1>4
<1>6. v5[2] # "Dash" /\ v6[2] # "Dash" /\ v7[2] # "Dash" /\ v9[2] # "Dash" /\ v11[2] # "Dash"
  OBVIOUS
<1>7. v8[2] # "Dash"
  BY GroupNotDash
<1>8. v10[2] # "Dash"
  BY EscapeNotDash
<1>9. lexeme[2] = "Dash"
  OBVIOUS
<1> HIDE DEF v1, v2, v3, v4, v5, v6, v7, v8, v9, v10, v11, g1, g2, g3, g4, g5, g6, g7, g8, g9, g10, lexeme, c
<1>10. c = "-"
  BY <1>1, <1>2, <1>3, <1>5, <1>6, <1>7, <1>8, <1>9
<1> QED
  BY <1>10 DEF c

-----------------------------------------------------------------------------
(***************************************************************************)
(* The tokens tile the text, and the lexer does not slice it inside a      *)
(* character.                                                              *)
(***************************************************************************)
EndBefore(s, i) == IF i = 1 THEN 0 ELSE s[i - 1].end

\* A token that follows the byte `before`: that byte begins unit r, and the token
\* is the units from p to q - 1.  The help on ranges looks for a dash in the text.
Tile(t, b, token, before) ==
  \E r, p, q \in 1 .. Len(t) + 1 :
    /\ before = b[r] /\ token.start = b[p] /\ token.end = b[q]
    /\ r <= p /\ p <= q
    /\ p < q \/ (token.token = "EndOfInput" /\ p = Len(t) + 1)
    /\ token.units = SubSeq(t, p, q - 1)
    /\ token.token = "Dash" => t[p] = "-"
    /\ \A j \in r .. p - 1 : Skippable(t, r, j)

TilesInv ==
  /\ text \in Texts /\ begin = Begins(text)
  /\ IsStack(tokens)
  /\ \A i \in DOMAIN tokens : Tile(text, begin, tokens[i], EndBefore(tokens, i))
  /\ stage # "panicked"
  /\ stage = "lexing" =>
       /\ next \in 1 .. Len(text) + 1
       /\ offset = begin[next]
       /\ offset = EndBefore(tokens, Len(tokens) + 1)

LEMMA TilesTile == TilesInv => TokensTile
<1> SUFFICES ASSUME TilesInv, NEW i \in DOMAIN tokens
             PROVE  /\ AtCharacter(tokens[i].start) /\ AtCharacter(tokens[i].end)
                    /\ tokens[i].start < tokens[i].end \/ tokens[i].token = "EndOfInput"
                    /\ CoversUnits(tokens[i])
                    /\ tokens[i].start >= EndBefore(tokens, i)
                    /\ \A j \in UnitAt(begin, EndBefore(tokens, i)) .. UnitAt(begin, tokens[i].start) - 1 :
                         Skippable(text, UnitAt(begin, EndBefore(tokens, i)), j)
  BY DEF TilesInv, TokensTile, EndBefore, Skippable
<1> DEFINE l == Len(text)
           before == EndBefore(tokens, i)
           token == tokens[i]
<1>1. text \in Texts /\ Positions(text, begin) /\ l \in Nat
  BY BeginsPositions, TextLen DEF TilesInv
<1>2. PICK r \in 1 .. l + 1, p \in 1 .. l + 1, q \in 1 .. l + 1 :
        /\ before = begin[r] /\ token.start = begin[p] /\ token.end = begin[q]
        /\ r <= p /\ p <= q
        /\ p < q \/ (token.token = "EndOfInput" /\ p = Len(text) + 1)
        /\ token.units = SubSeq(text, p, q - 1)
        /\ \A j \in r .. p - 1 : Skippable(text, r, j)
  BY DEF TilesInv, Tile
<1> HIDE DEF token, before
<1>3. UnitAt(begin, before) = r /\ UnitAt(begin, token.start) = p /\ UnitAt(begin, token.end) = q
  BY <1>1, <1>2, UnitFound
<1> HIDE DEF l
<1>4. AtCharacter(token.start) /\ AtCharacter(token.end)
  BY <1>1, <1>3 DEF AtCharacter
<1>5. token.start < token.end \/ token.token = "EndOfInput"
  <2>1. p < q => begin[p] < begin[q]
    BY <1>1, PositionsGrow DEF l
  <2> QED
    BY <1>2, <2>1
<1>6. CoversUnits(token)
  BY <1>2, <1>3 DEF CoversUnits
<1>7. token.start >= before
  <2>1. begin[r] \in Nat /\ begin[p] \in Nat
    BY <1>1 DEF Positions, l
  <2>2. r < p => begin[r] < begin[p]
    BY <1>1, PositionsGrow DEF l
  <2>3. r = p \/ r < p
    BY <1>1, <1>2
  <2>4. begin[p] >= begin[r]
    BY <2>1, <2>2, <2>3
  <2> QED
    BY <1>2, <2>4
<1>8. \A j \in UnitAt(begin, before) .. UnitAt(begin, token.start) - 1 :
        Skippable(text, UnitAt(begin, before), j)
  BY <1>2, <1>3
<1> QED
  BY <1>4, <1>5, <1>6, <1>7, <1>8 DEF token, before

\* One more token
LEMMA TileAdded ==
  ASSUME NEW t, NEW b, NEW s, IsStack(s), \A i \in DOMAIN s : Tile(t, b, s[i], EndBefore(s, i)),
         NEW token, Tile(t, b, token, EndBefore(s, Len(s) + 1))
  PROVE  LET a == Append(s, token) IN
         /\ IsStack(a)
         /\ \A i \in DOMAIN a : Tile(t, b, a[i], EndBefore(a, i))
         /\ EndBefore(a, Len(a) + 1) = token.end
<1> DEFINE a == Append(s, token)
           n == Len(s)
<1>1. /\ IsStack(a) /\ n \in Nat /\ DOMAIN s = 1 .. n /\ Len(a) = n + 1 /\ DOMAIN a = 1 .. n + 1
      /\ a[n + 1] = token /\ \A i \in 1 .. n : a[i] = s[i]
  BY StackLen, Appended
<1> HIDE DEF a, n
<1>2. ASSUME NEW i \in 1 .. n + 1
      PROVE  Tile(t, b, a[i], EndBefore(a, i))
  <2>1. EndBefore(a, i) = EndBefore(s, i)
    <3>1. i = 1 \/ i - 1 \in 1 .. n
      BY <1>1
    <3> QED
      BY <1>1, <3>1 DEF EndBefore
  <2>2. CASE i = n + 1
    BY <1>1, <2>1, <2>2 DEF n
  <2>3. CASE i # n + 1
    <3>1. i \in 1 .. n
      BY <1>1, <2>3
    <3> QED
      BY <1>1, <2>1, <3>1
  <2> QED
    BY <2>2, <2>3
<1>3. EndBefore(a, Len(a) + 1) = token.end
  <2>1. n + 1 + 1 # 1 /\ n + 1 + 1 - 1 = n + 1
    BY <1>1
  <2> QED
    BY <1>1, <2>1 DEF EndBefore
<1> QED
  BY <1>1, <1>2, <1>3 DEF a

LEMMA InitTiles == Init => TilesInv
<1> SUFFICES ASSUME Init PROVE TilesInv
  OBVIOUS
<1>1. /\ text \in Texts /\ begin = Begins(text) /\ tokens = <<>> /\ next = 1 /\ offset = 0
      /\ stage = "lexing"
  BY DEF Init
<1>2. IsStack(tokens)
  <2>1. <<>> \in Seq({})
    BY EmptySeq
  <2> QED
    BY <1>1, <2>1, StackOf
<1>3. DOMAIN tokens = {} /\ Len(tokens) = 0
  BY <1>1
<1>4. begin[1] = 0 /\ 1 \in 1 .. Len(text) + 1
  BY <1>1, BeginsPositions, TextLen DEF Positions
<1>5. EndBefore(tokens, Len(tokens) + 1) = 0
  BY <1>3 DEF EndBefore
<1> QED
  BY <1>1, <1>2, <1>3, <1>4, <1>5 DEF TilesInv

LEMMA LexTokenTiles ==
  ASSUME TilesInv, LexToken
  PROVE  TilesInv'
<1> DEFINE l == Len(text)
           i == SkipBlanks(text, next)
           lexeme == Lexeme(text, begin, i)
           start == offset + (begin[i] - begin[next])
           end == start + lexeme[1]
           rest == UnitAt(begin, end)
           token == [token |-> lexeme[2], units |-> SubSeq(text, i, rest - 1),
                     start |-> start, end |-> end]
<1>1. /\ text \in Texts /\ Positions(text, begin) /\ l \in Nat
      /\ next \in 1 .. l + 1 /\ offset = begin[next] /\ offset = EndBefore(tokens, Len(tokens) + 1)
      /\ IsStack(tokens) /\ \A k \in DOMAIN tokens : Tile(text, begin, tokens[k], EndBefore(tokens, k))
  BY BeginsPositions, TextLen DEF TilesInv, LexToken
<1>2. i \in next .. l + 1 /\ \A j \in next .. i - 1 : Skippable(text, next, j)
  BY <1>1, SkipBlanksMatch
<1>3. i <= l /\ AddToken(i, lexeme) /\ stage = "lexing"
  BY DEF LexToken
<1>4. i \in 1 .. l
  <2> HIDE DEF i, l
  <2> QED
    BY <1>1, <1>2, <1>3
<1> HIDE DEF i
<1>5. PICK m \in i + 1 .. l + 1 : lexeme[1] = begin[m] - begin[i]
  BY <1>1, <1>4, LexemeMatch DEF LaterUnits
<1>6. m \in 1 .. l + 1 /\ i \in 1 .. l + 1 /\ i < m /\ next <= i
  <2> HIDE DEF l
  <2> QED
    BY <1>1, <1>2, <1>4, <1>5
<1>7. begin[i] \in Nat /\ begin[m] \in Nat /\ begin[m] - begin[i] \in Nat \ {0} /\ begin[next] \in Nat
  <2>1. begin[next] \in Nat
    BY <1>1 DEF Positions
  <2> QED
    BY <1>1, <1>6, <2>1, PositionsGrow
<1> HIDE DEF lexeme
<1>8. start = begin[i] /\ end = begin[m] /\ ~(lexeme[1] < 1)
  <2>1. start = begin[i]
    BY <1>1, <1>7
  <2> HIDE DEF start
  <2> QED
    BY <1>5, <1>7, <2>1
<1>9. rest = m
  BY <1>1, <1>6, <1>8, UnitFound
<1>10. /\ tokens' = Append(tokens, token) /\ next' = rest /\ offset' = end
       /\ UNCHANGED <<text, begin, stage>>
  <2>1. ~(lexeme[1] < 1 \/ rest = 0)
    BY <1>6, <1>8, <1>9
  <2> HIDE DEF lexeme, i
  <2> QED
    BY <1>3, <2>1 DEF AddToken
<1>11. /\ token.token = lexeme[2] /\ token.units = SubSeq(text, i, m - 1)
       /\ token.start = begin[i] /\ token.end = begin[m]
  BY <1>8, <1>9
<1>12. Tile(text, begin, token, EndBefore(tokens, Len(tokens) + 1))
  <2> DEFINE T == 1 .. Len(text) + 1
             before == EndBefore(tokens, Len(tokens) + 1)
  <2> SUFFICES \E r, p, q \in T :
                 /\ before = begin[r] /\ token.start = begin[p] /\ token.end = begin[q]
                 /\ r <= p /\ p <= q
                 /\ p < q \/ (token.token = "EndOfInput" /\ p = Len(text) + 1)
                 /\ token.units = SubSeq(text, p, q - 1)
                 /\ token.token = "Dash" => text[p] = "-"
                 /\ \A j \in r .. p - 1 : Skippable(text, r, j)
    BY DEF Tile
  <2>1. next \in T /\ i \in T /\ m \in T
    BY <1>1, <1>6
  <2>2. i <= m
    BY <1>1, <1>6
  <2>3. before = begin[next]
    BY <1>1
  <2>4. token.token = "Dash" => text[i] = "-"
    <3>1. i \in Nat
      BY <1>4
    <3> HIDE DEF token
    <3> QED
      BY <1>11, <3>1, DashLexeme DEF lexeme
  <2> HIDE DEF token, T, before
  <2> USE <2>1, <2>3
  <2> WITNESS next \in T, i \in T, m \in T
  <2> QED
    BY <1>2, <1>6, <1>11, <2>2, <2>3, <2>4
<1>13. end = token.end
  OBVIOUS
<1> HIDE DEF token, end, rest
<1> DEFINE a == Append(tokens, token)
<1>14. /\ IsStack(a) /\ \A k \in DOMAIN a : Tile(text, begin, a[k], EndBefore(a, k))
       /\ EndBefore(a, Len(a) + 1) = token.end
  BY <1>1, <1>12, TileAdded
<1> HIDE DEF a
<1>15. tokens' = a
  BY <1>10 DEF a
<1> QED
  BY <1>3, <1>6, <1>8, <1>9, <1>10, <1>13, <1>14, <1>15 DEF TilesInv, IsStack

LEMMA EndLexingTiles ==
  ASSUME TilesInv, EndLexing
  PROVE  TilesInv'
<1> DEFINE l == Len(text)
           i == SkipBlanks(text, next)
           token == [token |-> "EndOfInput", units |-> <<>>, start |-> begin[l + 1], end |-> begin[l + 1]]
<1>1. /\ text \in Texts /\ Positions(text, begin) /\ l \in Nat
      /\ next \in 1 .. l + 1 /\ offset = begin[next] /\ offset = EndBefore(tokens, Len(tokens) + 1)
      /\ IsStack(tokens) /\ \A k \in DOMAIN tokens : Tile(text, begin, tokens[k], EndBefore(tokens, k))
  BY BeginsPositions, TextLen DEF TilesInv, EndLexing
<1>2. i \in next .. l + 1 /\ \A j \in next .. i - 1 : Skippable(text, next, j)
  BY <1>1, SkipBlanksMatch
<1>3. i > l
  BY DEF EndLexing
<1>4. i = l + 1 /\ l + 1 \in 1 .. l + 1 /\ next <= l + 1
  <2> HIDE DEF i, l
  <2> QED
    BY <1>1, <1>2, <1>3
<1>5. /\ token.token = "EndOfInput" /\ token.units = SubSeq(text, l + 1, l + 1 - 1)
      /\ token.start = begin[l + 1] /\ token.end = begin[l + 1]
  <2>1. SubSeq(text, l + 1, l + 1 - 1) = <<>>
    <3>1. l + 1 \in Int /\ l + 1 - 1 \in Int /\ l + 1 - 1 < l + 1
      BY <1>1
    <3> HIDE DEF l
    <3> QED
      BY <3>1, SubSeqEmpty
  <2> QED
    BY <2>1
<1>6. Tile(text, begin, token, EndBefore(tokens, Len(tokens) + 1))
  <2>1. \A j \in next .. l + 1 - 1 : Skippable(text, next, j)
    BY <1>2, <1>4
  <2>2. l + 1 <= l + 1
    BY <1>1
  <2> DEFINE T == 1 .. Len(text) + 1
             before == EndBefore(tokens, Len(tokens) + 1)
  <2> SUFFICES \E r, p, q \in T :
                 /\ before = begin[r] /\ token.start = begin[p] /\ token.end = begin[q]
                 /\ r <= p /\ p <= q
                 /\ p < q \/ (token.token = "EndOfInput" /\ p = Len(text) + 1)
                 /\ token.units = SubSeq(text, p, q - 1)
                 /\ token.token = "Dash" => text[p] = "-"
                 /\ \A j \in r .. p - 1 : Skippable(text, r, j)
    BY DEF Tile
  <2>3. next \in T /\ l + 1 \in T /\ before = begin[next]
    BY <1>1, <1>4
  <2> HIDE DEF token, T, before
  <2> USE <2>1, <2>3
  <2> WITNESS next \in T, l + 1 \in T, l + 1 \in T
  <2> QED
    BY <1>4, <1>5, <2>1, <2>2, <2>3
<1>7. tokens' = Append(tokens, token) /\ UNCHANGED <<text, begin>> /\ stage' \in {"parsing", "rejected"}
  BY DEF EndLexing
<1> HIDE DEF token
<1> DEFINE a == Append(tokens, token)
<1>8. IsStack(a) /\ \A k \in DOMAIN a : Tile(text, begin, a[k], EndBefore(a, k))
  BY <1>1, <1>6, TileAdded
<1> HIDE DEF a
<1>9. tokens' = a
  BY <1>7 DEF a
<1> QED
  BY <1>7, <1>8, <1>9 DEF TilesInv, IsStack

LEMMA StepTiles == TilesInv /\ [ParserStep]_parserVars => TilesInv'
<1> SUFFICES ASSUME TilesInv, [ParserStep]_parserVars
             PROVE  TilesInv'
  OBVIOUS
<1>g. ASSUME UNCHANGED lexVars, stage' = stage \/ stage' \in {"rejected", "parsed"}
      PROVE  TilesInv'
  BY <1>g DEF TilesInv, IsStack, lexVars
<1>f. ASSUME NEW error, Fail(error)
      PROVE  TilesInv'
  BY <1>f, <1>g DEF Fail
<1>1. CASE LexToken
  BY <1>1, LexTokenTiles
<1>2. CASE EndLexing
  BY <1>2, EndLexingTiles
<1>3. CASE ParseModeModifier
  BY <1>3, <1>g, <1>f DEF ParseModeModifier, Going
<1>o. ASSUME NEW frames, NEW o, CallOr(frames, o)
      PROVE  TilesInv'
  BY <1>o, <1>g, <1>f DEF CallOr, Going
<1>4. CASE ParseLet
  BY <1>4, <1>o, <1>f DEF ParseLet
<1>5. CASE EndLet
  BY <1>5, <1>g, <1>f DEF EndLet, Going
<1>6. CASE ParseBody
  BY <1>6, <1>o DEF ParseBody
<1>7. CASE EndModified
  BY <1>7, <1>g, <1>f DEF EndModified, Going
<1>m. ASSUME NEW fn, NEW tag, NEW o, CallModified(fn, tag, o)
      PROVE  TilesInv'
  BY <1>m, <1>g, <1>f DEF CallModified, Going
<1>x. ASSUME NEW ns, NEW o, NEW left, NEW frames, NEW frame, NEW from, NEW nots,
             AddFix(ns, o, left, frames, frame, from, nots)
      PROVE  TilesInv'
  BY <1>x, <1>g, <1>f DEF AddFix, Going
<1>r. ASSUME NEW ns, NEW repetition, NEW left, NEW frames, NEW frame, NEW from, NEW nots,
             AddRepeated(ns, repetition, left, frames, frame, from, nots)
      PROVE  TilesInv'
  BY <1>r, <1>x, <1>f DEF AddRepeated
<1>8. CASE ParseLookaround
  BY <1>8, <1>m DEF ParseLookaround
<1>9. CASE EndLookaround
  BY <1>9, <1>x DEF EndLookaround
<1>10. CASE ParseGroup
  BY <1>10, <1>m, <1>f DEF ParseGroup, OpenGroup
<1>11. CASE EndGroup
  BY <1>11, <1>r, <1>f DEF EndGroup
<1>12. CASE ParseAtom
  BY <1>12, <1>r, <1>f DEF ParseAtom, AddAtom
<1>13. CASE NoFix
  <2>1. ASSUME NEW ns, NEW n, ReturnOr(ns, n)
        PROVE  TilesInv'
    BY <2>1, <1>g DEF ReturnOr, Going
  <2>2. LoneNot \/ LonePipe => TilesInv'
    BY <1>f DEF LoneNot, LonePipe
  <2>3. NextAlternative => TilesInv'
    BY <1>g DEF NextAlternative, Going
  <2>4. EmptyExpression \/ EndOr => TilesInv'
    BY <2>1 DEF EmptyExpression, EndOr
  <2> QED
    BY <1>13, <2>2, <2>3, <2>4 DEF NoFix
<1>14. CASE EndParse
  BY <1>14, <1>g, <1>f DEF EndParse
<1>15. CASE UNCHANGED parserVars
  BY <1>15, <1>g DEF parserVars
<1> QED
  BY <1>1, <1>2, <1>3, <1>4, <1>5, <1>6, <1>7, <1>8, <1>9, <1>10, <1>11, <1>12, <1>13, <1>14,
     <1>15 DEF ParserStep

\* For any text, the lexer never slices inside a character, every token begins
\* and ends at a character, holds the characters between, and what the tokens
\* leave out is white space and comments (tokenize.rs:59-127).
THEOREM TokensTileHolds == Spec => []TokensTile
<1> QED
  BY InitTiles, StepTiles, TilesTile, PTL DEF Spec

-----------------------------------------------------------------------------
(***************************************************************************)
(* The errors of the functions that do not recurse: each is about one      *)
(* token or a row of tokens.  No function reads past the last token, since *)
(* it goes on only after a token that it knows, and the last one is the    *)
(* end of the input.                                                       *)
(***************************************************************************)
Ended(ts) == Len(ts) \in Nat \ {0} /\ ts[Len(ts)].token = "EndOfInput"

\* The errors that get_help takes apart: what they are about has what it looks for
HelpKinds == {"InvalidEscapeInString", "RangeIsNotIncreasing", "DescendingRange"}
Helps(ts, kind, i, j) ==
  /\ kind = "InvalidEscapeInString" =>
       i = j /\ ts[i].units[1] # "'" /\ InvalidEscape(Inner(ts[i].units)) # 0
  /\ kind \in {"RangeIsNotIncreasing", "DescendingRange"} => \E k \in i .. j : Is(ts, k, "Dash")

Placed(ts, e) ==
  \E i, j \in 1 .. Len(ts) :
    i <= j /\ e.start = ts[i].start /\ e.end = ts[j].end /\ Helps(ts, e.kind, i, j)

Fails(ts, r) == r.is \in {"found", "absent", "failed"} /\ (r.is = "failed" => Placed(ts, r.error))

\* What a function returns that is called at token o
Outcome(ts, o, r) ==
  /\ Fails(ts, r)
  /\ r.is = "found" => r.at \in o + 1 .. Len(ts)
  /\ r.is = "absent" => r.at = o

LEMMA ErrorsPlaced ==
  ASSUME NEW ts, Ended(ts), NEW kind, NEW i \in 1 .. Len(ts), NEW j \in 1 .. Len(ts), i <= j
  PROVE  /\ Helps(ts, kind, i, i) => Placed(ts, ErrorAt(kind, ts[i]))
         /\ Helps(ts, kind, i, j) => Placed(ts, Joined(kind, ts[i], ts[j]))
         /\ kind \notin HelpKinds => Helps(ts, kind, i, i) /\ Helps(ts, kind, i, j)
<1>1. /\ ErrorAt(kind, ts[i]).start = ts[i].start /\ ErrorAt(kind, ts[i]).end = ts[i].end
      /\ Joined(kind, ts[i], ts[j]).start = ts[i].start /\ Joined(kind, ts[i], ts[j]).end = ts[j].end
      /\ ErrorAt(kind, ts[i]).kind = kind /\ Joined(kind, ts[i], ts[j]).kind = kind
      /\ i <= i
  BY DEF ErrorAt, Joined
<1>2. kind \notin HelpKinds => Helps(ts, kind, i, i) /\ Helps(ts, kind, i, j)
  BY DEF Helps, HelpKinds
<1> HIDE DEF ErrorAt, Joined
<1> QED
  BY <1>1, <1>2 DEF Placed

\* There is a token after one that is not the last
LEMMA NotLast ==
  ASSUME NEW ts, Ended(ts), NEW o \in 1 .. Len(ts), ts[o].token # "EndOfInput"
  PROVE  o + 1 \in 1 .. Len(ts) /\ o \in Nat
  BY DEF Ended

LEMMA Results ==
  ASSUME NEW ts, Ended(ts), NEW o \in 1 .. Len(ts)
  PROVE  /\ \A v : ts[o].token # "EndOfInput" => Outcome(ts, o, Found(o + 1, v))
         /\ \A v : \A a \in o + 1 .. Len(ts) : Outcome(ts, o, Found(a, v))
         /\ Outcome(ts, o, Absent(o))
         /\ \A a, kind : kind \notin HelpKinds => Outcome(ts, o, Failed(a, ErrorAt(kind, ts[o])))
         /\ \A a, kind : \A i \in 1 .. Len(ts) :
              Helps(ts, kind, i, i) \/ kind \notin HelpKinds => Outcome(ts, o, Failed(a, ErrorAt(kind, ts[i])))
         /\ \A a, kind : \A i, j \in 1 .. Len(ts) :
              i <= j /\ (Helps(ts, kind, i, j) \/ kind \notin HelpKinds)
                => Outcome(ts, o, Failed(a, Joined(kind, ts[i], ts[j])))
<1>1. \A a, e : Placed(ts, e) => Outcome(ts, o, Failed(a, e))
  BY DEF Outcome, Fails, Failed
<1>2. \A v : \A a \in o + 1 .. Len(ts) : Outcome(ts, o, Found(a, v))
  BY DEF Outcome, Fails, Found
<1>3. Outcome(ts, o, Absent(o))
  BY DEF Outcome, Fails, Absent
<1>4. ts[o].token # "EndOfInput" => o + 1 \in o + 1 .. Len(ts)
  BY NotLast
<1>5. \A kind : \A i \in 1 .. Len(ts) :
        Helps(ts, kind, i, i) \/ kind \notin HelpKinds => Placed(ts, ErrorAt(kind, ts[i]))
  <2> SUFFICES ASSUME NEW kind, NEW i \in 1 .. Len(ts), Helps(ts, kind, i, i) \/ kind \notin HelpKinds
               PROVE  Placed(ts, ErrorAt(kind, ts[i]))
    OBVIOUS
  <2>1. i <= i
    OBVIOUS
  <2> QED
    BY <2>1, ErrorsPlaced
<1>6. \A kind : \A i, j \in 1 .. Len(ts) :
        i <= j /\ (Helps(ts, kind, i, j) \/ kind \notin HelpKinds) => Placed(ts, Joined(kind, ts[i], ts[j]))
  BY ErrorsPlaced
<1> QED
  BY <1>1, <1>2, <1>3, <1>4, <1>5, <1>6

\* The result of the second function is that of the whole, from an earlier token
LEMMA Earlier ==
  ASSUME NEW ts, NEW o \in Nat, NEW a \in Nat, o <= a, NEW r, Outcome(ts, a, r), r.is # "absent"
  PROVE  Outcome(ts, o, r)
  BY DEF Outcome, Fails

LEMMA ConsumeNumberOutcome ==
  ASSUME NEW ts, Ended(ts), NEW o \in 1 .. Len(ts), NEW max
  PROVE  /\ Outcome(ts, o, ConsumeNumber(ts, o, max))
         /\ Outcome(ts, o, ExpectNumber(ts, o, max)) /\ ExpectNumber(ts, o, max).is # "absent"
<1>1. Is(ts, o, "Number") => ts[o].token # "EndOfInput"
  BY DEF Is
<1>2. Outcome(ts, o, ConsumeNumber(ts, o, max))
  BY <1>1, Results DEF ConsumeNumber, HelpKinds
<1>3. Outcome(ts, o, ExpectNumber(ts, o, max))
  BY <1>2, Results DEF ExpectNumber, HelpKinds
<1>4. ExpectNumber(ts, o, max).is # "absent"
  BY DEF ExpectNumber, ConsumeNumber, Failed, Found
<1> QED
  BY <1>2, <1>3, <1>4

\* A string token
LEMMA QuotedTextOutcome ==
  ASSUME NEW ts, Ended(ts), NEW o \in 1 .. Len(ts), Is(ts, o, "String")
  PROVE  Outcome(ts, o, QuotedText(ts, o)) /\ QuotedText(ts, o).is # "absent"
<1>1. ts[o].token # "EndOfInput"
  BY DEF Is
<1>2. \E v : \/ QuotedText(ts, o) = Found(o + 1, v)
             \/ /\ QuotedText(ts, o) = Failed(o, ErrorAt("InvalidEscapeInString", ts[o]))
                /\ ts[o].units[1] # "'" /\ InvalidEscape(Inner(ts[o].units)) # 0
  BY DEF QuotedText
<1>3. ts[o].units[1] # "'" /\ InvalidEscape(Inner(ts[o].units)) # 0
        => Helps(ts, "InvalidEscapeInString", o, o)
  BY DEF Helps
<1> QED
  BY <1>1, <1>2, <1>3, Results DEF Found, Failed

LEMMA CodePointOutcome ==
  ASSUME NEW ts, Ended(ts), NEW o \in 1 .. Len(ts)
  PROVE  Outcome(ts, o, CodePoint(ts, o))
<1>1. \/ CodePoint(ts, o) = Absent(o)
      \/ /\ ts[o].token # "EndOfInput"
         /\ \E v : \/ CodePoint(ts, o) = Found(o + 1, v)
                   \/ CodePoint(ts, o) = Failed(o, ErrorAt("CodePointInvalid", ts[o]))
  BY DEF CodePoint, Is
<1> QED
  BY <1>1, Results DEF HelpKinds

LEMMA CharGroupIdentOutcome ==
  ASSUME NEW ts, Ended(ts), NEW o \in 1 .. Len(ts), NEW negative
  PROVE  Outcome(ts, o, CharGroupIdent(ts, o, negative))
<1> DEFINE r == CharGroupIdent(ts, o, negative)
<1>1. \/ r = Absent(o) \/ \E kind : kind \notin HelpKinds /\ r = Failed(o, ErrorAt(kind, ts[o]))
      \/ ts[o].token # "EndOfInput" /\ \E v : r = Found(o + 1, v)
  <2>1. CASE ts[o].token \in {"Dot", "Identifier"}
    <3>1. r = NamedGroup(ts, o, negative) /\ ts[o].token # "EndOfInput"
      BY <2>1 DEF CharGroupIdent
    <3>2. \/ \E kind : kind \notin HelpKinds /\ NamedGroup(ts, o, negative) = Failed(o, ErrorAt(kind, ts[o]))
          \/ \E v : NamedGroup(ts, o, negative) = Found(o + 1, v)
      BY Zenon DEF NamedGroup, HelpKinds
    <3> QED
      BY <3>1, <3>2
  <2>2. CASE ts[o].token \notin {"Dot", "Identifier"}
    BY <2>2 DEF CharGroupIdent, HelpKinds
  <2> QED
    BY <2>1, <2>2
<1> HIDE DEF r
<1>2. Outcome(ts, o, r)
  BY <1>1, Results
<1> QED
  BY <1>2 DEF r

\* A string by its token, or a character
IsStringOrChar(ts, o, value) == value[1] = "char" \/ (value = <<"string", o>> /\ Is(ts, o, "String"))

LEMMA StringOrCharOutcome ==
  ASSUME NEW ts, Ended(ts), NEW o \in 1 .. Len(ts)
  PROVE  LET r == StringOrChar(ts, o) IN
         /\ Outcome(ts, o, r)
         /\ r.is = "found" => IsStringOrChar(ts, o, r.value)
<1> DEFINE r == StringOrChar(ts, o)
           c == CodePoint(ts, o)
<1>1. CASE Is(ts, o, "String")
  <2>1. r = Found(o + 1, <<"string", o>>) /\ ts[o].token # "EndOfInput"
    BY <1>1 DEF StringOrChar, Is
  <2>2. Outcome(ts, o, r)
    BY <2>1, Results
  <2> QED
    BY <1>1, <2>1, <2>2 DEF IsStringOrChar, Found
<1>2. CASE ~Is(ts, o, "String")
  <2>1. Outcome(ts, o, c)
    BY CodePointOutcome
  <2>2. \/ c.is = "found" /\ r = Found(c.at, <<"char", c.value>>)
        \/ c.is = "failed" /\ r = c
        \/ r = Absent(o)
        \/ ts[o].token # "EndOfInput" /\ \E v : r = Found(o + 1, <<"char", v>>)
    <3> HIDE DEF c
    <3>1. \/ c.is = "found" /\ r = OrElse(Found(c.at, <<"char", c.value>>), <<>>)
          \/ c.is = "failed" /\ r = c
          \/ c.is = "absent" /\ r \in {Absent(o)} 
          \/ ts[o].token # "EndOfInput" /\ \E v : r = Found(o + 1, <<"char", v>>)
      BY <1>2, <2>1 DEF StringOrChar, Then, OrElse, Is, c, Outcome, Fails, Found
    <3> QED
      BY <3>1 DEF OrElse, Found
  <2> HIDE DEF c, r
  <2>3. c.is = "found" => c.at \in o + 1 .. Len(ts)
    BY <2>1 DEF Outcome
  <2>4. Outcome(ts, o, r)
    BY <2>1, <2>2, <2>3, Results
  <2>5. r.is = "found" => IsStringOrChar(ts, o, r.value)
    BY <2>2 DEF IsStringOrChar, Found, Absent
  <2> QED
    BY <2>4, <2>5 DEF r
<1> QED
  BY <1>1, <1>2

LEMMA ToCharFails ==
  ASSUME NEW ts, Ended(ts), NEW o \in 1 .. Len(ts), NEW value, IsStringOrChar(ts, o, value), NEW a
  PROVE  Fails(ts, ToChar(ts, value, a)) /\ ToChar(ts, value, a).is # "absent"
<1> DEFINE r == ToChar(ts, value, a)
           q == QuotedText(ts, o)
<1>1. CASE value[1] = "char"
  BY <1>1 DEF ToChar, Found, Fails
<1>2. CASE value[1] # "char"
  <2>1. value[1] = "string" /\ value[2] = o /\ Is(ts, o, "String")
    BY <1>2 DEF IsStringOrChar
  <2>2. Fails(ts, q) /\ q.is # "absent"
    BY <2>1, QuotedTextOutcome DEF Outcome
  <2>3. q.is = "found" =>
          \/ \E kind : kind \notin HelpKinds /\ r = Failed(a, ErrorAt(kind, ts[o]))
          \/ \E v : r = Found(a, v)
    BY <1>2, <2>1, Zenon DEF ToChar, Then, HelpKinds
  <2>4. q.is # "found" => r = q
    BY <1>2, <2>1, Zenon DEF ToChar, Then
  <2>5. \A kind : kind \notin HelpKinds => Outcome(ts, o, Failed(a, ErrorAt(kind, ts[o])))
    BY Results
  <2> HIDE DEF q, r
  <2>6. Fails(ts, r) /\ r.is # "absent"
    BY <2>2, <2>3, <2>4, <2>5 DEF Found, Failed, Outcome, Fails
  <2> QED
    BY <2>6 DEF r
<1> QED
  BY <1>1, <1>2

LEMMA CharRangeOutcome ==
  ASSUME NEW ts, Ended(ts), NEW o \in 1 .. Len(ts), NEW first, IsStringOrChar(ts, o, first.value),
         NEW dash \in 1 .. Len(ts), o < dash, Is(ts, dash, "Dash")
  PROVE  Outcome(ts, o, CharRange(ts, o, first, dash)) /\ CharRange(ts, o, first, dash).is # "absent"
<1> DEFINE r == CharRange(ts, o, first, dash)
           s == StringOrChar(ts, dash + 1)
           from == ToChar(ts, first.value, o)
           to == ToChar(ts, s.value, dash + 1)
<1>1. dash + 1 \in 1 .. Len(ts) /\ o \in Nat /\ o <= dash + 1 /\ dash \in Nat
  BY NotLast DEF Is
<1>2. Outcome(ts, dash + 1, s) /\ (s.is = "found" => IsStringOrChar(ts, dash + 1, s.value))
  BY <1>1, StringOrCharOutcome
<1>3. Fails(ts, from) /\ from.is # "absent"
  BY ToCharFails
<1>4. s.is = "found" => Fails(ts, to) /\ to.is # "absent"
  BY <1>1, <1>2, ToCharFails
<1>5. CASE s.is = "found" /\ from.is = "found" /\ to.is = "found"
  <2>1. \/ r = Failed(o, Joined("DescendingRange", ts[o], ts[dash + 1]))
        \/ \E v : r = Found(s.at, v)
    BY <1>5, Zenon DEF CharRange, Then, OrElse
  <2>2. s.at \in o + 1 .. Len(ts)
    BY <1>1, <1>2, <1>5 DEF Outcome
  <2> HIDE DEF r, s
  <2>3. Outcome(ts, o, r)
    <3>1. Helps(ts, "DescendingRange", o, dash + 1)
      <4>1. dash \in o .. dash + 1
        BY <1>1
      <4> QED
        BY <4>1 DEF Helps
    <3> QED
      BY <1>1, <2>1, <2>2, <3>1, Results
  <2>4. r.is # "absent"
    BY <2>1 DEF Found, Failed
  <2> QED
    BY <2>3, <2>4 DEF r
<1>6. CASE s.is = "found" /\ from.is # "found"
  <2>1. r = from
    BY <1>6, Zenon DEF CharRange, Then, OrElse
  <2> QED
    BY <1>3, <1>6, <2>1 DEF Outcome, Fails
<1>7. CASE s.is = "found" /\ from.is = "found" /\ to.is # "found"
  <2>1. r = to
    BY <1>7, Zenon DEF CharRange, Then, OrElse
  <2> QED
    BY <1>4, <1>7, <2>1 DEF Outcome, Fails
<1>8. CASE s.is = "failed"
  <2>1. r = s
    BY <1>8 DEF CharRange, Then, OrElse
  <2> QED
    BY <1>2, <1>8, <2>1 DEF Outcome, Fails
<1>9. CASE s.is = "absent"
  <2>1. r = Failed(dash + 1, ErrorAt("ExpectedCodePoint", ts[dash + 1]))
    BY <1>9 DEF CharRange, Then, OrElse, Failed
  <2>2. Outcome(ts, o, Failed(dash + 1, ErrorAt("ExpectedCodePoint", ts[dash + 1])))
    BY <1>1, Results DEF HelpKinds
  <2> QED
    BY <2>1, <2>2 DEF Failed
<1> QED
  BY <1>2, <1>5, <1>6, <1>7, <1>8, <1>9 DEF Outcome, Fails

LEMMA CharsOutcome ==
  ASSUME NEW ts, Ended(ts), NEW o \in 1 .. Len(ts)
  PROVE  Outcome(ts, o, CharGroupCharsOrRange(ts, o))
<1> DEFINE r == CharGroupCharsOrRange(ts, o)
           s == StringOrChar(ts, o)
           q == QuotedText(ts, o)
<1>1. Outcome(ts, o, s) /\ (s.is = "found" => IsStringOrChar(ts, o, s.value))
  BY StringOrCharOutcome
<1>2. CASE s.is = "found" /\ Is(ts, s.at, "Dash")
  <2>1. r = CharRange(ts, o, s, s.at)
    BY <1>2 DEF CharGroupCharsOrRange, Then
  <2>2. s.at \in 1 .. Len(ts) /\ o < s.at
    BY <1>1, <1>2 DEF Outcome
  <2> HIDE DEF s
  <2> QED
    BY <1>1, <1>2, <2>1, <2>2, CharRangeOutcome
<1>3. CASE s.is = "found" /\ ~Is(ts, s.at, "Dash") /\ s.value[1] = "char"
  <2>1. \E v : r = Found(s.at, v)
    BY <1>3, Zenon DEF CharGroupCharsOrRange, Then
  <2>2. s.at \in o + 1 .. Len(ts)
    BY <1>1, <1>3 DEF Outcome
  <2> HIDE DEF r, s
  <2>3. Outcome(ts, o, r)
    BY <2>1, <2>2, Results
  <2> QED
    BY <2>3 DEF r
<1>4. CASE s.is = "found" /\ ~Is(ts, s.at, "Dash") /\ s.value[1] # "char"
  <2>1. Is(ts, o, "String")
    BY <1>1, <1>4 DEF IsStringOrChar
  <2>2. Outcome(ts, o, q) /\ q.is # "absent"
    BY <2>1, QuotedTextOutcome
  <2>3. IF q.is = "found" THEN \E v : r = Found(s.at, v) ELSE r = q
    BY <1>4, Zenon DEF CharGroupCharsOrRange, Then
  <2>4. s.at \in o + 1 .. Len(ts)
    BY <1>1, <1>4 DEF Outcome
  <2> HIDE DEF r, s, q
  <2>5. Outcome(ts, o, r)
    BY <2>2, <2>3, <2>4, Results
  <2> QED
    BY <2>5 DEF r
<1>5. CASE s.is # "found"
  <2>1. r = s
    BY <1>5 DEF CharGroupCharsOrRange, Then
  <2> QED
    BY <1>1, <2>1
<1> QED
  BY <1>2, <1>3, <1>4, <1>5

\* The last token is no `!`
LEMMA AfterNotsEnds ==
  ASSUME NEW ts, Ended(ts), NEW o \in 1 .. Len(ts)
  PROVE  LET a == AfterNots(ts, o) IN
         a \in o .. Len(ts) /\ ts[a].token # "Not" /\ (ts[o].token # "Not" => a = o)
<1> DEFINE m == Len(ts)
           Stop == {j \in o .. m : ts[j].token # "Not"}
           value == [j \in o .. m |-> j]
           later == [j \in o .. m |-> j + 1]
           V == {j \in o .. m : ts[j].token # "Not"}
           Fits(f) == f = [j \in o .. m |-> IF Is(ts, j, "Not") THEN f[j + 1] ELSE j]
<1>1. o \in Nat /\ m \in Nat /\ o \in o .. m /\ ts[m].token = "EndOfInput"
  BY DEF Ended
<1> HIDE DEF m
<1>2. Advances(o, m, Stop, value, later, V)
  BY <1>1 DEF Advances
<1>3. PICK f \in [o .. m -> V] :
        \A j \in o .. m : f[j] = IF j \in Stop THEN value[j] ELSE f[later[j]]
  <2> HIDE DEF Stop, value, later, V
  <2> QED
    BY <1>1, <1>2, Search
<1>4. \A j \in o .. m : f[j] = IF Is(ts, j, "Not") THEN f[j + 1] ELSE j
  BY <1>3 DEF Is
<1>5. Fits(f)
  BY <1>3, <1>4
<1> DEFINE g == CHOOSE h : Fits(h)
<1>6. AfterNots(ts, o) = g[o]
  BY DEF AfterNots, m
<1>7. Fits(g)
  <2> HIDE DEF Fits
  <2> QED
    BY <1>5
<1> HIDE DEF g
<1>8. \A j \in o .. m : g[j] = IF Is(ts, j, "Not") THEN g[j + 1] ELSE j
  BY <1>7
<1> DEFINE T == {j \in o .. m : g[j] \in V}
<1>9. \A j \in o .. m : (\A k \in j + 1 .. m : k \in T) => j \in T
  <2> SUFFICES ASSUME NEW j \in o .. m, \A k \in j + 1 .. m : k \in T PROVE g[j] \in V
    OBVIOUS
  <2>1. CASE Is(ts, j, "Not")
    <3>1. j + 1 \in j + 1 .. m
      BY <1>1, <2>1 DEF Is
    <3> QED
      BY <1>8, <2>1, <3>1
  <2>2. CASE ~Is(ts, j, "Not")
    BY <1>8, <2>2 DEF Is
  <2> QED
    BY <2>1, <2>2
<1>10. g[o] \in V
  <2> HIDE DEF T
  <2>1. o \in T
    BY <1>1, <1>9, Downwards
  <2> QED
    BY <2>1 DEF T
<1>11. ts[o].token # "Not" => g[o] = o
  BY <1>1, <1>8 DEF Is
<1> QED
  BY <1>6, <1>10, <1>11 DEF m

LEMMA CharSetItemOutcome ==
  ASSUME NEW ts, Ended(ts), NEW o \in 1 .. Len(ts)
  PROVE  Outcome(ts, o, CharSetItem(ts, o))
<1> DEFINE r == CharSetItem(ts, o)
           a == AfterNots(ts, o)
           c == CharGroupCharsOrRange(ts, a)
           n == CharGroupIdent(ts, a, IsOdd(a - o))
<1>1. a \in o .. Len(ts) /\ a \in 1 .. Len(ts) /\ o \in Nat /\ a \in Nat /\ o <= a
  BY AfterNotsEnds
<1>2. Outcome(ts, a, c) /\ Outcome(ts, a, n)
  BY <1>1, CharsOutcome, CharGroupIdentOutcome
<1>3. \/ r \in {c, n} /\ r.is # "absent"
      \/ a - o > 0 /\ \E kind : kind \notin HelpKinds /\ r = Failed(o, Joined(kind, ts[o], ts[a - 1]))
      \/ r = Failed(a, ErrorAt("ExpectedIdentifier", ts[a]))
      \/ r = Absent(o)
  <2>1. c.is \in {"found", "absent", "failed"} /\ n.is \in {"found", "absent", "failed"}
    BY <1>2 DEF Outcome, Fails
  <2>2. CASE c.is = "found"
    <3>1. r = OrElse(IF a - o > 0 THEN Failed(o, Joined("UnallowedNot", ts[o], ts[a - 1])) ELSE c, <<>>)
      BY <2>2 DEF CharSetItem, Then, OrElse, Failed
    <3> HIDE DEF r, c, a
    <3>2. r = IF a - o > 0 THEN Failed(o, Joined("UnallowedNot", ts[o], ts[a - 1])) ELSE c
      BY <2>2, <3>1 DEF OrElse, Failed
    <3> QED
      BY <2>2, <3>2 DEF HelpKinds
  <2>3. CASE c.is = "failed"
    BY <2>3 DEF CharSetItem, Then, OrElse
  <2>4. CASE c.is = "absent" /\ n.is = "found"
    <3>1. r = OrElse(IF a - o > 1 THEN Failed(o, Joined("UnallowedMultiNot", ts[o], ts[a - 1])) ELSE n, <<>>)
      BY <2>4 DEF CharSetItem, Then, OrElse, Failed
    <3> HIDE DEF r, n, a
    <3>2. r = IF a - o > 1 THEN Failed(o, Joined("UnallowedMultiNot", ts[o], ts[a - 1])) ELSE n
      BY <2>4, <3>1 DEF OrElse, Failed
    <3>3. a - o > 1 => a - o > 0
      BY <1>1
    <3> QED
      BY <2>4, <3>2, <3>3 DEF HelpKinds
  <2>5. CASE c.is = "absent" /\ n.is = "failed"
    BY <2>5 DEF CharSetItem, Then, OrElse
  <2>6. CASE c.is = "absent" /\ n.is = "absent"
    BY <2>6 DEF CharSetItem, Then, OrElse
  <2> QED
    BY <2>1, <2>2, <2>3, <2>4, <2>5, <2>6
<1> HIDE DEF r, c, n, a
<1>4. CASE r \in {c, n} /\ r.is # "absent"
  BY <1>1, <1>2, <1>4, Earlier DEF r
<1>5. CASE a - o > 0 /\ \E kind : kind \notin HelpKinds /\ r = Failed(o, Joined(kind, ts[o], ts[a - 1]))
  <2>1. a - 1 \in 1 .. Len(ts) /\ o <= a - 1
    BY <1>1, <1>5
  <2> QED
    BY <1>5, <2>1, Results DEF r
<1>6. CASE r = Failed(a, ErrorAt("ExpectedIdentifier", ts[a])) \/ r = Absent(o)
  BY <1>1, <1>6, Results DEF r, HelpKinds
<1> QED
  BY <1>3, <1>4, <1>5, <1>6

\* The item and the rest of the set: what CharSetInner makes of them
Turn(j, item, rest) ==
  OrElse(Then(item, LAMBDA i : Then(rest, LAMBDA r : Found(r.at, i.value \o r.value))),
         Found(j, <<>>))

LEMMA CharSetInnerOutcome ==
  ASSUME NEW ts, Ended(ts), NEW o \in 1 .. Len(ts)
  PROVE  LET r == CharSetInner(ts, o) IN
         Fails(ts, r) /\ r.is # "absent" /\ (r.is = "found" => r.at \in o .. Len(ts))
<1> DEFINE m == Len(ts)
           item == [j \in 1 .. m |-> CharSetItem(ts, j)]
           Next1(j, f) == Turn(j, item[j], f[item[j].at])
           Fits(j, f) == f = [i \in j .. m |-> Next1(i, f)]
           S == {j \in o .. m + 1 : \E f : Fits(j, f)}
<1>1. o \in Nat /\ m \in Nat /\ o \in o .. m /\ m + 1 \in Nat /\ o \in 1 .. m /\ o \in o .. m + 1
  BY DEF Ended
<1>2. \A j \in o .. m : Outcome(ts, j, item[j])
  BY <1>1, CharSetItemOutcome
<1>3. \A j \in o .. m : item[j].is = "found" => item[j].at \in j + 1 .. m
  BY <1>2 DEF Outcome
<1> HIDE DEF item, m
<1>4. ASSUME NEW j \in o .. m, NEW f, NEW g,
             item[j].is = "found" => f[item[j].at] = g[item[j].at]
      PROVE  Next1(j, f) = Next1(j, g)
  <2>1. CASE item[j].is = "found"
    BY <1>4, <2>1
  <2>2. CASE item[j].is # "found"
    BY <2>2 DEF Turn, Then
  <2> QED
    BY <2>1, <2>2
<1>5. ASSUME NEW j \in o .. m + 1, \A k \in j + 1 .. m + 1 : k \in S
      PROVE  j \in S
  <2>1. CASE j = m + 1
    <3>1. j .. m = {}
      BY <1>1, <2>1
    <3> DEFINE f == [i \in {} |-> 0]
    <3>2. Fits(j, f)
      BY <3>1
    <3> QED
      BY <3>2
  <2>2. CASE j # m + 1
    <3>1. j + 1 \in j + 1 .. m + 1 /\ j \in o .. m /\ j .. m = {j} \cup (j + 1 .. m)
          /\ j \notin j + 1 .. m
      BY <1>1, <2>2
    <3>2. PICK f : Fits(j + 1, f)
      BY <1>5, <3>1
    <3> DEFINE h == [i \in j .. m |-> IF i = j THEN Next1(j, f) ELSE f[i]]
    <3>3. \A i \in j + 1 .. m : f[i] = Next1(i, f)
      BY <3>2
    <3> HIDE DEF Next1
    <3>4. h[j] = Next1(j, f) /\ \A i \in j + 1 .. m : h[i] = f[i]
      BY <3>1
    <3>5. \A i \in j .. m : item[i].is = "found" => item[i].at \in j + 1 .. m
      <4> SUFFICES ASSUME NEW i \in j .. m, item[i].is = "found" PROVE item[i].at \in j + 1 .. m
        OBVIOUS
      <4>1. i \in o .. m /\ i + 1 .. m \subseteq j + 1 .. m
        BY <1>1
      <4> QED
        BY <1>3, <4>1
    <3> HIDE DEF h
    <3>6. \A i \in j .. m : h[i] = Next1(i, h)
      <4> SUFFICES ASSUME NEW i \in j .. m PROVE h[i] = Next1(i, h)
        OBVIOUS
      <4>1. i \in o .. m
        BY <1>1
      <4>2. item[i].is = "found" => h[item[i].at] = f[item[i].at]
        BY <3>4, <3>5
      <4>3. Next1(i, h) = Next1(i, f)
        BY <1>4, <4>1, <4>2
      <4>4. h[i] = Next1(i, f)
        BY <3>1, <3>3, <3>4
      <4> QED
        BY <4>3, <4>4
    <3>7. Fits(j, h)
      <4>1. h = [i \in j .. m |-> h[i]]
        BY DEF h
      <4> QED
        BY <3>6, <4>1
    <3> QED
      BY <3>7
  <2> QED
    BY <2>1, <2>2
<1>6. \E f : Fits(o, f)
  <2>1. o \in S
    <3> HIDE DEF S
    <3> QED
      BY <1>1, <1>5, Downwards
  <2> QED
    BY <2>1
<1> DEFINE g == CHOOSE f : Fits(o, f)
<1>7. Fits(o, g)
  <2> HIDE DEF Fits
  <2> QED
    BY <1>6
<1>8. CharSetInner(ts, o) = g[o]
  <2>1. \A f : [j \in o .. m |-> OrElse(Then(CharSetItem(ts, j),
                   LAMBDA x : Then(f[x.at], LAMBDA rest : Found(rest.at, x.value \o rest.value))),
                 Found(j, <<>>))]
               = [j \in o .. m |-> Next1(j, f)]
    <3> SUFFICES ASSUME NEW f, NEW j \in o .. m
                 PROVE  OrElse(Then(CharSetItem(ts, j),
                          LAMBDA x : Then(f[x.at], LAMBDA rest : Found(rest.at, x.value \o rest.value))),
                        Found(j, <<>>)) = Next1(j, f)
      OBVIOUS
    <3>1. item[j] = CharSetItem(ts, j)
      BY <1>1 DEF item
    <3> QED
      BY <3>1, Zenon DEF Turn, Then
  <2>2. CharSetInner(ts, o) =
          (CHOOSE f : f = [j \in o .. m |-> OrElse(Then(CharSetItem(ts, j),
                   LAMBDA x : Then(f[x.at], LAMBDA rest : Found(rest.at, x.value \o rest.value))),
                 Found(j, <<>>))])[o]
    BY DEF CharSetInner, m
  <2> QED
    BY <2>1, <2>2, Zenon
<1> HIDE DEF g
<1> DEFINE Ok1(j) == Fails(ts, g[j]) /\ g[j].is # "absent" /\ (g[j].is = "found" => g[j].at \in j .. m)
           T == {j \in o .. m : Ok1(j)}
<1>9. ASSUME NEW j \in o .. m, \A k \in j + 1 .. m : k \in T PROVE Ok1(j)
  <2>1. g[j] = Turn(j, item[j], g[item[j].at])
    BY <1>7
  <2>2. Outcome(ts, j, item[j]) /\ j \in Nat
    BY <1>1, <1>2
  <2>3. CASE item[j].is = "found"
    <3> DEFINE rest == g[item[j].at]
    <3>1. item[j].at \in j + 1 .. m /\ Ok1(item[j].at)
      BY <1>3, <1>9, <2>3
    <3>2. Fails(ts, rest) /\ rest.is # "absent" /\ (rest.is = "found" => rest.at \in j .. m)
      BY <1>1, <2>2, <3>1
    <3> HIDE DEF rest
    <3>3. g[j] = IF rest.is = "found" THEN Found(rest.at, item[j].value \o rest.value) ELSE rest
      BY <2>1, <2>3, <3>2 DEF Turn, Then, OrElse, Found, rest
    <3> QED
      BY <3>2, <3>3 DEF Fails, Found
  <2>4. CASE item[j].is = "absent"
    <3>1. g[j] = Found(j, <<>>)
      BY <2>1, <2>4 DEF Turn, Then, OrElse
    <3> QED
      BY <1>1, <3>1 DEF Fails, Found
  <2>5. CASE item[j].is = "failed"
    <3>1. g[j] = item[j]
      BY <2>1, <2>5 DEF Turn, Then, OrElse
    <3> QED
      BY <2>2, <2>5, <3>1 DEF Outcome, Fails
  <2> QED
    BY <2>2, <2>3, <2>4, <2>5 DEF Outcome, Fails
<1>10. o \in T
  <2>1. \A j \in o .. m : (\A k \in j + 1 .. m : k \in T) => j \in T
    BY <1>9
  <2> HIDE DEF T
  <2> QED
    BY <1>1, <2>1, Downwards
<1> QED
  BY <1>8, <1>10 DEF m

LEMMA CharSetOutcome ==
  ASSUME NEW ts, Ended(ts), NEW o \in 1 .. Len(ts)
  PROVE  Outcome(ts, o, CharSet(ts, o))
<1> DEFINE r == CharSet(ts, o)
           i == CharSetInner(ts, o + 1)
<1>1. CASE ~Is(ts, o, "OpenBracket")
  BY <1>1, Results DEF CharSet
<1>2. CASE Is(ts, o, "OpenBracket")
  <2>1. o + 1 \in 1 .. Len(ts) /\ o \in Nat
    BY <1>2, NotLast DEF Is
  <2>2. Fails(ts, i) /\ i.is # "absent" /\ (i.is = "found" => i.at \in o + 1 .. Len(ts))
    BY <2>1, CharSetInnerOutcome
  <2>3. CASE Is(ts, o + 1, "Caret")
    BY <1>2, <2>1, <2>3, Results DEF CharSet, HelpKinds
  <2>4. CASE ~Is(ts, o + 1, "Caret") /\ i.is = "found"
    <3>1. \/ ~Is(ts, i.at, "CloseBracket") /\ r = Failed(i.at, ErrorAt("ExpectedCharSetItem", ts[i.at]))
          \/ r = Failed(o, Joined("EmptyCharSet", ts[o], ts[i.at]))
          \/ Is(ts, i.at, "CloseBracket") /\ \E v : r = Found(i.at + 1, v)
      BY <1>2, <2>4, Zenon DEF CharSet, Then
    <3>2. i.at \in 1 .. Len(ts) /\ o <= i.at /\ i.at \in Nat
      BY <2>1, <2>2, <2>4
    <3>3. Is(ts, i.at, "CloseBracket") => i.at + 1 \in o + 1 .. Len(ts)
      <4> HIDE DEF i
      <4> QED
        BY <2>1, <3>2, NotLast DEF Is
    <3> HIDE DEF r, i
    <3>4. Outcome(ts, o, r)
      BY <3>1, <3>2, <3>3, Results DEF HelpKinds
    <3> QED
      BY <3>4 DEF r
  <2>5. CASE ~Is(ts, o + 1, "Caret") /\ i.is = "failed"
    <3>1. r = i
      BY <1>2, <2>5 DEF CharSet, Then
    <3> QED
      BY <2>2, <2>5, <3>1 DEF Outcome
  <2> QED
    BY <2>2, <2>3, <2>4, <2>5 DEF Fails
<1> QED
  BY <1>1, <1>2

\* A node with nothing below it, and no let statement
NodeFields == {"kind", "kids", "value", "negative"}
IsLeaf(node) == NodeFields \subseteq DOMAIN node /\ node.kind # "let" /\ node.kids = <<>>
NodeOutcome(ts, o, r) == Outcome(ts, o, r) /\ (r.is = "found" => IsLeaf(r.value))

LEMMA NodeResults ==
  ASSUME NEW ts, Ended(ts), NEW o \in 1 .. Len(ts)
  PROVE  /\ NodeOutcome(ts, o, Absent(o))
         /\ \A a, kind : \A i \in 1 .. Len(ts) :
              kind \notin HelpKinds => NodeOutcome(ts, o, Failed(a, ErrorAt(kind, ts[i])))
         /\ \A a, kind : \A i, j \in 1 .. Len(ts) :
              i <= j /\ (Helps(ts, kind, i, j) \/ kind \notin HelpKinds)
                => NodeOutcome(ts, o, Failed(a, Joined(kind, ts[i], ts[j])))
         /\ \A kind, v : \A a \in o + 1 .. Len(ts) :
              kind # "let" => NodeOutcome(ts, o, Found(a, Node(kind, <<>>, v)))
<1>1. /\ Absent(o).is # "found" /\ \A a, e : Failed(a, e).is # "found"
      /\ \A kind, v, a : kind # "let" => IsLeaf(Found(a, Node(kind, <<>>, v)).value)
  BY DEF Absent, Failed, Found, Node, IsLeaf, NodeFields
<1>2. \A a, kind : \A i \in 1 .. Len(ts) :
        kind \notin HelpKinds => Outcome(ts, o, Failed(a, ErrorAt(kind, ts[i])))
  BY Results
<1>3. \A a, kind : \A i, j \in 1 .. Len(ts) :
        i <= j /\ (Helps(ts, kind, i, j) \/ kind \notin HelpKinds)
          => Outcome(ts, o, Failed(a, Joined(kind, ts[i], ts[j])))
  BY Results
<1>4. \A v : \A a \in o + 1 .. Len(ts) : Outcome(ts, o, Found(a, v))
  BY Results
<1>5. Outcome(ts, o, Absent(o))
  BY Results
<1> QED
  BY <1>1, <1>2, <1>3, <1>4, <1>5 DEF NodeOutcome

LEMMA TextOutcome ==
  ASSUME NEW ts, Ended(ts), NEW o \in 1 .. Len(ts), NEW kind \in {"literal", "regex"},
         Is(ts, o, "String")
  PROVE  NodeOutcome(ts, o, Text(ts, o, kind)) /\ Text(ts, o, kind).is # "absent"
<1> DEFINE q == QuotedText(ts, o)
           r == Text(ts, o, kind)
<1>1. Outcome(ts, o, q) /\ q.is # "absent"
  BY QuotedTextOutcome
<1>2. IF q.is = "found" THEN \E v : r = Found(o + 1, Node(kind, <<>>, v)) ELSE r = q
  BY Zenon DEF Text, Then
<1>3. o + 1 \in o + 1 .. Len(ts)
  BY NotLast DEF Is
<1> HIDE DEF r, q
<1>4. NodeOutcome(ts, o, r)
  BY <1>1, <1>2, <1>3, NodeResults DEF NodeOutcome
<1>5. r.is # "absent"
  BY <1>1, <1>2 DEF Found
<1> QED
  BY <1>4, <1>5 DEF r

LEMMA ReferenceOutcome ==
  ASSUME NEW ts, Ended(ts), NEW o \in 1 .. Len(ts)
  PROVE  NodeOutcome(ts, o, ReferenceAtom(ts, o))
<1> DEFINE r == ReferenceAtom(ts, o)
           far == ExpectNumber(ts, o + 2, MaxOffset)
           near == ConsumeNumber(ts, o + 1, MaxRepetition)
<1>1. CASE ~Is(ts, o, "DoubleColon")
  BY <1>1, NodeResults DEF ReferenceAtom
<1>2. CASE Is(ts, o, "DoubleColon")
  <2>1. o + 1 \in 1 .. Len(ts) /\ o \in Nat
    BY <1>2, NotLast DEF Is
  <2>2. CASE Is(ts, o + 1, "Plus") \/ Is(ts, o + 1, "Dash")
    <3>1. o + 2 \in 1 .. Len(ts)
      BY <2>1, <2>2, NotLast DEF Is
    <3>2. Outcome(ts, o + 2, far)
      BY <3>1, ConsumeNumberOutcome
    <3>3. r = Relative(far, 1) \/ r = Relative(far, -1)
      BY <1>2, <2>2, Zenon DEF ReferenceAtom
    <3>4. IF far.is = "found" THEN \E v : r = Found(far.at, Node("reference", <<>>, v)) ELSE r = far
      BY <3>3, Zenon DEF Relative, Then
    <3>5. far.is # "absent"
      BY <3>1, ConsumeNumberOutcome
    <3>6. far.is = "found" => far.at \in o + 1 .. Len(ts)
      BY <2>1, <3>2 DEF Outcome
    <3> HIDE DEF r, far
    <3>7. NodeOutcome(ts, o, r)
      BY <2>1, <3>2, <3>4, <3>5, <3>6, NodeResults DEF NodeOutcome, Outcome
    <3> QED
      BY <3>7 DEF r
  <2>3. CASE ~Is(ts, o + 1, "Plus") /\ ~Is(ts, o + 1, "Dash")
    <3>1. Outcome(ts, o + 1, near)
      BY <2>1, ConsumeNumberOutcome
    <3>2. near.is = "found" => r = Found(near.at, Node("reference", <<>>, <<"Number", near.value>>))
      BY <1>2, <2>3 DEF ReferenceAtom, Then, OrElse, Found
    <3>3. near.is = "failed" => r = near
      BY <1>2, <2>3 DEF ReferenceAtom, Then, OrElse
    <3>4. near.is = "absent" =>
            \/ r = Failed(o + 1, ErrorAt("ExpectedGroupName", ts[o + 1]))
            \/ /\ Is(ts, o + 1, "Identifier")
               /\ r = Found(o + 2, Node("reference", <<>>, <<"Named", ts[o + 1].units>>))
      BY <1>2, <2>3 DEF ReferenceAtom, Then, OrElse
    <3>5. near.is = "found" => near.at \in o + 1 .. Len(ts)
      BY <2>1, <3>1 DEF Outcome
    <3>6. Is(ts, o + 1, "Identifier") => o + 2 \in o + 1 .. Len(ts)
      BY <2>1, NotLast DEF Is
    <3>7. near.is \in {"found", "absent", "failed"}
      BY <3>1 DEF Outcome, Fails
    <3> HIDE DEF r, near
    <3>8. near.is = "failed" => NodeOutcome(ts, o, near)
      BY <2>1, <3>1 DEF NodeOutcome, Outcome
    <3>9. NodeOutcome(ts, o, r)
      BY <2>1, <3>2, <3>3, <3>4, <3>5, <3>6, <3>7, <3>8, NodeResults DEF HelpKinds
    <3> QED
      BY <3>9 DEF r
  <2> QED
    BY <2>2, <2>3
<1> QED
  BY <1>1, <1>2

LEMMA RangeOutcome ==
  ASSUME NEW ts, Ended(ts), NEW o \in 1 .. Len(ts)
  PROVE  NodeOutcome(ts, o, RangeAtom(ts, o))
<1> DEFINE r == RangeAtom(ts, o)
           base == ExpectNumber(ts, o + 5, 36)
<1>1. CASE ~IsReserved(ts, o, "range")
  BY <1>1, NodeResults DEF RangeAtom
<1>2. CASE IsReserved(ts, o, "range")
  <2>1. o + 1 \in 1 .. Len(ts) /\ o \in Nat
    BY <1>2, NotLast DEF Is, IsReserved
  <2>2. CASE ~Is(ts, o + 1, "String")
    BY <1>2, <2>1, <2>2, NodeResults DEF RangeAtom, HelpKinds
  <2>3. CASE Is(ts, o + 1, "String")
    <3>1. o + 2 \in 1 .. Len(ts)
      BY <2>1, <2>3, NotLast DEF Is
    <3>2. CASE ~Is(ts, o + 2, "Dash")
      BY <1>2, <2>3, <3>1, <3>2, NodeResults DEF RangeAtom, HelpKinds
    <3>3. CASE Is(ts, o + 2, "Dash")
      <4>1. o + 3 \in 1 .. Len(ts)
        BY <2>1, <3>1, <3>3, NotLast DEF Is
      <4>2. CASE ~Is(ts, o + 3, "String")
        BY <1>2, <2>3, <3>3, <4>1, <4>2, NodeResults DEF RangeAtom, HelpKinds
      <4>3. CASE Is(ts, o + 3, "String")
        <5>1. o + 4 \in 1 .. Len(ts) /\ o + 4 \in o + 1 .. Len(ts) /\ o + 1 <= o + 3
          BY <2>1, <4>1, <4>3, NotLast DEF Is
        <5>2. ASSUME NEW radix, NEW a \in o + 1 .. Len(ts)
              PROVE  NodeOutcome(ts, o, RangeBounds(ts, o, radix, a))
          <6>1. \/ \E kind : kind \notin HelpKinds /\ RangeBounds(ts, o, radix, a) = Failed(o, ErrorAt(kind, ts[o + 1]))
                \/ \E kind : kind \notin HelpKinds /\ RangeBounds(ts, o, radix, a) = Failed(o, ErrorAt(kind, ts[o + 3]))
                \/ RangeBounds(ts, o, radix, a) = Failed(o, Joined("RangeIsNotIncreasing", ts[o + 1], ts[o + 3]))
                \/ \E v : RangeBounds(ts, o, radix, a) = Found(a, Node("range", <<>>, v))
            BY Zenon DEF RangeBounds, HelpKinds
          <6>2. Helps(ts, "RangeIsNotIncreasing", o + 1, o + 3)
            <7>1. o + 2 \in o + 1 .. o + 3
              BY <2>1
            <7> QED
              BY <3>3, <7>1 DEF Helps
          <6> QED
            BY <2>1, <4>1, <5>1, <6>1, <6>2, NodeResults
        <5>3. CASE ~IsReserved(ts, o + 4, "base")
          <6>1. r = RangeBounds(ts, o, 10, o + 4)
            BY <1>2, <2>3, <3>3, <4>3, <5>3, Zenon DEF RangeAtom
          <6> QED
            BY <5>1, <5>2, <6>1
        <5>4. CASE IsReserved(ts, o + 4, "base")
          <6>1. o + 5 \in 1 .. Len(ts)
            BY <2>1, <5>1, <5>4, NotLast DEF Is, IsReserved
          <6>2. Outcome(ts, o + 5, base) /\ base.is # "absent"
            BY <6>1, ConsumeNumberOutcome
          <6>3. IF base.is = "found"
                THEN \/ r = Failed(o, ErrorAt("NumberTooSmall", ts[o + 5]))
                     \/ r = RangeBounds(ts, o, base.value, base.at)
                ELSE r = base
            BY <1>2, <2>3, <3>3, <4>3, <5>4, Zenon DEF RangeAtom, Then
          <6>4. base.is = "found" => base.at \in o + 1 .. Len(ts)
            BY <2>1, <6>2 DEF Outcome
          <6> HIDE DEF r, base
          <6>5. base.is # "found" => NodeOutcome(ts, o, base)
            BY <2>1, <6>2 DEF NodeOutcome, Outcome
          <6>6. NodeOutcome(ts, o, r)
            BY <5>2, <6>1, <6>3, <6>4, <6>5, NodeResults DEF HelpKinds
          <6> QED
            BY <6>6 DEF r
        <5> QED
          BY <5>3, <5>4
      <4> QED
        BY <4>2, <4>3
    <3> QED
      BY <3>2, <3>3
  <2> QED
    BY <2>2, <2>3
<1> QED
  BY <1>1, <1>2

\* The first that is not absent
LEMMA FirstIsOne ==
  ASSUME NEW n \in Nat \ {0}, NEW results, DOMAIN results = 1 .. n, Len(results) = n
  PROVE  \E i \in 1 .. n : FirstPresent(results) = results[i]
<1> DEFINE S == {i \in 1 .. Len(results) : results[i].is # "absent"}
<1>1. S \subseteq Nat
  OBVIOUS
<1>2. S # {} => Min(S) \in S
  <2> HIDE DEF S
  <2> QED
    BY <1>1, Least
<1>3. SelectInSeq(results, LAMBDA r : r.is # "absent") = IF S # {} THEN Min(S) ELSE 0
  BY DEF SelectInSeq
<1>4. 1 \in 1 .. n
  OBVIOUS
<1>5. CASE S = {}
  <2>1. FirstPresent(results) = results[1]
    BY <1>3, <1>5 DEF FirstPresent
  <2> QED
    BY <1>4, <2>1
<1>6. CASE S # {}
  <2>1. Min(S) \in 1 .. n /\ Min(S) # 0
    BY <1>2, <1>6
  <2>2. FirstPresent(results) = results[Min(S)]
    <3> HIDE DEF S
    <3> QED
      BY <1>3, <1>6, <2>1 DEF FirstPresent
  <2> HIDE DEF S
  <2> QED
    BY <2>1, <2>2
<1> QED
  BY <1>5, <1>6

LEMMA LeafAtomOutcome ==
  ASSUME NEW ts, Ended(ts), NEW o \in 1 .. Len(ts)
  PROVE  NodeOutcome(ts, o, LeafAtom(ts, o))
<1>1. NodeOutcome(ts, o, StringAtom(ts, o))
  BY TextOutcome, NodeResults DEF StringAtom
<1>2. NodeOutcome(ts, o, CharSet(ts, o))
  <2>1. Outcome(ts, o, CharSet(ts, o))
    BY CharSetOutcome
  <2>2. CharSet(ts, o).is = "found" => IsLeaf(CharSet(ts, o).value)
    <3> DEFINE i == CharSetInner(ts, o + 1)
               r == CharSet(ts, o)
    <3>1. \/ r = Absent(o) \/ \E a, e : r = Failed(a, e)
          \/ i.is # "found" /\ r = i
          \/ \E a, v : r = Found(a, Node("class", <<>>, v))
      BY Zenon DEF CharSet, Then
    <3> HIDE DEF i, r
    <3> QED
      BY <3>1 DEF Absent, Failed, Found, Node, IsLeaf, NodeFields, r
  <2> QED
    BY <2>1, <2>2 DEF NodeOutcome
<1>3. NodeOutcome(ts, o, BoundaryAtom(ts, o))
  <2> DEFINE pairs == {<<"Caret", "Start">>, <<"Dollar", "End">>, <<"BWord", "Word">>}
  <2>1. DOMAIN BoundaryKind = {p[1] : p \in pairs}
    BY DEF BoundaryKind, Table
  <2>2. \A p \in pairs : p[1] # "EndOfInput"
    OBVIOUS
  <2>3. "EndOfInput" \notin DOMAIN BoundaryKind
    <3> HIDE DEF pairs
    <3> QED
      BY <2>1, <2>2
  <2>4. \/ BoundaryAtom(ts, o) = Absent(o)
        \/ /\ ts[o].token # "EndOfInput"
           /\ \E v : BoundaryAtom(ts, o) = Found(o + 1, Node("boundary", <<>>, v))
    BY <2>3, Zenon DEF BoundaryAtom
  <2>5. ts[o].token # "EndOfInput" => o + 1 \in o + 1 .. Len(ts)
    BY NotLast
  <2> QED
    BY <2>4, <2>5, NodeResults
<1>4. NodeOutcome(ts, o, ReferenceAtom(ts, o))
  BY ReferenceOutcome
<1>5. NodeOutcome(ts, o, CodePointAtom(ts, o))
  <2> DEFINE c == CodePoint(ts, o)
             r == CodePointAtom(ts, o)
  <2>1. Outcome(ts, o, c)
    BY CodePointOutcome
  <2>2. IF c.is = "found" THEN \E v : r = Found(c.at, Node("class", <<>>, v)) ELSE r = c
    BY Zenon DEF CodePointAtom, Then
  <2>3. c.is = "found" => c.at \in o + 1 .. Len(ts)
    BY <2>1 DEF Outcome
  <2>4. c.is # "found" => NodeOutcome(ts, o, c)
    BY <2>1 DEF NodeOutcome
  <2> HIDE DEF c, r
  <2>5. NodeOutcome(ts, o, r)
    BY <2>2, <2>3, <2>4, NodeResults
  <2> QED
    BY <2>5 DEF r
<1>6. NodeOutcome(ts, o, RangeAtom(ts, o))
  BY RangeOutcome
<1>7. NodeOutcome(ts, o, RegexAtom(ts, o))
  <2>1. CASE ~IsReserved(ts, o, "regex")
    BY <2>1, NodeResults DEF RegexAtom
  <2>2. CASE IsReserved(ts, o, "regex")
    <3>1. o + 1 \in 1 .. Len(ts) /\ o \in Nat
      BY <2>2, NotLast DEF Is, IsReserved
    <3>2. CASE ~Is(ts, o + 1, "String")
      BY <2>2, <3>1, <3>2, NodeResults DEF RegexAtom, HelpKinds
    <3>3. CASE Is(ts, o + 1, "String")
      <4> DEFINE q == Text(ts, o + 1, "regex")
      <4>1. RegexAtom(ts, o) = q
        BY <2>2, <3>3, Zenon DEF RegexAtom
      <4>2. NodeOutcome(ts, o + 1, q) /\ q.is # "absent"
        BY <3>1, <3>3, TextOutcome
      <4> HIDE DEF q
      <4>3. NodeOutcome(ts, o, q)
        BY <3>1, <4>2 DEF NodeOutcome, Outcome
      <4> QED
        BY <4>1, <4>3
    <3> QED
      BY <3>2, <3>3
  <2> QED
    BY <2>1, <2>2
<1>8. NodeOutcome(ts, o, VariableAtom(ts, o)) /\ NodeOutcome(ts, o, DotAtom(ts, o))
  <2>1. ts[o].token # "EndOfInput" => o + 1 \in o + 1 .. Len(ts)
    BY NotLast
  <2> QED
    BY <2>1, NodeResults DEF VariableAtom, DotAtom, Is
<1> DEFINE results == <<StringAtom(ts, o), CharSet(ts, o), BoundaryAtom(ts, o), ReferenceAtom(ts, o),
                        CodePointAtom(ts, o), RangeAtom(ts, o), RegexAtom(ts, o),
                        VariableAtom(ts, o), DotAtom(ts, o)>>
<1>9. \A i \in 1 .. 9 : NodeOutcome(ts, o, results[i])
  <2>1. /\ results[1] = StringAtom(ts, o) /\ results[2] = CharSet(ts, o)
        /\ results[3] = BoundaryAtom(ts, o) /\ results[4] = ReferenceAtom(ts, o)
        /\ results[5] = CodePointAtom(ts, o) /\ results[6] = RangeAtom(ts, o)
        /\ results[7] = RegexAtom(ts, o) /\ results[8] = VariableAtom(ts, o)
        /\ results[9] = DotAtom(ts, o)
    OBVIOUS
  <2>2. \A i \in 1 .. 9 : i \in {1, 2, 3, 4, 5, 6, 7, 8, 9}
    OBVIOUS
  <2> HIDE DEF results
  <2> QED
    BY <1>1, <1>2, <1>3, <1>4, <1>5, <1>6, <1>7, <1>8, <2>1, <2>2
<1>10. DOMAIN results = 1 .. 9 /\ Len(results) = 9
  OBVIOUS
<1>11. LeafAtom(ts, o) = FirstPresent(results)
  BY Zenon DEF LeafAtom
<1> HIDE DEF results
<1>12. 9 \in Nat \ {0}
  OBVIOUS
<1>13. \E i \in 1 .. 9 : FirstPresent(results) = results[i]
  BY <1>10, <1>12, FirstIsOne
<1> QED
  BY <1>9, <1>11, <1>13

LEMMA BracesOutcome ==
  ASSUME NEW ts, Ended(ts), NEW o \in 1 .. Len(ts)
  PROVE  Outcome(ts, o, Braces(ts, o))
<1> DEFINE r == Braces(ts, o)
           lower == ConsumeNumber(ts, o + 1, MaxRepetition)
           c == After(ts, lower.at, "Comma")
           upper == ConsumeNumber(ts, c, MaxRepetition)
<1>1. CASE ~Is(ts, o, "OpenBrace")
  BY <1>1, Results DEF Braces
<1>2. CASE Is(ts, o, "OpenBrace")
  <2>1. o + 1 \in 1 .. Len(ts) /\ o \in Nat
    BY <1>2, NotLast DEF Is
  <2>2. Outcome(ts, o + 1, lower)
    BY <2>1, ConsumeNumberOutcome
  <2>3. CASE lower.is = "failed"
    <3>1. r = lower
      BY <1>2, <2>3, Zenon DEF Braces
    <3> QED
      BY <2>2, <2>3, <3>1 DEF Outcome
  <2>4. CASE lower.is # "failed"
    <3>1. lower.at \in o + 1 .. Len(ts) /\ lower.at \in 1 .. Len(ts)
      BY <2>1, <2>2, <2>4 DEF Outcome, Fails
    <3>2. c \in o + 1 .. Len(ts) /\ c \in 1 .. Len(ts) /\ (Is(ts, lower.at, "Comma") => c >= o + 2)
      <4> HIDE DEF lower
      <4> QED
        BY <2>1, <3>1, NotLast DEF After, Is
    <3>3. lower.is = "found" => c >= o + 2
      <4>1. lower.is = "found" => lower.at >= o + 2
        BY <2>1, <2>2 DEF Outcome
      <4> HIDE DEF lower
      <4> QED
        BY <2>1, <3>1, <4>1 DEF After
    <3> HIDE DEF c
    <3>4. Outcome(ts, c, upper)
      BY <3>2, ConsumeNumberOutcome
    <3>5. r = Bounds(ts, o, lower, upper)
      BY <1>2, <2>4, Zenon DEF Braces, c
    <3>6. CASE upper.is = "failed"
      <4>1. r = upper
        BY <3>5, <3>6, Zenon DEF Bounds
      <4> QED
        BY <3>4, <3>6, <4>1 DEF Outcome
    <3>7. CASE upper.is # "failed"
      <4>1. \/ Is(ts, lower.at, "Comma") /\ r = Failed(o, Joined("NotAscending", ts[o + 1], ts[upper.at - 1]))
            \/ /\ lower.is = "found" /\ upper.is = "found"
               /\ r = Failed(o, ErrorAt("ExpectedBraceOrComma", ts[upper.at - 1]))
            \/ r = Failed(o, ErrorAt("ExpectedNumber", ts[o + 1]))
            \/ Is(ts, upper.at, "CloseBrace") /\ \E v : r = Found(upper.at + 1, v)
            \/ r = Failed(o, ErrorAt("ExpectedCloseBrace", ts[upper.at]))
        BY <3>5, <3>7, Zenon DEF Bounds
      <4>2. upper.at \in c .. Len(ts)
        BY <3>2, <3>4, <3>7 DEF Outcome, Fails
      <4> HIDE DEF r, lower, upper
      <4>3. upper.at \in 1 .. Len(ts) /\ upper.at >= c
        BY <3>2, <4>2
      <4>4. c >= o + 2 => upper.at - 1 \in 1 .. Len(ts) /\ o + 1 <= upper.at - 1
        BY <2>1, <3>2, <4>3
      <4>5. Is(ts, upper.at, "CloseBrace") => upper.at + 1 \in o + 1 .. Len(ts)
        BY <2>1, <3>2, <4>3, NotLast DEF Is
      <4>6. Outcome(ts, o, r)
        BY <2>1, <3>2, <3>3, <4>1, <4>3, <4>4, <4>5, Results DEF HelpKinds
      <4> QED
        BY <4>6 DEF r
    <3> QED
      BY <3>6, <3>7
  <2> QED
    BY <2>3, <2>4
<1> QED
  BY <1>1, <1>2

LEMMA RepetitionOutcome ==
  ASSUME NEW ts, Ended(ts), NEW o \in 1 .. Len(ts)
  PROVE  Outcome(ts, o, Repetition(ts, o))
<1> DEFINE r == Repetition(ts, o)
           kind == IF ts[o].token \in DOMAIN RepetitionSymbol
                   THEN Found(o + 1, RepetitionSymbol[ts[o].token]) ELSE Braces(ts, o)
           quantifier == QuantifierWord(ts, kind.at)
           a == IF quantifier = "Default" THEN kind.at ELSE kind.at + 1
           again == Braces(ts, a)
           pairs == {<<"Plus", <<1, Unbounded>>>>, <<"Star", <<0, Unbounded>>>>, <<"QuestionMark", <<0, 1>>>>}
<1>1. "EndOfInput" \notin DOMAIN RepetitionSymbol
  <2>1. DOMAIN RepetitionSymbol = {p[1] : p \in pairs}
    BY DEF RepetitionSymbol, Table
  <2>2. \A p \in pairs : p[1] # "EndOfInput"
    OBVIOUS
  <2> HIDE DEF pairs
  <2> QED
    BY <2>1, <2>2
<1>2. Outcome(ts, o, kind)
  <2>1. ts[o].token # "EndOfInput" => \A v : Outcome(ts, o, Found(o + 1, v))
    BY Results
  <2>2. Outcome(ts, o, Braces(ts, o))
    BY BracesOutcome
  <2> QED
    BY <1>1, <2>1, <2>2
<1>3. CASE kind.is # "found"
  <2>1. r = kind
    BY <1>3, Zenon DEF Repetition, Then
  <2> QED
    BY <1>2, <2>1
<1>4. CASE kind.is = "found"
  <2>1. kind.at \in o + 1 .. Len(ts) /\ kind.at \in 1 .. Len(ts) /\ o \in Nat /\ kind.at \in Nat
    BY <1>2, <1>4 DEF Outcome
  <2>2. a \in o + 1 .. Len(ts) /\ a \in 1 .. Len(ts) /\ a \in Nat
    <3>1. quantifier # "Default" => ts[kind.at].token # "EndOfInput"
      BY DEF QuantifierWord, IsReserved, Is
    <3> HIDE DEF kind, quantifier
    <3> QED
      BY <2>1, <3>1, NotLast
  <2>3. Outcome(ts, a, again)
    BY <2>2, BracesOutcome
  <2>4. r = IF ts[a].token \in {"Plus", "Star"} THEN Failed(a, ErrorAt("MultiRepetition", ts[a]))
            ELSE IF Is(ts, a, "QuestionMark") THEN Failed(a, ErrorAt("QmSuffix", ts[a]))
            ELSE OrElse(IF again.is = "found"
                        THEN Failed(a, Joined("MultiRepetition", ts[a], ts[again.at - 1])) ELSE again,
                   Found(a, kind.value \o <<quantifier>>))
    BY <1>4, Zenon DEF Repetition, Then
  <2> HIDE DEF r, kind, quantifier, a, again
  <2>5. \/ \E k : k \notin HelpKinds /\ r = Failed(a, ErrorAt(k, ts[a]))
        \/ again.is = "found" /\ r = Failed(a, Joined("MultiRepetition", ts[a], ts[again.at - 1]))
        \/ \E v : r = Found(a, v)
        \/ r = again /\ again.is # "absent"
    <3>1. \A e : Failed(a, e).is # "absent"
      BY DEF Failed
    <3> QED
      BY <2>4, <3>1, Zenon DEF OrElse, HelpKinds
  <2>6. again.is = "found" => again.at - 1 \in 1 .. Len(ts) /\ a <= again.at - 1
    BY <2>2, <2>3 DEF Outcome
  <2>7. r = again /\ again.is # "absent" => Outcome(ts, o, r)
    BY <2>1, <2>2, <2>3, Earlier
  <2>8. Outcome(ts, o, r)
    BY <2>2, <2>5, <2>6, <2>7, Results DEF HelpKinds
  <2> QED
    BY <2>8 DEF r
<1> QED
  BY <1>3, <1>4

-----------------------------------------------------------------------------
(***************************************************************************)
(* Where tokens lie, and errors about them                                 *)
(***************************************************************************)
Place(e) ==
  /\ AtCharacter(e.start) /\ AtCharacter(e.end)
  /\ e.start < e.end \/ (e.start = e.end /\ e.start = begin[Len(text) + 1])
  /\ e.kind \in HelpKinds => Placed(tokens, e)

\* Nothing is empty but what is at the end of the text
LEMMA TokenSpan ==
  ASSUME TilesInv, NEW i \in DOMAIN tokens
  PROVE  /\ tokens[i].start \in Nat /\ tokens[i].end \in Nat
         /\ EndBefore(tokens, i) \in Nat /\ EndBefore(tokens, i) <= tokens[i].start
         /\ tokens[i].start <= tokens[i].end
         /\ AtCharacter(tokens[i].start) /\ AtCharacter(tokens[i].end)
         /\ tokens[i].start < tokens[i].end \/ tokens[i].start = begin[Len(text) + 1]
         /\ tokens[i].end <= begin[Len(text) + 1]
<1> DEFINE l == Len(text)
           before == EndBefore(tokens, i)
           token == tokens[i]
<1>1. text \in Texts /\ Positions(text, begin) /\ l \in Nat
  BY BeginsPositions, TextLen DEF TilesInv
<1>2. PICK r \in 1 .. l + 1, p \in 1 .. l + 1, q \in 1 .. l + 1 :
        /\ before = begin[r] /\ token.start = begin[p] /\ token.end = begin[q]
        /\ r <= p /\ p <= q
        /\ p < q \/ (token.token = "EndOfInput" /\ p = l + 1)
  BY DEF TilesInv, Tile
<1> HIDE DEF token, before
<1>3. UnitAt(begin, token.start) = p /\ UnitAt(begin, token.end) = q
  BY <1>1, <1>2, UnitFound
<1>4. begin[r] \in Nat /\ begin[p] \in Nat /\ begin[q] \in Nat /\ begin[l + 1] \in Nat
  <2>1. l + 1 \in 1 .. l + 1
    BY <1>1
  <2> QED
    BY <1>1, <2>1 DEF Positions
<1>5. r < p => begin[r] < begin[p]
  BY <1>1, PositionsGrow
<1>6. p < q => begin[p] < begin[q]
  BY <1>1, PositionsGrow
<1>7. q < l + 1 => begin[q] < begin[l + 1]
  <2>1. l + 1 \in 1 .. l + 1
    BY <1>1
  <2> QED
    BY <1>1, <2>1, PositionsGrow
<1> HIDE DEF l
<1>8. AtCharacter(token.start) /\ AtCharacter(token.end)
  BY <1>1, <1>3 DEF AtCharacter
<1>9. (r = p \/ r < p) /\ (p = q \/ p < q) /\ (q = l + 1 \/ q < l + 1)
  BY <1>1, <1>2
<1>10. /\ begin[r] <= begin[p] /\ begin[p] <= begin[q] /\ begin[q] <= begin[l + 1]
       /\ begin[p] < begin[q] \/ begin[p] = begin[l + 1]
  BY <1>2, <1>4, <1>5, <1>6, <1>7, <1>9
<1> QED
  BY <1>2, <1>4, <1>8, <1>10 DEF token, before, l

LEMMA TokensInOrder ==
  ASSUME TilesInv
  PROVE  \A j \in DOMAIN tokens : \A i \in 1 .. j - 1 : tokens[i].end <= tokens[j].start
<1> DEFINE m == Len(tokens)
           Late == {j \in 1 .. m : \E i \in 1 .. j - 1 : ~(tokens[i].end <= tokens[j].start)}
<1>1. m \in Nat /\ DOMAIN tokens = 1 .. m
  BY StackLen DEF TilesInv
<1> HIDE DEF m
<1> SUFFICES ASSUME Late # {} PROVE FALSE
  BY <1>1
<1>2. PICK j \in Late : \A k \in Late : j <= k
  <2>1. Late \subseteq Nat
    BY <1>1
  <2> HIDE DEF Late
  <2> QED
    BY <2>1, Least
<1>3. PICK i \in 1 .. j - 1 : ~(tokens[i].end <= tokens[j].start)
  BY <1>2
<1>4. /\ j \in 1 .. m /\ j - 1 \in 1 .. m /\ i \in 1 .. m /\ ~(j <= j - 1) /\ j # 1
      /\ i = j - 1 \/ i \in 1 .. j - 1 - 1
  BY <1>1, <1>2, <1>3
<1>5. /\ tokens[j].start \in Nat /\ EndBefore(tokens, j) <= tokens[j].start
      /\ tokens[j - 1].start \in Nat /\ tokens[j - 1].end \in Nat
      /\ tokens[j - 1].start <= tokens[j - 1].end
      /\ tokens[i].end \in Nat
  BY <1>1, <1>4, TokenSpan
<1>6. EndBefore(tokens, j) = tokens[j - 1].end
  BY <1>4 DEF EndBefore
<1>7. i \in 1 .. j - 1 - 1 => tokens[i].end <= tokens[j - 1].start
  BY <1>2, <1>4
<1> HIDE DEF Late
<1> QED
  BY <1>3, <1>4, <1>5, <1>6, <1>7

LEMMA PlacedHasPlace ==
  ASSUME TilesInv, NEW e, Placed(tokens, e)
  PROVE  Place(e)
<1>1. Len(tokens) \in Nat /\ DOMAIN tokens = 1 .. Len(tokens)
  BY StackLen DEF TilesInv
<1>2. PICK i \in 1 .. Len(tokens), j \in 1 .. Len(tokens) :
        i <= j /\ e.start = tokens[i].start /\ e.end = tokens[j].end
  BY DEF Placed
<1>3. i = j \/ i \in 1 .. j - 1
  BY <1>1, <1>2
<1> DEFINE a == tokens[i].start
           b == tokens[i].end
           c == tokens[j].start
           d == tokens[j].end
           z == begin[Len(text) + 1]
<1>4. /\ a \in Nat /\ b \in Nat /\ a <= b /\ AtCharacter(a) /\ (a < b \/ a = z) /\ b <= z
      /\ c \in Nat /\ d \in Nat /\ c <= d /\ AtCharacter(d) /\ (c < d \/ c = z) /\ d <= z
  BY <1>1, TokenSpan
<1>5. i \in 1 .. j - 1 => b <= c
  BY <1>1, TokensInOrder
<1>6. i = j => a = c /\ b = d
  OBVIOUS
<1>7. z \in Nat
  <2>1. text \in Texts /\ Positions(text, begin) /\ Len(text) \in Nat
    BY BeginsPositions, TextLen DEF TilesInv
  <2>2. Len(text) + 1 \in 1 .. Len(text) + 1
    BY <2>1
  <2> QED
    BY <2>1, <2>2 DEF Positions
<1> HIDE DEF a, b, c, d, z
<1>8. a < d \/ (a = d /\ a = z)
  BY <1>3, <1>4, <1>5, <1>6, <1>7
<1> QED
  BY <1>2, <1>4, <1>8 DEF Place, a, d, z

\* The units of a part of a text begin where they do in the text
LEMMA PartPositions ==
  ASSUME NEW t \in Texts, NEW b, Positions(t, b),
         NEW p \in 1 .. Len(t) + 1, NEW q \in 1 .. Len(t) + 1, p <= q
  PROVE  LET u == SubSeq(t, p, q - 1) IN
         /\ Len(u) = q - p /\ DOMAIN u = 1 .. q - p
         /\ \A k \in 1 .. q - p : u[k] = t[p + k - 1]
         /\ \A k \in 1 .. q - p + 1 : Begins(u)[k] = b[p + k - 1] - b[p]
<1> DEFINE u == SubSeq(t, p, q - 1)
           c == Begins(u)
           n == q - p
           Wrong == {k \in 1 .. n + 1 : c[k] # b[p + k - 1] - b[p]}
<1>1. Len(t) \in Nat /\ n \in Nat /\ p \in Nat /\ q \in Nat
  BY TextLen
<1>2. /\ u \in Texts /\ Len(u) = n
      /\ \A k \in 1 .. n : u[k] = t[p + k - 1]
  <2>1. t \in Seq(Units) /\ \A k \in p .. q - 1 : t[k] \in Units
    <3>1. \A k \in p .. q - 1 : k \in 1 .. Len(t)
      BY <1>1
    <3> QED
      BY <3>1, TextLen DEF Texts
  <2>2. /\ u \in Seq(Units)
        /\ Len(u) = IF p <= q - 1 THEN q - 1 - p + 1 ELSE 0
        /\ \A k \in 1 .. q - 1 - p + 1 : u[k] = t[p + k - 1]
    <3>1. p \in 1 .. Len(t) + 1 /\ q - 1 \in p - 1 .. Len(t)
      BY <1>1
    <3> QED
      BY <1>1, <2>1, <3>1, SubSeqProperties
  <2>3. q - 1 - p + 1 = n
    BY <1>1
  <2>4. Len(u) = n
    BY <1>1, <2>2
  <2> HIDE DEF u, n
  <2> QED
    BY <2>2, <2>3, <2>4 DEF Texts
<1> HIDE DEF u, n
<1>3. Positions(u, c) /\ DOMAIN u = 1 .. n
  BY <1>2, BeginsPositions, TextLen
<1> HIDE DEF c
<1>4. c \in [1 .. n + 1 -> Nat] /\ c[1] = 0 /\ \A k \in 1 .. n : c[k + 1] = c[k] + BytesOf(u[k])
  BY <1>2, <1>3 DEF Positions
<1> DEFINE l == Len(t)
<1>5. /\ b \in [1 .. l + 1 -> Nat] /\ \A k \in 1 .. l : b[k + 1] = b[k] + BytesOf(t[k])
      /\ l \in Nat /\ p \in 1 .. l + 1 /\ q \in 1 .. l + 1
  BY <1>1 DEF Positions
<1> HIDE DEF l
<1>6. Wrong = {}
  <2> SUFFICES ASSUME Wrong # {} PROVE FALSE
    OBVIOUS
  <2>1. PICK k \in Wrong : \A x \in Wrong : k <= x
    <3>1. Wrong \subseteq Nat
      BY <1>1
    <3> HIDE DEF Wrong
    <3> QED
      BY <3>1, Least
  <2>2. k \in 1 .. n + 1 /\ c[k] # b[p + k - 1] - b[p] /\ k \in Nat
    BY <1>1, <2>1
  <2>3. k # 1
    <3>1. p + 1 - 1 = p /\ b[p] \in Nat /\ b[p] - b[p] = 0
      BY <1>1, <1>5
    <3> QED
      BY <1>4, <2>2, <3>1
  <2>4. k - 1 \in 1 .. n /\ k - 1 \in 1 .. n + 1 /\ ~(k <= k - 1) /\ k - 1 + 1 = k
    BY <1>1, <2>2, <2>3
  <2>5. c[k - 1] = b[p + (k - 1) - 1] - b[p]
    BY <2>1, <2>4
  <2>6. c[k] = c[k - 1] + BytesOf(t[p + (k - 1) - 1])
    BY <1>2, <1>4, <2>4
  <2> DEFINE x == p + (k - 1) - 1
  <2>7. x \in 1 .. l /\ x \in 1 .. l + 1 /\ x + 1 = p + k - 1
    BY <1>1, <1>5, <2>2, <2>4 DEF n
  <2> HIDE DEF x
  <2>8. b[x + 1] = b[x] + BytesOf(t[x]) /\ b[x] \in Nat /\ b[p] \in Nat /\ BytesOf(t[x]) \in Nat
    BY <1>1, <1>5, <2>7, Bytes
  <2> QED
    BY <2>2, <2>5, <2>6, <2>7, <2>8 DEF x
<1>7. \A k \in 1 .. n + 1 : c[k] = b[p + k - 1] - b[p]
  BY <1>6
<1> QED
  BY <1>2, <1>3, <1>7 DEF u, c, n

\* The first character of a group's name that is not allowed there
LEMMA NonAsciiPlace ==
  ASSUME TilesInv, NEW o \in DOMAIN tokens, tokens[o].token = "Identifier",
         BadUnits(tokens[o].units) # {}
  PROVE  Place(NonAsciiName(tokens[o]))
<1> DEFINE l == Len(text)
           token == tokens[o]
           B == BadUnits(token.units)
           bad == CHOOSE i \in B : \A j \in B : i <= j
           e == NonAsciiName(token)
<1>1. text \in Texts /\ Positions(text, begin) /\ l \in Nat
  BY BeginsPositions, TextLen DEF TilesInv
<1>2. PICK p \in 1 .. l + 1, q \in 1 .. l + 1 :
        token.start = begin[p] /\ p <= q /\ token.units = SubSeq(text, p, q - 1)
  BY DEF TilesInv, Tile
<1> DEFINE u == SubSeq(text, p, q - 1)
           n == q - p
<1>3. /\ DOMAIN u = 1 .. n
      /\ \A k \in 1 .. n : u[k] = text[p + k - 1]
      /\ \A k \in 1 .. n + 1 : Begins(u)[k] = begin[p + k - 1] - begin[p]
  BY <1>1, <1>2, PartPositions
<1>4. bad \in 1 .. n
  <2>1. B \subseteq 1 .. n /\ B # {} /\ B \subseteq Nat
    BY <1>2, <1>3 DEF BadUnits
  <2> HIDE DEF B
  <2>2. \E i \in B : \A j \in B : i <= j
    BY <2>1, Least
  <2>3. bad \in B
    BY <2>2
  <2> QED
    BY <2>1, <2>3
<1> HIDE DEF bad, u, n, token, l
<1> DEFINE x == p + bad - 1
<1>5. x \in 1 .. l /\ x \in 1 .. l + 1 /\ x + 1 \in 1 .. l + 1 /\ bad \in 1 .. n + 1
  <2>1. p \in Nat /\ q \in Nat /\ q <= l + 1 /\ p >= 1
    BY <1>1, <1>2
  <2> QED
    BY <1>1, <1>4, <2>1 DEF n
<1>6. /\ begin[x] \in Nat /\ begin[p] \in Nat /\ begin[x + 1] = begin[x] + BytesOf(text[x])
      /\ BytesOf(text[x]) \in Nat \ {0}
  BY <1>1, <1>2, <1>5, Bytes DEF Positions, l
<1> HIDE DEF x
<1>7. Begins(token.units)[bad] = begin[x] - begin[p] /\ token.units[bad] = text[x]
  BY <1>2, <1>3, <1>4, <1>5 DEF u, x
<1>8. e.start = token.start + Begins(token.units)[bad] /\ e.end = e.start + BytesOf(token.units[bad])
  BY DEF NonAsciiName, bad, token
<1>0. e.kind \notin HelpKinds
  BY DEF NonAsciiName, HelpKinds
<1> HIDE DEF e
<1>9. e.start = begin[x] /\ e.end = begin[x + 1] /\ e.start < e.end
  BY <1>2, <1>6, <1>7, <1>8
<1>10. UnitAt(begin, begin[x]) = x /\ UnitAt(begin, begin[x + 1]) = x + 1 /\ x # 0 /\ x + 1 # 0
  BY <1>1, <1>5, UnitFound DEF l
<1>11. Place(e)
  BY <1>0, <1>9, <1>10 DEF Place, AtCharacter
<1> QED
  BY <1>11 DEF e, token

-----------------------------------------------------------------------------
(***************************************************************************)
(* The errors of the lexer, one for each error token                       *)
(***************************************************************************)
UpTo(S, m) == {j \in S : j <= m}

\* Every number up to the number of elements is that of some element
LEMMA Numbered ==
  ASSUME NEW n \in Nat, NEW S \in SUBSET (1 .. n), NEW v \in 1 .. Cardinality(S)
  PROVE  \E i \in S : Cardinality(UpTo(S, i)) = v
<1> DEFINE Count(m) == Cardinality(UpTo(S, m))
           T == {m \in 0 .. n : v <= Count(m)}
<1>0. \A j \in S : j \in Nat /\ 1 <= j /\ j <= n
  OBVIOUS
<1>u. \A m : \A j : j \in UpTo(S, m) <=> j \in S /\ j <= m
  BY Zenon DEF UpTo
<1> HIDE DEF UpTo
<1>1. \A m : IsFiniteSet(UpTo(S, m)) /\ Count(m) \in Nat
  <2> SUFFICES ASSUME NEW m PROVE IsFiniteSet(UpTo(S, m)) /\ Count(m) \in Nat
    OBVIOUS
  <2>1. IsFiniteSet(1 .. n)
    <3>1. 1 \in Int /\ n \in Int
      OBVIOUS
    <3> QED
      BY <3>1, FS_Interval
  <2>2. UpTo(S, m) \in SUBSET (1 .. n)
    BY Zenon DEF UpTo
  <2> QED
    BY <2>1, <2>2, FS_Subset, FS_CardinalityType
<1>2. Count(0) = 0
  <2>1. \A j : j \notin UpTo(S, 0)
    <3>1. \A j \in S : ~(j <= 0)
      BY <1>0
    <3> QED
      BY <1>u, <3>1, Zenon
  <2>2. UpTo(S, 0) = {}
    BY <2>1
  <2> QED
    BY <2>2, FS_EmptySet
<1>3. Count(n) = Cardinality(S)
  <2>1. UpTo(S, n) = S
    BY <1>0, Zenon DEF UpTo
  <2> QED
    BY <2>1
<1>4. \A m \in Nat : Count(m + 1) = Count(m) + (IF m + 1 \in S THEN 1 ELSE 0)
  <2> SUFFICES ASSUME NEW m \in Nat
               PROVE  Count(m + 1) = Count(m) + (IF m + 1 \in S THEN 1 ELSE 0)
    OBVIOUS
  <2>1. CASE m + 1 \in S
    <3>0. (\A j \in S : j <= m + 1 <=> j <= m \/ j = m + 1) /\ m + 1 <= m + 1
      BY <1>0
    <3>1. \A j : j \in UpTo(S, m + 1) <=> j \in UpTo(S, m) \/ j = m + 1
      BY <1>u, <2>1, <3>0, Zenon
    <3>2. UpTo(S, m + 1) = UpTo(S, m) \cup {m + 1}
      BY <3>1
    <3>3. m + 1 \notin UpTo(S, m)
      <4>1. ~(m + 1 <= m)
        OBVIOUS
      <4> QED
        BY <1>u, <4>1, Zenon
    <3> QED
      BY <1>1, <2>1, <3>2, <3>3, FS_AddElement
  <2>2. CASE m + 1 \notin S
    <3>0. \A j \in S : j <= m + 1 <=> j <= m
      BY <1>0, <2>2
    <3>3. \A j : j \in UpTo(S, m + 1) <=> j \in UpTo(S, m)
      BY <1>u, <3>0, Zenon
    <3>1. UpTo(S, m + 1) = UpTo(S, m)
      BY <3>3, Zenon DEF UpTo
    <3> HIDE DEF Count
    <3>2. Count(m + 1) = Count(m)
      BY <3>1 DEF Count
    <3> QED
      BY <1>1, <2>2, <3>2
  <2> QED
    BY <2>1, <2>2
<1>5. v \in Nat /\ 1 <= v /\ v <= Count(n)
  <2> HIDE DEF Count
  <2>1. Cardinality(S) \in Nat
    BY <1>1, <1>3
  <2> QED
    BY <1>3, <2>1
<1> HIDE DEF Count
<1>6. PICK m \in T : \A k \in T : m <= k
  <2>1. T \subseteq Nat /\ n \in T
    BY <1>5
  <2> HIDE DEF T
  <2> QED
    BY <2>1, Least
<1>7. m # 0 /\ m \in 0 .. n /\ v <= Count(m)
  BY <1>2, <1>5
<1>8. m - 1 \in Nat /\ m - 1 \in 0 .. n /\ m - 1 + 1 = m /\ ~(m <= m - 1)
  BY <1>7
<1>9. ~(v <= Count(m - 1))
  BY <1>6, <1>8
<1>10. Count(m - 1) \in Nat /\ Count(m) = Count(m - 1) + (IF m \in S THEN 1 ELSE 0)
  BY <1>1, <1>4, <1>8
<1>11. m \in S /\ Count(m) = v
  BY <1>5, <1>7, <1>9, <1>10
<1> QED
  BY <1>11 DEF Count

LEMMA LexErrorsPlaced ==
  ASSUME TilesInv, EndLexing, NEW k \in DOMAIN errors'
  PROVE  Place(errors'[k]) /\ errors'[k].kind \notin HelpKinds
<1> DEFINE found == {i \in DOMAIN tokens : IsErrorToken(tokens[i])}
           n == Len(tokens)
           Nth(v) == CHOOSE i \in found : Cardinality({j \in found : j <= i}) = v
<1>1. n \in Nat /\ DOMAIN tokens = 1 .. n /\ found \in SUBSET (1 .. n)
  BY StackLen DEF TilesInv
<1>2. errors' = [v \in 1 .. Cardinality(found) |-> LexError(tokens[Nth(v)])]
  BY DEF EndLexing
<1> HIDE DEF found, n
<1>3. k \in 1 .. Cardinality(found) /\ errors'[k] = LexError(tokens[Nth(k)])
  BY <1>2
<1>4. \E i \in found : Cardinality({j \in found : j <= i}) = k
  BY <1>1, <1>3, Numbered DEF UpTo
<1>5. Nth(k) \in DOMAIN tokens /\ IsErrorToken(tokens[Nth(k)])
  BY <1>1, <1>4 DEF found
<1> HIDE DEF Nth
<1> DEFINE i == Nth(k)
           e == LexError(tokens[i])
<1>6. i \in 1 .. Len(tokens) /\ i <= i
  BY <1>1, <1>5 DEF n
<1>7. e.start = tokens[i].start /\ e.end = tokens[i].end /\ e.kind \notin HelpKinds
  <2>1. LexError(tokens[i]).kind \notin HelpKinds
    BY <1>5 DEF LexError, ErrorAt, HelpKinds, IsErrorToken, LexErrors, GroupErrors, BackslashErrors
  <2> QED
    BY <2>1 DEF LexError, ErrorAt
<1> HIDE DEF i, e
<1>8. Placed(tokens, e)
  <2>1. Helps(tokens, e.kind, i, i)
    BY <1>7 DEF Helps, HelpKinds
  <2> QED
    BY <1>6, <1>7, <2>1 DEF Placed
<1> QED
  BY <1>3, <1>7, <1>8, PlacedHasPlace DEF e, i

LEMMA GroupKindOutcome ==
  ASSUME TilesInv, Ended(tokens), NEW o \in 1 .. Len(tokens)
  PROVE  LET r == GroupKind(o) IN
         /\ r.is = "failed" => Place(r.error)
         /\ r.is # "failed" => r.at \in o .. Len(tokens)
<1> DEFINE r == GroupKind(o)
           name == tokens[o + 1]
<1>0. o \in Nat /\ Len(tokens) \in Nat /\ DOMAIN tokens = 1 .. Len(tokens)
  BY StackLen DEF TilesInv
<1>1. CASE IsReserved(tokens, o, "atomic")
  <2>1. o + 1 \in 1 .. Len(tokens)
    BY <1>1, NotLast DEF IsReserved, Is
  <2>2. r.is = "found" /\ r.at = o + 1
    BY <1>1 DEF GroupKind, Found
  <2> QED
    BY <1>0, <2>1, <2>2
<1>2. CASE ~IsReserved(tokens, o, "atomic") /\ ~Is(tokens, o, "Colon")
  <2>1. r.is = "found" /\ r.at = o
    BY <1>2 DEF GroupKind, Found
  <2> QED
    BY <1>0, <2>1
<1>3. CASE ~IsReserved(tokens, o, "atomic") /\ Is(tokens, o, "Colon")
  <2>1. o + 1 \in 1 .. Len(tokens)
    BY <1>3, NotLast DEF Is
  <2>2. \A kind : kind \notin HelpKinds => Place(ErrorAt(kind, name))
    <3>2. o + 1 <= o + 1
      BY <1>0
    <3>3. \A kind : kind \notin HelpKinds => Placed(tokens, ErrorAt(kind, name))
      BY <2>1, <3>2, ErrorsPlaced
    <3> QED
      BY <3>3, PlacedHasPlace
  <2>3. CASE name.token = "ReservedName"
    <3>1. r = Failed(o, ErrorAt("KeywordAfterColon", name))
      BY <1>3, <2>3, Zenon DEF GroupKind
    <3> QED
      BY <2>2, <3>1 DEF Failed, HelpKinds
  <2>4. CASE name.token \notin {"ReservedName", "Identifier"}
    <3>1. r = Found(o + 1, <<"Capturing", <<>>>>)
      BY <1>3, <2>4, Zenon DEF GroupKind
    <3> QED
      BY <1>0, <2>1, <3>1 DEF Found
  <2>5. CASE name.token = "Identifier"
    <3>1. o + 2 \in 1 .. Len(tokens)
      BY <1>0, <2>1, <2>5, NotLast
    <3>2. \/ BadUnits(name.units) # {} /\ r = Failed(o, NonAsciiName(name))
          \/ r = Failed(o, ErrorAt("GroupNameTooLong", name))
          \/ r = Found(o + 2, <<"Capturing", name.units>>)
      BY <1>3, <2>5 DEF GroupKind
    <3>3. BadUnits(name.units) # {} => Place(NonAsciiName(name))
      BY <1>0, <2>1, <2>5, NonAsciiPlace
    <3> QED
      BY <1>0, <2>2, <3>1, <3>2, <3>3 DEF Found, Failed, HelpKinds
  <2> QED
    BY <2>3, <2>4, <2>5
<1> QED
  BY <1>1, <1>2, <1>3

-----------------------------------------------------------------------------
(***************************************************************************)
(* The tokens that the frames and the nodes refer to.  The tree has n      *)
(* nodes, there are m tokens, the next one is o, and the frame below has   *)
(* met the number `nots` of `!`.                                           *)
(***************************************************************************)
Fields == {"fn", "items", "fixes", "from", "nots"}
FramePlaced(f, nots, n, m, o) ==
  /\ Fields \subseteq DOMAIN f
  /\ f.items # <<>> => o > 1
  /\ f.fn = "modified" => IsStack(f.items) /\ \A i \in DOMAIN f.items : f.items[i] \in 1 .. n
  /\ f.fn = "or" => f.from \in 0 .. m
  /\ f.fn = "let" => f.from \in 1 .. m
  /\ f.fn \in {"group", "lookaround"} =>
       f.from \in 1 .. m /\ nots \in Nat /\ f.from + nots \in 1 .. m

NotsBelow(s, k) == IF k = 1 THEN 0 ELSE s[k - 1].nots
StackPlaced(s, n, m, o) ==
  IsStack(s) /\ \A k \in DOMAIN s : FramePlaced(s[k], NotsBelow(s, k), n, m, o)

NodePlaced(node, m) ==
  {"kind", "value"} \subseteq DOMAIN node /\ (node.kind = "let" => node.value[2] \in 1 .. m)
TreePlaced(ns, m) == IsStack(ns) /\ \A i \in DOMAIN ns : NodePlaced(ns[i], m)

LEMMA FrameGrows ==
  ASSUME NEW f, NEW nots, NEW n \in Nat, NEW m, NEW o \in Nat, FramePlaced(f, nots, n, m, o),
         NEW n1 \in Nat, n <= n1, NEW o1 \in Nat, o <= o1
  PROVE  FramePlaced(f, nots, n1, m, o1)
<1>1. f.items # <<>> => o1 > 1
  BY DEF FramePlaced
<1>2. \A i : i \in 1 .. n => i \in 1 .. n1
  OBVIOUS
<1> QED
  BY <1>1, <1>2, Zenon DEF FramePlaced

LEMMA StackGrows ==
  ASSUME NEW s, NEW n \in Nat, NEW m, NEW o \in Nat, StackPlaced(s, n, m, o),
         NEW n1 \in Nat, n <= n1, NEW o1 \in Nat, o <= o1
  PROVE  StackPlaced(s, n1, m, o1)
<1> QED
  BY FrameGrows DEF StackPlaced

LEMMA FramePushed ==
  ASSUME NEW s, NEW n, NEW m, NEW o, StackPlaced(s, n, m, o),
         NEW f, FramePlaced(f, NotsBelow(s, Len(s) + 1), n, m, o)
  PROVE  StackPlaced(Append(s, f), n, m, o)
<1> DEFINE t == Append(s, f)
           l == Len(s)
<1>1. /\ IsStack(t) /\ l \in Nat /\ DOMAIN s = 1 .. l /\ DOMAIN t = 1 .. l + 1
      /\ t[l + 1] = f /\ \A k \in 1 .. l : t[k] = s[k]
  BY Appended, StackLen DEF StackPlaced
<1>2. FramePlaced(f, NotsBelow(s, l + 1), n, m, o)
  OBVIOUS
<1> HIDE DEF t, l
<1> SUFFICES ASSUME NEW k \in 1 .. l + 1 PROVE FramePlaced(t[k], NotsBelow(t, k), n, m, o)
  BY <1>1 DEF StackPlaced, t
<1>3. NotsBelow(t, k) = NotsBelow(s, k)
  <2>1. k = 1 \/ k - 1 \in 1 .. l
    BY <1>1
  <2> QED
    BY <1>1, <2>1 DEF NotsBelow
<1>4. CASE k = l + 1
  BY <1>1, <1>2, <1>3, <1>4
<1>5. CASE k # l + 1
  <2>1. k \in 1 .. l
    BY <1>1, <1>5
  <2>2. FramePlaced(s[k], NotsBelow(s, k), n, m, o)
    BY <1>1, <2>1 DEF StackPlaced
  <2> QED
    BY <1>1, <1>3, <2>1, <2>2
<1> QED
  BY <1>4, <1>5

LEMMA FramePopped ==
  ASSUME NEW s, NEW n, NEW m, NEW o, StackPlaced(s, n, m, o), s # <<>>
  PROVE  /\ StackPlaced(SubSeq(s, 1, Len(s) - 1), n, m, o)
         /\ FramePlaced(s[Len(s)], NotsBelow(s, Len(s)), n, m, o)
         /\ NotsBelow(SubSeq(s, 1, Len(s) - 1), Len(SubSeq(s, 1, Len(s) - 1)) + 1) = NotsBelow(s, Len(s))
         /\ Len(SubSeq(s, 1, Len(s) - 1)) = Len(s) - 1 /\ Len(s) \in Nat \ {0}
<1> DEFINE t == SubSeq(s, 1, Len(s) - 1)
           l == Len(s)
<1>1. /\ IsStack(s) /\ l \in Nat \ {0} /\ DOMAIN s = 1 .. l
      /\ IsStack(t) /\ Len(t) = l - 1 /\ \A k \in 1 .. l - 1 : t[k] = s[k]
  BY StackLen, Popped DEF StackPlaced
<1>2. DOMAIN t = 1 .. l - 1
  BY <1>1, StackLen
<1> HIDE DEF t, l
<1>3. \A k \in 1 .. l : FramePlaced(s[k], NotsBelow(s, k), n, m, o)
  BY <1>1 DEF StackPlaced
<1>4. ASSUME NEW k \in 1 .. l - 1
      PROVE  FramePlaced(t[k], NotsBelow(t, k), n, m, o)
  <2>1. k \in 1 .. l /\ (k = 1 \/ k - 1 \in 1 .. l - 1)
    BY <1>1
  <2>2. NotsBelow(t, k) = NotsBelow(s, k)
    BY <1>1, <2>1 DEF NotsBelow
  <2> QED
    BY <1>1, <1>3, <2>1, <2>2
<1>5. l \in 1 .. l
  BY <1>1
<1>6. NotsBelow(t, l) = NotsBelow(s, l) /\ Len(t) + 1 = l
  <2>1. l = 1 \/ l - 1 \in 1 .. l - 1
    BY <1>1
  <2> QED
    BY <1>1, <2>1 DEF NotsBelow
<1> QED
  BY <1>1, <1>2, <1>3, <1>4, <1>5, <1>6 DEF StackPlaced, t, l

\* The tree grows, and a node is negated
LEMMA NodeAdded ==
  ASSUME NEW ns, NEW m, TreePlaced(ns, m), NEW node, NodePlaced(node, m)
  PROVE  /\ TreePlaced(Append(ns, node), m)
         /\ Len(ns) \in Nat /\ Len(Append(ns, node)) = Len(ns) + 1
<1> DEFINE t == Append(ns, node)
           l == Len(ns)
<1>1. /\ IsStack(t) /\ l \in Nat /\ DOMAIN ns = 1 .. l /\ DOMAIN t = 1 .. l + 1 /\ Len(t) = l + 1
      /\ t[l + 1] = node /\ \A k \in 1 .. l : t[k] = ns[k]
  BY Appended, StackLen DEF TreePlaced
<1> HIDE DEF t, l
<1>2. ASSUME NEW i \in 1 .. l + 1
      PROVE  NodePlaced(t[i], m)
  <2>1. i = l + 1 \/ i \in 1 .. l
    BY <1>1
  <2> QED
    BY <1>1, <2>1 DEF TreePlaced
<1> QED
  BY <1>1, <1>2 DEF TreePlaced, t, l

LEMMA NodeNegated ==
  ASSUME NEW ns, NEW m, TreePlaced(ns, m), NEW n, NEW nots
  PROVE  TreePlaced(Negated(ns, n, nots), m) /\ Len(Negated(ns, n, nots)) = Len(ns)
<1> DEFINE x == NegationTarget(ns, n)
           node == [ns[x] EXCEPT !.negative = TRUE]
           t == [ns EXCEPT ![x].negative = TRUE]
           l == Len(ns)
<1>1. CASE nots = 0
  BY <1>1 DEF Negated
<1>2. CASE nots # 0
  <2>1. Negated(ns, n, nots) = t
    BY <1>2, Zenon DEF Negated
  <2> DEFINE S == {ns[i] : i \in 1 .. l} \cup {node}
  <2>2. /\ l \in Nat /\ DOMAIN ns = 1 .. l /\ IsStack(ns)
        /\ \A i \in 1 .. l : NodePlaced(ns[i], m)
    BY StackLen DEF TreePlaced
  <2>3. ns \in [1 .. l -> {ns[i] : i \in 1 .. l}]
    BY <2>2, LenProperties DEF IsStack
  <2>4. /\ DOMAIN t = 1 .. l /\ \A i \in 1 .. l : t[i] = IF i = x THEN node ELSE ns[i]
        /\ t \in [1 .. l -> S]
    <3> HIDE DEF x, l
    <3> QED
      BY <2>2, <2>3
  <2> HIDE DEF t, S, l
  <2>5. t \in Seq(S)
    BY <2>2, <2>4, SeqDef
  <2>6. IsStack(t) /\ Len(t) = l
    <3>1. IsStack(t)
      BY <2>5, StackOf
    <3>2. Len(t) \in Nat /\ DOMAIN t = 1 .. Len(t)
      BY <3>1, StackLen
    <3>3. Len(t) = l
      BY <2>2, <2>4, <3>2
    <3> QED
      BY <3>1, <3>3
  <2>7. x \in 1 .. l => NodePlaced(node, m)
    <3>1. ASSUME NodePlaced(ns[x], m) PROVE NodePlaced(node, m)
      <4> DEFINE f == ns[x]
      <4>1. NodePlaced(f, m) /\ node = [f EXCEPT !.negative = TRUE]
        BY <3>1
      <4> HIDE DEF f, node
      <4> QED
        BY <4>1 DEF NodePlaced
    <3> QED
      BY <2>2, <3>1
  <2> HIDE DEF x, node
  <2>8. \A i \in 1 .. l : NodePlaced(t[i], m)
    BY <2>2, <2>4, <2>7
  <2> QED
    BY <2>1, <2>4, <2>6, <2>8 DEF TreePlaced, l
<1> QED
  BY <1>1, <1>2

\* Lists of nodes that are no lets
LEMMA NodesAdded ==
  ASSUME NEW ns, NEW m, TreePlaced(ns, m), NEW list, TreePlaced(list, m)
  PROVE  /\ TreePlaced(ns \o list, m)
         /\ Len(ns \o list) = Len(ns) + Len(list) /\ Len(ns) \in Nat /\ Len(list) \in Nat
<1> DEFINE t == ns \o list
           k == Len(ns)
           l == Len(list)
<1>1. /\ IsStack(t) /\ Len(t) = k + l /\ k \in Nat /\ l \in Nat
      /\ DOMAIN ns = 1 .. k /\ DOMAIN list = 1 .. l /\ DOMAIN t = 1 .. k + l
      /\ \A i \in 1 .. k : t[i] = ns[i]
      /\ \A i \in 1 .. l : t[k + i] = list[i]
  BY Concatenated DEF TreePlaced
<1> HIDE DEF t, k, l
<1>2. \A i \in 1 .. k : NodePlaced(ns[i], m)
  BY <1>1 DEF TreePlaced
<1>3. \A i \in 1 .. l : NodePlaced(list[i], m)
  BY <1>1 DEF TreePlaced
<1>4. ASSUME NEW i \in 1 .. k + l
      PROVE  NodePlaced(t[i], m)
  <2>1. CASE i \in 1 .. k
    BY <1>1, <1>2, <2>1
  <2>2. CASE i \notin 1 .. k
    <3>1. i - k \in 1 .. l /\ k + (i - k) = i
      BY <1>1, <2>2
    <3> QED
      BY <1>1, <1>3, <3>1
  <2> QED
    BY <2>1, <2>2
<1> QED
  BY <1>1, <1>4 DEF TreePlaced, t, k, l

LEMMA NodeIsPlaced ==
  ASSUME NEW kind, kind # "let", NEW kids, NEW value, NEW m
  PROVE  NodePlaced(Node(kind, kids, value), m)
  BY DEF NodePlaced, Node

\* What a step does to a frame
LEMMA FrameChanged ==
  ASSUME NEW f, NEW nots, NEW n, NEW m, NEW o, FramePlaced(f, nots, n, m, o), NEW x
  PROVE  /\ FramePlaced([f EXCEPT !.fixes = x], nots, n, m, o)
         /\ FramePlaced([f EXCEPT !.nots = x], nots, n, m, o)
<1> DEFINE g == [f EXCEPT !.fixes = x]
           h == [f EXCEPT !.nots = x]
<1>1. Fields \subseteq DOMAIN f
  BY DEF FramePlaced
<1>2. /\ Fields \subseteq DOMAIN g /\ g.fn = f.fn /\ g.items = f.items /\ g.from = f.from
      /\ Fields \subseteq DOMAIN h /\ h.fn = f.fn /\ h.items = f.items /\ h.from = f.from
      /\ h.nots = x
  BY <1>1 DEF Fields
<1> HIDE DEF g, h
<1> QED
  BY <1>2, Zenon DEF FramePlaced, g, h

LEMMA NewFrame ==
  ASSUME NEW fn \in Functions, NEW from, NEW tag, NEW nots, NEW n, NEW m \in Nat, NEW o,
         fn = "or" => from \in 0 .. m, fn = "let" => from \in 1 .. m,
         fn \in {"group", "lookaround"} =>
           from \in 1 .. m /\ nots \in Nat /\ from + nots \in 1 .. m
  PROVE  FramePlaced(Frame(fn, from, tag), nots, n, m, o)
<1> DEFINE f == Frame(fn, from, tag)
<1>1. Fields \subseteq DOMAIN f /\ f.fn = fn /\ f.items = <<>> /\ f.from = from
  BY DEF Frame, Fields
<1>2. IsStack(<<>>) /\ \A i \in DOMAIN <<>> : FALSE
  <2>1. <<>> \in Seq({})
    BY EmptySeq
  <2>2. IsStack(<<>>)
    BY <2>1, StackOf
  <2>3. \A i \in DOMAIN <<>> : FALSE
    OBVIOUS
  <2> QED
    BY <2>2, <2>3
<1> HIDE DEF f
<1>3. FramePlaced(f, nots, n, m, o)
  BY <1>1, <1>2, Zenon DEF FramePlaced
<1> QED
  BY <1>3 DEF f

-----------------------------------------------------------------------------
(***************************************************************************)
(* Every error has a place                                                 *)
(***************************************************************************)
PlacesInv ==
  /\ stage = "lexing" => nodes = <<>> /\ at = 1
  /\ stage = "parsing" =>
       /\ Ended(tokens) /\ at \in 1 .. Len(tokens)
       /\ TreePlaced(nodes, Len(tokens))
       /\ StackPlaced(stack, Len(nodes), Len(tokens), at)
  /\ stage = "rejected" => \A i \in DOMAIN errors : Place(errors[i])

LEMMA FailPlaced ==
  ASSUME TilesInv, NEW e, Place(e) \/ Placed(tokens, e), Fail(e)
  PROVE  PlacesInv'
<1>1. Place(e)
  BY PlacedHasPlace
<1>2. stage' = "rejected" /\ errors' = <<e>> /\ text' = text /\ begin' = begin /\ tokens' = tokens
  BY DEF Fail, lexVars
<1>3. \A i \in DOMAIN errors' : errors'[i] = e
  BY <1>2
<1>4. Place(e)'
  BY <1>1, <1>2 DEF Place, AtCharacter, Placed, Helps
<1> QED
  BY <1>2, <1>3, <1>4 DEF PlacesInv, Place, AtCharacter

LEMMA FailAt ==
  ASSUME TilesInv, Ended(tokens), NEW i \in 1 .. Len(tokens), NEW kind, kind \notin HelpKinds,
         Fail(ErrorAt(kind, tokens[i]))
  PROVE  PlacesInv'
<1>1. i <= i
  OBVIOUS
<1>2. Placed(tokens, ErrorAt(kind, tokens[i]))
  BY <1>1, ErrorsPlaced
<1>3. \E e : Placed(tokens, e) /\ Fail(e)
  BY <1>2
<1> QED
  BY <1>3, FailPlaced

LEMMA Continues ==
  ASSUME PlacesInv, stage = "parsing", stage' = "parsing", tokens' = tokens,
         at' \in 1 .. Len(tokens), TreePlaced(nodes', Len(tokens)),
         StackPlaced(stack', Len(nodes'), Len(tokens), at')
  PROVE  PlacesInv'
  BY DEF PlacesInv, Ended, TreePlaced, StackPlaced, NodePlaced, FramePlaced, NotsBelow, IsStack

LEMMA CallOrPlaced ==
  ASSUME TilesInv, PlacesInv, stage = "parsing",
         NEW frames, StackPlaced(frames, Len(nodes), Len(tokens), at),
         NEW o \in at .. Len(tokens), CallOr(frames, o)
  PROVE  PlacesInv'
<1> DEFINE m == Len(tokens)
           n == Len(nodes)
           f == Frame("or", IF Is(tokens, o, "Pipe") THEN o ELSE 0, <<>>)
<1>1. /\ Ended(tokens) /\ at \in 1 .. m /\ m \in Nat /\ TreePlaced(nodes, m) /\ o \in 1 .. m
      /\ n \in Nat
  BY StackLen DEF PlacesInv, Ended, TreePlaced
<1>2. CASE recursion = 0
  BY <1>1, <1>2, FailAt DEF CallOr, HelpKinds
<1>3. CASE recursion # 0
  <2>1. /\ at' = After(tokens, o, "Pipe") /\ stack' = Append(frames, f) /\ nodes' = nodes
        /\ stage' = stage /\ tokens' = tokens
    BY <1>3 DEF CallOr, Going, lexVars
  <2>2. at' \in 1 .. m /\ at <= at' /\ at' \in Nat /\ at \in Nat
    <3>1. Is(tokens, o, "Pipe") => o + 1 \in 1 .. m
      BY <1>1, NotLast DEF Is
    <3> HIDE DEF m
    <3> QED
      BY <1>1, <2>1, <3>1 DEF After, m
  <2>3. \A nots : FramePlaced(f, nots, n, m, at)
    <3>1. (IF Is(tokens, o, "Pipe") THEN o ELSE 0) \in 0 .. m
      BY <1>1
    <3> HIDE DEF m
    <3> QED
      BY <1>1, <3>1, NewFrame DEF Functions
  <2> HIDE DEF f
  <2>4. StackPlaced(Append(frames, f), n, m, at)
    BY <2>3, FramePushed
  <2>5. n <= n
    BY <1>1
  <2> HIDE DEF m, n
  <2>6. StackPlaced(Append(frames, f), n, m, at')
    BY <1>1, <2>2, <2>4, <2>5, StackGrows
  <2> QED
    BY <1>1, <2>1, <2>2, <2>6, Continues DEF n, m
<1> QED
  BY <1>2, <1>3

LEMMA CallModifiedPlaced ==
  ASSUME TilesInv, PlacesInv, stage = "parsing", stack # <<>>,
         FixAt \in at .. Len(tokens),
         NEW fn \in {"group", "lookaround"}, NEW tag,
         NEW o \in FixAt .. Len(tokens), CallModified(fn, tag, o)
  PROVE  PlacesInv'
<1> DEFINE m == Len(tokens)
           n == Len(nodes)
<1>1. /\ Ended(tokens) /\ at \in 1 .. m /\ m \in Nat /\ TreePlaced(nodes, m) /\ n \in Nat
      /\ StackPlaced(stack, n, m, at)
  BY StackLen DEF PlacesInv, Ended, TreePlaced
<1> DEFINE nots == FixAt - at
<1>2. at \in Nat /\ nots \in Nat /\ at + nots \in 1 .. m /\ o \in at .. m /\ o \in 1 .. m
  <2>1. FixAt \in at .. m /\ o \in FixAt .. m
    OBVIOUS
  <2> HIDE DEF m
  <2> QED
    BY <1>1, <2>1
<1> HIDE DEF nots
<1>3. CASE recursion = 0
  BY <1>1, <1>2, <1>3, FailAt DEF CallModified, HelpKinds
<1>4. CASE recursion # 0
  <2> DEFINE caller == [Top EXCEPT !.nots = nots]
             f == Frame(fn, at, tag)
             block == Frame("modified", 0, <<>>)
             s == SubSeq(stack, 1, Len(stack) - 1)
             s0 == Append(s, caller)
             s1 == Append(s0, f)
             s2 == Append(s1, block)
  <2>1. /\ stack' = s0 \o <<f, block>> /\ at' = o /\ nodes' = nodes
        /\ stage' = stage /\ tokens' = tokens
    BY <1>4 DEF CallModified, Going, Replaced, Below, nots, lexVars
  <2>2. /\ StackPlaced(s, n, m, at)
        /\ FramePlaced(Top, NotsBelow(s, Len(s) + 1), n, m, at)
    BY <1>1, FramePopped DEF Top
  <2>3. FramePlaced(caller, NotsBelow(s, Len(s) + 1), n, m, at) /\ caller.nots = nots
    <3>1. "nots" \in DOMAIN Top
      BY <2>2 DEF FramePlaced, Fields
    <3> HIDE DEF s, m, n
    <3> QED
      BY <2>2, <3>1, FrameChanged
  <2>4. \A x : FramePlaced(block, x, n, m, at)
    <3> HIDE DEF m, n
    <3> QED
      BY <1>1, NewFrame DEF Functions
  <2> HIDE DEF caller, block, s
  <2>5. /\ StackPlaced(s0, n, m, at) /\ IsStack(s0) /\ Len(s0) \in Nat \ {0} /\ s0[Len(s0)] = caller
    <3>1. StackPlaced(s0, n, m, at)
      BY <2>2, <2>3, FramePushed
    <3>2. IsStack(s)
      BY <2>2 DEF StackPlaced
    <3>3. IsStack(s0) /\ Len(s0) = Len(s) + 1 /\ s0[Len(s) + 1] = caller /\ Len(s) \in Nat
      BY <3>2, Appended, StackLen
    <3> HIDE DEF s0
    <3> QED
      BY <3>1, <3>3
  <2> HIDE DEF s0
  <2>6. FramePlaced(f, NotsBelow(s0, Len(s0) + 1), n, m, at)
    <3>1. NotsBelow(s0, Len(s0) + 1) = nots
      BY <2>3, <2>5 DEF NotsBelow
    <3> HIDE DEF m, n
    <3> QED
      BY <1>1, <1>2, <3>1, NewFrame DEF Functions
  <2> HIDE DEF f
  <2>7. StackPlaced(s1, n, m, at)
    BY <2>5, <2>6, FramePushed
  <2> HIDE DEF s1
  <2>8. StackPlaced(s2, n, m, at)
    BY <2>4, <2>7, FramePushed
  <2>9. stack' = s2
    <3> DEFINE S == {s0[k] : k \in DOMAIN s0} \cup {f, block}
    <3>1. s0 \in Seq(S) /\ f \in S /\ block \in S
      BY <2>5, SeqMonotonic DEF IsStack
    <3> HIDE DEF S
    <3>2. s0 \o <<f, block>> = Append(Append(s0, f), block)
      BY <3>1
    <3> QED
      BY <2>1, <3>2 DEF s1
  <2> HIDE DEF s2
  <2>10. o \in Nat /\ at <= o /\ n <= n
    <3> HIDE DEF m, n
    <3> QED
      BY <1>1, <1>2
  <2> HIDE DEF m, n
  <2>11. StackPlaced(s2, n, m, o)
    BY <1>1, <1>2, <2>8, <2>10, StackGrows
  <2> QED
    BY <1>1, <1>2, <2>1, <2>9, <2>11, Continues DEF m, n
<1> QED
  BY <1>3, <1>4

\* `frame` on `frames` is the stack s of those who wait for the fix
LEMMA AddFixPlaced ==
  ASSUME TilesInv, PlacesInv, stage = "parsing",
         NEW s, StackPlaced(s, Len(nodes), Len(tokens), at), s # <<>>,
         NEW ns, TreePlaced(ns, Len(tokens)), Len(nodes) <= Len(ns),
         NEW o \in at .. Len(tokens), NEW left,
         NEW from \in 1 .. Len(tokens), NEW nots \in Nat, from + nots \in 1 .. Len(tokens),
         AddFix(ns, o, left, SubSeq(s, 1, Len(s) - 1), s[Len(s)], from, nots)
  PROVE  PlacesInv'
<1> DEFINE m == Len(tokens)
           n == Len(nodes)
<1>1. /\ Ended(tokens) /\ at \in 1 .. m /\ m \in Nat /\ n \in Nat /\ Len(ns) \in Nat
  BY StackLen DEF PlacesInv, Ended, TreePlaced
<1>2. CASE NotsError(ns, Len(ns), nots) # "none"
  <2> DEFINE e == Joined(NotsError(ns, Len(ns), nots), tokens[from], tokens[from + nots - 1])
  <2>1. from + nots - 1 \in 1 .. m /\ from <= from + nots - 1
    <3>1. nots # 0
      BY <1>2 DEF NotsError
    <3> HIDE DEF m
    <3> QED
      BY <1>1, <3>1 DEF m
  <2>2. Placed(tokens, e)
    <3>1. NotsError(ns, Len(ns), nots) \notin HelpKinds
      BY DEF NotsError, NegationError, HelpKinds
    <3> QED
      BY <1>1, <2>1, <3>1, ErrorsPlaced
  <2>3. \E x : Placed(tokens, x) /\ Fail(x)
    BY <1>2, <2>2 DEF AddFix
  <2> QED
    BY <2>3, FailPlaced
<1>3. CASE NotsError(ns, Len(ns), nots) = "none"
  <2> DEFINE t == SubSeq(s, 1, Len(s) - 1)
             f == [s[Len(s)] EXCEPT !.fixes = Append(@, Len(ns))]
             ns1 == Negated(ns, Len(ns), nots)
  <2>1. /\ stack' = Append(t, f) /\ at' = o /\ nodes' = ns1
        /\ stage' = stage /\ tokens' = tokens
    BY <1>3 DEF AddFix, Going, lexVars
  <2>2. /\ StackPlaced(t, n, m, at)
        /\ FramePlaced(s[Len(s)], NotsBelow(t, Len(t) + 1), n, m, at)
    BY FramePopped
  <2> HIDE DEF t
  <2>3. FramePlaced(f, NotsBelow(t, Len(t) + 1), n, m, at)
    BY <2>2, FrameChanged
  <2> HIDE DEF f
  <2>4. StackPlaced(Append(t, f), n, m, at)
    BY <2>2, <2>3, FramePushed
  <2>5. TreePlaced(ns1, m) /\ Len(ns1) = Len(ns)
    BY NodeNegated
  <2> HIDE DEF ns1
  <2>6. o \in Nat /\ at \in Nat /\ at <= o /\ o \in 1 .. m /\ n <= Len(ns1)
    <3> DEFINE l == Len(ns)
    <3>1. o \in at .. m /\ n <= l /\ l \in Nat
      BY <1>1
    <3> HIDE DEF m, n, l
    <3> QED
      BY <1>1, <2>5, <3>1 DEF l
  <2> HIDE DEF m, n
  <2>7. StackPlaced(Append(t, f), Len(ns1), m, o)
    BY <1>1, <2>4, <2>5, <2>6, StackGrows
  <2> QED
    BY <1>1, <2>1, <2>5, <2>6, <2>7, Continues DEF m, n
<1> QED
  BY <1>2, <1>3

LEMMA AddRepeatedPlaced ==
  ASSUME TilesInv, PlacesInv, stage = "parsing",
         NEW s, StackPlaced(s, Len(nodes), Len(tokens), at), s # <<>>,
         NEW ns, TreePlaced(ns, Len(tokens)), Len(nodes) <= Len(ns),
         NEW o \in at .. Len(tokens), NEW repetition, Outcome(tokens, o, repetition), NEW left,
         NEW from \in 1 .. Len(tokens), NEW nots \in Nat, from + nots \in 1 .. Len(tokens),
         AddRepeated(ns, repetition, left, SubSeq(s, 1, Len(s) - 1), s[Len(s)], from, nots)
  PROVE  PlacesInv'
<1> DEFINE m == Len(tokens)
           n == Len(nodes)
<1>1. Ended(tokens) /\ at \in 1 .. m /\ m \in Nat /\ n \in Nat /\ Len(ns) \in Nat
  BY StackLen DEF PlacesInv, Ended, TreePlaced
<1>2. CASE repetition.is = "failed"
  <2>1. Fail(repetition.error) /\ Placed(tokens, repetition.error)
    BY <1>2 DEF AddRepeated, Outcome, Fails
  <2>2. \E e : Placed(tokens, e) /\ Fail(e)
    BY <2>1
  <2> QED
    BY <2>2, FailPlaced
<1>3. CASE repetition.is # "failed"
  <2> DEFINE ns1 == Repeated(ns, repetition)
             o1 == repetition.at
  <2>1. AddFix(ns1, o1, left, SubSeq(s, 1, Len(s) - 1), s[Len(s)], from, nots)
    BY <1>3 DEF AddRepeated
  <2>2. TreePlaced(ns1, m) /\ n <= Len(ns1)
    <3>1. CASE repetition.is # "found"
      BY <3>1 DEF Repeated
    <3>2. CASE repetition.is = "found"
      <4> DEFINE node == Node("repetition", <<Len(ns)>>, repetition.value)
      <4>1. ns1 = Append(ns, node)
        BY <3>2 DEF Repeated
      <4>2. NodePlaced(node, m)
        BY NodeIsPlaced
      <4> HIDE DEF node, ns1
      <4>3. TreePlaced(ns1, m) /\ Len(ns1) = Len(ns) + 1
        BY <4>1, <4>2, NodeAdded
      <4> DEFINE l == Len(ns)
      <4>4. n <= l /\ l \in Nat /\ Len(ns1) = l + 1
        BY <1>1, <4>3
      <4> HIDE DEF l, n
      <4>5. n <= l + 1
        BY <1>1, <4>4
      <4> QED
        BY <4>3, <4>4, <4>5
    <3> QED
      BY <3>1, <3>2
  <2>3. o1 \in at .. m
    <3>1. o1 = o \/ o1 \in o + 1 .. m
      BY <1>3 DEF Outcome, Fails
    <3>2. o \in at .. m
      OBVIOUS
    <3> HIDE DEF o1, m
    <3> QED
      BY <1>1, <3>1, <3>2
  <2> HIDE DEF ns1, o1
  <2> QED
    BY <2>1, <2>2, <2>3, AddFixPlaced
<1> QED
  BY <1>2, <1>3

LEMMA ReturnOrPlaced ==
  ASSUME TilesInv, PlacesInv, stage = "parsing", stack # <<>>,
         NEW ns, TreePlaced(ns, Len(tokens)), Len(nodes) <= Len(ns),
         NEW n, ReturnOr(ns, n)
  PROVE  PlacesInv'
<1> DEFINE m == Len(tokens)
           l == Len(nodes)
<1>1. /\ Ended(tokens) /\ at \in 1 .. m /\ m \in Nat /\ l \in Nat /\ Len(ns) \in Nat
      /\ StackPlaced(stack, l, m, at)
  BY StackLen DEF PlacesInv, Ended, TreePlaced
<1>2. /\ stack' = Below /\ at' = at /\ nodes' = ns /\ stage' = stage /\ tokens' = tokens
  BY DEF ReturnOr, Going, lexVars
<1>3. StackPlaced(Below, l, m, at)
  BY <1>1, FramePopped DEF Below
<1>4. at \in Nat /\ at <= at /\ l <= Len(ns)
  <2> HIDE DEF m
  <2> QED
    BY <1>1
<1> HIDE DEF m, l
<1>5. StackPlaced(Below, Len(ns), m, at)
  BY <1>1, <1>3, <1>4, StackGrows
<1> QED
  BY <1>1, <1>2, <1>5, Continues DEF m, l

\* The frame that waits for a rule goes on: it is the top of what is left
LEMMA StackUpdated ==
  ASSUME NEW s, s # <<>>, NEW n, NEW m, NEW o, StackPlaced(s, n, m, o),
         NEW n1, NEW o1, NEW f,
         StackPlaced(SubSeq(s, 1, Len(s) - 1), n1, m, o1),
         FramePlaced(f, NotsBelow(s, Len(s)), n1, m, o1)
  PROVE  StackPlaced(Append(SubSeq(s, 1, Len(s) - 1), f), n1, m, o1)
<1>1. NotsBelow(SubSeq(s, 1, Len(s) - 1), Len(SubSeq(s, 1, Len(s) - 1)) + 1) = NotsBelow(s, Len(s))
  BY FramePopped
<1> QED
  BY <1>1, FramePushed

\* A frame that gets one more item, which is a node of the tree
LEMMA ItemAdded ==
  ASSUME NEW f, NEW nots, NEW n \in Nat, NEW m, NEW o \in Nat, FramePlaced(f, nots, n, m, o),
         NEW x \in 1 .. n, o > 1
  PROVE  FramePlaced([f EXCEPT !.items = Append(@, x)], nots, n, m, o)
<1> DEFINE g == [f EXCEPT !.items = Append(@, x)]
<1>1. Fields \subseteq DOMAIN f
  BY DEF FramePlaced
<1>2. /\ Fields \subseteq DOMAIN g /\ g.fn = f.fn /\ g.items = Append(f.items, x) /\ g.from = f.from
  BY <1>1 DEF Fields
<1>3. IsStack(f.items) /\ (\A i \in DOMAIN f.items : f.items[i] \in 1 .. n) =>
        IsStack(g.items) /\ \A i \in DOMAIN g.items : g.items[i] \in 1 .. n
  <2> SUFFICES ASSUME IsStack(f.items), \A i \in DOMAIN f.items : f.items[i] \in 1 .. n
               PROVE  IsStack(g.items) /\ \A i \in DOMAIN g.items : g.items[i] \in 1 .. n
    OBVIOUS
  <2> DEFINE a == f.items
             b == Append(a, x)
             l == Len(a)
  <2>1. /\ IsStack(b) /\ l \in Nat /\ DOMAIN a = 1 .. l /\ DOMAIN b = 1 .. l + 1
        /\ b[l + 1] = x /\ \A i \in 1 .. l : b[i] = a[i]
    BY Appended, StackLen
  <2>2. \A i \in 1 .. l : a[i] \in 1 .. n
    BY <2>1
  <2>3. g.items = b
    BY <1>2
  <2> HIDE DEF b, l, a, g
  <2>4. \A i \in 1 .. l + 1 : i = l + 1 \/ i \in 1 .. l
    BY <2>1
  <2> QED
    BY <2>1, <2>2, <2>3, <2>4
<1> HIDE DEF g
<1>4. FramePlaced(g, nots, n, m, o)
  BY <1>2, <1>3, Zenon DEF FramePlaced
<1> QED
  BY <1>4 DEF g

-----------------------------------------------------------------------------
(***************************************************************************)
(* The steps, one after the other                                          *)
(***************************************************************************)
LEMMA LexingPlaced ==
  ASSUME TilesInv, PlacesInv, LexToken \/ EndLexing
  PROVE  PlacesInv'
<1> DEFINE l == Len(tokens)
<1>1. IsStack(tokens) /\ l \in Nat /\ stage = "lexing" /\ nodes = <<>> /\ at = 1
  BY StackLen DEF TilesInv, PlacesInv, LexToken, EndLexing
<1>2. CASE LexToken
  <2>1. stage' = "panicked" \/ (stage' = "lexing" /\ nodes' = nodes /\ at' = at)
    BY <1>2 DEF LexToken, AddToken, parseVars
  <2> QED
    BY <1>1, <2>1 DEF PlacesInv
<1>3. CASE EndLexing
  <2> DEFINE found == {i \in DOMAIN tokens : IsErrorToken(tokens[i])}
             last == [token |-> "EndOfInput", units |-> <<>>,
                      start |-> begin[Len(text) + 1], end |-> begin[Len(text) + 1]]
             f == Frame("modified", 0, <<>>)
  <2>1. /\ tokens' = Append(tokens, last) /\ at' = 1 /\ nodes' = <<>>
        /\ stage' = IF found = {} THEN "parsing" ELSE "rejected"
        /\ stack' = IF found = {} THEN <<f>> ELSE <<>>
        /\ text' = text /\ begin' = begin
    BY <1>1, <1>3 DEF EndLexing
  <2>2. last.token = "EndOfInput"
    OBVIOUS
  <2> HIDE DEF found, last, f
  <2>3. /\ IsStack(tokens') /\ Len(tokens') = l + 1 /\ tokens'[l + 1] = last
    BY <1>1, <2>1, Appended
  <2> HIDE DEF l
  <2>4. Ended(tokens') /\ at' \in 1 .. Len(tokens') /\ Len(tokens') \in Nat
    BY <1>1, <2>1, <2>2, <2>3 DEF Ended
  <2>5. CASE found = {}
    <3>1. IsStack(<<>>) /\ (\A i \in DOMAIN <<>> : FALSE) /\ Len(<<>>) = 0
      <4>1. <<>> \in Seq({})
        BY EmptySeq
      <4>2. IsStack(<<>>)
        BY <4>1, StackOf
      <4>3. (\A i \in DOMAIN <<>> : FALSE) /\ Len(<<>>) = 0
        OBVIOUS
      <4> QED
        BY <4>2, <4>3
    <3>2. TreePlaced(nodes', Len(tokens'))
      BY <2>1, <3>1, Zenon DEF TreePlaced
    <3>3. \A x, n : FramePlaced(f, x, n, Len(tokens'), 1)
      BY <2>4, NewFrame DEF f, Functions
    <3>4. StackPlaced(<<f>>, Len(nodes'), Len(tokens'), 1)
      <4>1. IsStack(<<f>>)
        BY OneElement
      <4>2. DOMAIN <<f>> = {1} /\ <<f>>[1] = f
        OBVIOUS
      <4> QED
        BY <3>3, <4>1, <4>2, Zenon DEF StackPlaced
    <3> QED
      BY <2>1, <2>4, <2>5, <3>2, <3>4 DEF PlacesInv
  <2>6. CASE found # {}
    <3>1. \A k \in DOMAIN errors' : Place(errors'[k]) /\ errors'[k].kind \notin HelpKinds
      BY <1>3, LexErrorsPlaced
    <3> QED
      BY <2>1, <2>6, <3>1 DEF PlacesInv, Place, AtCharacter
  <2> QED
    BY <2>5, <2>6
<1> QED
  BY <1>2, <1>3

LEMMA Running ==
  ASSUME TilesInv, PlacesInv, stage = "parsing"
  PROVE  /\ Ended(tokens) /\ Len(tokens) \in Nat /\ at \in Nat
         /\ at \in 1 .. Len(tokens) /\ at \in at .. Len(tokens)
         /\ Len(nodes) \in Nat /\ TreePlaced(nodes, Len(tokens))
         /\ StackPlaced(stack, Len(nodes), Len(tokens), at)
         /\ stack # <<>> =>
              /\ StackPlaced(Below, Len(nodes), Len(tokens), at)
              /\ FramePlaced(Top, NotsBelow(stack, Len(stack)), Len(nodes), Len(tokens), at)
<1> DEFINE m == Len(tokens)
           n == Len(nodes)
<1>1. /\ Ended(tokens) /\ m \in Nat /\ at \in 1 .. m /\ TreePlaced(nodes, m) /\ n \in Nat
      /\ StackPlaced(stack, n, m, at)
  BY StackLen DEF PlacesInv, Ended, TreePlaced
<1>2. stack # <<>> => StackPlaced(Below, n, m, at) /\ FramePlaced(Top, NotsBelow(stack, Len(stack)), n, m, at)
  BY <1>1, FramePopped DEF Top, Below
<1> HIDE DEF m, n
<1>3. at \in Nat /\ at \in at .. m
  BY <1>1
<1> QED
  BY <1>1, <1>2, <1>3 DEF m, n

\* A block gets one more statement, a new node
LEMMA StatementPlaced ==
  ASSUME TilesInv, PlacesInv, stage = "parsing",
         NEW s, s # <<>>, StackPlaced(s, Len(nodes), Len(tokens), at),
         NEW node, NodePlaced(node, Len(tokens)), NEW o \in at + 1 .. Len(tokens),
         nodes' = Append(nodes, node), at' = o, stage' = stage, tokens' = tokens,
         stack' = Append(SubSeq(s, 1, Len(s) - 1), [s[Len(s)] EXCEPT !.items = Append(@, Len(nodes) + 1)])
  PROVE  PlacesInv'
<1> DEFINE m == Len(tokens)
           n == Len(nodes)
           ns == Append(nodes, node)
           f == [s[Len(s)] EXCEPT !.items = Append(@, n + 1)]
           t == Append(SubSeq(s, 1, Len(s) - 1), f)
<1>1. m \in Nat /\ at \in Nat /\ at \in 1 .. m /\ n \in Nat /\ TreePlaced(nodes, m)
  BY Running
<1>2. TreePlaced(ns, m) /\ Len(ns) = n + 1
  BY <1>1, NodeAdded
<1>3. o \in 1 .. m /\ o \in Nat /\ at <= o /\ o > 1 /\ n + 1 \in Nat /\ n <= n + 1 /\ n + 1 \in 1 .. n + 1
  <2>1. o \in at + 1 .. m
    OBVIOUS
  <2> HIDE DEF m, n
  <2> QED
    BY <1>1, <2>1
<1>4. StackPlaced(s, n, m, at)
  OBVIOUS
<1>5. stack' = t /\ nodes' = ns
  OBVIOUS
<1> HIDE DEF m, n, ns, t
<1>6. StackPlaced(s, n + 1, m, o)
  BY <1>1, <1>3, <1>4, StackGrows
<1>7. /\ StackPlaced(SubSeq(s, 1, Len(s) - 1), n + 1, m, o)
      /\ FramePlaced(s[Len(s)], NotsBelow(s, Len(s)), n + 1, m, o)
  BY <1>6, FramePopped
<1>8. FramePlaced(f, NotsBelow(s, Len(s)), n + 1, m, o)
  BY <1>3, <1>7, ItemAdded
<1> HIDE DEF f
<1>9. StackPlaced(t, n + 1, m, o)
  BY <1>6, <1>7, <1>8, StackUpdated DEF t
<1> QED
  BY <1>2, <1>3, <1>5, <1>9, Continues DEF m

LEMMA ModeModifierPlaced == TilesInv /\ PlacesInv /\ ParseModeModifier => PlacesInv'
<1> SUFFICES ASSUME TilesInv, PlacesInv, ParseModeModifier PROVE PlacesInv'
  OBVIOUS
<1> DEFINE m == Len(tokens)
<1>1. stage = "parsing" /\ stack # <<>>
  BY DEF ParseModeModifier, Calling
<1>2. PICK word \in ModeWords :
        /\ IsReserved(tokens, at, word)
        /\ IF ~IsReserved(tokens, at + 1, "lazy")
           THEN Fail(ErrorAt("ExpectedLazy", tokens[at + 1]))
           ELSE IF ~Is(tokens, at + 2, "Semicolon")
           THEN Fail(ErrorAt("ExpectedSemicolon", tokens[at + 2]))
           ELSE /\ nodes' = Append(nodes, Node(word, <<>>, <<>>))
                /\ stack' = Replaced([Top EXCEPT !.items = Append(@, Len(nodes) + 1)])
                /\ at' = at + 3
                /\ UNCHANGED <<recursion, result>>
                /\ Going
  BY DEF ParseModeModifier
<1>3. Ended(tokens) /\ at \in Nat /\ at \in 1 .. m /\ m \in Nat /\ StackPlaced(stack, Len(nodes), m, at)
  BY <1>1, Running
<1>4. at + 1 \in 1 .. m
  BY <1>2, <1>3, NotLast DEF IsReserved, Is
<1> DEFINE Plain(kind) == kind \notin HelpKinds
<1>0. Plain("ExpectedLazy") /\ Plain("ExpectedSemicolon")
  BY DEF HelpKinds
<1>5. CASE ~IsReserved(tokens, at + 1, "lazy")
  BY <1>0, <1>2, <1>3, <1>4, <1>5, FailAt
<1>6. CASE IsReserved(tokens, at + 1, "lazy")
  <2>1. at + 2 \in 1 .. m
    <3>1. at + 1 + 1 \in 1 .. m
      BY <1>3, <1>4, <1>6, NotLast DEF IsReserved, Is
    <3> QED
      BY <1>3, <3>1
  <2>2. CASE ~Is(tokens, at + 2, "Semicolon")
    BY <1>0, <1>2, <1>3, <1>6, <2>1, <2>2, FailAt
  <2>3. CASE Is(tokens, at + 2, "Semicolon")
    <3>1. at + 2 + 1 \in 1 .. m
      BY <1>3, <2>1, <2>3, NotLast DEF Is
    <3>2. at + 3 \in at + 1 .. m
      <4> HIDE DEF m
      <4> QED
        BY <1>3, <3>1
    <3>3. NodePlaced(Node(word, <<>>, <<>>), m)
      BY NodeIsPlaced DEF ModeWords
    <3>4. /\ nodes' = Append(nodes, Node(word, <<>>, <<>>)) /\ at' = at + 3
          /\ stage' = stage /\ tokens' = tokens
          /\ stack' = Append(SubSeq(stack, 1, Len(stack) - 1),
                             [stack[Len(stack)] EXCEPT !.items = Append(@, Len(nodes) + 1)])
      BY <1>2, <1>6, <2>3 DEF Going, lexVars, Replaced, Below, Top
    <3> QED
      BY <1>1, <1>3, <3>2, <3>3, <3>4, StatementPlaced
  <2> QED
    BY <2>2, <2>3
<1> QED
  BY <1>5, <1>6

LEMMA LetPlaced == TilesInv /\ PlacesInv /\ ParseLet => PlacesInv'
<1> SUFFICES ASSUME TilesInv, PlacesInv, ParseLet PROVE PlacesInv'
  OBVIOUS
<1> DEFINE m == Len(tokens)
           n == Len(nodes)
           f == Frame("let", at + 1, <<>>)
<1>1. stage = "parsing" /\ stack # <<>> /\ IsReserved(tokens, at, "let")
  BY DEF ParseLet, Calling
<1>2. \/ \E kind : kind \notin HelpKinds /\ Fail(ErrorAt(kind, tokens[at + 1]))
      \/ /\ tokens[at + 1].token = "Identifier" /\ ~Is(tokens, at + 2, "Equals")
         /\ Fail(ErrorAt("ExpectedEquals", tokens[at + 2]))
      \/ /\ tokens[at + 1].token = "Identifier" /\ Is(tokens, at + 2, "Equals")
         /\ CallOr(Append(stack, f), at + 3)
  BY DEF ParseLet, HelpKinds
<1>3. /\ Ended(tokens) /\ at \in Nat /\ at \in 1 .. m /\ m \in Nat /\ n \in Nat
      /\ StackPlaced(stack, n, m, at)
  BY <1>1, Running
<1>4. at + 1 \in 1 .. m
  BY <1>1, <1>3, NotLast DEF IsReserved, Is
<1>5. tokens[at + 1].token = "Identifier" => at + 2 \in 1 .. m
  <2>1. tokens[at + 1].token = "Identifier" => at + 1 + 1 \in 1 .. m
    BY <1>3, <1>4, NotLast
  <2> QED
    BY <1>3, <2>1
<1>6. CASE \E kind : kind \notin HelpKinds /\ Fail(ErrorAt(kind, tokens[at + 1]))
  BY <1>3, <1>4, <1>6, FailAt
<1>7. CASE tokens[at + 1].token = "Identifier" /\ Fail(ErrorAt("ExpectedEquals", tokens[at + 2]))
  <2>1. "ExpectedEquals" \notin HelpKinds
    BY DEF HelpKinds
  <2> QED
    BY <1>3, <1>5, <1>7, <2>1, FailAt
<1>8. CASE /\ tokens[at + 1].token = "Identifier" /\ Is(tokens, at + 2, "Equals")
           /\ CallOr(Append(stack, f), at + 3)
  <2>1. at + 2 + 1 \in 1 .. m
    BY <1>3, <1>5, <1>8, NotLast DEF Is
  <2>2. at + 3 \in at .. m
    <3> HIDE DEF m
    <3> QED
      BY <1>3, <2>1
  <2>3. \A x : FramePlaced(f, x, n, m, at)
    <3> HIDE DEF m, n
    <3> QED
      BY <1>3, <1>4, NewFrame DEF Functions
  <2> HIDE DEF f
  <2>4. StackPlaced(Append(stack, f), n, m, at)
    BY <1>3, <2>3, FramePushed
  <2> QED
    BY <1>1, <1>8, <2>2, <2>4, CallOrPlaced
<1> QED
  BY <1>2, <1>6, <1>7, <1>8

LEMMA EndLetPlaced == TilesInv /\ LevelsInv /\ PlacesInv /\ EndLet => PlacesInv'
<1> SUFFICES ASSUME TilesInv, LevelsInv, PlacesInv, EndLet PROVE PlacesInv'
  OBVIOUS
<1> DEFINE m == Len(tokens)
           s == SubSeq(stack, 1, Len(stack) - 1)
           node == Node("let", <<result>>, <<tokens[Top.from].units, Top.from>>)
<1>1. stage = "parsing" /\ stack # <<>> /\ Top.fn = "let"
  BY DEF EndLet, Returned
<1>2. /\ Ended(tokens) /\ at \in Nat /\ at \in 1 .. m /\ m \in Nat
      /\ StackPlaced(s, Len(nodes), m, at)
      /\ FramePlaced(Top, NotsBelow(stack, Len(stack)), Len(nodes), m, at)
  BY <1>1, Running DEF Below
<1>3. CASE ~Is(tokens, at, "Semicolon")
  BY <1>2, <1>3, FailAt DEF EndLet, HelpKinds
<1>4. CASE Is(tokens, at, "Semicolon")
  <2>1. at + 1 \in 1 .. m
    BY <1>2, <1>4, NotLast DEF Is
  <2>2. at + 1 \in at + 1 .. m
    <3> HIDE DEF m
    <3> QED
      BY <1>2, <2>1
  <2>3. Top.from \in 1 .. m
    <3> HIDE DEF m
    <3> QED
      BY <1>1, <1>2 DEF FramePlaced
  <2>4. NodePlaced(node, m)
    <3>1. {"kind", "value"} \subseteq DOMAIN node /\ node.value[2] = Top.from
      BY DEF Node
    <3> HIDE DEF node, m
    <3> QED
      BY <2>3, <3>1 DEF NodePlaced
  <2>5. /\ s # <<>> /\ Len(s) = Len(stack) - 1 /\ s[Len(s)] = stack[Len(stack) - 1]
        /\ SubSeq(s, 1, Len(s) - 1) = SubSeq(stack, 1, Len(stack) - 2)
    BY <1>1, HasCaller DEF LevelsInv, Top
  <2>6. /\ nodes' = Append(nodes, node) /\ at' = at + 1 /\ stage' = stage /\ tokens' = tokens
        /\ stack' = Append(SubSeq(stack, 1, Len(stack) - 2),
                           [stack[Len(stack) - 1] EXCEPT !.items = Append(@, Len(nodes) + 1)])
    BY <1>4 DEF EndLet, Going, lexVars
  <2> HIDE DEF s, node
  <2> QED
    BY <1>1, <1>2, <2>2, <2>4, <2>5, <2>6, StatementPlaced
<1> QED
  BY <1>3, <1>4

LEMMA BodyPlaced == TilesInv /\ PlacesInv /\ ParseBody => PlacesInv'
<1> SUFFICES ASSUME TilesInv, PlacesInv, ParseBody PROVE PlacesInv'
  OBVIOUS
<1>1. stage = "parsing" /\ stack # <<>> /\ CallOr(stack, at)
  BY DEF ParseBody, Calling
<1> QED
  BY <1>1, Running, CallOrPlaced

LEMMA EndModifiedPlaced == TilesInv /\ PlacesInv /\ EndModified => PlacesInv'
<1> SUFFICES ASSUME TilesInv, PlacesInv, EndModified PROVE PlacesInv'
  OBVIOUS
<1> DEFINE m == Len(tokens)
           n == Len(nodes)
           items == Top.items
<1>1. stage = "parsing" /\ stack # <<>> /\ Top.fn = "modified"
  BY DEF EndModified, Returned
<1>2. /\ Ended(tokens) /\ at \in Nat /\ at \in 1 .. m /\ m \in Nat /\ n \in Nat
      /\ TreePlaced(nodes, m) /\ StackPlaced(Below, n, m, at)
      /\ FramePlaced(Top, NotsBelow(stack, Len(stack)), n, m, at)
  BY <1>1, Running
<1>3. IsStack(items) /\ \A i \in DOMAIN items : items[i] \in 1 .. n
  BY <1>1, <1>2 DEF FramePlaced
<1>4. Len(items) \in Nat /\ DOMAIN items = 1 .. Len(items)
  BY <1>3, StackLen
<1>5. DOMAIN nodes = 1 .. n
  BY <1>2, StackLen DEF TreePlaced
<1>6. CASE Rebound # {}
  <2>1. Rebound \subseteq Nat
    BY <1>4 DEF Rebound
  <2>2. FirstRebound \in Rebound
    <3>1. \E i \in Rebound : \A j \in Rebound : i <= j
      BY <1>6, <2>1, Least
    <3> QED
      BY <3>1 DEF FirstRebound
  <2> DEFINE i == FirstRebound
             node == nodes[items[i]]
  <2>3. i \in DOMAIN items /\ node.kind = "let"
    BY <2>2 DEF Rebound, Rebinds
  <2>4. Fail(ErrorAt("LetBindingExists", tokens[node.value[2]]))
    BY <1>6 DEF EndModified
  <2>5. items[i] \in DOMAIN nodes
    BY <1>3, <1>5, <2>3
  <2> HIDE DEF i
  <2>6. NodePlaced(node, m)
    BY <1>2, <2>5 DEF TreePlaced
  <2> HIDE DEF node
  <2>7. node.value[2] \in 1 .. m
    BY <2>3, <2>6 DEF NodePlaced
  <2>8. "LetBindingExists" \notin HelpKinds
    BY DEF HelpKinds
  <2> QED
    BY <1>2, <2>4, <2>7, <2>8, FailAt
<1>7. CASE Rebound = {}
  <2> DEFINE list == Statements(items, result)
             k == Len(items)
             ns == nodes \o list
  <2>1. /\ nodes' = ns /\ stack' = Below /\ at' = at /\ stage' = stage /\ tokens' = tokens
    BY <1>7 DEF EndModified, Going, lexVars
  <2>2. TreePlaced(list, m)
    <3>1. list = [j \in 1 .. k |-> Node("stmt",
                   <<items[k + 1 - j], IF j = 1 THEN result ELSE Len(nodes) + j - 1>>, <<>>)]
      BY DEF Statements
    <3> DEFINE T == {list[j] : j \in 1 .. k}
    <3>2. list \in [1 .. k -> T] /\ \A j \in 1 .. k : \E kids : list[j] = Node("stmt", kids, <<>>)
      <4> HIDE DEF k
      <4> QED
        BY <3>1
    <3> HIDE DEF list, T, k
    <3>3. list \in Seq(T)
      BY <1>4, <3>2, SeqDef DEF k
    <3>4. IsStack(list) /\ DOMAIN list = 1 .. k
      BY <3>2, <3>3, StackOf
    <3>5. \A kids : NodePlaced(Node("stmt", kids, <<>>), m)
      BY NodeIsPlaced
    <3> QED
      BY <3>2, <3>4, <3>5 DEF TreePlaced
  <2> HIDE DEF list
  <2>3. TreePlaced(ns, m) /\ Len(ns) = n + Len(list) /\ Len(list) \in Nat
    BY <1>2, <2>2, NodesAdded
  <2> HIDE DEF ns, m, n
  <2>4. Len(ns) \in Nat /\ n <= Len(ns) /\ at <= at
    BY <1>2, <2>3
  <2>5. StackPlaced(Below, Len(ns), m, at)
    BY <1>2, <2>4, StackGrows
  <2> QED
    BY <1>1, <1>2, <2>1, <2>3, <2>5, Continues DEF m
<1> QED
  BY <1>6, <1>7

LEMMA FixPlaced ==
  ASSUME TilesInv, PlacesInv, stage = "parsing"
  PROVE  /\ FixAt \in at .. Len(tokens) /\ FixAt \in 1 .. Len(tokens) /\ FixAt \in Nat
         /\ FixAt - at \in Nat /\ at + (FixAt - at) \in 1 .. Len(tokens)
<1>1. Ended(tokens) /\ at \in Nat /\ at \in 1 .. Len(tokens) /\ Len(tokens) \in Nat
  BY Running
<1>2. FixAt \in at .. Len(tokens)
  BY <1>1, AfterNotsEnds DEF FixAt
<1> QED
  BY <1>1, <1>2

\* The function that waits for a group or a lookaround
LEMMA CallerPlaced ==
  ASSUME TilesInv, LevelsInv, PlacesInv, stage = "parsing", stack # <<>>,
         Top.fn \in {"group", "lookaround"}
  PROVE  LET s == SubSeq(stack, 1, Len(stack) - 1)
             caller == stack[Len(stack) - 1] IN
         /\ s # <<>> /\ StackPlaced(s, Len(nodes), Len(tokens), at)
         /\ s[Len(s)] = caller /\ SubSeq(s, 1, Len(s) - 1) = SubSeq(stack, 1, Len(stack) - 2)
         /\ Top.from \in 1 .. Len(tokens) /\ caller.nots \in Nat
         /\ Top.from + caller.nots \in 1 .. Len(tokens)
<1> DEFINE s == SubSeq(stack, 1, Len(stack) - 1)
           m == Len(tokens)
<1>1. /\ s # <<>> /\ Len(s) = Len(stack) - 1 /\ s[Len(stack) - 1] = stack[Len(stack) - 1]
      /\ SubSeq(s, 1, Len(stack) - 1 - 1) = SubSeq(stack, 1, Len(stack) - 2)
  BY HasCaller DEF LevelsInv, Top
<1>2. /\ StackPlaced(s, Len(nodes), m, at)
      /\ FramePlaced(Top, NotsBelow(stack, Len(stack)), Len(nodes), m, at)
  BY Running DEF Below
<1>3. NotsBelow(stack, Len(stack)) = stack[Len(stack) - 1].nots
  <2>1. Len(stack) # 1
    <3>1. Len(s) > 0
      BY <1>1, <1>2, StackLen DEF StackPlaced
    <3> HIDE DEF s
    <3> QED
      BY <1>1, <3>1
  <2> QED
    BY <2>1 DEF NotsBelow
<1> HIDE DEF s, m
<1>4. /\ Top.from \in 1 .. m /\ NotsBelow(stack, Len(stack)) \in Nat
      /\ Top.from + NotsBelow(stack, Len(stack)) \in 1 .. m
  BY <1>2 DEF FramePlaced
<1> QED
  BY <1>1, <1>2, <1>3, <1>4 DEF s, m

LEMMA LookaroundPlaced == TilesInv /\ PlacesInv /\ ParseLookaround => PlacesInv'
<1> SUFFICES ASSUME TilesInv, PlacesInv, ParseLookaround PROVE PlacesInv'
  OBVIOUS
<1> DEFINE pairs == {<<"LookAhead", "Ahead">>, <<"LookBehind", "Behind">>}
<1>1. /\ stage = "parsing" /\ stack # <<>> /\ tokens[FixAt].token \in DOMAIN LookaroundKind
      /\ CallModified("lookaround", <<LookaroundKind[tokens[FixAt].token]>>, FixAt + 1)
  BY DEF ParseLookaround, Calling
<1>2. DOMAIN LookaroundKind = {p[1] : p \in pairs}
  BY DEF LookaroundKind, Table
<1>3. \A p \in pairs : p[1] # "EndOfInput"
  OBVIOUS
<1> HIDE DEF pairs
<1>4. tokens[FixAt].token # "EndOfInput"
  BY <1>1, <1>2, <1>3
<1>5. Ended(tokens) /\ FixAt \in at .. Len(tokens) /\ FixAt \in 1 .. Len(tokens) /\ FixAt \in Nat
  BY <1>1, Running, FixPlaced
<1>6. FixAt + 1 \in FixAt .. Len(tokens)
  BY <1>4, <1>5, NotLast
<1> QED
  BY <1>1, <1>5, <1>6, CallModifiedPlaced

LEMMA EndLookaroundPlaced == TilesInv /\ LevelsInv /\ PlacesInv /\ EndLookaround => PlacesInv'
<1> SUFFICES ASSUME TilesInv, LevelsInv, PlacesInv, EndLookaround PROVE PlacesInv'
  OBVIOUS
<1> DEFINE s == SubSeq(stack, 1, Len(stack) - 1)
           caller == stack[Len(stack) - 1]
           node == Node("lookaround", <<result>>, Top.tag)
           ns == Append(nodes, node)
<1>1. /\ stage = "parsing" /\ stack # <<>> /\ Top.fn = "lookaround"
      /\ AddFix(ns, at, recursion + 1, SubSeq(stack, 1, Len(stack) - 2), caller, Top.from, caller.nots)
  BY DEF EndLookaround, Returned
<1>2. /\ s # <<>> /\ StackPlaced(s, Len(nodes), Len(tokens), at)
      /\ s[Len(s)] = caller /\ SubSeq(s, 1, Len(s) - 1) = SubSeq(stack, 1, Len(stack) - 2)
      /\ Top.from \in 1 .. Len(tokens) /\ caller.nots \in Nat
      /\ Top.from + caller.nots \in 1 .. Len(tokens)
  BY <1>1, CallerPlaced
<1>3. TreePlaced(ns, Len(tokens)) /\ Len(nodes) <= Len(ns) /\ at \in at .. Len(tokens)
  <2>1. TreePlaced(nodes, Len(tokens)) /\ Len(nodes) \in Nat /\ at \in at .. Len(tokens)
    BY <1>1, Running
  <2>2. NodePlaced(node, Len(tokens))
    BY NodeIsPlaced
  <2> HIDE DEF node
  <2>3. TreePlaced(ns, Len(tokens)) /\ Len(ns) = Len(nodes) + 1
    BY <2>1, <2>2, NodeAdded
  <2> HIDE DEF ns
  <2> QED
    BY <2>1, <2>3
<1> HIDE DEF s, ns, caller
<1> QED
  BY <1>1, <1>2, <1>3, AddFixPlaced

LEMMA GroupPlaced == TilesInv /\ PlacesInv /\ ParseGroup => PlacesInv'
<1> SUFFICES ASSUME TilesInv, PlacesInv, ParseGroup PROVE PlacesInv'
  OBVIOUS
<1> DEFINE kind == GroupKind(FixAt)
           m == Len(tokens)
<1>1. stage = "parsing" /\ stack # <<>> /\ OpenGroup(kind)
  BY DEF ParseGroup, Calling
<1>2. Ended(tokens) /\ FixAt \in at .. m /\ FixAt \in 1 .. m /\ FixAt \in Nat
  BY <1>1, Running, FixPlaced
<1>3. /\ kind.is = "failed" => Place(kind.error)
      /\ kind.is # "failed" => kind.at \in FixAt .. m
  BY <1>2, GroupKindOutcome
<1> HIDE DEF kind
<1>4. CASE kind.is = "failed"
  <2>1. \E e : Place(e) /\ Fail(e)
    BY <1>1, <1>3, <1>4 DEF OpenGroup
  <2> QED
    BY <2>1, FailPlaced
<1>5. CASE kind.is # "failed"
  <2>1. kind.at \in 1 .. m
    BY <1>2, <1>3, <1>5
  <2>2. CASE ~Is(tokens, kind.at, "OpenParen")
    <3>1. Fail(ErrorAt("ExpectedOpenParen", tokens[kind.at]))
      BY <1>1, <1>5, <2>2 DEF OpenGroup
    <3>2. "ExpectedOpenParen" \notin HelpKinds
      BY DEF HelpKinds
    <3> QED
      BY <1>1, <1>2, <2>1, <3>1, <3>2, FailAt
  <2>3. CASE Is(tokens, kind.at, "OpenParen")
    <3>1. kind.at + 1 \in 1 .. m
      BY <1>2, <2>1, <2>3, NotLast DEF Is
    <3>2. kind.at + 1 \in FixAt .. m
      BY <1>2, <1>3, <1>5, <3>1
    <3>3. CallModified("group", kind.value, kind.at + 1)
      BY <1>1, <1>5, <2>3 DEF OpenGroup
    <3> QED
      BY <1>1, <1>2, <3>2, <3>3, CallModifiedPlaced
  <2> QED
    BY <2>2, <2>3
<1> QED
  BY <1>4, <1>5

LEMMA EndGroupPlaced == TilesInv /\ LevelsInv /\ PlacesInv /\ EndGroup => PlacesInv'
<1> SUFFICES ASSUME TilesInv, LevelsInv, PlacesInv, EndGroup PROVE PlacesInv'
  OBVIOUS
<1> DEFINE s == SubSeq(stack, 1, Len(stack) - 1)
           caller == stack[Len(stack) - 1]
           node == Node("group", <<result>>, Top.tag)
           ns == Append(nodes, node)
           repetition == Repetition(tokens, at + 1)
<1>1. stage = "parsing" /\ stack # <<>> /\ Top.fn = "group"
  BY DEF EndGroup, Returned
<1>2. /\ s # <<>> /\ StackPlaced(s, Len(nodes), Len(tokens), at)
      /\ s[Len(s)] = caller /\ SubSeq(s, 1, Len(s) - 1) = SubSeq(stack, 1, Len(stack) - 2)
      /\ Top.from \in 1 .. Len(tokens) /\ caller.nots \in Nat
      /\ Top.from + caller.nots \in 1 .. Len(tokens)
  BY <1>1, CallerPlaced
<1>3. /\ Ended(tokens) /\ TreePlaced(nodes, Len(tokens)) /\ Len(nodes) \in Nat
      /\ at \in Nat /\ at \in 1 .. Len(tokens)
  BY <1>1, Running
<1>4. CASE ~Is(tokens, at, "CloseParen")
  BY <1>3, <1>4, FailAt DEF EndGroup, HelpKinds
<1>5. CASE Is(tokens, at, "CloseParen")
  <2>1. TreePlaced(ns, Len(tokens)) /\ Len(nodes) <= Len(ns)
    <3>1. NodePlaced(node, Len(tokens))
      BY NodeIsPlaced
    <3> HIDE DEF node
    <3>2. TreePlaced(ns, Len(tokens)) /\ Len(ns) = Len(nodes) + 1
      BY <1>3, <3>1, NodeAdded
    <3> HIDE DEF ns
    <3> QED
      BY <1>3, <3>2
  <2>2. at + 1 \in 1 .. Len(tokens)
    BY <1>3, <1>5, NotLast DEF Is
  <2>3. at + 1 \in at .. Len(tokens)
    BY <1>3, <2>2
  <2>4. Outcome(tokens, at + 1, repetition)
    BY <1>3, <2>2, RepetitionOutcome
  <2>5. AddRepeated(ns, repetition, recursion + 1, SubSeq(stack, 1, Len(stack) - 2), caller,
                    Top.from, caller.nots)
    BY <1>5 DEF EndGroup
  <2> HIDE DEF s, ns, caller, repetition
  <2> QED
    BY <1>1, <1>2, <2>1, <2>3, <2>4, <2>5, AddRepeatedPlaced
<1> QED
  BY <1>4, <1>5

LEMMA AtomPlaced == TilesInv /\ PlacesInv /\ ParseAtom => PlacesInv'
<1> SUFFICES ASSUME TilesInv, PlacesInv, ParseAtom PROVE PlacesInv'
  OBVIOUS
<1> DEFINE atom == LeafAtom(tokens, FixAt)
           ns == Append(nodes, atom.value)
           repetition == Repetition(tokens, atom.at)
<1>1. stage = "parsing" /\ stack # <<>> /\ atom.is # "absent" /\ AddAtom(atom)
  BY DEF ParseAtom, AtAtom, Calling
<1>2. /\ Ended(tokens) /\ at \in Nat /\ at \in 1 .. Len(tokens) /\ TreePlaced(nodes, Len(tokens))
      /\ Len(nodes) \in Nat /\ StackPlaced(stack, Len(nodes), Len(tokens), at)
  BY <1>1, Running
<1>3. /\ FixAt \in at .. Len(tokens) /\ FixAt \in 1 .. Len(tokens) /\ FixAt \in Nat
      /\ FixAt - at \in Nat /\ at + (FixAt - at) \in 1 .. Len(tokens)
  BY <1>1, FixPlaced
<1>4. NodeOutcome(tokens, FixAt, atom)
  BY <1>2, <1>3, LeafAtomOutcome
<1> HIDE DEF atom
<1>5. CASE atom.is = "failed"
  <2>1. \E e : Placed(tokens, e) /\ Fail(e)
    BY <1>1, <1>4, <1>5 DEF AddAtom, NodeOutcome, Outcome, Fails
  <2> QED
    BY <2>1, FailPlaced
<1>6. CASE atom.is # "failed"
  <2>1. atom.is = "found" /\ atom.at \in FixAt + 1 .. Len(tokens) /\ IsLeaf(atom.value)
    BY <1>1, <1>4, <1>6 DEF NodeOutcome, Outcome, Fails
  <2>2. atom.at \in at .. Len(tokens) /\ atom.at \in 1 .. Len(tokens)
    BY <1>2, <1>3, <2>1
  <2>3. NodePlaced(atom.value, Len(tokens))
    BY <2>1 DEF NodePlaced, IsLeaf, NodeFields
  <2>4. TreePlaced(ns, Len(tokens)) /\ Len(ns) = Len(nodes) + 1
    BY <1>2, <2>3, NodeAdded
  <2>5. AddRepeated(ns, repetition, recursion, SubSeq(stack, 1, Len(stack) - 1), stack[Len(stack)],
                    at, FixAt - at)
    BY <1>1, <1>6 DEF AddAtom, Below, Top
  <2>6. Outcome(tokens, atom.at, repetition)
    BY <1>2, <2>2, RepetitionOutcome
  <2> HIDE DEF ns, repetition
  <2>7. Len(nodes) <= Len(ns)
    BY <1>2, <2>4
  <2> QED
    BY <1>1, <1>2, <1>3, <2>2, <2>4, <2>5, <2>6, <2>7, AddRepeatedPlaced
<1> QED
  BY <1>5, <1>6

LEMMA SequencePlaced ==
  ASSUME TilesInv, PlacesInv, stage = "parsing"
  PROVE  /\ TreePlaced(Sequence, Len(tokens)) /\ Len(nodes) <= Len(Sequence)
         /\ Len(nodes) \in Nat /\ Len(Sequence) \in Nat
<1> DEFINE m == Len(tokens)
           node == Node("sequence", Top.fixes, <<>>)
<1>1. TreePlaced(nodes, m) /\ Len(nodes) \in Nat
  BY Running
<1>2. Sequence = nodes \/ Sequence = Append(nodes, node)
  BY DEF Sequence
<1>3. NodePlaced(node, m)
  BY NodeIsPlaced
<1> HIDE DEF node, m
<1>4. TreePlaced(Append(nodes, node), m) /\ Len(Append(nodes, node)) = Len(nodes) + 1
  BY <1>1, <1>3, NodeAdded
<1>5. CASE Sequence = nodes
  <2> DEFINE n == Len(nodes)
  <2>1. n <= n
    <3>1. n \in Nat
      BY <1>1
    <3> HIDE DEF n
    <3> QED
      BY <3>1
  <2> QED
    BY <1>1, <1>5, <2>1 DEF m
<1>6. CASE Sequence = Append(nodes, node)
  BY <1>1, <1>4, <1>6 DEF m
<1> QED
  BY <1>2, <1>5, <1>6

LEMMA AlternativePlaced ==
  ASSUME TilesInv, PlacesInv, stage = "parsing", stack # <<>>, Top.fn = "or", NextAlternative
  PROVE  PlacesInv'
<1> DEFINE m == Len(tokens)
           n == Len(nodes)
           n1 == Len(Sequence)
           f == [Top EXCEPT !.items = Append(@, SequenceRule), !.fixes = <<>>]
<1>1. /\ Ended(tokens) /\ at \in Nat /\ at \in 1 .. m /\ m \in Nat
      /\ StackPlaced(stack, n, m, at)
  BY Running
<1>2. TreePlaced(Sequence, m) /\ n <= n1 /\ n \in Nat /\ n1 \in Nat
  BY SequencePlaced
<1>3. /\ Is(tokens, at, "Pipe") /\ nodes' = Sequence /\ stack' = Append(SubSeq(stack, 1, Len(stack) - 1), f)
      /\ at' = at + 1 /\ stage' = stage /\ tokens' = tokens
  BY DEF NextAlternative, Going, lexVars, Replaced, Below
<1>4. at + 1 \in 1 .. m
  BY <1>1, <1>3, NotLast DEF Is
<1> HIDE DEF m, n, n1
<1>5. at + 1 \in Nat /\ at <= at + 1 /\ at + 1 > 1
  BY <1>1
<1>6. StackPlaced(stack, n1, m, at + 1)
  BY <1>1, <1>2, <1>5, StackGrows
<1>7. /\ StackPlaced(SubSeq(stack, 1, Len(stack) - 1), n1, m, at + 1)
      /\ FramePlaced(Top, NotsBelow(stack, Len(stack)), n1, m, at + 1)
  BY <1>6, FramePopped DEF Top
<1>8. FramePlaced(f, NotsBelow(stack, Len(stack)), n1, m, at + 1)
  <2>1. Fields \subseteq DOMAIN Top /\ Top.from \in 0 .. m
    BY <1>7 DEF FramePlaced
  <2>2. Fields \subseteq DOMAIN f /\ f.fn = "or" /\ f.from = Top.from
    BY <2>1 DEF Fields
  <2> HIDE DEF f
  <2> QED
    BY <1>5, <2>1, <2>2 DEF FramePlaced
<1> HIDE DEF f
<1>9. StackPlaced(Append(SubSeq(stack, 1, Len(stack) - 1), f), n1, m, at + 1)
  BY <1>6, <1>7, <1>8, StackUpdated
<1> QED
  BY <1>2, <1>3, <1>4, <1>9, Continues DEF m, n1

LEMMA NoFixPlaced == TilesInv /\ PlacesInv /\ NoFix => PlacesInv'
<1> SUFFICES ASSUME TilesInv, PlacesInv, NoFix PROVE PlacesInv'
  OBVIOUS
<1> DEFINE m == Len(tokens)
<1>1. stage = "parsing" /\ stack # <<>> /\ Top.fn = "or"
  BY DEF NoFix, AtAtom, Calling
<1>2. /\ Ended(tokens) /\ at \in Nat /\ at \in 1 .. m /\ m \in Nat
      /\ TreePlaced(nodes, m) /\ Len(nodes) \in Nat
      /\ FramePlaced(Top, NotsBelow(stack, Len(stack)), Len(nodes), m, at)
  BY <1>1, Running
<1>3. CASE LoneNot
  <2>1. FixAt \in 1 .. m
    BY <1>1, FixPlaced
  <2> QED
    BY <1>2, <1>3, <2>1, FailAt DEF LoneNot, HelpKinds
<1>4. CASE NextAlternative
  BY <1>1, <1>4, AlternativePlaced
<1>5. CASE LonePipe
  <2> DEFINE i == IF Top.items # <<>> THEN at - 1 ELSE Top.from
  <2>1. Fail(ErrorAt("LonePipe", tokens[i])) /\ (Top.items # <<>> \/ Top.from # 0)
    BY <1>5 DEF LonePipe
  <2>2. i \in 1 .. m
    <3> HIDE DEF m
    <3>1. (Top.items # <<>> => at > 1) /\ Top.from \in 0 .. m
      BY <1>1, <1>2 DEF FramePlaced
    <3> QED
      BY <1>2, <2>1, <3>1
  <2> HIDE DEF i
  <2> QED
    BY <1>2, <2>1, <2>2, FailAt DEF HelpKinds
<1>6. CASE EmptyExpression
  <2> DEFINE node == Node("literal", <<>>, <<>>)
             ns == Append(nodes, node)
  <2>1. NodePlaced(node, m)
    BY NodeIsPlaced
  <2>2. \E n : ReturnOr(ns, n)
    BY <1>6 DEF EmptyExpression
  <2> HIDE DEF node
  <2>3. TreePlaced(ns, m) /\ Len(ns) = Len(nodes) + 1
    BY <1>2, <2>1, NodeAdded
  <2> HIDE DEF ns
  <2>4. Len(nodes) <= Len(ns)
    BY <1>2, <2>3
  <2> QED
    BY <1>1, <2>2, <2>3, <2>4, ReturnOrPlaced
<1>7. CASE EndOr
  <2> DEFINE node == Node("alternation", Append(Top.items, SequenceRule), <<>>)
             ns == Append(Sequence, node)
  <2>1. (\E n : ReturnOr(Sequence, n)) \/ (\E n : ReturnOr(ns, n))
    BY <1>7 DEF EndOr
  <2>2. TreePlaced(Sequence, m) /\ Len(nodes) <= Len(Sequence) /\ Len(Sequence) \in Nat
    BY <1>1, SequencePlaced
  <2>3. NodePlaced(node, m)
    BY NodeIsPlaced
  <2> HIDE DEF node
  <2>4. TreePlaced(ns, m) /\ Len(ns) = Len(Sequence) + 1
    BY <2>2, <2>3, NodeAdded
  <2> HIDE DEF ns
  <2>5. Len(nodes) <= Len(ns)
    <3> DEFINE l == Len(nodes)
               k == Len(Sequence)
    <3>1. l \in Nat /\ k \in Nat /\ l <= k /\ Len(ns) = k + 1
      BY <1>2, <2>2, <2>4
    <3> HIDE DEF l, k
    <3>2. l <= k + 1
      BY <3>1
    <3> QED
      BY <3>1, <3>2 DEF l
  <2> QED
    BY <1>1, <2>1, <2>2, <2>4, <2>5, ReturnOrPlaced
<1> QED
  BY <1>3, <1>4, <1>5, <1>6, <1>7 DEF NoFix

LEMMA EndParsePlaced == TilesInv /\ PlacesInv /\ EndParse => PlacesInv'
<1> SUFFICES ASSUME TilesInv, PlacesInv, EndParse PROVE PlacesInv'
  OBVIOUS
<1>1. Ended(tokens) /\ at \in 1 .. Len(tokens)
  BY DEF EndParse, PlacesInv
<1>2. stage' = "parsed" \/ Fail(ErrorAt("LeftoverTokens", tokens[at]))
  BY DEF EndParse
<1> QED
  BY <1>1, <1>2, FailAt DEF PlacesInv, HelpKinds

LEMMA InitPlaces == Init => PlacesInv
  BY DEF Init, PlacesInv

LEMMA StepPlaces == TilesInv /\ LevelsInv /\ PlacesInv /\ [ParserStep]_parserVars => PlacesInv'
<1> SUFFICES ASSUME TilesInv, LevelsInv, PlacesInv, [ParserStep]_parserVars PROVE PlacesInv'
  OBVIOUS
<1>1. CASE LexToken \/ EndLexing
  BY <1>1, LexingPlaced
<1>2. CASE ParseModeModifier \/ ParseLet \/ EndLet \/ ParseBody \/ EndModified
  BY <1>2, ModeModifierPlaced, LetPlaced, EndLetPlaced, BodyPlaced, EndModifiedPlaced
<1>3. CASE ParseLookaround \/ EndLookaround \/ ParseGroup \/ EndGroup \/ ParseAtom \/ NoFix
  BY <1>3, LookaroundPlaced, EndLookaroundPlaced, GroupPlaced, EndGroupPlaced, AtomPlaced, NoFixPlaced
<1>4. CASE EndParse
  BY <1>4, EndParsePlaced
<1>5. CASE UNCHANGED parserVars
  <2>1. /\ stage' = stage /\ at' = at /\ tokens' = tokens /\ nodes' = nodes /\ stack' = stack
        /\ errors' = errors /\ text' = text /\ begin' = begin
    BY <1>5 DEF parserVars, lexVars, parseVars
  <2>2. CASE stage = "lexing"
    BY <2>1, <2>2 DEF PlacesInv
  <2>3. CASE stage = "parsing"
    BY <2>1, <2>3, Running, Continues
  <2>4. CASE stage = "rejected"
    BY <2>1, <2>4 DEF PlacesInv, Place, AtCharacter
  <2>5. CASE stage \notin {"lexing", "parsing", "rejected"}
    BY <2>1, <2>5 DEF PlacesInv
  <2> QED
    BY <2>2, <2>3, <2>4, <2>5
<1> QED
  BY <1>1, <1>2, <1>3, <1>4, <1>5 DEF ParserStep

-----------------------------------------------------------------------------
(***************************************************************************)
(* The empty text is an empty expression                                   *)
(***************************************************************************)
\* No atom begins at the end of the input
LEMMA NoAtomAtEnd ==
  ASSUME NEW ts, NEW o, ts[o].token = "EndOfInput"
  PROVE  LeafAtom(ts, o).is = "absent"
<1> DEFINE results == <<StringAtom(ts, o), CharSet(ts, o), BoundaryAtom(ts, o), ReferenceAtom(ts, o),
                        CodePointAtom(ts, o), RangeAtom(ts, o), RegexAtom(ts, o),
                        VariableAtom(ts, o), DotAtom(ts, o)>>
           pairs == {<<"Caret", "Start">>, <<"Dollar", "End">>, <<"BWord", "Word">>}
<1>1. /\ Absent(o).is = "absent"
      /\ \A token \in {"String", "OpenBracket", "DoubleColon", "CodePoint", "Identifier", "ReservedName", "Dot"} :
           ~Is(ts, o, token)
  BY DEF Absent, Is
<1>2. /\ StringAtom(ts, o) = Absent(o) /\ CharSet(ts, o) = Absent(o) /\ ReferenceAtom(ts, o) = Absent(o)
      /\ RangeAtom(ts, o) = Absent(o) /\ RegexAtom(ts, o) = Absent(o)
      /\ VariableAtom(ts, o) = Absent(o) /\ DotAtom(ts, o) = Absent(o)
  BY <1>1 DEF StringAtom, CharSet, ReferenceAtom, RangeAtom, RegexAtom, VariableAtom, DotAtom, IsReserved
<1>3. BoundaryAtom(ts, o) = Absent(o)
  <2>1. DOMAIN BoundaryKind = {p[1] : p \in pairs}
    BY DEF BoundaryKind, Table
  <2>2. \A p \in pairs : p[1] # "EndOfInput"
    OBVIOUS
  <2> HIDE DEF pairs
  <2> QED
    BY <2>1, <2>2 DEF BoundaryAtom
<1>4. CodePointAtom(ts, o) = Absent(o)
  <2>1. CodePoint(ts, o) = Absent(o)
    BY <1>1 DEF CodePoint
  <2> QED
    BY <1>1, <2>1 DEF CodePointAtom, Then
<1>5. \A i \in 1 .. 9 : results[i] = Absent(o)
  <2>1. /\ results[1] = Absent(o) /\ results[2] = Absent(o) /\ results[3] = Absent(o)
        /\ results[4] = Absent(o) /\ results[5] = Absent(o) /\ results[6] = Absent(o)
        /\ results[7] = Absent(o) /\ results[8] = Absent(o) /\ results[9] = Absent(o)
    BY <1>2, <1>3, <1>4
  <2>2. \A i \in 1 .. 9 : i \in {1, 2, 3, 4, 5, 6, 7, 8, 9}
    OBVIOUS
  <2> HIDE DEF results
  <2> QED
    BY <2>1, <2>2
<1>6. DOMAIN results = 1 .. 9 /\ Len(results) = 9
  OBVIOUS
<1>7. LeafAtom(ts, o) = FirstPresent(results)
  BY Zenon DEF LeafAtom
<1> HIDE DEF results
<1>8. 9 \in Nat \ {0}
  OBVIOUS
<1>9. \E i \in 1 .. 9 : FirstPresent(results) = results[i]
  BY <1>6, <1>8, FirstIsOne
<1> QED
  BY <1>1, <1>5, <1>7, <1>9

LEMMA ShortStacks ==
  ASSUME NEW x, NEW y
  PROVE  /\ Len(<<x>>) = 1 /\ SubSeq(<<x>>, 1, 0) = <<>> /\ Append(<<x>>, y) = <<x, y>>
         /\ Len(<<x, y>>) = 2 /\ SubSeq(<<x, y>>, 1, 1) = <<x>>
<1>1. SubSeq(<<x, y>>, 1, 1) = <<x>>
  <2>1. SubSeq(<<x, y>>, 1, 1) = [k \in 1 .. 1 |-> <<x, y>>[k]]
    OBVIOUS
  <2>2. \A k \in 1 .. 1 : <<x, y>>[k] = <<x>>[k]
    OBVIOUS
  <2>3. <<x>> = [k \in 1 .. 1 |-> <<x>>[k]]
    OBVIOUS
  <2> QED
    BY <2>1, <2>2, <2>3
<1>2. SubSeq(<<x>>, 1, 0) = <<>>
  OBVIOUS
<1>3. Append(<<x>>, y) = <<x, y>>
  <2> DEFINE t == Append(<<x>>, y)
  <2>1. IsStack(<<x>>) /\ Len(<<x>>) = 1 /\ <<x>>[1] = x
    BY OneElement
  <2>2. IsStack(t) /\ Len(t) = 2 /\ t[2] = y /\ t[1] = x
    <3> HIDE DEF t
    <3>1. 1 + 1 = 2 /\ 1 \in 1 .. 1
      OBVIOUS
    <3>2. IsStack(t) /\ Len(t) = 1 + 1 /\ t[1 + 1] = y /\ \A k \in 1 .. 1 : t[k] = <<x>>[k]
      BY <2>1, Appended DEF t
    <3> QED
      BY <2>1, <3>1, <3>2
  <2> HIDE DEF t
  <2>3. t = [k \in 1 .. 2 |-> t[k]]
    BY <2>2 DEF IsStack
  <2>4. \A k \in 1 .. 2 : t[k] = <<x, y>>[k]
    BY <2>2
  <2>5. <<x, y>> = [k \in 1 .. 2 |-> <<x, y>>[k]]
    OBVIOUS
  <2> QED
    BY <2>3, <2>4, <2>5 DEF t
<1> QED
  BY <1>1, <1>2, <1>3

\* The empty text is an empty expression and is never refused
Block == Frame("modified", 0, <<>>)
EmptyInv ==
  text = <<>> =>
    /\ stage \in {"lexing", "parsing", "parsed"}
    /\ stage = "lexing" => tokens = <<>> /\ next = 1 /\ recursion = Limit /\ result = 0
    /\ stage = "parsing" =>
         /\ Len(tokens) = 1 /\ tokens[1].token = "EndOfInput" /\ at = 1
         /\ \/ stack = <<>>
            \/ stack = <<Block>> /\ (result = 0 => recursion = Limit)
            \/ stack = <<Block, Frame("or", 0, <<>>)>> /\ result = 0

LEMMA StepEmpty ==
  ASSUME Limit # 0, TilesInv, PlacesInv, EmptyInv, [ParserStep]_parserVars
  PROVE  EmptyInv'
<1> DEFINE Branch == Frame("or", 0, <<>>)
<1> SUFFICES ASSUME text' = <<>> PROVE EmptyInv'
  BY DEF EmptyInv
<1>u. CASE UNCHANGED parserVars
  BY <1>u DEF parserVars, lexVars, parseVars, EmptyInv
<1> SUFFICES ASSUME ParserStep PROVE EmptyInv'
  BY <1>u
<1>1. text = <<>>
  <2>1. text' = text
    BY DEF ParserStep, LexToken, AddToken, EndLexing, ParseModeModifier, ParseLet, EndLet, ParseBody,
       EndModified, ParseLookaround, EndLookaround, ParseGroup, EndGroup, ParseAtom, NoFix, EndParse,
       LoneNot, NextAlternative, LonePipe, EmptyExpression, EndOr, ReturnOr, AddAtom, AddRepeated,
       AddFix, OpenGroup, CallModified, CallOr, Fail, Going, lexVars
  <2> QED
    BY <2>1
<1>2. ASSUME stage' = "parsed" PROVE EmptyInv'
  BY <1>2 DEF EmptyInv
<1>3. CASE stage = "lexing"
  <2>1. next = 1 /\ tokens = <<>> /\ recursion = Limit /\ result = 0 /\ text \in Texts /\ at = 1
    BY <1>1, <1>3 DEF EmptyInv, TilesInv, PlacesInv
  <2>2. Len(text) = 0 /\ 1 \in 1 .. Len(text) + 1
    BY <1>1
  <2>3. ~(SkipBlanks(text, next) <= Len(text))
    <3>1. SkipBlanks(text, 1) \in 1 .. Len(text) + 1
      BY <2>1, <2>2, SkipBlanksMatch
    <3> QED
      BY <2>1, <2>2, <3>1
  <2>4. EndLexing
    BY <1>3, <2>3 DEF ParserStep, LexToken, ParseModeModifier, ParseLet, EndLet, ParseBody, EndModified,
       ParseLookaround, EndLookaround, ParseGroup, EndGroup, ParseAtom, NoFix, AtAtom, EndParse,
       Calling, Returned
  <2> DEFINE found == {i \in DOMAIN tokens : IsErrorToken(tokens[i])}
             last == [token |-> "EndOfInput", units |-> <<>>,
                      start |-> begin[Len(text) + 1], end |-> begin[Len(text) + 1]]
  <2>5. found = {}
    BY <2>1
  <2>6. /\ tokens' = Append(tokens, last) /\ at' = at /\ recursion' = recursion /\ result' = result
        /\ stage' = IF found = {} THEN "parsing" ELSE "rejected"
        /\ stack' = IF found = {} THEN <<Block>> ELSE <<>>
    BY <2>4 DEF EndLexing, Block
  <2>7. last.token = "EndOfInput"
    OBVIOUS
  <2> HIDE DEF found, last
  <2>8. Append(<<>>, last) = <<last>>
    OBVIOUS
  <2> QED
    BY <2>1, <2>5, <2>6, <2>7, <2>8 DEF EmptyInv
<1>4. CASE stage = "parsing"
  <2>1. /\ Ended(tokens) /\ Len(tokens) = 1 /\ tokens[1].token = "EndOfInput" /\ at = 1
        /\ \A token : token # "EndOfInput" => ~Is(tokens, at, token)
    BY <1>1, <1>4 DEF EmptyInv, PlacesInv, Is
  <2>2. FixAt = at
    <3>1. at \in 1 .. Len(tokens) /\ tokens[at].token # "Not"
      BY <2>1
    <3> QED
      BY <2>1, <3>1, AfterNotsEnds DEF FixAt
  <2>3. LeafAtom(tokens, FixAt).is = "absent"
    BY <2>1, <2>2, NoAtomAtEnd
  <2>4. CASE stack = <<>>
    <3>1. EndParse
      BY <1>4, <2>4 DEF ParserStep, LexToken, EndLexing, ParseModeModifier, ParseLet, EndLet, ParseBody,
         EndModified, ParseLookaround, EndLookaround, ParseGroup, EndGroup, ParseAtom, NoFix, AtAtom,
         Calling, Returned
    <3>2. stage' = "parsed"
      BY <2>1, <3>1 DEF EndParse, Is
    <3> QED
      BY <1>2, <3>2
  <2>5. CASE stack = <<Block>> /\ (result = 0 => recursion = Limit)
    <3>1. Top = Block /\ Block.fn = "modified" /\ Block.items = <<>>
      BY <2>5 DEF Top, Block, Frame
    <3>2. Below = <<>> /\ Append(stack, Branch) = <<Block, Branch>> /\ stack # <<>>
      <4> HIDE DEF Branch
      <4>1. Len(stack) = 1 /\ 1 - 1 = 0 /\ stack # <<>>
        BY <2>5
      <4> QED
        BY <2>5, <4>1, ShortStacks DEF Below
    <3>3. ParseModeModifier \/ ParseLet \/ ParseBody \/ EndModified
      BY <1>4, <3>1, <3>2 DEF ParserStep, LexToken, EndLexing, EndLet, ParseLookaround, EndLookaround,
         ParseGroup, EndGroup, ParseAtom, NoFix, AtAtom, EndParse, Calling, Returned
    <3>4. ParseBody \/ EndModified
      BY <2>1, <3>3 DEF ParseModeModifier, ParseLet, IsReserved
    <3>5. CASE ParseBody
      <4>1. result = 0 /\ CallOr(stack, at)
        BY <3>5 DEF ParseBody, Calling
      <4>2. /\ stack' = Append(stack, Branch) /\ at' = at /\ result' = result
            /\ stage' = stage /\ tokens' = tokens
        BY <2>1, <2>5, <4>1 DEF CallOr, After, Going, lexVars
      <4> QED
        BY <1>4, <2>1, <3>2, <4>1, <4>2 DEF EmptyInv
    <3>6. CASE EndModified
      <4>1. Rebound = {}
        BY <3>1 DEF Rebound
      <4>2. /\ stack' = Below /\ at' = at /\ stage' = stage /\ tokens' = tokens
        BY <3>6, <4>1 DEF EndModified, Going, lexVars
      <4> QED
        BY <1>4, <2>1, <3>2, <4>2 DEF EmptyInv
    <3> QED
      BY <3>4, <3>5, <3>6
  <2>6. CASE stack = <<Block, Branch>> /\ result = 0
    <3>1. Top = Branch /\ Branch.fn = "or" /\ Branch.items = <<>> /\ Branch.fixes = <<>> /\ Branch.from = 0
      BY <2>6 DEF Top, Frame
    <3>2. Below = <<Block>> /\ stack # <<>>
      <4> HIDE DEF Branch
      <4>1. Len(stack) = 2 /\ 2 - 1 = 1 /\ stack # <<>>
        BY <2>6
      <4> QED
        BY <2>6, <4>1, ShortStacks DEF Below
    <3> HIDE DEF Branch
    <3>3. ParseLookaround \/ ParseGroup \/ ParseAtom \/ NoFix
      BY <1>4, <3>1, <3>2 DEF ParserStep, LexToken, EndLexing, ParseModeModifier, ParseLet, EndLet,
         ParseBody, EndModified, EndLookaround, EndGroup, EndParse, Calling, Returned
    <3>4. ~ParseLookaround
      <4> DEFINE pairs == {<<"LookAhead", "Ahead">>, <<"LookBehind", "Behind">>}
      <4>1. DOMAIN LookaroundKind = {p[1] : p \in pairs}
        BY DEF LookaroundKind, Table
      <4>2. \A p \in pairs : p[1] # "EndOfInput"
        OBVIOUS
      <4> HIDE DEF pairs
      <4> QED
        BY <2>1, <2>2, <4>1, <4>2 DEF ParseLookaround
    <3>5. ~ParseGroup /\ ~ParseAtom
      BY <2>1, <2>2, <2>3 DEF ParseGroup, IsGroup, IsReserved, ParseAtom
    <3>6. EmptyExpression
      <4>1. ~LoneNot
        <5>1. ~(at > at)
          BY <2>1
        <5> QED
          BY <2>2, <5>1 DEF LoneNot
      <4> QED
        BY <3>1, <3>3, <3>4, <3>5, <4>1 DEF NoFix, NextAlternative, LonePipe, EndOr
    <3>7. /\ stack' = Below /\ at' = at /\ result' = Len(nodes) + 1 /\ stage' = stage /\ tokens' = tokens
      BY <3>6 DEF EmptyExpression, ReturnOr, Going, lexVars
    <3>8. result' # 0
      <4>1. Len(nodes) \in Nat
        BY <1>4, Running
      <4> QED
        BY <3>7, <4>1
    <3> QED
      BY <1>4, <2>1, <3>2, <3>7, <3>8 DEF EmptyInv
  <2> QED
    BY <1>1, <1>4, <2>4, <2>5, <2>6 DEF EmptyInv
<1>5. CASE stage = "parsed"
  BY <1>5 DEF ParserStep, LexToken, EndLexing, ParseModeModifier, ParseLet, EndLet, ParseBody, EndModified,
     ParseLookaround, EndLookaround, ParseGroup, EndGroup, ParseAtom, NoFix, AtAtom, EndParse,
     Calling, Returned
<1> QED
  BY <1>1, <1>3, <1>4, <1>5 DEF EmptyInv

LEMMA InitEmpty == Init => EmptyInv
  BY DEF Init, EmptyInv

-----------------------------------------------------------------------------
LEMMA PlacesHavePlaces == ErrorsInv /\ PlacesInv /\ EmptyInv => ErrorsHavePlaces
<1> SUFFICES ASSUME ErrorsInv, PlacesInv, EmptyInv, stage = "rejected" PROVE ErrorsHavePlaces
  BY DEF ErrorsHavePlaces
<1>1. errors # <<>> /\ (\A i \in DOMAIN errors : Place(errors[i])) /\ text # <<>>
  BY DEF ErrorsInv, PlacesInv, EmptyInv
<1> QED
  BY <1>1 DEF ErrorsHavePlaces, Place

ParserInv == TilesInv /\ LevelsInv /\ ErrorsInv /\ PlacesInv /\ EmptyInv

LEMMA InitParser == Init => ParserInv
  BY InitTiles, InitLevels, InitErrors, InitPlaces, InitEmpty DEF ParserInv

LEMMA StepParser ==
  ASSUME Limit # 0, ParserInv, [ParserStep]_parserVars
  PROVE  ParserInv'
  BY StepTiles, StepLevels, StepErrors, StepPlaces, StepEmpty DEF ParserInv

\* If expressions may be nested at all, a text that is refused is refused with
\* an error, and every error is about characters of the text or about its end,
\* and the empty text is not refused: the label of a diagnostic is a slice of
\* the source at both ends of the error (diagnostics.rs:62-63, parser.rs:17-75,
\* parser_impl.rs:12-668).
THEOREM ErrorsHavePlacesHolds ==
  ASSUME Limit # 0
  PROVE  Spec => []ErrorsHavePlaces
<1>1. ParserInv => ErrorsHavePlaces
  BY PlacesHavePlaces DEF ParserInv
<1> QED
  BY <1>1, InitParser, StepParser, PTL DEF Spec

-----------------------------------------------------------------------------
(***************************************************************************)
(* What becomes of an error: from_parse_error does not panic.              *)
(***************************************************************************)
LEMMA AtUnit ==
  ASSUME TilesInv, NEW byte, UnitAt(begin, byte) # 0
  PROVE  UnitAt(begin, byte) \in 1 .. Len(text) + 1 /\ begin[UnitAt(begin, byte)] = byte
<1>1. DOMAIN begin = 1 .. Len(text) + 1
  BY BeginsPositions DEF TilesInv, Positions
<1>2. \E i \in DOMAIN begin : begin[i] = byte
  BY DEF UnitAt
<1>3. UnitAt(begin, byte) = CHOOSE i \in DOMAIN begin : begin[i] = byte
  BY <1>2 DEF UnitAt
<1> QED
  BY <1>1, <1>2, <1>3

\* Where an error has a place, it is at characters, and it is not missing
LEMMA PlainError ==
  ASSUME TilesInv, text # <<>>, NEW e, Place(e)
  PROVE  RangeOf(e) = e /\ AtCharacters(e)
<1> DEFINE l == Len(text)
<1>1. text \in Texts /\ Positions(text, begin) /\ l \in Nat /\ l # 0
  BY BeginsPositions, TextLen, EmptySeq DEF TilesInv, Texts
<1>2. 1 \in 1 .. l + 1 /\ l + 1 \in 1 .. l + 1 /\ 1 < l + 1
  BY <1>1
<1>3. begin[1] = 0 /\ begin[l + 1] \in Nat /\ begin[1] < begin[l + 1]
  BY <1>1, <1>2, PositionsGrow DEF Positions
<1>4. UnitAt(begin, e.start) # 0 /\ UnitAt(begin, e.end) # 0
  BY DEF Place, AtCharacter
<1>5. e.start \in Nat /\ e.end \in Nat
  <2>1. \A i \in 1 .. l + 1 : begin[i] \in Nat
    BY <1>1 DEF Positions
  <2> HIDE DEF l
  <2> QED
    BY <1>4, <2>1, AtUnit DEF l
<1>6. e.start < e.end \/ (e.start = e.end /\ e.start = begin[l + 1])
  BY DEF Place
<1> HIDE DEF l
<1>7. e.end # 0 /\ e.start <= e.end
  BY <1>3, <1>5, <1>6
<1> QED
  BY <1>4, <1>7 DEF RangeOf, AtCharacters

\* The units between two places, the first of them before unit x
LEMMA InSlice ==
  ASSUME TilesInv, NEW p \in 1 .. Len(text) + 1, NEW q \in 1 .. Len(text) + 1, NEW x \in Nat, p <= x, x < q
  PROVE  text[x] \in Range(SubSeq(text, p, q - 1))
<1> DEFINE u == SubSeq(text, p, q - 1)
<1>1. text \in Texts /\ Positions(text, begin) /\ Len(text) \in Nat /\ p <= q
  BY BeginsPositions, TextLen DEF TilesInv
<1>2. DOMAIN u = 1 .. q - p /\ \A k \in 1 .. q - p : u[k] = text[p + k - 1]
  BY <1>1, PartPositions
<1>3. x - p + 1 \in 1 .. q - p /\ p + (x - p + 1) - 1 = x
  BY <1>1
<1> HIDE DEF u
<1>4. u[x - p + 1] = text[x] /\ x - p + 1 \in DOMAIN u
  BY <1>2, <1>3
<1> QED
  BY <1>4 DEF Range, u

\* The units of a token, as a slice of the text
LEMMA TokenUnits ==
  ASSUME TilesInv, NEW i \in DOMAIN tokens
  PROVE  \E p, q \in 1 .. Len(text) + 1 :
           /\ tokens[i].start = begin[p] /\ tokens[i].end = begin[q] /\ p <= q
           /\ UnitAt(begin, tokens[i].start) = p /\ UnitAt(begin, tokens[i].end) = q
           /\ tokens[i].token # "EndOfInput" => p < q
           /\ tokens[i].units = SubSeq(text, p, q - 1)
           /\ tokens[i].token = "Dash" => text[p] = "-"
<1>1. text \in Texts /\ Positions(text, begin)
  BY BeginsPositions DEF TilesInv
<1>2. PICK r \in 1 .. Len(text) + 1, p \in 1 .. Len(text) + 1, q \in 1 .. Len(text) + 1 :
        /\ tokens[i].start = begin[p] /\ tokens[i].end = begin[q] /\ p <= q
        /\ p < q \/ tokens[i].token = "EndOfInput"
        /\ tokens[i].units = SubSeq(text, p, q - 1)
        /\ tokens[i].token = "Dash" => text[p] = "-"
  BY DEF TilesInv, Tile
<1>3. UnitAt(begin, begin[p]) = p /\ UnitAt(begin, begin[q]) = q
  BY <1>1, UnitFound
<1> QED
  BY <1>2, <1>3

LEMMA BytesInOrder ==
  ASSUME TilesInv, NEW p \in 1 .. Len(text) + 1, NEW q \in 1 .. Len(text) + 1
  PROVE  p <= q <=> begin[p] <= begin[q]
<1>1. text \in Texts /\ Positions(text, begin) /\ Len(text) \in Nat
  BY BeginsPositions, TextLen DEF TilesInv
<1>2. p < q => begin[p] < begin[q]
  BY <1>1, PositionsGrow
<1>3. q < p => begin[q] < begin[p]
  BY <1>1, PositionsGrow
<1>4. begin[p] \in Nat /\ begin[q] \in Nat
  BY <1>1 DEF Positions
<1>5. p < q \/ q < p \/ p = q
  BY <1>1
<1> QED
  BY <1>1, <1>2, <1>3, <1>4, <1>5

\* The text between two bounds of a range has the dash
LEMMA DashBetween ==
  ASSUME TilesInv, NEW e, Placed(tokens, e), e.kind \in {"RangeIsNotIncreasing", "DescendingRange"}
  PROVE  "-" \in Range(SliceOf(e))
<1>1. Len(tokens) \in Nat /\ DOMAIN tokens = 1 .. Len(tokens)
  BY StackLen DEF TilesInv
<1>2. PICK i \in 1 .. Len(tokens), j \in 1 .. Len(tokens) :
        /\ e.start = tokens[i].start /\ e.end = tokens[j].end
        /\ \E k \in i .. j : Is(tokens, k, "Dash")
  BY DEF Placed, Helps
<1>3. PICK k \in i .. j : tokens[k].token = "Dash"
  BY <1>2 DEF Is
<1>4. k \in 1 .. Len(tokens) /\ (i = k \/ i \in 1 .. k - 1) /\ (k = j \/ k \in 1 .. j - 1)
  BY <1>1, <1>2, <1>3
<1>5. /\ tokens[i].start <= tokens[k].start /\ tokens[k].end <= tokens[j].end
  <2>1. \A x \in 1 .. Len(tokens) :
          tokens[x].start \in Nat /\ tokens[x].end \in Nat /\ tokens[x].start <= tokens[x].end
    BY <1>1, TokenSpan
  <2>2. i \in 1 .. k - 1 => tokens[i].end <= tokens[k].start
    BY <1>1, <1>4, TokensInOrder
  <2>3. k \in 1 .. j - 1 => tokens[k].end <= tokens[j].start
    BY <1>1, <1>4, TokensInOrder
  <2> QED
    BY <1>4, <2>1, <2>2, <2>3
<1>6. PICK p \in 1 .. Len(text) + 1, q \in 1 .. Len(text) + 1 :
        tokens[k].start = begin[p] /\ tokens[k].end = begin[q] /\ p < q /\ text[p] = "-"
  BY <1>1, <1>3, <1>4, TokenUnits
<1>7. PICK a \in 1 .. Len(text) + 1 : tokens[i].start = begin[a] /\ UnitAt(begin, tokens[i].start) = a
  BY <1>1, TokenUnits
<1>8. PICK b \in 1 .. Len(text) + 1 : tokens[j].end = begin[b] /\ UnitAt(begin, tokens[j].end) = b
  BY <1>1, TokenUnits
<1>9. a <= p /\ q <= b
  BY <1>5, <1>6, <1>7, <1>8, BytesInOrder
<1>10. p \in Nat /\ a <= p /\ p < b
  BY <1>6, <1>9, TextLen DEF TilesInv
<1>11. text[p] \in Range(SubSeq(text, a, b - 1))
  BY <1>10, InSlice
<1>12. SliceOf(e) = SubSeq(text, a, b - 1)
  BY <1>2, <1>7, <1>8 DEF SliceOf
<1> QED
  BY <1>6, <1>11, <1>12

\* No error makes from_parse_error panic
LEMMA NoParsePanic ==
  ASSUME TilesInv, text # <<>>, NEW e, Place(e)
  PROVE  ~FromParseErrorPanics(e)
<1>1. RangeOf(e) = e /\ AtCharacters(e)
  BY PlainError
<1>2. ~HelpPanics(e)
  <2> SUFFICES ASSUME e.kind \in {"RangeIsNotIncreasing", "DescendingRange"} PROVE "-" \in Range(SliceOf(e))
    BY DEF HelpPanics
  <2>1. e.kind \in HelpKinds
    BY DEF HelpKinds
  <2>2. Placed(tokens, e)
    BY <2>1 DEF Place
  <2> QED
    BY <2>2, DashBetween
<1> QED
  BY <1>1, <1>2 DEF FromParseErrorPanics

-----------------------------------------------------------------------------
(***************************************************************************)
(* How deep the tree is.  D gives each node a number that is at least the  *)
(* depth of the tree below it, and the numbers of the rules that a frame   *)
(* has collected are bounded by the levels that were left when it began:   *)
(* an expression of an alternative of a sequence of repetitions of a group *)
(* is four nodes, and has taken two levels.                                *)
(***************************************************************************)
Own(node) == IF node.kind \in {"stmt", "let"} THEN 0 ELSE 1

DeepList(list, n, D, b) ==
  IsStack(list) /\ \A i \in DOMAIN list : list[i] \in 1 .. n /\ D[list[i]] <= b

NodeDeep(node, i, D) ==
  /\ NodeFields \subseteq DOMAIN node
  /\ Own(node) <= D[i]
  /\ DeepList(node.kids, i - 1, D, D[i] - Own(node))

TreeDeep(ns, D) ==
  /\ IsStack(ns)
  /\ D \in [1 .. Len(ns) -> Nat]
  /\ \A i \in 1 .. Len(ns) : NodeDeep(ns[i], i, D)

\* The levels that were left when the function of frame k of the stack began
Left(s, k) == Limit - Cardinality(LevelsUpTo(s, k))

Lists == {"fn", "items", "fixes", "nots"}
FrameDeep(f, left, n, D) ==
  /\ Lists \subseteq DOMAIN f /\ f.fn \in Functions
  /\ DeepList(f.items, n, D, 2 * left + (IF f.fn = "or" THEN 3 ELSE 2))
  /\ DeepList(f.fixes, n, D, 2 * left + 2)
StackDeep(s, n, D) == IsStack(s) /\ \A k \in DOMAIN s : FrameDeep(s[k], Left(s, k), n, D)

Deep(ns, s, r, left, D) ==
  /\ TreeDeep(ns, D)
  /\ StackDeep(s, Len(ns), D)
  /\ r \in 0 .. Len(ns) /\ (r # 0 => D[r] <= 2 * left + 2)
DepthInv == \E D : Deep(nodes, stack, result, recursion, D)

LEMMA DeepListAppended ==
  ASSUME NEW list, NEW n, NEW D, NEW b, DeepList(list, n, D, b), NEW x \in 1 .. n, D[x] <= b
  PROVE  DeepList(Append(list, x), n, D, b)
<1> DEFINE l == Len(list)
           t == Append(list, x)
<1>1. /\ IsStack(t) /\ DOMAIN t = 1 .. l + 1 /\ t[l + 1] = x /\ l \in Nat /\ DOMAIN list = 1 .. l
      /\ \A i \in 1 .. l : t[i] = list[i]
  BY Appended, StackLen DEF DeepList
<1> HIDE DEF l, t
<1>2. \A i \in 1 .. l + 1 : i = l + 1 \/ i \in 1 .. l
  BY <1>1
<1> QED
  BY <1>1, <1>2 DEF DeepList, t

LEMMA NoList ==
  ASSUME NEW n, NEW D, NEW b
  PROVE  DeepList(<<>>, n, D, b)
<1>1. IsStack(<<>>)
  BY EmptySeq, StackOf
<1>2. \A i \in DOMAIN <<>> : FALSE
  OBVIOUS
<1> QED
  BY <1>1, <1>2 DEF DeepList

LEMMA OneRule ==
  ASSUME NEW n, NEW D, NEW b, NEW x \in 1 .. n, D[x] <= b
  PROVE  DeepList(<<x>>, n, D, b)
<1> DEFINE t == <<x>>
<1>1. IsStack(t) /\ \A i \in DOMAIN t : t[i] = x
  <2>1. t \in Seq({x}) /\ \A i \in DOMAIN t : t[i] = x
    OBVIOUS
  <2> HIDE DEF t
  <2> QED
    BY <2>1, StackOf
<1> HIDE DEF t
<1>2. DeepList(t, n, D, b)
  BY <1>1 DEF DeepList
<1> QED
  BY <1>2 DEF t

LEMMA DeepListGrows ==
  ASSUME NEW list, NEW n \in Nat, NEW D \in [1 .. n -> Nat], NEW b \in Int, DeepList(list, n, D, b),
         NEW m \in Nat, n <= m, NEW E, \A i \in 1 .. n : E[i] = D[i],
         NEW c \in Int, b <= c
  PROVE  DeepList(list, m, E, c)
<1> SUFFICES ASSUME NEW i \in DOMAIN list PROVE list[i] \in 1 .. m /\ E[list[i]] <= c
  BY DEF DeepList
<1> DEFINE x == list[i]
<1>1. x \in 1 .. n /\ D[x] <= b
  BY DEF DeepList
<1> HIDE DEF x
<1>2. D[x] \in Nat /\ E[x] = D[x] /\ x \in 1 .. m
  BY <1>1
<1>3. E[x] <= c
  BY <1>1, <1>2
<1> QED
  BY <1>2, <1>3 DEF x

\* A larger tree, with the same numbers for the nodes that were there
Grown(ns, D, ms, E) ==
  /\ TreeDeep(ms, E)
  /\ Len(ns) \in Nat /\ Len(ms) \in Nat /\ Len(ns) <= Len(ms)
  /\ \A i \in 1 .. Len(ns) : E[i] = D[i]

LEMMA SameTree ==
  ASSUME NEW ns, NEW D, TreeDeep(ns, D)
  PROVE  Grown(ns, D, ns, D)
<1>1. Len(ns) \in Nat
  BY StackLen DEF TreeDeep
<1>2. Len(ns) <= Len(ns)
  <2> DEFINE l == Len(ns)
  <2>1. l \in Nat
    BY <1>1
  <2> HIDE DEF l
  <2>2. l <= l
    BY <2>1
  <2> QED
    BY <2>2 DEF l
<1> QED
  BY <1>1, <1>2 DEF Grown

LEMMA GrownTwice ==
  ASSUME NEW ns, NEW D, NEW ms, NEW E, NEW ls, NEW F, Grown(ns, D, ms, E), Grown(ms, E, ls, F)
  PROVE  Grown(ns, D, ls, F)
<1> DEFINE n == Len(ns)
           m == Len(ms)
           l == Len(ls)
<1>1. n \in Nat /\ m \in Nat /\ l \in Nat /\ n <= m /\ m <= l
  BY DEF Grown
<1>2. /\ \A i \in 1 .. n : E[i] = D[i]
      /\ \A i \in 1 .. m : F[i] = E[i]
  BY DEF Grown
<1> HIDE DEF n, m, l
<1>3. n <= l /\ \A i \in 1 .. n : F[i] = D[i]
  BY <1>1, <1>2
<1> QED
  BY <1>1, <1>3 DEF Grown, n, m, l

\* A node over rules of the tree joins it
LEMMA NodeJoins ==
  ASSUME NEW ns, NEW D, TreeDeep(ns, D),
         NEW node, NodeFields \subseteq DOMAIN node,
         NEW d \in Nat, Own(node) <= d, DeepList(node.kids, Len(ns), D, d - Own(node))
  PROVE  \E E : Grown(ns, D, Append(ns, node), E) /\ E[Len(ns) + 1] = d
                /\ Len(Append(ns, node)) = Len(ns) + 1
<1> DEFINE n == Len(ns)
           ms == Append(ns, node)
           E == [i \in 1 .. n + 1 |-> IF i = n + 1 THEN d ELSE D[i]]
<1>1. /\ IsStack(ms) /\ n \in Nat /\ Len(ms) = n + 1 /\ ms[n + 1] = node
      /\ \A i \in 1 .. n : ms[i] = ns[i]
  BY Appended, StackLen DEF TreeDeep
<1>2. D \in [1 .. n -> Nat] /\ \A i \in 1 .. n : NodeDeep(ns[i], i, D)
  BY DEF TreeDeep
<1>3. DeepList(node.kids, n, D, d - Own(node)) /\ Own(node) \in Nat
  BY DEF Own
<1> HIDE DEF n, ms
<1>4. E \in [1 .. n + 1 -> Nat] /\ E[n + 1] = d /\ \A i \in 1 .. n : E[i] = D[i]
  BY <1>1, <1>2
<1> HIDE DEF E
<1>5. ASSUME NEW i \in 1 .. n PROVE NodeDeep(ms[i], i, E)
  <2> DEFINE x == ns[i]
             b == D[i] - Own(x)
  <2>1. NodeDeep(x, i, D) /\ ms[i] = x /\ E[i] = D[i] /\ D[i] \in Nat
    BY <1>1, <1>2, <1>4
  <2>2. Own(x) \in Nat
    BY DEF Own
  <2>3. DeepList(x.kids, i - 1, D, b)
    BY <2>1 DEF NodeDeep
  <2>4. b \in Int /\ i - 1 \in Nat
    <3> HIDE DEF x
    <3> QED
      BY <2>1, <2>2
  <2> HIDE DEF x, b
  <2>5. SUFFICES DeepList(x.kids, i - 1, E, b)
    BY <2>1, <2>5 DEF NodeDeep, b
  <2>6. \A k \in DOMAIN x.kids : x.kids[k] \in 1 .. i - 1 /\ D[x.kids[k]] <= b
    BY <2>3 DEF DeepList
  <2>7. \A k : k \in 1 .. i - 1 => E[k] = D[k]
    BY <1>1, <1>4
  <2> QED
    BY <2>3, <2>6, <2>7 DEF DeepList
<1>6. NodeDeep(node, n + 1, E)
  <2> DEFINE x == n + 1
  <2>1. x - 1 = n /\ E[x] = d
    BY <1>1, <1>4
  <2>2. DeepList(node.kids, n, E, d - Own(node))
    BY <1>3, <1>4 DEF DeepList
  <2> HIDE DEF x
  <2>3. Own(node) <= E[x] /\ DeepList(node.kids, x - 1, E, E[x] - Own(node))
    BY <2>1, <2>2, Zenon
  <2>4. NodeDeep(node, x, E)
    BY <2>3, Zenon DEF NodeDeep
  <2> QED
    BY <2>4 DEF x
<1>7. \A i \in 1 .. n + 1 : NodeDeep(ms[i], i, E)
  <2>1. \A i \in 1 .. n + 1 : i = n + 1 \/ i \in 1 .. n
    BY <1>1
  <2> QED
    BY <1>1, <1>5, <1>6, <2>1
<1>8. TreeDeep(ms, E)
  BY <1>1, <1>4, <1>7 DEF TreeDeep
<1>9. n + 1 \in Nat /\ n <= n + 1
  BY <1>1
<1> QED
  BY <1>1, <1>4, <1>8, <1>9 DEF Grown, n, ms

\* Negating a node leaves the tree as deep as it is
LEMMA NegatedDeep ==
  ASSUME NEW ns, NEW D, TreeDeep(ns, D), NEW n, NEW nots
  PROVE  TreeDeep(Negated(ns, n, nots), D) /\ Len(Negated(ns, n, nots)) = Len(ns)
<1> DEFINE x == NegationTarget(ns, n)
           node == [ns[x] EXCEPT !.negative = TRUE]
           t == [ns EXCEPT ![x].negative = TRUE]
           l == Len(ns)
<1>1. CASE nots = 0
  BY <1>1 DEF Negated
<1>2. CASE nots # 0
  <2>1. Negated(ns, n, nots) = t
    BY <1>2, Zenon DEF Negated
  <2> DEFINE S == {ns[i] : i \in 1 .. l} \cup {node}
  <2>2. /\ l \in Nat /\ DOMAIN ns = 1 .. l /\ IsStack(ns)
        /\ D \in [1 .. l -> Nat] /\ \A i \in 1 .. l : NodeDeep(ns[i], i, D)
    BY StackLen DEF TreeDeep
  <2>3. ns \in [1 .. l -> {ns[i] : i \in 1 .. l}]
    BY <2>2, LenProperties DEF IsStack
  <2>4. /\ DOMAIN t = 1 .. l /\ \A i \in 1 .. l : t[i] = IF i = x THEN node ELSE ns[i]
        /\ t \in [1 .. l -> S]
    <3> HIDE DEF x, l
    <3> QED
      BY <2>2, <2>3
  <2> HIDE DEF t, S, l
  <2>5. t \in Seq(S)
    BY <2>2, <2>4, SeqDef
  <2>6. IsStack(t) /\ Len(t) = l
    <3>1. IsStack(t)
      BY <2>5, StackOf
    <3>2. Len(t) \in Nat /\ DOMAIN t = 1 .. Len(t)
      BY <3>1, StackLen
    <3>3. Len(t) = l
      BY <2>2, <2>4, <3>2
    <3> QED
      BY <3>1, <3>3
  <2>7. x \in 1 .. l => NodeDeep(node, x, D)
    <3>1. ASSUME NodeDeep(ns[x], x, D) PROVE NodeDeep(node, x, D)
      <4> DEFINE f == ns[x]
      <4>1. NodeDeep(f, x, D) /\ node = [f EXCEPT !.negative = TRUE]
        BY <3>1
      <4> HIDE DEF f, node, x
      <4>2. NodeFields \subseteq DOMAIN f
        BY <4>1 DEF NodeDeep
      <4>3. NodeFields \subseteq DOMAIN node /\ node.kind = f.kind /\ node.kids = f.kids
        BY <4>1, <4>2 DEF NodeFields
      <4>4. Own(node) = Own(f)
        BY <4>3 DEF Own
      <4> QED
        BY <4>1, <4>3, <4>4, Zenon DEF NodeDeep
    <3> QED
      BY <2>2, <3>1
  <2> HIDE DEF x, node
  <2>8. \A i \in 1 .. l : NodeDeep(t[i], i, D)
    BY <2>2, <2>4, <2>7
  <2> QED
    BY <2>1, <2>2, <2>6, <2>8 DEF TreeDeep, l
<1> QED
  BY <1>1, <1>2

-----------------------------------------------------------------------------
\* The frames, while the tree grows and functions are called and return
LEMMA LeftIs ==
  ASSUME NEW s, NEW left, Balanced(s, left)
  PROVE  /\ Left(s, Len(s)) = left /\ left \in Nat /\ Len(s) \in Nat
         /\ \A k \in Nat : Left(s, k) \in Int
<1>1. Len(s) \in Nat
  BY StackLen DEF Balanced
<1>2. \A k \in Nat : Cardinality(LevelsUpTo(s, k)) \in Nat
  BY LevelsFinite
<1> DEFINE taken == Cardinality(LevelsUpTo(s, Len(s)))
<1>3. left \in Nat /\ left + taken = Limit /\ taken \in Nat
  BY <1>1, <1>2 DEF Balanced
<1> HIDE DEF taken
<1>4. Limit - taken = left
  BY <1>3, LimitAssumption
<1>5. \A k \in Nat : Left(s, k) \in Int
  BY <1>2, LimitAssumption DEF Left
<1> QED
  BY <1>1, <1>3, <1>4, <1>5 DEF Left, taken

LEMMA StackDeepGrows ==
  ASSUME NEW s, NEW left, Balanced(s, left), NEW ns, NEW D, TreeDeep(ns, D), StackDeep(s, Len(ns), D),
         NEW ms, NEW E, Grown(ns, D, ms, E)
  PROVE  StackDeep(s, Len(ms), E)
<1> SUFFICES ASSUME NEW k \in DOMAIN s PROVE FrameDeep(s[k], Left(s, k), Len(ms), E)
  BY DEF StackDeep
<1> DEFINE n == Len(ns)
           m == Len(ms)
           f == s[k]
           l == Left(s, k)
<1>1. n \in Nat /\ m \in Nat /\ n <= m /\ D \in [1 .. n -> Nat] /\ \A i \in 1 .. n : E[i] = D[i]
  BY DEF Grown, TreeDeep
<1>2. l \in Int
  BY LeftIs, StackLen DEF StackDeep
<1>3. FrameDeep(f, l, n, D)
  BY DEF StackDeep
<1> HIDE DEF n, m, f, l
<1>4. \A list, b : b \in Int /\ DeepList(list, n, D, b) => DeepList(list, m, E, b)
  <2> SUFFICES ASSUME NEW list, NEW b \in Int, DeepList(list, n, D, b) PROVE DeepList(list, m, E, b)
    OBVIOUS
  <2>1. b <= b
    OBVIOUS
  <2> QED
    BY <1>1, <2>1, DeepListGrows
<1>5. 2 * l + (IF f.fn = "or" THEN 3 ELSE 2) \in Int /\ 2 * l + 2 \in Int
  BY <1>2
<1>6. FrameDeep(f, l, m, E)
  BY <1>3, <1>4, <1>5, Zenon DEF FrameDeep
<1> QED
  BY <1>6 DEF f, l, m

LEMMA NewFrameDeep ==
  ASSUME NEW fn \in Functions, NEW from, NEW tag, NEW left, NEW n, NEW D
  PROVE  FrameDeep(Frame(fn, from, tag), left, n, D)
<1> DEFINE f == Frame(fn, from, tag)
<1>1. Lists \subseteq DOMAIN f /\ f.fn = fn /\ f.items = <<>> /\ f.fixes = <<>>
  BY DEF Frame, Lists
<1> HIDE DEF f
<1>2. FrameDeep(f, left, n, D)
  BY <1>1, NoList, Zenon DEF FrameDeep
<1> QED
  BY <1>2 DEF f

\* Up to a frame that stays, the levels are the same
LEMMA LeftStays ==
  ASSUME NEW s, NEW t, NEW n \in Nat, \A k \in 1 .. n : t[k].fn = s[k].fn
  PROVE  \A k \in 1 .. n : Left(t, k) = Left(s, k)
<1> SUFFICES ASSUME NEW k \in 1 .. n PROVE Left(t, k) = Left(s, k)
  OBVIOUS
<1>1. LevelsUpTo(t, k) = LevelsUpTo(s, k)
  <2>1. k \in Nat /\ \A j \in 1 .. k : t[j].fn = s[j].fn
    OBVIOUS
  <2> QED
    BY <2>1, SameLevels
<1> QED
  BY <1>1 DEF Left

LEMMA DeepFramePushed ==
  ASSUME NEW s, NEW n, NEW D, StackDeep(s, n, D),
         NEW f, \A left : FrameDeep(f, left, n, D)
  PROVE  StackDeep(Append(s, f), n, D)
<1> DEFINE t == Append(s, f)
           l == Len(s)
<1>1. /\ IsStack(t) /\ l \in Nat /\ DOMAIN s = 1 .. l /\ DOMAIN t = 1 .. l + 1
      /\ t[l + 1] = f /\ \A k \in 1 .. l : t[k] = s[k]
  BY Appended, StackLen DEF StackDeep
<1> HIDE DEF t, l
<1>2. \A k \in 1 .. l : Left(t, k) = Left(s, k)
  BY <1>1, LeftStays
<1>3. ASSUME NEW k \in 1 .. l + 1 PROVE FrameDeep(t[k], Left(t, k), n, D)
  <2>1. k = l + 1 \/ k \in 1 .. l
    BY <1>1
  <2> QED
    BY <1>1, <1>2, <2>1 DEF StackDeep
<1> QED
  BY <1>1, <1>3 DEF StackDeep, t

LEMMA DeepFramePopped ==
  ASSUME NEW s, NEW n, NEW D, StackDeep(s, n, D), s # <<>>
  PROVE  /\ StackDeep(SubSeq(s, 1, Len(s) - 1), n, D)
         /\ FrameDeep(s[Len(s)], Left(s, Len(s)), n, D)
<1> DEFINE t == SubSeq(s, 1, Len(s) - 1)
           l == Len(s)
<1>1. /\ IsStack(s) /\ l \in Nat \ {0} /\ DOMAIN s = 1 .. l
      /\ IsStack(t) /\ Len(t) = l - 1 /\ \A k \in 1 .. l - 1 : t[k] = s[k]
  BY StackLen, Popped DEF StackDeep
<1>2. DOMAIN t = 1 .. l - 1
  BY <1>1, StackLen
<1> HIDE DEF t, l
<1>3. \A k \in 1 .. l : FrameDeep(s[k], Left(s, k), n, D)
  BY <1>1 DEF StackDeep
<1>4. \A k \in 1 .. l - 1 : Left(t, k) = Left(s, k)
  <2>1. l - 1 \in Nat
    BY <1>1
  <2> QED
    BY <1>1, <2>1, LeftStays
<1>5. \A k \in 1 .. l - 1 : FrameDeep(t[k], Left(t, k), n, D)
  BY <1>1, <1>3, <1>4
<1>6. l \in 1 .. l
  BY <1>1
<1> QED
  BY <1>1, <1>2, <1>3, <1>5, <1>6 DEF StackDeep, t, l

\* The top frame is updated
LEMMA DeepFrameUpdated ==
  ASSUME NEW s, NEW left, Balanced(s, left), NEW n, NEW D, StackDeep(s, n, D), s # <<>>,
         NEW f, f.fn = s[Len(s)].fn, FrameDeep(f, left, n, D)
  PROVE  StackDeep(Append(SubSeq(s, 1, Len(s) - 1), f), n, D)
<1> DEFINE b == SubSeq(s, 1, Len(s) - 1)
           t == Append(b, f)
           l == Len(s)
<1>1. /\ IsStack(s) /\ l \in Nat \ {0} /\ DOMAIN s = 1 .. l
      /\ IsStack(b) /\ Len(b) = l - 1 /\ \A k \in 1 .. l - 1 : b[k] = s[k]
  BY StackLen, Popped DEF StackDeep
<1> HIDE DEF b
<1>2. /\ IsStack(t) /\ DOMAIN t = 1 .. Len(b) + 1 /\ t[Len(b) + 1] = f
      /\ \A k \in 1 .. Len(b) : t[k] = b[k]
  <2>1. IsStack(b)
    BY <1>1
  <2> QED
    BY <2>1, Appended
<1>3. Left(s, l) = left
  BY LeftIs
<1> HIDE DEF t, l
<1>4. /\ DOMAIN t = 1 .. l /\ t[l] = f /\ \A k \in 1 .. l - 1 : t[k] = s[k]
  <2>1. Len(b) + 1 = l
    BY <1>1
  <2> QED
    BY <1>1, <1>2, <2>1
<1>5. \A k \in 1 .. l : t[k].fn = s[k].fn
  <2>1. \A k \in 1 .. l : k = l \/ k \in 1 .. l - 1
    BY <1>1
  <2> QED
    BY <1>4, <2>1 DEF l
<1>6. \A k \in 1 .. l : Left(t, k) = Left(s, k)
  BY <1>1, <1>5, LeftStays
<1>7. ASSUME NEW k \in 1 .. l PROVE FrameDeep(t[k], Left(t, k), n, D)
  <2>1. CASE k = l
    BY <1>3, <1>4, <1>6, <2>1
  <2>2. CASE k # l
    <3>1. k \in 1 .. l - 1
      BY <1>1, <2>2
    <3> QED
      BY <1>1, <1>4, <1>6, <3>1 DEF StackDeep
  <2> QED
    BY <2>1, <2>2
<1> QED
  BY <1>2, <1>4, <1>7 DEF StackDeep, t, b

\* What a step does to a frame
LEMMA FrameDeepChanged ==
  ASSUME NEW f, NEW left \in Int, NEW n, NEW D, FrameDeep(f, left, n, D), NEW x
  PROVE  /\ [f EXCEPT !.nots = x].fn = f.fn
         /\ FrameDeep([f EXCEPT !.nots = x], left, n, D)
         /\ x \in 1 .. n /\ D[x] \in Nat /\ D[x] <= 2 * left + 2 =>
              /\ [f EXCEPT !.items = Append(@, x)].fn = f.fn
              /\ FrameDeep([f EXCEPT !.items = Append(@, x)], left, n, D)
              /\ [f EXCEPT !.fixes = Append(@, x)].fn = f.fn
              /\ FrameDeep([f EXCEPT !.fixes = Append(@, x)], left, n, D)
<1> DEFINE g == [f EXCEPT !.items = Append(@, x)]
           h == [f EXCEPT !.fixes = Append(@, x)]
           e == [f EXCEPT !.nots = x]
           b == 2 * left + (IF f.fn = "or" THEN 3 ELSE 2)
           c == 2 * left + 2
<1>1. /\ Lists \subseteq DOMAIN f /\ f.fn \in Functions
      /\ DeepList(f.items, n, D, b) /\ DeepList(f.fixes, n, D, c)
  BY Zenon DEF FrameDeep
<1>2. /\ Lists \subseteq DOMAIN g /\ g.fn = f.fn /\ g.items = Append(f.items, x) /\ g.fixes = f.fixes
      /\ Lists \subseteq DOMAIN h /\ h.fn = f.fn /\ h.items = f.items /\ h.fixes = Append(f.fixes, x)
      /\ Lists \subseteq DOMAIN e /\ e.fn = f.fn /\ e.items = f.items /\ e.fixes = f.fixes
  BY <1>1 DEF Lists
<1> HIDE DEF g, h, e
<1>3. FrameDeep(e, left, n, D)
  BY <1>1, <1>2, Zenon DEF FrameDeep
<1>4. ASSUME x \in 1 .. n, D[x] \in Nat, D[x] <= c
      PROVE  FrameDeep(g, left, n, D) /\ FrameDeep(h, left, n, D)
  <2>1. DeepList(Append(f.fixes, x), n, D, c)
    BY <1>1, <1>4, DeepListAppended
  <2>2. DeepList(Append(f.items, x), n, D, b)
    <3>0. DeepList(f.items, n, D, b)
      BY <1>1
    <3>1. CASE f.fn # "or"
      <4>1. b = c
        BY <3>1
      <4> HIDE DEF b, c
      <4> QED
        BY <1>4, <3>0, <4>1, DeepListAppended
    <3>2. CASE f.fn = "or"
      <4> DEFINE y == D[x]
      <4>1. y \in Nat /\ y <= c
        BY <1>4
      <4> HIDE DEF y
      <4>2. y <= b
        BY <3>2, <4>1
      <4> HIDE DEF b
      <4> QED
        BY <1>4, <3>0, <4>2, DeepListAppended DEF y
    <3> QED
      BY <3>1, <3>2
  <2> QED
    BY <1>1, <1>2, <2>1, <2>2, Zenon DEF FrameDeep
<1> QED
  BY <1>2, <1>3, <1>4 DEF g, h, e

WithItem(f, x) == [f EXCEPT !.items = Append(@, x)]
WithFix(f, x) == [f EXCEPT !.fixes = Append(@, x)]
LEMMA RuleJoinsFrame ==
  ASSUME NEW f, NEW left \in Int, NEW n, NEW D, FrameDeep(f, left, n, D),
         NEW x, x \in 1 .. n, D[x] \in Nat, D[x] <= 2 * left + 2
  PROVE  /\ WithItem(f, x).fn = f.fn /\ FrameDeep(WithItem(f, x), left, n, D)
         /\ WithFix(f, x).fn = f.fn /\ FrameDeep(WithFix(f, x), left, n, D)
<1> DEFINE Joins(y) == y \in 1 .. n /\ D[y] \in Nat /\ D[y] <= 2 * left + 2
<1>1. Joins(x)
  OBVIOUS
<1>2. /\ [f EXCEPT !.nots = x].fn = f.fn
      /\ FrameDeep([f EXCEPT !.nots = x], left, n, D)
      /\ Joins(x) =>
              /\ [f EXCEPT !.items = Append(@, x)].fn = f.fn
              /\ FrameDeep([f EXCEPT !.items = Append(@, x)], left, n, D)
              /\ [f EXCEPT !.fixes = Append(@, x)].fn = f.fn
              /\ FrameDeep([f EXCEPT !.fixes = Append(@, x)], left, n, D)
  BY FrameDeepChanged
<1> HIDE DEF Joins
<1> QED
  BY <1>1, <1>2 DEF WithItem, WithFix

-----------------------------------------------------------------------------
\* The steps, by what they do to the tree and the frames
LEMMA DeepNext ==
  ASSUME NEW D, Deep(nodes', stack', result', recursion', D)
  PROVE  DepthInv'
  BY DEF DepthInv, Deep, TreeDeep, StackDeep, NodeDeep, FrameDeep, DeepList, Own, Left, LevelsUpTo, IsStack,
     NodeFields, Lists, Functions, Levels

LEMMA DeepStays ==
  ASSUME DepthInv, UNCHANGED parseVars
  PROVE  DepthInv'
<1>1. PICK D : Deep(nodes, stack, result, recursion, D)
  BY DEF DepthInv
<1>2. Deep(nodes', stack', result', recursion', D)
  BY <1>1 DEF parseVars
<1> QED
  BY <1>2, DeepNext

LEMMA FailDeep ==
  ASSUME DepthInv, NEW error, Fail(error)
  PROVE  DepthInv'
  BY DeepStays DEF Fail

LEMMA CallOrDeep ==
  ASSUME DepthInv, result = 0,
         NEW D, TreeDeep(nodes, D), NEW frames, StackDeep(frames, Len(nodes), D),
         NEW o, CallOr(frames, o)
  PROVE  DepthInv'
<1> DEFINE f == Frame("or", IF Is(tokens, o, "Pipe") THEN o ELSE 0, <<>>)
<1>1. CASE recursion = 0
  BY <1>1, FailDeep DEF CallOr
<1>2. CASE recursion # 0
  <2>1. stack' = Append(frames, f) /\ nodes' = nodes /\ result' = 0
    BY <1>2 DEF CallOr
  <2>2. \A left : FrameDeep(f, left, Len(nodes), D)
    BY NewFrameDeep DEF Functions
  <2> HIDE DEF f
  <2>3. StackDeep(Append(frames, f), Len(nodes), D)
    BY <2>2, DeepFramePushed
  <2>4. Len(nodes) \in Nat
    BY StackLen DEF TreeDeep
  <2>5. Deep(nodes', stack', result', recursion', D)
    <3>1. 0 \in 0 .. Len(nodes)
      BY <2>4
    <3> QED
      BY <2>1, <2>3, <3>1 DEF Deep
  <2> QED
    BY <2>5, DeepNext
<1> QED
  BY <1>1, <1>2

LEMMA CallModifiedDeep ==
  ASSUME LevelsInv, DepthInv, stack # <<>>, result = 0,
         NEW fn \in {"group", "lookaround"}, NEW tag, NEW o, CallModified(fn, tag, o)
  PROVE  DepthInv'
<1>1. CASE recursion = 0
  BY <1>1, FailDeep DEF CallModified
<1>2. CASE recursion # 0
  <2> DEFINE caller == [Top EXCEPT !.nots = FixAt - at]
             f == Frame(fn, at, tag)
             block == Frame("modified", 0, <<>>)
             s0 == Append(SubSeq(stack, 1, Len(stack) - 1), caller)
             s1 == Append(s0, f)
             s2 == Append(s1, block)
             n == Len(nodes)
  <2>1. PICK D : Deep(nodes, stack, result, recursion, D)
    BY DEF DepthInv
  <2>2. stack' = s0 \o <<f, block>> /\ nodes' = nodes /\ result' = 0
    BY <1>2 DEF CallModified, Replaced, Below
  <2>3. Balanced(stack, recursion) /\ StackDeep(stack, n, D) /\ TreeDeep(nodes, D) /\ n \in Nat
    BY <2>1, StackLen DEF LevelsInv, Deep, TreeDeep
  <2>4. (\A left : FrameDeep(f, left, n, D)) /\ \A left : FrameDeep(block, left, n, D)
    BY NewFrameDeep DEF Functions
  <2>5. FrameDeep(caller, recursion, n, D) /\ caller.fn = stack[Len(stack)].fn
    <3>1. FrameDeep(stack[Len(stack)], Left(stack, Len(stack)), n, D)
      BY <2>3, DeepFramePopped
    <3>2. FrameDeep(Top, recursion, n, D) /\ recursion \in Int
      BY <2>3, <3>1, LeftIs DEF Top
    <3> HIDE DEF n
    <3> QED
      BY <3>2, FrameDeepChanged DEF Top
  <2> HIDE DEF f, block, caller, n
  <2>6. StackDeep(s0, n, D)
    BY <2>3, <2>5, DeepFrameUpdated
  <2> HIDE DEF s0
  <2>7. StackDeep(s1, n, D)
    BY <2>4, <2>6, DeepFramePushed
  <2>8. s0 \o <<f, block>> = s2
    <3> DEFINE S == {s0[k] : k \in DOMAIN s0} \cup {f, block}
    <3>1. s0 \in Seq(S) /\ f \in S /\ block \in S
      BY <2>6, SeqMonotonic DEF StackDeep, IsStack
    <3> HIDE DEF S
    <3> QED
      BY <3>1
  <2> HIDE DEF s1
  <2>9. StackDeep(s2, n, D)
    BY <2>4, <2>7, DeepFramePushed
  <2>10. Deep(nodes', stack', result', recursion', D)
    <3>1. 0 \in 0 .. n
      BY <2>3
    <3> HIDE DEF s2
    <3> QED
      BY <2>2, <2>3, <2>8, <2>9, <3>1 DEF Deep, n
  <2> QED
    BY <2>10, DeepNext
<1> QED
  BY <1>1, <1>2

\* The last node of the larger tree ns joins the sequence of the frame on top of
\* s, which had `left` levels
LEMMA AddFixDeep ==
  ASSUME DepthInv, NEW s, NEW left, Balanced(s, left), s # <<>>,
         NEW D, TreeDeep(nodes, D), StackDeep(s, Len(nodes), D),
         NEW ns, NEW E, Grown(nodes, D, ns, E), Len(ns) # 0, E[Len(ns)] <= 2 * left + 2,
         NEW o, NEW from, NEW nots,
         AddFix(ns, o, left, SubSeq(s, 1, Len(s) - 1), s[Len(s)], from, nots)
  PROVE  DepthInv'
<1> DEFINE n == Len(ns)
           f == WithFix(s[Len(s)], n)
           ms == Negated(ns, n, nots)
           t == Append(SubSeq(s, 1, Len(s) - 1), f)
<1>1. CASE NotsError(ns, Len(ns), nots) # "none"
  BY <1>1, FailDeep DEF AddFix
<1>2. CASE NotsError(ns, Len(ns), nots) = "none"
  <2>1. nodes' = ms /\ stack' = t /\ recursion' = left /\ result' = 0
    BY <1>2 DEF AddFix, WithFix
  <2>2. TreeDeep(ns, E) /\ n \in Nat
    BY DEF Grown
  <2>3. StackDeep(s, n, E)
    BY StackDeepGrows
  <2>4. n \in 1 .. n /\ E[n] \in Nat /\ 0 \in 0 .. n
    <3>1. n \in Nat /\ n # 0 /\ E \in [1 .. n -> Nat]
      BY <2>2 DEF TreeDeep
    <3> HIDE DEF n
    <3> QED
      BY <3>1
  <2>5. FrameDeep(s[Len(s)], left, n, E) /\ left \in Int
    <3>1. FrameDeep(s[Len(s)], Left(s, Len(s)), n, E)
      BY <2>3, DeepFramePopped
    <3> QED
      BY <3>1, LeftIs
  <2>6. f.fn = s[Len(s)].fn /\ FrameDeep(f, left, n, E)
    <3> DEFINE g == s[Len(s)]
    <3>1. E[n] <= 2 * left + 2
      OBVIOUS
    <3>2. FrameDeep(g, left, n, E)
      BY <2>5
    <3> HIDE DEF n, g
    <3>3. WithFix(g, n).fn = g.fn /\ FrameDeep(WithFix(g, n), left, n, E)
      BY <2>4, <2>5, <3>1, <3>2, RuleJoinsFrame
    <3> QED
      BY <3>3 DEF g
  <2> HIDE DEF f
  <2>7. StackDeep(t, n, E)
    BY <2>3, <2>6, DeepFrameUpdated
  <2>8. TreeDeep(ms, E) /\ Len(ms) = n
    BY <2>2, NegatedDeep
  <2> HIDE DEF t, ms, n
  <2>9. Deep(nodes', stack', result', recursion', E)
    BY <2>1, <2>4, <2>7, <2>8 DEF Deep
  <2> QED
    BY <2>9, DeepNext
<1> QED
  BY <1>1, <1>2

LEMMA AddRepeatedDeep ==
  ASSUME DepthInv, NEW s, NEW left, Balanced(s, left), s # <<>>,
         NEW D, TreeDeep(nodes, D), StackDeep(s, Len(nodes), D),
         NEW ns, NEW E, Grown(nodes, D, ns, E), Len(ns) # 0, E[Len(ns)] <= 2 * left + 1,
         NEW repetition, NEW from, NEW nots,
         AddRepeated(ns, repetition, left, SubSeq(s, 1, Len(s) - 1), s[Len(s)], from, nots)
  PROVE  DepthInv'
<1> DEFINE n == Len(ns)
           node == Node("repetition", <<n>>, repetition.value)
           d == 2 * left + 2
<1>1. CASE repetition.is = "failed"
  BY <1>1, FailDeep DEF AddRepeated
<1>2. CASE repetition.is # "failed"
  <2>1. TreeDeep(ns, E) /\ n \in Nat /\ n # 0 /\ E \in [1 .. n -> Nat] /\ left \in Nat
    BY LeftIs DEF Grown, TreeDeep
  <2>2. n \in 1 .. n /\ E[n] \in Nat /\ E[n] <= d /\ E[n] <= d - 1 /\ d \in Nat /\ d - 1 \in Int /\ 1 <= d
    <3>1. E[n] <= 2 * left + 1
      OBVIOUS
    <3> HIDE DEF n
    <3> QED
      BY <2>1, <3>1
  <2>3. AddFix(Repeated(ns, repetition), repetition.at, left, SubSeq(s, 1, Len(s) - 1), s[Len(s)], from, nots)
    BY <1>2 DEF AddRepeated
  <2>4. CASE repetition.is # "found"
    <3>1. AddFix(ns, repetition.at, left, SubSeq(s, 1, Len(s) - 1), s[Len(s)], from, nots)
      BY <2>3, <2>4 DEF Repeated
    <3> QED
      BY <2>2, <3>1, AddFixDeep
  <2>5. CASE repetition.is = "found"
    <3>1. AddFix(Append(ns, node), repetition.at, left, SubSeq(s, 1, Len(s) - 1), s[Len(s)], from, nots)
      BY <2>3, <2>5 DEF Repeated
    <3>2. NodeFields \subseteq DOMAIN node /\ Own(node) = 1 /\ node.kids = <<n>>
      BY DEF Node, NodeFields, Own
    <3>3. DeepList(<<n>>, n, E, d - 1)
      <4> HIDE DEF n, d
      <4> QED
        BY <2>2, OneRule
    <3> HIDE DEF node, d
    <3>4. PICK F : Grown(ns, E, Append(ns, node), F) /\ F[n + 1] = d /\ Len(Append(ns, node)) = n + 1
      <4>1. Own(node) <= d /\ DeepList(node.kids, Len(ns), E, d - Own(node))
        <5> HIDE DEF n
        <5> QED
          BY <2>2, <3>2, <3>3 DEF n
      <4> QED
        BY <2>1, <2>2, <3>2, <4>1, NodeJoins
    <3>5. Grown(nodes, D, Append(ns, node), F)
      BY <3>4, GrownTwice
    <3> DEFINE ms == Append(ns, node)
    <3>6. Len(ms) # 0 /\ F[Len(ms)] <= 2 * left + 2
      <4> HIDE DEF n, ms
      <4>1. Len(ms) = n + 1 /\ F[n + 1] = d
        BY <3>4 DEF ms
      <4>2. n + 1 # 0 /\ d <= d
        BY <2>1, <2>2
      <4> QED
        BY <4>1, <4>2 DEF d
    <3> HIDE DEF ms
    <3> QED
      BY <3>1, <3>5, <3>6, AddFixDeep DEF ms
  <2> QED
    BY <2>4, <2>5
<1> QED
  BY <1>1, <1>2

LEMMA ReturnOrDeep ==
  ASSUME LevelsInv, stack # <<>>,
         NEW D, TreeDeep(nodes, D), StackDeep(stack, Len(nodes), D),
         NEW ns, NEW E, Grown(nodes, D, ns, E),
         NEW n \in 1 .. Len(ns), E[n] <= 2 * recursion + 4, ReturnOr(ns, n)
  PROVE  DepthInv'
<1> DEFINE m == Len(ns)
<1>1. nodes' = ns /\ result' = n /\ stack' = Below /\ recursion' = recursion + 1
  BY DEF ReturnOr
<1>2. Balanced(stack, recursion) /\ recursion \in Nat
  BY LeftIs DEF LevelsInv
<1>3. StackDeep(Below, m, E) /\ TreeDeep(ns, E) /\ m \in Nat /\ E \in [1 .. m -> Nat]
  <2>1. StackDeep(stack, m, E)
    BY <1>2, StackDeepGrows
  <2> QED
    BY <2>1, DeepFramePopped DEF Below, Grown, TreeDeep
<1>4. n \in 0 .. m /\ E[n] <= 2 * (recursion + 1) + 2
  <2>1. n \in 1 .. m /\ E[n] <= 2 * recursion + 4
    OBVIOUS
  <2> HIDE DEF m
  <2> QED
    BY <1>2, <1>3, <2>1
<1> HIDE DEF m
<1>5. Deep(nodes', stack', result', recursion', E)
  BY <1>1, <1>3, <1>4 DEF Deep, m
<1> QED
  BY <1>5, DeepNext

\* A block gets one more statement, a new node
LEMMA StatementDeep ==
  ASSUME NEW s, Balanced(s, recursion), s # <<>>,
         NEW D, TreeDeep(nodes, D), StackDeep(s, Len(nodes), D),
         NEW node, NodeFields \subseteq DOMAIN node, NEW d, d = 2 * recursion + 2, Own(node) <= d,
         DeepList(node.kids, Len(nodes), D, d - Own(node)),
         nodes' = Append(nodes, node), result' = 0, recursion' = recursion,
         stack' = Append(SubSeq(s, 1, Len(s) - 1), WithItem(s[Len(s)], Len(nodes) + 1))
  PROVE  DepthInv'
<1> DEFINE n == Len(nodes)
           x == n + 1
           ms == Append(nodes, node)
           f == WithItem(s[Len(s)], x)
           t == Append(SubSeq(s, 1, Len(s) - 1), f)
<1>1. recursion \in Nat /\ d \in Nat /\ n \in Nat
  BY LeftIs, StackLen DEF TreeDeep
<1>2. PICK E : Grown(nodes, D, ms, E) /\ E[x] = d /\ Len(ms) = x
  BY <1>1, NodeJoins
<1>3. stack' = t /\ nodes' = ms
  OBVIOUS
<1> HIDE DEF ms
<1>4. StackDeep(s, Len(ms), E) /\ TreeDeep(ms, E)
  BY <1>2, StackDeepGrows DEF Grown
<1>5. FrameDeep(s[Len(s)], recursion, Len(ms), E)
  <2>1. FrameDeep(s[Len(s)], Left(s, Len(s)), Len(ms), E)
    BY <1>4, DeepFramePopped
  <2> QED
    BY <2>1, LeftIs
<1>6. x \in 1 .. Len(ms) /\ E[x] \in Nat /\ E[x] <= 2 * recursion + 2 /\ 0 \in 0 .. Len(ms)
  <2> HIDE DEF n
  <2> QED
    BY <1>1, <1>2
<1>7. f.fn = s[Len(s)].fn /\ FrameDeep(f, recursion, Len(ms), E)
  <2> DEFINE g == s[Len(s)]
             m == Len(ms)
  <2>1. recursion \in Int
    BY <1>1
  <2>2. FrameDeep(g, recursion, m, E)
    BY <1>5
  <2>4. x \in 1 .. m /\ E[x] \in Nat /\ E[x] <= 2 * recursion + 2
    BY <1>6
  <2> HIDE DEF g, m, x
  <2>5. WithItem(g, x).fn = g.fn /\ FrameDeep(WithItem(g, x), recursion, m, E)
    BY <2>1, <2>2, <2>4, RuleJoinsFrame
  <2> QED
    BY <2>5 DEF g, m
<1> HIDE DEF f
<1>8. StackDeep(t, Len(ms), E)
  BY <1>4, <1>7, DeepFrameUpdated
<1> HIDE DEF t, x
<1>9. Deep(nodes', stack', result', recursion', E)
  BY <1>3, <1>4, <1>6, <1>8 DEF Deep
<1> QED
  BY <1>9, DeepNext

-----------------------------------------------------------------------------
\* The steps, one by one
LEMMA TopDeep ==
  ASSUME LevelsInv, stack # <<>>, NEW D, Deep(nodes, stack, result, recursion, D)
  PROVE  /\ TreeDeep(nodes, D) /\ Len(nodes) \in Nat /\ D \in [1 .. Len(nodes) -> Nat]
         /\ StackDeep(stack, Len(nodes), D) /\ StackDeep(Below, Len(nodes), D)
         /\ FrameDeep(Top, recursion, Len(nodes), D) /\ recursion \in Nat
         /\ result # 0 => result \in 1 .. Len(nodes) /\ D[result] <= 2 * recursion + 2
<1>1. /\ TreeDeep(nodes, D) /\ Len(nodes) \in Nat /\ D \in [1 .. Len(nodes) -> Nat]
      /\ StackDeep(stack, Len(nodes), D)
  BY StackLen DEF Deep, TreeDeep
<1>2. /\ StackDeep(Below, Len(nodes), D)
      /\ FrameDeep(stack[Len(stack)], Left(stack, Len(stack)), Len(nodes), D)
  BY <1>1, DeepFramePopped DEF Below
<1>3. Left(stack, Len(stack)) = recursion /\ recursion \in Nat
  BY LeftIs DEF LevelsInv
<1>4. result # 0 => result \in 1 .. Len(nodes) /\ D[result] <= 2 * recursion + 2
  <2> DEFINE n == Len(nodes)
  <2>1. result \in 0 .. n /\ n \in Nat /\ (result # 0 => D[result] <= 2 * recursion + 2)
    BY <1>1 DEF Deep
  <2> HIDE DEF n
  <2>2. result # 0 => result \in 1 .. n
    BY <2>1
  <2> QED
    BY <2>1, <2>2 DEF n
<1> QED
  BY <1>1, <1>2, <1>3, <1>4 DEF Top

LEMMA InitDeep == Init => DepthInv
<1> SUFFICES ASSUME Init PROVE DepthInv
  OBVIOUS
<1> DEFINE D == [i \in 1 .. 0 |-> 0]
<1>1. IsStack(<<>>) /\ Len(<<>>) = 0 /\ (\A i \in DOMAIN <<>> : FALSE)
  <2>1. <<>> \in Seq({})
    BY EmptySeq
  <2>2. IsStack(<<>>)
    BY <2>1, StackOf
  <2> QED
    BY <2>2
<1>2. D \in [1 .. 0 -> Nat] /\ \A i \in 1 .. 0 : FALSE
  OBVIOUS
<1> HIDE DEF D
<1>3. TreeDeep(<<>>, D)
  BY <1>1, <1>2 DEF TreeDeep
<1>4. StackDeep(<<>>, 0, D)
  BY <1>1 DEF StackDeep
<1> QED
  BY <1>1, <1>3, <1>4 DEF Init, DepthInv, Deep

LEMMA LexingDeep ==
  ASSUME DepthInv, LexToken \/ EndLexing
  PROVE  DepthInv'
<1>1. CASE LexToken
  BY <1>1, DeepStays DEF LexToken, AddToken
<1>2. CASE EndLexing
  <2> DEFINE f == Frame("modified", 0, <<>>)
             n == Len(nodes)
  <2>1. PICK D : Deep(nodes, stack, result, recursion, D)
    BY DEF DepthInv
  <2>2. stack' \in {<<>>, <<f>>} /\ nodes' = nodes /\ result' = result /\ recursion' = recursion
    BY <1>2 DEF EndLexing
  <2>3. \A left : FrameDeep(f, left, n, D)
    BY NewFrameDeep DEF Functions
  <2> HIDE DEF f
  <2>4. StackDeep(<<>>, n, D)
    <3>1. <<>> \in Seq({})
      BY EmptySeq
    <3>2. IsStack(<<>>)
      BY <3>1, StackOf
    <3>3. \A i \in DOMAIN <<>> : FALSE
      OBVIOUS
    <3> QED
      BY <3>2, <3>3 DEF StackDeep
  <2>5. StackDeep(<<f>>, n, D)
    <3>1. IsStack(<<f>>)
      BY OneElement
    <3>2. DOMAIN <<f>> = {1} /\ <<f>>[1] = f
      OBVIOUS
    <3> QED
      BY <2>3, <3>1, <3>2, Zenon DEF StackDeep
  <2>6. StackDeep(stack', n, D)
    BY <2>2, <2>4, <2>5
  <2>7. Deep(nodes', stack', result', recursion', D)
    BY <2>1, <2>2, <2>6 DEF Deep
  <2> QED
    BY <2>7, DeepNext
<1> QED
  BY <1>1, <1>2

LEMMA ModeModifierDeep == LevelsInv /\ DepthInv /\ ParseModeModifier => DepthInv'
<1> SUFFICES ASSUME LevelsInv, DepthInv, ParseModeModifier PROVE DepthInv'
  OBVIOUS
<1>1. stack # <<>> /\ result = 0
  BY DEF ParseModeModifier, Calling
<1>2. PICK D : Deep(nodes, stack, result, recursion, D)
  BY DEF DepthInv
<1>3. CASE \E e : Fail(e)
  BY <1>3, FailDeep
<1>4. CASE ~\E e : Fail(e)
  <2>1. PICK word \in ModeWords :
          /\ nodes' = Append(nodes, Node(word, <<>>, <<>>)) /\ result' = 0 /\ recursion' = recursion
          /\ stack' = Append(SubSeq(stack, 1, Len(stack) - 1), WithItem(stack[Len(stack)], Len(nodes) + 1))
    BY <1>1, <1>4 DEF ParseModeModifier, Replaced, Below, Top, WithItem
  <2> DEFINE node == Node(word, <<>>, <<>>)
             d == 2 * recursion + 2
  <2>2. NodeFields \subseteq DOMAIN node /\ Own(node) = 1 /\ node.kids = <<>>
    BY DEF Node, NodeFields, Own, ModeWords
  <2>3. TreeDeep(nodes, D) /\ StackDeep(stack, Len(nodes), D) /\ recursion \in Nat
    BY <1>1, <1>2, TopDeep
  <2>4. 1 <= d
    BY <2>3
  <2> HIDE DEF node
  <2>5. Own(node) <= d
    <3> HIDE DEF d
    <3> QED
      BY <2>2, <2>4
  <2>6. d = 2 * recursion + 2
    OBVIOUS
  <2>7. nodes' = Append(nodes, node)
    BY <2>1 DEF node
  <2> HIDE DEF d
  <2>8. DeepList(node.kids, Len(nodes), D, d - Own(node))
    BY <2>2, NoList
  <2>9. Balanced(stack, recursion)
    BY DEF LevelsInv
  <2> QED
    BY <1>1, <2>1, <2>2, <2>3, <2>5, <2>6, <2>7, <2>8, <2>9, StatementDeep
<1> QED
  BY <1>3, <1>4

LEMMA LetDeep == LevelsInv /\ DepthInv /\ ParseLet => DepthInv'
<1> SUFFICES ASSUME LevelsInv, DepthInv, ParseLet PROVE DepthInv'
  OBVIOUS
<1> DEFINE f == Frame("let", at + 1, <<>>)
           n == Len(nodes)
<1>1. stack # <<>> /\ result = 0
  BY DEF ParseLet, Calling
<1>2. (\E e : Fail(e)) \/ CallOr(Append(stack, f), at + 3)
  BY DEF ParseLet
<1>3. PICK D : Deep(nodes, stack, result, recursion, D)
  BY DEF DepthInv
<1>4. \A left : FrameDeep(f, left, n, D)
  BY NewFrameDeep DEF Functions
<1> HIDE DEF f, n
<1>5. StackDeep(Append(stack, f), n, D) /\ TreeDeep(nodes, D)
  BY <1>1, <1>3, <1>4, TopDeep, DeepFramePushed DEF n
<1> QED
  BY <1>1, <1>2, <1>5, FailDeep, CallOrDeep DEF n

LEMMA BodyDeep == LevelsInv /\ DepthInv /\ ParseBody => DepthInv'
<1> SUFFICES ASSUME LevelsInv, DepthInv, ParseBody PROVE DepthInv'
  OBVIOUS
<1>1. stack # <<>> /\ result = 0 /\ CallOr(stack, at)
  BY DEF ParseBody, Calling
<1>2. PICK D : Deep(nodes, stack, result, recursion, D)
  BY DEF DepthInv
<1> QED
  BY <1>1, <1>2, TopDeep, CallOrDeep

LEMMA EndLetDeep == LevelsInv /\ DepthInv /\ EndLet => DepthInv'
<1> SUFFICES ASSUME LevelsInv, DepthInv, EndLet PROVE DepthInv'
  OBVIOUS
<1> DEFINE s == SubSeq(stack, 1, Len(stack) - 1)
           node == Node("let", <<result>>, <<tokens[Top.from].units, Top.from>>)
           d == 2 * recursion + 2
<1>1. stack # <<>> /\ result # 0 /\ Top.fn = "let"
  BY DEF EndLet, Returned
<1>2. PICK D : Deep(nodes, stack, result, recursion, D)
  BY DEF DepthInv
<1>3. CASE \E e : Fail(e)
  BY <1>3, FailDeep
<1>4. CASE ~\E e : Fail(e)
  <2>1. /\ TreeDeep(nodes, D) /\ StackDeep(s, Len(nodes), D) /\ recursion \in Nat
        /\ result \in 1 .. Len(nodes) /\ D[result] <= d
    BY <1>1, <1>2, TopDeep DEF Below
  <2>2. /\ s # <<>> /\ Len(s) = Len(stack) - 1 /\ s[Len(s)] = stack[Len(stack) - 1]
        /\ SubSeq(s, 1, Len(s) - 1) = SubSeq(stack, 1, Len(stack) - 2)
    BY <1>1, HasCaller DEF LevelsInv, Top
  <2>3. Balanced(s, recursion)
    <3>1. Balanced(s, IF stack[Len(stack)].fn \in Levels THEN recursion + 1 ELSE recursion)
      BY <1>1, PopBalanced DEF LevelsInv
    <3> QED
      BY <1>1, <3>1 DEF Levels, Top
  <2>4. /\ nodes' = Append(nodes, node) /\ result' = 0 /\ recursion' = recursion
        /\ stack' = Append(SubSeq(stack, 1, Len(stack) - 2), WithItem(stack[Len(stack) - 1], Len(nodes) + 1))
    BY <1>4 DEF EndLet, WithItem
  <2>5. NodeFields \subseteq DOMAIN node /\ Own(node) = 0 /\ node.kids = <<result>>
    BY DEF Node, NodeFields, Own
  <2> HIDE DEF node, s
  <2>6. d = 2 * recursion + 2 /\ 0 <= d /\ d - 0 = d
    BY <2>1
  <2> HIDE DEF d
  <2>7. DeepList(<<result>>, Len(nodes), D, d)
    BY <2>1, OneRule
  <2>8. DeepList(node.kids, Len(nodes), D, d - Own(node)) /\ Own(node) <= d
    BY <2>5, <2>6, <2>7
  <2>9. stack' = Append(SubSeq(s, 1, Len(s) - 1), WithItem(s[Len(s)], Len(nodes) + 1))
    BY <2>2, <2>4
  <2> QED
    BY <2>1, <2>2, <2>3, <2>4, <2>5, <2>6, <2>8, <2>9, StatementDeep
<1> QED
  BY <1>3, <1>4

\* The statements of a block are no deeper than what is in them
LEMMA TwoRules ==
  ASSUME NEW n, NEW D, NEW b, NEW x \in 1 .. n, D[x] <= b, NEW y \in 1 .. n, D[y] <= b
  PROVE  DeepList(<<x, y>>, n, D, b)
<1> DEFINE t == <<x, y>>
<1>1. IsStack(t) /\ \A i \in DOMAIN t : t[i] = x \/ t[i] = y
  <2>1. t \in Seq({x, y}) /\ \A i \in DOMAIN t : t[i] = x \/ t[i] = y
    OBVIOUS
  <2> HIDE DEF t
  <2> QED
    BY <2>1, StackOf
<1> HIDE DEF t
<1>2. DeepList(t, n, D, b)
  BY <1>1 DEF DeepList
<1> QED
  BY <1>2 DEF t

AreStatements(list, items, rule, n) ==
  /\ IsStack(list) /\ Len(list) = Len(items)
  /\ \A j \in 1 .. Len(items) :
       list[j] = Node("stmt", <<items[Len(items) + 1 - j], IF j = 1 THEN rule ELSE n + j - 1>>, <<>>)

LEMMA StatementsDeep ==
  ASSUME NEW ns, NEW D, TreeDeep(ns, D), NEW d \in Nat,
         NEW items, DeepList(items, Len(ns), D, d),
         NEW rule \in 1 .. Len(ns), D[rule] <= d,
         NEW list, AreStatements(list, items, rule, Len(ns))
  PROVE  \E E : /\ Grown(ns, D, ns \o list, E) /\ Len(ns \o list) = Len(ns) + Len(items)
                /\ \A i \in Len(ns) + 1 .. Len(ns) + Len(items) : E[i] = d
<1> DEFINE n == Len(ns)
           k == Len(items)
           ms == ns \o list
           E == [i \in 1 .. n + k |-> IF i \in 1 .. n THEN D[i] ELSE d]
<1>1. /\ IsStack(ms) /\ Len(ms) = n + k /\ n \in Nat /\ k \in Nat /\ DOMAIN items = 1 .. k
      /\ \A i \in 1 .. n : ms[i] = ns[i]
      /\ \A i \in 1 .. k : ms[n + i] = list[i]
  <2>1. IsStack(ns) /\ IsStack(list) /\ Len(list) = k
    BY DEF TreeDeep, AreStatements
  <2>2. k \in Nat /\ DOMAIN items = 1 .. k
    BY StackLen DEF DeepList
  <2>3. DOMAIN list = 1 .. k
    BY <2>1, StackLen
  <2>4. /\ IsStack(ms) /\ Len(ms) = n + Len(list) /\ n \in Nat /\ DOMAIN list = 1 .. Len(list)
        /\ \A i \in 1 .. n : ms[i] = ns[i]
        /\ \A i \in 1 .. Len(list) : ms[n + i] = list[i]
    BY <2>1, Concatenated
  <2> HIDE DEF k, n, ms
  <2> QED
    BY <2>1, <2>2, <2>4
<1>2. D \in [1 .. n -> Nat] /\ \A i \in 1 .. n : NodeDeep(ns[i], i, D)
  BY DEF TreeDeep
<1>3. /\ \A i \in 1 .. k : items[i] \in 1 .. n /\ D[items[i]] <= d
      /\ rule \in 1 .. n /\ D[rule] <= d
  BY <1>1 DEF DeepList
<1>4. \A j \in 1 .. k : list[j] = Node("stmt", <<items[k + 1 - j], IF j = 1 THEN rule ELSE n + j - 1>>, <<>>)
  BY DEF AreStatements
<1> HIDE DEF n, k, ms
<1>5. /\ E \in [1 .. n + k -> Nat] /\ \A i \in 1 .. n : E[i] = D[i]
      /\ \A i \in n + 1 .. n + k : E[i] = d
  BY <1>1, <1>2
<1> HIDE DEF E
<1>6. ASSUME NEW i \in 1 .. n PROVE NodeDeep(ms[i], i, E)
  <2> DEFINE x == ns[i]
             b == D[i] - Own(x)
  <2>1. NodeDeep(x, i, D) /\ ms[i] = x /\ E[i] = D[i]
    BY <1>1, <1>2, <1>5
  <2>2. DeepList(x.kids, i - 1, D, b)
    BY <2>1 DEF NodeDeep
  <2> HIDE DEF x, b
  <2>3. \A j : j \in 1 .. i - 1 => E[j] = D[j]
    BY <1>1, <1>5
  <2>4. DeepList(x.kids, i - 1, E, b)
    BY <2>2, <2>3 DEF DeepList
  <2> QED
    BY <2>1, <2>4, Zenon DEF NodeDeep, b
<1>7. ASSUME NEW j \in 1 .. k PROVE NodeDeep(ms[n + j], n + j, E)
  <2> DEFINE i == n + j
             a == items[k + 1 - j]
             c == IF j = 1 THEN rule ELSE n + j - 1
             node == Node("stmt", <<a, c>>, <<>>)
  <2>1. ms[i] = node
    BY <1>1, <1>4
  <2>2. NodeFields \subseteq DOMAIN node /\ Own(node) = 0 /\ node.kids = <<a, c>>
    BY DEF Node, NodeFields, Own
  <2>3. k + 1 - j \in 1 .. k /\ i - 1 \in Nat /\ n <= i - 1 /\ i \in n + 1 .. n + k
    BY <1>1
  <2>4. a \in 1 .. n /\ D[a] <= d
    BY <1>3, <2>3
  <2> HIDE DEF a, node
  <2>5. a \in 1 .. i - 1 /\ E[a] <= d
    <3>1. a \in 1 .. i - 1
      BY <1>1, <2>3, <2>4
    <3> QED
      BY <1>5, <2>4, <3>1
  <2>6. c \in 1 .. i - 1 /\ E[c] <= d
    <3>1. CASE j = 1
      <4>1. c = rule /\ E[rule] = D[rule]
        BY <1>3, <1>5, <3>1
      <4> HIDE DEF c
      <4>2. rule \in 1 .. i - 1
        BY <1>1, <1>3, <2>3
      <4>3. E[rule] <= d
        BY <1>3, <4>1
      <4> QED
        BY <4>1, <4>2, <4>3
    <3>2. CASE j # 1
      <4>1. c = n + j - 1 /\ c \in n + 1 .. n + k /\ c \in 1 .. i - 1 /\ d <= d
        BY <1>1, <3>2
      <4> QED
        BY <1>5, <4>1
    <3> QED
      BY <3>1, <3>2
  <2> HIDE DEF c
  <2>7. DeepList(<<a, c>>, i - 1, E, d)
    BY <2>5, <2>6, TwoRules
  <2>8. E[i] = d /\ d - 0 = d /\ 0 <= d
    BY <1>5, <2>3
  <2> HIDE DEF i
  <2>9. Own(node) <= E[i] /\ DeepList(node.kids, i - 1, E, E[i] - Own(node))
    BY <2>2, <2>7, <2>8
  <2>10. NodeDeep(ms[i], i, E)
    BY <2>1, <2>2, <2>9, Zenon DEF NodeDeep
  <2> QED
    BY <2>10 DEF i
<1>8. ASSUME NEW i \in 1 .. n + k PROVE NodeDeep(ms[i], i, E)
  <2>1. CASE i \in 1 .. n
    BY <1>6, <2>1
  <2>2. CASE i \notin 1 .. n
    <3>1. i - n \in 1 .. k /\ n + (i - n) = i
      BY <1>1, <2>2
    <3> QED
      BY <1>7, <3>1
  <2> QED
    BY <2>1, <2>2
<1>9. TreeDeep(ms, E)
  BY <1>1, <1>5, <1>8 DEF TreeDeep
<1>10. n + k \in Nat /\ n <= n + k
  BY <1>1
<1> QED
  BY <1>1, <1>5, <1>9, <1>10 DEF Grown, n, k, ms

LEMMA EndModifiedDeep == LevelsInv /\ DepthInv /\ EndModified => DepthInv'
<1> SUFFICES ASSUME LevelsInv, DepthInv, EndModified PROVE DepthInv'
  OBVIOUS
<1> DEFINE n == Len(nodes)
           items == Top.items
           k == Len(items)
           list == Statements(items, result)
           ms == nodes \o list
           d == 2 * recursion + 2
<1>1. stack # <<>> /\ result # 0 /\ Top.fn = "modified"
  BY DEF EndModified, Returned
<1>2. PICK D : Deep(nodes, stack, result, recursion, D)
  BY DEF DepthInv
<1>3. CASE \E e : Fail(e)
  BY <1>3, FailDeep
<1>4. CASE ~\E e : Fail(e)
  <2>1. /\ nodes' = ms /\ stack' = Below /\ recursion' = recursion
        /\ result' = IF items = <<>> THEN result ELSE n + k
    BY <1>4 DEF EndModified
  <2>2. /\ TreeDeep(nodes, D) /\ StackDeep(stack, n, D) /\ recursion \in Nat /\ n \in Nat
        /\ result \in 1 .. n /\ D[result] <= d /\ FrameDeep(Top, recursion, n, D)
        /\ D \in [1 .. n -> Nat]
    BY <1>1, <1>2, TopDeep
  <2>3. d \in Nat /\ d <= d
    BY <2>2
  <2>4. DeepList(items, n, D, d)
    BY <1>1, <2>2 DEF FrameDeep
  <2>5. k \in Nat /\ (items # <<>> => k > 0)
    BY <2>4, StackLen DEF DeepList
  <2>6. /\ IsStack(list) /\ Len(list) = k
        /\ \A j \in 1 .. k : list[j] = Node("stmt", <<items[k + 1 - j], IF j = 1 THEN result ELSE n + j - 1>>, <<>>)
    <3>1. list = [j \in 1 .. k |-> Node("stmt", <<items[k + 1 - j], IF j = 1 THEN result ELSE n + j - 1>>, <<>>)]
      BY DEF Statements
    <3> DEFINE T == {list[j] : j \in 1 .. k}
    <3>2. list \in [1 .. k -> T] /\ DOMAIN list = 1 .. k
      <4> HIDE DEF k, items, n
      <4> QED
        BY <3>1
    <3>3. \A j \in 1 .. k : list[j] = Node("stmt", <<items[k + 1 - j], IF j = 1 THEN result ELSE n + j - 1>>, <<>>)
      <4> HIDE DEF k, items, n
      <4> QED
        BY <3>1
    <3> HIDE DEF list, T, k, items, n
    <3>4. list \in Seq(T)
      BY <2>5, <3>2, SeqDef
    <3>5. IsStack(list) /\ Len(list) \in Nat /\ DOMAIN list = 1 .. Len(list)
      BY <3>4, StackOf, StackLen
    <3>6. Len(list) = k
      BY <2>5, <3>2, <3>5
    <3> QED
      BY <3>3, <3>5, <3>6
  <2> HIDE DEF list, d
  <2>12. AreStatements(list, items, result, n)
    BY <2>6 DEF AreStatements
  <2>7. PICK E : /\ Grown(nodes, D, ms, E) /\ Len(ms) = n + k
                 /\ \A i \in n + 1 .. n + k : E[i] = d
    <3> HIDE DEF items
    <3>1. \E E : /\ Grown(nodes, D, nodes \o list, E) /\ Len(nodes \o list) = Len(nodes) + Len(items)
                 /\ \A i \in Len(nodes) + 1 .. Len(nodes) + Len(items) : E[i] = d
      BY <2>2, <2>3, <2>4, <2>12, StatementsDeep
    <3> QED
      BY <3>1
  <2> HIDE DEF ms
  <2>8. StackDeep(Below, Len(ms), E) /\ TreeDeep(ms, E)
    <3>1. Balanced(stack, recursion)
      BY DEF LevelsInv
    <3>2. StackDeep(stack, Len(ms), E)
      BY <2>2, <2>7, <3>1, StackDeepGrows DEF n
    <3> QED
      BY <1>1, <2>7, <3>2, DeepFramePopped DEF Below, Grown
  <2>9. result' \in 0 .. Len(ms) /\ E[result'] <= d
    <3>1. CASE items = <<>>
      <4>1. E[result] = D[result]
        BY <2>2, <2>7 DEF Grown
      <4>2. result' = result
        BY <2>1, <3>1
      <4> HIDE DEF n, k
      <4>3. result \in 0 .. n + k
        BY <2>2, <2>5
      <4> QED
        BY <2>2, <2>7, <4>1, <4>2, <4>3
    <3>2. CASE items # <<>>
      <4>1. result' = n + k
        BY <2>1, <3>2
      <4> HIDE DEF n, k
      <4>2. n + k \in n + 1 .. n + k /\ n + k \in 0 .. n + k
        BY <2>2, <2>5, <3>2
      <4> QED
        BY <2>3, <2>7, <4>1, <4>2
    <3> QED
      BY <3>1, <3>2
  <2>10. E[result'] <= 2 * recursion + 2
    BY <2>9 DEF d
  <2>11. Deep(nodes', stack', result', recursion', E)
    <3> DEFINE r == result'
    <3>1. r \in 0 .. Len(ms) /\ E[r] <= 2 * recursion + 2
      BY <2>9, <2>10
    <3> HIDE DEF r
    <3>2. Deep(ms, Below, r, recursion, E)
      BY <2>8, <3>1 DEF Deep
    <3> QED
      BY <2>1, <3>2 DEF r
  <2> QED
    BY <2>11, DeepNext
<1> QED
  BY <1>3, <1>4

LEMMA LookaroundDeep == LevelsInv /\ DepthInv /\ ParseLookaround => DepthInv'
<1> SUFFICES ASSUME LevelsInv, DepthInv, ParseLookaround PROVE DepthInv'
  OBVIOUS
<1>1. stack # <<>> /\ result = 0 /\ \E tag, o : CallModified("lookaround", tag, o)
  BY DEF ParseLookaround, Calling
<1> QED
  BY <1>1, CallModifiedDeep

LEMMA GroupDeep == LevelsInv /\ DepthInv /\ ParseGroup => DepthInv'
<1> SUFFICES ASSUME LevelsInv, DepthInv, ParseGroup PROVE DepthInv'
  OBVIOUS
<1>1. stack # <<>> /\ result = 0 /\ ((\E e : Fail(e)) \/ \E tag, o : CallModified("group", tag, o))
  BY DEF ParseGroup, OpenGroup, Calling
<1> QED
  BY <1>1, FailDeep, CallModifiedDeep

\* A group or a lookaround around the rule that was returned
LEMMA EnclosingDeep ==
  ASSUME LevelsInv, stack # <<>>, result # 0, Top.fn \in {"group", "lookaround"},
         NEW D, Deep(nodes, stack, result, recursion, D),
         NEW node, NodeFields \subseteq DOMAIN node, Own(node) = 1, node.kids = <<result>>
  PROVE  LET s == SubSeq(stack, 1, Len(stack) - 1)
             ns == Append(nodes, node) IN
         /\ Balanced(s, recursion + 1) /\ s # <<>> /\ s[Len(s)] = stack[Len(stack) - 1]
         /\ SubSeq(s, 1, Len(s) - 1) = SubSeq(stack, 1, Len(stack) - 2)
         /\ TreeDeep(nodes, D) /\ StackDeep(s, Len(nodes), D)
         /\ Len(ns) # 0
         /\ \E E : /\ Grown(nodes, D, ns, E)
                   /\ E[Len(ns)] <= 2 * (recursion + 1) + 1 /\ E[Len(ns)] <= 2 * (recursion + 1) + 2
<1> DEFINE s == SubSeq(stack, 1, Len(stack) - 1)
           ns == Append(nodes, node)
           d == 2 * recursion + 3
           b == 2 * recursion + 2
<1>1. /\ s # <<>> /\ Len(s) = Len(stack) - 1 /\ s[Len(s)] = stack[Len(stack) - 1]
      /\ SubSeq(s, 1, Len(s) - 1) = SubSeq(stack, 1, Len(stack) - 2)
  BY HasCaller DEF LevelsInv, Top
<1>2. Balanced(s, recursion + 1)
  <2>1. Balanced(s, IF stack[Len(stack)].fn \in Levels THEN recursion + 1 ELSE recursion)
    BY PopBalanced DEF LevelsInv
  <2> QED
    BY <2>1 DEF Levels, Top
<1>3. /\ TreeDeep(nodes, D) /\ StackDeep(s, Len(nodes), D) /\ recursion \in Nat
      /\ result \in 1 .. Len(nodes) /\ D[result] <= b /\ Len(nodes) \in Nat
  BY TopDeep DEF Below
<1>4. /\ d \in Nat /\ 1 <= d /\ d - 1 = b
      /\ \A e : e = d => e <= 2 * (recursion + 1) + 1 /\ e <= 2 * (recursion + 1) + 2
  BY <1>3
<1> HIDE DEF s, d, b
<1>5. DeepList(<<result>>, Len(nodes), D, b)
  BY <1>3, OneRule
<1>6. Own(node) <= d /\ DeepList(node.kids, Len(nodes), D, d - Own(node))
  BY <1>4, <1>5
<1>7. PICK E : Grown(nodes, D, ns, E) /\ E[Len(nodes) + 1] = d /\ Len(ns) = Len(nodes) + 1
  BY <1>3, <1>4, <1>6, NodeJoins
<1> HIDE DEF ns
<1>8. E[Len(ns)] = d /\ Len(ns) # 0
  BY <1>3, <1>7
<1> QED
  BY <1>1, <1>2, <1>3, <1>4, <1>7, <1>8 DEF s, ns

LEMMA EndLookaroundDeep == LevelsInv /\ DepthInv /\ EndLookaround => DepthInv'
<1> SUFFICES ASSUME LevelsInv, DepthInv, EndLookaround PROVE DepthInv'
  OBVIOUS
<1> DEFINE s == SubSeq(stack, 1, Len(stack) - 1)
           node == Node("lookaround", <<result>>, Top.tag)
           ns == Append(nodes, node)
<1>1. /\ stack # <<>> /\ result # 0 /\ Top.fn = "lookaround"
      /\ AddFix(ns, at, recursion + 1, SubSeq(stack, 1, Len(stack) - 2), stack[Len(stack) - 1],
                Top.from, stack[Len(stack) - 1].nots)
  BY DEF EndLookaround, Returned
<1>2. PICK D : Deep(nodes, stack, result, recursion, D)
  BY DEF DepthInv
<1>3. NodeFields \subseteq DOMAIN node /\ Own(node) = 1 /\ node.kids = <<result>>
  BY DEF Node, NodeFields, Own
<1> HIDE DEF node
<1>4. /\ Balanced(s, recursion + 1) /\ s # <<>> /\ s[Len(s)] = stack[Len(stack) - 1]
      /\ SubSeq(s, 1, Len(s) - 1) = SubSeq(stack, 1, Len(stack) - 2)
      /\ TreeDeep(nodes, D) /\ StackDeep(s, Len(nodes), D) /\ Len(ns) # 0
      /\ \E E : Grown(nodes, D, ns, E) /\ E[Len(ns)] <= 2 * (recursion + 1) + 2
  BY <1>1, <1>2, <1>3, EnclosingDeep
<1> HIDE DEF ns, s
<1>5. AddFix(ns, at, recursion + 1, SubSeq(s, 1, Len(s) - 1), s[Len(s)], Top.from, stack[Len(stack) - 1].nots)
  BY <1>1, <1>4
<1> QED
  BY <1>4, <1>5, AddFixDeep

LEMMA EndGroupDeep == LevelsInv /\ DepthInv /\ EndGroup => DepthInv'
<1> SUFFICES ASSUME LevelsInv, DepthInv, EndGroup PROVE DepthInv'
  OBVIOUS
<1> DEFINE s == SubSeq(stack, 1, Len(stack) - 1)
           node == Node("group", <<result>>, Top.tag)
           ns == Append(nodes, node)
           repetition == Repetition(tokens, at + 1)
<1>1. /\ stack # <<>> /\ result # 0 /\ Top.fn = "group"
      /\ \/ \E e : Fail(e)
         \/ AddRepeated(ns, repetition, recursion + 1, SubSeq(stack, 1, Len(stack) - 2),
                        stack[Len(stack) - 1], Top.from, stack[Len(stack) - 1].nots)
  BY DEF EndGroup, Returned
<1>2. PICK D : Deep(nodes, stack, result, recursion, D)
  BY DEF DepthInv
<1>3. NodeFields \subseteq DOMAIN node /\ Own(node) = 1 /\ node.kids = <<result>>
  BY DEF Node, NodeFields, Own
<1> HIDE DEF node, repetition
<1>4. /\ Balanced(s, recursion + 1) /\ s # <<>> /\ s[Len(s)] = stack[Len(stack) - 1]
      /\ SubSeq(s, 1, Len(s) - 1) = SubSeq(stack, 1, Len(stack) - 2)
      /\ TreeDeep(nodes, D) /\ StackDeep(s, Len(nodes), D) /\ Len(ns) # 0
      /\ \E E : Grown(nodes, D, ns, E) /\ E[Len(ns)] <= 2 * (recursion + 1) + 1
  BY <1>1, <1>2, <1>3, EnclosingDeep
<1> HIDE DEF ns, s
<1>5. (\E e : Fail(e)) \/
      AddRepeated(ns, repetition, recursion + 1, SubSeq(s, 1, Len(s) - 1), s[Len(s)], Top.from,
                  stack[Len(stack) - 1].nots)
  BY <1>1, <1>4
<1> QED
  BY <1>4, <1>5, AddRepeatedDeep, FailDeep

LEMMA AtomDeep == PlacesInv /\ TilesInv /\ LevelsInv /\ DepthInv /\ ParseAtom => DepthInv'
<1> SUFFICES ASSUME PlacesInv, TilesInv, LevelsInv, DepthInv, ParseAtom PROVE DepthInv'
  OBVIOUS
<1> DEFINE atom == LeafAtom(tokens, FixAt)
           node == atom.value
           ns == Append(nodes, node)
           repetition == Repetition(tokens, atom.at)
<1>1. stage = "parsing" /\ stack # <<>> /\ atom.is # "absent" /\ AddAtom(atom)
  BY DEF ParseAtom, AtAtom, Calling
<1>2. Ended(tokens) /\ FixAt \in 1 .. Len(tokens)
  BY <1>1, Running, FixPlaced
<1>3. NodeOutcome(tokens, FixAt, atom)
  BY <1>2, LeafAtomOutcome
<1> HIDE DEF atom
<1>4. CASE atom.is = "failed"
  BY <1>1, <1>4, FailDeep DEF AddAtom
<1>5. CASE atom.is # "failed"
  <2>1. PICK D : Deep(nodes, stack, result, recursion, D)
    BY DEF DepthInv
  <2>2. /\ TreeDeep(nodes, D) /\ StackDeep(stack, Len(nodes), D) /\ recursion \in Nat
        /\ Len(nodes) \in Nat
    BY <1>1, <2>1, TopDeep
  <2>3. IsLeaf(node)
    BY <1>1, <1>3, <1>5 DEF NodeOutcome, Outcome, Fails
  <2>4. NodeFields \subseteq DOMAIN node /\ node.kids = <<>> /\ Own(node) <= 1
    BY <2>3 DEF IsLeaf, Own
  <2>5. AddRepeated(ns, repetition, recursion, SubSeq(stack, 1, Len(stack) - 1), stack[Len(stack)],
                    at, FixAt - at)
    BY <1>1, <1>5 DEF AddAtom, Below, Top
  <2> HIDE DEF node, repetition
  <2>6. DeepList(node.kids, Len(nodes), D, 1 - Own(node))
    BY <2>4, NoList
  <2>7. PICK E : Grown(nodes, D, ns, E) /\ E[Len(nodes) + 1] = 1 /\ Len(ns) = Len(nodes) + 1
    <3>1. 1 \in Nat
      OBVIOUS
    <3> QED
      BY <2>2, <2>4, <2>6, <3>1, NodeJoins
  <2> HIDE DEF ns
  <2>8. Len(ns) # 0 /\ E[Len(ns)] <= 2 * recursion + 1
    <3>1. 1 <= 2 * recursion + 1
      BY <2>2
    <3> QED
      BY <2>2, <2>7, <3>1
  <2>9. Balanced(stack, recursion)
    BY DEF LevelsInv
  <2> QED
    BY <1>1, <2>2, <2>5, <2>7, <2>8, <2>9, AddRepeatedDeep
<1> QED
  BY <1>4, <1>5

LEMMA SequenceDeep ==
  ASSUME LevelsInv, stack # <<>>, Top.fixes # <<>>,
         NEW D, Deep(nodes, stack, result, recursion, D)
  PROVE  \E E : /\ Grown(nodes, D, Sequence, E)
                /\ SequenceRule \in 1 .. Len(Sequence)
                /\ E[SequenceRule] \in Nat /\ E[SequenceRule] <= 2 * recursion + 3
<1> DEFINE fixes == Top.fixes
           n == Len(nodes)
           b == 2 * recursion + 2
           d == 2 * recursion + 3
<1>1. /\ TreeDeep(nodes, D) /\ n \in Nat /\ D \in [1 .. n -> Nat] /\ recursion \in Nat
      /\ FrameDeep(Top, recursion, n, D)
  BY TopDeep
<1>2. DeepList(fixes, n, D, b)
  BY <1>1, Zenon DEF FrameDeep
<1>3. b \in Nat /\ d \in Nat /\ d - 1 = b /\ 1 <= d /\ \A x \in Nat : x <= b => x <= d
  BY <1>1
<1>4. d <= 2 * recursion + 3 /\ \A x \in Nat : x <= d => x <= 2 * recursion + 3
  BY <1>1
<1> HIDE DEF b, d
<1>5. CASE Len(fixes) = 1
  <2>1. Sequence = nodes /\ SequenceRule = fixes[1]
    BY <1>5 DEF Sequence, SequenceRule
  <2>2. 1 \in DOMAIN fixes
    BY <1>2, <1>5, StackLen DEF DeepList
  <2> DEFINE x == fixes[1]
  <2>3. x \in 1 .. n /\ D[x] <= b
    BY <1>2, <2>2 DEF DeepList
  <2>4. Grown(nodes, D, nodes, D)
    BY <1>1, SameTree
  <2> HIDE DEF x, n
  <2>5. D[x] \in Nat /\ D[x] <= 2 * recursion + 3
    BY <1>1, <1>3, <1>4, <2>3
  <2> QED
    BY <2>1, <2>3, <2>4, <2>5 DEF x, n
<1>6. CASE Len(fixes) # 1
  <2> DEFINE node == Node("sequence", fixes, <<>>)
             ns == Append(nodes, node)
  <2>1. Sequence = ns /\ SequenceRule = n + 1
    BY <1>6 DEF Sequence, SequenceRule
  <2>2. NodeFields \subseteq DOMAIN node /\ Own(node) = 1 /\ node.kids = fixes
    BY DEF Node, NodeFields, Own
  <2> HIDE DEF node, fixes
  <2>3. Own(node) <= d /\ DeepList(node.kids, Len(nodes), D, d - Own(node))
    BY <1>2, <1>3, <2>2
  <2>4. PICK E : Grown(nodes, D, ns, E) /\ E[n + 1] = d /\ Len(ns) = n + 1
    <3>1. \E E : Grown(nodes, D, Append(nodes, node), E) /\ E[Len(nodes) + 1] = d
                 /\ Len(Append(nodes, node)) = Len(nodes) + 1
      BY <1>1, <1>3, <2>2, <2>3, NodeJoins
    <3> QED
      BY <3>1
  <2> HIDE DEF ns, n
  <2>5. n + 1 \in 1 .. Len(ns)
    BY <1>1, <2>4
  <2> QED
    BY <1>3, <1>4, <2>1, <2>4, <2>5
<1> QED
  BY <1>5, <1>6

LEMMA AlternativeDeep ==
  ASSUME LevelsInv, DepthInv, stack # <<>>, result = 0, Top.fn = "or", NextAlternative
  PROVE  DepthInv'
<1> DEFINE top == Top
           x == SequenceRule
           ns == Sequence
           m == Len(ns)
           f == [top EXCEPT !.items = Append(@, x), !.fixes = <<>>]
           t == Append(SubSeq(stack, 1, Len(stack) - 1), f)
           c == 2 * recursion + 3
<1>1. PICK D : Deep(nodes, stack, result, recursion, D)
  BY DEF DepthInv
<1>2. /\ nodes' = ns /\ stack' = t /\ recursion' = recursion /\ result' = 0 /\ Top.fixes # <<>>
  BY DEF NextAlternative, Replaced, Below
<1>3. PICK E : /\ Grown(nodes, D, ns, E) /\ x \in 1 .. m /\ E[x] \in Nat /\ E[x] <= c
  BY <1>1, <1>2, SequenceDeep
<1>4. Balanced(stack, recursion) /\ TreeDeep(nodes, D) /\ StackDeep(stack, Len(nodes), D)
  BY <1>1, TopDeep DEF LevelsInv
<1>5. StackDeep(stack, m, E) /\ TreeDeep(ns, E) /\ m \in Nat
  BY <1>3, <1>4, StackDeepGrows DEF Grown
<1>6. FrameDeep(top, recursion, m, E) /\ top.fn = "or"
  <2>1. FrameDeep(top, Left(stack, Len(stack)), m, E)
    BY <1>5, DeepFramePopped DEF Top
  <2> QED
    BY <1>4, <2>1, LeftIs
<1> HIDE DEF top, x, ns, m
<1>7. f.fn = top.fn /\ FrameDeep(f, recursion, m, E)
  <2>1. Lists \subseteq DOMAIN top /\ top.fn \in Functions /\ DeepList(top.items, m, E, c)
    BY <1>6 DEF FrameDeep
  <2>2. Lists \subseteq DOMAIN f /\ f.fn = top.fn /\ f.items = Append(top.items, x) /\ f.fixes = <<>>
    BY <2>1 DEF Lists
  <2> HIDE DEF f
  <2>3. DeepList(f.fixes, m, E, 2 * recursion + 2)
    BY <2>2, NoList
  <2>4. DeepList(f.items, m, E, c)
    <3> HIDE DEF c
    <3> QED
      BY <1>3, <2>1, <2>2, DeepListAppended
  <2> QED
    BY <1>6, <2>1, <2>2, <2>3, <2>4 DEF FrameDeep
<1>8. f.fn = stack[Len(stack)].fn
  BY <1>7 DEF top, Top
<1> HIDE DEF f
<1>9. StackDeep(t, m, E)
  BY <1>4, <1>5, <1>7, <1>8, DeepFrameUpdated
<1> HIDE DEF t
<1>10. 0 \in 0 .. m
  BY <1>5
<1>11. Deep(nodes', stack', result', recursion', E)
  BY <1>2, <1>5, <1>9, <1>10 DEF Deep, m
<1> QED
  BY <1>11, DeepNext

LEMMA EndOrDeep ==
  ASSUME LevelsInv, DepthInv, stack # <<>>, result = 0, Top.fn = "or", EndOr
  PROVE  DepthInv'
<1> DEFINE items == Top.items
           x == SequenceRule
           ns == Sequence
           all == Append(items, x)
           node == Node("alternation", all, <<>>)
           ms == Append(ns, node)
           m == Len(ns)
           c == 2 * recursion + 3
           d == 2 * recursion + 4
<1>1. PICK D : Deep(nodes, stack, result, recursion, D)
  BY DEF DepthInv
<1>2. /\ Top.fixes # <<>>
      /\ IF Len(all) = 1 THEN ReturnOr(ns, x) ELSE ReturnOr(ms, m + 1)
  BY DEF EndOr
<1>3. PICK E : /\ Grown(nodes, D, ns, E) /\ x \in 1 .. m /\ E[x] \in Nat /\ E[x] <= c
  BY <1>1, <1>2, SequenceDeep
<1>4. /\ Balanced(stack, recursion) /\ TreeDeep(nodes, D) /\ StackDeep(stack, Len(nodes), D)
      /\ recursion \in Nat
  BY <1>1, TopDeep DEF LevelsInv
<1>5. StackDeep(stack, m, E) /\ TreeDeep(ns, E) /\ m \in Nat
  BY <1>3, <1>4, StackDeepGrows DEF Grown
<1>6. /\ d \in Nat /\ c \in Nat /\ d - 1 = c /\ 1 <= d /\ (\A y \in Nat : y <= c => y <= d)
      /\ \A y : y = d => y <= 2 * recursion + 4
  BY <1>4
<1>7. CASE Len(all) = 1
  <2>1. ReturnOr(ns, x)
    BY <1>2, <1>7
  <2>2. E[x] <= d
    <3> HIDE DEF x, d, c, m
    <3> QED
      BY <1>3, <1>6
  <2>3. E[x] <= 2 * recursion + 4
    BY <2>2
  <2> HIDE DEF ns, x
  <2> QED
    BY <1>3, <1>4, <2>1, <2>3, ReturnOrDeep DEF m
<1>8. CASE Len(all) # 1
  <2>1. ReturnOr(ms, m + 1)
    BY <1>2, <1>8
  <2>2. DeepList(items, m, E, c)
    <3>1. FrameDeep(stack[Len(stack)], Left(stack, Len(stack)), m, E)
      BY <1>5, DeepFramePopped
    <3>2. FrameDeep(Top, recursion, m, E)
      BY <1>4, <3>1, LeftIs DEF Top
    <3> QED
      BY <3>2 DEF FrameDeep
  <2>3. NodeFields \subseteq DOMAIN node /\ Own(node) = 1 /\ node.kids = all
    BY DEF Node, NodeFields, Own
  <2> HIDE DEF node, c, items, x, m, d
  <2>4. DeepList(all, m, E, c)
    BY <1>3, <2>2, DeepListAppended
  <2> HIDE DEF all, ns
  <2>5. Own(node) <= d /\ DeepList(node.kids, Len(ns), E, d - Own(node))
    BY <1>6, <2>3, <2>4 DEF m
  <2>6. PICK F : Grown(ns, E, ms, F) /\ F[m + 1] = d /\ Len(ms) = m + 1
    <3>1. \E F : Grown(ns, E, Append(ns, node), F) /\ F[Len(ns) + 1] = d
                 /\ Len(Append(ns, node)) = Len(ns) + 1
      BY <1>5, <1>6, <2>3, <2>5, NodeJoins
    <3> QED
      BY <3>1 DEF m
  <2> HIDE DEF ms
  <2>7. Grown(nodes, D, ms, F)
    BY <1>3, <2>6, GrownTwice
  <2>8. m + 1 \in 1 .. Len(ms) /\ F[m + 1] <= 2 * recursion + 4
    <3>1. m + 1 \in 1 .. Len(ms)
      BY <1>5, <2>6
    <3>2. F[m + 1] <= 2 * recursion + 4
      BY <2>6 , <1>4 DEF d
    <3> QED
      BY <3>1, <3>2
  <2> QED
    BY <1>4, <2>1, <2>7, <2>8, ReturnOrDeep
<1> QED
  BY <1>7, <1>8

LEMMA EmptyDeep ==
  ASSUME LevelsInv, DepthInv, stack # <<>>, EmptyExpression
  PROVE  DepthInv'
<1> DEFINE node == Node("literal", <<>>, <<>>)
           ns == Append(nodes, node)
           n == Len(nodes)
<1>1. PICK D : Deep(nodes, stack, result, recursion, D)
  BY DEF DepthInv
<1>2. /\ TreeDeep(nodes, D) /\ StackDeep(stack, n, D) /\ recursion \in Nat /\ n \in Nat
  BY <1>1, TopDeep
<1>3. NodeFields \subseteq DOMAIN node /\ Own(node) = 1 /\ node.kids = <<>> /\ ReturnOr(ns, n + 1)
  BY DEF Node, NodeFields, Own, EmptyExpression
<1> HIDE DEF node
<1>4. 1 \in Nat /\ Own(node) <= 1 /\ DeepList(node.kids, n, D, 1 - Own(node))
  BY <1>3, NoList
<1>5. PICK E : Grown(nodes, D, ns, E) /\ E[n + 1] = 1 /\ Len(ns) = n + 1
  <2>1. \E E : Grown(nodes, D, Append(nodes, node), E) /\ E[Len(nodes) + 1] = 1
               /\ Len(Append(nodes, node)) = Len(nodes) + 1
    BY <1>2, <1>3, <1>4, NodeJoins
  <2> QED
    BY <2>1
<1> HIDE DEF ns
<1>6. n + 1 \in 1 .. Len(ns) /\ E[n + 1] <= 2 * recursion + 4
  <2> HIDE DEF n
  <2>1. 1 <= 2 * recursion + 4
    BY <1>2
  <2> QED
    BY <1>2, <1>5, <2>1
<1> QED
  BY <1>2, <1>3, <1>5, <1>6, ReturnOrDeep

LEMMA NoFixDeep == LevelsInv /\ DepthInv /\ NoFix => DepthInv'
<1> SUFFICES ASSUME LevelsInv, DepthInv, NoFix PROVE DepthInv'
  OBVIOUS
<1>1. stack # <<>> /\ result = 0 /\ Top.fn = "or"
  BY DEF NoFix, AtAtom, Calling
<1>2. CASE LoneNot \/ LonePipe
  BY <1>2, FailDeep DEF LoneNot, LonePipe
<1> QED
  BY <1>1, <1>2, AlternativeDeep, EndOrDeep, EmptyDeep DEF NoFix

LEMMA StepDeep == TilesInv /\ PlacesInv /\ LevelsInv /\ DepthInv /\ [ParserStep]_parserVars => DepthInv'
<1> SUFFICES ASSUME TilesInv, PlacesInv, LevelsInv, DepthInv, [ParserStep]_parserVars PROVE DepthInv'
  OBVIOUS
<1>1. CASE LexToken \/ EndLexing
  BY <1>1, LexingDeep
<1>2. CASE ParseModeModifier \/ ParseLet \/ EndLet \/ ParseBody \/ EndModified
  BY <1>2, ModeModifierDeep, LetDeep, EndLetDeep, BodyDeep, EndModifiedDeep
<1>3. CASE ParseLookaround \/ EndLookaround \/ ParseGroup \/ EndGroup \/ ParseAtom \/ NoFix
  BY <1>3, LookaroundDeep, EndLookaroundDeep, GroupDeep, EndGroupDeep, AtomDeep, NoFixDeep
<1>4. CASE EndParse
  BY <1>4, DeepStays, FailDeep DEF EndParse
<1>5. CASE UNCHANGED parserVars
  BY <1>5, DeepStays DEF parserVars
<1> QED
  BY <1>1, <1>2, <1>3, <1>4, <1>5 DEF ParserStep

-----------------------------------------------------------------------------
\* A rule is returned before parse() ends
RuleInv ==
  /\ stage \in {"parsing", "parsed"} /\ stack = <<>> => result # 0
  /\ stage = "parsed" => stack = <<>>

LEMMA FailRule ==
  ASSUME NEW e, Fail(e)
  PROVE  RuleInv'
  BY DEF Fail, RuleInv

LEMMA MoreRule ==
  ASSUME stage = "parsing", stage' = stage, stack' # <<>>
  PROVE  RuleInv'
  BY DEF RuleInv

LEMMA InitRule == Init => RuleInv
  BY DEF Init, RuleInv

LEMMA CallOrRule ==
  ASSUME stage = "parsing", NEW frames, IsStack(frames), NEW o, CallOr(frames, o)
  PROVE  RuleInv'
<1>1. CASE recursion = 0
  BY <1>1, FailRule DEF CallOr
<1>2. CASE recursion # 0
  <2>1. stage' = stage /\ \E f : stack' = Append(frames, f)
    BY <1>2 DEF CallOr, Going
  <2> QED
    BY <2>1, Appended, MoreRule
<1> QED
  BY <1>1, <1>2

LEMMA CallModifiedRule ==
  ASSUME LevelsInv, stage = "parsing", stack # <<>>, NEW fn, NEW tag, NEW o, CallModified(fn, tag, o)
  PROVE  RuleInv'
<1>1. CASE recursion = 0
  BY <1>1, FailRule DEF CallModified
<1>2. CASE recursion # 0
  <2> DEFINE f == [Top EXCEPT !.nots = FixAt - at]
             s == Append(SubSeq(stack, 1, Len(stack) - 1), f)
             two == <<Frame(fn, at, tag), Frame("modified", 0, <<>>)>>
  <2>1. stage' = stage /\ stack' = s \o two
    BY <1>2 DEF CallModified, Going, Replaced, Below
  <2>2. IsStack(s)
    <3>1. IsStack(SubSeq(stack, 1, Len(stack) - 1))
      BY Popped DEF LevelsInv, Balanced
    <3> HIDE DEF f
    <3> QED
      BY <3>1, Appended
  <2>3. IsStack(two) /\ Len(two) = 2
    <3>1. two \in Seq({two[1], two[2]}) /\ Len(two) = 2
      OBVIOUS
    <3> HIDE DEF two
    <3> QED
      BY <3>1, StackOf
  <2> HIDE DEF s, two
  <2>4. IsStack(s \o two) /\ Len(s \o two) = Len(s) + Len(two) /\ Len(s) \in Nat
    BY <2>2, <2>3, Concatenated
  <2>5. s \o two # <<>>
    BY <2>3, <2>4, StackLen
  <2> QED
    BY <2>1, <2>5, MoreRule
<1> QED
  BY <1>1, <1>2

LEMMA AddFixRule ==
  ASSUME stage = "parsing", NEW ns, NEW o, NEW left, NEW frames, IsStack(frames), NEW frame,
         NEW from, NEW nots, AddFix(ns, o, left, frames, frame, from, nots)
  PROVE  RuleInv'
<1>1. (\E e : Fail(e)) \/ (stage' = stage /\ \E f : stack' = Append(frames, f))
  BY DEF AddFix, Going
<1> QED
  BY <1>1, FailRule, Appended, MoreRule

LEMMA AddRepeatedRule ==
  ASSUME stage = "parsing", NEW ns, NEW repetition, NEW left, NEW frames, IsStack(frames), NEW frame,
         NEW from, NEW nots, AddRepeated(ns, repetition, left, frames, frame, from, nots)
  PROVE  RuleInv'
<1>1. (\E e : Fail(e)) \/ AddFix(Repeated(ns, repetition), repetition.at, left, frames, frame, from, nots)
  BY DEF AddRepeated
<1> QED
  BY <1>1, FailRule, AddFixRule

LEMMA ReturnOrRule ==
  ASSUME stage = "parsing", NEW ns, NEW n, n # 0, ReturnOr(ns, n)
  PROVE  RuleInv'
  BY DEF ReturnOr, Going, RuleInv

LEMMA PoppedFrames ==
  ASSUME LevelsInv, stack # <<>>
  PROVE  /\ IsStack(stack) /\ IsStack(Below)
         /\ stack[Len(stack)].fn # "modified" => IsStack(SubSeq(stack, 1, Len(stack) - 2))
<1> DEFINE s == SubSeq(stack, 1, Len(stack) - 1)
<1>1. IsStack(stack) /\ IsStack(s)
  BY Popped DEF LevelsInv, Balanced
<1>2. ASSUME stack[Len(stack)].fn # "modified" PROVE IsStack(SubSeq(stack, 1, Len(stack) - 2))
  <2>1. /\ s # <<>> /\ Len(s) = Len(stack) - 1
        /\ SubSeq(s, 1, Len(s) - 1) = SubSeq(stack, 1, Len(stack) - 2)
    BY <1>2, HasCaller DEF LevelsInv
  <2> HIDE DEF s
  <2>2. IsStack(SubSeq(s, 1, Len(s) - 1))
    BY <1>1, <2>1, Popped
  <2> QED
    BY <2>1, <2>2
<1> QED
  BY <1>1, <1>2 DEF Below

LEMMA StepRule == LevelsInv /\ DepthInv /\ RuleInv /\ [ParserStep]_parserVars => RuleInv'
<1> SUFFICES ASSUME LevelsInv, DepthInv, RuleInv, [ParserStep]_parserVars PROVE RuleInv'
  OBVIOUS
<1>f. ASSUME \E e : Fail(e) PROVE RuleInv'
  BY <1>f, FailRule
<1>b. ASSUME stage = "parsing", stack # <<>>, stage' = stage, \E f : stack' = Replaced(f) PROVE RuleInv'
  <2>1. IsStack(Below)
    BY <1>b, PoppedFrames
  <2> QED
    BY <1>b, <2>1, Appended, MoreRule DEF Replaced
<1>1. CASE LexToken
  BY <1>1 DEF LexToken, AddToken, RuleInv
<1>2. CASE EndLexing
  <2> DEFINE found == {i \in DOMAIN tokens : IsErrorToken(tokens[i])}
  <2>1. stage' = "rejected" \/ (stack' = <<Frame("modified", 0, <<>>)>> /\ stage' = "parsing")
    <3>1. /\ stage' = IF found = {} THEN "parsing" ELSE "rejected"
          /\ stack' = IF found = {} THEN <<Frame("modified", 0, <<>>)>> ELSE <<>>
      BY <1>2, Zenon DEF EndLexing
    <3> HIDE DEF found
    <3> QED
      BY <3>1
  <2>2. <<Frame("modified", 0, <<>>)>> # <<>>
    OBVIOUS
  <2> QED
    BY <2>1, <2>2 DEF RuleInv
<1>3. CASE ParseModeModifier
  <2>1. /\ stage = "parsing" /\ stack # <<>>
        /\ (\E e : Fail(e)) \/ (stage' = stage /\ \E f : stack' = Replaced(f))
    BY <1>3 DEF ParseModeModifier, Calling, Going
  <2> QED
    BY <1>f, <1>b, <2>1
<1>4. CASE ParseLet
  <2>1. /\ stage = "parsing" /\ stack # <<>>
        /\ (\E e : Fail(e)) \/ \E f, o : CallOr(Append(stack, f), o)
    BY <1>4 DEF ParseLet, Calling
  <2>2. \A f : IsStack(Append(stack, f))
    BY <2>1, PoppedFrames, Appended
  <2> QED
    BY <1>f, <2>1, <2>2, CallOrRule
<1>5. CASE EndLet
  <2>1. /\ stage = "parsing" /\ stack # <<>> /\ stack[Len(stack)].fn = "let"
        /\ \/ \E e : Fail(e)
           \/ stage' = stage /\ \E f : stack' = Append(SubSeq(stack, 1, Len(stack) - 2), f)
    BY <1>5 DEF EndLet, Returned, Going, Top
  <2>2. IsStack(SubSeq(stack, 1, Len(stack) - 2))
    BY <2>1, PoppedFrames
  <2> QED
    BY <1>f, <2>1, <2>2, Appended, MoreRule
<1>6. CASE ParseBody
  BY <1>6, PoppedFrames, CallOrRule DEF ParseBody, Calling
<1>7. CASE EndModified
  <2> DEFINE n == Len(nodes)
             k == Len(Top.items)
  <2>1. /\ stage = "parsing" /\ stack # <<>> /\ result # 0 /\ Top.fn = "modified"
        /\ \/ \E e : Fail(e)
           \/ stage' = stage /\ result' = IF Top.items = <<>> THEN result ELSE n + k
    BY <1>7 DEF EndModified, Returned, Going
  <2>2. n \in Nat /\ k \in Nat /\ (Top.items # <<>> => k > 0)
    <3>1. PICK D : Deep(nodes, stack, result, recursion, D)
      BY DEF DepthInv
    <3>2. IsStack(Top.items) /\ n \in Nat
      BY <2>1, <3>1, TopDeep DEF FrameDeep, DeepList
    <3> QED
      BY <3>2, StackLen
  <2> HIDE DEF n, k
  <2>3. CASE \E e : Fail(e)
    BY <1>f, <2>3
  <2>4. CASE stage' = stage /\ result' = IF Top.items = <<>> THEN result ELSE n + k
    <3>1. result' # 0
      BY <2>1, <2>2, <2>4
    <3> QED
      BY <2>1, <2>4, <3>1 DEF RuleInv
  <2> QED
    BY <2>1, <2>3, <2>4
<1>8. CASE ParseLookaround
  BY <1>8, CallModifiedRule DEF ParseLookaround, Calling
<1>9. CASE EndLookaround
  <2>1. /\ stage = "parsing" /\ stack # <<>> /\ stack[Len(stack)].fn = "lookaround"
        /\ \E ns, o, left, frame, from, nots :
             AddFix(ns, o, left, SubSeq(stack, 1, Len(stack) - 2), frame, from, nots)
    BY <1>9 DEF EndLookaround, Returned, Top
  <2> QED
    BY <2>1, PoppedFrames, AddFixRule
<1>10. CASE ParseGroup
  <2>1. /\ stage = "parsing" /\ stack # <<>>
        /\ (\E e : Fail(e)) \/ \E tag, o : CallModified("group", tag, o)
    BY <1>10 DEF ParseGroup, OpenGroup, Calling
  <2> QED
    BY <1>f, <2>1, CallModifiedRule
<1>11. CASE EndGroup
  <2>1. /\ stage = "parsing" /\ stack # <<>> /\ stack[Len(stack)].fn = "group"
        /\ \/ \E e : Fail(e)
           \/ \E ns, repetition, left, frame, from, nots :
                AddRepeated(ns, repetition, left, SubSeq(stack, 1, Len(stack) - 2), frame, from, nots)
    BY <1>11 DEF EndGroup, Returned, Top
  <2> QED
    BY <1>f, <2>1, PoppedFrames, AddRepeatedRule
<1>12. CASE ParseAtom
  <2>1. /\ stage = "parsing" /\ stack # <<>>
        /\ \/ \E e : Fail(e)
           \/ \E ns, repetition, left, frame, from, nots :
                AddRepeated(ns, repetition, left, Below, frame, from, nots)
    BY <1>12 DEF ParseAtom, AtAtom, Calling, AddAtom
  <2> QED
    BY <1>f, <2>1, PoppedFrames, AddRepeatedRule
<1>13. CASE NoFix
  <2>1. stage = "parsing" /\ stack # <<>> /\ Top.fn = "or"
    BY <1>13 DEF NoFix, AtAtom, Calling
  <2>2. CASE LoneNot \/ LonePipe
    BY <1>f, <2>2 DEF LoneNot, LonePipe
  <2>3. CASE NextAlternative
    BY <1>b, <2>1, <2>3 DEF NextAlternative, Going
  <2>4. CASE EmptyExpression \/ EndOr
    <3>1. PICK D : Deep(nodes, stack, result, recursion, D)
      BY DEF DepthInv
    <3>2. Len(nodes) \in Nat /\ Len(nodes) + 1 # 0
      BY <2>1, <3>1, TopDeep
    <3>3. CASE EmptyExpression
      BY <2>1, <3>2, <3>3, ReturnOrRule DEF EmptyExpression
    <3>4. CASE EndOr
      <4>1. PICK E : Grown(nodes, D, Sequence, E) /\ SequenceRule \in 1 .. Len(Sequence)
        BY <2>1, <3>1, <3>4, SequenceDeep DEF EndOr
      <4>2. SequenceRule # 0 /\ Len(Sequence) + 1 # 0
        <5> DEFINE x == SequenceRule
                   m == Len(Sequence)
        <5>1. x \in 1 .. m /\ m \in Nat
          BY <4>1 DEF Grown
        <5> HIDE DEF x, m
        <5>2. x # 0 /\ m + 1 # 0
          BY <5>1
        <5> QED
          BY <5>2 DEF x, m
      <4>3. \E ns, n : n # 0 /\ ReturnOr(ns, n)
        BY <3>4, <4>2 DEF EndOr
      <4> QED
        BY <2>1, <4>3, ReturnOrRule
    <3> QED
      BY <2>4, <3>3, <3>4
  <2> QED
    BY <1>13, <2>2, <2>3, <2>4 DEF NoFix
<1>14. CASE EndParse
  BY <1>f, <1>14 DEF EndParse, parseVars, RuleInv
<1>15. CASE UNCHANGED parserVars
  BY <1>15 DEF parserVars, parseVars, RuleInv
<1> QED
  BY <1>1, <1>2, <1>3, <1>4, <1>5, <1>6, <1>7, <1>8, <1>9, <1>10, <1>11, <1>12, <1>13, <1>14, <1>15
  DEF ParserStep

-----------------------------------------------------------------------------
\* The depth of a node, given those of the nodes below it
DepthOf(ns, g, n) == Own(ns[n]) + Max({0} \cup {g[kid] : kid \in Range(ns[n].kids)})

LEMMA BoundedMax ==
  ASSUME NEW S, S \subseteq Nat, S # {}, NEW b \in Nat, \A x \in S : x <= b
  PROVE  Max(S) \in Nat /\ Max(S) <= b
<1> DEFINE T == {b - x : x \in S}
<1>1. T \subseteq Nat /\ T # {}
  <2>1. PICK x \in S : TRUE
    OBVIOUS
  <2>2. b - x \in T
    OBVIOUS
  <2>3. \A y \in S : b - y \in Nat
    OBVIOUS
  <2> QED
    BY <2>2, <2>3
<1> HIDE DEF T
<1>2. PICK t \in T : \A y \in T : t <= y
  BY <1>1, Least
<1>3. PICK x \in S : t = b - x
  BY DEF T
<1>4. \A y \in S : x >= y
  <2> SUFFICES ASSUME NEW y \in S PROVE x >= y
    OBVIOUS
  <2>1. b - y \in T
    BY DEF T
  <2> QED
    BY <1>2, <1>3, <2>1
<1>5. Max(S) \in S
  BY <1>4 DEF Max
<1> QED
  BY <1>5

LEMMA DepthOfBounded ==
  ASSUME NEW ns, NEW D, NEW n \in Nat, NodeDeep(ns[n], n, D), D[n] \in Nat,
         NEW g, \A k \in 1 .. n - 1 : D[k] \in Nat /\ g[k] \in Nat /\ g[k] <= D[k]
  PROVE  DepthOf(ns, g, n) \in Nat /\ DepthOf(ns, g, n) <= D[n]
<1> DEFINE node == ns[n]
           kids == node.kids
           S == {0} \cup {g[kid] : kid \in Range(kids)}
           b == D[n] - Own(node)
<1>1. Own(node) \in Nat /\ Own(node) <= D[n] /\ DeepList(kids, n - 1, D, b)
  BY DEF NodeDeep, Own
<1>2. b \in Nat
  <2> HIDE DEF node
  <2> QED
    BY <1>1
<1>3. \A i \in DOMAIN kids : kids[i] \in 1 .. n - 1 /\ D[kids[i]] <= b
  BY <1>1 DEF DeepList
<1> HIDE DEF kids, b
<1>4. \A x \in S : x \in Nat /\ x <= b
  <2> SUFFICES ASSUME NEW x \in S PROVE x \in Nat /\ x <= b
    OBVIOUS
  <2>1. CASE x = 0
    BY <1>2, <2>1
  <2>2. CASE x # 0
    <3>1. PICK kid \in Range(kids) : x = g[kid]
      BY <2>2
    <3>2. PICK i \in DOMAIN kids : kid = kids[i]
      BY <3>1 DEF Range
    <3>3. kid \in 1 .. n - 1 /\ D[kid] <= b
      BY <1>3, <3>2
    <3>4. D[kid] \in Nat /\ g[kid] \in Nat /\ g[kid] <= D[kid]
      BY <3>3
    <3> QED
      BY <1>2, <3>1, <3>3, <3>4
  <2> QED
    BY <2>1, <2>2
<1>5. S # {} /\ S \subseteq Nat
  BY <1>4
<1> HIDE DEF S
<1>6. Max(S) \in Nat /\ Max(S) <= b
  BY <1>2, <1>4, <1>5, BoundedMax
<1>7. DepthOf(ns, g, n) = Own(node) + Max(S)
  BY DEF DepthOf, S, kids
<1> HIDE DEF node
<1>8. Own(node) + Max(S) \in Nat /\ Own(node) + Max(S) <= D[n]
  BY <1>1, <1>6 DEF b
<1> QED
  BY <1>7, <1>8

LEMMA SameDepth ==
  ASSUME NEW ns, NEW D, NEW n, NodeDeep(ns[n], n, D), NEW g, NEW h, \A k \in 1 .. n - 1 : h[k] = g[k]
  PROVE  DepthOf(ns, h, n) = DepthOf(ns, g, n)
<1> DEFINE kids == ns[n].kids
<1>1. \A i \in DOMAIN kids : kids[i] \in 1 .. n - 1
  BY DEF NodeDeep, DeepList
<1>2. \A kid \in Range(kids) : h[kid] = g[kid]
  BY <1>1 DEF Range
<1>3. {h[kid] : kid \in Range(kids)} = {g[kid] : kid \in Range(kids)}
  BY <1>2
<1> QED
  BY <1>3 DEF DepthOf

\* The recursive function is defined on the whole tree
LEMMA DepthsDefined ==
  ASSUME NEW ns, NEW D, TreeDeep(ns, D)
  PROVE  \E g : g = [n \in DOMAIN ns |-> DepthOf(ns, g, n)]
<1> DEFINE l == Len(ns)
           Fits(n, g) == /\ g \in [1 .. n -> Nat]
                         /\ \A i \in 1 .. n : g[i] = DepthOf(ns, g, i) /\ g[i] <= D[i]
           Missing == {n \in 0 .. l : ~ \E g : Fits(n, g)}
<1>1. l \in Nat /\ DOMAIN ns = 1 .. l /\ D \in [1 .. l -> Nat] /\ \A i \in 1 .. l : NodeDeep(ns[i], i, D)
  BY StackLen DEF TreeDeep
<1> HIDE DEF l
<1>2. Missing = {}
  <2> SUFFICES ASSUME Missing # {} PROVE FALSE
    OBVIOUS
  <2>1. PICK n \in Missing : \A k \in Missing : n <= k
    <3>1. Missing \subseteq Nat
      BY <1>1
    <3> HIDE DEF Missing
    <3> QED
      BY <3>1, Least
  <2>2. n \in 0 .. l /\ n \in Nat
    BY <1>1, <2>1
  <2>3. CASE n = 0
    <3> DEFINE g == [i \in 1 .. 0 |-> 0]
    <3>1. g \in [1 .. 0 -> Nat] /\ \A i \in 1 .. 0 : FALSE
      OBVIOUS
    <3> HIDE DEF g
    <3>2. Fits(0, g)
      BY <3>1
    <3> QED
      BY <2>1, <2>3, <3>2
  <2>4. CASE n # 0
    <3>1. n - 1 \in 0 .. l /\ ~(n <= n - 1)
      BY <1>1, <2>2, <2>4
    <3>2. PICK g : Fits(n - 1, g)
      BY <2>1, <3>1
    <3> DEFINE h == [i \in 1 .. n |-> IF i = n THEN DepthOf(ns, g, n) ELSE g[i]]
    <3>3. n \in 1 .. l /\ NodeDeep(ns[n], n, D) /\ D[n] \in Nat
      BY <1>1, <2>2, <2>4
    <3>4. \A k \in 1 .. n - 1 : D[k] \in Nat /\ g[k] \in Nat /\ g[k] <= D[k] /\ g[k] = DepthOf(ns, g, k)
      BY <1>1, <3>2, <3>3
    <3>5. DepthOf(ns, g, n) \in Nat /\ DepthOf(ns, g, n) <= D[n]
      <4>1. \A k \in 1 .. n - 1 : D[k] \in Nat /\ g[k] \in Nat /\ g[k] <= D[k]
        BY <3>4
      <4> HIDE DEF Fits, Missing
      <4> QED
        BY <2>2, <3>3, <4>1, DepthOfBounded
    <3>6. /\ DOMAIN h = 1 .. n /\ h[n] = DepthOf(ns, g, n)
          /\ \A k \in 1 .. n - 1 : h[k] = g[k]
      BY <2>2, <3>3
    <3>7. h \in [1 .. n -> Nat]
      BY <3>4, <3>5, <2>2
    <3> HIDE DEF h, Missing, Fits
    <3>8. ASSUME NEW i \in 1 .. n PROVE h[i] = DepthOf(ns, h, i) /\ h[i] <= D[i]
      <4>1. NodeDeep(ns[i], i, D) /\ \A k \in 1 .. i - 1 : h[k] = g[k]
        BY <1>1, <2>2, <3>3, <3>6
      <4>2. DepthOf(ns, h, i) = DepthOf(ns, g, i)
        BY <4>1, SameDepth
      <4>3. CASE i = n
        BY <3>5, <3>6, <4>2, <4>3
      <4>4. CASE i # n
        <5>1. i \in 1 .. n - 1
          BY <2>2, <4>4
        <5> QED
          BY <3>4, <3>6, <4>2, <5>1
      <4> QED
        BY <4>3, <4>4
    <3>9. Fits(n, h)
      BY <3>7, <3>8 DEF Fits
    <3> QED
      BY <2>1, <3>9 DEF Missing
  <2> QED
    BY <2>3, <2>4
<1>3. PICK g : Fits(l, g)
  <2>1. l \in 0 .. l
    BY <1>1
  <2> HIDE DEF Fits
  <2> QED
    BY <1>2, <2>1
<1>4. g = [n \in 1 .. l |-> DepthOf(ns, g, n)]
  BY <1>3
<1> QED
  BY <1>1, <1>4

LEMMA DepthsBounded ==
  ASSUME NEW D, TreeDeep(nodes, D), NEW n \in 1 .. Len(nodes)
  PROVE  Depths[n] \in Nat /\ Depths[n] <= D[n]
<1> DEFINE l == Len(nodes)
           d == Depths
           Odd == {i \in 1 .. l : ~(d[i] \in Nat /\ d[i] <= D[i])}
<1>1. /\ l \in Nat /\ DOMAIN nodes = 1 .. l /\ D \in [1 .. l -> Nat]
      /\ \A i \in 1 .. l : NodeDeep(nodes[i], i, D)
  BY StackLen DEF TreeDeep
<1>2. PICK g : g = [i \in DOMAIN nodes |-> DepthOf(nodes, g, i)]
  BY DepthsDefined
<1>3. g = [i \in DOMAIN nodes |->
             (IF nodes[i].kind \in {"stmt", "let"} THEN 0 ELSE 1)
             + Max({0} \cup {g[kid] : kid \in Range(nodes[i].kids)})]
  BY <1>2, Zenon DEF DepthOf, Own
<1>4. d = [i \in DOMAIN nodes |->
             (IF nodes[i].kind \in {"stmt", "let"} THEN 0 ELSE 1)
             + Max({0} \cup {d[kid] : kid \in Range(nodes[i].kids)})]
  BY <1>3, Zenon DEF Depths
<1>5. d = [i \in DOMAIN nodes |-> DepthOf(nodes, d, i)]
  <2> HIDE DEF d
  <2> QED
    BY <1>4, Zenon DEF DepthOf, Own
<1> HIDE DEF d, l
<1>6. \A i \in 1 .. l : d[i] = DepthOf(nodes, d, i)
  <2> DEFINE e == [i \in DOMAIN nodes |-> DepthOf(nodes, d, i)]
  <2>1. \A i \in 1 .. l : e[i] = DepthOf(nodes, d, i)
    BY <1>1
  <2>2. d = e
    BY <1>5
  <2> HIDE DEF e
  <2> QED
    BY <2>1, <2>2
<1>7. Odd = {}
  <2> SUFFICES ASSUME Odd # {} PROVE FALSE
    OBVIOUS
  <2>1. PICK i \in Odd : \A k \in Odd : i <= k
    <3>1. Odd \subseteq Nat
      BY <1>1
    <3> HIDE DEF Odd
    <3> QED
      BY <3>1, Least
  <2>2. i \in 1 .. l /\ i \in Nat /\ NodeDeep(nodes[i], i, D) /\ D[i] \in Nat
    BY <1>1, <2>1
  <2>3. \A k \in 1 .. i - 1 : D[k] \in Nat /\ d[k] \in Nat /\ d[k] <= D[k]
    <3> SUFFICES ASSUME NEW k \in 1 .. i - 1 PROVE D[k] \in Nat /\ d[k] \in Nat /\ d[k] <= D[k]
      OBVIOUS
    <3>1. k \in 1 .. l /\ ~(i <= k)
      BY <1>1, <2>2
    <3> QED
      BY <1>1, <2>1, <3>1
  <2>4. d[i] = DepthOf(nodes, d, i)
    BY <1>6, <2>2
  <2>5. ~(d[i] \in Nat /\ d[i] <= D[i])
    BY <2>1
  <2> HIDE DEF Odd
  <2> QED
    BY <2>2, <2>3, <2>4, <2>5, DepthOfBounded
<1> QED
  BY <1>7 DEF l, d

LEMMA DeepNesting == LevelsInv /\ DepthInv /\ RuleInv => NestingBounded
<1> SUFFICES ASSUME LevelsInv, DepthInv, RuleInv, stage = "parsed" PROVE Depths[result] <= 2 * Limit + 2
  BY DEF NestingBounded
<1>1. stack = <<>> /\ result # 0
  BY DEF RuleInv
<1>2. recursion = Limit
  <2>1. LevelsUpTo(<<>>, Len(<<>>)) = {}
    BY DEF LevelsUpTo
  <2>2. recursion \in Nat /\ recursion + Cardinality({}) = Limit
    BY <1>1, <2>1 DEF LevelsInv, Balanced
  <2> QED
    BY <2>2, FS_EmptySet
<1>3. PICK D : Deep(nodes, stack, result, recursion, D)
  BY DEF DepthInv
<1>4. TreeDeep(nodes, D) /\ result \in 0 .. Len(nodes) /\ D[result] <= 2 * recursion + 2
  BY <1>1, <1>3 DEF Deep
<1>5. Len(nodes) \in Nat /\ D \in [1 .. Len(nodes) -> Nat]
  BY <1>4, StackLen DEF TreeDeep
<1>6. result \in 1 .. Len(nodes)
  BY <1>1, <1>4, <1>5
<1>7. Depths[result] \in Nat /\ Depths[result] <= D[result] /\ D[result] \in Nat
  BY <1>4, <1>5, <1>6, DepthsBounded
<1> DEFINE x == Depths[result]
           y == D[result]
<1>8. x \in Nat /\ y \in Nat /\ x <= y /\ y <= 2 * Limit + 2
  BY <1>2, <1>4, <1>7
<1> HIDE DEF x, y
<1>9. x <= 2 * Limit + 2
  BY <1>8, LimitAssumption
<1> QED
  BY <1>9 DEF x

NestingInv == TilesInv /\ LevelsInv /\ PlacesInv /\ DepthInv /\ RuleInv

LEMMA InitNesting == Init => NestingInv
  BY InitTiles, InitLevels, InitPlaces, InitDeep, InitRule DEF NestingInv

LEMMA StepNesting == NestingInv /\ [ParserStep]_parserVars => NestingInv'
  BY StepTiles, StepLevels, StepPlaces, StepDeep, StepRule DEF NestingInv

\* The tree of an accepted text is at most twice as deep as expressions may be
\* nested, and two more, not counting the statements of a block, for any text
\* and any limit: what bounds the native stack of the passes that recurse over
\* the tree is the counter of the parser (parser.rs:121-131,
\* parser_impl.rs:12-290, 665-690).
THEOREM NestingBoundedHolds == Spec => []NestingBounded
<1>1. NestingInv => NestingBounded
  BY DeepNesting DEF NestingInv
<1> QED
  BY <1>1, InitNesting, StepNesting, PTL DEF Spec

-----------------------------------------------------------------------------
(***************************************************************************)
(* Types                                                                   *)
(***************************************************************************)
PositionInv == stage \in Stages /\ at \in 1 .. Len(tokens) + 1

LEMMA InitPosition == Init => PositionInv
<1>1. Len(<<>>) = 0
  OBVIOUS
<1> QED
  BY <1>1 DEF Init, PositionInv, Stages

\* The position moves only within the tokens, and these are never dropped
LEMMA StepPosition ==
  ASSUME TilesInv, LevelsInv, PlacesInv, PositionInv, [ParserStep]_parserVars
  PROVE  PositionInv'
<1>p. ASSUME stage' = "parsing"
      PROVE  PositionInv'
  <2>1. PlacesInv'
    BY StepPlaces
  <2>2. Len(tokens') \in Nat /\ at' \in 1 .. Len(tokens')
    BY <1>p, <2>1 DEF PlacesInv, Ended
  <2>3. at' \in 1 .. Len(tokens') + 1
    BY <2>2
  <2> QED
    BY <1>p, <2>3 DEF PositionInv, Stages
<1>s. ASSUME stage' \in Stages, at' = at, tokens' = tokens
      PROVE  PositionInv'
  BY <1>s DEF PositionInv
<1>f. ASSUME NEW error, Fail(error)
      PROVE  PositionInv'
  BY <1>f, <1>s DEF Fail, lexVars, parseVars, Stages
<1>a. ASSUME NEW token, stage' \in Stages, at' = at, tokens' = Append(tokens, token)
      PROVE  PositionInv'
  <2>1. Len(tokens) \in Nat /\ Len(Append(tokens, token)) = Len(tokens) + 1
    BY Appended, StackLen DEF TilesInv
  <2> DEFINE l == Len(tokens)
             k == Len(Append(tokens, token))
  <2>2. at \in 1 .. l + 1 /\ l \in Nat /\ k = l + 1
    BY <2>1 DEF PositionInv
  <2>3. stage' \in Stages /\ at' = at /\ Len(tokens') = k
    BY <1>a
  <2> HIDE DEF l, k
  <2>4. at \in 1 .. k + 1
    BY <2>2
  <2> QED
    BY <2>3, <2>4 DEF PositionInv
<1>1. CASE LexToken
  <2>1. stage' = "panicked" /\ at' = at /\ tokens' = tokens => PositionInv'
    BY <1>s DEF Stages
  <2>2. stage' = "lexing" /\ at' = at /\ (\E token : tokens' = Append(tokens, token)) => PositionInv'
    BY <1>a DEF Stages
  <2> QED
    BY <1>1, <2>1, <2>2 DEF LexToken, AddToken, lexVars, parseVars
<1>2. CASE EndLexing
  <2>1. stage' \in Stages /\ at' = at /\ \E token : tokens' = Append(tokens, token)
    BY <1>2 DEF EndLexing, Stages
  <2> QED
    BY <1>a, <2>1
<1>g. ASSUME stage = "parsing", stage' = stage
      PROVE  PositionInv'
  BY <1>g, <1>p
<1>3. CASE ParseModeModifier
  BY <1>3, <1>g, <1>f DEF ParseModeModifier, Calling, Going
<1>o. ASSUME NEW frames, NEW o, stage = "parsing", CallOr(frames, o)
      PROVE  PositionInv'
  BY <1>o, <1>g, <1>f DEF CallOr, Going
<1>4. CASE ParseLet
  BY <1>4, <1>o, <1>f DEF ParseLet, Calling
<1>5. CASE EndLet
  BY <1>5, <1>g, <1>f DEF EndLet, Returned, Going
<1>6. CASE ParseBody
  BY <1>6, <1>o DEF ParseBody, Calling
<1>7. CASE EndModified
  BY <1>7, <1>g, <1>f DEF EndModified, Returned, Going
<1>m. ASSUME NEW fn, NEW tag, NEW o, stage = "parsing", CallModified(fn, tag, o)
      PROVE  PositionInv'
  BY <1>m, <1>g, <1>f DEF CallModified, Going
<1>x. ASSUME NEW ns, NEW o, NEW left, NEW frames, NEW frame, NEW from, NEW nots, stage = "parsing",
             AddFix(ns, o, left, frames, frame, from, nots)
      PROVE  PositionInv'
  BY <1>x, <1>g, <1>f DEF AddFix, Going
<1>r. ASSUME NEW ns, NEW repetition, NEW left, NEW frames, NEW frame, NEW from, NEW nots, stage = "parsing",
             AddRepeated(ns, repetition, left, frames, frame, from, nots)
      PROVE  PositionInv'
  BY <1>r, <1>x, <1>f DEF AddRepeated
<1>8. CASE ParseLookaround
  BY <1>8, <1>m DEF ParseLookaround, Calling
<1>9. CASE EndLookaround
  BY <1>9, <1>x DEF EndLookaround, Returned
<1>10. CASE ParseGroup
  BY <1>10, <1>m, <1>f DEF ParseGroup, OpenGroup, Calling
<1>11. CASE EndGroup
  BY <1>11, <1>r, <1>f DEF EndGroup, Returned
<1>12. CASE ParseAtom
  BY <1>12, <1>r, <1>f DEF ParseAtom, AddAtom, AtAtom, Calling
<1>13. CASE NoFix
  <2>1. stage = "parsing"
    BY <1>13 DEF NoFix, AtAtom, Calling
  <2>2. ASSUME NEW ns, NEW n, ReturnOr(ns, n)
        PROVE  PositionInv'
    BY <2>1, <2>2, <1>g DEF ReturnOr, Going
  <2>3. LoneNot \/ LonePipe => PositionInv'
    BY <1>f DEF LoneNot, LonePipe
  <2>4. NextAlternative => PositionInv'
    BY <2>1, <1>g DEF NextAlternative, Going
  <2>5. EmptyExpression \/ EndOr => PositionInv'
    BY <2>2 DEF EmptyExpression, EndOr
  <2> QED
    BY <1>13, <2>3, <2>4, <2>5 DEF NoFix
<1>14. CASE EndParse
  BY <1>14, <1>s, <1>f DEF EndParse, lexVars, parseVars, Stages
<1>15. CASE UNCHANGED parserVars
  BY <1>15, <1>s DEF parserVars, lexVars, parseVars, PositionInv
<1> QED
  BY <1>1, <1>2, <1>3, <1>4, <1>5, <1>6, <1>7, <1>8, <1>9, <1>10, <1>11, <1>12, <1>13, <1>14,
     <1>15 DEF ParserStep

LEMMA LevelsLeft ==
  ASSUME LevelsInv
  PROVE  recursion \in 0 .. Limit
<1> DEFINE c == Cardinality(LevelsUpTo(stack, Len(stack)))
<1>1. recursion \in Nat /\ recursion + c = Limit /\ IsStack(stack)
  BY DEF LevelsInv, Balanced
<1>2. c \in Nat
  BY <1>1, StackLen, LevelsFinite, FS_CardinalityType
<1> HIDE DEF c
<1> QED
  BY <1>1, <1>2, LimitAssumption

\* The types of the parser follow from the invariants on levels, depths and places
LEMMA TypesOfParser == LevelsInv /\ DepthInv /\ PositionInv => ParserTypeOK
<1> SUFFICES ASSUME LevelsInv, DepthInv, PositionInv PROVE ParserTypeOK
  OBVIOUS
<1>1. PICK D : Deep(nodes, stack, result, recursion, D)
  BY DEF DepthInv
<1>2. stage \in Stages /\ at \in 1 .. Len(tokens) + 1 /\ recursion \in 0 .. Limit
  BY LevelsLeft DEF PositionInv
<1>3. DOMAIN nodes = 1 .. Len(nodes) /\ result \in 0 .. Len(nodes)
  BY <1>1, StackLen DEF Deep, TreeDeep
<1>4. ASSUME NEW k \in DOMAIN stack
      PROVE  stack[k].fn \in Functions /\ Range(stack[k].items) \cup Range(stack[k].fixes) \subseteq DOMAIN nodes
  <2>1. FrameDeep(stack[k], Left(stack, k), Len(nodes), D)
    BY <1>1, <1>4 DEF Deep, StackDeep
  <2>2. \A list, b : DeepList(list, Len(nodes), D, b) => Range(list) \subseteq DOMAIN nodes
    BY <1>3 DEF DeepList, Range
  <2> QED
    BY <2>1, <2>2 DEF FrameDeep
<1>5. ASSUME NEW n \in DOMAIN nodes
      PROVE  Range(nodes[n].kids) \subseteq 1 .. n - 1
  <2>1. NodeDeep(nodes[n], n, D)
    BY <1>1, <1>3, <1>5 DEF Deep, TreeDeep
  <2> QED
    BY <2>1 DEF NodeDeep, DeepList, Range
<1> QED
  BY <1>2, <1>3, <1>4, <1>5 DEF ParserTypeOK

-----------------------------------------------------------------------------
(***************************************************************************)
(* Sums, and sequences that are joined                                     *)
(***************************************************************************)
\* A sum that is taken from left to right
LEMMA RunningSum ==
  ASSUME NEW n \in Nat, NEW step \in [1 .. n -> Nat]
  PROVE  \E f \in [0 .. n -> Nat] : f[0] = 0 /\ \A i \in 1 .. n : f[i] = f[i - 1] + step[i]
<1> DEFINE Fits(k, f) == f \in [0 .. k -> Nat] /\ f[0] = 0 /\ \A i \in 1 .. k : f[i] = f[i - 1] + step[i]
           Missing == {k \in 0 .. n : ~ \E f : Fits(k, f)}
<1>1. Missing = {}
  <2> SUFFICES ASSUME Missing # {} PROVE FALSE
    OBVIOUS
  <2>1. PICK k \in Missing : \A m \in Missing : k <= m
    <3>1. Missing \subseteq Nat
      OBVIOUS
    <3> HIDE DEF Missing
    <3> QED
      BY <3>1, Least
  <2>2. k \in 0 .. n /\ ~ \E f : Fits(k, f)
    BY <2>1
  <2>3. CASE k = 0
    <3> DEFINE f == [i \in 0 .. 0 |-> 0]
    <3>1. Fits(0, f)
      OBVIOUS
    <3> HIDE DEF f
    <3> QED
      BY <2>2, <2>3, <3>1
  <2>4. CASE k # 0
    <3>1. k - 1 \in 0 .. n /\ ~(k <= k - 1)
      BY <2>2, <2>4
    <3>2. PICK f : Fits(k - 1, f)
      BY <2>1, <3>1
    <3> DEFINE g == [i \in 0 .. k |-> IF i = k THEN f[k - 1] + step[k] ELSE f[i]]
    <3>3. f[k - 1] \in Nat /\ step[k] \in Nat
      BY <2>2, <2>4, <3>1, <3>2
    <3>4. g \in [0 .. k -> Nat]
      BY <2>2, <3>2, <3>3
    <3>5. g[0] = 0
      BY <2>2, <2>4, <3>2
    <3>6. \A i \in 1 .. k : g[i] = g[i - 1] + step[i]
      <4> SUFFICES ASSUME NEW i \in 1 .. k PROVE g[i] = g[i - 1] + step[i]
        OBVIOUS
      <4>1. i - 1 \in 0 .. k /\ i - 1 # k /\ k \in Nat
        BY <2>2
      <4>2. g[i - 1] = f[i - 1]
        BY <4>1
      <4>3. i # k => g[i] = f[i] /\ i \in 1 .. k - 1
        BY <4>1
      <4>4. i = k => g[i] = f[k - 1] + step[k]
        OBVIOUS
      <4> HIDE DEF g
      <4> QED
        BY <3>2, <4>2, <4>3, <4>4
    <3> HIDE DEF g
    <3>7. Fits(k, g)
      BY <3>4, <3>5, <3>6
    <3> QED
      BY <2>2, <3>7
  <2> QED
    BY <2>3, <2>4
<1>2. n \in 0 .. n
  OBVIOUS
<1>3. \E f : Fits(n, f)
  BY <1>1, <1>2
<1> QED
  BY <1>3

Grows(rows, n, w) == w[1] = rows[1] /\ \A i \in 2 .. n : w[i] = w[i - 1] \o rows[i]

\* FlattenSeq(rows) is the last of the sequences that grow by a row at a time
LEMMA Flattened ==
  ASSUME NEW rows, NEW n \in Nat \ {0}, Len(rows) = n,
         NEW T, NEW w \in [1 .. n -> T], Grows(rows, n, w)
  PROVE  FlattenSeq(rows) = w[n]
<1>0. w[1] = rows[1] /\ \A i \in 2 .. n : w[i] = w[i - 1] \o rows[i]
  BY DEF Grows
<1> DEFINE Total(h) == h = [i \in 1 .. n |-> IF i = 1 THEN rows[i] ELSE h[i - 1] \o rows[i]]
           f == CHOOSE h : Total(h)
           Wrong == {i \in 1 .. n : f[i] # w[i]}
<1>1. FlattenSeq(rows) = f[n]
  <2>1. Len(rows) # 0
    OBVIOUS
  <2> QED
    BY <2>1, Zenon DEF FlattenSeq
<1>2. Total(w)
  <2>1. ASSUME NEW i \in 1 .. n PROVE w[i] = IF i = 1 THEN rows[i] ELSE w[i - 1] \o rows[i]
    <3>1. i = 1 \/ i \in 2 .. n
      OBVIOUS
    <3> QED
      BY <1>0, <3>1
  <2>0. w = [i \in 1 .. n |-> w[i]]
    OBVIOUS
  <2>2. [i \in 1 .. n |-> w[i]] = [i \in 1 .. n |-> IF i = 1 THEN rows[i] ELSE w[i - 1] \o rows[i]]
    BY <2>1, Zenon
  <2> QED
    BY <2>0, <2>2, Zenon
<1>3. Total(f)
  <2> HIDE DEF Total
  <2> QED
    BY <1>2
<1> HIDE DEF f
<1>4. f[1] = rows[1] /\ \A i \in 2 .. n : f[i] = f[i - 1] \o rows[i]
  <2>1. \A i \in 1 .. n : f[i] = IF i = 1 THEN rows[i] ELSE f[i - 1] \o rows[i]
    BY <1>3, Zenon
  <2>2. 1 \in 1 .. n /\ \A i \in 2 .. n : i \in 1 .. n /\ i # 1
    OBVIOUS
  <2> QED
    BY <2>1, <2>2, Zenon
<1>5. Wrong = {}
  <2> SUFFICES ASSUME Wrong # {} PROVE FALSE
    OBVIOUS
  <2>1. PICK k \in Wrong : \A m \in Wrong : k <= m
    <3>1. Wrong \subseteq Nat
      OBVIOUS
    <3> HIDE DEF Wrong
    <3> QED
      BY <3>1, Least
  <2>2. k \in 1 .. n /\ f[k] # w[k]
    BY <2>1
  <2>3. k \in 2 .. n /\ k - 1 \in 1 .. n /\ ~(k <= k - 1)
    BY <1>0, <1>4, <2>2
  <2>4. f[k - 1] = w[k - 1]
    BY <2>1, <2>3
  <2>5. f[k] = f[k - 1] \o rows[k] /\ w[k] = w[k - 1] \o rows[k]
    BY <1>0, <1>4, <2>3
  <2> QED
    BY <2>2, <2>4, <2>5
<1>6. n \in 1 .. n
  OBVIOUS
<1>7. f[n] = w[n]
  BY <1>5, <1>6
<1> HIDE DEF Total
<1> QED
  BY <1>1, <1>7

LEMMA RowIsStack ==
  ASSUME NEW n \in Nat, NEW T, NEW s \in [1 .. n -> T]
  PROVE  IsStack(s) /\ Len(s) = n
<1> DEFINE S == {s[k] : k \in DOMAIN s}
<1>1. DOMAIN s = 1 .. n /\ s \in [1 .. n -> S]
  OBVIOUS
<1>2. s \in Seq(S)
  <2> HIDE DEF S
  <2> QED
    BY <1>1, SeqDef
<1>3. Len(s) \in Nat /\ DOMAIN s = 1 .. Len(s)
  <2> HIDE DEF S
  <2> QED
    BY <1>2, LenProperties
<1> QED
  BY <1>1, <1>2, <1>3 DEF IsStack

-----------------------------------------------------------------------------
(***************************************************************************)
(* The tree is a tree, in the order of the source.  F gives each node the  *)
(* first node of its subtree, so that the subtree of n is within F[n] .. n *)
(* and the subtrees of a list of rules come one after the other.  So do    *)
(* the rules that the frames have collected, from the bottom of the stack  *)
(* to its top, and the rule that is returned.                              *)
(***************************************************************************)
StatementKinds == {"let"} \cup ModeWords
LeafKinds == {"literal", "class", "boundary", "reference", "range", "regex", "variable", "dot"}
RuleKinds == LeafKinds \cup {"group", "sequence", "lookaround", "repetition", "alternation", "stmt"}

IsName(ts, units) == \E i \in DOMAIN ts : ts[i].token = "Identifier" /\ ts[i].units = units
IsGroupTag(ts, tag) ==
  tag[1] \in {"Normal", "Capturing", "Atomic"} /\ (tag[2] = <<>> \/ IsName(ts, tag[2]))
IsLookaroundTag(tag) == tag[1] \in {"Ahead", "Behind"}
IsReference(ts, value) ==
  \/ value[1] = "Named" /\ IsName(ts, value[2])
  \/ value[1] \in {"Number", "Relative"} /\ value[2] \in Int

\* What a node of each kind holds
Holds(kind, value, ts) ==
  /\ kind \in {"literal", "regex"} => Len(value) \in Nat
  /\ kind = "range" => Len(value[2]) \in Nat
  /\ kind = "reference" => IsReference(ts, value)
  /\ kind \in {"variable", "let"} => IsName(ts, value[1])
  /\ kind = "group" => IsGroupTag(ts, value)
  /\ kind = "lookaround" => IsLookaroundTag(value)
  /\ kind = "repetition" => value[3] \in {"Greedy", "Lazy", "Default"}
Spans(kind, kids) ==
  /\ kind \in LeafKinds \cup ModeWords => kids = <<>>
  /\ kind \in {"lookaround", "repetition", "let"} => Len(kids) = 1
  /\ kind = "stmt" => Len(kids) = 2
Shape(node, ts) ==
  /\ NodeFields \subseteq DOMAIN node
  /\ node.kind \in RuleKinds \cup StatementKinds
  /\ Holds(node.kind, node.value, ts)
  /\ Spans(node.kind, node.kids)

\* Rules among the first n nodes, one after the other
Row(list, n, F) ==
  /\ IsStack(list)
  /\ \A i \in DOMAIN list : list[i] \in 1 .. n
  /\ \A i, j \in DOMAIN list : i < j => list[i] < F[list[j]]

\* A statement is the first part of an expression, and nothing else is
Parts(node, kids, ns) ==
  \A j \in DOMAIN kids : ns[kids[j]].kind \in StatementKinds <=> node.kind = "stmt" /\ j = 1
NodeFits(ns, i, F, ts) ==
  /\ Shape(ns[i], ts)
  /\ Row(ns[i].kids, i - 1, F)
  /\ F[i] <= i
  /\ \A j \in DOMAIN ns[i].kids : F[i] <= F[ns[i].kids[j]]
  /\ Parts(ns[i], ns[i].kids, ns)
TreeFits(ns, F, ts) ==
  /\ IsStack(ns)
  /\ F \in [1 .. Len(ns) -> Nat]
  /\ \A i \in 1 .. Len(ns) : NodeFits(ns, i, F, ts)

FrameFields == {"fn", "items", "fixes", "from", "nots", "tag"}
RulesOf(f) == Elements(f.items) \cup Elements(f.fixes)
HasTag(fn, from, tag, ts) ==
  /\ fn = "let" => from \in DOMAIN ts /\ ts[from].token = "Identifier"
  /\ fn = "group" => IsGroupTag(ts, tag)
  /\ fn = "lookaround" => IsLookaroundTag(tag)
Collects(f, ns, F) ==
  /\ Row(f.items, Len(ns), F) /\ Row(f.fixes, Len(ns), F)
  /\ f.fn = "or" => \A i \in DOMAIN f.items, j \in DOMAIN f.fixes : f.items[i] < F[f.fixes[j]]
  /\ \A i \in DOMAIN f.items : ns[f.items[i]].kind \in StatementKinds <=> f.fn = "modified"
  /\ \A j \in DOMAIN f.fixes : ns[f.fixes[j]].kind \notin StatementKinds
FrameFits(f, ns, F, ts) ==
  /\ FrameFields \subseteq DOMAIN f /\ f.fn \in Functions
  /\ HasTag(f.fn, f.from, f.tag, ts)
  /\ Collects(f, ns, F)

\* The rules of the frames of s come before the subtree of y
Follows(s, F, y) == \A j \in DOMAIN s : \A x \in RulesOf(s[j]) : x < F[y]
InOrder(s, F, k) == \A j \in 1 .. k - 1 : \A x \in RulesOf(s[j]), y \in RulesOf(s[k]) : x < F[y]
StackFits(s, ns, F, ts) ==
  /\ IsStack(s)
  /\ \A k \in DOMAIN s :
       FrameFits(s[k], ns, F, ts) /\ InOrder(s, F, k) /\ (k > 1 => MayCall(s[k - 1].fn, s[k].fn))

Fits(ns, s, r, F, ts) ==
  /\ TreeFits(ns, F, ts)
  /\ StackFits(s, ns, F, ts)
  /\ r \in 0 .. Len(ns) /\ (r # 0 => Follows(s, F, r) /\ ns[r].kind \notin StatementKinds)
TreeInv ==
  /\ stage = "lexing" => nodes = <<>> /\ stack = <<>> /\ result = 0
  /\ \E F : Fits(nodes, stack, result, F, tokens)

LEMMA EmptyStack == IsStack(<<>>) /\ Len(<<>>) = 0 /\ \A i \in DOMAIN <<>> : FALSE
<1>1. <<>> \in Seq({})
  BY EmptySeq
<1>2. IsStack(<<>>)
  BY <1>1, StackOf
<1> QED
  BY <1>2

LEMMA RowAppended ==
  ASSUME NEW list, NEW n, NEW F, Row(list, n, F), NEW x \in 1 .. n,
         \A i \in DOMAIN list : list[i] < F[x]
  PROVE  Row(Append(list, x), n, F) /\ Elements(Append(list, x)) = Elements(list) \cup {x}
<1> DEFINE l == Len(list)
           t == Append(list, x)
<1>1. /\ IsStack(t) /\ DOMAIN t = 1 .. l + 1 /\ t[l + 1] = x /\ l \in Nat /\ DOMAIN list = 1 .. l
      /\ \A i \in 1 .. l : t[i] = list[i]
  BY Appended, StackLen DEF Row
<1>2. /\ \A i \in 1 .. l : list[i] \in 1 .. n /\ list[i] < F[x]
      /\ \A i, j \in 1 .. l : i < j => list[i] < F[list[j]]
  BY <1>1 DEF Row
<1> HIDE DEF l, t
<1>3. \A i \in 1 .. l + 1 : i = l + 1 \/ i \in 1 .. l
  BY <1>1
<1>4. \A i \in 1 .. l + 1 : t[i] \in 1 .. n
  BY <1>1, <1>2, <1>3
<1>5. ASSUME NEW i \in 1 .. l + 1, NEW j \in 1 .. l + 1, i < j PROVE t[i] < F[t[j]]
  <2>1. i \in 1 .. l
    BY <1>1, <1>5
  <2>2. j = l + 1 \/ j \in 1 .. l
    BY <1>3
  <2> QED
    BY <1>1, <1>2, <1>5, <2>1, <2>2
<1>6. Row(t, n, F)
  BY <1>1, <1>4, <1>5 DEF Row
<1>7. Elements(t) = Elements(list) \cup {x}
  <2>1. l + 1 \in 1 .. l + 1 /\ 1 .. l \subseteq 1 .. l + 1
    BY <1>1
  <2> QED
    BY <1>1, <1>3, <2>1 DEF Elements
<1> QED
  BY <1>6, <1>7 DEF t

LEMMA NoRow ==
  ASSUME NEW n, NEW F
  PROVE  Row(<<>>, n, F) /\ Elements(<<>>) = {}
<1> QED
  BY EmptyStack DEF Row, Elements

LEMMA OneRow ==
  ASSUME NEW n, NEW F, NEW x \in 1 .. n
  PROVE  Row(<<x>>, n, F)
<1>1. Row(<<>>, n, F) /\ \A i \in DOMAIN <<>> : FALSE
  BY NoRow, EmptyStack
<1>2. Row(Append(<<>>, x), n, F)
  BY <1>1, RowAppended
<1> QED
  BY <1>2

LEMMA TwoRow ==
  ASSUME NEW n, NEW F, NEW x \in 1 .. n, NEW y \in 1 .. n, x < F[y]
  PROVE  Row(<<x, y>>, n, F)
<1> DEFINE t == <<x, y>>
<1>1. /\ t \in Seq({x, y}) /\ DOMAIN t = 1 .. 2 /\ t[1] = x /\ t[2] = y
      /\ \A i, j \in 1 .. 2 : i < j => i = 1 /\ j = 2
      /\ \A i \in 1 .. 2 : i = 1 \/ i = 2
  OBVIOUS
<1> HIDE DEF t
<1>2. IsStack(t)
  BY <1>1, StackOf
<1>3. Row(t, n, F)
  BY <1>1, <1>2 DEF Row
<1> QED
  BY <1>3 DEF t

LEMMA RowGrows ==
  ASSUME NEW list, NEW n \in Nat, NEW F, Row(list, n, F), NEW m \in Nat, n <= m,
         NEW G, \A i \in 1 .. n : G[i] = F[i]
  PROVE  Row(list, m, G)
<1>1. \A i \in DOMAIN list : list[i] \in 1 .. n
  BY DEF Row
<1>2. 1 .. n \subseteq 1 .. m
  OBVIOUS
<1> QED
  BY <1>1, <1>2 DEF Row

\* A larger tree, with the same nodes
Extends(ns, F, ms, G, ts) ==
  /\ TreeFits(ms, G, ts)
  /\ Len(ns) \in Nat /\ Len(ms) \in Nat /\ Len(ns) <= Len(ms)
  /\ \A i \in 1 .. Len(ns) : G[i] = F[i] /\ ms[i].kind = ns[i].kind

LEMMA SameExtends ==
  ASSUME NEW ns, NEW F, NEW ts, TreeFits(ns, F, ts)
  PROVE  Extends(ns, F, ns, F, ts)
<1> DEFINE l == Len(ns)
<1>1. l \in Nat
  BY StackLen DEF TreeFits
<1> HIDE DEF l
<1>2. l <= l
  BY <1>1
<1> QED
  BY <1>1, <1>2 DEF Extends, l

LEMMA ExtendsTwice ==
  ASSUME NEW ns, NEW F, NEW ms, NEW G, NEW ls, NEW H, NEW ts,
         Extends(ns, F, ms, G, ts), Extends(ms, G, ls, H, ts)
  PROVE  Extends(ns, F, ls, H, ts)
<1> DEFINE n == Len(ns)
           m == Len(ms)
           l == Len(ls)
<1>1. n \in Nat /\ m \in Nat /\ l \in Nat /\ n <= m /\ m <= l
  BY DEF Extends
<1>2. /\ \A i \in 1 .. n : G[i] = F[i] /\ ms[i].kind = ns[i].kind
      /\ \A i \in 1 .. m : H[i] = G[i] /\ ls[i].kind = ms[i].kind
  BY DEF Extends
<1> HIDE DEF n, m, l
<1>3. n <= l /\ \A i \in 1 .. n : H[i] = F[i] /\ ls[i].kind = ns[i].kind
  <2>1. 1 .. n \subseteq 1 .. m
    BY <1>1
  <2> QED
    BY <1>1, <1>2, <2>1
<1> QED
  BY <1>1, <1>3 DEF Extends, n, m, l

\* A node over rules of the tree joins it
LEMMA NodeAddedFits ==
  ASSUME NEW ns, NEW F, NEW ts, TreeFits(ns, F, ts),
         NEW node, Shape(node, ts), Row(node.kids, Len(ns), F), Parts(node, node.kids, ns)
  PROVE  \E G : /\ Extends(ns, F, Append(ns, node), G, ts)
                /\ Len(Append(ns, node)) = Len(ns) + 1 /\ Append(ns, node)[Len(ns) + 1] = node
                /\ G[Len(ns) + 1] = IF node.kids = <<>> THEN Len(ns) + 1 ELSE F[node.kids[1]]
<1> DEFINE n == Len(ns)
           ms == Append(ns, node)
           d == IF node.kids = <<>> THEN n + 1 ELSE F[node.kids[1]]
           G == [i \in 1 .. n + 1 |-> IF i = n + 1 THEN d ELSE F[i]]
<1>1. /\ IsStack(ms) /\ n \in Nat /\ Len(ms) = n + 1 /\ ms[n + 1] = node
      /\ \A i \in 1 .. n : ms[i] = ns[i]
  BY Appended, StackLen DEF TreeFits
<1>2. F \in [1 .. n -> Nat] /\ \A i \in 1 .. n : NodeFits(ns, i, F, ts)
  BY DEF TreeFits
<1>3. /\ IsStack(node.kids) /\ (\A i \in DOMAIN node.kids : node.kids[i] \in 1 .. n)
      /\ \A i, j \in DOMAIN node.kids : i < j => node.kids[i] < F[node.kids[j]]
  BY DEF Row
<1>4. /\ d \in Nat /\ d <= n + 1
      /\ \A j \in DOMAIN node.kids : d <= F[node.kids[j]]
  <2>1. CASE node.kids = <<>>
    <3>1. \A j \in DOMAIN node.kids : FALSE
      BY <2>1, EmptyStack
    <3>2. d = n + 1
      BY <2>1
    <3> HIDE DEF n
    <3> QED
      BY <1>1, <3>1, <3>2
  <2>2. CASE node.kids # <<>>
    <3> DEFINE k == node.kids
    <3>1. 1 \in DOMAIN k /\ DOMAIN k = 1 .. Len(k) /\ Len(k) \in Nat
      BY <1>3, <2>2, StackLen
    <3>2. k[1] \in 1 .. n /\ d = F[k[1]]
      BY <1>3, <2>2, <3>1
    <3>3. NodeFits(ns, k[1], F, ts)
      BY <1>2, <3>2
    <3> HIDE DEF d, n, k
    <3>4. d \in Nat /\ d <= k[1]
      BY <1>2, <3>2, <3>3 DEF NodeFits
    <3>5. d <= n + 1
      BY <1>1, <3>2, <3>4
    <3>6. ASSUME NEW j \in DOMAIN k PROVE d <= F[k[j]]
      <4>1. CASE j = 1
        BY <3>2, <3>4, <4>1
      <4>2. CASE j # 1
        <5>1. 1 < j
          BY <3>1, <4>2
        <5>2. k[1] < F[k[j]] /\ k[j] \in 1 .. n
          BY <1>3, <3>1, <5>1 DEF k
        <5>3. F[k[j]] \in Nat
          BY <1>2, <5>2
        <5> QED
          BY <3>2, <3>4, <5>2, <5>3
      <4> QED
        BY <4>1, <4>2
    <3> QED
      BY <3>4, <3>5, <3>6 DEF k
  <2> QED
    BY <2>1, <2>2
<1> HIDE DEF n, ms, d
<1>5. G \in [1 .. n + 1 -> Nat] /\ G[n + 1] = d /\ \A i \in 1 .. n : G[i] = F[i]
  BY <1>1, <1>2, <1>4
<1> HIDE DEF G
<1>6. ASSUME NEW i \in 1 .. n PROVE NodeFits(ms, i, G, ts)
  <2> DEFINE x == ns[i]
  <2>1. NodeFits(ns, i, F, ts) /\ ms[i] = x /\ G[i] = F[i] /\ i - 1 \in Nat /\ i - 1 <= n
    BY <1>1, <1>2, <1>5
  <2>2. \A j \in DOMAIN x.kids : x.kids[j] \in 1 .. i - 1
    BY <2>1 DEF NodeFits, Row
  <2>3. \A k : k \in 1 .. i - 1 => k \in 1 .. n /\ G[k] = F[k] /\ ms[k] = ns[k]
    BY <1>1, <1>5
  <2>4. Row(x.kids, i - 1, G)
    <3>1. Row(x.kids, i - 1, F)
      BY <2>1 DEF NodeFits
    <3> QED
      BY <2>2, <2>3, <3>1 DEF Row
  <2>5. Parts(x, x.kids, ms)
    <3>1. Parts(x, x.kids, ns)
      BY <2>1 DEF NodeFits
    <3> QED
      BY <2>2, <2>3, <3>1 DEF Parts
  <2>6. Shape(x, ts) /\ F[i] <= i /\ \A j \in DOMAIN x.kids : F[i] <= F[x.kids[j]]
    BY <2>1 DEF NodeFits
  <2>7. \A j \in DOMAIN x.kids : G[i] <= G[x.kids[j]]
    BY <2>1, <2>2, <2>3, <2>6
  <2> HIDE DEF x
  <2> QED
    BY <2>1, <2>4, <2>5, <2>6, <2>7 DEF NodeFits
<1>7. NodeFits(ms, n + 1, G, ts)
  <2> DEFINE x == n + 1
             k == node.kids
  <2>1. x - 1 = n /\ G[x] = d /\ ms[x] = node /\ d <= x
    BY <1>1, <1>4, <1>5
  <2>2. Row(k, n, G)
    BY <1>3, <1>5 DEF Row
  <2>3. Parts(node, k, ms)
    BY <1>1, <1>3 DEF Parts
  <2>4. \A j \in DOMAIN k : d <= G[k[j]]
    BY <1>3, <1>4, <1>5
  <2> HIDE DEF x
  <2>5. NodeFits(ms, x, G, ts)
    BY <2>1, <2>2, <2>3, <2>4 DEF NodeFits
  <2> QED
    BY <2>5 DEF x
<1>8. \A i \in 1 .. n + 1 : NodeFits(ms, i, G, ts)
  <2>1. \A i \in 1 .. n + 1 : i = n + 1 \/ i \in 1 .. n
    BY <1>1
  <2> QED
    BY <1>6, <1>7, <2>1
<1>9. TreeFits(ms, G, ts)
  BY <1>1, <1>5, <1>8 DEF TreeFits
<1>10. n + 1 \in Nat /\ n <= n + 1
  BY <1>1
<1> QED
  BY <1>1, <1>5, <1>9, <1>10 DEF Extends, n, ms, d

LEMMA NegatedFits ==
  ASSUME NEW ns, NEW F, NEW ts, TreeFits(ns, F, ts), NEW n, NEW nots
  PROVE  Extends(ns, F, Negated(ns, n, nots), F, ts) /\ Len(Negated(ns, n, nots)) = Len(ns)
<1> DEFINE x == NegationTarget(ns, n)
           node == [ns[x] EXCEPT !.negative = TRUE]
           t == [ns EXCEPT ![x].negative = TRUE]
           l == Len(ns)
<1>1. CASE nots = 0
  BY <1>1, SameExtends DEF Negated
<1>2. CASE nots # 0
  <2>1. Negated(ns, n, nots) = t
    BY <1>2, Zenon DEF Negated
  <2> DEFINE S == {ns[i] : i \in 1 .. l} \cup {node}
  <2>2. /\ l \in Nat /\ DOMAIN ns = 1 .. l /\ IsStack(ns)
        /\ F \in [1 .. l -> Nat] /\ \A i \in 1 .. l : NodeFits(ns, i, F, ts)
    BY StackLen DEF TreeFits
  <2>3. ns \in [1 .. l -> {ns[i] : i \in 1 .. l}]
    BY <2>2, LenProperties DEF IsStack
  <2>4. /\ DOMAIN t = 1 .. l /\ \A i \in 1 .. l : t[i] = IF i = x THEN node ELSE ns[i]
        /\ t \in [1 .. l -> S]
    <3> HIDE DEF x, l
    <3> QED
      BY <2>2, <2>3
  <2> HIDE DEF t, S, l
  <2>5. t \in Seq(S)
    BY <2>2, <2>4, SeqDef
  <2>6. IsStack(t) /\ Len(t) = l
    <3>1. IsStack(t)
      BY <2>5, StackOf
    <3>2. Len(t) \in Nat /\ DOMAIN t = 1 .. Len(t)
      BY <3>1, StackLen
    <3>3. Len(t) = l
      BY <2>2, <2>4, <3>2
    <3> QED
      BY <3>1, <3>3
  <2> DEFINE Same(a, b) ==
        a.kind = b.kind /\ a.kids = b.kids /\ (Shape(b, ts) => Shape(a, ts))
  <2>7. x \in 1 .. l => Same(node, ns[x])
    <3> DEFINE f == ns[x]
    <3>1. ASSUME x \in 1 .. l PROVE NodeFields \subseteq DOMAIN f
      <4>1. Shape(f, ts)
        BY <2>2, <3>1 DEF NodeFits
      <4> QED
        BY <4>1, Zenon DEF Shape
    <3>2. node = [f EXCEPT !.negative = TRUE]
      OBVIOUS
    <3> HIDE DEF f, node
    <3>3. ASSUME NodeFields \subseteq DOMAIN f
          PROVE  NodeFields \subseteq DOMAIN node /\ node.kind = f.kind /\ node.kids = f.kids /\ node.value = f.value
      BY <3>2, <3>3 DEF NodeFields
    <3>4. ASSUME NodeFields \subseteq DOMAIN f PROVE Same(node, f)
      BY <3>3, <3>4, Zenon DEF Shape
    <3> QED
      BY <3>1, <3>4 DEF f
  <2> HIDE DEF node, x
  <2>8. \A i \in 1 .. l : Same(t[i], ns[i])
    <3>1. \A i \in 1 .. l : Same(ns[i], ns[i])
      OBVIOUS
    <3> HIDE DEF Same
    <3> QED
      BY <2>4, <2>7, <3>1
  <2>9. ASSUME NEW i \in 1 .. l PROVE NodeFits(t, i, F, ts)
    <3>1. NodeFits(ns, i, F, ts) /\ Same(t[i], ns[i])
      BY <2>2, <2>8
    <3>2. \A j \in DOMAIN t[i].kids : t[i].kids[j] \in 1 .. l
      <4>1. Row(ns[i].kids, i - 1, F) /\ t[i].kids = ns[i].kids
        BY <3>1 DEF NodeFits
      <4>2. 1 .. i - 1 \subseteq 1 .. l
        BY <2>2
      <4> QED
        BY <4>1, <4>2 DEF Row
    <3>3. Parts(t[i], t[i].kids, t)
      <4>1. Parts(ns[i], ns[i].kids, ns)
        BY <3>1 DEF NodeFits
      <4>2. Parts(t[i], t[i].kids, ns)
        BY <3>1, <4>1, Zenon DEF Parts
      <4>3. \A k \in 1 .. l : t[k].kind = ns[k].kind
        BY <2>8
      <4> HIDE DEF Same
      <4> QED
        BY <3>2, <4>2, <4>3 DEF Parts
    <3>4. Shape(t[i], ts) /\ t[i].kids = ns[i].kids
      BY <3>1 DEF NodeFits
    <3> QED
      BY <3>1, <3>3, <3>4 DEF NodeFits
  <2>10. TreeFits(t, F, ts)
    BY <2>2, <2>6, <2>9 DEF TreeFits
  <2>11. l <= l /\ \A i \in 1 .. l : t[i].kind = ns[i].kind
    BY <2>2, <2>8
  <2> QED
    BY <2>1, <2>2, <2>6, <2>10, <2>11 DEF Extends, l
<1> QED
  BY <1>1, <1>2

-----------------------------------------------------------------------------
\* The frames, while the tree grows and functions are called and return
LEMMA RulesAreNodes ==
  ASSUME NEW f, NEW ns, NEW F, Collects(f, ns, F), NEW x \in RulesOf(f)
  PROVE  x \in 1 .. Len(ns)
  BY DEF Collects, Row, RulesOf, Elements

LEMMA FrameExtends ==
  ASSUME NEW ns, NEW F, NEW ms, NEW G, NEW ts, Extends(ns, F, ms, G, ts),
         NEW f, Collects(f, ns, F)
  PROVE  Collects(f, ms, G)
<1> DEFINE n == Len(ns)
           m == Len(ms)
<1>1. /\ n \in Nat /\ m \in Nat /\ n <= m
      /\ \A i \in 1 .. n : G[i] = F[i] /\ ms[i].kind = ns[i].kind
  BY DEF Extends
<1>2. /\ Row(f.items, n, F) /\ Row(f.fixes, n, F)
      /\ f.fn = "or" => \A i \in DOMAIN f.items, j \in DOMAIN f.fixes : f.items[i] < F[f.fixes[j]]
      /\ \A i \in DOMAIN f.items : ns[f.items[i]].kind \in StatementKinds <=> f.fn = "modified"
      /\ \A j \in DOMAIN f.fixes : ns[f.fixes[j]].kind \notin StatementKinds
  BY DEF Collects
<1> HIDE DEF n, m
<1>3. Row(f.items, m, G) /\ Row(f.fixes, m, G)
  BY <1>1, <1>2, RowGrows
<1>4. (\A i \in DOMAIN f.items : f.items[i] \in 1 .. n) /\ \A j \in DOMAIN f.fixes : f.fixes[j] \in 1 .. n
  BY <1>2 DEF Row
<1>5. f.fn = "or" => \A i \in DOMAIN f.items, j \in DOMAIN f.fixes : f.items[i] < G[f.fixes[j]]
  BY <1>1, <1>2, <1>4
<1>6. \A i \in DOMAIN f.items : ms[f.items[i]].kind \in StatementKinds <=> f.fn = "modified"
  BY <1>1, <1>2, <1>4
<1>7. \A j \in DOMAIN f.fixes : ms[f.fixes[j]].kind \notin StatementKinds
  BY <1>1, <1>2, <1>4
<1> QED
  BY <1>3, <1>5, <1>6, <1>7 DEF Collects, m

LEMMA FollowsStill ==
  ASSUME NEW ns, NEW F, NEW ms, NEW G, NEW ts, Extends(ns, F, ms, G, ts),
         NEW s, NEW y \in 1 .. Len(ns), Follows(s, F, y)
  PROVE  Follows(s, G, y)
  BY DEF Follows, Extends

LEMMA StackExtends ==
  ASSUME NEW ns, NEW F, NEW ms, NEW G, NEW ts, Extends(ns, F, ms, G, ts),
         NEW s, StackFits(s, ns, F, ts)
  PROVE  StackFits(s, ms, G, ts)
<1> SUFFICES ASSUME NEW k \in DOMAIN s
             PROVE  FrameFits(s[k], ms, G, ts) /\ InOrder(s, G, k)
  BY DEF StackFits
<1>1. FrameFits(s[k], ns, F, ts) /\ InOrder(s, F, k)
  BY DEF StackFits
<1>2. Collects(s[k], ms, G)
  BY <1>1, FrameExtends DEF FrameFits
<1>3. FrameFits(s[k], ms, G, ts)
  BY <1>1, <1>2 DEF FrameFits
<1>4. \A y \in RulesOf(s[k]) : G[y] = F[y]
  <2>1. \A y \in RulesOf(s[k]) : y \in 1 .. Len(ns)
    BY <1>1, RulesAreNodes DEF FrameFits
  <2> QED
    BY <2>1 DEF Extends
<1>5. InOrder(s, G, k)
  BY <1>1, <1>4 DEF InOrder
<1> QED
  BY <1>3, <1>5

LEMMA NewFrameFits ==
  ASSUME NEW fn \in Functions, NEW from, NEW tag, NEW ns, NEW F, NEW ts, HasTag(fn, from, tag, ts)
  PROVE  /\ FrameFits(Frame(fn, from, tag), ns, F, ts)
         /\ RulesOf(Frame(fn, from, tag)) = {} /\ Frame(fn, from, tag).fn = fn
<1> DEFINE f == Frame(fn, from, tag)
<1>1. /\ FrameFields \subseteq DOMAIN f /\ f.fn = fn /\ f.from = from /\ f.tag = tag
      /\ f.items = <<>> /\ f.fixes = <<>>
  BY DEF Frame, FrameFields
<1> HIDE DEF f
<1>2. RulesOf(f) = {}
  BY <1>1, NoRow DEF RulesOf
<1>3. \A i \in DOMAIN <<>> : FALSE
  BY EmptyStack
<1>4. Collects(f, ns, F)
  BY <1>1, <1>3, NoRow DEF Collects
<1>5. FrameFits(f, ns, F, ts)
  BY <1>1, <1>4 DEF FrameFits
<1> QED
  BY <1>1, <1>2, <1>5 DEF f

LEMMA FramePushedFits ==
  ASSUME NEW s, NEW ns, NEW F, NEW ts, StackFits(s, ns, F, ts),
         NEW f, FrameFits(f, ns, F, ts), \A y \in RulesOf(f) : Follows(s, F, y),
         s # <<>> => MayCall(s[Len(s)].fn, f.fn)
  PROVE  StackFits(Append(s, f), ns, F, ts)
<1> DEFINE t == Append(s, f)
           l == Len(s)
<1>1. /\ IsStack(t) /\ l \in Nat /\ DOMAIN s = 1 .. l /\ DOMAIN t = 1 .. l + 1
      /\ t[l + 1] = f /\ (\A k \in 1 .. l : t[k] = s[k]) /\ (s # <<>> <=> l > 0)
  BY Appended, StackLen DEF StackFits
<1>2. s # <<>> => MayCall(s[l].fn, f.fn)
  OBVIOUS
<1> HIDE DEF t, l
<1>3. ASSUME NEW k \in 1 .. l
      PROVE  FrameFits(t[k], ns, F, ts) /\ InOrder(t, F, k) /\ (k > 1 => MayCall(t[k - 1].fn, t[k].fn))
  <2>1. FrameFits(s[k], ns, F, ts) /\ InOrder(s, F, k) /\ (k > 1 => MayCall(s[k - 1].fn, s[k].fn))
    BY <1>1 DEF StackFits
  <2>2. \A j \in 1 .. k : t[j] = s[j]
    BY <1>1
  <2>3. t[k] = s[k] /\ \A j \in 1 .. k - 1 : t[j] = s[j]
    BY <1>1
  <2>4. InOrder(t, F, k)
    BY <2>1, <2>3 DEF InOrder
  <2>5. k > 1 => k - 1 \in 1 .. k - 1
    BY <1>1
  <2> QED
    BY <2>1, <2>3, <2>4, <2>5
<1>4. FrameFits(f, ns, F, ts) /\ InOrder(t, F, l + 1) /\ (l + 1 > 1 => MayCall(t[l].fn, t[l + 1].fn))
  <2>1. InOrder(t, F, l + 1)
    <3> DEFINE m == l + 1
    <3>1. m - 1 = l /\ t[m] = f
      BY <1>1
    <3> HIDE DEF m
    <3>2. \A j \in 1 .. m - 1 : t[j] = s[j] /\ j \in DOMAIN s
      BY <1>1, <3>1
    <3>3. InOrder(t, F, m)
      BY <3>1, <3>2 DEF InOrder, Follows
    <3> QED
      BY <3>3 DEF m
  <2>2. l + 1 > 1 => l \in 1 .. l /\ l > 0
    BY <1>1
  <2> QED
    BY <1>1, <1>2, <2>1, <2>2
<1>5. ASSUME NEW k \in 1 .. l + 1
      PROVE  FrameFits(t[k], ns, F, ts) /\ InOrder(t, F, k) /\ (k > 1 => MayCall(t[k - 1].fn, t[k].fn))
  <2>1. CASE k \in 1 .. l
    BY <1>3, <2>1
  <2>2. CASE k \notin 1 .. l
    <3>1. k = l + 1 /\ k - 1 = l
      BY <1>1, <2>2
    <3> QED
      BY <1>1, <1>4, <3>1
  <2> QED
    BY <2>1, <2>2
<1> QED
  BY <1>1, <1>5 DEF StackFits, t

LEMMA FramePoppedFits ==
  ASSUME NEW s, NEW ns, NEW F, NEW ts, StackFits(s, ns, F, ts), s # <<>>
  PROVE  /\ StackFits(SubSeq(s, 1, Len(s) - 1), ns, F, ts)
         /\ FrameFits(s[Len(s)], ns, F, ts)
         /\ \A y \in RulesOf(s[Len(s)]) : Follows(SubSeq(s, 1, Len(s) - 1), F, y)
         /\ \A y : Follows(s, F, y) =>
              Follows(SubSeq(s, 1, Len(s) - 1), F, y) /\ \A x \in RulesOf(s[Len(s)]) : x < F[y]
         /\ SubSeq(s, 1, Len(s) - 1) # <<>> => MayCall(s[Len(s) - 1].fn, s[Len(s)].fn)
         /\ Len(SubSeq(s, 1, Len(s) - 1)) = Len(s) - 1
         /\ SubSeq(s, 1, Len(s) - 1) # <<>> =>
              SubSeq(s, 1, Len(s) - 1)[Len(s) - 1] = s[Len(s) - 1]
<1> DEFINE t == SubSeq(s, 1, Len(s) - 1)
           l == Len(s)
           m == l - 1
<1>1. /\ IsStack(s) /\ l \in Nat \ {0} /\ DOMAIN s = 1 .. l
      /\ IsStack(t) /\ Len(t) = l - 1 /\ \A k \in 1 .. l - 1 : t[k] = s[k]
  BY StackLen, Popped DEF StackFits
<1>2. DOMAIN t = 1 .. m /\ m \in Nat /\ l = m + 1 /\ (t # <<>> <=> m > 0) /\ Len(t) = m
      /\ \A k \in 1 .. m : t[k] = s[k]
  <2>1. DOMAIN t = 1 .. Len(t) /\ (t # <<>> <=> Len(t) > 0)
    BY <1>1, StackLen
  <2> HIDE DEF t, l
  <2> QED
    BY <1>1, <2>1
<1>3. \A k \in DOMAIN s :
       FrameFits(s[k], ns, F, ts) /\ InOrder(s, F, k) /\ (k > 1 => MayCall(s[k - 1].fn, s[k].fn))
  BY DEF StackFits
<1> HIDE DEF t, l
<1>4. l \in DOMAIN s /\ \A k \in 1 .. m : k \in DOMAIN s
  BY <1>1, <1>2
<1>5. ASSUME NEW k \in 1 .. m
      PROVE  FrameFits(t[k], ns, F, ts) /\ InOrder(t, F, k) /\ (k > 1 => MayCall(t[k - 1].fn, t[k].fn))
  <2>1. FrameFits(s[k], ns, F, ts) /\ InOrder(s, F, k) /\ (k > 1 => MayCall(s[k - 1].fn, s[k].fn))
    BY <1>3, <1>4
  <2>3. t[k] = s[k] /\ \A j \in 1 .. k - 1 : t[j] = s[j]
    BY <1>2
  <2>4. InOrder(t, F, k)
    BY <2>1, <2>3 DEF InOrder
  <2>5. k > 1 => k - 1 \in 1 .. k - 1
    BY <1>2
  <2> QED
    BY <2>1, <2>3, <2>4, <2>5
<1>6. StackFits(t, ns, F, ts)
  BY <1>1, <1>2, <1>5 DEF StackFits
<1>7. FrameFits(s[l], ns, F, ts) /\ InOrder(s, F, l) /\ (l > 1 => MayCall(s[l - 1].fn, s[l].fn))
  BY <1>3, <1>4
<1>8. \A y \in RulesOf(s[l]) : Follows(t, F, y)
  BY <1>2, <1>7 DEF InOrder, Follows, m
<1>9. \A y : Follows(s, F, y) => Follows(t, F, y) /\ \A x \in RulesOf(s[l]) : x < F[y]
  BY <1>2, <1>4 DEF Follows
<1>10. t # <<>> => MayCall(s[l - 1].fn, s[l].fn) /\ t[l - 1] = s[l - 1]
  <2>1. t # <<>> => l > 1 /\ m \in 1 .. m /\ l - 1 = m
    BY <1>2
  <2> QED
    BY <1>2, <1>7, <2>1
<1> QED
  BY <1>1, <1>6, <1>7, <1>8, <1>9, <1>10 DEF t, l

\* The top frame is updated
LEMMA FrameReplacedFits ==
  ASSUME NEW s, NEW ns, NEW F, NEW ts, StackFits(s, ns, F, ts), s # <<>>,
         NEW f, f.fn = s[Len(s)].fn, FrameFits(f, ns, F, ts),
         \A y \in RulesOf(f) : Follows(SubSeq(s, 1, Len(s) - 1), F, y)
  PROVE  StackFits(Append(SubSeq(s, 1, Len(s) - 1), f), ns, F, ts)
<1> DEFINE b == SubSeq(s, 1, Len(s) - 1)
<1>1. /\ StackFits(b, ns, F, ts) /\ Len(b) = Len(s) - 1
      /\ b # <<>> => MayCall(s[Len(s) - 1].fn, s[Len(s)].fn) /\ b[Len(s) - 1] = s[Len(s) - 1]
  BY FramePoppedFits
<1>2. \A y \in RulesOf(f) : Follows(b, F, y)
  OBVIOUS
<1> HIDE DEF b
<1>3. b # <<>> => MayCall(b[Len(b)].fn, f.fn)
  BY <1>1
<1> QED
  BY <1>1, <1>2, <1>3, FramePushedFits DEF b

\* A rule that comes after the others joins the lists of a frame
LEMMA RuleJoins ==
  ASSUME NEW f, NEW ns, NEW F, NEW ts, FrameFits(f, ns, F, ts),
         NEW x \in 1 .. Len(ns), \A y \in RulesOf(f) : y < F[x]
  PROVE  /\ (ns[x].kind \in StatementKinds <=> f.fn = "modified") /\ (f.fn = "or" => f.fixes = <<>>) =>
              /\ WithItem(f, x).fn = f.fn /\ RulesOf(WithItem(f, x)) = RulesOf(f) \cup {x}
              /\ FrameFits(WithItem(f, x), ns, F, ts)
         /\ ns[x].kind \notin StatementKinds =>
              /\ WithFix(f, x).fn = f.fn /\ RulesOf(WithFix(f, x)) = RulesOf(f) \cup {x}
              /\ FrameFits(WithFix(f, x), ns, F, ts)
<1> DEFINE g == WithItem(f, x)
           h == WithFix(f, x)
           n == Len(ns)
           more == Append(f.items, x)
           most == Append(f.fixes, x)
<1>1. /\ FrameFields \subseteq DOMAIN f /\ f.fn \in Functions /\ HasTag(f.fn, f.from, f.tag, ts)
      /\ Row(f.items, n, F) /\ Row(f.fixes, n, F)
      /\ f.fn = "or" => \A i \in DOMAIN f.items, j \in DOMAIN f.fixes : f.items[i] < F[f.fixes[j]]
      /\ \A i \in DOMAIN f.items : ns[f.items[i]].kind \in StatementKinds <=> f.fn = "modified"
      /\ \A j \in DOMAIN f.fixes : ns[f.fixes[j]].kind \notin StatementKinds
  BY DEF FrameFits, Collects
<1>2. /\ FrameFields \subseteq DOMAIN g /\ g.fn = f.fn /\ g.items = more /\ g.fixes = f.fixes
      /\ g.from = f.from /\ g.tag = f.tag
      /\ FrameFields \subseteq DOMAIN h /\ h.fn = f.fn /\ h.items = f.items /\ h.fixes = most
      /\ h.from = f.from /\ h.tag = f.tag
  BY <1>1 DEF FrameFields, WithItem, WithFix
<1>3. (\A i \in DOMAIN f.items : f.items[i] < F[x]) /\ \A i \in DOMAIN f.fixes : f.fixes[i] < F[x]
  BY DEF RulesOf, Elements
<1>4. /\ Row(more, n, F) /\ Elements(more) = Elements(f.items) \cup {x}
      /\ Row(most, n, F) /\ Elements(most) = Elements(f.fixes) \cup {x}
  <2>1. x \in 1 .. n
    OBVIOUS
  <2> HIDE DEF n
  <2> QED
    BY <1>1, <1>3, <2>1, RowAppended
<1> HIDE DEF g, h, more, most, n
<1>5. RulesOf(g) = RulesOf(f) \cup {x} /\ RulesOf(h) = RulesOf(f) \cup {x}
  BY <1>2, <1>4 DEF RulesOf
<1>6. /\ \A i \in DOMAIN more : more[i] \in Elements(f.items) \cup {x}
      /\ \A i \in DOMAIN most : most[i] \in Elements(f.fixes) \cup {x}
  BY <1>4 DEF Elements
<1>7. ASSUME ns[x].kind \in StatementKinds <=> f.fn = "modified", f.fn = "or" => f.fixes = <<>>
      PROVE  FrameFits(g, ns, F, ts)
  <2>1. \A i \in DOMAIN more : ns[more[i]].kind \in StatementKinds <=> f.fn = "modified"
    BY <1>1, <1>6, <1>7 DEF Elements
  <2>2. f.fn = "or" => \A j \in DOMAIN f.fixes : FALSE
    BY <1>7, EmptyStack
  <2>3. Collects(g, ns, F)
    BY <1>1, <1>2, <1>4, <2>1, <2>2 DEF Collects, n
  <2> QED
    BY <1>1, <1>2, <2>3 DEF FrameFits
<1>8. ASSUME ns[x].kind \notin StatementKinds PROVE FrameFits(h, ns, F, ts)
  <2>1. \A i \in DOMAIN most : ns[most[i]].kind \notin StatementKinds
    BY <1>1, <1>6, <1>8 DEF Elements
  <2>2. f.fn = "or" => \A i \in DOMAIN f.items, j \in DOMAIN most : f.items[i] < F[most[j]]
    BY <1>1, <1>3, <1>6 DEF Elements
  <2>3. Collects(h, ns, F)
    BY <1>1, <1>2, <1>4, <2>1, <2>2 DEF Collects, n
  <2> QED
    BY <1>1, <1>2, <2>3 DEF FrameFits
<1> QED
  BY <1>2, <1>5, <1>7, <1>8 DEF g, h

\* A new node comes after the frames if its first part does
LEMMA NodeFollows ==
  ASSUME NEW s, NEW ns, NEW F, NEW ts, StackFits(s, ns, F, ts), NEW ms, NEW G, Extends(ns, F, ms, G, ts),
         NEW kids,
         G[Len(ns) + 1] = IF kids = <<>> THEN Len(ns) + 1 ELSE F[kids[1]],
         kids # <<>> => Follows(s, F, kids[1])
  PROVE  Follows(s, G, Len(ns) + 1)
<1> DEFINE n == Len(ns)
           e == G[n + 1]
<1>1. n \in Nat /\ e = IF kids = <<>> THEN n + 1 ELSE F[kids[1]]
  BY DEF Extends
<1> HIDE DEF n, e
<1> SUFFICES ASSUME NEW j \in DOMAIN s, NEW x \in RulesOf(s[j]) PROVE x < e
  BY DEF Follows, e, n
<1>2. CASE kids = <<>>
  <2>1. x \in 1 .. n
    BY RulesAreNodes DEF StackFits, FrameFits, n
  <2> QED
    BY <1>1, <1>2, <2>1
<1>3. CASE kids # <<>>
  BY <1>1, <1>3 DEF Follows
<1> QED
  BY <1>2, <1>3

LEMMA NotsFit ==
  ASSUME NEW f, NEW ns, NEW F, NEW ts, FrameFits(f, ns, F, ts), NEW x
  PROVE  /\ [f EXCEPT !.nots = x].fn = f.fn /\ RulesOf([f EXCEPT !.nots = x]) = RulesOf(f)
         /\ FrameFits([f EXCEPT !.nots = x], ns, F, ts)
<1> DEFINE g == [f EXCEPT !.nots = x]
<1>1. FrameFields \subseteq DOMAIN f /\ f.fn \in Functions
  BY DEF FrameFits
<1>2. /\ FrameFields \subseteq DOMAIN g /\ g.fn = f.fn /\ g.items = f.items /\ g.fixes = f.fixes
      /\ g.from = f.from /\ g.tag = f.tag
  BY <1>1 DEF FrameFields
<1> HIDE DEF g
<1>3. FrameFits(g, ns, F, ts) /\ RulesOf(g) = RulesOf(f)
  BY <1>2, Zenon DEF FrameFits, Collects, RulesOf
<1> QED
  BY <1>2, <1>3 DEF g

-----------------------------------------------------------------------------
\* The steps, by what they do to the tree and the frames
LEMMA TreeNext ==
  ASSUME stage' # "lexing", NEW F, Fits(nodes', stack', result', F, tokens')
  PROVE  TreeInv'
  BY DEF TreeInv, Fits, TreeFits, StackFits, NodeFits, FrameFits, InOrder, Follows, RulesOf, Elements, Collects,
     HasTag, IsGroupTag, IsLookaroundTag, IsName, IsReference, Holds, Spans, Shape, Row, Parts, IsStack, MayCall,
     NodeFields, FrameFields, Functions, StatementKinds, ModeWords, LeafKinds, RuleKinds

LEMMA TreeStays ==
  ASSUME TreeInv, UNCHANGED parseVars, tokens' = tokens, stage' # "lexing"
  PROVE  TreeInv'
<1>1. PICK F : Fits(nodes, stack, result, F, tokens)
  BY DEF TreeInv
<1>2. Fits(nodes', stack', result', F, tokens')
  BY <1>1 DEF parseVars
<1> QED
  BY <1>2, TreeNext

LEMMA FailFits ==
  ASSUME TreeInv, NEW error, Fail(error)
  PROVE  TreeInv'
  BY TreeStays DEF Fail, lexVars

LEMMA CallOrFits ==
  ASSUME TreeInv, stage = "parsing", result = 0,
         NEW F, TreeFits(nodes, F, tokens),
         NEW frames, StackFits(frames, nodes, F, tokens), frames[Len(frames)].fn \in {"modified", "let"},
         NEW o, CallOr(frames, o)
  PROVE  TreeInv'
<1> DEFINE from == IF Is(tokens, o, "Pipe") THEN o ELSE 0
           f == Frame("or", from, <<>>)
<1>1. CASE recursion = 0
  BY <1>1, FailFits DEF CallOr
<1>2. CASE recursion # 0
  <2>1. stack' = Append(frames, f) /\ nodes' = nodes /\ result' = 0 /\ tokens' = tokens /\ stage' = stage
    BY <1>2 DEF CallOr, Going, lexVars
  <2> HIDE DEF from
  <2>2. FrameFits(f, nodes, F, tokens) /\ RulesOf(f) = {} /\ f.fn = "or"
    <3>1. HasTag("or", from, <<>>, tokens) /\ "or" \in Functions
      BY DEF HasTag, Functions
    <3> QED
      BY <3>1, NewFrameFits
  <2> HIDE DEF f
  <2>3. MayCall(frames[Len(frames)].fn, f.fn)
    BY <2>2 DEF MayCall
  <2>4. StackFits(Append(frames, f), nodes, F, tokens)
    BY <2>2, <2>3, FramePushedFits
  <2>5. 0 \in 0 .. Len(nodes)
    BY StackLen DEF TreeFits
  <2>6. Fits(nodes', stack', result', F, tokens')
    BY <2>1, <2>4, <2>5 DEF Fits
  <2> QED
    BY <2>1, <2>6, TreeNext
<1> QED
  BY <1>1, <1>2

LEMMA TopFits ==
  ASSUME stack # <<>>, NEW F, Fits(nodes, stack, result, F, tokens)
  PROVE  /\ TreeFits(nodes, F, tokens) /\ Len(nodes) \in Nat /\ F \in [1 .. Len(nodes) -> Nat]
         /\ StackFits(stack, nodes, F, tokens) /\ StackFits(Below, nodes, F, tokens)
         /\ FrameFits(Top, nodes, F, tokens) /\ \A y \in RulesOf(Top) : Follows(Below, F, y)
         /\ result # 0 =>
              /\ result \in 1 .. Len(nodes) /\ nodes[result].kind \notin StatementKinds
              /\ Follows(Below, F, result) /\ \A x \in RulesOf(Top) : x < F[result]
<1>1. /\ TreeFits(nodes, F, tokens) /\ Len(nodes) \in Nat /\ F \in [1 .. Len(nodes) -> Nat]
      /\ StackFits(stack, nodes, F, tokens)
  BY StackLen DEF Fits, TreeFits
<1>2. /\ StackFits(Below, nodes, F, tokens) /\ FrameFits(Top, nodes, F, tokens)
      /\ \A y \in RulesOf(Top) : Follows(Below, F, y)
      /\ \A y : Follows(stack, F, y) => Follows(Below, F, y) /\ \A x \in RulesOf(Top) : x < F[y]
  BY <1>1, FramePoppedFits DEF Below, Top
<1>3. result # 0 => result \in 1 .. Len(nodes) /\ nodes[result].kind \notin StatementKinds
                    /\ Follows(stack, F, result)
  <2> DEFINE n == Len(nodes)
  <2>1. result \in 0 .. n /\ n \in Nat
    BY <1>1 DEF Fits
  <2> HIDE DEF n
  <2>2. result # 0 => result \in 1 .. n
    BY <2>1
  <2> QED
    BY <2>2 DEF n, Fits
<1> QED
  BY <1>1, <1>2, <1>3

LEMMA CallModifiedFits ==
  ASSUME TreeInv, stage = "parsing", stack # <<>>, Top.fn = "or", result = 0,
         NEW fn \in {"group", "lookaround"}, NEW tag, HasTag(fn, at, tag, tokens),
         NEW o, CallModified(fn, tag, o)
  PROVE  TreeInv'
<1>1. CASE recursion = 0
  BY <1>1, FailFits DEF CallModified
<1>2. CASE recursion # 0
  <2> DEFINE caller == [Top EXCEPT !.nots = FixAt - at]
             f == Frame(fn, at, tag)
             block == Frame("modified", 0, <<>>)
             s0 == Append(SubSeq(stack, 1, Len(stack) - 1), caller)
             s1 == Append(s0, f)
             s2 == Append(s1, block)
  <2>1. PICK F : Fits(nodes, stack, result, F, tokens)
    BY DEF TreeInv
  <2>2. stack' = s0 \o <<f, block>> /\ nodes' = nodes /\ result' = 0 /\ tokens' = tokens /\ stage' = stage
    BY <1>2 DEF CallModified, Replaced, Below, Going, lexVars
  <2>3. StackFits(stack, nodes, F, tokens) /\ TreeFits(nodes, F, tokens) /\ Len(nodes) \in Nat
        /\ FrameFits(Top, nodes, F, tokens) /\ \A y \in RulesOf(Top) : Follows(Below, F, y)
    BY <2>1, TopFits
  <2>4. /\ FrameFits(f, nodes, F, tokens) /\ RulesOf(f) = {} /\ f.fn = fn
        /\ FrameFits(block, nodes, F, tokens) /\ RulesOf(block) = {} /\ block.fn = "modified"
    <3>1. fn \in Functions /\ "modified" \in Functions /\ HasTag("modified", 0, <<>>, tokens)
      BY DEF Functions, HasTag
    <3> QED
      BY <3>1, NewFrameFits
  <2>5. caller.fn = "or" /\ RulesOf(caller) = RulesOf(Top) /\ FrameFits(caller, nodes, F, tokens)
    BY <2>3, NotsFit
  <2> HIDE DEF f, block, caller
  <2>6. StackFits(s0, nodes, F, tokens)
    BY <2>3, <2>5, FrameReplacedFits DEF Top, Below
  <2>7. IsStack(SubSeq(stack, 1, Len(stack) - 1))
    BY <2>3, Popped DEF StackFits
  <2>8. s0[Len(s0)] = caller
    BY <2>7, Appended
  <2> HIDE DEF s0
  <2>9. StackFits(s1, nodes, F, tokens) /\ s1[Len(s1)] = f
    <3>1. MayCall(s0[Len(s0)].fn, f.fn)
      BY <2>4, <2>5, <2>8 DEF MayCall
    <3>2. IsStack(s0)
      BY <2>6 DEF StackFits
    <3> QED
      BY <2>4, <2>6, <3>1, <3>2, FramePushedFits, Appended
  <2>10. s0 \o <<f, block>> = s2
    <3> DEFINE S == {s0[k] : k \in DOMAIN s0} \cup {f, block}
    <3>1. s0 \in Seq(S) /\ f \in S /\ block \in S
      BY <2>6, SeqMonotonic DEF StackFits, IsStack
    <3> HIDE DEF S
    <3> QED
      BY <3>1
  <2> HIDE DEF s1
  <2>11. StackFits(s2, nodes, F, tokens)
    <3>1. MayCall(s1[Len(s1)].fn, block.fn)
      BY <2>4, <2>9 DEF MayCall
    <3> QED
      BY <2>4, <2>9, <3>1, FramePushedFits
  <2> HIDE DEF s2
  <2>12. Fits(nodes', stack', result', F, tokens')
    <3>1. 0 \in 0 .. Len(nodes)
      BY <2>3
    <3> QED
      BY <2>2, <2>3, <2>10, <2>11, <3>1 DEF Fits
  <2> QED
    BY <2>2, <2>12, TreeNext
<1> QED
  BY <1>1, <1>2

\* The last node of the larger tree ns joins the sequence of the frame on top of s
LEMMA AddFixFits ==
  ASSUME TreeInv, stage = "parsing",
         NEW F, NEW s, StackFits(s, nodes, F, tokens), s # <<>>, s[Len(s)].fn = "or",
         NEW ns, NEW G, Extends(nodes, F, ns, G, tokens), Len(ns) # 0,
         ns[Len(ns)].kind \notin StatementKinds, Follows(s, G, Len(ns)),
         NEW o, NEW left, NEW from, NEW nots,
         AddFix(ns, o, left, SubSeq(s, 1, Len(s) - 1), s[Len(s)], from, nots)
  PROVE  TreeInv'
<1> DEFINE n == Len(ns)
           f == WithFix(s[Len(s)], n)
           ms == Negated(ns, n, nots)
           t == Append(SubSeq(s, 1, Len(s) - 1), f)
<1>1. CASE NotsError(ns, Len(ns), nots) # "none"
  BY <1>1, FailFits DEF AddFix
<1>2. CASE NotsError(ns, Len(ns), nots) = "none"
  <2>1. nodes' = ms /\ stack' = t /\ result' = 0 /\ tokens' = tokens /\ stage' = stage
    BY <1>2 DEF AddFix, WithFix, Going, lexVars
  <2>2. TreeFits(ns, G, tokens) /\ n \in Nat
    BY DEF Extends
  <2>3. Extends(ns, G, ms, G, tokens) /\ Len(ms) = n
    BY <2>2, NegatedFits
  <2>4. n \in 1 .. n /\ 0 \in 0 .. n
    <3>1. n \in Nat /\ n # 0
      BY <2>2
    <3> HIDE DEF n
    <3> QED
      BY <3>1
  <2>5. StackFits(s, ns, G, tokens)
    BY StackExtends
  <2>6. /\ FrameFits(s[Len(s)], ns, G, tokens)
        /\ \A y \in RulesOf(s[Len(s)]) : Follows(SubSeq(s, 1, Len(s) - 1), G, y)
        /\ Follows(SubSeq(s, 1, Len(s) - 1), G, n) /\ \A x \in RulesOf(s[Len(s)]) : x < G[n]
    BY <2>5, FramePoppedFits
  <2>7. f.fn = s[Len(s)].fn /\ RulesOf(f) = RulesOf(s[Len(s)]) \cup {n} /\ FrameFits(f, ns, G, tokens)
    BY <2>4, <2>6, RuleJoins
  <2> HIDE DEF f
  <2>8. StackFits(t, ns, G, tokens)
    BY <2>5, <2>6, <2>7, FrameReplacedFits
  <2> HIDE DEF t, ms, n
  <2>9. StackFits(t, ms, G, tokens)
    BY <2>3, <2>8, StackExtends
  <2>10. Fits(nodes', stack', result', G, tokens')
    BY <2>1, <2>3, <2>4, <2>9 DEF Fits, Extends
  <2> QED
    BY <2>1, <2>10, TreeNext
<1> QED
  BY <1>1, <1>2

LEMMA AddRepeatedFits ==
  ASSUME TreeInv, stage = "parsing",
         NEW F, NEW s, StackFits(s, nodes, F, tokens), s # <<>>, s[Len(s)].fn = "or",
         NEW ns, NEW G, Extends(nodes, F, ns, G, tokens), Len(ns) # 0,
         ns[Len(ns)].kind \notin StatementKinds, Follows(s, G, Len(ns)),
         NEW repetition, repetition.is = "found" => repetition.value[3] \in {"Greedy", "Lazy", "Default"},
         NEW left, NEW from, NEW nots,
         AddRepeated(ns, repetition, left, SubSeq(s, 1, Len(s) - 1), s[Len(s)], from, nots)
  PROVE  TreeInv'
<1> DEFINE n == Len(ns)
           node == Node("repetition", <<n>>, repetition.value)
<1>1. CASE repetition.is = "failed"
  BY <1>1, FailFits DEF AddRepeated
<1>2. CASE repetition.is # "failed"
  <2>1. AddFix(Repeated(ns, repetition), repetition.at, left, SubSeq(s, 1, Len(s) - 1), s[Len(s)], from, nots)
    BY <1>2 DEF AddRepeated
  <2>2. CASE repetition.is # "found"
    <3>1. AddFix(ns, repetition.at, left, SubSeq(s, 1, Len(s) - 1), s[Len(s)], from, nots)
      BY <2>1, <2>2 DEF Repeated
    <3> QED
      BY <3>1, AddFixFits
  <2>3. CASE repetition.is = "found"
    <3>1. AddFix(Append(ns, node), repetition.at, left, SubSeq(s, 1, Len(s) - 1), s[Len(s)], from, nots)
      BY <2>1, <2>3 DEF Repeated
    <3>2. TreeFits(ns, G, tokens) /\ n \in Nat /\ n \in 1 .. n
      <4>1. n \in Nat /\ n # 0
        BY DEF Extends
      <4> HIDE DEF n
      <4> QED
        BY <4>1 DEF Extends
    <3>3. /\ NodeFields \subseteq DOMAIN node /\ node.kind = "repetition" /\ node.kids = <<n>>
          /\ node.value = repetition.value
      BY DEF Node, NodeFields
    <3> HIDE DEF node
    <3>4. Shape(node, tokens)
      <4>1. Holds("repetition", repetition.value, tokens)
        BY <2>3 DEF Holds
      <4>2. Spans("repetition", <<n>>)
        BY DEF Spans, LeafKinds, ModeWords
      <4> QED
        BY <3>3, <4>1, <4>2 DEF Shape, RuleKinds
    <3>5. Row(node.kids, n, G)
      <4> HIDE DEF n
      <4> QED
        BY <3>2, <3>3, OneRow
    <3>6. Parts(node, node.kids, ns)
      <4>1. \A j \in DOMAIN <<n>> : <<n>>[j] = n
        OBVIOUS
      <4> QED
        BY <3>3, <4>1, Zenon DEF Parts
    <3>7. PICK H : /\ Extends(ns, G, Append(ns, node), H, tokens)
                   /\ Len(Append(ns, node)) = Len(ns) + 1 /\ Append(ns, node)[Len(ns) + 1] = node
                   /\ H[Len(ns) + 1] = IF node.kids = <<>> THEN Len(ns) + 1 ELSE G[node.kids[1]]
      BY <3>2, <3>4, <3>5, <3>6, NodeAddedFits
    <3>8. Extends(nodes, F, Append(ns, node), H, tokens)
      BY <3>7, ExtendsTwice
    <3>9. Follows(s, H, n + 1)
      <4>1. node.kids # <<>> => Follows(s, G, node.kids[1])
        BY <3>3
      <4>2. StackFits(s, ns, G, tokens)
        BY StackExtends
      <4> QED
        BY <3>7, <4>1, <4>2, NodeFollows
    <3> DEFINE ms == Append(ns, node)
    <3>10. Len(ms) # 0 /\ ms[Len(ms)].kind \notin StatementKinds /\ Follows(s, H, Len(ms))
      <4>1. Len(ms) = n + 1 /\ ms[n + 1] = node
        BY <3>7
      <4> HIDE DEF ms, n
      <4>2. n + 1 # 0
        BY <3>2
      <4> QED
        BY <3>3, <3>9, <4>1, <4>2 DEF StatementKinds, ModeWords
    <3> HIDE DEF ms
    <3> QED
      BY <3>1, <3>8, <3>10, AddFixFits DEF ms
  <2> QED
    BY <2>2, <2>3
<1> QED
  BY <1>1, <1>2

LEMMA ReturnOrFits ==
  ASSUME stage = "parsing", stack # <<>>,
         NEW F, StackFits(stack, nodes, F, tokens),
         NEW ns, NEW G, Extends(nodes, F, ns, G, tokens),
         NEW n \in 1 .. Len(ns), ns[n].kind \notin StatementKinds, Follows(Below, G, n), ReturnOr(ns, n)
  PROVE  TreeInv'
<1>1. nodes' = ns /\ result' = n /\ stack' = Below /\ tokens' = tokens /\ stage' = stage
  BY DEF ReturnOr, Going, lexVars
<1>2. StackFits(Below, ns, G, tokens)
  <2>1. StackFits(stack, ns, G, tokens)
    BY StackExtends
  <2> QED
    BY <2>1, FramePoppedFits DEF Below
<1>3. n \in 0 .. Len(ns)
  BY DEF Extends
<1>4. Fits(nodes', stack', result', G, tokens')
  BY <1>1, <1>2, <1>3 DEF Fits, Extends
<1> QED
  BY <1>1, <1>4, TreeNext

\* A block gets one more statement, a new node
LEMMA StatementFits ==
  ASSUME stage = "parsing", stage' = stage, tokens' = tokens,
         NEW F, TreeFits(nodes, F, tokens),
         NEW s, StackFits(s, nodes, F, tokens), s # <<>>, s[Len(s)].fn = "modified",
         NEW node, Shape(node, tokens), node.kind \in StatementKinds,
         Row(node.kids, Len(nodes), F), Parts(node, node.kids, nodes),
         node.kids # <<>> => Follows(s, F, node.kids[1]),
         nodes' = Append(nodes, node), result' = 0,
         stack' = Append(SubSeq(s, 1, Len(s) - 1), WithItem(s[Len(s)], Len(nodes) + 1))
  PROVE  TreeInv'
<1> DEFINE n == Len(nodes)
           x == n + 1
           ms == Append(nodes, node)
           f == WithItem(s[Len(s)], x)
           t == Append(SubSeq(s, 1, Len(s) - 1), f)
<1>1. PICK G : /\ Extends(nodes, F, ms, G, tokens) /\ Len(ms) = x /\ ms[x] = node
               /\ G[n + 1] = IF node.kids = <<>> THEN n + 1 ELSE F[node.kids[1]]
  BY NodeAddedFits
<1>2. stack' = t /\ nodes' = ms
  OBVIOUS
<1> HIDE DEF ms
<1>3. StackFits(s, ms, G, tokens)
  BY <1>1, StackExtends
<1>4. Follows(s, G, x)
  BY <1>1, NodeFollows
<1>5. /\ FrameFits(s[Len(s)], ms, G, tokens)
      /\ \A y \in RulesOf(s[Len(s)]) : Follows(SubSeq(s, 1, Len(s) - 1), G, y)
      /\ Follows(SubSeq(s, 1, Len(s) - 1), G, x) /\ \A y \in RulesOf(s[Len(s)]) : y < G[x]
  BY <1>3, <1>4, FramePoppedFits
<1>6. x \in 1 .. Len(ms) /\ 0 \in 0 .. Len(ms)
  <2>1. n \in Nat
    BY <1>1 DEF Extends
  <2> HIDE DEF n
  <2> QED
    BY <1>1, <2>1
<1> HIDE DEF x
<1>7. f.fn = s[Len(s)].fn /\ RulesOf(f) = RulesOf(s[Len(s)]) \cup {x} /\ FrameFits(f, ms, G, tokens)
  <2>1. ms[x].kind \in StatementKinds /\ s[Len(s)].fn # "or"
    BY <1>1
  <2> QED
    BY <1>5, <1>6, <2>1, RuleJoins
<1> HIDE DEF f
<1>8. StackFits(t, ms, G, tokens)
  BY <1>3, <1>5, <1>7, FrameReplacedFits
<1> HIDE DEF t
<1>9. Fits(nodes', stack', result', G, tokens')
  BY <1>1, <1>2, <1>6, <1>8 DEF Fits, Extends
<1> QED
  BY <1>9, TreeNext
=============================================================================
