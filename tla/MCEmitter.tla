----------------------------- MODULE MCEmitter -----------------------------
(***************************************************************************)
(* Trees of up to four levels.  A regex that is printed verbatim stands    *)
(* only where its parent sees to its parentheses.                          *)
(***************************************************************************)
EXTENDS EmitterSafety

Leaves == {Literal(<<>>), Literal(<<"a">>), Literal(<<"a", "b">>),
           Item(<<"c">>), Boundary(<<"\\b">>)}
Raw == Unescaped(<<"a", "|", "b">>)
NoName == ""

\* All that one more level makes of the trees.
Greedily(trees, kinds) ==
  {Repetition(tree, bounds, "Greedy") : tree \in trees, bounds \in kinds}
Repeatedly(trees, kinds) ==
  Greedily(trees, kinds)
    \cup {Repetition(tree, bounds, "Lazy") : tree \in trees, bounds \in kinds}
Wrapped(trees) ==
  UNION {{Normal(<<tree>>), Capture(NoName, tree), Atomic(tree), Lookaround("(?=", tree)} :
           tree \in trees}
Pairs(first, second) ==
  UNION {{Normal(<<one, other>>), Alternation(<<one, other>>),
          Normal(<<other, one>>), Alternation(<<other, one>>)} :
           one \in first, other \in second}

Short == {Bounds(0, 1), Bounds(0, Unbounded), Bounds(1, Unbounded), Bounds(1, 1)}
Counted == {Bounds(0, 1), Bounds(0, 2), Bounds(1, 2), Bounds(2, 2), Bounds(1, Unbounded)}
Endlessly == {Bounds(1, Unbounded), Bounds(2, Unbounded)}

\* Repetitions of repetitions, of groups in between, and of what is empty.
Grouped(trees) == trees \cup Pairs(trees, {Literal(<<>>)}) \cup Wrapped(trees)
Nested(kinds) == Repeatedly(Grouped(Repeatedly(Leaves, kinds)), kinds)

\* A lazy repetition of at least two endlessly many rounds prefers other words than
\* one repetition does: `('a'{2,} lazy)+ lazy` goes from two to four.
NestedGreedy(kinds) == Greedily(Grouped(Greedily(Leaves, kinds)), kinds)

\* Sequences, alternatives and groups of all that has to be told apart.
Mixed ==
  LET once == Leaves \cup Repeatedly(Leaves, Short) \cup Wrapped(Leaves \cup {Raw})
                \cup {Alternation(<<Literal(<<"a">>), Item(<<"c">>)>>),
                      Normal(<<Literal(<<"a">>), Item(<<"c">>)>>)}
                \cup Repeatedly({Raw}, {Bounds(0, 1), Bounds(2, 2)})
      twice == Pairs(once, Leaves \cup {Capture("n", Literal(<<>>))}) \cup Wrapped(once)
  IN twice \cup Repeatedly(twice, {Bounds(0, 1), Bounds(1, 1)})
           \cup Pairs(Wrapped(once), {Literal(<<"b">>)})

EmitterTrees == Nested(Short) \cup Nested(Counted) \cup NestedGreedy(Endlessly) \cup Mixed

\* Also repetitions that need not occur of what has to occur twice.
AnyBounds == Short \cup Endlessly
DoubleRepetitions == Greedily(Greedily({Literal(<<"a">>)}, AnyBounds), AnyBounds)

\* Assertions in a repetition, next to what can be empty in several ways.
EmptyParts == {Literal(<<>>), Repetition(Literal(<<>>), Bounds(0, 1), "Greedy"),
               Normal(<<Literal(<<>>)>>), Alternation(<<Literal(<<>>), Literal(<<"a">>)>>)}
RepeatedAssertions == Greedily(Pairs(EmptyParts, Leaves) \cup Wrapped(Leaves), Short)
=============================================================================
