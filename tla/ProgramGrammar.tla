-------------------------- MODULE ProgramGrammar --------------------------
(***************************************************************************)
(* Programs for TLC to compile: all the trees up to a size that            *)
(* pomsky-syntax produces for a choice of leaves, groups and statements.   *)
(* The nonterminals are the functions of parser_impl.rs.  A sequence and   *)
(* an alternation have two parts; a lookaround takes the rest of the       *)
(* input, so it is the last part of the last alternative.                  *)
(***************************************************************************)
EXTENDS Integers, Sequences, SequencesExt, FiniteSets

L(kind, tag, num) == [kind |-> kind, tag |-> tag, num |-> num]
Shifted(ns, d) == [i \in DOMAIN ns |-> ns[i] + d]

Leaf(label) == [size |-> 1, label |-> <<label>>, kids |-> << <<>> >>, last |-> <<1>>]
Node1(label, t) ==
  [size |-> t.size + 1,
   label |-> <<label>> \o t.label,
   kids |-> << <<2>> >> \o [i \in 1 .. t.size |-> Shifted(t.kids[i], 1)],
   last |-> <<t.size + 1>> \o Shifted(t.last, 1)]
Node2(label, t, u) ==
  [size |-> t.size + u.size + 1,
   label |-> <<label>> \o t.label \o u.label,
   kids |-> << <<2, t.size + 2>> >>
              \o [i \in 1 .. t.size |-> Shifted(t.kids[i], 1)]
              \o [i \in 1 .. u.size |-> Shifted(u.kids[i], t.size + 1)],
   last |-> <<t.size + u.size + 1>> \o Shifted(t.last, 1) \o Shifted(u.last, t.size + 1)]

\* The union of a list of sets.  TLC sorts a set to count it, and finds out quickly
\* what is in a sorted set.
UnionOf(sets) ==
  FoldLeft(LAMBDA all, set : IF Cardinality(all) = 0 THEN set ELSE all \cup set, {}, sets)

Pairs(label, left, right, k) ==
  UnionOf([i \in 1 .. k - 2 |-> {Node2(label, t, u) : t \in left[i], u \in right[k - 1 - i]}])
Wrapped(labels, trees, k) ==
  IF k = 1 THEN {} ELSE {Node1(label, t) : label \in labels, t \in trees[k - 1]}

\* A program with the names its leading statements bind: parse_modified refuses
\* to bind a name twice in a list of statements.
Plainly(ts) == {[tree |-> t, bound |-> {}] : t \in ts}
Trees(ms) == [i \in DOMAIN ms |-> {m.tree : m \in ms[i]}]

ModeStatements(g, modified, k) ==
  IF k = 1 THEN {}
  ELSE {[tree |-> Node1(label, m.tree), bound |-> m.bound] :
          label \in g.modes, m \in modified[k - 1]}
LetStatements(g, or, modified, k) ==
  LET lets(i) == {<<label, m>> \in g.lets \X modified[k - 1 - i] : label.tag \notin m.bound} IN
  UnionOf([i \in 1 .. k - 2 |->
             {[tree |-> Node2(let[1], t, let[2].tree), bound |-> let[2].bound \cup {let[1].tag}] :
                t \in or[i], let \in lets(i)}])

\* From the expressions of fewer than k nodes, those of exactly k nodes.
Extend(g, tab, k) ==
  LET mods == Trees(tab.modified)
      atom == IF k = 1 THEN {Leaf(label) : label \in g.leaves} ELSE Wrapped(g.groups, mods, k)
      rep == UnionOf(<<atom, Wrapped(g.repetitions, tab.atom, k)>>)
      fix == UnionOf(<<rep, Wrapped(g.lookarounds, mods, k)>>)
      closed == UnionOf(<<rep, Pairs(L("group", "-", 0), tab.rep, tab.rep, k)>>)
      sequence == UnionOf(<<fix, Pairs(L("group", "-", 0), tab.rep, tab.fix, k)>>)
      or == IF g.alternation
            THEN UnionOf(<<sequence, Pairs(L("alternation", "-", 0), tab.closed, tab.sequence, k)>>)
            ELSE sequence
  IN [atom |-> [tab.atom EXCEPT ![k] = atom],
      rep |-> [tab.rep EXCEPT ![k] = rep],
      fix |-> [tab.fix EXCEPT ![k] = fix],
      closed |-> [tab.closed EXCEPT ![k] = closed],
      sequence |-> [tab.sequence EXCEPT ![k] = sequence],
      or |-> [tab.or EXCEPT ![k] = or],
      modified |-> [tab.modified EXCEPT ![k] =
                      UnionOf(<<Plainly(or), ModeStatements(g, tab.modified, k),
                                LetStatements(g, tab.or, tab.modified, k)>>)]]

\* The programs of at most size nodes over the labels of the grammar g.
Generate(g, size) ==
  LET none == [k \in 1 .. size |-> {}]
      empty == [atom |-> none, rep |-> none, fix |-> none, closed |-> none,
                sequence |-> none, or |-> none, modified |-> none]
      tab == FoldLeft(LAMBDA t, k : Extend(g, t, k), empty, [k \in 1 .. size |-> k])
  IN UnionOf(Trees(tab.modified))

Named(kind, x) == L(kind, x, 0)
Anonymous(kind) == L(kind, "-", 0)
=============================================================================
