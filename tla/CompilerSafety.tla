--------------------------- MODULE CompilerSafety ---------------------------
(***************************************************************************)
(* What the compiler promises: properties of the machine in Compiler that  *)
(* refer only to the source program, to the emitted tokens and to the      *)
(* stack of running calls.                                                 *)
(***************************************************************************)
EXTENDS Compiler, FiniteSetsExt

AnyNode == Nodes(prog) \cup BuiltinRules

Frame == [op : {"validate"}, node : Nodes(prog)]
           \cup [op : {"collect"}, node : Nodes(prog), within : BOOLEAN]
           \cup [op : {"compile"}, node : AnyNode]
           \cup [op : {"build"}, node : Nodes(prog)]
           \cup [op : {"unbind"}, idx : Nat]
           \cup [op : {"unexpand"}, idx : Nat, node : Nodes(prog)]
           \cup [op : {"restore"}, quantifier : Quantifiers]

Token == [node : AnyNode, number : Nat, form : Quantifiers \cup {Plain, ByNumber, ByName}]

\* The type invariant of the compiler's state.
TypeOK ==
  /\ WellFormed(prog)
  /\ flavor \in Flavors
  /\ features \in FeatureSets
  /\ phase \in Phases
  /\ work \in Seq(Frame)
  /\ count \in Nat
  /\ used_names \in [Names -> Nat]
  /\ next_idx \in Nat \ {0}
  /\ default_quantifier \in Quantifiers
  /\ variables \in Seq([name : AnyTag, rule : AnyNode])
  /\ current_vars \in SUBSET Nat
  /\ diagnostics \in Seq(Nodes(prog))
  /\ out \in Seq(Token)
  /\ vals \in Seq([empty : BOOLEAN, assertion : BOOLEAN])

-----------------------------------------------------------------------------
(***************************************************************************)
(* Groups and references.                                                  *)
(***************************************************************************)

IsGroupToken(i) == Kind(out[i].node) = "capture"
IsReferenceToken(i) == Kind(out[i].node) \in ReferenceKinds

\* The number a regex engine gives to the group that token i opens: groups are
\* counted in the order of their opening parentheses in the regex.
EngineNumber(i) == Cardinality({j \in 1 .. i : IsGroupToken(j)})

\* The groups appear in the regex in the order of the source, each of them
\* once, whatever the compile pass expands in between: the numbers the pass
\* get_capturing_groups assigned are the numbers the regex engine will use.
GroupsInSourceOrder ==
  /\ \A i \in DOMAIN out : IsGroupToken(i) => EngineNumber(i) = Rank(prog, out[i].node)
  /\ result = Ok => EngineNumber(Len(out)) = Rank(prog, prog.size)

\* A reference is compiled to the number of a group of the program, and of the
\* very group that its name, number or offset denotes in the source.
ReferencesDenote ==
  \A i \in DOMAIN out : IsReferenceToken(i) =>
    \E c \in Nodes(prog) :
      Denotes(prog, out[i].node, c) /\ Rank(prog, c) = out[i].number

\* JavaScript and Python do not get a reference to a group that opens later in
\* the regex, and Rust gets no reference at all.
NoForwardReferences ==
  /\ flavor = "Rust" => \A i \in DOMAIN out : ~IsReferenceToken(i)
  /\ flavor \in {"JavaScript", "Python"} =>
       \A i \in DOMAIN out : IsReferenceToken(i) =>
         \E j \in 1 .. i - 1 : IsGroupToken(j) /\ EngineNumber(j) = out[i].number

\* In Ruby a group with a name cannot be referenced by number, and a regex with
\* a named group has no numbered groups: no regex has a numbered reference and
\* a named group, and a reference by name refers to a group that has one.
RubyNamesOrNumbers ==
  (flavor = "Ruby" /\ result = Ok) =>
    \A i \in DOMAIN out : IsReferenceToken(i) =>
      /\ out[i].form = ByNumber =>
           \A j \in DOMAIN out : IsGroupToken(j) => ~IsNamed(out[j].node)
      /\ out[i].form = ByName =>
           \E j \in DOMAIN out : /\ IsGroupToken(j) /\ IsNamed(out[j].node)
                                 /\ EngineNumber(j) = out[i].number

-----------------------------------------------------------------------------
(***************************************************************************)
(* Scopes.                                                                 *)
(***************************************************************************)

Expansions == {i \in DOMAIN work : work[i].op = "unexpand"}

\* When a let statement is left, the last variable is the one it has bound, and
\* no rule of that index is still being expanded: current_vars never speaks of
\* an index that a later binding will get.
PopMatchesPush ==
  Returning("unbind") => Top.idx = Len(variables) /\ Top.idx \notin current_vars

\* current_vars is exactly the set of variables that are being expanded, and
\* none is expanded within its own expansion: this bounds the depth of the
\* native stack, which the parser's recursion limit does not.
ExpansionsTracked ==
  phase = "compile" =>
    /\ current_vars = {work[i].idx : i \in Expansions}
    /\ \A i, j \in Expansions : work[i].idx = work[j].idx => i = j
    /\ \A i \in Expansions : work[i].idx \in DOMAIN variables

\* The let statements in whose scope node n is.
Encloses(l, n) ==
  /\ prog.label[l].kind = "let"
  /\ prog.kids[l][2] <= n
  /\ n <= prog.last[l]
Binders(n) == {l \in Nodes(prog) : Encloses(l, n) /\ Tag(l) = Tag(n)}

UniqueNames ==
  \A l, m \in Nodes(prog) :
    Kind(l) = "let" /\ Kind(m) = "let" /\ Tag(l) = Tag(m) => l = m

\* A variable that is used outside of let bindings stands for the rule of the
\* innermost let around it, or for the built-in.  In the rule of a let, where
\* names are resolved at the place of use, this holds for a name that is bound
\* around it as long as no name is bound twice and the name is not that of a
\* built-in: in `let Start = a; let a = Start; Start` the Start in the rule of
\* `a` is the built-in, because the let around it is being expanded.
LexicalResolution ==
  \A i \in Expansions :
    LET n == work[i].node
        idx == work[i].idx
        inner == prog.kids[Max(Binders(n))][1] IN
    /\ ~InLetRule(prog, n) /\ Binders(n) = {} => idx \in DOMAIN Builtins
    /\ /\ Binders(n) # {}
       /\ (UniqueNames /\ Tag(n) \notin BuiltinNames) \/ ~InLetRule(prog, n)
       => variables[idx].rule = inner

\* The mode statements whose scope node n is in.
Modes(n) == {m \in Nodes(prog) : Kind(m) \in ModeKinds /\ m < n /\ n <= prog.last[m]}

\* A repetition without a quantifier is lazy if and only if the innermost mode
\* statement around it says so, also after a nested scope with another mode and
\* after a variable whose rule has changed the mode.  Repetitions in the rule of a
\* let are left out: there the quantifier is the one in force where it is used.
QuantifierScoping ==
  \A i \in DOMAIN out :
    LET n == out[i].node IN
    Kind(n) = "repetition" /\ ~InLetRule(prog, n) =>
      out[i].form =
        IF Tag(n) \in Quantifiers THEN Tag(n)
        ELSE IF Modes(n) # {} /\ Kind(Max(Modes(n))) = "enable" THEN "Lazy"
        ELSE "Greedy"

\* Name x is bound to a rule that uses name y.
Mentions(x, y) ==
  \E l, v \in Nodes(prog) :
    /\ Kind(l) = "let" /\ Tag(l) = x
    /\ Kind(v) = "variable" /\ Tag(v) = y
    /\ l < v /\ v < prog.kids[l][2]
Acyclic ==
  \E depth \in [Names -> 1 .. Cardinality(Names)] :
    \A x, y \in Names : Mentions(x, y) => depth[y] < depth[x]

\* A variable is only called recursive if some names are defined in terms of
\* each other; using a variable again after it has been expanded is no error.
AcyclicNeverRecursive == result = "RecursiveVariable" => ~Acyclic

-----------------------------------------------------------------------------
(***************************************************************************)
(* Options.                                                                *)
(***************************************************************************)

\* The compile options admit node n in the regex.
Admitted(n) ==
  /\ FeatureOf(n) \in features \cup {"none"}
  /\ Kind(n) = "range" => Num(n) <= MaxRangeSize
  /\ Kind(n) = "atomic" => flavor \notin {"JavaScript", "Python", "Rust"}

InLookaround(n) ==
  \E l \in Nodes(prog) : Kind(l) \in LookaroundKinds /\ l < n /\ n <= prog.last[l]

\* What has been compiled without an error is allowed by the options: every
\* emitted token is, except those of expressions written in a lookaround.
OptionsRespectedOutsideLookarounds ==
  result = Ok => \A i \in DOMAIN out : Admitted(out[i].node) \/ InLookaround(out[i].node)

\* "Pomsky makes sure that the emitted regex is compatible with this flavor"
\* (options.rs): a flavor without atomic groups gets none.
FlavorRespected ==
  flavor \in {"JavaScript", "Python", "Rust"} /\ result = Ok =>
    \A i \in DOMAIN out : Kind(out[i].node) # "atomic"

\* Every compilation returns: expanding variables ends.
Terminates == <>(phase = "done")
=============================================================================
