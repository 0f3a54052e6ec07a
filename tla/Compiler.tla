------------------------------ MODULE Compiler ------------------------------
(***************************************************************************)
(* Expr::compile of pomsky-lib: a parsed program is compiled to a regex in *)
(* three recursive passes over the tree, validate, get_capturing_groups    *)
(* and compile, which stop at the first error.                             *)
(*                                                                         *)
(* The native call stack is the variable work, its last element on top: a  *)
(* visit of a node replaces the top frame by the frames of the calls the   *)
(* code makes next, and a frame left behind for after those calls undoes   *)
(* what the visit did to the shared CompileState (pops the variable,       *)
(* removes the index from current_vars, restores the quantifier) or builds *)
(* the node's result from those of its parts.                              *)
(***************************************************************************)
EXTENDS Ast

CONSTANTS
  Programs,        \* the parsed programs that may be compiled
  Flavors,         \* the regex flavors they may be compiled for
  FeatureSets,     \* the values of CompileOptions.allowed_features
  MaxRangeSize,    \* CompileOptions.max_range_size
  MaxReference     \* the largest number a reference by number may have (99)

ASSUME ProgramsAssumption == \A p \in Programs : WellFormed(p)
ASSUME RangeSizeAssumption == MaxRangeSize \in Nat    \* a u8

VARIABLES
  prog, flavor, features,           \* the input
  phase, work, result,              \* the running pass, its calls, its outcome
  count, used_names,                \* groups_count, and the number of each name
  next_idx, default_quantifier,     \* the rest of CompileState
  variables, current_vars, diagnostics,
  out,     \* what compile has emitted so far, in the order of the regex
  vals     \* the results of compile calls whose caller is still running

input == <<prog, flavor, features>>
groups == <<count, used_names>>
scope == <<default_quantifier, variables, current_vars>>
state == <<next_idx, scope, diagnostics>>
emitted == <<out, vals>>
vars == <<input, phase, work, result, groups, state, emitted>>

-----------------------------------------------------------------------------
AllFlavors == {"Pcre", "Python", "Java", "JavaScript", "DotNet", "Ruby", "Rust"}

AllFeatures == {"grapheme", "numberedGroups", "namedGroups", "atomicGroups",
                "references", "lazyMode", "ranges", "variables", "lookahead",
                "lookbehind", "boundaries", "regexes", "dot"}

Phases == {"validate", "collect", "compile", "done"}

Ok == "Ok"
NoError == "NoError"

\* In the order of Expr::compile; G and C abbreviate Grapheme and Codepoint.
Builtins == << [name |-> "Start", rule |-> StartRule],
               [name |-> "End", rule |-> EndRule],
               [name |-> "Grapheme", rule |-> GraphemeRule],
               [name |-> "G", rule |-> GraphemeRule],
               [name |-> "Codepoint", rule |-> CodepointRule],
               [name |-> "C", rule |-> CodepointRule] >>

Kind(n) == KindOf(prog, n)
Tag(n) == LabelOf(prog, n).tag
Num(n) == LabelOf(prog, n).num
Kids(n) == KidsOf(prog, n)
IsNamed(n) == Tag(n) # NoName

(***************************************************************************)
(* Frames.  The index in an Unbind frame is not in the code, where the     *)
(* binding is popped whatever it is: it records which one it has to be.    *)
(***************************************************************************)
Validate(n) == [op |-> "validate", node |-> n]
Collect(n, within) == [op |-> "collect", node |-> n, within |-> within]
Compile(n) == [op |-> "compile", node |-> n]
Build(n) == [op |-> "build", node |-> n]
Unbind(i) == [op |-> "unbind", idx |-> i]
Unexpand(i, n) == [op |-> "unexpand", idx |-> i, node |-> n]
Restore(q) == [op |-> "restore", quantifier |-> q]

Top == work[Len(work)]
Rest == SubSeq(work, 1, Len(work) - 1)

\* The running call is finished and makes the calls of frames, last one first.
Continue(frames) == work' = Rest \o frames

\* The frames that visit the nodes ns from left to right, in each pass.
ValidateAll(ns) == [i \in DOMAIN ns |-> Validate(ns[Len(ns) + 1 - i])]
CollectAll(ns, within) == [i \in DOMAIN ns |-> Collect(ns[Len(ns) + 1 - i], within)]
CompileAll(ns) == [i \in DOMAIN ns |-> Compile(ns[Len(ns) + 1 - i])]

\* An error is propagated by `?` to Expr::compile, which returns no regex.
Fail(e) ==
  /\ phase' = "done"
  /\ result' = e
  /\ work' = <<>>
  /\ UNCHANGED <<groups, state, emitted>>

Visiting(op, kinds) == work # <<>> /\ Top.op = op /\ Kind(Top.node) \in kinds
Returning(op) == work # <<>> /\ Top.op = op

-----------------------------------------------------------------------------
(***************************************************************************)
(* First pass: RuleExt::validate.                                          *)
(***************************************************************************)

FeatureOf(n) ==
  CASE Kind(n) = "boundary" -> "boundaries"
    [] Kind(n) = "grapheme" -> "grapheme"
    [] Kind(n) = "dot" -> "dot"
    [] Kind(n) = "range" -> "ranges"
    [] Kind(n) = "regex" -> "regexes"
    [] Kind(n) \in ReferenceKinds -> "references"
    [] Kind(n) = "atomic" -> "atomicGroups"
    [] Kind(n) = "capture" /\ IsNamed(n) -> "namedGroups"
    [] Kind(n) = "capture" /\ ~IsNamed(n) -> "numberedGroups"
    [] Kind(n) = "lookahead" -> "lookahead"
    [] Kind(n) = "lookbehind" -> "lookbehind"
    [] Kind(n) = "enable" -> "lazyMode"
    [] Kind(n) = "let" -> "variables"
    [] OTHER -> "none"

Allowed(feature) == feature \in features \cup {"none"}

\* What validate says of the node itself, before it looks at the parts.
ValidationError(n) ==
  IF Kind(n) = "range" /\ Num(n) > MaxRangeSize THEN "RangeIsTooBig"
  ELSE IF ~Allowed(FeatureOf(n)) THEN "UnsupportedPomskySyntax"
  ELSE IF Kind(n) = "atomic" /\ flavor \in {"JavaScript", "Python", "Rust"}
  THEN "UnsupportedAtomicGroups"
  ELSE NoError

\* Mutant: the rule bound by a let is not validated.
ValidatedPartsMutant(n) ==
  IF Kind(n) = "let" THEN <<Kids(n)[2]>>
  ELSE IF Kind(n) \in LookaroundKinds THEN <<>> ELSE Kids(n)

\* The parts validate calls itself on.  A lookaround does not validate the
\* rule it contains.
ValidatedParts(n) == IF Kind(n) \in LookaroundKinds THEN <<>> ELSE Kids(n)

ValidateRule ==
  /\ Visiting("validate", Kinds)
  /\ UNCHANGED input
  /\ LET n == Top.node IN
     \/ /\ ValidationError(n) # NoError
        /\ Fail(ValidationError(n))
     \/ /\ ValidationError(n) = NoError
        /\ Continue(ValidateAll(ValidatedParts(n)))
        /\ UNCHANGED <<phase, result, groups, state, emitted>>

BeginCollect ==
  /\ phase = "validate"
  /\ work = <<>>
  /\ phase' = "collect"
  /\ work' = <<Collect(1, FALSE)>>
  /\ UNCHANGED <<input, result, groups, state, emitted>>

-----------------------------------------------------------------------------
(***************************************************************************)
(* Second pass: RuleExt::get_capturing_groups.                             *)
(***************************************************************************)

CollectCapture ==
  /\ Visiting("collect", {"capture"})
  /\ UNCHANGED input
  /\ LET n == Top.node IN
     \/ /\ Top.within
        /\ Fail("CaptureInLet")
     \/ /\ ~Top.within
        /\ IsNamed(n) /\ used_names[Tag(n)] # 0
        /\ Fail("NameUsedMultipleTimes")
     \/ /\ ~Top.within
        /\ ~(IsNamed(n) /\ used_names[Tag(n)] # 0)
        /\ count' = count + 1
        /\ used_names' = IF IsNamed(n) THEN [used_names EXCEPT ![Tag(n)] = count + 1]
                                       ELSE used_names
        /\ Continue(CollectAll(Kids(n), FALSE))
        /\ UNCHANGED <<phase, result, state, emitted>>

CollectReference ==
  /\ Visiting("collect", ReferenceKinds)
  /\ UNCHANGED input
  /\ \/ /\ Top.within
        /\ Fail("ReferenceInLet")
     \/ /\ ~Top.within
        /\ Continue(<<>>)
        /\ UNCHANGED <<phase, result, groups, state, emitted>>

\* Mutant: the rule bound by a let is not marked as such.
CollectLetMutant ==
  /\ Visiting("collect", {"let"})
  /\ Continue(CollectAll(Kids(Top.node), Top.within))
  /\ UNCHANGED <<input, phase, result, groups, state, emitted>>

CollectLet ==
  /\ Visiting("collect", {"let"})
  /\ LET kids == Kids(Top.node) IN
     Continue(<<Collect(kids[2], Top.within), Collect(kids[1], TRUE)>>)
  /\ UNCHANGED <<input, phase, result, groups, state, emitted>>

CollectOther ==
  /\ Visiting("collect", Kinds \ (ReferenceKinds \cup {"capture", "let"}))
  /\ Continue(CollectAll(Kids(Top.node), Top.within))
  /\ UNCHANGED <<input, phase, result, groups, state, emitted>>

\* The fields of CompileState::new: used_names and groups_count are taken from
\* the pass before, and has_named and used_names_vec follow from used_names.
NewCompileState ==
  /\ next_idx = 1
  /\ default_quantifier = "Greedy"
  /\ variables = Builtins
  /\ current_vars = {}
  /\ diagnostics = <<>>

HasNamed == \E x \in Names : used_names[x] # 0
NamedGroup(number) == \E x \in Names : used_names[x] = number

BeginCompile ==
  /\ phase = "collect"
  /\ work = <<>>
  /\ phase' = "compile"
  /\ work' = <<Compile(1)>>
  /\ UNCHANGED <<input, result, groups, state, emitted>>

-----------------------------------------------------------------------------
(***************************************************************************)
(* Third pass: RuleExt::compile.                                           *)
(*                                                                         *)
(* The regex is represented by its tokens.  A token names the node it was  *)
(* compiled from, its form and, for groups and references, a number.       *)
(***************************************************************************)
Plain == "Plain"
ByNumber == "Number"
ByName == "Name"

Emit(n, number, form) ==
  out' = Append(out, [node |-> n, number |-> number, form |-> form])

\* What is_assertion and result_is_empty say of a result.
Value(empty, assertion) == [empty |-> empty, assertion |-> assertion]
Opaque == Value(FALSE, FALSE)

\* The results of the parts of the node that is being built.
Parts(n) == SubSeq(vals, Len(vals) - Len(Kids(n)) + 1, Len(vals))
Return(n, value) ==
  vals' = Append(SubSeq(vals, 1, Len(vals) - Len(Kids(n))), value)

ValueError(n) ==
  CASE Kind(n) = "class" /\ Num(n) = 1 -> "ClassError"
    [] Kind(n) = "grapheme" /\ flavor \notin {"Pcre", "Java", "Ruby"} -> "UnsupportedGrapheme"
    [] OTHER -> NoError

ValueResult(n) ==
  Value(Kind(n) \in {"literal", "regex"} /\ Num(n) = 0, Kind(n) = "boundary")

CompileValue ==
  /\ Visiting("compile", ValueKinds)
  /\ UNCHANGED input
  /\ LET n == Top.node IN
     \/ /\ ValueError(n) # NoError
        /\ Fail(ValueError(n))
     \/ /\ ValueError(n) = NoError
        /\ Continue(<<>>)
        /\ Emit(n, 0, Plain)
        /\ vals' = Append(vals, ValueResult(n))
        /\ UNCHANGED <<phase, result, groups, state>>

CompileGroup ==
  /\ Visiting("compile", GroupKinds)
  /\ LET n == Top.node IN
     /\ Continue(<<Build(n)>> \o CompileAll(Kids(n)))
     /\ next_idx' = IF Kind(n) = "capture" THEN next_idx + 1 ELSE next_idx
     /\ IF Kind(n) = "group"
        THEN UNCHANGED out
        ELSE Emit(n, IF Kind(n) = "capture" THEN next_idx ELSE 0, Plain)
  /\ UNCHANGED <<input, phase, result, groups, scope, diagnostics, vals>>

\* A group that does not capture is an assertion if its only part that is not
\* empty is one.
GroupResult(n) ==
  LET nonEmpty == {i \in DOMAIN Parts(n) : ~Parts(n)[i].empty} IN
  Value(nonEmpty = {},
        /\ Kind(n) = "group"
        /\ \E i \in nonEmpty : nonEmpty = {i} /\ Parts(n)[i].assertion)

BuildGroup ==
  /\ Visiting("build", GroupKinds)
  /\ Return(Top.node, GroupResult(Top.node))
  /\ Continue(<<>>)
  /\ UNCHANGED <<input, phase, result, groups, state, out>>

CompileAlternation ==
  /\ Visiting("compile", {"alternation"})
  /\ Continue(<<Build(Top.node)>> \o CompileAll(Kids(Top.node)))
  /\ UNCHANGED <<input, phase, result, groups, state, emitted>>

AlternationResult(n) ==
  Value(FALSE, \E i \in DOMAIN Parts(n) : Parts(n)[i].assertion)

BuildAlternation ==
  /\ Visiting("build", {"alternation"})
  /\ Return(Top.node, AlternationResult(Top.node))
  /\ Continue(<<>>)
  /\ UNCHANGED <<input, phase, result, groups, state, out>>

CompileLookaround ==
  /\ Visiting("compile", LookaroundKinds)
  /\ UNCHANGED input
  /\ LET n == Top.node IN
     \/ /\ flavor = "Rust"
        /\ Fail("UnsupportedLookaround")
     \/ /\ flavor # "Rust"
        /\ diagnostics' = IF flavor = "JavaScript" /\ Kind(n) = "lookbehind"
                          THEN Append(diagnostics, n) ELSE diagnostics
        /\ Emit(n, 0, Plain)
        /\ Continue(<<Build(n)>> \o CompileAll(Kids(n)))
        /\ UNCHANGED <<phase, result, groups, next_idx, scope, vals>>

BuildLookaround ==
  /\ Visiting("build", LookaroundKinds)
  /\ Return(Top.node, Value(FALSE, TRUE))
  /\ Continue(<<>>)
  /\ UNCHANGED <<input, phase, result, groups, state, out>>

CompileRepetition ==
  /\ Visiting("compile", {"repetition"})
  /\ Continue(<<Build(Top.node)>> \o CompileAll(Kids(Top.node)))
  /\ UNCHANGED <<input, phase, result, groups, state, emitted>>

\* Mutant: a repetition without a quantifier ignores the mode.
QuantifierOfMutant(n) == Tag(n)

QuantifierOf(n) == IF Tag(n) \in Quantifiers THEN Tag(n) ELSE default_quantifier

RepeatsAssertion(n) == \E i \in DOMAIN Parts(n) : Parts(n)[i].assertion

BuildRepetition ==
  /\ Visiting("build", {"repetition"})
  /\ UNCHANGED input
  /\ LET n == Top.node IN
     \/ /\ flavor = "Ruby" /\ RepeatsAssertion(n)
        /\ Fail("UnsupportedRepeatedAssertion")
     \/ /\ ~(flavor = "Ruby" /\ RepeatsAssertion(n))
        /\ Emit(n, 0, QuantifierOf(n))
        /\ Return(n, Opaque)
        /\ Continue(<<>>)
        /\ UNCHANGED <<phase, result, groups, state>>

-----------------------------------------------------------------------------
(***************************************************************************)
(* Statements: StmtExpr::compile.                                          *)
(***************************************************************************)

CompileMode ==
  /\ Visiting("compile", ModeKinds)
  /\ default_quantifier' = IF Kind(Top.node) = "enable" THEN "Lazy" ELSE "Greedy"
  /\ Continue(<<Restore(default_quantifier)>> \o CompileAll(Kids(Top.node)))
  /\ UNCHANGED <<input, phase, result, groups, next_idx, variables, current_vars,
                 diagnostics, emitted>>

\* Mutant: the mode stays in force after its statement.
RestoreModeMutant ==
  /\ Returning("restore")
  /\ Continue(<<>>)
  /\ UNCHANGED <<input, phase, result, groups, state, emitted>>

RestoreMode ==
  /\ Returning("restore")
  /\ default_quantifier' = Top.quantifier
  /\ Continue(<<>>)
  /\ UNCHANGED <<input, phase, result, groups, next_idx, variables, current_vars,
                 diagnostics, emitted>>

CompileLet ==
  /\ Visiting("compile", {"let"})
  /\ LET n == Top.node IN
     /\ variables' = Append(variables, [name |-> Tag(n), rule |-> Kids(n)[1]])
     /\ Continue(<<Unbind(Len(variables) + 1), Compile(Kids(n)[2])>>)
  /\ UNCHANGED <<input, phase, result, groups, next_idx, default_quantifier,
                 current_vars, diagnostics, emitted>>

\* Mutant: the variable stays bound after its statement.
UnbindLetMutant ==
  /\ Returning("unbind")
  /\ Continue(<<>>)
  /\ UNCHANGED <<input, phase, result, groups, state, emitted>>

UnbindLet ==
  /\ Returning("unbind")
  /\ variables' = SubSeq(variables, 1, Len(variables) - 1)
  /\ Continue(<<>>)
  /\ UNCHANGED <<input, phase, result, groups, next_idx, default_quantifier,
                 current_vars, diagnostics, emitted>>

-----------------------------------------------------------------------------
(***************************************************************************)
(* Variables: Variable::compile.  The rule of the innermost binding of the *)
(* name that is not being expanded already is compiled in place of the     *)
(* variable, in the scope of the use.                                      *)
(***************************************************************************)

Bindings(x) == {i \in DOMAIN variables : variables[i].name = x}
\* Mutant: a variable may be expanded within its own expansion.
CandidatesMutant(x) == Bindings(x)

Candidates(x) == Bindings(x) \ current_vars
\* Mutants: the outermost binding is taken; only the innermost is looked at.
ResolvesFirst(x, i) == i \in Candidates(x) /\ \A j \in Candidates(x) : i <= j
ResolvesLast(x, i) == i \in Candidates(x) /\ \A j \in Bindings(x) : j <= i

Resolves(x, i) == i \in Candidates(x) /\ \A j \in Candidates(x) : j <= i

\* Built-in rules are not validated, so their features are required at the use.
UseFeature(rule) ==
  CASE Kind(rule) = "boundary" -> "boundaries"
    [] Kind(rule) = "grapheme" -> "grapheme"
    [] OTHER -> "none"

CompileVariable ==
  /\ Visiting("compile", {"variable"})
  /\ UNCHANGED input
  /\ LET n == Top.node IN
     \/ \E i \in DOMAIN variables :
          /\ Resolves(Tag(n), i)
          /\ ~Allowed(UseFeature(variables[i].rule))
          /\ Fail("UnsupportedPomskySyntax")
     \/ \E i \in DOMAIN variables :
          /\ Resolves(Tag(n), i)
          /\ Allowed(UseFeature(variables[i].rule))
          /\ current_vars' = current_vars \cup {i}
          /\ Continue(<<Unexpand(i, n), Compile(variables[i].rule)>>)
          /\ UNCHANGED <<phase, result, groups, next_idx, default_quantifier,
                         variables, diagnostics, emitted>>
     \/ /\ Candidates(Tag(n)) = {} /\ Bindings(Tag(n)) # {}
        /\ Fail("RecursiveVariable")
     \/ /\ Candidates(Tag(n)) = {} /\ Bindings(Tag(n)) = {}
        /\ Fail("UnknownVariable")

\* Mutant: a variable is never expanded a second time.
UnexpandVariableMutant ==
  /\ Returning("unexpand")
  /\ Continue(<<>>)
  /\ UNCHANGED <<input, phase, result, groups, state, emitted>>

UnexpandVariable ==
  /\ Returning("unexpand")
  /\ current_vars' = current_vars \ {Top.idx}
  /\ Continue(<<>>)
  /\ UNCHANGED <<input, phase, result, groups, next_idx, default_quantifier,
                 variables, diagnostics, emitted>>

-----------------------------------------------------------------------------
(***************************************************************************)
(* References: Reference::compile.  The 32-bit sum of an offset close to   *)
(* 2^31 and next_idx wraps to a number that is refused like the sum        *)
(* itself, so the sums below are not reduced.                              *)
(***************************************************************************)

\* Mutant: `::+1` skips the next group.
GroupNumberMutant(n) ==
  IF Kind(n) = "refName" THEN used_names[Tag(n)]
  ELSE IF Kind(n) = "refNumber" THEN Num(n)
  ELSE next_idx + Num(n)

GroupNumber(n) ==
  IF Kind(n) = "refName" THEN used_names[Tag(n)]
  ELSE IF Kind(n) = "refNumber" THEN Num(n)
  ELSE IF Num(n) <= 0 THEN next_idx + Num(n)
  ELSE next_idx + Num(n) - 1

ReferenceError(n) ==
  IF Kind(n) = "refName" /\ used_names[Tag(n)] = 0 THEN "UnknownReferenceName"
  ELSE IF Kind(n) = "refNumber" /\ Num(n) > MaxReference THEN "HugeReference"
  ELSE IF Kind(n) = "refRelative" /\ Num(n) = 0 THEN "RelativeRefZero"
  ELSE IF Kind(n) # "refName" /\ GroupNumber(n) \notin 1 .. count
  THEN "UnknownReferenceNumber"
  ELSE NoError

\* Mutant: the group that opens next is taken for one that is open.
IsForwardMutant(n) == IF Kind(n) = "refRelative" THEN Num(n) > 1
                                                 ELSE GroupNumber(n) > next_idx

IsForward(n) == IF Kind(n) = "refRelative" THEN Num(n) >= 0
                                           ELSE GroupNumber(n) >= next_idx

\* Mutant: Ruby gets numbered references beside named groups.
FlavorErrorMutant(n) ==
  IF flavor = "Rust" THEN "UnsupportedReference"
  ELSE IF flavor \in {"JavaScript", "Python"} /\ IsForward(n)
  THEN "UnsupportedForwardReference"
  ELSE NoError

FlavorError(n) ==
  IF flavor = "Rust" THEN "UnsupportedReference"
  ELSE IF flavor \in {"JavaScript", "Python"} /\ IsForward(n)
  THEN "UnsupportedForwardReference"
  ELSE IF flavor = "Ruby" /\ HasNamed /\ ~NamedGroup(GroupNumber(n))
  THEN "UnsupportedMixedReferences"
  ELSE NoError

ReferenceForm(n) ==
  IF flavor = "Ruby" /\ NamedGroup(GroupNumber(n)) THEN ByName ELSE ByNumber

CompileReference ==
  /\ Visiting("compile", ReferenceKinds)
  /\ UNCHANGED input
  /\ LET n == Top.node IN
     \/ /\ ReferenceError(n) # NoError
        /\ Fail(ReferenceError(n))
     \/ /\ ReferenceError(n) = NoError /\ FlavorError(n) # NoError
        /\ Fail(FlavorError(n))
     \/ /\ ReferenceError(n) = NoError /\ FlavorError(n) = NoError
        /\ Emit(n, GroupNumber(n), ReferenceForm(n))
        /\ vals' = Append(vals, Opaque)
        /\ Continue(<<>>)
        /\ UNCHANGED <<phase, result, groups, state>>

-----------------------------------------------------------------------------
Finish ==
  /\ phase = "compile"
  /\ work = <<>>
  /\ phase' = "done"
  /\ result' = Ok
  /\ UNCHANGED <<input, work, groups, state, emitted>>

\* Expr::compile has returned; nothing is left to do.
Returned == phase = "done" /\ UNCHANGED vars

Init ==
  /\ prog \in Programs /\ flavor \in Flavors /\ features \in FeatureSets
  /\ phase = "validate"
  /\ work = <<Validate(1)>>
  /\ result = NoError
  /\ count = 0
  /\ used_names = [x \in Names |-> 0]
  /\ NewCompileState
  /\ out = <<>>
  /\ vals = <<>>

Next ==
  \/ ValidateRule \/ BeginCollect
  \/ CollectCapture \/ CollectReference \/ CollectLet \/ CollectOther \/ BeginCompile
  \/ CompileValue \/ CompileGroup \/ CompileAlternation \/ CompileLookaround
  \/ CompileRepetition \/ CompileMode \/ CompileLet \/ CompileVariable
  \/ CompileReference
  \/ BuildGroup \/ BuildAlternation \/ BuildLookaround \/ BuildRepetition
  \/ RestoreMode \/ UnbindLet \/ UnexpandVariable
  \/ Finish \/ Returned

Spec == Init /\ [][Next]_vars

\* The compiler is one thread that runs until Expr::compile returns.
FairSpec == Spec /\ WF_vars(Next)
=============================================================================
