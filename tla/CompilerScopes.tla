--------------------------- MODULE CompilerScopes ---------------------------
(***************************************************************************)
(* What the compiler pushes while it walks the tree, and pops again: the   *)
(* variables of let statements, the variables that are being expanded, and *)
(* the quantifier that a mode statement replaces.  All three follow the    *)
(* scopes of the source, so that a name resolves as it is written.         *)
(***************************************************************************)
EXTENDS CompilerOrder

Unbindings == {i \in DOMAIN work : work[i].op = "unbind"}

(***************************************************************************)
(* The let statements that are running have bound the variables after the  *)
(* built-ins, the inner ones later ones (the last three conjuncts of Nested *)
(* and the second of Bound), and a variable that is expanded outside of a  *)
(* running let statement was bound before the statement's own.             *)
(***************************************************************************)
Bound ==
  /\ Len(Builtins) <= Len(variables)
  /\ {work[i].idx : i \in Unbindings} = Len(Builtins) + 1 .. Len(variables)
Expanded ==
  /\ current_vars = {work[i].idx : i \in Expansions}
  /\ \A i \in Expansions : work[i].idx \in 1 .. Len(variables)
  /\ \A i, j \in Expansions : work[i].idx = work[j].idx => i = j
Nested ==
  /\ \A i, j \in Unbindings : i < j => work[i].idx < work[j].idx
  /\ \A i \in Expansions, j \in Unbindings : i < j => work[i].idx < work[j].idx

ScopeInv ==
  /\ phase = "done" => work = <<>>
  /\ phase # "done" => Bound /\ Expanded /\ Nested

-----------------------------------------------------------------------------

\* The frames that neither unbind nor unexpand a variable.
Calls == {f \in Frame : f.op \notin {"unbind", "unexpand"}}

\* Calls leave the frames of let statements and of variables as they are.
LEMMA CallsScopes ==
  ASSUME TypeOK, work # <<>>, Top.op \notin {"unbind", "unexpand"},
         NEW fs \in Seq(Calls), Continue(fs)
  PROVE  /\ Unbindings' = Unbindings /\ Expansions' = Expansions
         /\ \A i \in Unbindings \cup Expansions : work'[i] = work[i]
<1>1. fs \in Seq(Frame)
  BY SeqMonotonic DEF Calls
<1>2. \A i \in 1 .. Len(fs) : fs[i].op \notin {"unbind", "unexpand"}
  BY ElementOfSeq DEF Calls
<1>3. /\ Len(work) \in Nat \ {0} /\ DOMAIN work = 1 .. Len(work)
      /\ Len(fs) \in Nat
      /\ DOMAIN work' = 1 .. Len(work) - 1 + Len(fs)
      /\ \A i \in 1 .. Len(work) - 1 : work'[i] = work[i]
      /\ \A i \in Len(work) .. Len(work) - 1 + Len(fs) :
              work'[i] = fs[i - Len(work) + 1]
  BY <1>1, Positions
<1>4. work[Len(work)].op \notin {"unbind", "unexpand"}
  BY DEF Top
<1>5. \A i \in Len(work) .. Len(work) - 1 + Len(fs) :
        work'[i].op \notin {"unbind", "unexpand"}
  <2>1. \A i \in Len(work) .. Len(work) - 1 + Len(fs) :
          i - Len(work) + 1 \in 1 .. Len(fs)
    BY <1>3
  <2> QED
    BY <1>2, <1>3, <2>1
<1>6. \A i \in Unbindings \cup Expansions : i \in 1 .. Len(work) - 1
  BY <1>3, <1>4 DEF Unbindings, Expansions
<1>7. \A i \in Unbindings' \cup Expansions' : i \in 1 .. Len(work) - 1
  BY <1>3, <1>5 DEF Unbindings, Expansions
<1>8. \A i \in 1 .. Len(work) - 1 : /\ i \in DOMAIN work /\ i \in DOMAIN work'
                                   /\ work'[i] = work[i]
  BY <1>3
<1>9. \A i : i \in Unbindings' <=> i \in Unbindings
  BY <1>6, <1>7, <1>8 DEF Unbindings
<1>10. \A i : i \in Expansions' <=> i \in Expansions
  BY <1>6, <1>7, <1>8 DEF Expansions
<1> QED
  BY <1>6, <1>8, <1>9, <1>10

LEMMA CallsInv ==
  ASSUME TypeOK, ScopeInv, work # <<>>, Top.op \notin {"unbind", "unexpand"},
         NEW fs \in Seq(Calls), Continue(fs), UNCHANGED <<phase, variables, current_vars>>
  PROVE  ScopeInv'
<1>1. phase # "done" /\ Bound /\ Expanded /\ Nested
  BY DEF ScopeInv
<1>2. /\ Unbindings' = Unbindings /\ Expansions' = Expansions
      /\ \A i \in Unbindings \cup Expansions : work'[i] = work[i]
  BY CallsScopes
<1>3. Bound' /\ Expanded' /\ Nested'
  <2>1. {work'[i].idx : i \in Unbindings'} = {work[i].idx : i \in Unbindings}
    BY <1>2
  <2>2. {work'[i].idx : i \in Expansions'} = {work[i].idx : i \in Expansions}
    BY <1>2
  <2>3. Bound'
    BY <1>1, <2>1 DEF Bound, Builtins
  <2>4. Expanded'
    BY <1>1, <1>2, <2>2 DEF Expanded
  <2>5. Nested'
    BY <1>1, <1>2 DEF Nested
  <2> QED
    BY <2>3, <2>4, <2>5
<1> QED
  BY <1>1, <1>3 DEF ScopeInv

LEMMA FailInv ==
  ASSUME NEW e, Fail(e)
  PROVE  ScopeInv'
BY DEF Fail, ScopeInv

-----------------------------------------------------------------------------
(***************************************************************************)
(* The steps that touch no scope.                                          *)
(***************************************************************************)

LEMMA CallFrames ==
  ASSUME TypeOK
  PROVE  /\ <<>> \in Seq(Calls)
         /\ \A n \in AnyNode :
              /\ ValidateAll(ValidatedParts(n)) \in Seq(Calls)
              /\ \A w \in BOOLEAN : CollectAll(Kids(n), w) \in Seq(Calls)
              /\ \A f \in Calls : <<f>> \o CompileAll(Kids(n)) \in Seq(Calls)
<1>1. \A m \in Nodes(prog) :
        /\ Validate(m) \in Calls /\ Compile(m) \in Calls
        /\ \A w \in BOOLEAN : Collect(m, w) \in Calls
  BY DEF Validate, Compile, Collect, Calls, Frame, AnyNode
<1>2. \A n \in AnyNode : Kids(n) \in Seq(Nodes(prog))
  BY NodeTypes DEF TypeOK
<1>3. \A n \in AnyNode : ValidatedParts(n) \in Seq(Nodes(prog))
  BY <1>2 DEF ValidatedParts
<1>4. \A n \in AnyNode :
        /\ ValidateAll(ValidatedParts(n)) \in Seq(Calls)
        /\ \A w \in BOOLEAN : CollectAll(Kids(n), w) \in Seq(Calls)
        /\ CompileAll(Kids(n)) \in Seq(Calls)
  BY <1>1, <1>2, <1>3, Visits
<1>5. \A n \in AnyNode : \A f \in Calls : <<f>> \o CompileAll(Kids(n)) \in Seq(Calls)
  BY <1>4, ShortSequences, ConcatProperties
<1> QED
  BY <1>4, <1>5, ShortSequences

LEMMA ValidateInv == TypeOK /\ ScopeInv /\ ValidateRule => ScopeInv'
<1> SUFFICES ASSUME TypeOK, ScopeInv, ValidateRule PROVE ScopeInv'
  OBVIOUS
<1> DEFINE n == Top.node
<1>1. work # <<>> /\ Top.op = "validate"
  BY DEF ValidateRule, Visiting
<1>2. n \in AnyNode
  BY <1>1, TopFrame DEF AnyNode
<1>3. CASE Fail(ValidationError(n))
  BY <1>3, FailInv
<1>4. CASE /\ Continue(ValidateAll(ValidatedParts(n)))
           /\ UNCHANGED <<phase, result, groups, state, emitted>>
  BY <1>1, <1>2, <1>4, CallFrames, CallsInv DEF state, scope
<1> QED
  BY <1>3, <1>4 DEF ValidateRule

LEMMA CollectInv ==
  TypeOK /\ ScopeInv /\ (CollectCapture \/ CollectReference \/ CollectLet \/ CollectOther)
    => ScopeInv'
<1> SUFFICES ASSUME TypeOK, ScopeInv,
                    CollectCapture \/ CollectReference \/ CollectLet \/ CollectOther
             PROVE  ScopeInv'
  OBVIOUS
<1> DEFINE n == Top.node
<1>1. work # <<>> /\ Top.op = "collect"
  BY DEF CollectCapture, CollectReference, CollectLet, CollectOther, Visiting
<1>2. n \in Nodes(prog) /\ n \in AnyNode /\ Top.within \in BOOLEAN
  BY <1>1, TopFrame DEF AnyNode
<1>3. CASE \/ Fail("CaptureInLet") \/ Fail("NameUsedMultipleTimes")
           \/ Fail("ReferenceInLet")
  BY <1>3, FailInv
<1>4. CASE /\ \/ Continue(CollectAll(Kids(n), FALSE)) \/ Continue(<<>>)
              \/ Continue(CollectAll(Kids(n), Top.within))
           /\ UNCHANGED <<phase, state>>
  BY <1>1, <1>2, <1>4, CallFrames, CallsInv DEF state, scope
<1>5. CASE CollectLet
  <2> DEFINE fs == <<Collect(Kids(n)[2], Top.within), Collect(Kids(n)[1], TRUE)>>
  <2>1. Kids(n)[1] \in Nodes(prog) /\ Kids(n)[2] \in Nodes(prog)
    BY <1>2, <1>5, LetKids DEF CollectLet, Visiting, TypeOK
  <2>2. Collect(Kids(n)[2], Top.within) \in Calls /\ Collect(Kids(n)[1], TRUE) \in Calls
    BY <1>2, <2>1 DEF Collect, Calls, Frame
  <2>3. fs \in Seq(Calls)
    BY <2>2, ShortSequences
  <2>4. Continue(fs) /\ UNCHANGED <<phase, variables, current_vars>>
    BY <1>5 DEF CollectLet, state, scope
  <2> QED
    BY <1>1, <2>3, <2>4, CallsInv
<1> QED
  BY <1>3, <1>4, <1>5 DEF CollectCapture, CollectReference, CollectOther

LEMMA PassInv ==
  TypeOK /\ ScopeInv /\ (BeginCollect \/ BeginCompile \/ Finish) => ScopeInv'
<1> SUFFICES ASSUME TypeOK, ScopeInv, BeginCollect \/ BeginCompile \/ Finish
             PROVE  ScopeInv'
  OBVIOUS
<1>1. CASE Finish
  BY <1>1 DEF Finish, ScopeInv
<1>2. CASE BeginCollect \/ BeginCompile
  <2>1. /\ phase # "done" /\ phase' # "done" /\ work = <<>>
        /\ work' = <<Collect(1, FALSE)>> \/ work' = <<Compile(1)>>
        /\ UNCHANGED <<variables, current_vars>>
    BY <1>2 DEF BeginCollect, BeginCompile, state, scope
  <2>2. Unbindings = {} /\ Expansions = {}
    BY <2>1 DEF Unbindings, Expansions
  <2>3. Unbindings' = {} /\ Expansions' = {}
    BY <2>1 DEF Unbindings, Expansions, Collect, Compile
  <2>4. Bound /\ Expanded
    BY <2>1 DEF ScopeInv
  <2>5. Bound' /\ Expanded' /\ Nested'
    BY <2>1, <2>2, <2>3, <2>4 DEF Bound, Expanded, Nested, Builtins
  <2> QED
    BY <2>1, <2>5 DEF ScopeInv
<1> QED
  BY <1>1, <1>2

LEMMA CompileInv ==
  TypeOK /\ ScopeInv
    /\ \/ CompileValue \/ CompileGroup \/ CompileAlternation \/ CompileLookaround
       \/ CompileRepetition \/ CompileMode \/ CompileReference
    => ScopeInv'
<1> SUFFICES ASSUME TypeOK, ScopeInv,
                    \/ CompileValue \/ CompileGroup \/ CompileAlternation
                    \/ CompileLookaround \/ CompileRepetition \/ CompileMode
                    \/ CompileReference
             PROVE  ScopeInv'
  OBVIOUS
<1> DEFINE n == Top.node
<1>1. work # <<>> /\ Top.op = "compile"
  BY DEF CompileValue, CompileGroup, CompileAlternation, CompileLookaround,
         CompileRepetition, CompileMode, CompileReference, Visiting
<1>2. n \in AnyNode
  BY <1>1, Compiled
<1>3. CASE \E e : Fail(e)
  BY <1>3, FailInv
<1>4. CASE Continue(<<>>) /\ UNCHANGED <<phase, variables, current_vars>>
  BY <1>1, <1>4, CallFrames, CallsInv
<1>5. CASE /\ n \in Nodes(prog)
           /\ Continue(<<Build(n)>> \o CompileAll(Kids(n)))
           /\ UNCHANGED <<phase, variables, current_vars>>
  <2>1. Build(n) \in Calls
    BY <1>5 DEF Build, Calls, Frame
  <2>2. <<Build(n)>> \o CompileAll(Kids(n)) \in Seq(Calls)
    BY <1>2, <2>1, CallFrames
  <2> QED
    BY <1>1, <1>5, <2>2, CallsInv
<1>6. CASE CompileMode
  <2> DEFINE fs == <<Restore(default_quantifier)>> \o CompileAll(Kids(n))
  <2>1. Restore(default_quantifier) \in Calls
    BY DEF Restore, Calls, Frame, TypeOK
  <2>2. fs \in Seq(Calls)
    BY <1>2, <2>1, CallFrames
  <2>3. Continue(fs) /\ UNCHANGED <<phase, variables, current_vars>>
    BY <1>6 DEF CompileMode
  <2> QED
    BY <1>1, <2>2, <2>3, CallsInv
<1>7. CASE \/ CompileGroup \/ CompileAlternation \/ CompileLookaround \/ CompileRepetition
  <2>1. n \in Nodes(prog)
    BY <1>1, <1>7, Compiled, OtherKinds
       DEF CompileGroup, CompileAlternation, CompileLookaround, CompileRepetition, Visiting
  <2> QED
    BY <1>3, <1>5, <1>7, <2>1
       DEF CompileGroup, CompileAlternation, CompileLookaround, CompileRepetition,
           state, scope
<1>8. CASE CompileValue \/ CompileReference
  BY <1>3, <1>4, <1>8 DEF CompileValue, CompileReference, state, scope
<1> QED
  BY <1>6, <1>7, <1>8

LEMMA ReturnInv ==
  TypeOK /\ ScopeInv
    /\ (BuildGroup \/ BuildAlternation \/ BuildLookaround \/ BuildRepetition \/ RestoreMode)
    => ScopeInv'
<1> SUFFICES ASSUME TypeOK, ScopeInv,
                    \/ BuildGroup \/ BuildAlternation \/ BuildLookaround
                    \/ BuildRepetition \/ RestoreMode
             PROVE  ScopeInv'
  OBVIOUS
<1>1. work # <<>> /\ Top.op \in {"build", "restore"}
  BY DEF BuildGroup, BuildAlternation, BuildLookaround, BuildRepetition, RestoreMode,
         Visiting, Returning
<1>2. CASE Fail("UnsupportedRepeatedAssertion")
  BY <1>2, FailInv
<1>3. CASE Continue(<<>>) /\ UNCHANGED <<phase, variables, current_vars>>
  BY <1>1, <1>3, CallFrames, CallsInv
<1> QED
  BY <1>2, <1>3
     DEF BuildGroup, BuildAlternation, BuildLookaround, BuildRepetition, RestoreMode,
         state, scope

-----------------------------------------------------------------------------
(***************************************************************************)
(* The steps that open and close scopes.                                   *)
(***************************************************************************)

\* Two frames take the place of the top, the first of them a scope's.
LEMMA OpensScope ==
  ASSUME TypeOK, work # <<>>, Top.op = "compile", NEW f \in Frame, NEW n \in AnyNode,
         Continue(<<f, Compile(n)>>)
  PROVE  LET k == Len(work) IN
         /\ k \in Nat \ {0}
         /\ Unbindings \cup Expansions \subseteq 1 .. k - 1
         /\ \A i \in 1 .. k - 1 : work'[i] = work[i]
         /\ work'[k] = f
         /\ f.op = "unbind" => Unbindings' = Unbindings \cup {k} /\ Expansions' = Expansions
         /\ f.op = "unexpand" => Expansions' = Expansions \cup {k} /\ Unbindings' = Unbindings
<1> DEFINE k == Len(work)
           fs == <<f, Compile(n)>>
<1>1. fs \in Seq(Frame) /\ Len(fs) = 2 /\ fs[1] = f /\ fs[2].op = "compile"
  BY ShortSequences DEF Compile, Frame
<1>2. /\ k \in Nat \ {0} /\ DOMAIN work = 1 .. k
      /\ DOMAIN work' = 1 .. k - 1 + Len(fs)
      /\ \A i \in 1 .. k - 1 : work'[i] = work[i]
      /\ \A i \in k .. k - 1 + Len(fs) : work'[i] = fs[i - k + 1]
  BY <1>1, Positions
<1>3. DOMAIN work' = 1 .. k + 1 /\ work'[k] = f /\ work'[k + 1] = fs[2]
  <2>1. /\ k - 1 + Len(fs) = k + 1
        /\ k \in k .. k - 1 + Len(fs) /\ k - k + 1 = 1
        /\ k + 1 \in k .. k - 1 + Len(fs) /\ k + 1 - k + 1 = 2
    BY <1>1, <1>2
  <2>2. work'[k] = fs[k - k + 1] /\ work'[k + 1] = fs[k + 1 - k + 1]
    BY <1>2, <2>1
  <2> QED
    BY <1>1, <1>2, <2>1, <2>2
<1>4. work[k].op = "compile"
  BY DEF Top
<1> HIDE DEF k, fs
<1>5. \A i : i \in 1 .. k + 1 <=> i \in 1 .. k - 1 \/ i = k \/ i = k + 1
  BY <1>2
<1>6. \A i : i \in 1 .. k <=> i \in 1 .. k - 1 \/ i = k
  BY <1>2
<1>7. Unbindings \cup Expansions \subseteq 1 .. k - 1
  BY <1>2, <1>4, <1>6 DEF Unbindings, Expansions
<1>8. \A i : i \in Unbindings' <=> i \in Unbindings \/ (i = k /\ f.op = "unbind")
  BY <1>1, <1>2, <1>3, <1>5, <1>6, <1>7 DEF Unbindings
<1>9. \A i : i \in Expansions' <=> i \in Expansions \/ (i = k /\ f.op = "unexpand")
  BY <1>1, <1>2, <1>3, <1>5, <1>6, <1>7 DEF Expansions
<1> QED
  BY <1>2, <1>3, <1>7, <1>8, <1>9 DEF k

\* The top is popped.
LEMMA ClosesScope ==
  ASSUME TypeOK, work # <<>>, Continue(<<>>)
  PROVE  LET k == Len(work) IN
         /\ k \in Nat \ {0} /\ k \in DOMAIN work
         /\ Unbindings \cup Expansions \subseteq 1 .. k
         /\ \A i \in 1 .. k - 1 : work'[i] = work[i]
         /\ Unbindings' = Unbindings \ {k} /\ Expansions' = Expansions \ {k}
<1> DEFINE k == Len(work)
<1>1. <<>> \in Seq(Frame) /\ Len(<<>>) = 0
  BY ShortSequences
<1>2. /\ k \in Nat \ {0} /\ DOMAIN work = 1 .. k
      /\ DOMAIN work' = 1 .. k - 1 + Len(<<>>)
      /\ \A i \in 1 .. k - 1 : work'[i] = work[i]
  BY <1>1, Positions
<1>3. DOMAIN work' = 1 .. k - 1
  BY <1>1, <1>2
<1> HIDE DEF k
<1>4. \A i : i \in 1 .. k - 1 <=> i \in 1 .. k /\ i # k
  BY <1>2
<1>5. \A i : i \in Unbindings' <=> i \in Unbindings /\ i # k
  BY <1>2, <1>3, <1>4 DEF Unbindings
<1>6. \A i : i \in Expansions' <=> i \in Expansions /\ i # k
  BY <1>2, <1>3, <1>4 DEF Expansions
<1>7. Unbindings \cup Expansions \subseteq 1 .. k /\ k \in DOMAIN work
  BY <1>2 DEF Unbindings, Expansions
<1> QED
  BY <1>2, <1>5, <1>6, <1>7 DEF k

LEMMA CompileLetInv == TypeOK /\ ScopeInv /\ CompileLet => ScopeInv'
<1> SUFFICES ASSUME TypeOK, ScopeInv, CompileLet PROVE ScopeInv'
  OBVIOUS
<1> DEFINE n == Top.node
           k == Len(work)
           L == Len(variables)
<1>1. /\ work # <<>> /\ Top.op = "compile" /\ Kind(n) = "let"
      /\ variables' = Append(variables, [name |-> Tag(n), rule |-> Kids(n)[1]])
      /\ Continue(<<Unbind(L + 1), Compile(Kids(n)[2])>>)
      /\ UNCHANGED <<phase, current_vars>>
  BY DEF CompileLet, Visiting
<1>2. phase # "done" /\ Bound /\ Expanded /\ Nested
  BY <1>1 DEF ScopeInv
<1>3. L \in Nat /\ L' = L + 1
  <2>1. n \in Nodes(prog) /\ WellFormed(prog)
    BY <1>1, Compiled, OtherKinds DEF TypeOK
  <2>2. [name |-> Tag(n), rule |-> Kids(n)[1]] \in [name : AnyTag, rule : AnyNode]
    BY <1>1, <2>1, LetKids, NodeTypes DEF AnyNode
  <2> QED
    BY <1>1, <2>2, AppendProperties, LenProperties DEF TypeOK
<1>4. Unbind(L + 1) \in Frame /\ Kids(n)[2] \in AnyNode
  <2>1. n \in Nodes(prog)
    BY <1>1, Compiled, OtherKinds
  <2> QED
    BY <1>1, <1>3, <2>1, LetKids DEF Unbind, Frame, AnyNode, TypeOK
<1>5. /\ k \in Nat \ {0}
      /\ Unbindings \cup Expansions \subseteq 1 .. k - 1
      /\ \A i \in 1 .. k - 1 : work'[i] = work[i]
      /\ work'[k] = Unbind(L + 1)
      /\ Unbindings' = Unbindings \cup {k} /\ Expansions' = Expansions
  BY <1>1, <1>4, OpensScope DEF Unbind
<1>6. work'[k].idx = L + 1
  BY <1>5 DEF Unbind
<1> HIDE DEF k, L
<1>7. \A i \in Unbindings \cup Expansions : work'[i].idx = work[i].idx /\ i < k
  BY <1>5
<1>8. Bound'
  <2>1. {work'[i].idx : i \in Unbindings'} = {work[i].idx : i \in Unbindings} \cup {L + 1}
    BY <1>5, <1>6, <1>7
  <2>2. Len(Builtins) = 6
    BY DEF Builtins
  <2>3. Len(Builtins) <= L /\ {work[i].idx : i \in Unbindings} = 7 .. L
    BY <1>2, <2>2 DEF Bound, L
  <2>4. (7 .. L) \cup {L + 1} = 7 .. L + 1
    BY <1>3, <2>2, <2>3
  <2>5. Len(Builtins') = 6 /\ 6 <= L + 1
    BY <1>3, <2>2, <2>3 DEF Builtins
  <2>6. Len(variables') = L + 1
    BY <1>3 DEF L
  <2>7. {work'[i].idx : i \in Unbindings'} = 7 .. L + 1
    BY <2>1, <2>3, <2>4
  <2> QED
    BY <2>5, <2>6, <2>7 DEF Bound
<1>9. Expanded'
  <2>1. {work'[i].idx : i \in Expansions'} = {work[i].idx : i \in Expansions}
    BY <1>5, <1>7
  <2>2. \A i \in Expansions : work'[i].idx \in 1 .. L + 1
    BY <1>2, <1>3, <1>7 DEF Expanded, L
  <2>3. \A i, j \in Expansions : work'[i].idx = work'[j].idx => i = j
    BY <1>2, <1>7 DEF Expanded
  <2>4. Len(variables') = L + 1
    BY <1>3 DEF L
  <2>5. current_vars' = {work'[i].idx : i \in Expansions'}
    BY <1>1, <1>2, <2>1 DEF Expanded
  <2> QED
    BY <1>5, <2>2, <2>3, <2>4, <2>5 DEF Expanded
<1>10. Nested'
  <2>1. \A i \in Unbindings \cup Expansions : work[i].idx < L + 1
    <3>1. \A i \in Unbindings : work[i].idx \in Len(Builtins) + 1 .. L
      BY <1>2 DEF Bound, L
    <3>2. \A i \in Expansions : work[i].idx \in 1 .. L
      BY <1>2 DEF Expanded, L
    <3> QED
      BY <1>3, <3>1, <3>2
  <2> QED
    BY <1>2, <1>5, <1>6, <1>7, <2>1 DEF Nested
<1> QED
  BY <1>1, <1>2, <1>8, <1>9, <1>10 DEF ScopeInv

\* A let statement that ends has bound the last variable, and it is not being
\* expanded.
LEMMA UnbindsLast ==
  ASSUME TypeOK, ScopeInv, Returning("unbind")
  PROVE  /\ Top.idx = Len(variables) /\ Top.idx \notin current_vars
         /\ Len(Builtins) < Len(variables)
         /\ \A i \in Unbindings \cup Expansions :
              i # Len(work) => i < Len(work) /\ work[i].idx < Len(variables)
<1> DEFINE k == Len(work)
           L == Len(variables)
<1>1. work # <<>> /\ Top = work[k] /\ Top.op = "unbind"
  BY DEF Returning, Top
<1>2. Bound /\ Expanded /\ Nested
  BY <1>1 DEF ScopeInv
<1>3. k \in Nat \ {0} /\ DOMAIN work = 1 .. k /\ L \in Nat
  BY <1>1, LenProperties, EmptySeq DEF TypeOK
<1> HIDE DEF k, L
<1>4. k \in Unbindings /\ k \notin Expansions
  BY <1>1, <1>3 DEF Unbindings, Expansions
<1>5. \A i \in Unbindings \cup Expansions : i # k => i < k
  BY <1>3 DEF Unbindings, Expansions
<1>6. Len(Builtins) = 6 /\ Len(Builtins) <= L /\ {work[i].idx : i \in Unbindings} = 7 .. L
  BY <1>2 DEF Bound, Builtins, L
<1>7. \A i \in Unbindings \cup Expansions : i # k => work[i].idx < work[k].idx
  BY <1>2, <1>4, <1>5 DEF Nested
<1>8. work[k].idx \in 7 .. L
  BY <1>4, <1>6
<1>9. work[k].idx = L
  <2>1. L \in 7 .. L
    BY <1>3, <1>8
  <2>2. PICK j \in Unbindings : work[j].idx = L
    BY <1>6, <2>1
  <2>3. j # k => L < work[k].idx
    BY <1>7, <2>2
  <2> QED
    BY <1>3, <1>8, <2>2, <2>3
<1>10. L \notin current_vars
  <2>1. \A i \in Expansions : work[i].idx < L
    BY <1>4, <1>7, <1>9
  <2>2. \A i \in Expansions : work[i].idx # L
    BY <1>3, <2>1
  <2> QED
    BY <1>2, <2>2 DEF Expanded
<1> QED
  BY <1>1, <1>3, <1>5, <1>6, <1>7, <1>8, <1>9, <1>10 DEF k, L

LEMMA UnbindLetInv == TypeOK /\ ScopeInv /\ UnbindLet => ScopeInv'
<1> SUFFICES ASSUME TypeOK, ScopeInv, UnbindLet PROVE ScopeInv'
  OBVIOUS
<1> DEFINE k == Len(work)
           L == Len(variables)
<1>1. /\ work # <<>> /\ Top = work[k] /\ Top.op = "unbind"
      /\ variables' = SubSeq(variables, 1, L - 1)
      /\ Continue(<<>>) /\ UNCHANGED <<phase, current_vars>>
  BY DEF UnbindLet, Returning, Top
<1>2. phase # "done" /\ Bound /\ Expanded /\ Nested
  BY <1>1 DEF ScopeInv
<1>3. /\ Top.idx = L /\ L \notin current_vars /\ Len(Builtins) < L
      /\ \A i \in Unbindings \cup Expansions : i # k => i < k /\ work[i].idx < L
  BY <1>1, UnbindsLast DEF Returning
<1>4. L \in Nat \ {0} /\ Len(Builtins) = 6 /\ L' = L - 1
  <2> DEFINE V == [name : AnyTag, rule : AnyNode]
  <2>1. variables \in Seq(V)
    BY DEF TypeOK
  <2>2. Len(Builtins) = 6
    BY DEF Builtins
  <2> HIDE DEF V
  <2>3. L - 1 \in Nat /\ L - 1 <= L
    BY <1>3, <2>1, <2>2, LenProperties
  <2>4. Len(SubSeq(variables, 1, L - 1)) = L - 1
    BY <2>1, <2>3, Prefix
  <2>5. L \in Nat \ {0}
    BY <1>3, <2>1, <2>2, LenProperties
  <2> QED
    BY <1>1, <2>2, <2>4, <2>5
<1>5. /\ k \in Nat \ {0} /\ k \in DOMAIN work
      /\ Unbindings \cup Expansions \subseteq 1 .. k
      /\ \A i \in 1 .. k - 1 : work'[i] = work[i]
      /\ Unbindings' = Unbindings \ {k} /\ Expansions' = Expansions \ {k}
  BY <1>1, ClosesScope
<1> HIDE DEF k, L
<1>6. k \in Unbindings /\ k \notin Expansions /\ work[k].idx = L
  BY <1>1, <1>3, <1>5 DEF Unbindings, Expansions
<1>7. \A i \in Unbindings' \cup Expansions' :
        work'[i].idx = work[i].idx /\ work[i].idx < L
  <2>1. \A i \in Unbindings' \cup Expansions' :
          i \in Unbindings \cup Expansions /\ i # k /\ i \in 1 .. k
    BY <1>5, <1>6
  <2>2. \A i \in Unbindings' \cup Expansions' : i \in 1 .. k - 1
    BY <1>5, <2>1
  <2> QED
    BY <1>3, <1>5, <2>1, <2>2
<1>8. Bound'
  <2>1. {work[i].idx : i \in Unbindings} = 7 .. L
    BY <1>2, <1>4 DEF Bound, L
  <2>2. {work'[i].idx : i \in Unbindings'} = {work[i].idx : i \in Unbindings} \ {L}
    <3>1. \A i \in Unbindings' : i \in Unbindings /\ work'[i].idx = work[i].idx /\ work[i].idx # L
      BY <1>4, <1>5, <1>7, <2>1
    <3>2. \A i \in Unbindings : work[i].idx # L => i \in Unbindings'
      BY <1>5, <1>6
    <3> QED
      BY <3>1, <3>2
  <2>3. (7 .. L) \ {L} = 7 .. L - 1
    BY <1>4
  <2>4. Len(Builtins') = 6 /\ 6 <= L - 1
    BY <1>3, <1>4 DEF Builtins
  <2> QED
    BY <1>4, <2>1, <2>2, <2>3, <2>4 DEF Bound, L
<1>9. Expanded'
  <2>1. Expansions' = Expansions /\ \A i \in Expansions : work'[i].idx = work[i].idx
    BY <1>5, <1>6, <1>7
  <2>2. {work'[i].idx : i \in Expansions'} = {work[i].idx : i \in Expansions}
    BY <2>1
  <2>3. \A i \in Expansions : work[i].idx \in 1 .. L - 1
    BY <1>2, <1>4, <1>7, <2>1 DEF Expanded
  <2> QED
    BY <1>1, <1>2, <1>4, <2>1, <2>2, <2>3 DEF Expanded, L
<1>10. Nested'
  BY <1>2, <1>5, <1>7 DEF Nested
<1> QED
  BY <1>1, <1>2, <1>8, <1>9, <1>10 DEF ScopeInv

LEMMA CompileVariableInv == TypeOK /\ ScopeInv /\ CompileVariable => ScopeInv'
<1> SUFFICES ASSUME TypeOK, ScopeInv, CompileVariable PROVE ScopeInv'
  OBVIOUS
<1> DEFINE n == Top.node
           k == Len(work)
<1>1. work # <<>> /\ Top.op = "compile" /\ Kind(n) = "variable"
  BY DEF CompileVariable, Visiting
<1>2. CASE \E e : Fail(e)
  BY <1>2, FailInv
<1>3. ASSUME NEW v \in DOMAIN variables, Resolves(Tag(n), v),
             current_vars' = current_vars \cup {v},
             Continue(<<Unexpand(v, n), Compile(variables[v].rule)>>),
             UNCHANGED <<phase, variables>>
      PROVE  ScopeInv'
  <2>1. phase # "done" /\ Bound /\ Expanded /\ Nested
    BY <1>1 DEF ScopeInv
  <2>2. v \notin current_vars
    BY <1>3 DEF Resolves, Candidates
  <2>3. v \in 1 .. Len(variables) /\ variables[v].rule \in AnyNode
    <3> DEFINE V == [name : AnyTag, rule : AnyNode]
    <3>1. variables \in Seq(V)
      BY DEF TypeOK
    <3> HIDE DEF V
    <3>2. v \in 1 .. Len(variables) /\ variables[v] \in V
      BY <3>1, LenProperties, ElementOfSeq
    <3> QED
      BY <3>2 DEF V
  <2>4. Unexpand(v, n) \in Frame
    <3>1. n \in Nodes(prog)
      BY <1>1, Compiled, OtherKinds
    <3>2. v \in Nat
      BY <2>3, LenProperties DEF TypeOK
    <3> QED
      BY <3>1, <3>2 DEF Unexpand, Frame
  <2>5. /\ k \in Nat \ {0}
        /\ Unbindings \cup Expansions \subseteq 1 .. k - 1
        /\ \A i \in 1 .. k - 1 : work'[i] = work[i]
        /\ work'[k] = Unexpand(v, n)
        /\ Expansions' = Expansions \cup {k} /\ Unbindings' = Unbindings
    BY <1>1, <1>3, <2>3, <2>4, OpensScope DEF Unexpand
  <2>6. work'[k].idx = v
    BY <2>5 DEF Unexpand
  <2> HIDE DEF k
  <2>7. \A i \in Unbindings \cup Expansions : work'[i].idx = work[i].idx /\ i < k
    BY <2>5
  <2>8. Bound'
    <3>1. {work'[i].idx : i \in Unbindings'} = {work[i].idx : i \in Unbindings}
      BY <2>5, <2>7
    <3> QED
      BY <1>3, <2>1, <3>1 DEF Bound, Builtins
  <2>9. Expanded'
    <3>1. {work'[i].idx : i \in Expansions'} = {work[i].idx : i \in Expansions} \cup {v}
      BY <2>5, <2>6, <2>7
    <3>2. \A i \in Expansions : work[i].idx # v
      BY <2>1, <2>2 DEF Expanded
    <3>3. \A i, j \in Expansions' : work'[i].idx = work'[j].idx => i = j
      BY <2>1, <2>5, <2>6, <2>7, <3>2 DEF Expanded
    <3>4. \A i \in Expansions' : work'[i].idx \in 1 .. Len(variables)
      BY <2>1, <2>3, <2>5, <2>6, <2>7 DEF Expanded
    <3> QED
      BY <1>3, <2>1, <3>1, <3>3, <3>4 DEF Expanded
  <2>10. Nested'
    <3>1. \A j \in Unbindings : j < k /\ ~(k < j)
      BY <2>5, <2>7
    <3> QED
      BY <2>1, <2>5, <2>7, <3>1 DEF Nested
  <2> QED
    BY <1>3, <2>1, <2>8, <2>9, <2>10 DEF ScopeInv
<1> QED
  BY <1>2, <1>3 DEF CompileVariable

LEMMA UnexpandVariableInv == TypeOK /\ ScopeInv /\ UnexpandVariable => ScopeInv'
<1> SUFFICES ASSUME TypeOK, ScopeInv, UnexpandVariable PROVE ScopeInv'
  OBVIOUS
<1> DEFINE k == Len(work)
<1>1. /\ work # <<>> /\ Top = work[k] /\ Top.op = "unexpand"
      /\ current_vars' = current_vars \ {Top.idx}
      /\ Continue(<<>>) /\ UNCHANGED <<phase, variables>>
  BY DEF UnexpandVariable, Returning, Top
<1>2. phase # "done" /\ Bound /\ Expanded /\ Nested
  BY <1>1 DEF ScopeInv
<1>3. /\ k \in Nat \ {0} /\ k \in DOMAIN work
      /\ Unbindings \cup Expansions \subseteq 1 .. k
      /\ \A i \in 1 .. k - 1 : work'[i] = work[i]
      /\ Unbindings' = Unbindings \ {k} /\ Expansions' = Expansions \ {k}
  BY <1>1, ClosesScope
<1> HIDE DEF k
<1>4. k \in Expansions /\ k \notin Unbindings
  BY <1>1, <1>3 DEF Unbindings, Expansions
<1>5. \A i \in Unbindings' \cup Expansions' : work'[i].idx = work[i].idx
  <2>1. \A i \in 1 .. k : i # k => i \in 1 .. k - 1
    BY <1>3
  <2> QED
    BY <1>3, <2>1
<1>6. Bound'
  <2>1. {work'[i].idx : i \in Unbindings'} = {work[i].idx : i \in Unbindings}
    BY <1>3, <1>4, <1>5
  <2> QED
    BY <1>1, <1>2, <2>1 DEF Bound, Builtins
<1>7. Expanded'
  <2>1. \A i \in Expansions : i # k => work[i].idx # work[k].idx
    BY <1>2, <1>4 DEF Expanded
  <2>2. {work'[i].idx : i \in Expansions'} = {work[i].idx : i \in Expansions} \ {work[k].idx}
    <3>1. \A i \in Expansions' : i \in Expansions /\ i # k /\ work'[i].idx = work[i].idx
      BY <1>3, <1>5
    <3>2. \A i \in Expansions : i # k => i \in Expansions'
      BY <1>3
    <3> QED
      BY <1>4, <2>1, <3>1, <3>2
  <2>3. current_vars' = {work'[i].idx : i \in Expansions'}
    BY <1>1, <1>2, <2>2 DEF Expanded
  <2>4. \A i \in Expansions' : i \in Expansions /\ work'[i].idx = work[i].idx
    BY <1>3, <1>5
  <2> QED
    BY <1>1, <1>2, <2>3, <2>4 DEF Expanded
<1>8. Nested'
  BY <1>2, <1>3, <1>5 DEF Nested
<1> QED
  BY <1>1, <1>2, <1>6, <1>7, <1>8 DEF ScopeInv

-----------------------------------------------------------------------------

LEMMA ScopeInitially == Init => ScopeInv
<1> SUFFICES ASSUME Init PROVE ScopeInv
  OBVIOUS
<1>1. /\ phase = "validate" /\ work = <<Validate(1)>>
      /\ variables = Builtins /\ current_vars = {}
  BY DEF Init, NewCompileState
<1>2. Unbindings = {} /\ Expansions = {}
  BY <1>1 DEF Unbindings, Expansions, Validate
<1>3. Len(Builtins) = 6
  BY DEF Builtins
<1> QED
  BY <1>1, <1>2, <1>3 DEF ScopeInv, Bound, Expanded, Nested

LEMMA ScopeStep == TypeOK /\ ScopeInv /\ [Next]_vars => ScopeInv'
<1>1. TypeOK /\ ScopeInv /\ UNCHANGED vars => ScopeInv'
  BY DEF vars, state, scope, ScopeInv, Bound, Expanded, Nested, Unbindings, Expansions
<1>2. Returned => UNCHANGED vars
  BY DEF Returned
<1> QED
  BY <1>1, <1>2, ValidateInv, CollectInv, PassInv, CompileInv, ReturnInv, CompileLetInv,
     UnbindLetInv, CompileVariableInv, UnexpandVariableInv
  DEF Next

\* The bindings and expansions that run form the nested structure of ScopeInv.
THEOREM ScopeInvariant == Spec => []ScopeInv
<1>1. Init => ScopeInv
  BY ScopeInitially
<1>2. TypeOK /\ ScopeInv /\ [Next]_vars => ScopeInv'
  BY ScopeStep
<1> QED
  BY <1>1, <1>2, TypeInvariant, PTL DEF Spec

\* When StmtExpr::compile pops a variable it is the one it has pushed, and the
\* index it frees is not in current_vars.
THEOREM PopMatchesPushHolds == Spec => []PopMatchesPush
<1>1. TypeOK /\ ScopeInv => PopMatchesPush
  BY UnbindsLast DEF PopMatchesPush
<1> QED
  BY <1>1, TypeInvariant, ScopeInvariant, PTL

\* current_vars is the set of the variables that are being expanded, each of
\* them once: the depth of the expansions is bounded by that of the bindings.
THEOREM ExpansionsTrackedHolds == Spec => []ExpansionsTracked
<1>1. TypeOK /\ ScopeInv => ExpansionsTracked
  <2> SUFFICES ASSUME TypeOK, ScopeInv, phase = "compile" PROVE ExpansionsTracked
    BY DEF ExpansionsTracked
  <2>1. Expanded
    BY DEF ScopeInv
  <2>2. DOMAIN variables = 1 .. Len(variables)
    BY LenProperties DEF TypeOK
  <2> QED
    BY <2>1, <2>2 DEF Expanded, ExpansionsTracked
<1> QED
  BY <1>1, TypeInvariant, ScopeInvariant, PTL

-----------------------------------------------------------------------------
(***************************************************************************)
(* The calls of a visit.                                                   *)
(***************************************************************************)

\* The frames for the parts of a node: the last part is at the bottom, above f.
LEMMA PartFrames ==
  ASSUME TypeOK, NEW n \in Nodes(prog), NEW f \in Frame
  PROVE  LET fs == <<f>> \o CompileAll(Kids(n)) IN
         /\ fs \in Seq(Frame) /\ Len(fs) = Len(Kids(n)) + 1 /\ fs[1] = f
         /\ \A k \in 2 .. Len(fs) :
              \E i \in 1 .. Len(Kids(n)) : fs[k] = Compile(Kids(n)[i])
<1> DEFINE cs == CompileAll(Kids(n))
           fs == <<f>> \o cs
<1>1. /\ Kids(n) \in Seq(Nodes(prog)) /\ Len(Kids(n)) \in Nat
      /\ DOMAIN Kids(n) = 1 .. Len(Kids(n))
  BY Subtree DEF TypeOK
<1>2. fs \in Seq(Frame)
  BY CompileFrames DEF AnyNode
<1>3. \A m \in Nodes(prog) : Compile(m) \in Frame
  BY DEF Compile, Frame, AnyNode
<1>4. cs \in Seq(Frame)
  BY <1>1, <1>3, Visits
<1>5. Len(cs) = Len(Kids(n))
  <2>1. DOMAIN cs = 1 .. Len(Kids(n))
    BY <1>1 DEF CompileAll
  <2>2. DOMAIN cs = 1 .. Len(cs) /\ Len(cs) \in Nat
    BY <1>4, LenProperties
  <2> HIDE DEF cs
  <2> QED
    BY <1>1, <2>1, <2>2
<1>6. \A k \in 1 .. Len(Kids(n)) : cs[k] = Compile(Kids(n)[Len(Kids(n)) + 1 - k])
  BY <1>1 DEF CompileAll
<1> HIDE DEF cs
<1>7. /\ Len(fs) = Len(Kids(n)) + 1 /\ fs[1] = f
      /\ \A k \in 2 .. Len(fs) : fs[k] = cs[k - 1]
  <2>1. <<f>> \in Seq(Frame) /\ Len(<<f>>) = 1
    BY ShortSequences
  <2> QED
    BY <1>1, <1>4, <1>5, <2>1, ConcatProperties
<1> HIDE DEF fs
<1>8. ASSUME NEW k \in 2 .. Len(fs)
      PROVE  \E i \in 1 .. Len(Kids(n)) : fs[k] = Compile(Kids(n)[i])
  <2>1. k - 1 \in 1 .. Len(Kids(n)) /\ Len(Kids(n)) + 1 - (k - 1) \in 1 .. Len(Kids(n))
    BY <1>1, <1>7
  <2>2. fs[k] = cs[k - 1] /\ cs[k - 1] = Compile(Kids(n)[Len(Kids(n)) + 1 - (k - 1)])
    BY <1>6, <1>7, <2>1
  <2> QED
    BY <2>1, <2>2
<1> QED
  BY <1>2, <1>7, <1>8 DEF fs, cs

\* What the frames that were left behind do when they are on top again.
LEMMA StepReturns ==
  ASSUME TypeOK, Passes, ReturnStep, ~Failing
  PROVE  /\ work # <<>> /\ Top.op \in CompileOps \ {"compile"} /\ phase = "compile"
         /\ UNCHANGED <<input, phase>> /\ Continue(<<>>)
         /\ \/ Top.op = "build" /\ UNCHANGED scope
            \/ /\ Top.op = "restore" /\ default_quantifier' = Top.quantifier
               /\ UNCHANGED <<variables, current_vars>>
            \/ /\ Top.op = "unbind" /\ variables' = SubSeq(variables, 1, Len(variables) - 1)
               /\ UNCHANGED <<default_quantifier, current_vars>>
            \/ /\ Top.op = "unexpand" /\ current_vars' = current_vars \ {Top.idx}
               /\ UNCHANGED <<default_quantifier, variables>>
<1>1. /\ work # <<>> /\ Top.op \in CompileOps \ {"compile"} /\ phase = "compile"
      /\ UNCHANGED <<input, phase>> /\ Continue(<<>>)
  BY ReturnWalks, PassOfTop
<1>2. ~Fail("UnsupportedRepeatedAssertion")
  BY DEF Failing, Ok
<1> QED
  BY <1>1, <1>2 DEF ReturnStep, BuildGroup, BuildAlternation, BuildLookaround, BuildRepetition,
     RestoreMode, UnbindLet, UnexpandVariable, Visiting, Returning, state, scope

-----------------------------------------------------------------------------
(***************************************************************************)
(* Mode statements.                                                        *)
(***************************************************************************)

ModesOf(p, n) == {m \in Nodes(p) : KindOf(p, m) \in ModeKinds /\ m < n /\ n <= p.last[m]}

\* The quantifier that the innermost mode statement around a node asks for.
ModeAt(p, n) ==
  IF ModesOf(p, n) # {} /\ KindOf(p, Max(ModesOf(p, n))) = "enable" THEN "Lazy" ELSE "Greedy"

\* The quantifier that is in force when frame i is on top again is q.
InForce(frames, quantifier, i, q) ==
  /\ (\A j \in i + 1 .. Len(frames) : frames[j].op # "restore") => quantifier = q
  /\ \A j \in i + 1 .. Len(frames) :
       /\ frames[j].op = "restore"
       /\ \A k \in i + 1 .. j - 1 : frames[k].op # "restore"
       => frames[j].quantifier = q

\* A call for a node that is not in the rule of a let.
LiveCall(p, f) ==
  f.op \in {"compile", "build"} /\ f.node \in Nodes(p) /\ Live(p, f.node)

QuantInv ==
  \A i \in DOMAIN work :
    LiveCall(prog, work[i]) => InForce(work, default_quantifier, i, ModeAt(prog, work[i].node))

LEMMA Greatest ==
  ASSUME WellFormed(prog), NEW S, S \subseteq Nodes(prog)
  PROVE  /\ \A x \in S : (\A y \in S : y <= x) => Max(S) = x
         /\ S # {} => Max(S) \in S /\ \A y \in S : y <= Max(S)
<1>1. Nodes(prog) \subseteq Int
  BY DEF Nodes
<1>2. ASSUME NEW x \in S, \A y \in S : y <= x
      PROVE  Max(S) = x
  <2>1. Max(S) \in S /\ \A y \in S : Max(S) >= y
    BY <1>1, <1>2 DEF Max
  <2> QED
    BY <1>1, <1>2, <2>1
<1>3. ASSUME S # {}
      PROVE  \E x \in S : \A y \in S : y <= x
  <2> DEFINE D == {prog.size - x : x \in S}
  <2>1. prog.size \in Nat /\ \A x \in S : x \in Int /\ prog.size - x \in Nat
    BY DEF WellFormed, Nodes
  <2>2. D \subseteq Nat /\ D # {}
    BY <1>3, <2>1
  <2>3. PICK d \in D : \A e \in D : d <= e
    BY <2>2, LeastElement
  <2>4. PICK x \in S : d = prog.size - x
    BY <2>3
  <2>5. ASSUME NEW y \in S PROVE y <= x
    BY <2>1, <2>3, <2>4
  <2> QED
    BY <2>4, <2>5
<1> QED
  BY <1>2, <1>3

LEMMA ModeOfKid ==
  ASSUME WellFormed(prog), NEW n \in Nodes(prog), NEW i \in 1 .. Len(Kids(n))
  PROVE  ModeAt(prog, Kids(n)[i]) =
           IF Kind(n) \in ModeKinds THEN (IF Kind(n) = "enable" THEN "Lazy" ELSE "Greedy")
           ELSE ModeAt(prog, n)
<1> DEFINE c == Kids(n)[i]
           around == ModesOf(prog, n)
           inner == ModesOf(prog, c)
<1>1. /\ c \in Nodes(prog) /\ c \in Nat /\ n \in Nat /\ n < c
      /\ c <= prog.last[c] /\ prog.last[c] <= prog.last[n]
      /\ prog.last[c] \in Nat /\ prog.last[n] \in Nat
  BY KidsSpan, Subtree DEF Nodes
<1>2. ASSUME NEW m \in inner PROVE (m = n /\ Kind(n) \in ModeKinds) \/ m \in around
  <2>1. /\ m \in Nodes(prog) /\ m < c /\ c <= prog.last[m] /\ KindOf(prog, m) \in ModeKinds
        /\ m \in Nat /\ prog.last[m] \in Nat
    BY <1>2, Subtree DEF ModesOf, Nodes
  <2>2. m <= n /\ prog.last[n] <= prog.last[m]
    BY <2>1, SubtreeOfParent
  <2> QED
    BY <1>1, <2>1, <2>2 DEF ModesOf, Kind
<1>3. ASSUME NEW m \in around PROVE m \in inner /\ m < n
  <2>1. /\ m \in Nodes(prog) /\ m < n /\ n <= prog.last[m] /\ KindOf(prog, m) \in ModeKinds
        /\ m \in Nat /\ prog.last[m] \in Nat
    BY <1>3, Subtree DEF ModesOf, Nodes
  <2>2. n \in Span(prog, m)
    BY <1>1, <2>1 DEF Span
  <2>3. prog.last[n] <= prog.last[m]
    BY <2>1, <2>2, SubtreesNest
  <2>4. m < c /\ c <= prog.last[m]
    BY <1>1, <2>1, <2>3
  <2> QED
    BY <1>1, <2>1, <2>4 DEF ModesOf
<1>4. inner \subseteq Nodes(prog)
  BY DEF ModesOf
<1>5. CASE Kind(n) \in ModeKinds
  <2>1. n \in inner
    BY <1>1, <1>5 DEF ModesOf, Kind
  <2>2. \A m \in inner : m <= n
    <3>1. \A m \in inner : m \in Nat
      BY <1>4 DEF Nodes
    <3> QED
      BY <1>1, <1>2, <1>3, <3>1
  <2>3. Max(inner) = n
    BY <1>4, <2>1, <2>2, Greatest
  <2> QED
    BY <1>5, <2>1, <2>3 DEF ModeAt, Kind
<1>6. CASE Kind(n) \notin ModeKinds
  <2>1. inner = around
    BY <1>2, <1>3, <1>6
  <2> QED
    BY <1>6, <2>1 DEF ModeAt
<1> QED
  BY <1>5, <1>6

\* Frames below the top keep their quantifier.
LEMMA InForceKept ==
  ASSUME TypeOK, work # <<>>, NEW fs \in Seq(Frame), Continue(fs),
         \/ /\ Top.op # "restore" /\ UNCHANGED default_quantifier
            /\ \A k \in 1 .. Len(fs) : fs[k].op # "restore"
         \/ Top.op # "restore" /\ Len(fs) # 0 /\ fs[1] = Restore(default_quantifier)
         \/ Top.op = "restore" /\ default_quantifier' = Top.quantifier /\ Len(fs) = 0,
         NEW i \in 1 .. Len(work) - 1, NEW q, InForce(work, default_quantifier, i, q)
  PROVE  InForce(work', default_quantifier', i, q)
<1> DEFINE l == Len(work)
           l2 == Len(work')
<1>1. /\ l \in Nat \ {0} /\ Len(fs) \in Nat /\ l2 = l - 1 + Len(fs)
      /\ \A j \in 1 .. l - 1 : work'[j] = work[j]
      /\ \A j \in l .. l2 : work'[j] = fs[j - l + 1] /\ j - l + 1 \in 1 .. Len(fs)
  <2>1. /\ l \in Nat \ {0} /\ Len(fs) \in Nat /\ DOMAIN work' = 1 .. l - 1 + Len(fs)
        /\ \A j \in 1 .. l - 1 : work'[j] = work[j]
        /\ \A j \in l .. l - 1 + Len(fs) : work'[j] = fs[j - l + 1]
    BY Positions
  <2>2. l2 = l - 1 + Len(fs)
    BY Replaced DEF TypeOK, Continue, Rest
  <2> HIDE DEF l, l2
  <2>3. \A j \in l .. l2 : j - l + 1 \in 1 .. Len(fs)
    BY <2>1, <2>2
  <2> QED
    BY <2>1, <2>2, <2>3
<1>2. Top = work[l] /\ i \in Nat /\ i < l
  BY <1>1 DEF Top
<1> HIDE DEF l, l2
<1>3. CASE \E j \in i + 1 .. l - 1 : work[j].op = "restore"
  <2> SUFFICES ASSUME NEW j \in i + 1 .. l2, work'[j].op = "restore",
                      \A k \in i + 1 .. j - 1 : work'[k].op # "restore"
               PROVE  work'[j].quantifier = q
    <3>1. PICK j \in i + 1 .. l - 1 : work[j].op = "restore"
      BY <1>3
    <3>2. j \in i + 1 .. l2 /\ work'[j].op = "restore"
      BY <1>1, <3>1
    <3> QED
      BY <3>2 DEF InForce, l2
  <2>1. j \in i + 1 .. l - 1
    <3> SUFFICES ASSUME j \notin i + 1 .. l - 1 PROVE FALSE
      OBVIOUS
    <3>1. PICK k \in i + 1 .. l - 1 : work[k].op = "restore"
      BY <1>3
    <3>2. k \in i + 1 .. j - 1 /\ work'[k] = work[k]
      BY <1>1, <3>1
    <3> QED
      BY <3>1, <3>2
  <2>2. work'[j] = work[j] /\ \A k \in i + 1 .. j - 1 : work'[k] = work[k]
    BY <1>1, <2>1
  <2>3. j \in i + 1 .. l
    BY <1>1, <2>1
  <2> QED
    BY <2>2, <2>3 DEF InForce, l
<1>4. CASE /\ \A j \in i + 1 .. l - 1 : work[j].op # "restore"
           /\ Top.op # "restore"
  <2>1. default_quantifier = q
    <3>1. \A j \in i + 1 .. l : work[j].op # "restore"
      BY <1>1, <1>2, <1>4
    <3> QED
      BY <3>1 DEF InForce, l
  <2>2. \A j \in i + 1 .. l - 1 : work'[j].op # "restore"
    BY <1>1, <1>4
  <2>3. CASE /\ UNCHANGED default_quantifier
             /\ \A k \in 1 .. Len(fs) : fs[k].op # "restore"
    <3>1. \A j \in i + 1 .. l2 : work'[j].op # "restore"
      <4> SUFFICES ASSUME NEW j \in i + 1 .. l2 PROVE work'[j].op # "restore"
        OBVIOUS
      <4>1. j \in i + 1 .. l - 1 \/ j \in l .. l2
        BY <1>1
      <4> QED
        BY <1>1, <2>2, <2>3, <4>1
    <3> QED
      BY <2>1, <2>3, <3>1 DEF InForce, l2
  <2>4. CASE Len(fs) # 0 /\ fs[1] = Restore(default_quantifier)
    <3>1. l \in i + 1 .. l2 /\ work'[l] = fs[1]
      <4>1. l \in i + 1 .. l2 /\ l \in l .. l2 /\ l - l + 1 = 1
        BY <1>1, <1>2, <2>4
      <4> QED
        BY <1>1, <4>1
    <3>2. work'[l].op = "restore" /\ work'[l].quantifier = q
      BY <2>1, <2>4, <3>1 DEF Restore
    <3>3. ASSUME NEW j \in i + 1 .. l2, work'[j].op = "restore",
                 \A k \in i + 1 .. j - 1 : work'[k].op # "restore"
          PROVE  j = l
      <4>1. ~(j \in i + 1 .. l - 1)
        BY <2>2, <3>3
      <4>2. ~(l \in i + 1 .. j - 1)
        BY <3>2, <3>3
      <4> QED
        BY <1>1, <3>1, <4>1, <4>2
    <3> QED
      BY <3>1, <3>2, <3>3 DEF InForce, l2
  <2> QED
    BY <1>4, <2>3, <2>4
<1>5. CASE /\ \A j \in i + 1 .. l - 1 : work[j].op # "restore"
           /\ Top.op = "restore"
  <2>1. default_quantifier' = Top.quantifier /\ Len(fs) = 0
    BY <1>5
  <2>2. Top.quantifier = q
    <3>1. l \in i + 1 .. l
      BY <1>1, <1>2
    <3> QED
      BY <1>2, <1>5, <3>1 DEF InForce, l
  <2>3. l2 = l - 1
    BY <1>1, <2>1
  <2>4. \A j \in i + 1 .. l2 : work'[j].op # "restore"
    BY <1>1, <1>5, <2>3
  <2> QED
    BY <2>1, <2>2, <2>4 DEF InForce, l2
<1> QED
  BY <1>3, <1>4, <1>5

\* A step with a new quantifier for the frames that it pushes.
LEMMA QuantVisit ==
  ASSUME TypeOK, QuantInv, work # <<>>, UNCHANGED input, NEW fs \in Seq(Frame), Continue(fs),
         \/ /\ Top.op # "restore" /\ UNCHANGED default_quantifier
            /\ \A k \in 1 .. Len(fs) : fs[k].op # "restore"
         \/ Top.op # "restore" /\ Len(fs) # 0 /\ fs[1] = Restore(default_quantifier)
         \/ Top.op = "restore" /\ default_quantifier' = Top.quantifier /\ Len(fs) = 0,
         \A k \in 2 .. Len(fs) : fs[k].op # "restore",
         \A k \in 1 .. Len(fs) :
           LiveCall(prog, fs[k]) => default_quantifier' = ModeAt(prog, fs[k].node)
  PROVE  QuantInv'
<1> DEFINE l == Len(work)
           l2 == Len(work')
<1>1. /\ l \in Nat \ {0} /\ Len(fs) \in Nat /\ l2 = l - 1 + Len(fs)
      /\ DOMAIN work' = 1 .. l2 /\ DOMAIN work = 1 .. l
      /\ \A j \in 1 .. l - 1 : work'[j] = work[j]
      /\ \A j \in l .. l2 : work'[j] = fs[j - l + 1] /\ j - l + 1 \in 1 .. Len(fs)
  <2>1. /\ l \in Nat \ {0} /\ Len(fs) \in Nat /\ DOMAIN work' = 1 .. l - 1 + Len(fs)
        /\ DOMAIN work = 1 .. l
        /\ \A j \in 1 .. l - 1 : work'[j] = work[j]
        /\ \A j \in l .. l - 1 + Len(fs) : work'[j] = fs[j - l + 1]
    BY Positions
  <2>2. l2 = l - 1 + Len(fs)
    BY Replaced DEF TypeOK, Continue, Rest
  <2> HIDE DEF l, l2
  <2>3. \A j \in l .. l2 : j - l + 1 \in 1 .. Len(fs)
    BY <2>1, <2>2
  <2> QED
    BY <2>1, <2>2, <2>3
<1>2. prog' = prog
  BY DEF input
<1>3. \A i \in 1 .. l - 1 : \A q : InForce(work, default_quantifier, i, q)
                                      => InForce(work', default_quantifier', i, q)
  BY InForceKept
<1> HIDE DEF l
<1> SUFFICES ASSUME NEW i \in 1 .. l2, LiveCall(prog, work'[i])
             PROVE  InForce(work', default_quantifier', i, ModeAt(prog, work'[i].node))
  BY <1>1, <1>2 DEF QuantInv
<1>4. CASE i \in 1 .. l - 1
  <2>1. work'[i] = work[i] /\ i \in DOMAIN work
    BY <1>1, <1>4
  <2>2. InForce(work, default_quantifier, i, ModeAt(prog, work[i].node))
    BY <2>1 DEF QuantInv
  <2> QED
    BY <1>3, <1>4, <2>1, <2>2
<1>5. CASE i \in l .. l2
  <2> DEFINE k == i - l + 1
  <2>1. work'[i] = fs[k] /\ k \in 1 .. Len(fs)
    BY <1>1, <1>5
  <2>2. default_quantifier' = ModeAt(prog, work'[i].node)
    BY <2>1
  <2>3. \A j \in i + 1 .. l2 : work'[j].op # "restore"
    <3> SUFFICES ASSUME NEW j \in i + 1 .. l2 PROVE work'[j].op # "restore"
      OBVIOUS
    <3>1. j \in l .. l2 /\ j - l + 1 \in 2 .. Len(fs)
      BY <1>1, <1>5
    <3> QED
      BY <1>1, <3>1
  <2> QED
    BY <2>2, <2>3 DEF InForce
<1> QED
  BY <1>1, <1>4, <1>5

LEMMA QuantStep == TypeOK /\ Passes /\ QuantInv /\ [Next]_vars => QuantInv'
<1> SUFFICES ASSUME TypeOK, Passes, QuantInv, [Next]_vars PROVE QuantInv'
  OBVIOUS
<1> DEFINE n == Top.node
<1>1. UNCHANGED input /\ prog' = prog /\ WellFormed(prog)
  BY InputKept DEF input, TypeOK
<1>2. CASE UNCHANGED vars
  BY <1>2 DEF vars, state, scope, input, QuantInv
<1>3. CASE work' \in Seq(FramesOf({"collect"})) \/ work' \in Seq(FramesOf({"validate"})) \/ work' = <<>>
  <2>1. \A i \in DOMAIN work' : work'[i].op \notin {"compile", "build"}
    BY <1>3, ElementOfSeq, LenProperties DEF FramesOf
  <2> QED
    BY <2>1 DEF QuantInv, LiveCall
<1>4. CASE Failing \/ Finish
  BY <1>3, <1>4 DEF Failing, Fail, Finish
<1>5. CASE ValidateRule \/ BeginCollect \/ CollectStep
  <2>1. Passes'
    BY PassesStep
  <2>2. phase' \in {"validate", "collect", "done"}
    <3>1. ValidateRule => work # <<>> /\ Top.op = "validate" /\ phase' \in {phase, "done"}
      BY DEF ValidateRule, Visiting, Fail
    <3>2. CollectStep => work # <<>> /\ Top.op = "collect" /\ phase' \in {phase, "done"}
      BY CollectWalks DEF Failing, Fail
    <3> QED
      BY <1>5, <3>1, <3>2, PassOfTop DEF BeginCollect
  <2> QED
    BY <1>1, <1>3, <2>1, <2>2 DEF Passes, FramesOf, Frame, AnyNode
<1>6. CASE BeginCompile
  <2>1. /\ work' = <<Compile(1)>> /\ default_quantifier' = "Greedy"
    BY <1>6 DEF BeginCompile, Passes, state, scope
  <2>2. ModesOf(prog, 1) = {}
    BY DEF ModesOf, Nodes
  <2>3. ModeAt(prog, 1) = "Greedy"
    BY <2>2 DEF ModeAt
  <2>4. Len(work') = 1 /\ DOMAIN work' = {1} /\ work'[1].node = 1
    BY <2>1 DEF Compile
  <2> QED
    BY <1>1, <2>1, <2>3, <2>4 DEF QuantInv, InForce
<1>7. CASE VisitStep /\ ~Failing
  <2>1. /\ work # <<>> /\ Top.op = "compile" /\ n \in AnyNode
        /\ Kind(n) \notin ValueKinds => n \in Nodes(prog)
        /\ LeafVisit \/ PartsVisit \/ ModeVisit \/ LetVisit \/ VariableVisit
    BY <1>7, StepCalls
  <2>2. LiveCall(prog, Top) => default_quantifier = ModeAt(prog, n)
    <3>1. Len(work) \in DOMAIN work /\ Len(work) \in Nat
      BY <2>1, LenProperties DEF TypeOK
    <3>2. \A j \in Len(work) + 1 .. Len(work) : FALSE
      BY <3>1
    <3> QED
      BY <3>1, <3>2 DEF QuantInv, InForce, Top
  <2>3. CASE LeafVisit
    <3> DEFINE fs == <<>>
    <3>1. fs \in Seq(Frame) /\ Len(fs) = 0
      OBVIOUS
    <3>2. Continue(fs) /\ UNCHANGED default_quantifier
      BY <2>3 DEF LeafVisit, scope
    <3> HIDE DEF fs
    <3>3. (\A k \in 1 .. Len(fs) : FALSE) /\ (\A k \in 2 .. Len(fs) : FALSE)
      BY <3>1
    <3>4. Top.op # "restore"
      BY <2>1
    <3> QED
      BY <1>1, <2>1, <3>1, <3>2, <3>3, <3>4, QuantVisit
  <2>4. \A i \in 1 .. Len(Kids(n)) : n \in Nodes(prog) /\ LiveCall(prog, Compile(Kids(n)[i]))
          => LiveCall(prog, Top)
    <3> SUFFICES ASSUME NEW i \in 1 .. Len(Kids(n)), n \in Nodes(prog),
                        Live(prog, Kids(n)[i])
                 PROVE  Live(prog, n)
      BY <2>1 DEF LiveCall, Compile
    <3>1. /\ Kids(n)[i] \in Nat /\ prog.last[Kids(n)[i]] \in Nat /\ n \in Nat
          /\ prog.last[n] \in Nat
          /\ n < Kids(n)[i] /\ Kids(n)[i] <= prog.last[Kids(n)[i]]
          /\ prog.last[Kids(n)[i]] <= prog.last[n]
      BY <1>1, KidsSpan, Subtree DEF Nodes
    <3>2. Kids(n)[i] \in Span(prog, n)
      BY <3>1 DEF Span
    <3> QED
      BY <1>1, <3>2, LiveParts
  <2>5. CASE PartsVisit
    <3> DEFINE fs == <<Build(n)>> \o CompileAll(Kids(n))
    <3>1. n \in Nodes(prog) /\ Kind(n) \notin ModeKinds /\ Build(n) \in Frame
      BY <2>1, <2>5, OtherKinds DEF PartsVisit, PartKinds, GroupKinds, LookaroundKinds,
         ModeKinds, Build, Frame
    <3>2. /\ fs \in Seq(Frame) /\ Len(fs) = Len(Kids(n)) + 1 /\ fs[1] = Build(n)
          /\ \A k \in 2 .. Len(fs) : \E i \in 1 .. Len(Kids(n)) : fs[k] = Compile(Kids(n)[i])
      BY <3>1, PartFrames
    <3>3. Continue(fs) /\ UNCHANGED default_quantifier
      BY <2>5 DEF PartsVisit, scope
    <3> HIDE DEF fs
    <3>4. \A k \in 1 .. Len(fs) : k = 1 \/ k \in 2 .. Len(fs)
      OBVIOUS
    <3>5. \A k \in 1 .. Len(fs) : fs[k].op # "restore"
      <4>1. fs[1].op # "restore"
        BY <3>2 DEF Build
      <4>2. ASSUME NEW k \in 2 .. Len(fs) PROVE fs[k].op # "restore"
        <5>1. PICK i \in 1 .. Len(Kids(n)) : fs[k] = Compile(Kids(n)[i])
          BY <3>2
        <5> QED
          BY <5>1 DEF Compile
      <4> QED
        BY <3>4, <4>1, <4>2
    <3>6. ASSUME NEW k \in 1 .. Len(fs), LiveCall(prog, fs[k])
          PROVE  default_quantifier = ModeAt(prog, fs[k].node)
      <4>1. CASE k = 1
        BY <2>1, <2>2, <3>2, <3>6, <4>1 DEF Build, LiveCall
      <4>2. CASE k \in 2 .. Len(fs)
        <5>1. PICK i \in 1 .. Len(Kids(n)) : fs[k] = Compile(Kids(n)[i])
          BY <3>2, <4>2
        <5>2. ModeAt(prog, Kids(n)[i]) = ModeAt(prog, n)
          BY <1>1, <3>1, ModeOfKid
        <5>3. default_quantifier = ModeAt(prog, n)
          BY <2>2, <2>4, <3>1, <3>6, <5>1
        <5> QED
          BY <5>1, <5>2, <5>3 DEF Compile
      <4> QED
        BY <3>4, <4>1, <4>2
    <3>7. \A k \in 2 .. Len(fs) : fs[k].op # "restore"
      BY <3>5
    <3> QED
      BY <1>1, <2>1, <3>2, <3>3, <3>5, <3>6, <3>7, QuantVisit
  <2>6. CASE ModeVisit
    <3> DEFINE f == Restore(default_quantifier)
               fs == <<f>> \o CompileAll(Kids(n))
    <3>1. n \in Nodes(prog) /\ Kind(n) \in ModeKinds /\ f \in Frame
      BY <2>1, <2>6, OtherKinds DEF ModeVisit, Restore, Frame, TypeOK
    <3>2. /\ fs \in Seq(Frame) /\ Len(fs) = Len(Kids(n)) + 1 /\ fs[1] = f
          /\ \A k \in 2 .. Len(fs) : \E i \in 1 .. Len(Kids(n)) : fs[k] = Compile(Kids(n)[i])
      BY <3>1, PartFrames
    <3>3. /\ Continue(fs)
          /\ default_quantifier' = IF Kind(n) = "enable" THEN "Lazy" ELSE "Greedy"
      BY <2>6 DEF ModeVisit
    <3> HIDE DEF fs
    <3>4. (\A k \in 1 .. Len(fs) : k = 1 \/ k \in 2 .. Len(fs)) /\ Len(fs) # 0
      <4>1. Len(Kids(n)) \in Nat
        BY <1>1, <3>1, Subtree
      <4> QED
        BY <3>2, <4>1
    <3>5. ASSUME NEW k \in 1 .. Len(fs), LiveCall(prog, fs[k])
          PROVE  default_quantifier' = ModeAt(prog, fs[k].node)
      <4>1. k # 1
        BY <3>2, <3>5 DEF Restore, LiveCall
      <4>2. PICK i \in 1 .. Len(Kids(n)) : fs[k] = Compile(Kids(n)[i])
        BY <3>2, <3>4, <4>1
      <4>3. ModeAt(prog, Kids(n)[i]) = IF Kind(n) = "enable" THEN "Lazy" ELSE "Greedy"
        BY <1>1, <3>1, ModeOfKid
      <4> QED
        BY <3>3, <4>2, <4>3 DEF Compile
    <3>6. ASSUME NEW k \in 2 .. Len(fs) PROVE fs[k].op # "restore"
      <4>1. PICK i \in 1 .. Len(Kids(n)) : fs[k] = Compile(Kids(n)[i])
        BY <3>2
      <4> QED
        BY <4>1 DEF Compile
    <3> QED
      BY <1>1, <2>1, <3>2, <3>3, <3>4, <3>5, <3>6, QuantVisit
  <2>7. ASSUME NEW f \in Frame, NEW r \in AnyNode, Continue(<<f, Compile(r)>>),
               UNCHANGED default_quantifier, f.op \notin {"compile", "build", "restore"},
               LiveCall(prog, Compile(r)) => default_quantifier = ModeAt(prog, r)
        PROVE  QuantInv'
    <3> DEFINE fs == <<f, Compile(r)>>
    <3>1. fs \in Seq(Frame) /\ Len(fs) = 2 /\ fs[1] = f /\ fs[2] = Compile(r)
      BY ShortSequences DEF Compile, Frame
    <3>2. Continue(fs) /\ \A k \in 1 .. Len(fs) : k = 1 \/ k = 2
      BY <2>7, <3>1
    <3> HIDE DEF fs
    <3>3. /\ \A k \in 1 .. Len(fs) : fs[k].op # "restore"
          /\ \A k \in 2 .. Len(fs) : fs[k].op # "restore"
      BY <2>7, <3>1, <3>2 DEF Compile
    <3>4. \A k \in 1 .. Len(fs) :
            LiveCall(prog, fs[k]) => default_quantifier' = ModeAt(prog, fs[k].node)
      BY <2>7, <3>1, <3>2 DEF Compile, LiveCall
    <3> QED
      BY <1>1, <2>1, <2>7, <3>1, <3>2, <3>3, <3>4, QuantVisit
  <2>8. CASE LetVisit
    <3>1. n \in Nodes(prog) /\ Kind(n) = "let" /\ Kind(n) \notin ModeKinds
      BY <2>1, <2>8, OtherKinds DEF LetVisit, ModeKinds
    <3>2. Len(Kids(n)) = 2 /\ Kids(n)[2] \in Nodes(prog) /\ Kids(n)[2] \in AnyNode
      <4>1. Kids(n)[2] \in Nodes(prog) /\ Kids(n) = prog.kids[n] /\ prog.label[n].kind = "let"
        BY <1>1, <3>1, LetKids, ProgramNodes
      <4>2. Len(prog.kids[n]) = 2
        BY <1>1, <3>1, <4>1 DEF WellFormed, Arity
      <4> QED
        BY <4>1, <4>2 DEF AnyNode
    <3>3. Unbind(Len(variables) + 1) \in Frame
      <4>1. Len(variables) + 1 \in Nat
        BY LenProperties DEF TypeOK
      <4> QED
        BY <4>1 DEF Unbind, Frame
    <3>4. LiveCall(prog, Compile(Kids(n)[2])) => default_quantifier = ModeAt(prog, Kids(n)[2])
      BY <1>1, <2>2, <2>4, <3>1, <3>2, ModeOfKid
    <3> QED
      BY <2>7, <2>8, <3>2, <3>3, <3>4 DEF LetVisit, Unbind
  <2>9. CASE VariableVisit
    <3>1. n \in Nodes(prog)
      BY <2>1, <2>9, OtherKinds DEF VariableVisit
    <3>2. PICK i \in 1 .. Len(variables) :
            /\ variables[i] \in BoundTo(prog)
            /\ Continue(<<Unexpand(i, n), Compile(variables[i].rule)>>)
      BY <2>9 DEF VariableVisit
    <3>3. Unexpand(i, n) \in Frame
      <4>1. i \in Nat
        BY LenProperties DEF TypeOK
      <4> QED
        BY <3>1, <4>1 DEF Unexpand, Frame
    <3> DEFINE r == variables[i].rule
    <3>4. r \in AnyNode /\ Open(prog, Compile(r)) = {}
      BY <1>1, <3>2, RuleNotLive
    <3> HIDE DEF r
    <3>5. ~LiveCall(prog, Compile(r))
      <4> SUFFICES ASSUME r \in Nodes(prog), Live(prog, r) PROVE FALSE
        BY DEF LiveCall, Compile
      <4>1. r \in Open(prog, Compile(r))
        BY <1>1, Subtree DEF Open, Compile, Span, Nodes
      <4> QED
        BY <3>4, <4>1
    <3>6. UNCHANGED default_quantifier
      BY <2>9 DEF VariableVisit
    <3> QED
      BY <2>7, <3>2, <3>3, <3>4, <3>5, <3>6 DEF r, Unexpand
  <2> QED
    BY <2>1, <2>3, <2>5, <2>6, <2>8, <2>9
<1>8. CASE ReturnStep /\ ~Failing
  <2> DEFINE fs == <<>>
  <2>1. /\ work # <<>> /\ Continue(fs) /\ fs \in Seq(Frame) /\ Len(fs) = 0
        /\ \/ Top.op # "restore" /\ UNCHANGED default_quantifier
           \/ Top.op = "restore" /\ default_quantifier' = Top.quantifier
    BY <1>8, StepReturns DEF scope
  <2> HIDE DEF fs
  <2>2. (\A k \in 1 .. Len(fs) : FALSE) /\ (\A k \in 2 .. Len(fs) : FALSE)
    BY <2>1
  <2> QED
    BY <1>1, <2>1, <2>2, QuantVisit
<1>9. CASE Returned
  BY <1>2, <1>9 DEF Returned
<1> QED
  BY <1>2, <1>4, <1>5, <1>6, <1>7, <1>8, <1>9
     DEF Next, CollectStep, VisitStep, ReturnStep

\* The quantifier that a repetition in the source asks for.
Wanted(p, n) == LET tag == LabelOf(p, n).tag IN IF tag \in Quantifiers THEN tag ELSE ModeAt(p, n)

QuantTokens ==
  \A i \in DOMAIN out :
    KindOf(prog, out[i].node) = "repetition" /\ Live(prog, out[i].node) =>
      out[i].form = Wanted(prog, out[i].node)

LEMMA QuantTokensStep ==
  TypeOK /\ Passes /\ QuantInv /\ QuantTokens /\ [Next]_vars => QuantTokens'
<1> SUFFICES ASSUME TypeOK, Passes, QuantInv, QuantTokens, [Next]_vars PROVE QuantTokens'
  OBVIOUS
<1> DEFINE n == Top.node
<1>1. prog' = prog
  BY InputKept DEF input
<1>2. CASE UNCHANGED out
  BY <1>1, <1>2 DEF QuantTokens
<1>3. CASE ValidateRule \/ BeginCollect \/ CollectStep \/ BeginCompile \/ Finish \/ Returned
           \/ UNCHANGED vars \/ Failing
  BY <1>2, <1>3 DEF ValidateRule, BeginCollect, CollectStep, BeginCompile, CollectCapture,
     CollectReference, CollectLet, CollectOther, Fail, Failing, Finish, Returned, emitted, vars
<1>4. CASE (VisitStep \/ ReturnStep) /\ ~Failing
  <2>1. work # <<>>
    BY <1>4, StepCalls, StepReturns
  <2>2. ASSUME NEW number, NEW form, Emit(n, number, form),
               Kind(n) = "repetition" => /\ Top.op = "build" /\ form = QuantifierOf(n)
        PROVE  QuantTokens'
    <3> DEFINE t == [node |-> n, number |-> number, form |-> form]
    <3>1. out' = Append(out, t) /\ t.node = n /\ t.form = form
      BY <2>2 DEF Emit
    <3> HIDE DEF t
    <3>2. /\ \A i \in DOMAIN out : out'[i] = out[i]
          /\ \A i \in DOMAIN out' : i \in DOMAIN out \/ i = Len(out) + 1
          /\ out'[Len(out) + 1] = t
      BY <1>1, <3>1, Appended
    <3>3. ASSUME Kind(n) = "repetition", Live(prog, n) PROVE form = Wanted(prog, n)
      <4>1. n \in Nodes(prog) /\ LiveCall(prog, Top)
        BY <2>1, <2>2, <3>3, TopFrame DEF LiveCall
      <4>2. default_quantifier = ModeAt(prog, n)
        <5>1. Len(work) \in DOMAIN work /\ Len(work) \in Nat
          BY <2>1, LenProperties DEF TypeOK
        <5>2. \A j \in Len(work) + 1 .. Len(work) : FALSE
          BY <5>1
        <5> QED
          BY <4>1, <5>1, <5>2 DEF QuantInv, InForce, Top
      <4> QED
        BY <2>2, <3>3, <4>2 DEF QuantifierOf, Wanted, Tag
    <3> HIDE DEF n
    <3> QED
      BY <1>1, <3>1, <3>2, <3>3 DEF QuantTokens, Kind
  <2> HIDE DEF n
  <2>3. "repetition" \notin ReferenceKinds \cup {"capture"}
    BY DEF ReferenceKinds
  <2>4. CASE UNCHANGED <<out, next_idx>>
    BY <1>2, <2>4
  <2> QED
    BY <1>4, <2>2, <2>3, <2>4, StepEmits DEF n
<1> QED
  BY <1>3, <1>4 DEF Next, CollectStep, VisitStep, ReturnStep

\* StmtExpr::compile restores the quantifier after a mode statement: a repetition
\* without a quantifier has that of the innermost mode around it.
THEOREM QuantifiersScoped == Spec => []QuantifierScoping
<1>1. Init => QuantInv /\ QuantTokens
  <2> SUFFICES ASSUME Init PROVE QuantInv /\ QuantTokens
    OBVIOUS
  <2>1. DOMAIN work = {1} /\ work[1].op = "validate" /\ DOMAIN out = {}
    BY DEF Init, Validate
  <2> QED
    BY <2>1 DEF QuantInv, QuantTokens, LiveCall
<1>2. TypeOK /\ Passes /\ QuantInv /\ QuantTokens /\ [Next]_vars => (QuantInv /\ QuantTokens)'
  BY QuantStep, QuantTokensStep
<1>3. QuantTokens => QuantifierScoping
  <2> SUFFICES ASSUME QuantTokens, NEW i \in DOMAIN out,
                      Kind(out[i].node) = "repetition", Live(prog, out[i].node)
               PROVE  out[i].form =
                        IF Tag(out[i].node) \in Quantifiers THEN Tag(out[i].node)
                        ELSE IF /\ Modes(out[i].node) # {}
                                /\ Kind(Max(Modes(out[i].node))) = "enable" THEN "Lazy"
                        ELSE "Greedy"
    BY DEF QuantifierScoping, Live
  <2>1. Modes(out[i].node) = ModesOf(prog, out[i].node)
    BY DEF Modes, ModesOf, Kind
  <2>2. out[i].form = Wanted(prog, out[i].node)
    BY DEF QuantTokens, Kind
  <2> QED
    BY <2>1, <2>2 DEF Wanted, ModeAt, Tag, Kind
<1> QED
  BY <1>1, <1>2, <1>3, OwnFrames, PTL DEF Spec

-----------------------------------------------------------------------------
(***************************************************************************)
(* Variables and the rules that are compiled in their place.               *)
(***************************************************************************)

LEMMA StackStep ==
  ASSUME TypeOK, work # <<>>, NEW fs \in Seq(Frame), Continue(fs)
  PROVE  /\ Len(work) \in Nat \ {0} /\ Len(fs) \in Nat /\ DOMAIN work = 1 .. Len(work)
         /\ \A j \in DOMAIN work' :
              \/ j \in 1 .. Len(work) - 1 /\ j \in DOMAIN work /\ work'[j] = work[j]
              \/ \E k \in 1 .. Len(fs) : j = Len(work) - 1 + k /\ work'[j] = fs[k]
         /\ \A j \in 1 .. Len(work) - 1 : j \in DOMAIN work' /\ work'[j] = work[j]
         /\ \A k \in 1 .. Len(fs) :
              Len(work) - 1 + k \in DOMAIN work' /\ work'[Len(work) - 1 + k] = fs[k]
<1> DEFINE l == Len(work)
<1>1. /\ l \in Nat \ {0} /\ DOMAIN work = 1 .. l /\ Len(fs) \in Nat
      /\ DOMAIN work' = 1 .. l - 1 + Len(fs)
      /\ \A i \in 1 .. l - 1 : work'[i] = work[i]
      /\ \A i \in l .. l - 1 + Len(fs) : work'[i] = fs[i - l + 1]
  BY Positions
<1> HIDE DEF l
<1>2. ASSUME NEW j \in DOMAIN work', j \notin 1 .. l - 1
      PROVE  \E k \in 1 .. Len(fs) : j = l - 1 + k /\ work'[j] = fs[k]
  <2> DEFINE k == j - l + 1
  <2>1. k \in 1 .. Len(fs) /\ j = l - 1 + k /\ j \in l .. l - 1 + Len(fs)
    BY <1>1, <1>2
  <2> QED
    BY <1>1, <2>1
<1>3. ASSUME NEW k \in 1 .. Len(fs)
      PROVE  l - 1 + k \in DOMAIN work' /\ work'[l - 1 + k] = fs[k]
  <2>1. l - 1 + k \in l .. l - 1 + Len(fs) /\ (l - 1 + k) - l + 1 = k
        /\ l - 1 + k \in 1 .. l - 1 + Len(fs)
    BY <1>1
  <2> QED
    BY <1>1, <2>1
<1>4. \A j \in 1 .. l - 1 : j \in DOMAIN work' /\ j \in DOMAIN work
  BY <1>1
<1> QED
  BY <1>1, <1>2, <1>3, <1>4 DEF l

\* A visit of anything but a let statement or a variable compiles parts of it.
KidsVisit(fs) ==
  /\ Continue(fs)
  /\ \A k \in 1 .. Len(fs) :
       /\ fs[k].op \notin {"unexpand", "unbind"}
       /\ fs[k].op = "compile" =>
            /\ Top.node \in Nodes(prog) /\ Kind(Top.node) # "let"
            /\ \E i \in 1 .. Len(Kids(Top.node)) : fs[k].node = Kids(Top.node)[i]
  /\ UNCHANGED <<variables, current_vars>>

LEMMA VisitCalls ==
  ASSUME TypeOK, Passes, VisitStep, ~Failing
  PROVE  (\E fs \in Seq(Frame) : KidsVisit(fs)) \/ LetVisit \/ VariableVisit
<1> DEFINE n == Top.node
<1>1. /\ n \in AnyNode /\ (Kind(n) \notin ValueKinds => n \in Nodes(prog))
      /\ LeafVisit \/ PartsVisit \/ ModeVisit \/ LetVisit \/ VariableVisit
  BY StepCalls
<1>2. CASE LeafVisit
  <2> DEFINE fs == <<>>
  <2>1. fs \in Seq(Frame) /\ Len(fs) = 0 /\ Continue(fs) /\ UNCHANGED <<variables, current_vars>>
    BY <1>2 DEF LeafVisit, scope
  <2> HIDE DEF fs
  <2>2. \A k \in 1 .. Len(fs) : FALSE
    BY <2>1
  <2> QED
    BY <2>1, <2>2 DEF KidsVisit
<1>3. ASSUME NEW f \in Frame, f.op \in {"build", "restore"}, Kind(n) \in PartKinds \cup ModeKinds,
             Continue(<<f>> \o CompileAll(Kids(n))), UNCHANGED <<variables, current_vars>>
      PROVE  \E fs \in Seq(Frame) : KidsVisit(fs)
  <2> DEFINE fs == <<f>> \o CompileAll(Kids(n))
  <2>1. n \in Nodes(prog) /\ Kind(n) # "let"
    BY <1>1, <1>3, OtherKinds DEF PartKinds, GroupKinds, LookaroundKinds, ModeKinds
  <2>2. /\ fs \in Seq(Frame) /\ Len(fs) = Len(Kids(n)) + 1 /\ fs[1] = f
        /\ \A k \in 2 .. Len(fs) : \E i \in 1 .. Len(Kids(n)) : fs[k] = Compile(Kids(n)[i])
    BY <2>1, PartFrames
  <2>3. Continue(fs)
    BY <1>3
  <2> HIDE DEF fs
  <2>4. ASSUME NEW k \in 1 .. Len(fs)
        PROVE  /\ fs[k].op \notin {"unexpand", "unbind"}
               /\ fs[k].op = "compile" => \E i \in 1 .. Len(Kids(n)) : fs[k].node = Kids(n)[i]
    <3>1. CASE k = 1
      BY <1>3, <2>2, <3>1
    <3>2. CASE k # 1
      <4>1. k \in 2 .. Len(fs)
        BY <3>2
      <4>2. PICK i \in 1 .. Len(Kids(n)) : fs[k] = Compile(Kids(n)[i])
        BY <2>2, <4>1
      <4> QED
        BY <4>2 DEF Compile
    <3> QED
      BY <3>1, <3>2
  <2> QED
    BY <1>3, <2>1, <2>2, <2>3, <2>4 DEF KidsVisit
<1>4. CASE PartsVisit
  <2>1. Kind(n) \in PartKinds /\ n \in Nodes(prog)
    BY <1>1, <1>4, OtherKinds DEF PartsVisit, PartKinds
  <2>2. Build(n) \in Frame /\ Build(n).op = "build"
    BY <2>1 DEF Build, Frame
  <2> QED
    BY <1>3, <1>4, <2>1, <2>2 DEF PartsVisit, scope
<1>5. CASE ModeVisit
  <2>1. Restore(default_quantifier) \in Frame /\ Restore(default_quantifier).op = "restore"
    BY DEF Restore, Frame, TypeOK
  <2> QED
    BY <1>3, <1>5, <2>1 DEF ModeVisit
<1> QED
  BY <1>1, <1>2, <1>4, <1>5

\* The two frames of a let statement or of a variable.
LEMMA ScopeFrames ==
  ASSUME TypeOK, work # <<>>, NEW f \in Frame, NEW r \in AnyNode, Continue(<<f, Compile(r)>>)
  PROVE  /\ Len(work) \in Nat \ {0} /\ DOMAIN work = 1 .. Len(work)
         /\ DOMAIN work' = 1 .. Len(work) + 1
         /\ \A j \in 1 .. Len(work) - 1 : j \in DOMAIN work /\ work'[j] = work[j]
         /\ work'[Len(work)] = f /\ work'[Len(work) + 1] = Compile(r)
<1> DEFINE l == Len(work)
           fs == <<f, Compile(r)>>
<1>1. fs \in Seq(Frame) /\ Len(fs) = 2 /\ fs[1] = f /\ fs[2] = Compile(r)
  BY ShortSequences DEF Compile, Frame
<1>2. Continue(fs)
  OBVIOUS
<1> HIDE DEF fs
<1>3. /\ l \in Nat \ {0} /\ DOMAIN work = 1 .. l
      /\ DOMAIN work' = 1 .. l - 1 + Len(fs)
      /\ \A i \in 1 .. l - 1 : work'[i] = work[i]
      /\ \A i \in l .. l - 1 + Len(fs) : work'[i] = fs[i - l + 1]
  BY <1>1, <1>2, Positions
<1> HIDE DEF l
<1>4. /\ l - 1 + Len(fs) = l + 1 /\ l - l + 1 = 1 /\ (l + 1) - l + 1 = 2
      /\ l \in l .. l - 1 + Len(fs) /\ l + 1 \in l .. l - 1 + Len(fs)
      /\ \A i \in 1 .. l - 1 : i \in 1 .. l
  BY <1>1, <1>3
<1>5. work'[l] = fs[1] /\ work'[l + 1] = fs[2]
  BY <1>3, <1>4
<1> QED
  BY <1>1, <1>3, <1>4, <1>5 DEF l

-----------------------------------------------------------------------------
(***************************************************************************)
(* What is compiled while a variable is expanded is a part of the rule of  *)
(* a let, and uses only names that the variable's name depends on.         *)
(***************************************************************************)

\* Ways to number the names such that each is defined by ones with lower numbers.
Decreasing(p) ==
  {d \in [Names -> Int] :
     \A l, v \in Nodes(p) :
       /\ p.label[l].kind = "let" /\ p.label[l].tag \in Names
       /\ p.label[v].kind = "variable" /\ p.label[v].tag \in Names
       /\ l < v /\ v < p.kids[l][2]
       => d[p.label[v].tag] < d[p.label[l].tag]}

Below(p, n, d, bound) ==
  \A v \in Span(p, n) :
    p.label[v].kind = "variable" /\ p.label[v].tag \in Names => d[p.label[v].tag] < bound

\* Node n may be compiled while the variable u is expanded.
Within(p, u, n) ==
  n \in Nodes(p) =>
    /\ InLetRule(p, n)
    /\ p.label[u].tag \in Names
    /\ \A d \in Decreasing(p) : Below(p, n, d, d[p.label[u].tag])

ExpandedInv ==
  \A j, k \in DOMAIN work :
    j < k /\ work[j].op = "unexpand" /\ work[k].op = "compile" =>
      Within(prog, work[j].node, work[k].node)

LEMMA WithinKid ==
  ASSUME WellFormed(prog), NEW u, NEW n \in Nodes(prog), Within(prog, u, n),
         NEW i \in 1 .. Len(Kids(n))
  PROVE  Within(prog, u, Kids(n)[i])
<1> DEFINE c == Kids(n)[i]
<1>1. /\ c \in Nodes(prog) /\ c \in Nat /\ n \in Nat /\ n < c
      /\ c <= prog.last[c] /\ prog.last[c] <= prog.last[n]
      /\ prog.last[c] \in Nat /\ prog.last[n] \in Nat
  BY KidsSpan, Subtree DEF Nodes
<1>2. c \in Span(prog, n) /\ Span(prog, c) \subseteq Span(prog, n)
  BY <1>1 DEF Span
<1>3. InLetRule(prog, c)
  BY <1>2, LiveParts DEF Within, Live
<1>4. /\ n \in Nodes(prog) /\ prog.label[u].tag \in Names
      /\ \A d \in Decreasing(prog) : Below(prog, n, d, d[prog.label[u].tag])
  BY DEF Within
<1>5. \A d \in Decreasing(prog) : Below(prog, c, d, d[prog.label[u].tag])
  BY <1>2, <1>4 DEF Below
<1> HIDE DEF c
<1> QED
  BY <1>3, <1>4, <1>5 DEF Within, c

LEMMA WithinRule ==
  ASSUME WellFormed(prog), NEW n \in Nodes(prog), Kind(n) = "variable",
         NEW b \in BoundTo(prog), b.name = Tag(n)
  PROVE  /\ Within(prog, n, b.rule)
         /\ \A u : Within(prog, u, n) => Within(prog, u, b.rule)
<1> DEFINE r == b.rule
<1>1. CASE r \notin Nodes(prog)
  BY <1>1 DEF Within
<1>2. CASE r \in Nodes(prog)
  <2>1. PICK l \in Nodes(prog) : Kind(l) = "let" /\ r = Kids(l)[1] /\ b.name = Tag(l)
    BY <1>2, RuleNotLive, ProgramNodes
  <2>2. /\ Tag(l) \in Names /\ prog.label[l].kind = "let" /\ prog.label[l].tag = Tag(l)
        /\ prog.label[n].tag = Tag(l) /\ prog.label[n].kind = "variable"
        /\ Kids(l) = prog.kids[l] /\ Len(Kids(l)) = 2
    BY <2>1, LetKids, ProgramNodes DEF WellFormed, Arity
  <2>3. 1 \in 1 .. Len(Kids(l)) /\ 2 \in 1 .. Len(Kids(l)) /\ 1 < 2
    BY <2>2
  <2>4. /\ l < r /\ prog.last[r] < prog.kids[l][2] /\ r <= prog.last[r]
        /\ l \in Nat /\ r \in Nat /\ prog.last[r] \in Nat /\ prog.kids[l][2] \in Nat
    <3>1. l < r /\ r <= prog.last[r] /\ prog.kids[l][2] \in Nodes(prog)
      BY <2>1, <2>2, <2>3, KidsSpan
    <3>2. prog.last[r] < prog.kids[l][2]
      BY <2>1, <2>2, <2>3, KidsDisjoint
    <3>3. l \in Nat /\ r \in Nat /\ prog.last[r] \in Nat
      BY <1>2, Subtree DEF Nodes
    <3> QED
      BY <3>1, <3>2, <3>3 DEF Nodes
  <2>5. InLetRule(prog, r)
    BY <2>1, <2>2, <2>4 DEF InLetRule
  <2>6. ASSUME NEW d \in Decreasing(prog), NEW v \in Span(prog, r),
               prog.label[v].kind = "variable", prog.label[v].tag \in Names
        PROVE  d[prog.label[v].tag] < d[Tag(l)]
    <3>1. v \in Nodes(prog) /\ l < v /\ v < prog.kids[l][2]
      <4>1. v \in Nodes(prog)
        BY <1>2, SubtreesNest
      <4> QED
        BY <2>4, <4>1 DEF Span, Nodes
    <3> QED
      BY <2>2, <2>6, <3>1 DEF Decreasing
  <2>7. Within(prog, n, r)
    BY <2>2, <2>5, <2>6 DEF Within, Below
  <2>8. ASSUME NEW u, Within(prog, u, n) PROVE Within(prog, u, r)
    <3>1. n \in Span(prog, n)
      BY Subtree DEF Span, Nodes
    <3>2. prog.label[u].tag \in Names
      BY <2>8 DEF Within
    <3>3. \A d \in Decreasing(prog) : d[Tag(l)] < d[prog.label[u].tag]
      BY <2>2, <2>8, <3>1 DEF Within, Below
    <3>4. \A d \in Decreasing(prog) : \A x \in Names : d[x] \in Int
      BY DEF Decreasing
    <3>5. ASSUME NEW d \in Decreasing(prog), NEW v \in Span(prog, r),
                 prog.label[v].kind = "variable", prog.label[v].tag \in Names
          PROVE  d[prog.label[v].tag] < d[prog.label[u].tag]
      <4>1. /\ d[prog.label[v].tag] < d[Tag(l)] /\ d[Tag(l)] < d[prog.label[u].tag]
            /\ d[prog.label[v].tag] \in Int /\ d[Tag(l)] \in Int
            /\ d[prog.label[u].tag] \in Int
        BY <2>2, <2>6, <3>2, <3>3, <3>4, <3>5
      <4> QED
        BY <4>1
    <3> QED
      BY <2>5, <3>2, <3>5 DEF Within, Below
  <2> QED
    BY <2>7, <2>8
<1> QED
  BY <1>1, <1>2

LEMMA ExpandedStep == TypeOK /\ Passes /\ ExpandedInv /\ [Next]_vars => ExpandedInv'
<1> SUFFICES ASSUME TypeOK, Passes, ExpandedInv, [Next]_vars PROVE ExpandedInv'
  OBVIOUS
<1> DEFINE n == Top.node
           l == Len(work)
<1>1. prog' = prog /\ WellFormed(prog)
  BY InputKept DEF input, TypeOK
<1>2. CASE UNCHANGED vars
  BY <1>2 DEF vars, input, ExpandedInv
<1>3. CASE phase' \in {"validate", "collect", "done"}
  <2>1. Passes'
    BY PassesStep
  <2>2. \/ work' \in Seq(FramesOf({"validate"}))' \/ work' \in Seq(FramesOf({"collect"}))'
        \/ work' = <<>>
    BY <1>3, <2>1 DEF Passes
  <2>3. \A j \in DOMAIN work' : work'[j].op # "unexpand"
    BY <2>2, ElementOfSeq, LenProperties DEF FramesOf
  <2> QED
    BY <2>3 DEF ExpandedInv
<1>4. CASE BeginCompile
  <2>1. DOMAIN work' = {1} /\ \A j, k \in {1} : ~(j < k)
    BY <1>4 DEF BeginCompile
  <2> QED
    BY <2>1 DEF ExpandedInv
<1>5. CASE VisitStep /\ ~Failing
  <2>1. /\ work # <<>> /\ Top.op = "compile"
        /\ (Kind(n) \notin ValueKinds => n \in Nodes(prog))
    BY <1>5, StepCalls
  <2>2. \A j \in 1 .. l - 1 : work[j].op = "unexpand" => Within(prog, work[j].node, n)
    <3>1. l \in DOMAIN work /\ l \in Nat /\ DOMAIN work = 1 .. l
      BY <2>1, LenProperties DEF TypeOK
    <3> QED
      BY <2>1, <3>1 DEF ExpandedInv, Top
  <2>3. ASSUME NEW fs \in Seq(Frame), KidsVisit(fs) PROVE ExpandedInv'
    <3>1. /\ l \in Nat \ {0} /\ Len(fs) \in Nat
          /\ \A j \in DOMAIN work' :
               \/ j \in 1 .. l - 1 /\ j \in DOMAIN work /\ work'[j] = work[j]
               \/ \E k \in 1 .. Len(fs) : j = l - 1 + k /\ work'[j] = fs[k]
      BY <2>1, <2>3, StackStep DEF KidsVisit
    <3> HIDE DEF l
    <3> SUFFICES ASSUME NEW j \in DOMAIN work', NEW k \in DOMAIN work', j < k,
                        work'[j].op = "unexpand", work'[k].op = "compile"
                 PROVE  Within(prog, work'[j].node, work'[k].node)
      BY <1>1 DEF ExpandedInv
    <3>2. j \in 1 .. l - 1 /\ j \in DOMAIN work /\ work'[j] = work[j]
      BY <2>3, <3>1 DEF KidsVisit
    <3>3. CASE k \in DOMAIN work /\ work'[k] = work[k]
      BY <3>2, <3>3 DEF ExpandedInv
    <3>4. CASE \E m \in 1 .. Len(fs) : work'[k] = fs[m]
      <4>1. PICK m \in 1 .. Len(fs) : work'[k] = fs[m]
        BY <3>4
      <4>2. PICK i \in 1 .. Len(Kids(n)) : fs[m].node = Kids(n)[i] /\ n \in Nodes(prog)
        BY <2>3, <4>1 DEF KidsVisit
      <4>3. Within(prog, work[j].node, n)
        BY <2>2, <3>2
      <4> QED
        BY <1>1, <3>2, <4>1, <4>2, <4>3, WithinKid
    <3> QED
      BY <3>1, <3>3, <3>4
  <2>4. ASSUME NEW f \in Frame, NEW r \in AnyNode, Continue(<<f, Compile(r)>>),
               f.op # "compile",
               \A j \in 1 .. l - 1 : work[j].op = "unexpand" => Within(prog, work[j].node, r),
               f.op = "unexpand" => Within(prog, f.node, r)
        PROVE  ExpandedInv'
    <3>1. /\ l \in Nat \ {0} /\ DOMAIN work' = 1 .. l + 1
          /\ \A j \in 1 .. l - 1 : j \in DOMAIN work /\ work'[j] = work[j]
          /\ work'[l] = f /\ work'[l + 1] = Compile(r)
      BY <2>1, <2>4, ScopeFrames
    <3>2. \A j \in DOMAIN work' : j \in 1 .. l - 1 \/ j = l \/ j = l + 1
      BY <3>1
    <3> HIDE DEF l
    <3> SUFFICES ASSUME NEW j \in DOMAIN work', NEW k \in DOMAIN work', j < k,
                        work'[j].op = "unexpand", work'[k].op = "compile"
                 PROVE  Within(prog, work'[j].node, work'[k].node)
      BY <1>1 DEF ExpandedInv
    <3>3. CASE k \in 1 .. l - 1
      <4>1. j \in 1 .. l - 1
        BY <3>1, <3>2, <3>3
      <4> QED
        BY <3>1, <3>3, <4>1 DEF ExpandedInv
    <3>4. CASE k = l + 1
      <4>1. j \in 1 .. l - 1 \/ j = l
        BY <3>1, <3>2, <3>4
      <4> QED
        BY <2>4, <3>1, <3>4, <4>1 DEF Compile
    <3>5. k # l
      BY <2>4, <3>1
    <3> QED
      BY <3>2, <3>3, <3>4, <3>5
  <2>5. CASE LetVisit
    <3>1. n \in Nodes(prog) /\ Kind(n) = "let"
      BY <2>1, <2>5, OtherKinds DEF LetVisit
    <3>2. Kids(n)[2] \in AnyNode /\ 2 \in 1 .. Len(Kids(n))
      <4>1. Kids(n)[2] \in Nodes(prog) /\ Kids(n) = prog.kids[n] /\ prog.label[n].kind = "let"
        BY <1>1, <3>1, LetKids, ProgramNodes
      <4>2. Len(prog.kids[n]) = 2
        BY <1>1, <3>1, <4>1 DEF WellFormed, Arity
      <4> QED
        BY <4>1, <4>2 DEF AnyNode
    <3>3. Unbind(Len(variables) + 1) \in Frame /\ Unbind(Len(variables) + 1).op = "unbind"
      <4>1. Len(variables) + 1 \in Nat
        BY LenProperties DEF TypeOK
      <4> QED
        BY <4>1 DEF Unbind, Frame
    <3>4. \A u : Within(prog, u, n) => Within(prog, u, Kids(n)[2])
      BY <1>1, <3>1, <3>2, WithinKid
    <3> QED
      BY <2>2, <2>4, <2>5, <3>2, <3>3, <3>4 DEF LetVisit
  <2>6. CASE VariableVisit
    <3>1. n \in Nodes(prog) /\ Kind(n) = "variable"
      BY <2>1, <2>6, OtherKinds DEF VariableVisit
    <3>2. PICK i \in 1 .. Len(variables) :
            /\ variables[i] \in BoundTo(prog) /\ Resolves(Tag(n), i)
            /\ Continue(<<Unexpand(i, n), Compile(variables[i].rule)>>)
      BY <2>6 DEF VariableVisit
    <3>3. variables[i].name = Tag(n)
      BY <3>2 DEF Resolves, Candidates, Bindings
    <3>4. Unexpand(i, n) \in Frame
      <4>1. i \in Nat
        BY LenProperties DEF TypeOK
      <4> QED
        BY <3>1, <4>1 DEF Unexpand, Frame
    <3> DEFINE b == variables[i]
    <3>5. b.rule \in AnyNode
      BY <1>1, <3>2, RuleNotLive
    <3>6. Within(prog, n, b.rule) /\ \A u : Within(prog, u, n) => Within(prog, u, b.rule)
      BY <1>1, <3>1, <3>2, <3>3, WithinRule
    <3> HIDE DEF b
    <3> QED
      BY <2>2, <2>4, <3>2, <3>4, <3>5, <3>6 DEF b, Unexpand
  <2> QED
    BY <1>5, <2>3, <2>5, <2>6, VisitCalls
<1>6. CASE ReturnStep /\ ~Failing
  <2> DEFINE fs == <<>>
  <2>1. work # <<>> /\ Continue(fs) /\ fs \in Seq(Frame) /\ Len(fs) = 0
    BY <1>6, StepReturns
  <2> HIDE DEF fs
  <2>2. \A k \in 1 .. Len(fs) : FALSE
    BY <2>1
  <2>3. \A j \in DOMAIN work' : j \in DOMAIN work /\ work'[j] = work[j]
    BY <2>1, <2>2, StackStep
  <2> QED
    BY <1>1, <2>3 DEF ExpandedInv
<1>7. CASE Failing \/ Finish
  BY <1>3, <1>7 DEF Failing, Fail, Finish
<1>8. CASE ValidateRule \/ BeginCollect \/ CollectStep
  <2>1. ValidateRule => work # <<>> /\ Top.op = "validate" /\ phase' \in {phase, "done"}
    BY DEF ValidateRule, Visiting, Fail
  <2>2. CollectStep => work # <<>> /\ Top.op = "collect" /\ phase' \in {phase, "done"}
    BY CollectWalks DEF Failing, Fail
  <2> QED
    BY <1>3, <1>8, <2>1, <2>2, PassOfTop DEF BeginCollect
<1> QED
  BY <1>2, <1>4, <1>5, <1>6, <1>7, <1>8
     DEF Next, CollectStep, VisitStep, ReturnStep, Returned

-----------------------------------------------------------------------------
(***************************************************************************)
(* Outside of let bindings the let statements that are running are those   *)
(* around the node that is compiled.                                       *)
(***************************************************************************)

EnclosesIn(p, l, n) == p.label[l].kind = "let" /\ p.kids[l][2] <= n /\ n <= p.last[l]
BindersIn(p, n) == {l \in Nodes(p) : EnclosesIn(p, l, n) /\ p.label[l].tag = p.label[n].tag}
Binding(p, l) == [name |-> p.label[l].tag, rule |-> p.kids[l][1]]

LetsBelow(frames, i) == {j \in 1 .. i - 1 : frames[j].op = "unbind"}

\* The let statements below frame i are the ones around node n, the outermost at
\* the bottom.
ScopeOf(p, frames, bound, i, n) ==
  /\ \A j \in LetsBelow(frames, i) :
       \E l \in Nodes(p) : EnclosesIn(p, l, n) /\ bound[frames[j].idx] = Binding(p, l)
  /\ \A l \in Nodes(p) : EnclosesIn(p, l, n) =>
       \E j \in LetsBelow(frames, i) : bound[frames[j].idx] = Binding(p, l)
  /\ \A j, k \in LetsBelow(frames, i) :
       j < k => bound[frames[j].idx].rule < bound[frames[k].idx].rule

LetsInv ==
  \A i \in DOMAIN work :
    work[i].op = "compile" /\ LiveCall(prog, work[i]) =>
      ScopeOf(prog, work, variables, i, work[i].node)

\* A let has two parts, the rule, which follows it at once, and the scope.
LEMMA LetParts ==
  ASSUME WellFormed(prog), NEW l \in Nodes(prog), prog.label[l].kind = "let"
  PROVE  /\ Kind(l) = "let" /\ Kids(l) = prog.kids[l] /\ Tag(l) = prog.label[l].tag
         /\ Len(Kids(l)) = 2 /\ 1 \in 1 .. Len(Kids(l)) /\ 2 \in 1 .. Len(Kids(l))
         /\ Kids(l)[1] = l + 1 /\ l < Kids(l)[2] /\ Kids(l)[2] \in Nodes(prog)
         /\ prog.last[Kids(l)[2]] = prog.last[l]
<1>1. Kids(l) = prog.kids[l] /\ Kind(l) = "let" /\ Tag(l) = prog.label[l].tag
  BY ProgramNodes
<1>2. Len(Kids(l)) = 2
  BY <1>1 DEF WellFormed, Arity
<1>3. 1 \in 1 .. Len(Kids(l)) /\ 2 \in 1 .. Len(Kids(l)) /\ Len(Kids(l)) # 0
  BY <1>2
<1>4. Kids(l)[1] = l + 1 /\ prog.last[Kids(l)[Len(Kids(l))]] = prog.last[l]
  BY <1>3, Subtree
<1>5. l < Kids(l)[2] /\ Kids(l)[2] \in Nodes(prog)
  BY <1>3, KidsSpan
<1> QED
  BY <1>1, <1>2, <1>3, <1>4, <1>5

LEMMA EnclosesKid ==
  ASSUME WellFormed(prog), NEW n \in Nodes(prog), NEW i \in 1 .. Len(Kids(n)),
         Kind(n) = "let" => i = 2
  PROVE  \A l \in Nodes(prog) :
           EnclosesIn(prog, l, Kids(n)[i]) <=>
             EnclosesIn(prog, l, n) \/ (Kind(n) = "let" /\ l = n)
<1> DEFINE c == Kids(n)[i]
<1>1. /\ c \in Nodes(prog) /\ c \in Nat /\ n \in Nat /\ n < c
      /\ c <= prog.last[c] /\ prog.last[c] <= prog.last[n] /\ n <= prog.last[n]
      /\ prog.last[c] \in Nat /\ prog.last[n] \in Nat
  BY KidsSpan, Subtree DEF Nodes
<1>2. Kind(n) = prog.label[n].kind /\ Kids(n) = prog.kids[n]
  BY ProgramNodes
<1> SUFFICES ASSUME NEW l \in Nodes(prog), prog.label[l].kind = "let"
             PROVE  EnclosesIn(prog, l, c) <=>
                      EnclosesIn(prog, l, n) \/ (Kind(n) = "let" /\ l = n)
  BY <1>2 DEF EnclosesIn
<1> DEFINE s == prog.kids[l][2]
<1>3. /\ s \in Nodes(prog) /\ s \in Nat /\ l \in Nat /\ l < s /\ s = Kids(l)[2]
      /\ prog.last[s] = prog.last[l] /\ prog.last[l] \in Nat
      /\ 2 \in 1 .. Len(Kids(l))
  <2>1. prog.last[l] \in Nodes(prog)
    BY Subtree
  <2>2. /\ l < Kids(l)[2] /\ Kids(l)[2] \in Nodes(prog) /\ s = Kids(l)[2]
        /\ prog.last[Kids(l)[2]] = prog.last[l] /\ 2 \in 1 .. Len(Kids(l))
    BY LetParts
  <2>3. \A m \in Nodes(prog) : m \in Nat
    BY DEF Nodes
  <2> QED
    BY <2>1, <2>2, <2>3
<1> HIDE DEF c, s
<1>4. EnclosesIn(prog, l, n) => EnclosesIn(prog, l, c)
  <2> SUFFICES ASSUME s <= n, n <= prog.last[l] PROVE s <= c /\ c <= prog.last[l]
    BY DEF EnclosesIn, s
  <2>1. n \in Span(prog, l)
    BY <1>1, <1>3 DEF Span
  <2>2. prog.last[n] <= prog.last[l]
    BY <2>1, SubtreesNest
  <2>3. s <= c
    BY <1>1, <1>3
  <2>4. c <= prog.last[n]
    BY <1>1
  <2>5. c <= prog.last[l]
    <3> DEFINE e == prog.last[n]
               f == prog.last[l]
    <3>1. c \in Nat /\ e \in Nat /\ f \in Nat /\ c <= e /\ e <= f
      BY <1>1, <1>3, <2>2, <2>4
    <3>2. c <= f
      <4> HIDE DEF e, f
      <4> QED
        BY <3>1
    <3> QED
      BY <3>2 DEF f
  <2> QED
    BY <2>3, <2>5
<1>5. Kind(n) = "let" /\ l = n => EnclosesIn(prog, l, c)
  <2> SUFFICES ASSUME Kind(n) = "let", l = n PROVE s <= c /\ c <= prog.last[l]
    BY DEF EnclosesIn, s
  <2>1. s = c
    BY <1>2 DEF s, c
  <2> QED
    BY <1>1, <1>3, <2>1
<1>6. EnclosesIn(prog, l, c) => EnclosesIn(prog, l, n) \/ (Kind(n) = "let" /\ l = n)
  <2> SUFFICES ASSUME s <= c, c <= prog.last[l]
               PROVE  EnclosesIn(prog, l, n) \/ (Kind(n) = "let" /\ l = n)
    BY DEF EnclosesIn, s
  <2>1. CASE s < c
    <3>1. c <= prog.last[s]
      BY <1>3
    <3>2. s <= n /\ prog.last[n] <= prog.last[s]
      BY <1>3, <2>1, <3>1, SubtreeOfParent DEF c
    <3>3. n <= prog.last[l]
      BY <1>1, <1>3, <3>2
    <3> QED
      BY <3>2, <3>3 DEF EnclosesIn, s
  <2>2. CASE s = c
    <3>1. l <= n
      <4>1. l < c
        BY <1>3, <2>2
      <4> QED
        BY <4>1, SubtreeOfParent DEF c
    <3>2. n <= l
      <4>1. n < s /\ s <= prog.last[n]
        BY <1>1, <2>2
      <4> QED
        BY <1>3, <4>1, SubtreeOfParent
    <3> QED
      BY <1>1, <1>2, <1>3, <3>1, <3>2
  <2> QED
    BY <1>1, <1>3, <2>1, <2>2
<1> QED
  BY <1>4, <1>5, <1>6

LEMMA ScopeKept ==
  ASSUME NEW p, NEW frames, NEW frames2, NEW bound, NEW bound2, NEW i, NEW n,
         ScopeOf(p, frames, bound, i, n),
         \A j \in 1 .. i - 1 : frames2[j] = frames[j],
         \A j \in 1 .. i - 1 :
           frames[j].op = "unbind" => bound2[frames[j].idx] = bound[frames[j].idx]
  PROVE  ScopeOf(p, frames2, bound2, i, n)
<1>1. LetsBelow(frames2, i) = LetsBelow(frames, i)
  BY DEF LetsBelow
<1>2. \A j \in LetsBelow(frames, i) : bound2[frames2[j].idx] = bound[frames[j].idx]
  BY DEF LetsBelow
<1> HIDE DEF LetsBelow
<1> QED
  BY <1>1, <1>2 DEF ScopeOf

\* What is bound does not change as long as a frame below the top refers to it.
LEMMA BoundKept ==
  ASSUME TypeOK, Passes, ScopeInv, VisitStep \/ ReturnStep, ~Failing
  PROVE  \A j \in Unbindings \cup Expansions :
           /\ work[j].idx \in 1 .. Len(variables)
           /\ j < Len(work) => variables'[work[j].idx] = variables[work[j].idx]
<1>1. phase = "compile"
  BY StepCalls, StepReturns
<1>2. Bound /\ Expanded /\ Len(variables) \in Nat
  BY <1>1, LenProperties DEF ScopeInv, TypeOK
<1>3. \A j \in Unbindings \cup Expansions : work[j].idx \in 1 .. Len(variables)
  <2>1. Len(Builtins) = 6
    BY DEF Builtins
  <2>2. \A j \in Unbindings : work[j].idx \in 7 .. Len(variables)
    BY <1>2, <2>1 DEF Bound
  <2> QED
    BY <1>2, <2>2 DEF Expanded
<1>4. CASE UNCHANGED variables
  BY <1>3, <1>4
<1>5. CASE LetVisit
  <2>1. \A i \in 1 .. Len(variables) : variables'[i] = variables[i]
    BY <1>5, AppendProperties DEF LetVisit, TypeOK
  <2> QED
    BY <1>3, <2>1
<1>6. CASE Top.op = "unbind" /\ variables' = SubSeq(variables, 1, Len(variables) - 1) /\ work # <<>>
  <2>1. \A j \in Unbindings \cup Expansions : j < Len(work) => work[j].idx < Len(variables)
    <3>1. Len(work) \in Nat /\ DOMAIN work = 1 .. Len(work)
      BY LenProperties DEF TypeOK
    <3>2. \A j \in Unbindings \cup Expansions : j < Len(work) => j # Len(work)
      BY <3>1 DEF Unbindings, Expansions
    <3> QED
      BY <1>6, <3>2, UnbindsLast DEF Returning
  <2>2. \A i \in 1 .. Len(variables) - 1 : variables'[i] = variables[i]
    <3>1. Len(variables) - 1 \in Nat \/ Len(variables) = 0
      BY <1>2
    <3> QED
      BY <1>2, <1>6, <3>1, Prefix DEF TypeOK
  <2>3. \A j \in Unbindings \cup Expansions :
          j < Len(work) => work[j].idx \in 1 .. Len(variables) - 1
    BY <1>2, <1>3, <2>1
  <2> QED
    BY <1>3, <2>2, <2>3
<1>7. VisitStep => UNCHANGED variables \/ LetVisit
  BY VisitCalls DEF KidsVisit, VariableVisit
<1> QED
  BY <1>4, <1>5, <1>6, <1>7, StepReturns DEF scope

LEMMA LetsStep ==
  TypeOK /\ Passes /\ ScopeInv /\ LetsInv /\ [Next]_vars => LetsInv'
<1> SUFFICES ASSUME TypeOK, Passes, ScopeInv, LetsInv, [Next]_vars PROVE LetsInv'
  OBVIOUS
<1> DEFINE n == Top.node
           l == Len(work)
<1>1. prog' = prog /\ WellFormed(prog)
  BY InputKept DEF input, TypeOK
<1>2. CASE UNCHANGED vars
  BY <1>2 DEF vars, input, state, scope, LetsInv
<1>3. CASE phase' \in {"validate", "collect", "done"}
  <2>1. Passes'
    BY PassesStep
  <2>2. \/ work' \in Seq(FramesOf({"validate"}))' \/ work' \in Seq(FramesOf({"collect"}))'
        \/ work' = <<>>
    BY <1>3, <2>1 DEF Passes
  <2>3. \A j \in DOMAIN work' : work'[j].op # "compile"
    BY <2>2, ElementOfSeq, LenProperties DEF FramesOf
  <2> QED
    BY <2>3 DEF LetsInv
<1>4. CASE BeginCompile
  <2>1. DOMAIN work' = {1} /\ work'[1].node = 1
    BY <1>4 DEF BeginCompile, Compile
  <2>2. \A m \in Nodes(prog) : ~EnclosesIn(prog, m, 1)
    <3> SUFFICES ASSUME NEW m \in Nodes(prog), prog.label[m].kind = "let",
                        prog.kids[m][2] <= 1
                 PROVE  FALSE
      BY DEF EnclosesIn
    <3> QED
      BY <1>1, LetParts DEF Nodes
  <2>3. LetsBelow(work', 1) = {}
    BY DEF LetsBelow
  <2>4. ScopeOf(prog, work', variables', 1, 1)
    BY <2>2, <2>3 DEF ScopeOf
  <2> QED
    BY <1>1, <2>1, <2>4 DEF LetsInv
<1>5. ASSUME VisitStep \/ ReturnStep, ~Failing, work # <<>>,
             NEW i \in 1 .. l - 1, work[i].op = "compile", LiveCall(prog, work[i]),
             \A j \in 1 .. l - 1 : j \in DOMAIN work' /\ work'[j] = work[j]
      PROVE  ScopeOf(prog, work', variables', i, work'[i].node)
  <2>1. l \in Nat /\ DOMAIN work = 1 .. l
    BY LenProperties DEF TypeOK
  <2>2. \A j \in 1 .. i - 1 : j \in 1 .. l - 1 /\ j \in DOMAIN work /\ j < l
    BY <2>1
  <2>3. \A j \in 1 .. i - 1 :
          work[j].op = "unbind" => variables'[work[j].idx] = variables[work[j].idx]
    BY <1>5, <2>2, BoundKept DEF Unbindings
  <2>4. i \in DOMAIN work /\ ScopeOf(prog, work, variables, i, work[i].node)
    BY <1>5, <2>1 DEF LetsInv
  <2> HIDE DEF l
  <2>5. \A j \in 1 .. i - 1 : work'[j] = work[j]
    BY <1>5, <2>2
  <2>6. work'[i] = work[i]
    BY <1>5
  <2> QED
    BY <2>2, <2>3, <2>4, <2>5, <2>6, ScopeKept
<1>6. CASE VisitStep /\ ~Failing
  <2>1. /\ work # <<>> /\ Top.op = "compile"
        /\ (Kind(n) \notin ValueKinds => n \in Nodes(prog))
    BY <1>6, StepCalls
  <2>2. l \in DOMAIN work /\ l \in Nat \ {0} /\ DOMAIN work = 1 .. l /\ Top = work[l]
    BY <2>1, LenProperties, EmptySeq DEF TypeOK, Top
  <2>3. LiveCall(prog, Top) => ScopeOf(prog, work, variables, l, n)
    BY <2>1, <2>2 DEF LetsInv
  <2>4. \A i \in 1 .. Len(Kids(n)) : n \in Nodes(prog) /\ Live(prog, Kids(n)[i])
          => LiveCall(prog, Top)
    <3> SUFFICES ASSUME NEW i \in 1 .. Len(Kids(n)), n \in Nodes(prog),
                        Live(prog, Kids(n)[i])
                 PROVE  Live(prog, n)
      BY <2>1 DEF LiveCall
    <3>1. /\ Kids(n)[i] \in Nat /\ prog.last[Kids(n)[i]] \in Nat /\ n \in Nat
          /\ prog.last[n] \in Nat
          /\ n < Kids(n)[i] /\ Kids(n)[i] <= prog.last[Kids(n)[i]]
          /\ prog.last[Kids(n)[i]] <= prog.last[n]
      BY <1>1, KidsSpan, Subtree DEF Nodes
    <3>2. Kids(n)[i] \in Span(prog, n)
      BY <3>1 DEF Span
    <3> QED
      BY <1>1, <3>2, LiveParts
  <2>5. ASSUME NEW fs \in Seq(Frame), KidsVisit(fs) PROVE LetsInv'
    <3>1. /\ Len(fs) \in Nat
          /\ \A j \in DOMAIN work' :
               \/ j \in 1 .. l - 1 /\ j \in DOMAIN work /\ work'[j] = work[j]
               \/ \E k \in 1 .. Len(fs) : j = l - 1 + k /\ work'[j] = fs[k]
          /\ \A j \in 1 .. l - 1 : j \in DOMAIN work' /\ work'[j] = work[j]
          /\ \A k \in 1 .. Len(fs) : l - 1 + k \in DOMAIN work' /\ work'[l - 1 + k] = fs[k]
      BY <2>1, <2>5, StackStep DEF KidsVisit
    <3> SUFFICES ASSUME NEW i \in DOMAIN work', work'[i].op = "compile",
                        LiveCall(prog, work'[i])
                 PROVE  ScopeOf(prog, work', variables', i, work'[i].node)
      BY <1>1 DEF LetsInv
    <3>2. CASE i \in 1 .. l - 1 /\ work'[i] = work[i]
      BY <1>5, <1>6, <2>1, <3>1, <3>2
    <3>3. ASSUME NEW k \in 1 .. Len(fs), i = l - 1 + k, work'[i] = fs[k]
          PROVE  ScopeOf(prog, work', variables', i, work'[i].node)
      <4>1. PICK m \in 1 .. Len(Kids(n)) :
              fs[k].node = Kids(n)[m] /\ n \in Nodes(prog) /\ Kind(n) # "let"
        BY <2>5, <3>3 DEF KidsVisit
      <4>2. ScopeOf(prog, work, variables, l, n)
        BY <2>3, <2>4, <3>3, <4>1 DEF LiveCall
      <4>3. \A j \in Nodes(prog) :
              EnclosesIn(prog, j, Kids(n)[m]) <=> EnclosesIn(prog, j, n)
        BY <1>1, <4>1, EnclosesKid
      <4>4. LetsBelow(work', i) = LetsBelow(work, l)
        <5>1. \A j \in 1 .. l - 1 : j \in 1 .. i - 1 /\ work'[j] = work[j]
          BY <2>2, <3>1, <3>3
        <5>2. ASSUME NEW j \in 1 .. i - 1, j \notin 1 .. l - 1
              PROVE  work'[j].op # "unbind"
          <6>1. j - l + 1 \in 1 .. Len(fs) /\ l - 1 + (j - l + 1) = j
            BY <2>2, <3>1, <3>3, <5>2
          <6>2. work'[j] = fs[j - l + 1]
            BY <3>1, <6>1
          <6> QED
            BY <2>5, <6>1, <6>2 DEF KidsVisit
        <5> HIDE DEF l
        <5> QED
          BY <5>1, <5>2 DEF LetsBelow
      <4>5. /\ \A j \in LetsBelow(work, l) : work'[j] = work[j]
            /\ variables' = variables
        BY <2>5, <3>1 DEF LetsBelow, KidsVisit
      <4>6. work'[i].node = Kids(n)[m]
        BY <3>3, <4>1
      <4> HIDE DEF l, n
      <4>7. ScopeOf(prog, work', variables', i, Kids(n)[m])
        BY <4>2, <4>3, <4>4, <4>5 DEF ScopeOf
      <4> QED
        BY <4>6, <4>7
    <3> QED
      BY <3>1, <3>2, <3>3
  <2>6. ASSUME NEW f \in Frame, NEW r \in AnyNode, Continue(<<f, Compile(r)>>),
               f.op # "compile",
               /\ LiveCall(prog, Compile(r))
               /\ work'[l] = f /\ \A j \in 1 .. l - 1 : work'[j] = work[j]
               => ScopeOf(prog, work', variables', l + 1, r)
        PROVE  LetsInv'
    <3>1. /\ DOMAIN work' = 1 .. l + 1
          /\ \A j \in 1 .. l - 1 : j \in DOMAIN work /\ work'[j] = work[j]
          /\ work'[l] = f /\ work'[l + 1] = Compile(r)
      BY <2>1, <2>6, ScopeFrames
    <3> SUFFICES ASSUME NEW i \in DOMAIN work', work'[i].op = "compile",
                        LiveCall(prog, work'[i])
                 PROVE  ScopeOf(prog, work', variables', i, work'[i].node)
      BY <1>1 DEF LetsInv
    <3>2. i \in 1 .. l - 1 \/ i = l \/ i = l + 1
      BY <2>2, <3>1
    <3>3. i # l
      BY <2>6, <3>1
    <3>4. CASE i \in 1 .. l - 1
      <4>1. \A j \in 1 .. l - 1 : j \in DOMAIN work' /\ work'[j] = work[j]
        BY <2>2, <3>1
      <4>2. work[i] = work'[i]
        BY <3>4, <4>1
      <4> QED
        BY <1>5, <1>6, <2>1, <3>4, <4>1, <4>2
    <3>5. CASE i = l + 1
      BY <2>6, <3>1, <3>5 DEF Compile
    <3> QED
      BY <3>2, <3>3, <3>4, <3>5
  <2>7. CASE LetVisit
    <3>1. n \in Nodes(prog) /\ Kind(n) = "let"
      BY <2>1, <2>7, OtherKinds DEF LetVisit
    <3>2. /\ 1 \in 1 .. Len(Kids(n)) /\ 2 \in 1 .. Len(Kids(n)) /\ Kids(n)[2] \in AnyNode
          /\ Kids(n)[1] = n + 1 /\ Kids(n) = prog.kids[n] /\ Tag(n) = prog.label[n].tag
          /\ prog.label[n].kind = "let"
      BY <1>1, <3>1, LetParts, ProgramNodes DEF AnyNode
    <3> DEFINE f == Unbind(Len(variables) + 1)
               c == Kids(n)[2]
    <3>3. f \in Frame /\ f.op = "unbind" /\ f.idx = Len(variables) + 1
      <4>1. Len(variables) + 1 \in Nat
        BY LenProperties DEF TypeOK
      <4> QED
        BY <4>1 DEF Unbind, Frame
    <3>4. /\ variables'[Len(variables) + 1] = Binding(prog, n)
          /\ \A i \in 1 .. Len(variables) : variables'[i] = variables[i]
      BY <2>7, <3>2, AppendProperties DEF LetVisit, TypeOK, Binding
    <3>5. ASSUME LiveCall(prog, Compile(c)), work'[l] = f,
                 \A j \in 1 .. l - 1 : work'[j] = work[j]
          PROVE  ScopeOf(prog, work', variables', l + 1, c)
      <4>1. ScopeOf(prog, work, variables, l, n)
        BY <2>3, <2>4, <3>1, <3>2, <3>5 DEF LiveCall, Compile
      <4>2. \A m \in Nodes(prog) : EnclosesIn(prog, m, c) <=> EnclosesIn(prog, m, n) \/ m = n
        BY <1>1, <3>1, <3>2, EnclosesKid
      <4>3. \A j : j \in LetsBelow(work', l + 1) <=> j \in LetsBelow(work, l) \/ j = l
        <5>1. \A j : j \in 1 .. (l + 1) - 1 <=> j \in 1 .. l - 1 \/ j = l
          BY <2>2
        <5> QED
          BY <3>3, <3>5, <5>1 DEF LetsBelow
      <4>4. \A j \in LetsBelow(work, l) :
              /\ j \in Nat /\ j < l /\ work'[j] = work[j]
              /\ variables'[work[j].idx] = variables[work[j].idx]
        <5>1. \A j \in LetsBelow(work, l) : j \in Unbindings /\ j < l /\ j \in 1 .. l - 1
          BY <2>2 DEF LetsBelow, Unbindings
        <5> QED
          BY <1>6, <3>5, <5>1, BoundKept
      <4>5. variables'[work'[l].idx] = Binding(prog, n)
        BY <3>3, <3>4, <3>5
      <4>6. ASSUME NEW j \in LetsBelow(work, l)
            PROVE  variables[work[j].idx].rule < n + 1
        <5>1. PICK m \in Nodes(prog) :
                EnclosesIn(prog, m, n) /\ variables[work[j].idx] = Binding(prog, m)
          BY <4>1 DEF ScopeOf
        <5>2. prog.kids[m][2] <= n /\ prog.label[m].kind = "let"
          BY <5>1 DEF EnclosesIn
        <5>3. /\ m < Kids(m)[2] /\ Kids(m)[2] \in Nodes(prog) /\ Kids(m)[1] = m + 1
              /\ Kids(m) = prog.kids[m]
          BY <1>1, <5>2, LetParts
        <5>5. m < n /\ m \in Nat /\ n \in Nat
          BY <3>1, <5>2, <5>3 DEF Nodes
        <5>6. Binding(prog, m).rule = m + 1
          BY <5>3 DEF Binding
        <5> QED
          BY <5>1, <5>5, <5>6
      <4>7. Binding(prog, n).rule = n + 1
        BY <3>2 DEF Binding
      <4> HIDE DEF l, n, f, c
      <4>8. \A j \in LetsBelow(work', l + 1) : \E m \in Nodes(prog) :
              EnclosesIn(prog, m, c) /\ variables'[work'[j].idx] = Binding(prog, m)
        BY <3>1, <4>1, <4>2, <4>3, <4>4, <4>5 DEF ScopeOf
      <4>9. \A m \in Nodes(prog) : EnclosesIn(prog, m, c) =>
              \E j \in LetsBelow(work', l + 1) : variables'[work'[j].idx] = Binding(prog, m)
        BY <4>1, <4>2, <4>3, <4>4, <4>5 DEF ScopeOf
      <4>10. ASSUME NEW j \in LetsBelow(work', l + 1), NEW k \in LetsBelow(work', l + 1), j < k
             PROVE  variables'[work'[j].idx].rule < variables'[work'[k].idx].rule
        <5>1. CASE k = l
          <6>1. j \in LetsBelow(work, l)
            BY <2>2, <4>3, <4>10, <5>1
          <6> QED
            BY <4>4, <4>5, <4>6, <4>7, <5>1, <6>1
        <5>2. CASE k \in LetsBelow(work, l)
          <6>1. j \in LetsBelow(work, l)
            BY <2>2, <4>3, <4>4, <4>10, <5>2
          <6> QED
            BY <4>1, <4>4, <4>10, <5>2, <6>1 DEF ScopeOf
        <5> QED
          BY <4>3, <5>1, <5>2
      <4> QED
        BY <4>8, <4>9, <4>10 DEF ScopeOf
    <3>6. Continue(<<f, Compile(c)>>)
      BY <2>7 DEF LetVisit
    <3> HIDE DEF f, c
    <3> QED
      BY <2>6, <3>2, <3>3, <3>5, <3>6 DEF c
  <2>8. CASE VariableVisit
    <3>1. n \in Nodes(prog)
      BY <2>1, <2>8, OtherKinds DEF VariableVisit
    <3>2. PICK i \in 1 .. Len(variables) :
            /\ variables[i] \in BoundTo(prog)
            /\ Continue(<<Unexpand(i, n), Compile(variables[i].rule)>>)
      BY <2>8 DEF VariableVisit
    <3> DEFINE f == Unexpand(i, n)
               r == variables[i].rule
    <3>3. f \in Frame /\ f.op # "compile"
      <4>1. i \in Nat
        BY LenProperties DEF TypeOK
      <4> QED
        BY <3>1, <4>1 DEF Unexpand, Frame
    <3>4. r \in AnyNode /\ Open(prog, Compile(r)) = {}
      BY <1>1, <3>2, RuleNotLive
    <3>5. Continue(<<f, Compile(r)>>)
      BY <3>2
    <3> HIDE DEF r, f
    <3>6. ~LiveCall(prog, Compile(r))
      <4> SUFFICES ASSUME r \in Nodes(prog), Live(prog, r) PROVE FALSE
        BY DEF LiveCall, Compile
      <4>1. r \in Open(prog, Compile(r))
        BY <1>1, Subtree DEF Open, Compile, Span, Nodes
      <4> QED
        BY <3>4, <4>1
    <3> QED
      BY <2>6, <3>3, <3>4, <3>5, <3>6
  <2> QED
    BY <1>6, <2>5, <2>7, <2>8, VisitCalls
<1>7. CASE ReturnStep /\ ~Failing
  <2> DEFINE fs == <<>>
  <2>1. work # <<>> /\ Continue(fs) /\ fs \in Seq(Frame) /\ Len(fs) = 0
    BY <1>7, StepReturns
  <2> HIDE DEF fs
  <2>2. \A k \in 1 .. Len(fs) : FALSE
    BY <2>1
  <2>3. /\ \A j \in DOMAIN work' : j \in 1 .. l - 1 /\ work'[j] = work[j]
        /\ \A j \in 1 .. l - 1 : j \in DOMAIN work' /\ work'[j] = work[j]
    BY <2>1, <2>2, StackStep
  <2> QED
    BY <1>1, <1>5, <1>7, <2>1, <2>3 DEF LetsInv
<1>8. CASE Failing \/ Finish
  BY <1>3, <1>8 DEF Failing, Fail, Finish
<1>9. CASE ValidateRule \/ BeginCollect \/ CollectStep
  <2>1. ValidateRule => work # <<>> /\ Top.op = "validate" /\ phase' \in {phase, "done"}
    BY DEF ValidateRule, Visiting, Fail
  <2>2. CollectStep => work # <<>> /\ Top.op = "collect" /\ phase' \in {phase, "done"}
    BY CollectWalks DEF Failing, Fail
  <2> QED
    BY <1>3, <1>9, <2>1, <2>2, PassOfTop DEF BeginCollect
<1> QED
  BY <1>2, <1>4, <1>6, <1>7, <1>8, <1>9
     DEF Next, CollectStep, VisitStep, ReturnStep, Returned

-----------------------------------------------------------------------------
(***************************************************************************)
(* What a name stands for.                                                 *)
(***************************************************************************)

\* Binding number idx, which is bound, is what n stands for.
Resolved(p, n, idx, bound) ==
  /\ bound.name = p.label[n].tag
  /\ Live(p, n) =>
       IF BindersIn(p, n) = {} THEN idx \in DOMAIN Builtins
       ELSE bound.rule = p.kids[Max(BindersIn(p, n))][1]

ResolvedInv ==
  \A j \in Expansions : Resolved(prog, work[j].node, work[j].idx, variables[work[j].idx])

LEMMA NewlyResolved ==
  ASSUME TypeOK, Passes, ScopeInv, ExpandedInv, LetsInv, work # <<>>, phase = "compile",
         Top.op = "compile", Top.node \in Nodes(prog),
         NEW i \in 1 .. Len(variables), Resolves(Tag(Top.node), i)
  PROVE  Resolved(prog, Top.node, i, variables[i])
<1> DEFINE n == Top.node
           l == Len(work)
           B == BindersIn(prog, n)
<1>1. /\ WellFormed(prog) /\ Tag(n) = prog.label[n].tag
      /\ l \in DOMAIN work /\ l \in Nat \ {0} /\ DOMAIN work = 1 .. l /\ Top = work[l]
      /\ Len(variables) \in Nat /\ DOMAIN variables = 1 .. Len(variables)
  BY ProgramNodes, LenProperties, EmptySeq DEF TypeOK, Top
<1>2. /\ variables[i].name = Tag(n)
      /\ \A j \in DOMAIN variables :
           variables[j].name = Tag(n) /\ j \notin current_vars => j <= i
  BY DEF Resolves, Candidates, Bindings
<1>3. Bound /\ Expanded /\ Nested
  BY DEF ScopeInv
<1> SUFFICES ASSUME Live(prog, n)
             PROVE  IF B = {} THEN i \in DOMAIN Builtins
                    ELSE variables[i].rule = prog.kids[Max(B)][1]
  BY <1>1, <1>2 DEF Resolved
<1>4. \A j \in DOMAIN work : j # l => j < l
  BY <1>1
<1>5. current_vars = {}
  <2>1. ASSUME NEW j \in Expansions PROVE FALSE
    <3>1. j \in DOMAIN work /\ work[j].op = "unexpand" /\ j < l
      BY <1>1, <1>4, <2>1 DEF Expansions
    <3>2. Within(prog, work[j].node, n)
      BY <1>1, <3>1 DEF ExpandedInv
    <3> QED
      BY <3>2 DEF Within, Live
  <2> QED
    BY <1>3, <2>1 DEF Expanded
<1>6. ScopeOf(prog, work, variables, l, n)
  BY <1>1 DEF LetsInv, LiveCall
<1>7. Len(Builtins) = 6 /\ DOMAIN Builtins = 1 .. 6
  BY DEF Builtins
<1>8. LetsBelow(work, l) = Unbindings
  BY <1>1, <1>4 DEF LetsBelow, Unbindings
<1>9. \A j \in Unbindings : j \in Nat /\ work[j].idx \in 7 .. Len(variables)
  BY <1>1, <1>3, <1>7 DEF Bound, Unbindings
\* A binding of the name by a let comes from a let around n with the name.
<1>10. ASSUME NEW j \in Unbindings, variables[work[j].idx].name = Tag(n)
       PROVE  \E b \in B : variables[work[j].idx] = Binding(prog, b)
  <2>1. PICK b \in Nodes(prog) :
          EnclosesIn(prog, b, n) /\ variables[work[j].idx] = Binding(prog, b)
    BY <1>6, <1>8 DEF ScopeOf
  <2>2. prog.label[b].tag = prog.label[n].tag
    BY <1>1, <1>10, <2>1 DEF Binding
  <2> QED
    BY <2>1, <2>2 DEF BindersIn
<1>11. i \notin 1 .. 6 => \E j \in Unbindings : work[j].idx = i
  <2>1. i \notin 1 .. 6 => i \in Len(Builtins) + 1 .. Len(variables)
    BY <1>1, <1>7
  <2> QED
    BY <1>3, <2>1 DEF Bound
<1>12. CASE B = {}
  <2>1. i \in 1 .. 6
    BY <1>2, <1>10, <1>11, <1>12
  <2> QED
    BY <1>7, <1>12, <2>1
<1>13. CASE B # {}
  <2> DEFINE b == Max(B)
  <2>1. B \subseteq Nodes(prog)
    BY DEF BindersIn
  <2>2. b \in B /\ \A c \in B : c <= b
    <3> HIDE DEF B
    <3> QED
      BY <1>1, <1>13, <2>1, Greatest
  <2>3. EnclosesIn(prog, b, n) /\ prog.label[b].tag = Tag(n)
    BY <1>1, <2>2 DEF BindersIn
  <2>4. PICK j \in Unbindings : variables[work[j].idx] = Binding(prog, b)
    <3>1. b \in Nodes(prog)
      BY <2>1, <2>2
    <3> HIDE DEF b
    <3> QED
      BY <1>6, <1>8, <2>3, <3>1 DEF ScopeOf
  <2>5. work[j].idx <= i
    <3>1. work[j].idx \in DOMAIN variables /\ variables[work[j].idx].name = Tag(n)
      BY <1>1, <1>9, <2>3, <2>4 DEF Binding
    <3> QED
      BY <1>2, <1>5, <3>1
  <2>6. i \notin 1 .. 6
    BY <1>9, <2>5
  <2>7. PICK k \in Unbindings : work[k].idx = i
    BY <1>11, <2>6
  <2>8. PICK c \in B : variables[i] = Binding(prog, c)
    BY <1>2, <1>10, <2>7
  <2>9. Binding(prog, b).rule = b + 1 /\ Binding(prog, c).rule = c + 1
    <3>1. \A m \in B : prog.label[m].kind = "let" /\ m \in Nodes(prog)
      BY DEF BindersIn, EnclosesIn
    <3>2. \A m \in B : Binding(prog, m).rule = m + 1
      BY <1>1, <3>1, LetParts DEF Binding
    <3> QED
      BY <2>2, <3>2
  <2>10. ~(j < k)
    <3> SUFFICES ASSUME j < k PROVE FALSE
      OBVIOUS
    <3>1. variables[work[j].idx].rule < variables[work[k].idx].rule
      BY <1>6, <1>8 DEF ScopeOf
    <3>2. b + 1 < c + 1
      BY <2>4, <2>7, <2>8, <2>9, <3>1
    <3>3. b \in Int /\ c \in Int /\ c <= b
      BY <2>1, <2>2, <2>8 DEF Nodes
    <3> HIDE DEF b
    <3> QED
      BY <3>2, <3>3
  <2>11. work[j].idx = i
    <3>1. k < j => i < work[j].idx
      BY <1>3, <2>7 DEF Nested
    <3>2. work[j].idx \in Nat /\ i \in Nat /\ j \in Nat /\ k \in Nat
      BY <1>1, <1>9
    <3> QED
      BY <2>5, <2>7, <2>10, <3>1, <3>2
  <2>12. variables[i].rule = prog.kids[b][1]
    BY <2>4, <2>11 DEF Binding
  <2> QED
    BY <1>13, <2>12
<1> QED
  BY <1>12, <1>13

LEMMA ResolvedStep ==
  TypeOK /\ Passes /\ ScopeInv /\ ExpandedInv /\ LetsInv /\ ResolvedInv /\ [Next]_vars
    => ResolvedInv'
<1> SUFFICES ASSUME TypeOK, Passes, ScopeInv, ExpandedInv, LetsInv, ResolvedInv, [Next]_vars
             PROVE  ResolvedInv'
  OBVIOUS
<1> DEFINE n == Top.node
           l == Len(work)
<1>1. prog' = prog /\ WellFormed(prog)
  BY InputKept DEF input, TypeOK
<1>2. CASE UNCHANGED vars
  BY <1>2 DEF vars, input, state, scope, ResolvedInv, Expansions
<1>3. CASE phase' \in {"validate", "collect", "done"}
  <2>1. Passes'
    BY PassesStep
  <2>2. \/ work' \in Seq(FramesOf({"validate"}))' \/ work' \in Seq(FramesOf({"collect"}))'
        \/ work' = <<>>
    BY <1>3, <2>1 DEF Passes
  <2>3. \A j \in DOMAIN work' : work'[j].op # "unexpand"
    BY <2>2, ElementOfSeq, LenProperties DEF FramesOf
  <2> QED
    BY <2>3 DEF ResolvedInv, Expansions
<1>4. CASE BeginCompile
  <2>1. DOMAIN work' = {1} /\ work'[1].op = "compile"
    BY <1>4 DEF BeginCompile, Compile
  <2> QED
    BY <2>1 DEF ResolvedInv, Expansions
<1>5. ASSUME VisitStep \/ ReturnStep, ~Failing, NEW j \in Expansions, j < l
      PROVE  Resolved(prog, work[j].node, work[j].idx, variables'[work[j].idx])
  BY <1>5, BoundKept DEF ResolvedInv
<1>6. CASE /\ VisitStep \/ ReturnStep
           /\ ~Failing
           /\ \A j \in DOMAIN work' : work'[j].op = "unexpand" =>
                j \in 1 .. l - 1 /\ j \in DOMAIN work /\ work'[j] = work[j]
  <2>1. \A j \in Expansions' : j \in Expansions /\ j < l /\ work'[j] = work[j]
    <3>1. l \in Nat
      BY LenProperties DEF TypeOK
    <3>2. \A j \in 1 .. l - 1 : j < l
      BY <3>1
    <3> QED
      BY <1>6, <3>2 DEF Expansions
  <2> QED
    BY <1>1, <1>5, <1>6, <2>1 DEF ResolvedInv
<1>7. CASE VisitStep /\ ~Failing
  <2>1. /\ work # <<>> /\ Top.op = "compile" /\ phase = "compile"
        /\ (Kind(n) \notin ValueKinds => n \in Nodes(prog))
    BY <1>7, StepCalls
  <2>2. ASSUME NEW fs \in Seq(Frame), KidsVisit(fs) PROVE ResolvedInv'
    BY <1>6, <1>7, <2>1, <2>2, StackStep DEF KidsVisit
  <2>3. CASE LetVisit
    <3>1. n \in Nodes(prog) /\ Kind(n) = "let"
      BY <2>1, <2>3, OtherKinds DEF LetVisit
    <3>2. Kids(n)[2] \in AnyNode
      BY <1>1, <3>1, LetKids DEF AnyNode
    <3> DEFINE f == Unbind(Len(variables) + 1)
               c == Kids(n)[2]
    <3>3. f \in Frame /\ f.op = "unbind"
      <4>1. Len(variables) + 1 \in Nat
        BY LenProperties DEF TypeOK
      <4> QED
        BY <4>1 DEF Unbind, Frame
    <3>4. Continue(<<f, Compile(c)>>)
      BY <2>3 DEF LetVisit
    <3> HIDE DEF f, c
    <3>5. /\ l \in Nat \ {0} /\ DOMAIN work' = 1 .. l + 1
          /\ \A j \in 1 .. l - 1 : j \in DOMAIN work /\ work'[j] = work[j]
          /\ work'[l] = f /\ work'[l + 1] = Compile(c)
      BY <2>1, <3>2, <3>3, <3>4, ScopeFrames DEF c
    <3>6. \A j \in DOMAIN work' : j \in 1 .. l - 1 \/ j = l \/ j = l + 1
      BY <3>5
    <3> QED
      BY <1>6, <1>7, <3>3, <3>5, <3>6 DEF Compile
  <2>4. CASE VariableVisit
    <3>1. n \in Nodes(prog)
      BY <2>1, <2>4, OtherKinds DEF VariableVisit
    <3>2. PICK i \in 1 .. Len(variables) :
            /\ variables[i] \in BoundTo(prog) /\ Resolves(Tag(n), i)
            /\ Continue(<<Unexpand(i, n), Compile(variables[i].rule)>>)
      BY <2>4 DEF VariableVisit
    <3> DEFINE f == Unexpand(i, n)
               r == variables[i].rule
    <3>3. f \in Frame /\ f.op = "unexpand" /\ f.node = n /\ f.idx = i
      <4>1. i \in Nat
        BY LenProperties DEF TypeOK
      <4> QED
        BY <3>1, <4>1 DEF Unexpand, Frame
    <3>4. r \in AnyNode
      BY <1>1, <3>2, RuleNotLive
    <3>5. Continue(<<f, Compile(r)>>)
      BY <3>2
    <3>6. Resolved(prog, n, i, variables[i])
      BY <2>1, <3>1, <3>2, NewlyResolved
    <3>7. UNCHANGED variables
      BY <2>4 DEF VariableVisit
    <3> HIDE DEF r, f
    <3>8. /\ l \in Nat \ {0} /\ DOMAIN work' = 1 .. l + 1
          /\ \A j \in 1 .. l - 1 : j \in DOMAIN work /\ work'[j] = work[j]
          /\ work'[l] = f /\ work'[l + 1] = Compile(r)
      BY <2>1, <3>3, <3>4, <3>5, ScopeFrames
    <3>9. \A j \in DOMAIN work' : (j \in 1 .. l - 1 /\ j < l) \/ j = l \/ j = l + 1
      BY <3>8
    <3> SUFFICES ASSUME NEW j \in DOMAIN work', work'[j].op = "unexpand"
                 PROVE  Resolved(prog, work'[j].node, work'[j].idx, variables'[work'[j].idx])
      BY <1>1 DEF ResolvedInv, Expansions
    <3>10. CASE j \in 1 .. l - 1 /\ j < l
      <4>1. j \in Expansions
        BY <3>8, <3>10 DEF Expansions
      <4> QED
        BY <1>5, <1>7, <3>8, <3>10, <4>1
    <3>11. CASE j = l
      BY <3>3, <3>6, <3>7, <3>8, <3>11
    <3>12. j # l + 1
      BY <3>8 DEF Compile
    <3> QED
      BY <3>9, <3>10, <3>11, <3>12
  <2> QED
    BY <1>7, <2>2, <2>3, <2>4, VisitCalls
<1>8. CASE ReturnStep /\ ~Failing
  <2> DEFINE fs == <<>>
  <2>1. work # <<>> /\ Continue(fs) /\ fs \in Seq(Frame) /\ Len(fs) = 0
    BY <1>8, StepReturns
  <2> HIDE DEF fs
  <2>2. \A k \in 1 .. Len(fs) : FALSE
    BY <2>1
  <2>3. \A j \in DOMAIN work' : j \in 1 .. l - 1 /\ j \in DOMAIN work /\ work'[j] = work[j]
    BY <2>1, <2>2, StackStep
  <2> QED
    BY <1>6, <1>8, <2>3
<1>9. CASE Failing \/ Finish
  BY <1>3, <1>9 DEF Failing, Fail, Finish
<1>10. CASE ValidateRule \/ BeginCollect \/ CollectStep
  <2>1. ValidateRule => work # <<>> /\ Top.op = "validate" /\ phase' \in {phase, "done"}
    BY DEF ValidateRule, Visiting, Fail
  <2>2. CollectStep => work # <<>> /\ Top.op = "collect" /\ phase' \in {phase, "done"}
    BY CollectWalks DEF Failing, Fail
  <2> QED
    BY <1>3, <1>10, <2>1, <2>2, PassOfTop DEF BeginCollect
<1> QED
  BY <1>2, <1>4, <1>7, <1>8, <1>9, <1>10
     DEF Next, CollectStep, VisitStep, ReturnStep, Returned

LEMMA ResolutionMeans ==
  TypeOK /\ Passes /\ ScopeInv /\ ResolvedInv => LexicalResolution
<1> SUFFICES ASSUME TypeOK, Passes, ScopeInv, ResolvedInv, NEW j \in Expansions
             PROVE  LET n == work[j].node
                        idx == work[j].idx IN
                    /\ Live(prog, n) /\ Binders(n) = {} => idx \in DOMAIN Builtins
                    /\ /\ Binders(n) # {}
                       /\ (UniqueNames /\ Tag(n) \notin BuiltinNames) \/ Live(prog, n)
                       => variables[idx].rule = prog.kids[Max(Binders(n))][1]
  BY DEF LexicalResolution, Live
<1> DEFINE n == work[j].node
           idx == work[j].idx
           b == variables[idx]
<1>1. j \in DOMAIN work /\ work[j].op = "unexpand" /\ work[j] \in Frame /\ work # <<>>
  BY ElementOfSeq, LenProperties DEF Expansions, TypeOK
<1>2. n \in Nodes(prog) /\ WellFormed(prog) /\ Tag(n) = prog.label[n].tag
  BY <1>1, ProgramNodes DEF Frame, TypeOK
<1>3. idx \in 1 .. Len(variables) /\ b \in BoundTo(prog)
  <2>1. idx \in 1 .. Len(variables)
    BY <1>1 DEF Passes, ScopeInv, Expanded
  <2> QED
    BY <2>1, ElementOfSeq DEF Passes
<1>4. Binders(n) = BindersIn(prog, n)
  BY <1>2, ProgramNodes DEF Binders, BindersIn, Encloses, EnclosesIn
<1>5. Resolved(prog, n, idx, b)
  BY DEF ResolvedInv
<1>6. CASE Live(prog, n)
  BY <1>4, <1>5, <1>6 DEF Resolved
<1>7. ASSUME UniqueNames, Tag(n) \notin BuiltinNames, Binders(n) # {}
      PROVE  b.rule = prog.kids[Max(Binders(n))][1]
  <2> DEFINE m == Max(Binders(n))
  <2>1. m \in Binders(n)
    <3>1. Binders(n) \subseteq Nodes(prog)
      BY DEF Binders
    <3> QED
      BY <1>2, <1>7, <3>1, Greatest
  <2>2. m \in Nodes(prog) /\ Tag(m) = Tag(n) /\ Kind(m) = "let"
    <3> HIDE DEF m
    <3>1. m \in Nodes(prog) /\ Tag(m) = Tag(n) /\ prog.label[m].kind = "let"
      BY <2>1 DEF Binders, Encloses
    <3> QED
      BY <1>2, <3>1, ProgramNodes
  <2>3. b.name = Tag(n)
    BY <1>2, <1>5 DEF Resolved
  <2>4. PICK l \in Nodes(prog) : /\ prog.label[l].kind = "let"
                                 /\ b = [name |-> prog.label[l].tag, rule |-> prog.kids[l][1]]
    BY <1>3, <1>7, <2>3 DEF BoundTo
  <2>5. Kind(l) = "let" /\ Tag(l) = Tag(n) /\ b.rule = prog.kids[l][1]
    <3>1. Kind(l) = "let" /\ Tag(l) = prog.label[l].tag
      BY <1>2, <2>4, ProgramNodes
    <3>2. b.name = prog.label[l].tag /\ b.rule = prog.kids[l][1]
      BY <2>4
    <3> QED
      BY <2>3, <3>1, <3>2
  <2>6. l = m
    <3> HIDE DEF m, n, b
    <3> QED
      BY <1>7, <2>2, <2>5 DEF UniqueNames
  <2> QED
    BY <2>5, <2>6
<1> QED
  BY <1>6, <1>7

\* If a name is bound, and all that are bound to it are being expanded, then the
\* name depends on itself.
LEMMA RecursionFound ==
  ASSUME TypeOK, Passes, ScopeInv, ExpandedInv, ResolvedInv, work # <<>>,
         Top.op = "compile", Top.node \in Nodes(prog), Kind(Top.node) = "variable",
         Candidates(Tag(Top.node)) = {}, Bindings(Tag(Top.node)) # {}
  PROVE  ~Acyclic
<1> DEFINE n == Top.node
           l == Len(work)
<1>1. /\ WellFormed(prog) /\ Tag(n) = prog.label[n].tag /\ prog.label[n].kind = "variable"
      /\ l \in DOMAIN work /\ l \in Nat \ {0} /\ DOMAIN work = 1 .. l /\ Top = work[l]
  BY ProgramNodes, LenProperties, EmptySeq DEF TypeOK, Top
<1>2. PICK i \in DOMAIN variables : variables[i].name = Tag(n) /\ i \in current_vars
  BY DEF Candidates, Bindings
<1>3. Expanded
  BY DEF Passes, ScopeInv
<1>4. PICK j \in Expansions : work[j].idx = i
  BY <1>2, <1>3 DEF Expanded
<1>5. j < l /\ j \in DOMAIN work /\ work[j].op = "unexpand" /\ work[j].node \in Nodes(prog)
  <2>1. j \in DOMAIN work /\ work[j].op = "unexpand" /\ j # l
    BY <1>1 DEF Expansions
  <2>2. work[j] \in Frame
    BY <2>1, ElementOfSeq, LenProperties DEF TypeOK
  <2> QED
    BY <1>1, <2>1, <2>2 DEF Frame
<1>6. prog.label[work[j].node].tag = Tag(n)
  BY <1>2, <1>4 DEF ResolvedInv, Resolved
<1>7. Within(prog, work[j].node, n)
  BY <1>1, <1>5 DEF ExpandedInv
<1>8. Tag(n) \in Names /\ \A d \in Decreasing(prog) : Below(prog, n, d, d[Tag(n)])
  BY <1>6, <1>7 DEF Within
<1>9. n \in Span(prog, n)
  BY <1>1, Subtree DEF Span, Nodes
<1>10. \A d \in Decreasing(prog) : d[Tag(n)] < d[Tag(n)] /\ d[Tag(n)] \in Int
  <2>1. \A d \in Decreasing(prog) : d[Tag(n)] \in Int
    BY <1>8 DEF Decreasing
  <2> QED
    BY <1>1, <1>8, <1>9, <2>1 DEF Below
<1>11. Decreasing(prog) = {}
  BY <1>10
<1> SUFFICES ASSUME NEW d \in [Names -> 1 .. Cardinality(Names)],
                    \A x, y \in Names : Mentions(x, y) => d[y] < d[x]
             PROVE  d \in Decreasing(prog)
  BY <1>11 DEF Acyclic
<1>12. d \in [Names -> Int]
  OBVIOUS
<1>13. ASSUME NEW k \in Nodes(prog), NEW v \in Nodes(prog),
              prog.label[k].kind = "let", prog.label[k].tag \in Names,
              prog.label[v].kind = "variable", prog.label[v].tag \in Names,
              k < v, v < prog.kids[k][2]
       PROVE  d[prog.label[v].tag] < d[prog.label[k].tag]
  <2>1. /\ Kind(k) = "let" /\ Tag(k) = prog.label[k].tag
        /\ Kind(v) = "variable" /\ Tag(v) = prog.label[v].tag
    BY <1>1, <1>13, ProgramNodes
  <2>2. Mentions(prog.label[k].tag, prog.label[v].tag)
    BY <1>13, <2>1 DEF Mentions
  <2> QED
    BY <1>13, <2>2
<1> QED
  BY <1>12, <1>13 DEF Decreasing

LEMMA RecursionStep ==
  /\ TypeOK /\ Passes /\ ScopeInv /\ ExpandedInv /\ ResolvedInv /\ AcyclicNeverRecursive
  /\ [Next]_vars
  => AcyclicNeverRecursive'
<1> SUFFICES ASSUME TypeOK, Passes, ScopeInv, ExpandedInv, ResolvedInv, AcyclicNeverRecursive,
                    [Next]_vars
             PROVE  AcyclicNeverRecursive'
  OBVIOUS
<1> DEFINE R == "RecursiveVariable"
<1>1. prog' = prog
  BY InputKept DEF input
<1>2. Acyclic' = Acyclic
  BY <1>1 DEF Acyclic, Mentions, Nodes, Kind, Tag
<1>3. CASE result' = result \/ result' # R
  BY <1>2, <1>3 DEF AcyclicNeverRecursive
<1>4. ASSUME NEW e, Fail(e), e # R PROVE AcyclicNeverRecursive'
  BY <1>3, <1>4 DEF Fail
<1>5. \A n : /\ ValidationError(n) # R /\ ValueError(n) # R
             /\ ReferenceError(n) # R /\ FlavorError(n) # R
  BY DEF ValidationError, ValueError, ReferenceError, FlavorError, NoError
<1>6. CASE CompileVariable
  <2> DEFINE n == Top.node
  <2>1. work # <<>> /\ Top.op = "compile" /\ Kind(n) = "variable"
    BY <1>6 DEF CompileVariable, Visiting
  <2>2. n \in Nodes(prog)
    BY <2>1, Compiled, OtherKinds
  <2>3. CASE Candidates(Tag(n)) = {} /\ Bindings(Tag(n)) # {}
    <3>1. ~Acyclic
      BY <2>1, <2>2, <2>3, RecursionFound
    <3> QED
      BY <1>2, <3>1 DEF AcyclicNeverRecursive
  <2> QED
    BY <1>3, <1>4, <1>6, <2>3 DEF CompileVariable
<1>7. CASE ValidateRule
  BY <1>3, <1>4, <1>5, <1>7 DEF ValidateRule
<1>8. CASE CollectStep
  BY <1>3, <1>4, <1>8 DEF CollectStep, CollectCapture, CollectReference, CollectLet, CollectOther
<1>9. CASE CompileValue \/ CompileReference
  BY <1>3, <1>4, <1>5, <1>9 DEF CompileValue, CompileReference
<1>10. CASE \/ CompileGroup \/ CompileAlternation \/ CompileLookaround \/ CompileRepetition
            \/ CompileMode \/ CompileLet
  BY <1>3, <1>4, <1>10 DEF CompileGroup, CompileAlternation, CompileLookaround,
     CompileRepetition, CompileMode, CompileLet
<1>11. CASE ReturnStep
  BY <1>3, <1>4, <1>11 DEF ReturnStep, BuildGroup, BuildAlternation, BuildLookaround,
     BuildRepetition, RestoreMode, UnbindLet, UnexpandVariable
<1>12. CASE BeginCollect \/ BeginCompile \/ Finish \/ Returned \/ UNCHANGED vars
  BY <1>3, <1>12 DEF BeginCollect, BeginCompile, Finish, Returned, vars, Ok
<1> QED
  BY <1>6, <1>7, <1>8, <1>9, <1>10, <1>11, <1>12
     DEF Next, CollectStep, ReturnStep

ResolutionInv == ExpandedInv /\ LetsInv /\ ResolvedInv /\ AcyclicNeverRecursive

\* The running let statements and expansions are those that the source has around
\* the node that is compiled, and no name is found recursive without a cycle.
THEOREM ScopesFollowSource == Spec => []ResolutionInv
<1>1. Init => ResolutionInv
  <2> SUFFICES ASSUME Init PROVE ResolutionInv
    OBVIOUS
  <2>1. DOMAIN work = {1} /\ work[1].op = "validate" /\ result # "RecursiveVariable"
    BY DEF Init, Validate, NoError
  <2> QED
    BY <2>1 DEF ResolutionInv, ExpandedInv, LetsInv, ResolvedInv, AcyclicNeverRecursive,
       Expansions
<1>2. TypeOK /\ Passes /\ ScopeInv /\ ResolutionInv /\ [Next]_vars => ResolutionInv'
  BY ExpandedStep, LetsStep, ResolvedStep, RecursionStep DEF ResolutionInv
<1> QED
  BY <1>1, <1>2, OwnFrames, ScopeInvariant, PTL DEF Spec

\* Outside the rules of lets, Variable::compile takes the rule of the innermost let
\* around the use, or the built-in if there is none.  In the rule of a let it takes
\* that of the let around the use, if no name is bound twice and the name is not
\* that of a built-in; of other uses in rules nothing is said, as the code searches
\* the bindings of the place where the rule is used.
THEOREM NamesResolve == Spec => []LexicalResolution
<1>1. TypeOK /\ Passes /\ ScopeInv /\ ResolutionInv => LexicalResolution
  BY ResolutionMeans DEF ResolutionInv
<1> QED
  BY <1>1, OwnFrames, ScopeInvariant, ScopesFollowSource, PTL

\* RecursiveVariable is only reported if some name is defined in terms of itself.
THEOREM RecursionIsReal == Spec => []AcyclicNeverRecursive
BY ScopesFollowSource, PTL DEF ResolutionInv
=============================================================================
