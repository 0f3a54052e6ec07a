--------------------------- MODULE CompilerOrder ---------------------------
(***************************************************************************)
(* Every reachable state of the compiler has its type.  And the nodes of   *)
(* the tree are visited in the order of the source, by all three passes,   *)
(* so that the groups that the second pass counts are those that the third *)
(* one opens, under the numbers by which the references mean them; and     *)
(* what a pass has validated is what the next one compiles.                *)
(***************************************************************************)
EXTENDS CompilerSafety, SequenceTheorems, FiniteSetTheorems, WellFoundedInduction, TLAPS

-----------------------------------------------------------------------------
(***************************************************************************)
(* The stack of running calls.                                             *)
(***************************************************************************)

LEMMA Prefix ==
  ASSUME NEW F, NEW s \in Seq(F), NEW n \in Nat, n <= Len(s)
  PROVE  /\ SubSeq(s, 1, n) \in Seq(F)
         /\ Len(SubSeq(s, 1, n)) = n
         /\ \A i \in 1 .. n : SubSeq(s, 1, n)[i] = s[i]
OBVIOUS

\* What is left of a stack when its top is replaced: the frames below the top,
\* then those of the calls that are made.
LEMMA Replaced ==
  ASSUME NEW F, NEW s \in Seq(F), s # <<>>, NEW fs \in Seq(F),
         NEW t, t = SubSeq(s, 1, Len(s) - 1) \o fs
  PROVE  /\ t \in Seq(F)
         /\ Len(t) = Len(s) - 1 + Len(fs)
         /\ \A i \in 1 .. Len(s) - 1 : t[i] = s[i]
         /\ \A i \in Len(s) .. Len(s) - 1 + Len(fs) : t[i] = fs[i - Len(s) + 1]
<1> DEFINE r == SubSeq(s, 1, Len(s) - 1)
<1>1. Len(s) - 1 \in Nat /\ Len(s) - 1 <= Len(s)
  BY EmptySeq
<1>2. /\ r \in Seq(F) /\ Len(r) = Len(s) - 1
      /\ \A i \in 1 .. Len(s) - 1 : r[i] = s[i]
  BY <1>1, Prefix
<1>3. t = r \o fs
  OBVIOUS
<1> HIDE DEF r
<1>4. /\ t \in Seq(F)
      /\ Len(t) = Len(r) + Len(fs)
      /\ \A i \in 1 .. Len(r) + Len(fs) :
           t[i] = IF i <= Len(r) THEN r[i] ELSE fs[i - Len(r)]
  BY <1>2, <1>3, ConcatProperties
<1>5. Len(fs) \in Nat
  BY LenProperties
<1>6. \A i \in Len(s) .. Len(s) - 1 + Len(fs) :
        i \in 1 .. Len(r) + Len(fs) /\ ~(i <= Len(r)) /\ i - Len(r) = i - Len(s) + 1
  BY <1>1, <1>2, <1>5
<1>7. \A i \in 1 .. Len(s) - 1 : i \in 1 .. Len(r) + Len(fs) /\ i <= Len(r)
  BY <1>1, <1>2, <1>5
<1>8. \A i \in 1 .. Len(s) - 1 : t[i] = s[i]
  BY <1>2, <1>4, <1>7
<1>9. \A i \in Len(s) .. Len(s) - 1 + Len(fs) : t[i] = fs[i - Len(s) + 1]
  BY <1>4, <1>6
<1>10. Len(t) = Len(s) - 1 + Len(fs)
  BY <1>2, <1>4
<1> QED
  BY <1>4, <1>8, <1>9, <1>10

LEMMA ShortSequences ==
  ASSUME NEW S
  PROVE  /\ <<>> \in Seq(S)
         /\ \A a \in S : <<a>> \in Seq(S)
         /\ \A a, b \in S : <<a, b>> \in Seq(S)
OBVIOUS

\* The frames that visit a list of nodes, last one first.
LEMMA Visits ==
  ASSUME NEW F, NEW N, NEW ns \in Seq(N)
  PROVE  /\ (\A n \in N : Validate(n) \in F) => ValidateAll(ns) \in Seq(F)
         /\ (\A n \in N : Compile(n) \in F) => CompileAll(ns) \in Seq(F)
         /\ \A w : (\A n \in N : Collect(n, w) \in F) => CollectAll(ns, w) \in Seq(F)
<1>1. Len(ns) \in Nat /\ DOMAIN ns = 1 .. Len(ns)
  BY LenProperties
<1>2. \A i \in 1 .. Len(ns) : ns[Len(ns) + 1 - i] \in N
  BY <1>1, ElementOfSeq
<1> QED
  BY <1>1, <1>2 DEF ValidateAll, CompileAll, CollectAll

LEMMA TopFrame ==
  ASSUME TypeOK, work # <<>>
  PROVE  /\ Top \in Frame
         /\ Top.op \in {"validate", "collect", "build"} => Top.node \in Nodes(prog)
         /\ Top.op = "collect" => Top.within \in BOOLEAN
         /\ Top.op = "compile" => Top.node \in AnyNode
         /\ Top.op = "restore" => Top.quantifier \in Quantifiers
<1>1. Len(work) \in 1 .. Len(work)
  BY EmptySeq DEF TypeOK
<1>2. Top \in Frame
  BY <1>1, ElementOfSeq DEF TypeOK, Top
<1> QED
  BY <1>2 DEF Frame

\* Where the frames are after a step.
LEMMA Positions ==
  ASSUME TypeOK, work # <<>>, NEW fs \in Seq(Frame), Continue(fs)
  PROVE  /\ Len(work) \in Nat \ {0} /\ DOMAIN work = 1 .. Len(work)
         /\ Len(fs) \in Nat
         /\ DOMAIN work' = 1 .. Len(work) - 1 + Len(fs)
         /\ \A i \in 1 .. Len(work) - 1 : work'[i] = work[i]
         /\ \A i \in Len(work) .. Len(work) - 1 + Len(fs) :
              work'[i] = fs[i - Len(work) + 1]
<1>1. work \in Seq(Frame)
  BY DEF TypeOK
<1>2. /\ work' \in Seq(Frame) /\ Len(work') = Len(work) - 1 + Len(fs)
      /\ \A i \in 1 .. Len(work) - 1 : work'[i] = work[i]
      /\ \A i \in Len(work) .. Len(work) - 1 + Len(fs) :
              work'[i] = fs[i - Len(work) + 1]
  <2>1. work' = SubSeq(work, 1, Len(work) - 1) \o fs
    BY DEF Continue, Rest
  <2> QED
    BY <1>1, <2>1, Replaced
<1>3. /\ Len(work) \in Nat \ {0} /\ DOMAIN work = 1 .. Len(work) /\ Len(fs) \in Nat
      /\ DOMAIN work' = 1 .. Len(work')
  BY <1>1, <1>2, LenProperties, EmptySeq
<1> QED
  BY <1>2, <1>3

\* A visit leaves a stack of frames behind.
LEMMA ContinueType ==
  ASSUME TypeOK, work # <<>>, UNCHANGED input, NEW fs \in Seq(Frame), Continue(fs)
  PROVE  work' \in Seq(Frame')
<1>1. Frame' = Frame
  BY DEF Frame, AnyNode, Nodes, input
<1> QED
  BY <1>1, Replaced DEF TypeOK, Continue, Rest

-----------------------------------------------------------------------------
(***************************************************************************)
(* The program.                                                            *)
(***************************************************************************)

LEMMA NodeTypes ==
  ASSUME WellFormed(prog), NEW n \in AnyNode
  PROVE  /\ Kind(n) \in Kinds /\ Tag(n) \in AnyTag /\ Num(n) \in Int
         /\ Kids(n) \in Seq(Nodes(prog))
         /\ Kind(n) \notin ValueKinds => n \in Nodes(prog)
<1>1. CASE n \in BuiltinRules
  <2>1. Kind(n) \in {"boundary", "grapheme", "class"} /\ Tag(n) = NoName /\ Num(n) = 0
    BY <1>1 DEF Kind, Tag, Num, KindOf, LabelOf, BuiltinKind
  <2>2. Kids(n) = <<>>
    BY <1>1 DEF Kids, KidsOf
  <2>3. Kids(n) \in Seq(Nodes(prog))
    BY <2>2
  <2>4. {"boundary", "grapheme", "class"} \subseteq ValueKinds /\ ValueKinds \subseteq Kinds
    BY DEF Kinds, ValueKinds
  <2>5. NoName \in AnyTag
    BY DEF AnyTag
  <2>6. Kind(n) \in ValueKinds /\ Tag(n) \in AnyTag /\ Num(n) \in Int
    BY <2>1, <2>4, <2>5
  <2> QED
    BY <2>3, <2>4, <2>6
<1>2. CASE n \in Nodes(prog) /\ n \notin BuiltinRules
  <2>1. LabelOf(prog, n) \in Label /\ Kids(n) \in Seq(Nodes(prog))
    BY <1>2 DEF LabelOf, Kids, KidsOf, WellFormed
  <2> QED
    BY <1>2, <2>1 DEF Kind, Tag, Num, KindOf, Label
<1> QED
  BY <1>1, <1>2 DEF AnyNode

\* Nodes of the program are not built-in rules.
LEMMA ProgramNodes ==
  ASSUME WellFormed(prog), NEW n \in Nodes(prog)
  PROVE  /\ n \in AnyNode /\ n \notin BuiltinRules
         /\ Kind(n) = prog.label[n].kind /\ Tag(n) = prog.label[n].tag
         /\ Num(n) = prog.label[n].num /\ Kids(n) = prog.kids[n]
BY DEF WellFormed, AnyNode, BuiltinRules, StartRule, EndRule, GraphemeRule, CodepointRule,
       Nodes, Kind, Tag, Num, Kids, KindOf, LabelOf, KidsOf

LEMMA LetKids ==
  ASSUME WellFormed(prog), NEW n \in Nodes(prog), Kind(n) = "let"
  PROVE  /\ Kids(n)[1] \in Nodes(prog) /\ Kids(n)[2] \in Nodes(prog)
         /\ Tag(n) \in Names
<1>1. Kids(n) = prog.kids[n] /\ Tag(n) = prog.label[n].tag /\ prog.label[n].kind = "let"
  BY ProgramNodes
<1>2. Arity(prog, n) /\ Tags(prog, n) /\ prog.kids[n] \in Seq(Nodes(prog))
  BY DEF WellFormed
<1>3. Len(prog.kids[n]) = 2 /\ prog.label[n].tag \in Names
  BY <1>1, <1>2 DEF Arity, Tags
<1>4. prog.kids[n][1] \in Nodes(prog) /\ prog.kids[n][2] \in Nodes(prog)
  BY <1>2, <1>3, ElementOfSeq
<1> QED
  BY <1>1, <1>3, <1>4

-----------------------------------------------------------------------------
(***************************************************************************)
(* The steps.                                                              *)
(***************************************************************************)

LEMMA TypePrime ==
  ASSUME TypeOK, UNCHANGED input,
         phase' \in Phases, work' \in Seq(Frame),
         count' \in Nat, used_names' \in [Names -> Nat],
         next_idx' \in Nat \ {0}, default_quantifier' \in Quantifiers,
         variables' \in Seq([name : AnyTag, rule : AnyNode]),
         current_vars' \in SUBSET Nat, diagnostics' \in Seq(Nodes(prog)),
         out' \in Seq(Token), vals' \in Seq([empty : BOOLEAN, assertion : BOOLEAN])
  PROVE  TypeOK'
<1>1. prog' = prog /\ flavor' = flavor /\ features' = features
  BY DEF input
<1>2. /\ Nodes(prog)' = Nodes(prog) /\ AnyNode' = AnyNode /\ WellFormed(prog)' = WellFormed(prog)
      /\ Frame' = Frame /\ Token' = Token
  BY <1>1 DEF Nodes, AnyNode, Frame, Token
<1> QED
  BY <1>1, <1>2 DEF TypeOK

LEMMA FailType ==
  ASSUME TypeOK, UNCHANGED input, NEW e, Fail(e)
  PROVE  TypeOK'
<1>1. phase' \in Phases /\ work' \in Seq(Frame)
  BY DEF Fail, Phases
<1> QED
  BY <1>1, TypePrime DEF Fail, TypeOK, groups, state, scope, emitted

\* A visit that only makes calls.
LEMMA CallsType ==
  ASSUME TypeOK, work # <<>>, UNCHANGED <<input, phase, groups, state, emitted>>,
         NEW fs \in Seq(Frame), Continue(fs)
  PROVE  TypeOK'
<1>1. work' \in Seq(Frame)
  BY Replaced DEF TypeOK, Continue, Rest
<1> QED
  BY <1>1, TypePrime DEF TypeOK, groups, state, scope, emitted

LEMMA ValidateRuleType == TypeOK /\ ValidateRule => TypeOK'
<1> SUFFICES ASSUME TypeOK, ValidateRule PROVE TypeOK'
  OBVIOUS
<1> DEFINE n == Top.node
<1>1. work # <<>> /\ Top.op = "validate" /\ UNCHANGED input
  BY DEF ValidateRule, Visiting
<1>2. n \in Nodes(prog) /\ n \in AnyNode /\ WellFormed(prog)
  BY <1>1, TopFrame DEF AnyNode, TypeOK
<1>3. ValidateAll(ValidatedParts(n)) \in Seq(Frame)
  <2>1. ValidatedParts(n) \in Seq(Nodes(prog))
    BY <1>2, NodeTypes DEF ValidatedParts
  <2>2. \A m \in Nodes(prog) : Validate(m) \in Frame
    BY DEF Validate, Frame
  <2> QED
    BY <2>1, <2>2, Visits
<1>4. CASE Fail(ValidationError(n))
  BY <1>1, <1>4, FailType
<1>5. CASE /\ Continue(ValidateAll(ValidatedParts(n)))
           /\ UNCHANGED <<phase, result, groups, state, emitted>>
  BY <1>1, <1>3, <1>5, CallsType
<1> QED
  BY <1>4, <1>5 DEF ValidateRule

\* The frames of the pass get_capturing_groups.
LEMMA CollectFrames ==
  ASSUME TypeOK, NEW n \in Nodes(prog), NEW w \in BOOLEAN
  PROVE  CollectAll(Kids(n), w) \in Seq(Frame)
<1>1. Kids(n) \in Seq(Nodes(prog))
  BY NodeTypes DEF TypeOK, AnyNode
<1>2. \A m \in Nodes(prog) : Collect(m, w) \in Frame
  BY DEF Collect, Frame
<1> QED
  BY <1>1, <1>2, Visits

LEMMA CollectCaptureType == TypeOK /\ CollectCapture => TypeOK'
<1> SUFFICES ASSUME TypeOK, CollectCapture PROVE TypeOK'
  OBVIOUS
<1> DEFINE n == Top.node
<1>1. /\ work # <<>> /\ Top.op = "collect" /\ Kind(n) = "capture"
      /\ UNCHANGED input
  BY DEF CollectCapture, Visiting
<1>2. n \in Nodes(prog) /\ WellFormed(prog)
  BY <1>1, TopFrame DEF TypeOK
<1>3. CASE Fail("CaptureInLet") \/ Fail("NameUsedMultipleTimes")
  BY <1>1, <1>3, FailType
<1>4. CASE /\ count' = count + 1
           /\ used_names' = IF IsNamed(n) THEN [used_names EXCEPT ![Tag(n)] = count + 1]
                                          ELSE used_names
           /\ Continue(CollectAll(Kids(n), FALSE))
           /\ UNCHANGED <<phase, result, state, emitted>>
  <2>1. CollectAll(Kids(n), FALSE) \in Seq(Frame)
    BY <1>2, CollectFrames
  <2>2. work' \in Seq(Frame)
    BY <1>1, <1>4, <2>1, Replaced DEF TypeOK, Continue, Rest
  <2>3. count' \in Nat /\ used_names' \in [Names -> Nat]
    <3>1. count + 1 \in Nat /\ used_names \in [Names -> Nat]
      BY DEF TypeOK
    <3>2. [used_names EXCEPT ![Tag(n)] = count + 1] \in [Names -> Nat]
      BY <3>1
    <3> QED
      BY <1>4, <3>1, <3>2
  <2> QED
    BY <1>1, <1>4, <2>2, <2>3, TypePrime DEF TypeOK, state, scope, emitted
<1> QED
  BY <1>3, <1>4 DEF CollectCapture

LEMMA CollectReferenceType == TypeOK /\ CollectReference => TypeOK'
<1> SUFFICES ASSUME TypeOK, CollectReference PROVE TypeOK'
  OBVIOUS
<1>1. work # <<>> /\ UNCHANGED input
  BY DEF CollectReference, Visiting
<1>2. CASE Fail("ReferenceInLet")
  BY <1>1, <1>2, FailType
<1>3. CASE Continue(<<>>) /\ UNCHANGED <<phase, result, groups, state, emitted>>
  BY <1>1, <1>3, ShortSequences, CallsType
<1> QED
  BY <1>2, <1>3 DEF CollectReference

LEMMA CollectLetType == TypeOK /\ CollectLet => TypeOK'
<1> SUFFICES ASSUME TypeOK, CollectLet PROVE TypeOK'
  OBVIOUS
<1> DEFINE n == Top.node
           fs == <<Collect(Kids(n)[2], Top.within), Collect(Kids(n)[1], TRUE)>>
<1>1. /\ work # <<>> /\ Top.op = "collect" /\ Kind(n) = "let"
      /\ Continue(fs) /\ UNCHANGED <<input, phase, result, groups, state, emitted>>
  BY DEF CollectLet, Visiting
<1>2. n \in Nodes(prog) /\ WellFormed(prog) /\ Top.within \in BOOLEAN
  BY <1>1, TopFrame DEF TypeOK
<1>3. Kids(n)[1] \in Nodes(prog) /\ Kids(n)[2] \in Nodes(prog)
  BY <1>1, <1>2, LetKids
<1>4. fs \in Seq(Frame)
  <2>1. Collect(Kids(n)[2], Top.within) \in Frame /\ Collect(Kids(n)[1], TRUE) \in Frame
    BY <1>2, <1>3 DEF Collect, Frame
  <2> QED
    BY <2>1, ShortSequences
<1> QED
  BY <1>1, <1>4, CallsType

LEMMA CollectOtherType == TypeOK /\ CollectOther => TypeOK'
<1> SUFFICES ASSUME TypeOK, CollectOther PROVE TypeOK'
  OBVIOUS
<1>1. /\ work # <<>> /\ Top.op = "collect"
      /\ Continue(CollectAll(Kids(Top.node), Top.within))
      /\ UNCHANGED <<input, phase, result, groups, state, emitted>>
  BY DEF CollectOther, Visiting
<1>2. Top.node \in Nodes(prog) /\ Top.within \in BOOLEAN
  BY <1>1, TopFrame
<1> QED
  BY <1>1, <1>2, CollectFrames, CallsType

LEMMA PassType == TypeOK /\ (BeginCollect \/ BeginCompile \/ Finish) => TypeOK'
<1> SUFFICES ASSUME TypeOK, BeginCollect \/ BeginCompile \/ Finish PROVE TypeOK'
  OBVIOUS
<1>1. 1 \in Nodes(prog)
  BY DEF TypeOK, WellFormed, Nodes
<1>2. <<Collect(1, FALSE)>> \in Seq(Frame) /\ <<Compile(1)>> \in Seq(Frame)
  BY <1>1 DEF Collect, Compile, Frame, AnyNode
<1>3. phase' \in Phases /\ work' \in Seq(Frame)
  BY <1>2 DEF BeginCollect, BeginCompile, Finish, Phases, TypeOK
<1> QED
  BY <1>3, TypePrime
     DEF BeginCollect, BeginCompile, Finish, TypeOK, groups, state, scope, emitted

-----------------------------------------------------------------------------
(***************************************************************************)
(* The steps of the pass compile.                                          *)
(***************************************************************************)

LEMMA EmitType ==
  ASSUME TypeOK, NEW n \in AnyNode, NEW number \in Nat,
         NEW form \in Quantifiers \cup {Plain, ByNumber, ByName}, Emit(n, number, form)
  PROVE  out' \in Seq(Token)
<1>1. [node |-> n, number |-> number, form |-> form] \in Token
  BY DEF Token
<1> QED
  BY <1>1, AppendProperties DEF Emit, TypeOK

LEMMA ValsType ==
  ASSUME TypeOK, NEW v \in [empty : BOOLEAN, assertion : BOOLEAN]
  PROVE  /\ vals' = Append(vals, v) => vals' \in Seq([empty : BOOLEAN, assertion : BOOLEAN])
         /\ \A n \in AnyNode :
              Return(n, v) => vals' \in Seq([empty : BOOLEAN, assertion : BOOLEAN])
<1> DEFINE S == [empty : BOOLEAN, assertion : BOOLEAN]
<1>1. vals \in Seq(S)
  BY DEF TypeOK
<1>2. ASSUME NEW n \in AnyNode
      PROVE  SubSeq(vals, 1, Len(vals) - Len(Kids(n))) \in Seq(S)
  <2>1. Kids(n) \in Seq(Nodes(prog))
    BY NodeTypes DEF TypeOK
  <2>2. Len(Kids(n)) \in Nat /\ Len(vals) \in Nat
    BY <1>1, <2>1, LenProperties
  <2>3. \A i \in 1 .. Len(vals) - Len(Kids(n)) : i \in 1 .. Len(vals)
    BY <2>2
  <2>4. \A i \in 1 .. Len(vals) - Len(Kids(n)) : vals[i] \in S
    BY <1>1, <2>3, ElementOfSeq
  <2> HIDE DEF S
  <2> QED
    BY <2>2, <2>4, SubSeqProperties
<1> HIDE DEF S
<1>3. v \in S
  BY DEF S
<1>4. Append(vals, v) \in Seq(S)
  BY <1>1, <1>3, AppendProperties
<1>5. \A n \in AnyNode : Append(SubSeq(vals, 1, Len(vals) - Len(Kids(n))), v) \in Seq(S)
  BY <1>2, <1>3, AppendProperties
<1> QED
  BY <1>4, <1>5 DEF Return, S

LEMMA ValueTypes ==
  ASSUME NEW e \in BOOLEAN, NEW a \in BOOLEAN
  PROVE  Value(e, a) \in [empty : BOOLEAN, assertion : BOOLEAN]
BY DEF Value

\* The frames that compile the parts of a node, below the frame f.
LEMMA CompileFrames ==
  ASSUME TypeOK, NEW n \in AnyNode, NEW f \in Frame
  PROVE  <<f>> \o CompileAll(Kids(n)) \in Seq(Frame)
<1>1. Kids(n) \in Seq(Nodes(prog))
  BY NodeTypes DEF TypeOK
<1>2. \A m \in Nodes(prog) : Compile(m) \in Frame
  BY DEF Compile, Frame, AnyNode
<1>3. CompileAll(Kids(n)) \in Seq(Frame) /\ <<f>> \in Seq(Frame)
  BY <1>1, <1>2, Visits, ShortSequences
<1> QED
  BY <1>3, ConcatProperties

\* A call of compile is for a node of the program unless its kind is a value.
LEMMA Compiled ==
  ASSUME TypeOK, work # <<>>, Top.op = "compile"
  PROVE  /\ Top.node \in AnyNode /\ Kind(Top.node) \in Kinds
         /\ Kind(Top.node) \notin ValueKinds => Top.node \in Nodes(prog)
BY TopFrame, NodeTypes DEF TypeOK

LEMMA OtherKinds ==
  (GroupKinds \cup LookaroundKinds \cup ModeKinds \cup ReferenceKinds
     \cup {"alternation", "repetition", "variable", "let"}) \cap ValueKinds = {}
BY DEF GroupKinds, LookaroundKinds, ModeKinds, ReferenceKinds, ValueKinds

LEMMA CompileValueType == TypeOK /\ CompileValue => TypeOK'
<1> SUFFICES ASSUME TypeOK, CompileValue PROVE TypeOK'
  OBVIOUS
<1> DEFINE n == Top.node
<1>1. work # <<>> /\ Top.op = "compile" /\ UNCHANGED input
  BY DEF CompileValue, Visiting
<1>2. CASE Fail(ValueError(n))
  BY <1>1, <1>2, FailType
<1>3. CASE /\ Continue(<<>>)
           /\ Emit(n, 0, Plain)
           /\ vals' = Append(vals, ValueResult(n))
           /\ UNCHANGED <<phase, result, groups, state>>
  <2>1. n \in AnyNode
    BY <1>1, Compiled
  <2>2. work' \in Seq(Frame)
    BY <1>1, <1>3, ShortSequences, Replaced DEF TypeOK, Continue, Rest
  <2>3. out' \in Seq(Token)
    BY <1>3, <2>1, EmitType
  <2>4. ValueResult(n) \in [empty : BOOLEAN, assertion : BOOLEAN]
    BY ValueTypes DEF ValueResult
  <2>5. vals' \in Seq([empty : BOOLEAN, assertion : BOOLEAN])
    BY <1>3, <2>4, ValsType
  <2> QED
    BY <1>1, <1>3, <2>2, <2>3, <2>5, TypePrime DEF TypeOK, groups, state, scope
<1> QED
  BY <1>2, <1>3 DEF CompileValue

LEMMA CompileGroupType == TypeOK /\ CompileGroup => TypeOK'
<1> SUFFICES ASSUME TypeOK, CompileGroup PROVE TypeOK'
  OBVIOUS
<1> DEFINE n == Top.node
<1>1. /\ work # <<>> /\ Top.op = "compile" /\ Kind(n) \in GroupKinds
      /\ Continue(<<Build(n)>> \o CompileAll(Kids(n)))
      /\ next_idx' = IF Kind(n) = "capture" THEN next_idx + 1 ELSE next_idx
      /\ IF Kind(n) = "group"
         THEN UNCHANGED out
         ELSE Emit(n, IF Kind(n) = "capture" THEN next_idx ELSE 0, Plain)
      /\ UNCHANGED <<input, phase, result, groups, scope, diagnostics, vals>>
  BY DEF CompileGroup, Visiting
<1>2. n \in Nodes(prog) /\ n \in AnyNode
  BY <1>1, Compiled, OtherKinds DEF AnyNode
<1>3. work' \in Seq(Frame)
  <2>1. Build(n) \in Frame
    BY <1>2 DEF Build, Frame
  <2>2. <<Build(n)>> \o CompileAll(Kids(n)) \in Seq(Frame)
    BY <1>2, <2>1, CompileFrames
  <2> QED
    BY <1>1, <2>2, Replaced DEF TypeOK, Continue, Rest
<1>4. next_idx' \in Nat \ {0}
  BY <1>1 DEF TypeOK
<1>5. out' \in Seq(Token)
  <2>1. CASE Kind(n) = "group"
    BY <1>1, <2>1 DEF TypeOK
  <2>2. CASE Kind(n) # "group"
    <3>1. (IF Kind(n) = "capture" THEN next_idx ELSE 0) \in Nat
      BY DEF TypeOK
    <3> QED
      BY <1>1, <1>2, <2>2, <3>1, EmitType
  <2> QED
    BY <2>1, <2>2
<1> QED
  BY <1>1, <1>3, <1>4, <1>5, TypePrime DEF TypeOK, groups, scope

\* Alternations and repetitions: their parts are compiled first.
LEMMA CompilePartsType == TypeOK /\ (CompileAlternation \/ CompileRepetition) => TypeOK'
<1> SUFFICES ASSUME TypeOK, CompileAlternation \/ CompileRepetition PROVE TypeOK'
  OBVIOUS
<1> DEFINE n == Top.node
<1>1. /\ work # <<>> /\ Top.op = "compile" /\ Kind(n) \in {"alternation", "repetition"}
      /\ Continue(<<Build(n)>> \o CompileAll(Kids(n)))
      /\ UNCHANGED <<input, phase, result, groups, state, emitted>>
  BY DEF CompileAlternation, CompileRepetition, Visiting
<1>2. n \in Nodes(prog) /\ n \in AnyNode
  BY <1>1, Compiled, OtherKinds DEF AnyNode
<1>3. Build(n) \in Frame
  BY <1>2 DEF Build, Frame
<1>4. <<Build(n)>> \o CompileAll(Kids(n)) \in Seq(Frame)
  BY <1>2, <1>3, CompileFrames
<1> QED
  BY <1>1, <1>4, CallsType

LEMMA CompileLookaroundType == TypeOK /\ CompileLookaround => TypeOK'
<1> SUFFICES ASSUME TypeOK, CompileLookaround PROVE TypeOK'
  OBVIOUS
<1> DEFINE n == Top.node
<1>1. /\ work # <<>> /\ Top.op = "compile" /\ Kind(n) \in LookaroundKinds
      /\ UNCHANGED input
  BY DEF CompileLookaround, Visiting
<1>2. CASE Fail("UnsupportedLookaround")
  BY <1>1, <1>2, FailType
<1>3. CASE /\ diagnostics' = IF flavor = "JavaScript" /\ Kind(n) = "lookbehind"
                             THEN Append(diagnostics, n) ELSE diagnostics
           /\ Emit(n, 0, Plain)
           /\ Continue(<<Build(n)>> \o CompileAll(Kids(n)))
           /\ UNCHANGED <<phase, result, groups, next_idx, scope, vals>>
  <2>1. n \in Nodes(prog) /\ n \in AnyNode
    BY <1>1, Compiled, OtherKinds DEF AnyNode
  <2>2. Build(n) \in Frame
    BY <2>1 DEF Build, Frame
  <2>3. <<Build(n)>> \o CompileAll(Kids(n)) \in Seq(Frame)
    BY <2>1, <2>2, CompileFrames
  <2>4. work' \in Seq(Frame)
    BY <1>1, <1>3, <2>3, Replaced DEF TypeOK, Continue, Rest
  <2>5. out' \in Seq(Token)
    BY <1>3, <2>1, EmitType
  <2>6. diagnostics' \in Seq(Nodes(prog))
    BY <1>3, <2>1, AppendProperties DEF TypeOK
  <2> QED
    BY <1>1, <1>3, <2>4, <2>5, <2>6, TypePrime DEF TypeOK, groups, scope
<1> QED
  BY <1>2, <1>3 DEF CompileLookaround

\* The calls that return a result built from those of the parts.
LEMMA BuildType ==
  TypeOK /\ (BuildGroup \/ BuildAlternation \/ BuildLookaround) => TypeOK'
<1> SUFFICES ASSUME TypeOK, BuildGroup \/ BuildAlternation \/ BuildLookaround
             PROVE  TypeOK'
  OBVIOUS
<1> DEFINE n == Top.node
           S == [empty : BOOLEAN, assertion : BOOLEAN]
<1>1. /\ work # <<>> /\ Top.op = "build" /\ Continue(<<>>)
      /\ UNCHANGED <<input, phase, result, groups, state, out>>
  BY DEF BuildGroup, BuildAlternation, BuildLookaround, Visiting
<1>2. n \in AnyNode
  BY <1>1, TopFrame DEF AnyNode
<1>3. work' \in Seq(Frame)
  BY <1>1, ShortSequences, Replaced DEF TypeOK, Continue, Rest
<1>4. GroupResult(n) \in S /\ AlternationResult(n) \in S /\ Value(FALSE, TRUE) \in S
  BY ValueTypes DEF GroupResult, AlternationResult
<1>5. \/ Return(n, GroupResult(n)) \/ Return(n, AlternationResult(n))
      \/ Return(n, Value(FALSE, TRUE))
  BY DEF BuildGroup, BuildAlternation, BuildLookaround
<1>6. vals' \in Seq(S)
  BY <1>2, <1>4, <1>5, ValsType
<1> QED
  BY <1>1, <1>3, <1>6, TypePrime DEF TypeOK, groups, state, scope

LEMMA BuildRepetitionType == TypeOK /\ BuildRepetition => TypeOK'
<1> SUFFICES ASSUME TypeOK, BuildRepetition PROVE TypeOK'
  OBVIOUS
<1> DEFINE n == Top.node
<1>1. work # <<>> /\ Top.op = "build" /\ UNCHANGED input
  BY DEF BuildRepetition, Visiting
<1>2. CASE Fail("UnsupportedRepeatedAssertion")
  BY <1>1, <1>2, FailType
<1>3. CASE /\ Emit(n, 0, QuantifierOf(n))
           /\ Return(n, Opaque)
           /\ Continue(<<>>)
           /\ UNCHANGED <<phase, result, groups, state>>
  <2>1. n \in AnyNode
    BY <1>1, TopFrame DEF AnyNode
  <2>2. work' \in Seq(Frame)
    BY <1>1, <1>3, ShortSequences, Replaced DEF TypeOK, Continue, Rest
  <2>3. QuantifierOf(n) \in Quantifiers
    BY DEF QuantifierOf, TypeOK
  <2>4. out' \in Seq(Token)
    BY <1>3, <2>1, <2>3, EmitType
  <2>5. Opaque \in [empty : BOOLEAN, assertion : BOOLEAN]
    BY ValueTypes DEF Opaque
  <2>6. vals' \in Seq([empty : BOOLEAN, assertion : BOOLEAN])
    BY <1>3, <2>1, <2>5, ValsType
  <2> QED
    BY <1>1, <1>3, <2>2, <2>4, <2>6, TypePrime DEF TypeOK, groups, state, scope
<1> QED
  BY <1>2, <1>3 DEF BuildRepetition

LEMMA ModeType == TypeOK /\ (CompileMode \/ RestoreMode) => TypeOK'
<1> SUFFICES ASSUME TypeOK, CompileMode \/ RestoreMode PROVE TypeOK'
  OBVIOUS
<1>1. /\ work # <<>>
      /\ UNCHANGED <<input, phase, result, groups, next_idx, variables, current_vars,
                     diagnostics, emitted>>
  BY DEF CompileMode, RestoreMode, Visiting, Returning
<1>2. default_quantifier' \in Quantifiers
  BY <1>1, TopFrame DEF CompileMode, RestoreMode, Returning, Quantifiers
<1>3. work' \in Seq(Frame)
  <2>1. CASE RestoreMode
    BY <1>1, <2>1, ShortSequences, Replaced DEF RestoreMode, TypeOK, Continue, Rest
  <2>2. CASE CompileMode
    <3> DEFINE fs == <<Restore(default_quantifier)>> \o CompileAll(Kids(Top.node))
    <3>1. Top.op = "compile" /\ Continue(fs)
      BY <2>2 DEF CompileMode, Visiting
    <3>2. Restore(default_quantifier) \in Frame
      BY DEF Restore, Frame, TypeOK
    <3>3. fs \in Seq(Frame)
      BY <1>1, <3>1, <3>2, Compiled, CompileFrames
    <3> QED
      BY <1>1, <3>1, <3>3, Replaced DEF TypeOK, Continue, Rest
  <2> QED
    BY <2>1, <2>2
<1> QED
  BY <1>1, <1>2, <1>3, TypePrime DEF TypeOK, groups, emitted

LEMMA CompileLetType == TypeOK /\ CompileLet => TypeOK'
<1> SUFFICES ASSUME TypeOK, CompileLet PROVE TypeOK'
  OBVIOUS
<1> DEFINE n == Top.node
           binding == [name |-> Tag(n), rule |-> Kids(n)[1]]
           fs == <<Unbind(Len(variables) + 1), Compile(Kids(n)[2])>>
<1>1. /\ work # <<>> /\ Top.op = "compile" /\ Kind(n) = "let"
      /\ variables' = Append(variables, binding)
      /\ Continue(fs)
      /\ UNCHANGED <<input, phase, result, groups, next_idx, default_quantifier,
                     current_vars, diagnostics, emitted>>
  BY DEF CompileLet, Visiting
<1>2. n \in Nodes(prog) /\ n \in AnyNode /\ WellFormed(prog)
  BY <1>1, Compiled, OtherKinds DEF AnyNode, TypeOK
<1>3. /\ Kids(n)[1] \in AnyNode /\ Kids(n)[2] \in AnyNode /\ Tag(n) \in AnyTag
  BY <1>1, <1>2, LetKids, NodeTypes DEF AnyNode
<1>4. variables' \in Seq([name : AnyTag, rule : AnyNode])
  <2>1. binding \in [name : AnyTag, rule : AnyNode]
    BY <1>3
  <2> QED
    BY <1>1, <2>1, AppendProperties DEF TypeOK
<1>5. work' \in Seq(Frame)
  <2>1. Unbind(Len(variables) + 1) \in Frame
    BY LenProperties DEF Unbind, Frame, TypeOK
  <2>2. Compile(Kids(n)[2]) \in Frame
    BY <1>3 DEF Compile, Frame
  <2>3. fs \in Seq(Frame)
    BY <2>1, <2>2, ShortSequences
  <2> QED
    BY <1>1, <2>3, Replaced DEF TypeOK, Continue, Rest
<1> QED
  BY <1>1, <1>4, <1>5, TypePrime DEF TypeOK, groups, emitted

LEMMA UnbindLetType == TypeOK /\ UnbindLet => TypeOK'
<1> SUFFICES ASSUME TypeOK, UnbindLet PROVE TypeOK'
  OBVIOUS
<1> DEFINE V == [name : AnyTag, rule : AnyNode]
<1>1. /\ work # <<>>
      /\ variables' = SubSeq(variables, 1, Len(variables) - 1)
      /\ Continue(<<>>)
      /\ UNCHANGED <<input, phase, result, groups, next_idx, default_quantifier,
                     current_vars, diagnostics, emitted>>
  BY DEF UnbindLet, Returning
<1>2. variables' \in Seq(V)
  <2> HIDE DEF V
  <2>1. variables \in Seq(V)
    BY DEF TypeOK, V
  <2>2. Len(variables) \in Nat /\ \A i \in 1 .. Len(variables) - 1 : variables[i] \in V
    BY <2>1, LenProperties, ElementOfSeq
  <2> QED
    BY <1>1, <2>2, SubSeqProperties
<1>3. work' \in Seq(Frame)
  BY <1>1, ShortSequences, Replaced DEF TypeOK, Continue, Rest
<1> QED
  BY <1>1, <1>2, <1>3, TypePrime DEF TypeOK, groups, emitted

LEMMA CompileVariableType == TypeOK /\ CompileVariable => TypeOK'
<1> SUFFICES ASSUME TypeOK, CompileVariable PROVE TypeOK'
  OBVIOUS
<1> DEFINE n == Top.node
<1>1. work # <<>> /\ Top.op = "compile" /\ Kind(n) = "variable" /\ UNCHANGED input
  BY DEF CompileVariable, Visiting
<1>2. CASE Fail("UnsupportedPomskySyntax") \/ Fail("RecursiveVariable") \/ Fail("UnknownVariable")
  BY <1>1, <1>2, FailType
<1>3. ASSUME NEW i \in DOMAIN variables,
             current_vars' = current_vars \cup {i},
             Continue(<<Unexpand(i, n), Compile(variables[i].rule)>>),
             UNCHANGED <<phase, result, groups, next_idx, default_quantifier,
                         variables, diagnostics, emitted>>
      PROVE  TypeOK'
  <2>1. n \in Nodes(prog)
    BY <1>1, Compiled, OtherKinds
  <2>2. i \in Nat /\ variables[i] \in [name : AnyTag, rule : AnyNode]
    <3> DEFINE V == [name : AnyTag, rule : AnyNode]
    <3>1. variables \in Seq(V)
      BY DEF TypeOK
    <3> HIDE DEF V
    <3>2. i \in 1 .. Len(variables) /\ Len(variables) \in Nat
      BY <3>1, LenProperties
    <3>3. variables[i] \in V
      BY <3>1, <3>2, ElementOfSeq
    <3> QED
      BY <3>2, <3>3 DEF V
  <2>3. Unexpand(i, n) \in Frame /\ Compile(variables[i].rule) \in Frame
    BY <2>1, <2>2 DEF Unexpand, Compile, Frame
  <2>4. work' \in Seq(Frame)
    BY <1>1, <1>3, <2>3, ShortSequences, Replaced DEF TypeOK, Continue, Rest
  <2>5. current_vars' \in SUBSET Nat
    BY <1>3, <2>2 DEF TypeOK
  <2> QED
    BY <1>1, <1>3, <2>4, <2>5, TypePrime DEF TypeOK, groups, emitted
<1> QED
  BY <1>2, <1>3 DEF CompileVariable

LEMMA UnexpandVariableType == TypeOK /\ UnexpandVariable => TypeOK'
<1> SUFFICES ASSUME TypeOK, UnexpandVariable PROVE TypeOK'
  OBVIOUS
<1>1. /\ work # <<>>
      /\ current_vars' = current_vars \ {Top.idx}
      /\ Continue(<<>>)
      /\ UNCHANGED <<input, phase, result, groups, next_idx, default_quantifier,
                     variables, diagnostics, emitted>>
  BY DEF UnexpandVariable, Returning
<1>2. work' \in Seq(Frame) /\ current_vars' \in SUBSET Nat
  BY <1>1, ShortSequences, Replaced DEF TypeOK, Continue, Rest
<1> QED
  BY <1>1, <1>2, TypePrime DEF TypeOK, groups, emitted

LEMMA CompileReferenceType == TypeOK /\ CompileReference => TypeOK'
<1> SUFFICES ASSUME TypeOK, CompileReference PROVE TypeOK'
  OBVIOUS
<1> DEFINE n == Top.node
<1>1. /\ work # <<>> /\ Top.op = "compile" /\ Kind(n) \in ReferenceKinds
      /\ UNCHANGED input
  BY DEF CompileReference, Visiting
<1>2. CASE Fail(ReferenceError(n)) \/ Fail(FlavorError(n))
  BY <1>1, <1>2, FailType
<1>3. CASE /\ ReferenceError(n) = NoError
           /\ Emit(n, GroupNumber(n), ReferenceForm(n))
           /\ vals' = Append(vals, Opaque)
           /\ Continue(<<>>)
           /\ UNCHANGED <<phase, result, groups, state>>
  <2>1. n \in Nodes(prog) /\ n \in AnyNode
    BY <1>1, Compiled, OtherKinds DEF AnyNode
  <2>2. GroupNumber(n) \in Nat
    <3>1. CASE Kind(n) = "refName"
      <4>1. Tag(n) \in Names
        BY <2>1, <3>1, ProgramNodes DEF TypeOK, WellFormed, Tags
      <4>2. used_names \in [Names -> Nat]
        BY DEF TypeOK
      <4>3. used_names[Tag(n)] \in Nat
        BY <4>1, <4>2
      <4> QED
        BY <3>1, <4>3 DEF GroupNumber
    <3>2. CASE Kind(n) # "refName"
      <4>1. GroupNumber(n) \in 1 .. count
        BY <1>3, <3>2 DEF ReferenceError, NoError
      <4> QED
        BY <4>1 DEF TypeOK
    <3> QED
      BY <3>1, <3>2
  <2>3. out' \in Seq(Token)
    BY <1>3, <2>1, <2>2, EmitType DEF ReferenceForm
  <2>4. Opaque \in [empty : BOOLEAN, assertion : BOOLEAN]
    BY ValueTypes DEF Opaque
  <2>5. vals' \in Seq([empty : BOOLEAN, assertion : BOOLEAN])
    BY <1>3, <2>4, ValsType
  <2>6. work' \in Seq(Frame)
    BY <1>1, <1>3, ShortSequences, Replaced DEF TypeOK, Continue, Rest
  <2> QED
    BY <1>1, <1>3, <2>3, <2>5, <2>6, TypePrime DEF TypeOK, groups, state, scope
<1> QED
  BY <1>2, <1>3 DEF CompileReference

-----------------------------------------------------------------------------

LEMMA InitType == Init => TypeOK
<1> SUFFICES ASSUME Init PROVE TypeOK
  OBVIOUS
<1>1. WellFormed(prog)
  BY ProgramsAssumption DEF Init
<1>2. 1 \in Nodes(prog)
  BY <1>1 DEF WellFormed, Nodes
<1>3. work \in Seq(Frame)
  BY <1>2 DEF Init, Validate, Frame
<1>4. variables \in Seq([name : AnyTag, rule : AnyNode])
  <2>1. \A x \in BuiltinNames, r \in BuiltinRules :
          [name |-> x, rule |-> r] \in [name : AnyTag, rule : AnyNode]
    BY DEF AnyTag, AnyNode
  <2> QED
    BY <2>1 DEF Init, NewCompileState, Builtins, BuiltinNames, BuiltinRules
<1> QED
  BY <1>1, <1>3, <1>4 DEF Init, NewCompileState, TypeOK, Phases, Quantifiers

\* The state of the compiler always has its type.
THEOREM TypeInvariant == Spec => []TypeOK
<1>1. TypeOK /\ [Next]_vars => TypeOK'
  <2>1. TypeOK /\ UNCHANGED vars => TypeOK'
    BY DEF vars, input, groups, state, scope, emitted, TypeOK, Frame, Token, AnyNode, Nodes
  <2>2. Returned => UNCHANGED vars
    BY DEF Returned
  <2>3. TypeOK /\ Next => TypeOK'
    BY <2>1, <2>2, ValidateRuleType, CollectCaptureType, CollectReferenceType,
       CollectLetType, CollectOtherType, PassType, CompileValueType, CompileGroupType,
       CompilePartsType, CompileLookaroundType, BuildType, BuildRepetitionType, ModeType,
       CompileLetType, UnbindLetType, CompileVariableType, UnexpandVariableType,
       CompileReferenceType
    DEF Next
  <2> QED
    BY <2>1, <2>3
<1> QED
  BY InitType, <1>1, PTL DEF Spec

-----------------------------------------------------------------------------
(***************************************************************************)
(* Trees.                                                                  *)
(***************************************************************************)

Span(p, n) == n .. p.last[n]

LEMMA LeastElement ==
  ASSUME NEW S, S \subseteq Nat, S # {}
  PROVE  \E x \in S : \A y \in S : x <= y
<1>1. PICK x \in S : \A y \in S : <<y, x>> \notin OpToRel(<, Nat)
  BY WFMin, NatLessThanWellFounded, Zenon
<1>2. \A y \in S : ~(y < x)
  BY <1>1, Zenon DEF OpToRel
<1> QED
  BY <1>2

\* The facts about one node that WellFormed states, in terms of its parts.
LEMMA Subtree ==
  ASSUME WellFormed(prog), NEW n \in Nodes(prog)
  PROVE  /\ n \in Nat /\ prog.size \in Nat
         /\ prog.last[n] \in Nodes(prog) /\ n <= prog.last[n]
         /\ Kids(n) = prog.kids[n] /\ Kids(n) \in Seq(Nodes(prog))
         /\ Len(Kids(n)) \in Nat /\ DOMAIN Kids(n) = 1 .. Len(Kids(n))
         /\ \A i \in 1 .. Len(Kids(n)) :
              /\ Kids(n)[i] \in Nodes(prog)
              /\ Kids(n)[i] <= prog.last[Kids(n)[i]] /\ prog.last[Kids(n)[i]] \in Nodes(prog)
         /\ Len(Kids(n)) = 0 => prog.last[n] = n
         /\ Len(Kids(n)) # 0 => /\ Kids(n)[1] = n + 1
                                /\ prog.last[Kids(n)[Len(Kids(n))]] = prog.last[n]
         /\ \A i \in 1 .. Len(Kids(n)) - 1 : Kids(n)[i + 1] = prog.last[Kids(n)[i]] + 1
<1>1. Kids(n) = prog.kids[n]
  BY ProgramNodes
<1>2. Kids(n) \in Seq(Nodes(prog)) /\ Children(prog, n)
  BY <1>1 DEF WellFormed
<1>3. Len(Kids(n)) \in Nat /\ DOMAIN Kids(n) = 1 .. Len(Kids(n))
  BY <1>2, LenProperties
<1>4. \A i \in 1 .. Len(Kids(n)) : Kids(n)[i] \in Nodes(prog)
  BY <1>2, ElementOfSeq
<1>5. \A m \in Nodes(prog) : m \in Nat /\ prog.last[m] \in Nodes(prog) /\ m <= prog.last[m]
  BY DEF WellFormed, Nodes
<1>6. prog.size \in Nat
  BY DEF WellFormed
<1>7. Len(Kids(n)) = 0 <=> Kids(n) = <<>>
  BY <1>2, EmptySeq
<1> QED
  BY <1>1, <1>2, <1>3, <1>4, <1>5, <1>6, <1>7 DEF Children

\* The children of a node start after each other, each after the subtree of the
\* one before it.
LEMMA KidsDisjoint ==
  ASSUME WellFormed(prog), NEW n \in Nodes(prog),
         NEW i \in 1 .. Len(Kids(n)), NEW j \in 1 .. Len(Kids(n)), i < j
  PROVE  prog.last[Kids(n)[i]] < Kids(n)[j]
<1> DEFINE ks == Kids(n)
           S == {k \in i + 1 .. Len(ks) : ks[k] <= prog.last[ks[i]]}
<1>1. /\ Len(ks) \in Nat
      /\ \A k \in 1 .. Len(ks) : /\ ks[k] \in Nat /\ prog.last[ks[k]] \in Nat
                                 /\ ks[k] <= prog.last[ks[k]]
      /\ \A k \in 1 .. Len(ks) - 1 : ks[k + 1] = prog.last[ks[k]] + 1
  BY Subtree DEF Nodes
<1>2. i \in 1 .. Len(ks) /\ j \in 1 .. Len(ks)
  OBVIOUS
<1> HIDE DEF ks
<1>3. S # {} => FALSE
  <2> SUFFICES ASSUME S # {} PROVE FALSE
    OBVIOUS
  <2>1. S \subseteq Nat
    BY <1>1
  <2>2. PICK k \in S : \A y \in S : k <= y
    <3> HIDE DEF S
    <3> QED
      BY <2>1, LeastElement
  <2>3. k \in i + 1 .. Len(ks) /\ ks[k] <= prog.last[ks[i]]
    OBVIOUS
  <2>4. k - 1 \in 1 .. Len(ks) - 1 /\ k - 1 \in i .. Len(ks) /\ k - 1 + 1 = k
    BY <1>1, <1>2, <2>3
  <2>5. ks[k] = prog.last[ks[k - 1]] + 1
    BY <1>1, <1>2, <2>4
  <2>6. CASE k - 1 = i
    BY <1>1, <1>2, <2>3, <2>5, <2>6
  <2>7. CASE k - 1 # i
    <3>1. k - 1 \in i + 1 .. Len(ks)
      BY <1>1, <1>2, <2>4, <2>7
    <3>2. k - 1 \notin S
      BY <2>2, <2>4
    <3>3. ~(ks[k - 1] <= prog.last[ks[i]])
      BY <3>1, <3>2
    <3>4. k - 1 \in 1 .. Len(ks) /\ k \in 1 .. Len(ks)
      BY <1>1, <1>2, <2>3, <3>1
    <3>5. /\ ks[k - 1] \in Nat /\ prog.last[ks[k - 1]] \in Nat
          /\ ks[k - 1] <= prog.last[ks[k - 1]] /\ prog.last[ks[i]] \in Nat
      BY <1>1, <1>2, <3>4
    <3> HIDE DEF S
    <3> QED
      BY <2>3, <2>5, <3>3, <3>5
  <2> QED
    BY <2>6, <2>7
<1>4. j \in i + 1 .. Len(ks) /\ j \notin S
  BY <1>1, <1>2, <1>3 DEF ks
<1> QED
  BY <1>1, <1>2, <1>4 DEF ks

\* The subtrees of the children lie in that of the node, after the node.
LEMMA KidsSpan ==
  ASSUME WellFormed(prog), NEW n \in Nodes(prog), NEW i \in 1 .. Len(Kids(n))
  PROVE  /\ Kids(n)[i] \in Nodes(prog) /\ n < Kids(n)[i]
         /\ Kids(n)[i] <= prog.last[Kids(n)[i]] /\ prog.last[Kids(n)[i]] <= prog.last[n]
<1> DEFINE ks == Kids(n)
           k == Len(ks)
<1>1. /\ k \in Nat /\ n \in Nat /\ prog.last[n] \in Nat
      /\ \A a \in 1 .. k : /\ ks[a] \in Nodes(prog) /\ ks[a] \in Nat
                           /\ prog.last[ks[a]] \in Nat /\ ks[a] <= prog.last[ks[a]]
      /\ k # 0 => ks[1] = n + 1 /\ prog.last[ks[k]] = prog.last[n]
  BY Subtree DEF Nodes
<1>2. \A a, b \in 1 .. k : a < b => prog.last[ks[a]] < ks[b]
  BY KidsDisjoint
<1> HIDE DEF ks, k
<1>3. i \in 1 .. k /\ 1 \in 1 .. k /\ k \in 1 .. k
  BY <1>1 DEF k, ks
<1>4. n < ks[i]
  <2>1. CASE i = 1
    BY <1>1, <1>3, <2>1
  <2>2. CASE i # 1
    <3>1. 1 < i
      BY <1>3, <2>2
    <3>2. prog.last[ks[1]] < ks[i]
      BY <1>2, <1>3, <3>1
    <3> QED
      BY <1>1, <1>3, <3>2
  <2> QED
    BY <2>1, <2>2
<1>5. prog.last[ks[i]] <= prog.last[n]
  <2>1. CASE i = k
    BY <1>1, <1>3, <2>1
  <2>2. CASE i # k
    <3>1. i < k
      BY <1>1, <1>3, <2>2
    <3>2. prog.last[ks[i]] < ks[k]
      BY <1>2, <1>3, <3>1
    <3> QED
      BY <1>1, <1>3, <3>2
  <2> QED
    BY <2>1, <2>2
<1> QED
  BY <1>1, <1>3, <1>4, <1>5 DEF ks

\* Whatever is in the subtree of a node, below it, is in that of a child.
LEMMA KidsCover ==
  ASSUME WellFormed(prog), NEW n \in Nodes(prog), NEW m \in Span(prog, n), m # n
  PROVE  \E i \in 1 .. Len(Kids(n)) : m \in Span(prog, Kids(n)[i])
<1> DEFINE ks == Kids(n)
           k == Len(ks)
           S == {a \in 1 .. k : m <= prog.last[ks[a]]}
<1>1. /\ k \in Nat /\ n \in Nat /\ prog.last[n] \in Nat
      /\ \A a \in 1 .. k : ks[a] \in Nat /\ prog.last[ks[a]] \in Nat
      /\ k = 0 => prog.last[n] = n
      /\ k # 0 => ks[1] = n + 1 /\ prog.last[ks[k]] = prog.last[n]
      /\ \A a \in 1 .. k - 1 : ks[a + 1] = prog.last[ks[a]] + 1
  BY Subtree DEF Nodes
<1>2. m \in Nat /\ n < m /\ m <= prog.last[n]
  BY <1>1 DEF Span
<1> HIDE DEF ks, k
<1>3. k # 0 /\ k \in S
  BY <1>1, <1>2
<1>4. S \subseteq Nat
  BY <1>1
<1>5. PICK a \in S : \A b \in S : a <= b
  <2> HIDE DEF S
  <2> QED
    BY <1>3, <1>4, LeastElement
<1>6. ks[a] <= m
  <2>1. CASE a = 1
    BY <1>1, <1>2, <1>3, <2>1
  <2>2. CASE a # 1
    <3>1. a - 1 \in 1 .. k - 1 /\ a - 1 \in 1 .. k /\ a - 1 + 1 = a /\ ~(a <= a - 1)
      BY <1>1, <2>2
    <3>2. a - 1 \notin S
      BY <1>5, <3>1
    <3>3. ~(m <= prog.last[ks[a - 1]]) /\ ks[a] = prog.last[ks[a - 1]] + 1
      BY <1>1, <3>1, <3>2
    <3> QED
      BY <1>1, <1>2, <3>1, <3>3
  <2> QED
    BY <2>1, <2>2
<1>7. a \in 1 .. k /\ m \in ks[a] .. prog.last[ks[a]]
  BY <1>1, <1>2, <1>6
<1> QED
  BY <1>7 DEF Span, ks, k

\* Subtrees are nested or disjoint.
LEMMA SubtreesNest ==
  ASSUME WellFormed(prog), NEW n \in Nodes(prog), NEW m \in Span(prog, n)
  PROVE  m \in Nodes(prog) /\ prog.last[m] <= prog.last[n]
<1> DEFINE Bad(a) == \E b \in Span(prog, a) : ~(prog.last[b] <= prog.last[a])
           S == {d \in Nat : \E a \in Nodes(prog) : d = prog.size - a /\ Bad(a)}
<1>1. /\ prog.size \in Nat
      /\ \A a \in Nodes(prog) : a \in Nat /\ prog.last[a] \in Nodes(prog) /\ prog.last[a] \in Nat
      /\ \A a : a \in Nodes(prog) <=> a \in 1 .. prog.size
  BY Subtree DEF Nodes
<1>2. \A a \in Nodes(prog) : \A b \in Span(prog, a) : b \in Nodes(prog)
  BY <1>1 DEF Span
<1>3. S # {} => FALSE
  <2> SUFFICES ASSUME S # {} PROVE FALSE
    OBVIOUS
  <2>1. S \subseteq Nat
    OBVIOUS
  <2>2. PICK d \in S : \A e \in S : d <= e
    <3> HIDE DEF S
    <3> QED
      BY <2>1, LeastElement
  <2>3. PICK a \in Nodes(prog) : d = prog.size - a /\ Bad(a)
    BY <2>2
  <2>4. PICK b \in Span(prog, a) : ~(prog.last[b] <= prog.last[a])
    BY <2>3
  <2>5. b # a
    BY <1>1, <2>4
  <2>6. PICK i \in 1 .. Len(Kids(a)) : b \in Span(prog, Kids(a)[i])
    BY <2>4, <2>5, KidsCover
  <2> DEFINE c == Kids(a)[i]
  <2>7. c \in Nodes(prog) /\ a < c /\ prog.last[c] <= prog.last[a]
    BY <2>6, KidsSpan
  <2> HIDE DEF c
  <2>8. b \in Span(prog, c)
    BY <2>6 DEF c
  <2> HIDE DEF Bad
  <2>9. prog.size - c \in Nat /\ ~(d <= prog.size - c)
    <3>1. c \in 1 .. prog.size /\ a \in Nat
      BY <1>1, <2>7
    <3> HIDE DEF S
    <3> QED
      BY <1>1, <2>3, <2>7, <3>1
  <2>10. ~Bad(c)
    BY <2>2, <2>7, <2>9
  <2>11. prog.last[b] <= prog.last[c]
    BY <2>8, <2>10 DEF Bad
  <2>12. b \in Nodes(prog)
    BY <1>2, <2>4
  <2>13. prog.last[a] \in Nat /\ prog.last[b] \in Nat /\ prog.last[c] \in Nat
    BY <1>1, <2>3, <2>7, <2>12
  <2> HIDE DEF S
  <2> QED
    BY <2>4, <2>7, <2>11, <2>13
<1>4. prog.size - n \in Nat
  BY <1>1
<1>5. ~Bad(n)
  BY <1>3, <1>4
<1> QED
  BY <1>2, <1>5

\* A subtree that starts before a child and reaches it contains the parent.
LEMMA SubtreeOfParent ==
  ASSUME WellFormed(prog), NEW n \in Nodes(prog), NEW i \in 1 .. Len(Kids(n)),
         NEW b \in Nodes(prog), b < Kids(n)[i], Kids(n)[i] <= prog.last[b]
  PROVE  b <= n /\ prog.last[n] <= prog.last[b]
<1> DEFINE k == Kids(n)[i]
<1>1. k \in Nodes(prog) /\ n < k /\ k <= prog.last[k] /\ prog.last[k] <= prog.last[n]
  BY KidsSpan
<1>2. \A a \in Nodes(prog) : a \in Nat /\ prog.last[a] \in Nat
  BY Subtree DEF Nodes
<1>3. b <= n
  <2> SUFFICES ASSUME n < b PROVE FALSE
    BY <1>2
  <2>1. b \in Span(prog, n) /\ b # n
    BY <1>1, <1>2 DEF Span
  <2>2. PICK j \in 1 .. Len(Kids(n)) : b \in Span(prog, Kids(n)[j])
    BY <2>1, KidsCover
  <2>3. Kids(n)[j] \in Nodes(prog)
    BY KidsSpan
  <2>4. Kids(n)[j] <= b /\ prog.last[b] <= prog.last[Kids(n)[j]]
    <3>1. b \in Kids(n)[j] .. prog.last[Kids(n)[j]]
      BY <2>2 DEF Span
    <3>2. prog.last[b] <= prog.last[Kids(n)[j]]
      BY <2>2, <2>3, SubtreesNest
    <3> QED
      BY <1>2, <2>3, <3>1, <3>2
  <2>5. Kids(n)[j] < k /\ k <= prog.last[Kids(n)[j]]
    BY <1>1, <1>2, <2>3, <2>4
  <2>6. i \in Nat /\ j \in Nat
    BY <2>2
  <2>7. CASE j = i
    BY <1>1, <1>2, <2>5, <2>7
  <2>8. CASE j < i
    BY <1>1, <1>2, <2>3, <2>5, <2>8, KidsDisjoint
  <2>9. CASE i < j
    <3>1. prog.last[k] < Kids(n)[j]
      BY <2>9, KidsDisjoint
    <3> QED
      BY <1>1, <1>2, <2>3, <2>5, <3>1
  <2> QED
    BY <2>6, <2>7, <2>8, <2>9
<1>4. n \in Span(prog, b)
  BY <1>1, <1>2, <1>3 DEF Span
<1> QED
  BY <1>3, <1>4, SubtreesNest

-----------------------------------------------------------------------------
(***************************************************************************)
(* Counting.                                                               *)
(***************************************************************************)

\* The elements of a set of positions up to n: one more position counts for one
\* or for nothing.
LEMMA CountOneMore ==
  ASSUME NEW S, NEW n \in Nat
  PROVE  /\ IsFiniteSet(S \cap (1 .. n)) /\ Cardinality(S \cap (1 .. n)) \in Nat
         /\ Cardinality(S \cap (1 .. n + 1)) =
              Cardinality(S \cap (1 .. n)) + (IF n + 1 \in S THEN 1 ELSE 0)
         /\ Cardinality(S \cap (1 .. 0)) = 0
<1>1. IsFiniteSet(S \cap (1 .. n))
  <2>1. IsFiniteSet(1 .. n)
    BY FS_Interval
  <2> QED
    BY <2>1, FS_Intersection
<1>2. Cardinality(S \cap (1 .. n)) \in Nat
  BY <1>1, FS_CardinalityType
<1>3. ASSUME n + 1 \in S
      PROVE  Cardinality(S \cap (1 .. n + 1)) = Cardinality(S \cap (1 .. n)) + 1
  <2>1. S \cap (1 .. n + 1) = (S \cap (1 .. n)) \cup {n + 1} /\ n + 1 \notin S \cap (1 .. n)
    BY <1>3
  <2> QED
    BY <1>1, <1>2, <1>3, <2>1, FS_AddElement
<1>4. ASSUME n + 1 \notin S
      PROVE  Cardinality(S \cap (1 .. n + 1)) = Cardinality(S \cap (1 .. n))
  <2>1. S \cap (1 .. n + 1) = S \cap (1 .. n)
    BY <1>4
  <2> QED
    BY <1>1, <1>2, <1>4, <2>1
<1>5. Cardinality(S \cap (1 .. 0)) = 0
  <2>1. S \cap (1 .. 0) = {}
    OBVIOUS
  <2> QED
    BY <2>1, FS_EmptySet
<1> QED
  BY <1>1, <1>2, <1>3, <1>4, <1>5

\* Every number up to the number of elements is that of some element.
LEMMA CountReaches ==
  ASSUME NEW S, NEW n \in Nat, NEW v \in 1 .. Cardinality(S \cap (1 .. n))
  PROVE  \E m \in 1 .. n : m \in S /\ Cardinality(S \cap (1 .. m)) = v
<1> DEFINE Count(m) == Cardinality(S \cap (1 .. m))
           T == {m \in 0 .. n : v <= Count(m)}
<1>1. \A m \in Nat : /\ Count(m) \in Nat
                     /\ Count(m + 1) = Count(m) + (IF m + 1 \in S THEN 1 ELSE 0)
  BY CountOneMore
<1>2. Count(0) = 0
  BY CountOneMore
<1>3. v \in Nat /\ 1 <= v /\ v <= Count(n)
  BY <1>1
<1> HIDE DEF Count
<1>4. n \in T /\ T \subseteq Nat
  BY <1>3
<1>5. PICK m \in T : \A k \in T : m <= k
  <2> HIDE DEF T
  <2> QED
    BY <1>4, LeastElement
<1>6. m \in 0 .. n /\ v <= Count(m)
  OBVIOUS
<1>7. m # 0
  BY <1>2, <1>3, <1>6
<1>8. m - 1 \in Nat /\ m - 1 \in 0 .. n /\ m - 1 + 1 = m /\ ~(m <= m - 1)
  BY <1>6, <1>7
<1>9. m - 1 \notin T
  BY <1>5, <1>8
<1>10. ~(v <= Count(m - 1))
  BY <1>8, <1>9
<1>11. /\ Count(m - 1) \in Nat
       /\ Count(m) = Count(m - 1) + (IF m \in S THEN 1 ELSE 0)
  BY <1>1, <1>8
<1> HIDE DEF T
<1>12. m \in S /\ Count(m) = v
  BY <1>3, <1>6, <1>10, <1>11
<1>13. m \in 1 .. n
  BY <1>6, <1>7
<1> QED
  BY <1>12, <1>13 DEF Count

-----------------------------------------------------------------------------
(***************************************************************************)
(* What the frames on the stack are going to visit.                        *)
(***************************************************************************)

Live(p, n) == ~InLetRule(p, n)
LiveNodes(p) == {n \in Nodes(p) : Live(p, n)}
Captures(p) == {n \in Nodes(p) : IsCapture(p, n)}

(***************************************************************************)
(* The nodes a frame has yet to visit: in the pass get_capturing_groups    *)
(* the subtree, in the pass compile what is not in the rule of a let, for  *)
(* such a rule is compiled where its name is used, never or many times.    *)
(***************************************************************************)
Open(p, f) ==
  IF f.op = "collect" THEN Span(p, f.node)
  ELSE IF f.op = "compile" /\ f.node \in Nodes(p)
  THEN {m \in Span(p, f.node) : Live(p, m)}
  ELSE {}

Pending(p, frames) == UNION {Open(p, frames[i]) : i \in DOMAIN frames}

\* The frames higher on the stack are for nodes that come first.
Ordered(p, frames) ==
  \A i, j \in DOMAIN frames : i < j =>
    \A c \in Open(p, frames[i]), d \in Open(p, frames[j]) : d < c

\* Of the nodes in reach, those that have been visited come first.
InOrder(p, frames, reach) ==
  /\ Ordered(p, frames)
  /\ Pending(p, frames) \subseteq reach
  /\ \A c \in reach, d \in Pending(p, frames) : c \notin Pending(p, frames) => c < d

LEMMA OpenNodes ==
  ASSUME WellFormed(prog)
  PROVE  \A f \in Frame : Open(prog, f) \subseteq Nodes(prog) /\ Open(prog, f) \subseteq Nat
<1> SUFFICES ASSUME NEW f \in Frame, NEW m \in Open(prog, f)
             PROVE  m \in Nodes(prog)
  BY DEF Nodes
<1>1. CASE f.op = "collect"
  <2>1. f.node \in Nodes(prog) /\ m \in Span(prog, f.node)
    BY <1>1 DEF Frame, Open
  <2> QED
    BY <2>1, SubtreesNest
<1>2. CASE f.op # "collect"
  <2>1. f.node \in Nodes(prog) /\ m \in Span(prog, f.node)
    BY <1>2 DEF Open
  <2> QED
    BY <2>1, SubtreesNest
<1> QED
  BY <1>1, <1>2

\* The top frame is replaced by frames for the same nodes, n excepted.
LEMMA Replacing ==
  ASSUME TypeOK, work # <<>>, NEW fs \in Seq(Frame), Continue(fs),
         Ordered(prog, work), Ordered(prog, fs),
         NEW n, Pending(prog, fs) = Open(prog, Top) \ {n},
         n \in Open(prog, Top) \/ Open(prog, Top) = {}
  PROVE  /\ Ordered(prog, work')
         /\ Open(prog, Top) = {} => Pending(prog, work') = Pending(prog, work)
         /\ Open(prog, Top) # {} => Pending(prog, work') = Pending(prog, work) \ {n}
<1> DEFINE k == Len(work)
<1>1. /\ work' \in Seq(Frame) /\ Len(work') = k - 1 + Len(fs)
      /\ \A i \in 1 .. k - 1 : work'[i] = work[i]
      /\ \A i \in k .. k - 1 + Len(fs) : work'[i] = fs[i - k + 1]
  <2>1. work \in Seq(Frame) /\ work' = SubSeq(work, 1, Len(work) - 1) \o fs
    BY DEF TypeOK, Continue, Rest
  <2> QED
    BY <2>1, Replaced
<1>2. k \in Nat \ {0} /\ DOMAIN work = 1 .. k /\ Len(fs) \in Nat /\ DOMAIN fs = 1 .. Len(fs)
  BY LenProperties, EmptySeq DEF TypeOK
<1>3. DOMAIN work' = 1 .. k - 1 + Len(fs)
  BY <1>1, LenProperties
<1>4. /\ Top = work[k]
      /\ \A i \in 1 .. k : Open(prog, work[i]) \subseteq Nat
  BY <1>2, ElementOfSeq, OpenNodes DEF TypeOK, Top
<1> HIDE DEF k
<1>5. \A i \in DOMAIN work' : i \in 1 .. k - 1 \/ (i \in k .. k - 1 + Len(fs) /\ i - k + 1 \in 1 .. Len(fs))
  BY <1>2, <1>3
<1>6. \A i \in 1 .. Len(fs) : /\ i + k - 1 \in k .. k - 1 + Len(fs) /\ i + k - 1 \in DOMAIN work'
                              /\ work'[i + k - 1] = fs[i]
  <2> TAKE i \in 1 .. Len(fs)
  <2> DEFINE j == i + k - 1
  <2>1. j \in k .. k - 1 + Len(fs) /\ j - k + 1 = i /\ j \in DOMAIN work'
    BY <1>2, <1>3
  <2> HIDE DEF j
  <2>2. work'[j] = fs[j - k + 1]
    BY <1>1, <2>1
  <2> QED
    BY <2>1, <2>2 DEF j
<1>7. \A i \in 1 .. Len(fs) : Open(prog, fs[i]) \subseteq Open(prog, Top)
  BY <1>2 DEF Pending, k
<1>8. \A i \in 1 .. k - 1 : i \in DOMAIN work /\ i < k /\ k \in DOMAIN work /\ i \in DOMAIN work'
  BY <1>2, <1>3
<1>9. Ordered(prog, work')
  <2> SUFFICES ASSUME NEW i \in DOMAIN work', NEW j \in DOMAIN work', i < j,
                      NEW c \in Open(prog, work'[i]), NEW d \in Open(prog, work'[j])
               PROVE  d < c
    BY DEF Ordered
  <2>1. CASE j \in 1 .. k - 1
    <3>1. i \in 1 .. k - 1
      BY <1>2, <1>5, <2>1
    <3> QED
      BY <1>1, <1>8, <2>1, <3>1 DEF Ordered
  <2>2. CASE j \in k .. k - 1 + Len(fs) /\ j - k + 1 \in 1 .. Len(fs)
    <3>1. work'[j] = fs[j - k + 1] /\ d \in Open(prog, Top)
      BY <1>1, <1>7, <2>2
    <3>2. CASE i \in 1 .. k - 1
      BY <1>1, <1>4, <1>8, <3>1, <3>2 DEF Ordered
    <3>3. CASE i \in k .. k - 1 + Len(fs) /\ i - k + 1 \in 1 .. Len(fs)
      <4>1. work'[i] = fs[i - k + 1]
        BY <1>1, <3>3
      <4>2. i - k + 1 < j - k + 1
        BY <1>2, <2>2, <3>3
      <4> QED
        BY <1>2, <2>2, <3>1, <3>3, <4>1, <4>2 DEF Ordered
    <3> QED
      BY <1>5, <3>2, <3>3
  <2> QED
    BY <1>5, <2>1, <2>2
<1>10. \A d : d \in Pending(prog, work') <=>
           \/ \E i \in 1 .. k - 1 : d \in Open(prog, work[i])
           \/ d \in Pending(prog, fs)
  <2> TAKE d
  <2>1. ASSUME d \in Pending(prog, work')
        PROVE  (\E i \in 1 .. k - 1 : d \in Open(prog, work[i])) \/ d \in Pending(prog, fs)
    <3>1. PICK i \in DOMAIN work' : d \in Open(prog, work'[i])
      BY <2>1 DEF Pending
    <3> QED
      BY <1>1, <1>2, <1>5, <3>1 DEF Pending
  <2>2. ASSUME NEW i \in 1 .. k - 1, d \in Open(prog, work[i]) PROVE d \in Pending(prog, work')
    BY <1>1, <1>8, <2>2 DEF Pending
  <2>3. ASSUME d \in Pending(prog, fs) PROVE d \in Pending(prog, work')
    <3>1. PICK i \in 1 .. Len(fs) : d \in Open(prog, fs[i])
      BY <1>2, <2>3 DEF Pending
    <3> QED
      BY <1>6, <3>1 DEF Pending
  <2> QED
    BY <2>1, <2>2, <2>3
<1>11. \A d : d \in Pending(prog, work) <=>
           \/ \E i \in 1 .. k - 1 : d \in Open(prog, work[i])
           \/ d \in Open(prog, Top)
  <2>1. \A i \in DOMAIN work : i \in 1 .. k - 1 \/ i = k
    BY <1>2
  <2>2. k \in DOMAIN work
    BY <1>2
  <2> QED
    BY <1>4, <1>8, <2>1, <2>2 DEF Pending
<1>12. n \in Open(prog, Top) => \A i \in 1 .. k - 1 : n \notin Open(prog, work[i])
  <2> SUFFICES ASSUME n \in Open(prog, Top), NEW i \in 1 .. k - 1, n \in Open(prog, work[i])
               PROVE  FALSE
    OBVIOUS
  <2>1. n < n
    BY <1>4, <1>8 DEF Ordered
  <2>2. n \in Nat
    BY <1>2, <1>4
  <2> QED
    BY <2>1, <2>2
<1> QED
  BY <1>9, <1>10, <1>11, <1>12 DEF k

\* A rule is bound by a let with everything in it.
LEMMA LiveParts ==
  ASSUME WellFormed(prog), NEW n \in Nodes(prog), NEW m \in Span(prog, n), Live(prog, m)
  PROVE  Live(prog, n)
<1> SUFFICES ASSUME NEW l \in Nodes(prog), prog.label[l].kind = "let",
                    prog.kids[l][1] <= n, n <= prog.last[prog.kids[l][1]]
             PROVE  FALSE
  BY DEF Live, InLetRule
<1> DEFINE r == prog.kids[l][1]
<1>1. r \in Nodes(prog)
  BY LetKids, ProgramNodes
<1>2. /\ n \in Nat /\ m \in Nat /\ r \in Nat
      /\ prog.last[n] \in Nat /\ prog.last[r] \in Nat
  BY <1>1, Subtree, SubtreesNest DEF Nodes
<1> HIDE DEF r
<1>3. r <= n /\ n <= prog.last[r] /\ n <= m /\ m <= prog.last[n]
  BY <1>2 DEF Span, r
<1>4. n \in Span(prog, r)
  BY <1>2, <1>3 DEF Span
<1>5. prog.last[n] <= prog.last[r]
  BY <1>1, <1>4, SubtreesNest
<1>6. r <= m /\ m <= prog.last[r]
  BY <1>2, <1>3, <1>5
<1>7. InLetRule(prog, m)
  BY <1>6 DEF InLetRule, r
<1> QED
  BY <1>7 DEF Live

\* A frame that has anything to visit visits its own node first.
LEMMA OpensNode ==
  ASSUME WellFormed(prog), NEW f \in Frame, Open(prog, f) # {}
  PROVE  f.node \in Open(prog, f) /\ \A d \in Open(prog, f) : f.node <= d
<1>1. PICK m \in Open(prog, f) : TRUE
  OBVIOUS
<1>2. f.node \in Nodes(prog) /\ \A d \in Open(prog, f) : d \in Span(prog, f.node)
  BY DEF Open, Frame
<1>3. f.node \in Nat /\ prog.last[f.node] \in Nat /\ f.node <= prog.last[f.node]
  BY <1>2, Subtree DEF Nodes
<1>4. f.node \in Span(prog, f.node) /\ \A d \in Span(prog, f.node) : f.node <= d
  BY <1>3 DEF Span
<1>5. CASE f.op = "collect"
  BY <1>2, <1>4, <1>5 DEF Open
<1>6. CASE f.op # "collect"
  <2>1. m \in Span(prog, f.node) /\ Live(prog, m)
    BY <1>1, <1>6 DEF Open
  <2>2. Live(prog, f.node)
    BY <1>2, <2>1, LiveParts
  <2> QED
    BY <1>2, <1>4, <1>6, <2>2 DEF Open
<1> QED
  BY <1>5, <1>6

\* The frames for the children of a node, last one first, are ordered, and visit
\* what is below the node.
LEMMA PartsInOrder ==
  ASSUME WellFormed(prog), NEW n \in Nodes(prog), NEW reach, NEW fs,
         DOMAIN fs = 1 .. Len(Kids(n)),
         \A i \in 1 .. Len(Kids(n)) :
           Open(prog, fs[i]) = Span(prog, Kids(n)[Len(Kids(n)) + 1 - i]) \cap reach
  PROVE  /\ Ordered(prog, fs)
         /\ Pending(prog, fs) = (Span(prog, n) \cap reach) \ {n}
<1> DEFINE ks == Kids(n)
           k == Len(ks)
<1>1. k \in Nat
  BY Subtree
<1>2. \A i \in 1 .. k : /\ ks[i] \in Nodes(prog) /\ n < ks[i]
                        /\ ks[i] <= prog.last[ks[i]] /\ prog.last[ks[i]] <= prog.last[n]
  BY KidsSpan
<1>3. \A i, j \in 1 .. k : i < j => prog.last[ks[i]] < ks[j]
  BY KidsDisjoint
<1>4. n \in Nat /\ prog.last[n] \in Nat /\ \A m \in Nodes(prog) : m \in Nat /\ prog.last[m] \in Nat
  BY Subtree DEF Nodes
<1>5. \A m \in Span(prog, n) : m # n => \E i \in 1 .. k : m \in Span(prog, ks[i])
  BY KidsCover
<1>6. DOMAIN fs = 1 .. k /\ \A i \in 1 .. k : Open(prog, fs[i]) = Span(prog, ks[k + 1 - i]) \cap reach
  OBVIOUS
<1> HIDE DEF ks, k
<1>7. \A i \in 1 .. k : k + 1 - i \in 1 .. k /\ k + 1 - (k + 1 - i) = i
  BY <1>1
<1>8. Ordered(prog, fs)
  <2> SUFFICES ASSUME NEW i \in 1 .. k, NEW j \in 1 .. k, i < j,
                      NEW c \in Span(prog, ks[k + 1 - i]), NEW d \in Span(prog, ks[k + 1 - j])
               PROVE  d < c
    BY <1>6 DEF Ordered
  <2> DEFINE a == k + 1 - i
             b == k + 1 - j
  <2>1. a \in 1 .. k /\ b \in 1 .. k /\ b < a
    BY <1>1
  <2> HIDE DEF a, b
  <2>2. prog.last[ks[b]] < ks[a] /\ ks[a] \in Nat /\ prog.last[ks[b]] \in Nat
    BY <1>2, <1>3, <1>4, <2>1
  <2>3. c \in ks[a] .. prog.last[ks[a]] /\ d \in ks[b] .. prog.last[ks[b]]
    BY DEF Span, a, b
  <2> QED
    BY <2>2, <2>3
<1>9. \A m : m \in Pending(prog, fs) <=> \E i \in 1 .. k : m \in Span(prog, ks[i]) \cap reach
  <2> TAKE m
  <2>1. ASSUME m \in Pending(prog, fs) PROVE \E i \in 1 .. k : m \in Span(prog, ks[i]) \cap reach
    <3>1. PICK i \in 1 .. k : m \in Open(prog, fs[i])
      BY <1>6, <2>1 DEF Pending
    <3> QED
      BY <1>6, <1>7, <3>1
  <2>2. ASSUME NEW i \in 1 .. k, m \in Span(prog, ks[i]) \cap reach PROVE m \in Pending(prog, fs)
    <3> DEFINE j == k + 1 - i
    <3>1. j \in 1 .. k /\ k + 1 - j = i
      BY <1>7
    <3> HIDE DEF j
    <3>2. Open(prog, fs[j]) = Span(prog, ks[k + 1 - j]) \cap reach
      BY <1>6, <3>1
    <3>3. m \in Open(prog, fs[j])
      BY <2>2, <3>1, <3>2
    <3> QED
      BY <1>6, <3>1, <3>3 DEF Pending
  <2> QED
    BY <2>1, <2>2
<1>10. \A i \in 1 .. k : \A m \in Span(prog, ks[i]) : m \in Span(prog, n) /\ m # n
  <2> SUFFICES ASSUME NEW i \in 1 .. k, NEW m \in ks[i] .. prog.last[ks[i]]
               PROVE  m \in n .. prog.last[n] /\ m # n
    BY DEF Span
  <2>1. /\ ks[i] \in Nat /\ prog.last[ks[i]] \in Nat /\ n < ks[i]
        /\ prog.last[ks[i]] <= prog.last[n]
    BY <1>2, <1>4
  <2> QED
    BY <1>4, <2>1
<1> QED
  BY <1>5, <1>8, <1>9, <1>10

\* A frame with nothing to visit changes nothing.
LEMMA PutBelow ==
  ASSUME NEW F, NEW p, NEW f \in F, Open(p, f) = {}, NEW gs \in Seq(F), Ordered(p, gs)
  PROVE  /\ Ordered(p, <<f>> \o gs)
         /\ Pending(p, <<f>> \o gs) = Pending(p, gs)
<1> DEFINE fs == <<f>> \o gs
<1>1. Len(gs) \in Nat /\ DOMAIN gs = 1 .. Len(gs)
  BY LenProperties
<1>2. <<f>> \in Seq(F) /\ Len(<<f>>) = 1 /\ <<f>>[1] = f
  BY ShortSequences
<1>3. /\ fs \in Seq(F) /\ Len(fs) = 1 + Len(gs)
      /\ \A i \in 1 .. 1 + Len(gs) : fs[i] = IF i <= 1 THEN <<f>>[i] ELSE gs[i - 1]
  BY <1>2, ConcatProperties
<1>4. DOMAIN fs = 1 .. 1 + Len(gs)
  BY <1>3, LenProperties
<1> HIDE DEF fs
<1>5. /\ fs[1] = f
      /\ \A i \in DOMAIN fs : i # 1 => i - 1 \in DOMAIN gs /\ fs[i] = gs[i - 1]
      /\ \A i \in DOMAIN gs : i + 1 \in DOMAIN fs /\ i + 1 - 1 = i /\ i + 1 # 1
  BY <1>1, <1>2, <1>3, <1>4
<1>6. \A m : m \in Pending(p, fs) <=> m \in Pending(p, gs)
  <2> TAKE m
  <2>1. ASSUME m \in Pending(p, fs) PROVE m \in Pending(p, gs)
    BY <1>5, <2>1 DEF Pending
  <2>2. ASSUME m \in Pending(p, gs) PROVE m \in Pending(p, fs)
    <3>1. PICK i \in DOMAIN gs : m \in Open(p, gs[i])
      BY <2>2 DEF Pending
    <3>2. fs[i + 1] = gs[i + 1 - 1] /\ i + 1 \in DOMAIN fs
      BY <1>5
    <3>3. fs[i + 1] = gs[i]
      BY <1>5, <3>2
    <3> QED
      BY <3>1, <3>2, <3>3 DEF Pending
  <2> QED
    BY <2>1, <2>2
<1>7. Ordered(p, fs)
  <2> SUFFICES ASSUME NEW i \in DOMAIN fs, NEW j \in DOMAIN fs, i < j,
                      NEW c \in Open(p, fs[i]), NEW d \in Open(p, fs[j])
               PROVE  d < c
    BY DEF Ordered
  <2>1. i # 1 /\ j # 1
    BY <1>5
  <2>2. i - 1 \in DOMAIN gs /\ j - 1 \in DOMAIN gs /\ i - 1 < j - 1
    BY <1>4, <1>5, <2>1
  <2> QED
    BY <1>5, <2>1, <2>2 DEF Ordered
<1> QED
  BY <1>6, <1>7 DEF fs

\* The running call returns, or makes the calls of frames that visit the rest of
\* what its own had to visit.
FramesOf(ops) == {f \in Frame : f.op \in ops}
Walks(ops) ==
  \E fs \in Seq(FramesOf(ops)) :
    /\ Continue(fs)
    /\ Ordered(prog, fs)
    /\ Pending(prog, fs) = Open(prog, Top) \ {Top.node}

LEMMA Walk ==
  ASSUME TypeOK, work # <<>>, NEW ops, Walks(ops),
         NEW reach \in SUBSET Nodes(prog), InOrder(prog, work, reach)
  PROVE  /\ InOrder(prog, work', reach)
         /\ \/ Open(prog, Top) = {} /\ Pending(prog, work') = Pending(prog, work)
            \/ /\ Top.node \in Open(prog, Top) /\ Top.node \in Pending(prog, work)
               /\ Pending(prog, work') = Pending(prog, work) \ {Top.node}
               /\ \A c \in reach : c \notin Pending(prog, work) <=> c < Top.node
<1> DEFINE n == Top.node
           k == Len(work)
<1>1. PICK fs \in Seq(Frame) : /\ Continue(fs) /\ Ordered(prog, fs)
                               /\ Pending(prog, fs) = Open(prog, Top) \ {n}
  <2>1. FramesOf(ops) \subseteq Frame
    BY DEF FramesOf
  <2> QED
    BY <2>1, SeqMonotonic DEF Walks
<1>2. WellFormed(prog) /\ work \in Seq(Frame) /\ Top \in Frame
  BY TopFrame DEF TypeOK
<1>3. \A f \in Frame : Open(prog, f) \subseteq Nat
  BY <1>2, OpenNodes
<1>4. Open(prog, Top) # {} =>
        n \in Open(prog, Top) /\ \A d \in Open(prog, Top) : n <= d
  BY <1>2, OpensNode
<1>5. work' = SubSeq(work, 1, k - 1) \o fs /\ Top = work[k]
  BY <1>1 DEF Continue, Rest, Top
<1>6. Ordered(prog, work)
  BY DEF InOrder
<1>7. /\ Ordered(prog, work')
      /\ Open(prog, Top) = {} => Pending(prog, work') = Pending(prog, work)
      /\ Open(prog, Top) # {} => Pending(prog, work') = Pending(prog, work) \ {n}
  BY <1>1, <1>4, <1>6, Replacing
<1>8. CASE Open(prog, Top) = {}
  BY <1>7, <1>8 DEF InOrder
<1>9. CASE Open(prog, Top) # {}
  <2>1. k \in DOMAIN work /\ \A i \in DOMAIN work : i = k \/ i < k
    BY <1>2, EmptySeq, LenProperties
  <2>2. \A d \in Pending(prog, work) : n <= d
    <3> SUFFICES ASSUME NEW i \in DOMAIN work, NEW d \in Open(prog, work[i]) PROVE n <= d
      BY DEF Pending
    <3>1. CASE i = k
      BY <1>4, <1>5, <1>9, <3>1
    <3>2. CASE i < k
      <4>1. n < d
        BY <1>4, <1>5, <1>6, <1>9, <2>1, <3>2 DEF Ordered
      <4>2. n \in Nat /\ d \in Nat
        <5>1. work[i] \in Frame
          BY <1>2, ElementOfSeq, LenProperties
        <5> QED
          BY <1>2, <1>3, <1>4, <1>9, <5>1
      <4> QED
        BY <4>1, <4>2
    <3> QED
      BY <2>1, <3>1, <3>2
  <2>3. n \in Pending(prog, work)
    BY <1>4, <1>5, <1>9, <2>1 DEF Pending
  <2>4. n \in Nat /\ \A c \in reach : c \in Nat
    BY <1>2, <1>3, <1>4, <1>9 DEF Nodes
  <2>5. \A c \in reach : c \notin Pending(prog, work) <=> c < n
    <3> TAKE c \in reach
    <3>1. c \notin Pending(prog, work) => c < n
      BY <2>3 DEF InOrder
    <3>2. c \in Pending(prog, work) => n <= c
      BY <2>2
    <3> QED
      BY <2>4, <3>1, <3>2
  <2>6. InOrder(prog, work', reach)
    <3>1. \A d \in Pending(prog, work') : n < d /\ d \in Pending(prog, work) /\ d \in reach /\ d \in Nat
      BY <1>7, <1>9, <2>2, <2>4 DEF InOrder
    <3>2. ASSUME NEW c \in reach, NEW d \in Pending(prog, work'), c \notin Pending(prog, work')
          PROVE  c < d
      <4>1. CASE c = n
        BY <3>1, <4>1
      <4>2. CASE c # n
        BY <1>7, <1>9, <3>1, <3>2, <4>2 DEF InOrder
      <4> QED
        BY <4>1, <4>2
    <3> QED
      BY <1>7, <3>1, <3>2 DEF InOrder
  <2> QED
    BY <1>4, <1>7, <1>9, <2>3, <2>5, <2>6
<1> QED
  BY <1>8, <1>9

-----------------------------------------------------------------------------
(***************************************************************************)
(* The steps of the passes.                                                *)
(***************************************************************************)

CompileOps == {"compile", "build", "unbind", "unexpand", "restore"}

\* What a variable stands for: the rule of a let, or a built-in rule.
BoundTo(p) ==
  [name : BuiltinNames, rule : BuiltinRules]
    \cup {[name |-> p.label[l].tag, rule |-> p.kids[l][1]] :
            l \in {m \in Nodes(p) : p.label[m].kind = "let"}}

(***************************************************************************)
(* Each pass has frames of its own, and changes its own part of the state. *)
(***************************************************************************)
Passes ==
  /\ phase = "validate" => /\ work \in Seq(FramesOf({"validate"}))
                           /\ count = 0 /\ used_names = [x \in Names |-> 0]
  /\ phase = "collect" => work \in Seq(FramesOf({"collect"}))
  /\ phase = "compile" => work \in Seq(FramesOf(CompileOps))
  /\ phase \in {"validate", "collect"} =>
       out = <<>> /\ next_idx = 1 /\ default_quantifier = "Greedy"
  /\ IF phase = "done" THEN work = <<>> ELSE result = NoError
  /\ variables \in Seq(BoundTo(prog))

Failing == \E e : e # Ok /\ Fail(e)

CollectStep == CollectCapture \/ CollectReference \/ CollectLet \/ CollectOther
VisitStep == \/ CompileValue \/ CompileGroup \/ CompileAlternation \/ CompileLookaround
             \/ CompileRepetition \/ CompileMode \/ CompileLet \/ CompileVariable
             \/ CompileReference
ReturnStep == \/ BuildGroup \/ BuildAlternation \/ BuildLookaround \/ BuildRepetition
              \/ RestoreMode \/ UnbindLet \/ UnexpandVariable

LEMMA CollectWalks ==
  ASSUME TypeOK, CollectStep
  PROVE  /\ work # <<>> /\ Top.op = "collect" /\ Top.node \in Nodes(prog) /\ UNCHANGED input
         /\ \/ Failing
            \/ Walks({"collect"}) /\ UNCHANGED <<phase, result, state, emitted>>
<1> DEFINE n == Top.node
<1>1. work # <<>> /\ Top.op = "collect" /\ UNCHANGED input
  BY DEF CollectStep, CollectCapture, CollectReference, CollectLet, CollectOther, Visiting
<1>2. n \in Nodes(prog) /\ Top.within \in BOOLEAN /\ WellFormed(prog)
  BY <1>1, TopFrame DEF TypeOK
<1>3. Len(Kids(n)) \in Nat /\ DOMAIN Kids(n) = 1 .. Len(Kids(n)) /\ Kids(n) \in Seq(Nodes(prog))
  BY <1>2, Subtree
<1>4. Open(prog, Top) = Span(prog, n) \cap Nodes(prog)
  BY <1>1, <1>2, OpenNodes, TopFrame DEF Open
<1>5. \A m \in Nodes(prog), w \in BOOLEAN :
        /\ Collect(m, w) \in FramesOf({"collect"})
        /\ Open(prog, Collect(m, w)) = Span(prog, m) \cap Nodes(prog)
  <2> TAKE m \in Nodes(prog), w \in BOOLEAN
  <2>1. Collect(m, w) \in Frame /\ Collect(m, w).op = "collect" /\ Collect(m, w).node = m
    BY DEF Collect, Frame
  <2>2. Collect(m, w) \in FramesOf({"collect"})
    BY <2>1 DEF FramesOf
  <2> QED
    BY <1>2, <2>1, <2>2, OpenNodes DEF Open
<1>6. ASSUME NEW w \in BOOLEAN, Continue(CollectAll(Kids(n), w)) PROVE Walks({"collect"})
  <2> DEFINE fs == CollectAll(Kids(n), w)
  <2>1. fs \in Seq(FramesOf({"collect"}))
    BY <1>3, <1>5, Visits
  <2>2. DOMAIN fs = 1 .. Len(Kids(n))
    BY <1>3 DEF CollectAll
  <2>3. \A i \in 1 .. Len(Kids(n)) :
          Open(prog, fs[i]) = Span(prog, Kids(n)[Len(Kids(n)) + 1 - i]) \cap Nodes(prog)
    <3> TAKE i \in 1 .. Len(Kids(n))
    <3>1. Len(Kids(n)) + 1 - i \in 1 .. Len(Kids(n))
      BY <1>3
    <3>2. Kids(n)[Len(Kids(n)) + 1 - i] \in Nodes(prog)
      BY <1>3, <3>1, ElementOfSeq
    <3>3. fs[i] = Collect(Kids(n)[Len(Kids(n)) + 1 - i], w)
      BY <1>3 DEF CollectAll
    <3> QED
      BY <1>5, <3>2, <3>3
  <2> HIDE DEF fs
  <2>4. Ordered(prog, fs) /\ Pending(prog, fs) = (Span(prog, n) \cap Nodes(prog)) \ {n}
    BY <1>2, <2>2, <2>3, PartsInOrder
  <2> QED
    BY <1>4, <1>6, <2>1, <2>4 DEF Walks, fs
<1>7. CASE CollectLet
  <2> DEFINE fs == <<Collect(Kids(n)[2], Top.within), Collect(Kids(n)[1], TRUE)>>
  <2>1. Kind(n) = "let" /\ Continue(fs) /\ UNCHANGED <<phase, result, state, emitted>>
    BY <1>7 DEF CollectLet, Visiting
  <2>2. Len(Kids(n)) = 2 /\ Kids(n)[1] \in Nodes(prog) /\ Kids(n)[2] \in Nodes(prog)
    <3>1. prog.label[n].kind = "let" /\ Kids(n) = prog.kids[n]
      BY <1>2, <2>1, ProgramNodes
    <3>2. Arity(prog, n)
      BY <1>2 DEF WellFormed
    <3> QED
      BY <1>2, <2>1, <3>1, <3>2, LetKids DEF Arity
  <2>3. fs \in Seq(FramesOf({"collect"}))
    BY <1>2, <1>5, <2>2, ShortSequences
  <2>4. DOMAIN fs = 1 .. Len(Kids(n))
    BY <2>2
  <2>5. \A i \in 1 .. Len(Kids(n)) :
          Open(prog, fs[i]) = Span(prog, Kids(n)[Len(Kids(n)) + 1 - i]) \cap Nodes(prog)
    <3>1. /\ Open(prog, fs[1]) = Span(prog, Kids(n)[2]) \cap Nodes(prog)
          /\ Open(prog, fs[2]) = Span(prog, Kids(n)[1]) \cap Nodes(prog)
      BY <1>2, <1>5, <2>2
    <3> HIDE DEF fs
    <3>2. \A i \in 1 .. 2 : (i = 1 /\ 2 + 1 - i = 2) \/ (i = 2 /\ 2 + 1 - i = 1)
      OBVIOUS
    <3> QED
      BY <2>2, <3>1, <3>2
  <2> HIDE DEF fs
  <2>6. Ordered(prog, fs) /\ Pending(prog, fs) = (Span(prog, n) \cap Nodes(prog)) \ {n}
    BY <1>2, <2>4, <2>5, PartsInOrder
  <2>7. Walks({"collect"})
    BY <1>4, <2>1, <2>3, <2>6 DEF Walks
  <2> QED
    BY <1>1, <1>2, <2>1, <2>7
<1>8. CASE CollectReference
  <2>1. CASE Fail("ReferenceInLet")
    BY <1>1, <1>2, <2>1 DEF Failing, Ok
  <2>2. CASE Continue(<<>>) /\ UNCHANGED <<phase, result, groups, state, emitted>>
    <3>1. Kids(n) = <<>>
      <4>1. prog.label[n].kind \in ReferenceKinds /\ Kids(n) = prog.kids[n] /\ Arity(prog, n)
        BY <1>2, <1>8, ProgramNodes DEF CollectReference, Visiting, WellFormed
      <4> QED
        BY <4>1 DEF Arity
    <3>2. CollectAll(Kids(n), FALSE) = <<>>
      BY <3>1 DEF CollectAll
    <3> QED
      BY <1>1, <1>2, <1>6, <2>2, <3>2
  <2> QED
    BY <1>8, <2>1, <2>2 DEF CollectReference
<1>9. CASE CollectCapture
  <2>1. CASE Fail("CaptureInLet") \/ Fail("NameUsedMultipleTimes")
    BY <1>1, <1>2, <2>1 DEF Failing, Ok
  <2>2. CASE Continue(CollectAll(Kids(n), FALSE)) /\ UNCHANGED <<phase, result, state, emitted>>
    BY <1>1, <1>2, <1>6, <2>2
  <2> QED
    BY <1>9, <2>1, <2>2 DEF CollectCapture
<1>10. CASE CollectOther
  BY <1>1, <1>2, <1>6, <1>10 DEF CollectOther
<1> QED
  BY <1>7, <1>8, <1>9, <1>10 DEF CollectStep

\* Leaves: the call returns.
LEMMA LeafWalks ==
  ASSUME TypeOK, work # <<>>, Continue(<<>>),
         \/ Top.op \in CompileOps \ {"compile"}
         \/ Top.op = "compile" /\ Kind(Top.node) \in ValueKinds \cup ReferenceKinds
  PROVE  Walks(CompileOps)
<1> DEFINE n == Top.node
<1>1. WellFormed(prog) /\ Top \in Frame
  BY TopFrame DEF TypeOK
<1>2. <<>> \in Seq(FramesOf(CompileOps)) /\ Ordered(prog, <<>>) /\ Pending(prog, <<>>) = {}
  BY ShortSequences DEF Ordered, Pending
<1>3. Open(prog, Top) \subseteq {n}
  <2>1. CASE Top.op # "compile"
    BY <2>1 DEF CompileOps, Open
  <2>2. CASE Top.op = "compile" /\ n \notin Nodes(prog)
    BY <2>2 DEF Open
  <2>3. CASE Top.op = "compile" /\ n \in Nodes(prog)
    <3>1. prog.label[n].kind \in ValueKinds \cup ReferenceKinds /\ Kids(n) = prog.kids[n]
      BY <1>1, <2>3, ProgramNodes DEF CompileOps
    <3>2. Arity(prog, n)
      BY <1>1, <2>3 DEF WellFormed
    <3>3. Kids(n) = <<>>
      BY <3>1, <3>2 DEF Arity
    <3>4. n \in Nat /\ prog.last[n] = n
      BY <1>1, <2>3, <3>3, Subtree
    <3>5. Span(prog, n) = {n}
      BY <3>4 DEF Span
    <3> QED
      BY <2>3, <3>5 DEF Open
  <2> QED
    BY <2>1, <2>2, <2>3
<1>4. Pending(prog, <<>>) = Open(prog, Top) \ {n}
  BY <1>2, <1>3
<1> QED
  BY <1>2, <1>4 DEF Walks

\* Nodes with parts: the parts are compiled, and then the frame f is left.
LEMMA PartsWalk ==
  ASSUME TypeOK, work # <<>>, Top.op = "compile", Top.node \in Nodes(prog),
         NEW f \in Frame, f.op \in CompileOps \ {"compile"},
         Continue(<<f>> \o CompileAll(Kids(Top.node)))
  PROVE  Walks(CompileOps)
<1> DEFINE n == Top.node
           gs == CompileAll(Kids(n))
<1>1. WellFormed(prog)
  BY DEF TypeOK
<1>2. Len(Kids(n)) \in Nat /\ DOMAIN Kids(n) = 1 .. Len(Kids(n)) /\ Kids(n) \in Seq(Nodes(prog))
  BY <1>1, Subtree
<1>3. \A m \in Nodes(prog) :
        /\ Compile(m) \in FramesOf(CompileOps)
        /\ Open(prog, Compile(m)) = Span(prog, m) \cap LiveNodes(prog)
  <2> TAKE m \in Nodes(prog)
  <2>1. Compile(m) \in Frame /\ Compile(m).op = "compile" /\ Compile(m).node = m
    BY DEF Compile, Frame, AnyNode
  <2>2. Compile(m) \in FramesOf(CompileOps)
    BY <2>1 DEF FramesOf, CompileOps
  <2>3. Open(prog, Compile(m)) \subseteq Nodes(prog)
    BY <1>1, <2>1, OpenNodes
  <2> QED
    BY <2>1, <2>2, <2>3 DEF Open, LiveNodes
<1>4. gs \in Seq(FramesOf(CompileOps))
  BY <1>2, <1>3, Visits
<1>5. DOMAIN gs = 1 .. Len(Kids(n))
  BY <1>2 DEF CompileAll
<1>6. \A i \in 1 .. Len(Kids(n)) :
        Open(prog, gs[i]) = Span(prog, Kids(n)[Len(Kids(n)) + 1 - i]) \cap LiveNodes(prog)
  <2> TAKE i \in 1 .. Len(Kids(n))
  <2>1. Len(Kids(n)) + 1 - i \in 1 .. Len(Kids(n))
    BY <1>2
  <2>2. Kids(n)[Len(Kids(n)) + 1 - i] \in Nodes(prog)
    BY <1>2, <2>1, ElementOfSeq
  <2>3. gs[i] = Compile(Kids(n)[Len(Kids(n)) + 1 - i])
    BY <1>2 DEF CompileAll
  <2> QED
    BY <1>3, <2>2, <2>3
<1> HIDE DEF gs
<1>7. Ordered(prog, gs) /\ Pending(prog, gs) = (Span(prog, n) \cap LiveNodes(prog)) \ {n}
  BY <1>1, <1>5, <1>6, PartsInOrder
<1>8. f \in FramesOf(CompileOps) /\ Open(prog, f) = {}
  BY DEF FramesOf, CompileOps, Open
<1>9. /\ Ordered(prog, <<f>> \o gs) /\ Pending(prog, <<f>> \o gs) = Pending(prog, gs)
      /\ <<f>> \o gs \in Seq(FramesOf(CompileOps))
  <2>1. <<f>> \in Seq(FramesOf(CompileOps))
    BY <1>8, ShortSequences
  <2>2. <<f>> \o gs \in Seq(FramesOf(CompileOps))
    BY <1>4, <2>1, ConcatProperties
  <2>3. Ordered(prog, <<f>> \o gs) /\ Pending(prog, <<f>> \o gs) = Pending(prog, gs)
    BY <1>4, <1>7, <1>8, PutBelow
  <2> QED
    BY <2>2, <2>3
<1>10. Open(prog, Top) = Span(prog, n) \cap LiveNodes(prog)
  BY <1>1, OpenNodes, TopFrame DEF Open, LiveNodes
<1>11. Continue(<<f>> \o gs)
  BY DEF gs
<1> QED
  BY <1>7, <1>9, <1>10, <1>11 DEF Walks

\* Two frames of which at most the second has something to visit.
LEMMA ScopeWalks ==
  ASSUME NEW f \in FramesOf(CompileOps), f.op # "compile",
         NEW g \in FramesOf(CompileOps), Continue(<<f, g>>),
         Open(prog, g) = Open(prog, Top) \ {Top.node}
  PROVE  Walks(CompileOps)
<1> DEFINE fs == <<f, g>>
<1>1. fs \in Seq(FramesOf(CompileOps)) /\ DOMAIN fs = 1 .. 2 /\ fs[1] = f /\ fs[2] = g
  BY ShortSequences
<1>2. Open(prog, f) = {}
  BY DEF FramesOf, CompileOps, Open
<1>3. \A i \in 1 .. 2 : i = 1 \/ i = 2
  OBVIOUS
<1>4. Continue(fs)
  OBVIOUS
<1> HIDE DEF fs
<1>5. Ordered(prog, fs)
  BY <1>1, <1>2, <1>3 DEF Ordered
<1>6. Pending(prog, fs) = Open(prog, g)
  BY <1>1, <1>2, <1>3 DEF Pending
<1> QED
  BY <1>1, <1>4, <1>5, <1>6 DEF Walks

\* The rule of a let is visited where it is used, as if it were not there.
LEMMA RuleNotLive ==
  ASSUME WellFormed(prog), NEW b \in BoundTo(prog)
  PROVE  /\ b.rule \in AnyNode /\ Open(prog, Compile(b.rule)) = {}
         /\ b.rule \in BuiltinRules \/
              \E l \in Nodes(prog) : /\ Kind(l) = "let" /\ b.rule = Kids(l)[1]
                                     /\ b.name = Tag(l) /\ b.rule \in Nodes(prog)
<1>1. CASE b \in [name : BuiltinNames, rule : BuiltinRules]
  <2>1. b.rule \in BuiltinRules /\ b.rule \notin Nodes(prog)
    BY <1>1, ProgramNodes
  <2> QED
    BY <2>1 DEF Open, Compile, AnyNode
<1>2. CASE b \notin [name : BuiltinNames, rule : BuiltinRules]
  <2>1. PICK l \in Nodes(prog) : /\ prog.label[l].kind = "let"
                                 /\ b = [name |-> prog.label[l].tag, rule |-> prog.kids[l][1]]
    BY <1>2 DEF BoundTo
  <2>2. /\ Kind(l) = "let" /\ Tag(l) = b.name /\ b.rule = Kids(l)[1] /\ b.rule = prog.kids[l][1]
    BY <2>1, ProgramNodes
  <2>3. b.rule \in Nodes(prog)
    BY <2>2, LetKids
  <2>4. \A m \in Span(prog, b.rule) : ~Live(prog, m)
    <3> TAKE m \in Span(prog, b.rule)
    <3>1. b.rule <= m /\ m <= prog.last[b.rule]
      BY <2>3, Subtree DEF Span, Nodes
    <3> QED
      BY <2>1, <2>2, <3>1 DEF Live, InLetRule
  <2> QED
    BY <2>2, <2>3, <2>4 DEF Open, Compile, AnyNode
<1> QED
  BY <1>1, <1>2

LEMMA ReturnWalks ==
  ASSUME TypeOK, ReturnStep
  PROVE  /\ work # <<>> /\ Top.op \in CompileOps \ {"compile"} /\ UNCHANGED input
         /\ UNCHANGED <<groups, next_idx>>
         /\ \/ Failing
            \/ Walks(CompileOps) /\ Continue(<<>>) /\ UNCHANGED <<phase, result>>
<1>1. /\ work # <<>> /\ Top.op \in CompileOps \ {"compile"} /\ UNCHANGED input
  BY DEF ReturnStep, BuildGroup, BuildAlternation, BuildLookaround, BuildRepetition,
         RestoreMode, UnbindLet, UnexpandVariable, Visiting, Returning, CompileOps
<1>2. CASE Fail("UnsupportedRepeatedAssertion")
  BY <1>1, <1>2 DEF Failing, Fail, Ok, state
<1>3. CASE Continue(<<>>) /\ UNCHANGED <<phase, result, groups, next_idx>>
  BY <1>1, <1>3, LeafWalks
<1> QED
  BY <1>2, <1>3
     DEF ReturnStep, BuildGroup, BuildAlternation, BuildLookaround, BuildRepetition,
         RestoreMode, UnbindLet, UnexpandVariable, state

LEMMA VisitWalks ==
  ASSUME TypeOK, variables \in Seq(BoundTo(prog)), VisitStep
  PROVE  /\ work # <<>> /\ Top.op = "compile" /\ UNCHANGED input
         /\ UNCHANGED groups
         /\ Failing \/ (Walks(CompileOps) /\ UNCHANGED <<phase, result>>)
<1> DEFINE n == Top.node
<1>1. /\ work # <<>> /\ Top.op = "compile" /\ UNCHANGED input
  BY DEF VisitStep, CompileValue, CompileGroup, CompileAlternation, CompileLookaround,
         CompileRepetition, CompileMode, CompileLet, CompileVariable, CompileReference,
         Visiting
<1>2. UNCHANGED groups
  BY DEF VisitStep, CompileValue, CompileGroup, CompileAlternation, CompileLookaround,
         CompileRepetition, CompileMode, CompileLet, CompileVariable, CompileReference,
         Fail
<1>3. WellFormed(prog) /\ Kind(n) \in Kinds /\ (Kind(n) \notin ValueKinds => n \in Nodes(prog))
  BY <1>1, Compiled DEF TypeOK
<1>4. ASSUME NEW e, Fail(e), e \in {"UnsupportedLookaround", "UnsupportedPomskySyntax",
                              "RecursiveVariable", "UnknownVariable", "ClassError",
                              "UnsupportedGrapheme", "UnknownReferenceName",
                              "HugeReference", "RelativeRefZero", "UnknownReferenceNumber",
                              "UnsupportedReference", "UnsupportedForwardReference",
                              "UnsupportedMixedReferences"}
      PROVE  Failing
  BY <1>4 DEF Failing, Ok
<1>5. CASE CompileValue
  <2>1. CASE Fail(ValueError(n)) /\ ValueError(n) # NoError
    BY <1>1, <1>2, <1>4, <2>1 DEF ValueError
  <2>2. CASE Continue(<<>>) /\ UNCHANGED <<phase, result>>
    BY <1>1, <1>2, <1>5, <2>2, LeafWalks DEF CompileValue, Visiting
  <2> QED
    BY <1>5, <2>1, <2>2 DEF CompileValue
<1>6. CASE CompileReference
  <2>1. CASE Fail(ReferenceError(n)) /\ ReferenceError(n) # NoError
    BY <1>1, <1>2, <1>4, <2>1 DEF ReferenceError
  <2>2. CASE Fail(FlavorError(n)) /\ FlavorError(n) # NoError
    BY <1>1, <1>2, <1>4, <2>2 DEF FlavorError
  <2>3. CASE Continue(<<>>) /\ UNCHANGED <<phase, result>>
    BY <1>1, <1>2, <1>6, <2>3, LeafWalks DEF CompileReference, Visiting
  <2> QED
    BY <1>6, <2>1, <2>2, <2>3 DEF CompileReference
<1>7. CASE \/ CompileGroup \/ CompileAlternation \/ CompileLookaround \/ CompileRepetition
  <2>1. n \in Nodes(prog)
    BY <1>1, <1>3, <1>7, OtherKinds
       DEF CompileGroup, CompileAlternation, CompileLookaround, CompileRepetition, Visiting
  <2>2. CASE Fail("UnsupportedLookaround")
    BY <1>1, <1>2, <1>4, <2>2
  <2>3. CASE Continue(<<Build(n)>> \o CompileAll(Kids(n))) /\ UNCHANGED <<phase, result>>
    <3>1. Build(n) \in Frame /\ Build(n).op \in CompileOps \ {"compile"}
      BY <2>1 DEF Build, Frame, CompileOps
    <3> QED
      BY <1>1, <1>2, <2>1, <2>3, <3>1, PartsWalk
  <2> QED
    BY <1>7, <2>2, <2>3
       DEF CompileGroup, CompileAlternation, CompileLookaround, CompileRepetition
<1>8. CASE CompileMode
  <2>1. /\ Continue(<<Restore(default_quantifier)>> \o CompileAll(Kids(n)))
        /\ UNCHANGED <<phase, result>>
    BY <1>8 DEF CompileMode
  <2>2. n \in Nodes(prog)
    BY <1>1, <1>3, <1>8, OtherKinds DEF CompileMode, Visiting
  <2>3. /\ Restore(default_quantifier) \in Frame
        /\ Restore(default_quantifier).op \in CompileOps \ {"compile"}
    BY DEF Restore, Frame, CompileOps, TypeOK
  <2> QED
    BY <1>1, <1>2, <2>1, <2>2, <2>3, PartsWalk
<1>9. CASE CompileLet
  <2> DEFINE f == Unbind(Len(variables) + 1)
             g == Compile(Kids(n)[2])
             h == Compile(Kids(n)[1])
  <2>1. /\ Kind(n) = "let" /\ Continue(<<f, g>>) /\ UNCHANGED <<phase, result>>
    BY <1>9 DEF CompileLet, Visiting
  <2>2. n \in Nodes(prog)
    BY <1>1, <1>3, <2>1, OtherKinds
  <2>3. /\ Kids(n) = prog.kids[n] /\ Len(Kids(n)) = 2
        /\ Kids(n)[1] \in Nodes(prog) /\ Kids(n)[2] \in Nodes(prog)
    <3>1. prog.label[n].kind = "let" /\ Kids(n) = prog.kids[n]
      BY <1>3, <2>1, <2>2, ProgramNodes
    <3>2. Arity(prog, n)
      BY <1>3, <2>2 DEF WellFormed
    <3> QED
      BY <1>3, <2>1, <2>2, <3>1, <3>2, LetKids DEF Arity
  <2>4. f \in FramesOf(CompileOps) /\ f.op # "compile" /\ g \in FramesOf(CompileOps)
    <3>1. Len(variables) + 1 \in Nat
      BY LenProperties DEF TypeOK
    <3> QED
      BY <2>3, <3>1 DEF Unbind, Compile, FramesOf, CompileOps, Frame, AnyNode
  <2>5. Open(prog, g) = Open(prog, Top) \ {n}
    <3> DEFINE hs == <<g, h>>
               live(m) == Span(prog, m) \cap LiveNodes(prog)
    <3>1. /\ Open(prog, g) = live(Kids(n)[2]) /\ Open(prog, h) = live(Kids(n)[1])
          /\ Open(prog, Top) = live(n)
      <4>1. \A m \in Nodes(prog) : \A a \in Span(prog, m) : a \in Nodes(prog)
        BY <1>3, SubtreesNest
      <4> QED
        BY <1>1, <2>2, <2>3, <4>1 DEF Open, Compile, LiveNodes
    <3>2. Open(prog, h) = {}
      <4> DEFINE b == [name |-> prog.label[n].tag, rule |-> prog.kids[n][1]]
      <4>1. b \in BoundTo(prog) /\ b.rule = Kids(n)[1]
        BY <1>3, <2>1, <2>2, <2>3, ProgramNodes DEF BoundTo
      <4> QED
        BY <1>3, <4>1, RuleNotLive
    <3>3. DOMAIN hs = 1 .. 2 /\ hs[1] = g /\ hs[2] = h
      OBVIOUS
    <3> HIDE DEF hs, g, h
    <3>4. \A i \in 1 .. Len(Kids(n)) :
            Open(prog, hs[i]) = Span(prog, Kids(n)[Len(Kids(n)) + 1 - i]) \cap LiveNodes(prog)
      <4>1. \A i \in 1 .. 2 : (i = 1 /\ 2 + 1 - i = 2) \/ (i = 2 /\ 2 + 1 - i = 1)
        OBVIOUS
      <4> QED
        BY <2>3, <3>1, <3>3, <4>1
    <3>5. Pending(prog, hs) = live(n) \ {n}
      BY <1>3, <2>2, <2>3, <3>3, <3>4, PartsInOrder
    <3>6. Pending(prog, hs) = Open(prog, g)
      <4>1. \A i \in 1 .. 2 : i = 1 \/ i = 2
        OBVIOUS
      <4> QED
        BY <3>2, <3>3, <4>1 DEF Pending
    <3> QED
      BY <3>1, <3>5, <3>6
  <2> HIDE DEF f, g
  <2>6. Walks(CompileOps)
    BY <2>1, <2>4, <2>5, ScopeWalks
  <2> QED
    BY <1>1, <1>2, <2>1, <2>6
<1>10. CASE CompileVariable
  <2>1. n \in Nodes(prog) /\ Kind(n) = "variable"
    BY <1>1, <1>3, <1>10, OtherKinds DEF CompileVariable, Visiting
  <2>2. CASE \/ Fail("UnsupportedPomskySyntax") \/ Fail("RecursiveVariable")
             \/ Fail("UnknownVariable")
    BY <1>1, <1>2, <1>4, <2>2
  <2>3. ASSUME NEW i \in DOMAIN variables,
               Continue(<<Unexpand(i, n), Compile(variables[i].rule)>>),
               UNCHANGED <<phase, result>>
        PROVE  Walks(CompileOps)
    <3>1. variables[i] \in BoundTo(prog) /\ i \in Nat
      <4>1. i \in 1 .. Len(variables) /\ Len(variables) \in Nat
        BY LenProperties
      <4> QED
        BY <4>1, ElementOfSeq
    <3>2. /\ variables[i].rule \in AnyNode
          /\ Open(prog, Compile(variables[i].rule)) = {}
      BY <1>3, <3>1, RuleNotLive
    <3>3. Open(prog, Top) \ {n} = {}
      <4>1. prog.label[n].kind = "variable" /\ Kids(n) = prog.kids[n] /\ Arity(prog, n)
        BY <1>3, <2>1, ProgramNodes DEF WellFormed
      <4>2. Kids(n) = <<>>
        BY <4>1 DEF Arity
      <4>3. n \in Nat /\ prog.last[n] = n
        BY <1>3, <2>1, <4>2, Subtree
      <4>4. Span(prog, n) = {n}
        BY <4>3 DEF Span
      <4> QED
        BY <1>1, <4>4 DEF Open
    <3>4. /\ Unexpand(i, n) \in FramesOf(CompileOps) /\ Unexpand(i, n).op # "compile"
          /\ Compile(variables[i].rule) \in FramesOf(CompileOps)
      BY <2>1, <3>1, <3>2 DEF Unexpand, Compile, FramesOf, CompileOps, Frame
    <3> QED
      BY <2>3, <3>2, <3>3, <3>4, ScopeWalks
  <2> QED
    BY <1>1, <1>2, <1>10, <2>2, <2>3 DEF CompileVariable
<1> QED
  BY <1>5, <1>6, <1>7, <1>8, <1>9, <1>10 DEF VisitStep

\* The frame that runs says which pass is running.
LEMMA PassOfTop ==
  ASSUME TypeOK, Passes, work # <<>>
  PROVE  /\ Top.op = "validate" => phase = "validate"
         /\ Top.op = "collect" => phase = "collect"
         /\ Top.op \in CompileOps => phase = "compile"
<1>1. Len(work) \in 1 .. Len(work)
  BY EmptySeq DEF TypeOK
<1>2. \A ops : work \in Seq(FramesOf(ops)) => Top.op \in ops
  <2> TAKE ops
  <2> HAVE work \in Seq(FramesOf(ops))
  <2>1. Top \in FramesOf(ops)
    BY <1>1, ElementOfSeq DEF Top
  <2> QED
    BY <2>1 DEF FramesOf
<1>3. phase \in {"validate", "collect", "compile", "done"}
  BY DEF TypeOK, Phases
<1> QED
  BY <1>2, <1>3 DEF Passes, CompileOps

LEMMA WalksFrames ==
  ASSUME work # <<>>, NEW ops, work \in Seq(FramesOf(ops)), Walks(ops)
  PROVE  work' \in Seq(FramesOf(ops))
BY Replaced DEF Walks, Continue, Rest

LEMMA BoundStep ==
  ASSUME TypeOK, variables \in Seq(BoundTo(prog)), Next
  PROVE  variables' \in Seq(BoundTo(prog))
<1>1. CASE CompileLet
  <2> DEFINE n == Top.node
             b == [name |-> Tag(n), rule |-> Kids(n)[1]]
  <2>1. /\ work # <<>> /\ Top.op = "compile" /\ Kind(n) = "let"
        /\ variables' = Append(variables, b)
    BY <1>1 DEF CompileLet, Visiting
  <2>2. n \in Nodes(prog) /\ WellFormed(prog)
    BY <2>1, Compiled, OtherKinds DEF TypeOK
  <2>3. b \in BoundTo(prog)
    BY <2>1, <2>2, ProgramNodes DEF BoundTo
  <2> QED
    BY <2>1, <2>3, AppendProperties
<1>2. CASE UnbindLet
  <2>1. variables' = SubSeq(variables, 1, Len(variables) - 1)
    BY <1>2 DEF UnbindLet
  <2>2. Len(variables) \in Nat /\ \A i \in 1 .. Len(variables) - 1 : variables[i] \in BoundTo(prog)
    BY LenProperties, ElementOfSeq
  <2> QED
    BY <2>1, <2>2, SubSeqProperties
<1>3. CASE UNCHANGED variables
  BY <1>3
<1>4. \/ CompileLet \/ UnbindLet \/ UNCHANGED variables
  BY DEF Next, ValidateRule, BeginCollect, CollectCapture, CollectReference, CollectLet,
     CollectOther, BeginCompile, CompileValue, CompileGroup, CompileAlternation,
     CompileLookaround, CompileRepetition, CompileMode, CompileVariable, CompileReference,
     BuildGroup, BuildAlternation, BuildLookaround, BuildRepetition, RestoreMode,
     UnexpandVariable, Finish, Returned, Fail, state, scope, vars
<1> QED
  BY <1>1, <1>2, <1>3, <1>4

LEMMA InputKept == [Next]_vars => UNCHANGED input
BY DEF Next, ValidateRule, BeginCollect, CollectCapture, CollectReference, CollectLet,
   CollectOther, BeginCompile, CompileValue, CompileGroup, CompileAlternation,
   CompileLookaround, CompileRepetition, CompileMode, CompileLet, CompileVariable,
   CompileReference, BuildGroup, BuildAlternation, BuildLookaround, BuildRepetition,
   RestoreMode, UnbindLet, UnexpandVariable, Finish, Returned, vars

LEMMA PassesInitially == Init => TypeOK /\ Passes
<1> SUFFICES ASSUME Init PROVE TypeOK /\ Passes
  OBVIOUS
<1>1. TypeOK
  BY InitType
<1>2. work \in Seq(FramesOf({"validate"}))
  <2>1. 1 \in Nodes(prog)
    BY <1>1 DEF TypeOK, WellFormed, Nodes
  <2> QED
    BY <2>1 DEF Init, Validate, FramesOf, Frame
<1>3. variables \in Seq(BoundTo(prog))
  <2>1. \A x \in BuiltinNames, r \in BuiltinRules : [name |-> x, rule |-> r] \in BoundTo(prog)
    BY DEF BoundTo
  <2> QED
    BY <2>1 DEF Init, NewCompileState, Builtins, BuiltinNames, BuiltinRules
<1> QED
  BY <1>1, <1>2, <1>3 DEF Init, NewCompileState, Passes

LEMMA PassesStep == TypeOK /\ Passes /\ [Next]_vars => Passes'
<1> SUFFICES ASSUME TypeOK, Passes, [Next]_vars PROVE Passes'
  OBVIOUS
<1>1. UNCHANGED input
  BY InputKept
<1>2. /\ \A ops : FramesOf(ops)' = FramesOf(ops)
      /\ BoundTo(prog)' = BoundTo(prog)
  BY <1>1 DEF input, FramesOf, Frame, AnyNode, Nodes
<1>3. variables' \in Seq(BoundTo(prog)')
  <2>1. CASE Next
    BY <1>2, <2>1, BoundStep DEF Passes
  <2>2. CASE UNCHANGED vars
    BY <1>2, <2>2 DEF Passes, vars, state, scope
  <2> QED
    BY <2>1, <2>2
<1>4. CASE UNCHANGED vars
  BY <1>2, <1>3, <1>4 DEF Passes, vars, groups, state, scope, emitted
<1>5. CASE \E e : Fail(e)
  BY <1>3, <1>5 DEF Passes, Fail
<1>6. CASE ValidateRule
  <2>1. CASE Fail(ValidationError(Top.node))
    BY <1>5, <2>1
  <2>2. CASE /\ Continue(ValidateAll(ValidatedParts(Top.node)))
             /\ UNCHANGED <<phase, result, groups, state, emitted>>
    <3>1. work # <<>> /\ Top.op = "validate" /\ phase = "validate"
      BY <1>6, PassOfTop DEF ValidateRule, Visiting
    <3>2. ValidateAll(ValidatedParts(Top.node)) \in Seq(FramesOf({"validate"}))
      <4>1. Top.node \in AnyNode /\ WellFormed(prog)
        BY <3>1, TopFrame DEF AnyNode, TypeOK
      <4>2. ValidatedParts(Top.node) \in Seq(Nodes(prog))
        BY <4>1, NodeTypes DEF ValidatedParts
      <4>3. \A m \in Nodes(prog) : Validate(m) \in FramesOf({"validate"})
        BY DEF Validate, FramesOf, Frame
      <4> QED
        BY <4>2, <4>3, Visits
    <3>3. work' \in Seq(FramesOf({"validate"}))
      BY <2>2, <3>1, <3>2, Replaced DEF Passes, Continue, Rest
    <3> QED
      BY <1>2, <1>3, <2>2, <3>1, <3>3 DEF Passes, groups, state, scope, emitted
  <2> QED
    BY <1>6, <2>1, <2>2 DEF ValidateRule
<1>7. CASE BeginCollect \/ BeginCompile
  <2>1. 1 \in Nodes(prog)
    BY DEF TypeOK, WellFormed, Nodes
  <2>2. CASE BeginCollect
    <3>1. work' \in Seq(FramesOf({"collect"}))
      BY <2>1, <2>2 DEF BeginCollect, Collect, FramesOf, Frame
    <3> QED
      BY <1>2, <1>3, <2>2, <3>1 DEF BeginCollect, Passes, state, scope, emitted
  <2>3. CASE BeginCompile
    <3>1. work' \in Seq(FramesOf(CompileOps))
      BY <2>1, <2>3 DEF BeginCompile, Compile, FramesOf, CompileOps, Frame, AnyNode
    <3> QED
      BY <1>2, <1>3, <2>3, <3>1 DEF BeginCompile, Passes
  <2> QED
    BY <1>7, <2>2, <2>3
<1>8. CASE CollectStep
  <2>1. /\ work # <<>> /\ phase = "collect"
        /\ Failing \/ (Walks({"collect"}) /\ UNCHANGED <<phase, result, state, emitted>>)
    BY <1>8, CollectWalks, PassOfTop
  <2>2. CASE Failing
    BY <1>5, <2>2 DEF Failing
  <2>3. CASE Walks({"collect"}) /\ UNCHANGED <<phase, result, state, emitted>>
    <3>1. work' \in Seq(FramesOf({"collect"}))
      BY <2>1, <2>3, WalksFrames DEF Passes
    <3> QED
      BY <1>2, <1>3, <2>1, <2>3, <3>1 DEF Passes, state, scope, emitted
  <2> QED
    BY <2>1, <2>2, <2>3
<1>9. CASE VisitStep \/ ReturnStep
  <2>1. /\ work # <<>> /\ phase = "compile"
        /\ Failing \/ (Walks(CompileOps) /\ UNCHANGED <<phase, result>>)
    <3>1. "compile" \in CompileOps
      BY DEF CompileOps
    <3> QED
      BY <1>9, <3>1, VisitWalks, ReturnWalks, PassOfTop DEF Passes
  <2>2. CASE Failing
    BY <1>5, <2>2 DEF Failing
  <2>3. CASE Walks(CompileOps) /\ UNCHANGED <<phase, result>>
    <3>1. work' \in Seq(FramesOf(CompileOps))
      BY <2>1, <2>3, WalksFrames DEF Passes
    <3> QED
      BY <1>2, <1>3, <2>1, <2>3, <3>1 DEF Passes
  <2> QED
    BY <2>1, <2>2, <2>3
<1>10. CASE Finish
  BY <1>3, <1>10 DEF Finish, Passes
<1>11. CASE Returned
  BY <1>4, <1>11 DEF Returned
<1> QED
  BY <1>4, <1>6, <1>7, <1>8, <1>9, <1>10, <1>11 DEF Next, CollectStep, VisitStep, ReturnStep

-----------------------------------------------------------------------------
(***************************************************************************)
(* The pass get_capturing_groups.                                          *)
(***************************************************************************)

\* The groups that have been counted.
Numbered(p, frames) == Captures(p) \ Pending(p, frames)

IsGroup(p, n) == p.label[n].kind \in ReferenceKinds \cup {"capture"}

\* names has the numbers of the named groups in numbered, and no other ones.
NamesNumber(p, names, numbered) ==
  /\ \A x \in Names : names[x] # 0 =>
       x # NoName /\ \E c \in numbered : p.label[c].tag = x /\ Rank(p, c) = names[x]
  /\ \A c \in numbered : p.label[c].tag # NoName => names[p.label[c].tag] = Rank(p, c)

\* A let whose rule overlaps the subtree of n is in that subtree itself.
Outside(p, n) ==
  \A l \in Nodes(p) : \A m \in Span(p, n) :
    p.label[l].kind = "let" /\ m \in Span(p, p.kids[l][1]) => n <= l

ProperFrames == {f \in FramesOf({"collect"}) : ~f.within => Outside(prog, f.node)}

\* What the passes after it rely on.
GroupsKnown(p, total, names) ==
  /\ total = Cardinality(Captures(p))
  /\ \A m \in Nodes(p) : IsGroup(p, m) => Live(p, m)
  /\ NamesNumber(p, names, Captures(p))

CountInv ==
  /\ phase = "collect" =>
       /\ InOrder(prog, work, Nodes(prog))
       /\ work \in Seq(ProperFrames)
       /\ count = Cardinality(Numbered(prog, work))
       /\ NamesNumber(prog, used_names, Numbered(prog, work))
       /\ \A m \in Nodes(prog) : IsGroup(prog, m) /\ m \notin Pending(prog, work) => Live(prog, m)
  /\ phase = "compile" \/ result = Ok => GroupsKnown(prog, count, used_names)

LEMMA RankCounts ==
  ASSUME WellFormed(prog), NEW n \in Nodes(prog)
  PROVE  LET before == {c \in Captures(prog) : c < n} IN
         /\ IsFiniteSet(before) /\ Cardinality(before) \in Nat
         /\ Rank(prog, n) = Cardinality(before) + (IF IsCapture(prog, n) THEN 1 ELSE 0)
         /\ Rank(prog, n) = Cardinality(Captures(prog) \cap (1 .. n))
         /\ Rank(prog, n) \in Nat
<1> DEFINE S == Captures(prog)
           before == {c \in S : c < n}
<1>1. n - 1 \in Nat /\ n - 1 + 1 = n /\ n \in Nat /\ prog.size \in Nat
  BY Subtree DEF Nodes
<1>2. before = S \cap (1 .. n - 1)
  BY <1>1 DEF Captures, Nodes
<1>3. {m \in 1 .. n : IsCapture(prog, m)} = S \cap (1 .. n)
  BY <1>1 DEF Captures, Nodes
<1>4. n \in S <=> IsCapture(prog, n)
  BY DEF Captures
<1>5. /\ IsFiniteSet(S \cap (1 .. n - 1)) /\ Cardinality(S \cap (1 .. n - 1)) \in Nat
      /\ Cardinality(S \cap (1 .. n - 1 + 1)) =
           Cardinality(S \cap (1 .. n - 1)) + (IF n - 1 + 1 \in S THEN 1 ELSE 0)
  BY <1>1, CountOneMore
<1>6. Cardinality(S \cap (1 .. n)) = Cardinality(S \cap (1 .. n - 1)) + (IF n \in S THEN 1 ELSE 0)
  BY <1>1, <1>5
<1>7. Rank(prog, n) = Cardinality(S \cap (1 .. n))
  BY <1>3 DEF Rank
<1>8. /\ IsFiniteSet(before) /\ Cardinality(before) \in Nat
      /\ Rank(prog, n) = Cardinality(before) + (IF IsCapture(prog, n) THEN 1 ELSE 0)
  BY <1>2, <1>4, <1>5, <1>6, <1>7
<1> QED
  BY <1>7, <1>8

LEMMA CapturesFinite ==
  ASSUME WellFormed(prog), NEW S, S \subseteq Captures(prog)
  PROVE  IsFiniteSet(S) /\ Cardinality(S) \in Nat
<1> DEFINE last == prog.size
<1>0. last \in Int /\ 1 \in Int
  BY DEF WellFormed
<1>1. IsFiniteSet(Nodes(prog))
  <2> HIDE DEF last
  <2>1. IsFiniteSet(1 .. last)
    BY <1>0, FS_Interval
  <2> QED
    BY <2>1 DEF Nodes, last
<1>2. S \in SUBSET Nodes(prog)
  BY DEF Captures
<1>3. IsFiniteSet(S)
  BY <1>1, <1>2, FS_Subset
<1> QED
  BY <1>3, FS_CardinalityType

LEMMA OutsideKids ==
  ASSUME WellFormed(prog), NEW n \in Nodes(prog), Outside(prog, n),
         NEW i \in 1 .. Len(Kids(n)), Kind(n) = "let" => i # 1
  PROVE  Outside(prog, Kids(n)[i])
<1> DEFINE k == Kids(n)[i]
<1>1. k \in Nodes(prog) /\ n < k /\ k <= prog.last[k] /\ prog.last[k] <= prog.last[n]
  BY KidsSpan
<1>2. \A a \in Nodes(prog) : a \in Nat /\ prog.last[a] \in Nat
  BY Subtree DEF Nodes
<1> SUFFICES ASSUME NEW l \in Nodes(prog), NEW m \in Span(prog, k),
                    prog.label[l].kind = "let", m \in Span(prog, prog.kids[l][1])
             PROVE  k <= l
  BY DEF Outside
<1> DEFINE r == prog.kids[l][1]
<1>3. /\ Kids(l) = prog.kids[l] /\ r \in Nodes(prog) /\ 1 \in 1 .. Len(Kids(l))
  <2>1. Kids(l) = prog.kids[l] /\ Kind(l) = "let" /\ Arity(prog, l)
    BY ProgramNodes DEF WellFormed
  <2>2. Len(Kids(l)) = 2
    BY <2>1 DEF Arity
  <2> QED
    BY <2>1, <2>2, LetKids
<1>4. l < r /\ prog.last[r] <= prog.last[l]
  BY <1>3, KidsSpan
<1>5. k <= m /\ m <= prog.last[k] /\ r <= m /\ m <= prog.last[r] /\ m \in Nat
  BY <1>1, <1>2, <1>3 DEF Span
<1>6. i \in Nat /\ 1 <= i
  OBVIOUS
<1> HIDE DEF k, r
<1>7. m \in Span(prog, n)
  BY <1>1, <1>2, <1>5 DEF Span
<1>8. n <= l
  BY <1>7 DEF Outside, r
<1>9. n # l
  <2> SUFFICES ASSUME n = l PROVE FALSE
    OBVIOUS
  <2>1. Kind(n) = "let" /\ r = Kids(n)[1]
    BY <1>3, ProgramNodes DEF r
  <2>2. 1 < i
    BY <1>6, <2>1
  <2>3. prog.last[r] < k
    BY <1>3, <2>1, <2>2, KidsDisjoint DEF k
  <2> QED
    BY <1>1, <1>2, <1>3, <1>5, <2>3
<1> SUFFICES ASSUME l < k PROVE FALSE
  BY <1>1, <1>2
<1>10. k <= prog.last[l]
  BY <1>1, <1>2, <1>3, <1>4, <1>5
<1>11. l <= n
  BY <1>10, SubtreeOfParent DEF k
<1> QED
  BY <1>2, <1>8, <1>9, <1>11

LEMMA OutsideLive ==
  ASSUME WellFormed(prog), NEW n \in Nodes(prog), Outside(prog, n)
  PROVE  Live(prog, n)
<1> SUFFICES ASSUME NEW l \in Nodes(prog), prog.label[l].kind = "let",
                    prog.kids[l][1] <= n, n <= prog.last[prog.kids[l][1]]
             PROVE  FALSE
  BY DEF Live, InLetRule
<1>1. /\ Kids(l) = prog.kids[l] /\ prog.kids[l][1] \in Nodes(prog)
      /\ 1 \in 1 .. Len(Kids(l))
  <2>1. Kids(l) = prog.kids[l] /\ Kind(l) = "let" /\ Arity(prog, l)
    BY ProgramNodes DEF WellFormed
  <2>2. Len(Kids(l)) = 2
    BY <2>1 DEF Arity
  <2> QED
    BY <2>1, <2>2, LetKids
<1>2. l < prog.kids[l][1]
  BY <1>1, KidsSpan
<1>3. \A a \in Nodes(prog) : a \in Nat /\ prog.last[a] \in Nat /\ a <= prog.last[a]
  BY Subtree DEF Nodes
<1>4. n \in Span(prog, n) /\ n \in Span(prog, prog.kids[l][1])
  BY <1>1, <1>3 DEF Span
<1>5. n <= l
  BY <1>4 DEF Outside
<1> QED
  BY <1>1, <1>2, <1>3, <1>5

LEMMA BeginCollectCounts == TypeOK /\ Passes /\ BeginCollect => CountInv'
<1> SUFFICES ASSUME TypeOK, Passes, BeginCollect PROVE CountInv'
  OBVIOUS
<1>1. /\ phase = "validate" /\ phase' = "collect" /\ work' = <<Collect(1, FALSE)>>
      /\ UNCHANGED <<prog, flavor, features, result, count, used_names>>
  BY DEF BeginCollect, input, groups
<1>2. count = 0 /\ used_names = [x \in Names |-> 0] /\ result # Ok
  BY <1>1 DEF Passes, Ok, NoError
<1>3. /\ WellFormed(prog) /\ 1 \in Nodes(prog) /\ Span(prog, 1) = Nodes(prog)
  BY DEF TypeOK, WellFormed, Span, Nodes
<1>4. Pending(prog, work') = Nodes(prog) /\ Ordered(prog, work')
  <2> DEFINE fs == <<Collect(1, FALSE)>>
  <2>1. DOMAIN fs = {1} /\ Open(prog, fs[1]) = Nodes(prog)
    BY <1>3 DEF Collect, Open
  <2>2. Pending(prog, fs) = Nodes(prog)
    BY <2>1 DEF Pending
  <2>3. Ordered(prog, fs)
    BY <2>1 DEF Ordered
  <2> QED
    BY <1>1, <2>2, <2>3
<1>5. InOrder(prog, work', Nodes(prog))
  BY <1>4 DEF InOrder
<1>6. Numbered(prog, work') = {}
  BY <1>4 DEF Numbered, Captures
<1>7. work' \in Seq(ProperFrames')
  <2>1. Outside(prog, 1)
    BY DEF Outside, Nodes
  <2>2. Collect(1, FALSE) \in ProperFrames
    BY <1>3, <2>1 DEF Collect, ProperFrames, FramesOf, Frame
  <2>3. ProperFrames' = ProperFrames
    BY <1>1 DEF ProperFrames, FramesOf, Frame, AnyNode, Nodes
  <2>4. <<Collect(1, FALSE)>> \in Seq(ProperFrames)
    BY <2>2, ShortSequences
  <2> QED
    BY <1>1, <2>3, <2>4
<1>8. NamesNumber(prog, used_names, {})
  BY <1>2 DEF NamesNumber
<1> QED
  BY <1>1, <1>2, <1>4, <1>5, <1>6, <1>7, <1>8, FS_EmptySet DEF CountInv

LEMMA BeginCompileKnows == TypeOK /\ Passes /\ CountInv /\ BeginCompile => CountInv'
<1> SUFFICES ASSUME TypeOK, Passes, CountInv, BeginCompile PROVE CountInv'
  OBVIOUS
<1>1. /\ phase = "collect" /\ phase' = "compile" /\ work = <<>>
      /\ UNCHANGED <<prog, count, used_names>>
  BY DEF BeginCompile, input, groups
<1>2. Pending(prog, work) = {}
  BY <1>1 DEF Pending
<1>3. Numbered(prog, work) = Captures(prog)
  BY <1>2 DEF Numbered
<1>4. GroupsKnown(prog, count, used_names)
  BY <1>1, <1>2, <1>3 DEF CountInv, GroupsKnown
<1> QED
  BY <1>1, <1>4 DEF CountInv

LEMMA CollectProper ==
  ASSUME TypeOK, work \in Seq(ProperFrames), CollectStep, ~Failing
  PROVE  work' \in Seq(ProperFrames)
<1> DEFINE n == Top.node
<1>1. work # <<>> /\ Top.op = "collect" /\ n \in Nodes(prog)
  BY CollectWalks
<1>2. WellFormed(prog) /\ Top.within \in BOOLEAN
  BY <1>1, TopFrame DEF TypeOK
<1>3. ~Top.within => Outside(prog, n)
  <2>1. Len(work) \in 1 .. Len(work)
    BY <1>1, EmptySeq DEF TypeOK
  <2>2. Top \in ProperFrames
    BY <2>1, ElementOfSeq DEF Top
  <2> QED
    BY <2>2 DEF ProperFrames
<1>4. \A m \in Nodes(prog), w \in BOOLEAN :
        (~w => Outside(prog, m)) => Collect(m, w) \in ProperFrames
  BY DEF Collect, ProperFrames, FramesOf, Frame
<1>5. Len(Kids(n)) \in Nat /\ DOMAIN Kids(n) = 1 .. Len(Kids(n)) /\ Kids(n) \in Seq(Nodes(prog))
  BY <1>1, <1>2, Subtree
<1>6. ASSUME NEW fs \in Seq(ProperFrames), Continue(fs) PROVE work' \in Seq(ProperFrames)
  BY <1>1, <1>6, Replaced DEF Continue, Rest
<1>7. ASSUME NEW w \in BOOLEAN, Kind(n) # "let", ~w => ~Top.within,
             Continue(CollectAll(Kids(n), w))
      PROVE  work' \in Seq(ProperFrames)
  <2> DEFINE N == {m \in Nodes(prog) : Collect(m, w) \in ProperFrames}
  <2>1. \A i \in 1 .. Len(Kids(n)) : Kids(n)[i] \in N
    <3> TAKE i \in 1 .. Len(Kids(n))
    <3>1. Kids(n)[i] \in Nodes(prog)
      BY <1>1, <1>2, KidsSpan
    <3>2. ~w => Outside(prog, Kids(n)[i])
      BY <1>1, <1>2, <1>3, <1>7, OutsideKids
    <3> QED
      BY <1>4, <3>1, <3>2
  <2>2. \A m \in N : Collect(m, w) \in ProperFrames
    OBVIOUS
  <2> HIDE DEF N
  <2>3. Kids(n) \in Seq(N)
    BY <1>5, <2>1
  <2>4. CollectAll(Kids(n), w) \in Seq(ProperFrames)
    BY <2>2, <2>3, Visits
  <2> QED
    BY <1>6, <1>7, <2>4
<1>8. \A e : Fail(e) => e = Ok
  BY DEF Failing
<1>9. CASE CollectCapture
  BY <1>2, <1>7, <1>8, <1>9 DEF CollectCapture, Visiting, Ok
<1>10. CASE CollectReference
  BY <1>6, <1>8, <1>10, ShortSequences DEF CollectReference, Ok
<1>11. CASE CollectOther
  BY <1>2, <1>7, <1>11 DEF CollectOther, Visiting
<1>12. CASE CollectLet
  <2>1. /\ Kind(n) = "let"
        /\ Continue(<<Collect(Kids(n)[2], Top.within), Collect(Kids(n)[1], TRUE)>>)
    BY <1>12 DEF CollectLet, Visiting
  <2>2. Kids(n)[1] \in Nodes(prog) /\ Kids(n)[2] \in Nodes(prog)
    BY <1>1, <1>2, <2>1, LetKids
  <2>3. Len(Kids(n)) = 2
    <3>1. prog.label[n].kind = "let" /\ Kids(n) = prog.kids[n] /\ Arity(prog, n)
      BY <1>1, <1>2, <2>1, ProgramNodes DEF WellFormed
    <3> QED
      BY <3>1 DEF Arity
  <2>4. Outside(prog, n) => Outside(prog, Kids(n)[2])
    <3>1. 2 \in 1 .. Len(Kids(n))
      BY <2>3
    <3> QED
      BY <1>1, <1>2, <3>1, OutsideKids
  <2>5. Collect(Kids(n)[2], Top.within) \in ProperFrames /\ Collect(Kids(n)[1], TRUE) \in ProperFrames
    BY <1>2, <1>3, <1>4, <2>2, <2>4
  <2> QED
    BY <1>6, <2>1, <2>5, ShortSequences
<1> QED
  BY <1>9, <1>10, <1>11, <1>12 DEF CollectStep

LEMMA CollectCounts == TypeOK /\ Passes /\ CountInv /\ CollectStep => CountInv'
<1> SUFFICES ASSUME TypeOK, Passes, CountInv, CollectStep PROVE CountInv'
  OBVIOUS
<1> DEFINE n == Top.node
<1>1. /\ work # <<>> /\ Top.op = "collect" /\ n \in Nodes(prog) /\ phase = "collect"
      /\ Failing \/ (Walks({"collect"}) /\ UNCHANGED <<phase, result, state, emitted>>)
      /\ prog' = prog
  BY CollectWalks, PassOfTop DEF input
<1>2. WellFormed(prog) /\ result # Ok
  BY <1>1 DEF TypeOK, Passes, Ok, NoError
<1>3. CASE Failing
  BY <1>3 DEF Failing, Fail, CountInv
<1>4. ASSUME ~Failing PROVE CountInv'
  <2>1. Walks({"collect"}) /\ UNCHANGED <<phase, result, state, emitted>>
    BY <1>1, <1>4
  <2>2. /\ InOrder(prog, work, Nodes(prog)) /\ work \in Seq(ProperFrames)
        /\ count = Cardinality(Numbered(prog, work))
        /\ NamesNumber(prog, used_names, Numbered(prog, work))
        /\ \A m \in Nodes(prog) : IsGroup(prog, m) /\ m \notin Pending(prog, work) => Live(prog, m)
    BY <1>1 DEF CountInv
  <2>3. n \in Open(prog, Top)
    BY <1>1, <1>2, Subtree DEF Open, Span
  <2>4. /\ InOrder(prog, work', Nodes(prog)) /\ n \in Pending(prog, work)
        /\ Pending(prog, work') = Pending(prog, work) \ {n}
        /\ \A c \in Nodes(prog) : c \notin Pending(prog, work) <=> c < n
    <3>1. Nodes(prog) \in SUBSET Nodes(prog)
      OBVIOUS
    <3> QED
      BY <1>1, <2>1, <2>2, <2>3, <3>1, Walk
  <2>5. work' \in Seq(ProperFrames')
    <3>1. ProperFrames' = ProperFrames
      BY <1>1, CollectWalks DEF ProperFrames, FramesOf, Frame, AnyNode, Nodes, input
    <3> QED
      BY <1>4, <2>2, <3>1, CollectProper
  <2> DEFINE before == Numbered(prog, work)
  <2>6. before = {c \in Captures(prog) : c < n} /\ before \subseteq Captures(prog)
    BY <2>4 DEF Numbered, Captures
  <2>7. n \notin before
    BY <2>4 DEF Numbered
  <2>8. Numbered(prog, work') = IF IsCapture(prog, n) THEN before \cup {n} ELSE before
    BY <1>1, <2>4 DEF Numbered, Captures
  <2>9. Kind(n) = prog.label[n].kind /\ Tag(n) = prog.label[n].tag
    BY <1>1, <1>2, ProgramNodes
  <2>10. IsFiniteSet(before) /\ Cardinality(before) \in Nat
    BY <1>2, <2>6, CapturesFinite
  <2>11. IsGroup(prog, n) => Live(prog, n)
    <3> SUFFICES ASSUME IsGroup(prog, n) PROVE Outside(prog, n)
      BY <1>1, <1>2, OutsideLive
    <3>1. ~Top.within
      <4>1. Kind(n) \in ReferenceKinds \cup {"capture"}
        BY <2>9 DEF IsGroup
      <4>2. CollectCapture \/ CollectReference
        BY <4>1 DEF CollectStep, CollectLet, CollectOther, Visiting, ReferenceKinds
      <4>3. \A e : Fail(e) => e = Ok
        BY <1>4 DEF Failing
      <4> QED
        BY <4>2, <4>3 DEF CollectCapture, CollectReference, Ok
    <3>2. Len(work) \in 1 .. Len(work)
      BY <1>1, EmptySeq DEF TypeOK
    <3>3. Top \in ProperFrames
      BY <2>2, <3>2, ElementOfSeq DEF Top
    <3> QED
      BY <3>1, <3>3 DEF ProperFrames
  <2>12. \A m \in Nodes(prog) : IsGroup(prog, m) /\ m \notin Pending(prog, work') => Live(prog, m)
    BY <2>2, <2>4, <2>11
  <2>13. CASE IsCapture(prog, n)
    <3>1. /\ count' = count + 1 /\ (IsNamed(n) => used_names[Tag(n)] = 0)
          /\ used_names' = IF IsNamed(n) THEN [used_names EXCEPT ![Tag(n)] = count + 1]
                                         ELSE used_names
      <4>1. CollectCapture
        BY <2>9, <2>13 DEF CollectStep, CollectReference, CollectLet, CollectOther, Visiting,
           ReferenceKinds, IsCapture
      <4>2. \A e : Fail(e) => e = Ok
        BY <1>4 DEF Failing
      <4> QED
        BY <4>1, <4>2 DEF CollectCapture, Ok
    <3>2. Numbered(prog, work') = before \cup {n}
      BY <2>8, <2>13
    <3>3. Cardinality(Numbered(prog, work')) = count + 1
      BY <2>2, <2>7, <2>10, <3>2, FS_AddElement
    <3>4. Rank(prog, n) = count + 1
      BY <1>1, <1>2, <2>2, <2>6, <2>13, RankCounts
    <3>5. /\ used_names \in [Names -> Nat] /\ count \in Nat
          /\ IsNamed(n) => Tag(n) \in Names
      <4>1. Tags(prog, n)
        BY <1>1, <1>2 DEF WellFormed
      <4> QED
        BY <2>9, <2>13, <4>1 DEF TypeOK, Tags, IsNamed, IsCapture
    <3>6. \A c \in before : c \in Nodes(prog) /\ IsCapture(prog, c) /\ Rank(prog, c) \in Nat \ {0}
      <4> TAKE c \in before
      <4>1. c \in Nodes(prog) /\ IsCapture(prog, c)
        BY <2>6 DEF Captures
      <4>2. Rank(prog, c) \in Nat \ {0}
        <5> DEFINE b == {d \in Captures(prog) : d < c}
        <5>1. Cardinality(b) \in Nat /\ Rank(prog, c) = Cardinality(b) + 1
          BY <1>2, <4>1, RankCounts
        <5> HIDE DEF b
        <5> QED
          BY <5>1
      <4> QED
        BY <4>1, <4>2
    <3> HIDE DEF before
    <3>7. NamesNumber(prog, used_names', before \cup {n})
      <4>1. NamesNumber(prog, used_names, before)
        BY <2>2 DEF before
      <4>2. CASE ~IsNamed(n)
        <5>1. used_names' = used_names /\ prog.label[n].tag = NoName
          BY <2>9, <3>1, <4>2 DEF IsNamed
        <5> QED
          BY <4>1, <5>1 DEF NamesNumber
      <4>3. CASE IsNamed(n)
        <5> DEFINE x == Tag(n)
        <5>1. /\ x \in Names /\ used_names[x] = 0 /\ x = prog.label[n].tag /\ x # NoName
              /\ used_names' = [used_names EXCEPT ![x] = count + 1]
          BY <2>9, <3>1, <3>5, <4>3 DEF IsNamed
        <5>2. used_names'[x] = count + 1 /\ \A y \in Names : y # x => used_names'[y] = used_names[y]
          BY <3>5, <5>1
        <5> HIDE DEF x
        <5>3. \A c \in before : prog.label[c].tag # x
          BY <3>6, <4>1, <5>1 DEF NamesNumber
        <5>4. \A c \in before : prog.label[c].tag # NoName => prog.label[c].tag \in Names
          <6> TAKE c \in before
          <6>1. Tags(prog, c) /\ prog.label[c].kind = "capture"
            BY <1>2, <3>6 DEF WellFormed, IsCapture
          <6> QED
            BY <6>1 DEF Tags
        <5>5. \A c \in before : prog.label[c].tag # NoName => used_names'[prog.label[c].tag] = Rank(prog, c)
          BY <4>1, <5>2, <5>3, <5>4 DEF NamesNumber
        <5>6. \A y \in Names : used_names'[y] # 0 =>
                 y # NoName /\ \E c \in before \cup {n} : prog.label[c].tag = y /\ Rank(prog, c) = used_names'[y]
          BY <3>4, <4>1, <5>1, <5>2 DEF NamesNumber
        <5> QED
          BY <3>4, <5>1, <5>2, <5>5, <5>6 DEF NamesNumber
      <4> QED
        BY <4>2, <4>3
    <3> QED
      BY <1>1, <1>2, <2>1, <2>4, <2>5, <2>12, <3>1, <3>2, <3>3, <3>7 DEF CountInv
  <2>14. CASE ~IsCapture(prog, n)
    <3>1. UNCHANGED <<count, used_names>>
      <4>1. CollectReference \/ CollectLet \/ CollectOther
        BY <2>9, <2>14 DEF CollectStep, CollectCapture, Visiting, IsCapture
      <4>2. \A e : Fail(e) => e = Ok
        BY <1>4 DEF Failing
      <4> QED
        BY <4>1, <4>2 DEF CollectReference, CollectLet, CollectOther, groups, Ok
    <3> QED
      BY <1>1, <1>2, <2>1, <2>2, <2>4, <2>5, <2>8, <2>12, <2>14, <3>1 DEF CountInv
  <2> QED
    BY <2>13, <2>14
<1> QED
  BY <1>3, <1>4

LEMMA CountStep == TypeOK /\ Passes /\ CountInv /\ [Next]_vars => CountInv'
<1> SUFFICES ASSUME TypeOK, Passes, CountInv, [Next]_vars PROVE CountInv'
  OBVIOUS
<1>1. prog' = prog
  BY InputKept DEF input
<1>2. CASE UNCHANGED vars
  BY <1>2 DEF vars, groups, state, scope, input, CountInv, ProperFrames, FramesOf, Frame, AnyNode
<1>3. CASE Failing
  BY <1>3 DEF Failing, Fail, CountInv
<1>4. CASE ValidateRule
  <2>1. work # <<>> /\ Top.op = "validate" /\ phase = "validate" /\ result # Ok
    BY <1>4, PassOfTop DEF ValidateRule, Visiting, Passes, Ok, NoError
  <2>2. \/ phase' = "done" /\ result' = ValidationError(Top.node)
        \/ phase' = phase /\ result' = result
    BY <1>4 DEF ValidateRule, Fail
  <2>3. ValidationError(Top.node) # Ok
    BY DEF ValidationError, Ok, NoError
  <2> QED
    BY <2>1, <2>2, <2>3 DEF CountInv
<1>5. CASE BeginCollect \/ BeginCompile \/ CollectStep
  BY <1>5, BeginCollectCounts, BeginCompileKnows, CollectCounts
<1>6. CASE VisitStep \/ ReturnStep
  <2>1. work # <<>> /\ Top.op \in CompileOps /\ UNCHANGED groups
    BY <1>6, VisitWalks, ReturnWalks DEF Passes, CompileOps
  <2>2. phase = "compile"
    BY <2>1, PassOfTop
  <2>3. Failing \/ UNCHANGED <<phase, result>>
    BY <1>6, VisitWalks, ReturnWalks DEF Passes
  <2> QED
    BY <1>1, <1>3, <2>1, <2>2, <2>3 DEF CountInv, groups
<1>7. CASE Finish
  BY <1>1, <1>7 DEF Finish, CountInv, groups
<1>8. CASE Returned
  BY <1>2, <1>8 DEF Returned
<1> QED
  BY <1>2, <1>4, <1>5, <1>6, <1>7, <1>8 DEF Next, CollectStep, VisitStep, ReturnStep

\* Each pass runs on frames of its own.
THEOREM OwnFrames == Spec => [](TypeOK /\ Passes)
<1>1. Init => TypeOK /\ Passes
  BY PassesInitially
<1>2. TypeOK /\ Passes /\ [Next]_vars => Passes'
  BY PassesStep
<1> QED
  BY <1>1, <1>2, TypeInvariant, PTL DEF Spec

\* The numbers that get_capturing_groups gives to the groups are their numbers in
\* the source, and no group and no reference is in the rule of a let.
THEOREM GroupsCounted == Spec => [](TypeOK /\ Passes /\ CountInv)
<1>1. Init => CountInv
  BY DEF Init, CountInv, NoError, Ok
<1>2. TypeOK /\ Passes /\ CountInv /\ [Next]_vars => CountInv'
  BY CountStep
<1> QED
  BY <1>1, <1>2, OwnFrames, PTL DEF Spec

-----------------------------------------------------------------------------
(***************************************************************************)
(* The pass compile: the regex grows by a token at a time.                 *)
(***************************************************************************)

\* The positions of the groups.
GroupsIn(p, tokens) == {j \in DOMAIN tokens : KindOf(p, tokens[j].node) = "capture"}

LEMMA Emitted ==
  ASSUME TypeOK
  PROVE  /\ Len(out) \in Nat /\ DOMAIN out = 1 .. Len(out)
         /\ GroupsIn(prog, out) \subseteq 1 .. Len(out)
         /\ GroupsIn(prog, out) = GroupsIn(prog, out) \cap (1 .. Len(out))
         /\ \A i \in 0 .. Len(out) :
              EngineNumber(i) = Cardinality(GroupsIn(prog, out) \cap (1 .. i))
         /\ \A i \in DOMAIN out : i \in GroupsIn(prog, out) <=> IsGroupToken(i)
         /\ \A i \in GroupsIn(prog, out) : out[i].node \in Captures(prog)
<1>1. Len(out) \in Nat /\ DOMAIN out = 1 .. Len(out)
  BY LenProperties DEF TypeOK
<1>2. GroupsIn(prog, out) \subseteq 1 .. Len(out)
  BY <1>1 DEF GroupsIn
<1>3. \A i \in DOMAIN out : i \in GroupsIn(prog, out) <=> IsGroupToken(i)
  BY DEF GroupsIn, IsGroupToken, Kind
<1>4. ASSUME NEW i \in 0 .. Len(out)
      PROVE  EngineNumber(i) = Cardinality(GroupsIn(prog, out) \cap (1 .. i))
  <2>1. {j \in 1 .. i : IsGroupToken(j)} = GroupsIn(prog, out) \cap (1 .. i)
    BY <1>1, <1>3 DEF GroupsIn
  <2> QED
    BY <2>1 DEF EngineNumber
<1>5. ASSUME NEW i \in GroupsIn(prog, out) PROVE out[i].node \in Captures(prog)
  <2>1. WellFormed(prog) /\ out[i] \in Token /\ Kind(out[i].node) = "capture"
    BY <1>1, ElementOfSeq DEF TypeOK, GroupsIn, Kind
  <2>2. out[i].node \in AnyNode /\ "capture" \notin ValueKinds
    BY <2>1 DEF Token, ValueKinds
  <2>3. out[i].node \in Nodes(prog)
    BY <2>1, <2>2, NodeTypes
  <2> QED
    BY <2>1, <2>3, ProgramNodes DEF Captures, IsCapture
<1> QED
  BY <1>1, <1>2, <1>3, <1>4, <1>5

LEMMA Appended ==
  ASSUME TypeOK, prog' = prog, NEW t, out' = Append(out, t)
  PROVE  /\ DOMAIN out' = 1 .. Len(out) + 1 /\ Len(out') = Len(out) + 1
         /\ \A i \in DOMAIN out : i \in DOMAIN out' /\ out'[i] = out[i] /\ i # Len(out) + 1
         /\ \A i \in DOMAIN out' : i \in DOMAIN out \/ i = Len(out) + 1
         /\ Len(out) + 1 \in DOMAIN out' /\ out'[Len(out) + 1] = t
         /\ \A i \in DOMAIN out : EngineNumber(i)' = EngineNumber(i)
         /\ GroupsIn(prog, out') =
              IF Kind(t.node) = "capture" THEN GroupsIn(prog, out) \cup {Len(out) + 1}
                                          ELSE GroupsIn(prog, out)
         /\ \A i \in DOMAIN out' :
              i = Len(out) + 1 => EngineNumber(i)' = Cardinality(GroupsIn(prog, out'))
         /\ Cardinality(GroupsIn(prog, out)) \in Nat
         /\ Cardinality(GroupsIn(prog, out')) =
              Cardinality(GroupsIn(prog, out)) + (IF Kind(t.node) = "capture" THEN 1 ELSE 0)
<1> DEFINE k == Len(out)
           G == GroupsIn(prog, out)
           H == GroupsIn(prog, out')
<1>1. /\ k \in Nat /\ DOMAIN out = 1 .. k /\ G \subseteq 1 .. k /\ G = G \cap (1 .. k)
      /\ \A i \in 0 .. k : EngineNumber(i) = Cardinality(G \cap (1 .. i))
  BY Emitted
<1>2. /\ DOMAIN out' = 1 .. k + 1 /\ Len(out') = k + 1 /\ out'[k + 1] = t
      /\ \A i \in 1 .. k : out'[i] = out[i]
  <2>1. out \in Seq(Token \cup {t})
    BY SeqMonotonic DEF TypeOK
  <2>2. /\ Append(out, t) \in Seq(Token \cup {t}) /\ Len(Append(out, t)) = Len(out) + 1
        /\ \A i \in 1 .. Len(out) : Append(out, t)[i] = out[i]
        /\ Append(out, t)[Len(out) + 1] = t
    BY <2>1, AppendProperties
  <2> QED
    BY <2>2, LenProperties
<1>3. H = IF Kind(t.node) = "capture" THEN G \cup {k + 1} ELSE G
  <2>1. \A i : i \in H <=> i \in 1 .. k + 1 /\ KindOf(prog, out'[i].node) = "capture"
    BY <1>2 DEF GroupsIn
  <2>2. \A i : i \in G <=> i \in 1 .. k /\ KindOf(prog, out[i].node) = "capture"
    BY <1>1 DEF GroupsIn
  <2>3. \A i : i \in 1 .. k + 1 <=> i \in 1 .. k \/ i = k + 1
    BY <1>1
  <2>4. KindOf(prog, out'[k + 1].node) = Kind(t.node) /\ k + 1 \notin 1 .. k
    BY <1>1, <1>2 DEF Kind
  <2> HIDE DEF H, G, k
  <2>5. \A i : i \in H <=> i \in G \/ (i = k + 1 /\ Kind(t.node) = "capture")
    BY <1>2, <2>1, <2>2, <2>3, <2>4
  <2> QED
    BY <2>5
<1>4. \A i \in 1 .. k + 1 : EngineNumber(i)' = Cardinality(H \cap (1 .. i))
  <2> TAKE i \in 1 .. k + 1
  <2>1. {j \in 1 .. i : Kind(out[j].node)' = "capture"} = H \cap (1 .. i)
    BY <1>1, <1>2 DEF GroupsIn, Kind
  <2> QED
    BY <2>1 DEF EngineNumber, IsGroupToken
<1> HIDE DEF k, G, H
<1>5. ASSUME NEW i \in 1 .. k PROVE EngineNumber(i)' = EngineNumber(i)
  <2>1. H \cap (1 .. i) = G \cap (1 .. i) /\ i \in 0 .. k /\ i \in 1 .. k + 1
    BY <1>1, <1>3
  <2> QED
    BY <1>1, <1>4, <2>1
<1>6. \A i \in 1 .. k + 1 : i = k + 1 => EngineNumber(i)' = Cardinality(H)
  <2>1. H \cap (1 .. k + 1) = H
    BY <1>1, <1>3
  <2> QED
    BY <1>4, <2>1
<1>7. /\ Cardinality(G) \in Nat
      /\ Cardinality(H) = Cardinality(G) + (IF Kind(t.node) = "capture" THEN 1 ELSE 0)
  <2>1. IsFiniteSet(G)
    <3>1. IsFiniteSet(G \cap (1 .. k))
      BY <1>1, CountOneMore
    <3> QED
      BY <1>1, <3>1
  <2>2. k + 1 \notin G
    BY <1>1
  <2>3. Cardinality(G) \in Nat
    BY <2>1, FS_CardinalityType
  <2>4. Cardinality(G \cup {k + 1}) = Cardinality(G) + 1
    BY <2>1, <2>2, FS_AddElement
  <2> QED
    BY <1>3, <2>3, <2>4
<1>8. /\ \A i \in 1 .. k : i \in 1 .. k + 1 /\ i # k + 1
      /\ \A i \in 1 .. k + 1 : i \in 1 .. k \/ i = k + 1
      /\ k + 1 \in 1 .. k + 1
  BY <1>1
<1>9. DOMAIN out = 1 .. Len(out) /\ k = Len(out)
  BY <1>1 DEF k
<1>10. /\ \A i \in DOMAIN out : i \in DOMAIN out' /\ out'[i] = out[i] /\ i # Len(out) + 1
       /\ \A i \in DOMAIN out' : i \in DOMAIN out \/ i = Len(out) + 1
       /\ Len(out) + 1 \in DOMAIN out' /\ out'[Len(out) + 1] = t
       /\ DOMAIN out' = 1 .. Len(out) + 1 /\ Len(out') = Len(out) + 1
  BY <1>2, <1>8, <1>9
<1>11. /\ \A i \in DOMAIN out : EngineNumber(i)' = EngineNumber(i)
       /\ \A i \in DOMAIN out' :
              i = Len(out) + 1 => EngineNumber(i)' = Cardinality(GroupsIn(prog, out'))
  BY <1>2, <1>5, <1>6, <1>9 DEF H
<1> QED
  BY <1>3, <1>7, <1>10, <1>11, Zenon DEF k, G, H

\* What a step of the pass compile adds to the regex.
LEMMA StepEmits ==
  ASSUME TypeOK, VisitStep \/ ReturnStep, ~Failing
  PROVE  \/ /\ UNCHANGED <<out, next_idx>>
            /\ Top.op = "compile" => Kind(Top.node) \notin ReferenceKinds \cup {"capture"}
         \/ /\ Top.op = "compile" /\ Kind(Top.node) = "capture"
            /\ Emit(Top.node, next_idx, Plain) /\ next_idx' = next_idx + 1
         \/ /\ Top.op = "compile" /\ Kind(Top.node) \in ReferenceKinds
            /\ ReferenceError(Top.node) = NoError /\ FlavorError(Top.node) = NoError
            /\ Emit(Top.node, GroupNumber(Top.node), ReferenceForm(Top.node))
            /\ UNCHANGED next_idx
         \/ /\ Top.op = "build" /\ Kind(Top.node) = "repetition"
            /\ Emit(Top.node, 0, QuantifierOf(Top.node)) /\ UNCHANGED next_idx
         \/ /\ Top.op = "compile"
            /\ Kind(Top.node) \notin ReferenceKinds \cup {"capture", "repetition"}
            /\ Emit(Top.node, 0, Plain) /\ UNCHANGED next_idx
<1>1. \A e : Fail(e) => e = Ok
  BY DEF Failing
<1>2. \A n : ValueError(n) # Ok /\ ReferenceError(n) # Ok /\ FlavorError(n) # Ok
  BY DEF ValueError, ReferenceError, FlavorError, Ok, NoError
<1>3. CASE CompileValue
  BY <1>1, <1>2, <1>3 DEF CompileValue, Visiting, ValueKinds, ReferenceKinds, state
<1>4. CASE CompileGroup
  BY <1>4 DEF CompileGroup, Visiting, GroupKinds, ReferenceKinds
<1>5. CASE CompileLookaround
  BY <1>1, <1>5 DEF CompileLookaround, Visiting, LookaroundKinds, ReferenceKinds, Ok
<1>6. CASE CompileReference
  BY <1>1, <1>2, <1>6 DEF CompileReference, Visiting, state
<1>7. CASE CompileVariable
  BY <1>1, <1>7 DEF CompileVariable, Visiting, ReferenceKinds, emitted, Ok
<1>8. CASE CompileAlternation \/ CompileRepetition \/ CompileMode \/ CompileLet
  BY <1>8 DEF CompileAlternation, CompileRepetition, CompileMode, CompileLet, Visiting,
     ModeKinds, ReferenceKinds, state, emitted
<1>9. CASE BuildRepetition
  BY <1>1, <1>9 DEF BuildRepetition, Visiting, state, Ok
<1>10. CASE BuildGroup \/ BuildAlternation \/ BuildLookaround
  BY <1>10 DEF BuildGroup, BuildAlternation, BuildLookaround, Visiting, state
<1>11. CASE RestoreMode \/ UnbindLet \/ UnexpandVariable
  BY <1>11 DEF RestoreMode, UnbindLet, UnexpandVariable, Returning, emitted
<1> QED
  BY <1>3, <1>4, <1>5, <1>6, <1>7, <1>8, <1>9, <1>10, <1>11 DEF VisitStep, ReturnStep

\* The tokens have a group for each node in numbered.
Emits(p, tokens, numbered) ==
  /\ Cardinality(GroupsIn(p, tokens)) = Cardinality(numbered)
  /\ \A c \in numbered : \E i \in GroupsIn(p, tokens) : tokens[i].node = c

OrderInv ==
  /\ phase = "compile" =>
       /\ InOrder(prog, work, LiveNodes(prog))
       /\ next_idx = Cardinality(Numbered(prog, work)) + 1
       /\ Emits(prog, out, Numbered(prog, work))
  /\ result = Ok => Emits(prog, out, Captures(prog))

LEMMA CapturesLive ==
  ASSUME NEW total, NEW names, GroupsKnown(prog, total, names)
  PROVE  Captures(prog) \subseteq LiveNodes(prog)
BY DEF GroupsKnown, Captures, LiveNodes, IsCapture, IsGroup

\* A group is visited in its turn, and so is a reference: those that are numbered
\* are the ones in front of it.
LEMMA CompileWalk ==
  ASSUME TypeOK, Passes, CountInv, OrderInv, VisitStep \/ ReturnStep, ~Failing
  PROVE  /\ phase = "compile" /\ UNCHANGED <<input, phase, result, groups>> /\ work # <<>>
         /\ InOrder(prog, work', LiveNodes(prog))
         /\ ~(Top.op = "compile" /\ Kind(Top.node) = "capture") =>
              Numbered(prog, work') = Numbered(prog, work)
         /\ Top.op = "compile" /\ Kind(Top.node) = "capture" =>
              /\ Numbered(prog, work') = Numbered(prog, work) \cup {Top.node}
              /\ Top.node \notin Numbered(prog, work)
         /\ Top.op = "compile" /\ Kind(Top.node) \in ReferenceKinds \cup {"capture"} =>
              /\ Top.node \in Nodes(prog)
              /\ Numbered(prog, work) = {c \in Captures(prog) : c < Top.node}
<1> DEFINE n == Top.node
<1>1. /\ work # <<>> /\ Top.op \in CompileOps /\ UNCHANGED <<input, groups>>
      /\ Walks(CompileOps) /\ UNCHANGED <<phase, result>>
  BY VisitWalks, ReturnWalks DEF Passes, CompileOps
<1>2. phase = "compile"
  BY <1>1, PassOfTop
<1>3. WellFormed(prog) /\ Top \in Frame /\ Open(prog, Top) \subseteq Nodes(prog)
  BY <1>1, TopFrame, OpenNodes DEF TypeOK
<1>4. GroupsKnown(prog, count, used_names)
  BY <1>2 DEF CountInv
<1>5. Captures(prog) \subseteq LiveNodes(prog)
  BY <1>4, CapturesLive
<1>6. /\ InOrder(prog, work', LiveNodes(prog))
      /\ \/ Open(prog, Top) = {} /\ Pending(prog, work') = Pending(prog, work)
         \/ /\ n \in Open(prog, Top) /\ n \in Pending(prog, work)
            /\ Pending(prog, work') = Pending(prog, work) \ {n}
            /\ \A c \in LiveNodes(prog) : c \notin Pending(prog, work) <=> c < n
  <2>1. LiveNodes(prog) \in SUBSET Nodes(prog)
    BY DEF LiveNodes
  <2> QED
    BY <1>1, <1>2, <2>1, Walk DEF OrderInv
<1>7. Top.op # "compile" => Open(prog, Top) = {}
  BY <1>1 DEF CompileOps, Open
<1>8. n \in Open(prog, Top) => (n \in Captures(prog) <=> Kind(n) = "capture")
  BY <1>3, ProgramNodes DEF Captures, IsCapture
<1>9. Top.op = "compile" /\ Kind(n) \in ReferenceKinds \cup {"capture"} =>
        n \in Nodes(prog) /\ n \in Open(prog, Top)
  <2> SUFFICES ASSUME Top.op = "compile", Kind(n) \in ReferenceKinds \cup {"capture"}
               PROVE  n \in Nodes(prog) /\ n \in Open(prog, Top)
    OBVIOUS
  <2>1. n \in Nodes(prog)
    BY <1>1, Compiled DEF ReferenceKinds, ValueKinds
  <2>2. Live(prog, n)
    BY <1>3, <1>4, <2>1, ProgramNodes DEF GroupsKnown, IsGroup
  <2>3. n \in Span(prog, n)
    BY <1>3, <2>1, Subtree DEF Span
  <2> QED
    BY <2>1, <2>2, <2>3 DEF Open
<1>10. Top.op = "compile" /\ Kind(n) = "capture" =>
              /\ Numbered(prog, work') = Numbered(prog, work) \cup {n}
              /\ n \notin Numbered(prog, work)
  BY <1>6, <1>8, <1>9 DEF Numbered
<1>11. ~(Top.op = "compile" /\ Kind(n) = "capture") =>
         Numbered(prog, work') = Numbered(prog, work)
  BY <1>6, <1>7, <1>8 DEF Numbered
<1>12. Top.op = "compile" /\ Kind(n) \in ReferenceKinds \cup {"capture"} =>
         Numbered(prog, work) = {c \in Captures(prog) : c < n}
  BY <1>5, <1>6, <1>9 DEF Numbered
<1> QED
  BY <1>1, <1>2, <1>6, <1>9, <1>10, <1>11, <1>12

LEMMA OrderStep == TypeOK /\ Passes /\ CountInv /\ OrderInv /\ [Next]_vars => OrderInv'
<1> SUFFICES ASSUME TypeOK, Passes, CountInv, OrderInv, [Next]_vars PROVE OrderInv'
  OBVIOUS
<1>1. prog' = prog
  BY InputKept DEF input
<1>2. CASE UNCHANGED vars
  BY <1>2 DEF vars, state, emitted, input, OrderInv
<1>3. CASE Failing
  BY <1>3 DEF Failing, Fail, OrderInv
<1>4. CASE phase \in {"validate", "collect"} /\ phase' # "compile" /\ result' # Ok
  BY <1>4 DEF OrderInv
<1>5. CASE ValidateRule
  <2>1. work # <<>> /\ Top.op = "validate" /\ phase = "validate" /\ result # Ok
    BY <1>5, PassOfTop DEF ValidateRule, Visiting, Passes, Ok, NoError
  <2>2. \/ phase' = "done" /\ result' = ValidationError(Top.node)
        \/ phase' = phase /\ result' = result
    BY <1>5 DEF ValidateRule, Fail
  <2>3. ValidationError(Top.node) # Ok
    BY DEF ValidationError, Ok, NoError
  <2> QED
    BY <1>4, <2>1, <2>2, <2>3
<1>6. CASE BeginCollect
  BY <1>4, <1>6 DEF BeginCollect, Passes, NoError, Ok
<1>7. CASE CollectStep
  <2>1. work # <<>> /\ Top.op = "collect" /\ (Failing \/ UNCHANGED <<phase, result>>)
    BY <1>7, CollectWalks
  <2>2. phase = "collect" /\ result # Ok
    BY <2>1, PassOfTop DEF Passes, NoError, Ok
  <2> QED
    BY <1>3, <1>4, <2>1, <2>2
<1>8. CASE BeginCompile
  <2>1. /\ phase = "collect" /\ work = <<>> /\ phase' = "compile" /\ work' = <<Compile(1)>>
        /\ UNCHANGED <<result, count, used_names, next_idx, out>>
    BY <1>8 DEF BeginCompile, groups, state, emitted
  <2>2. out = <<>> /\ next_idx = 1 /\ result # Ok
    BY <2>1 DEF Passes, NoError, Ok
  <2>3. GroupsKnown(prog, count, used_names)
    <3>1. CountInv'
      BY <1>8, BeginCompileKnows
    <3> QED
      BY <1>1, <2>1, <3>1 DEF CountInv
  <2>4. Open(prog, Compile(1)) = LiveNodes(prog)
    BY DEF TypeOK, WellFormed, Open, Compile, LiveNodes, Nodes, Span
  <2>5. Pending(prog, work') = LiveNodes(prog) /\ Ordered(prog, work')
    <3> DEFINE fs == <<Compile(1)>>
    <3>1. DOMAIN fs = {1} /\ fs[1] = Compile(1)
      OBVIOUS
    <3>2. work' = fs
      BY <2>1
    <3> HIDE DEF fs
    <3>3. Pending(prog, fs) = LiveNodes(prog)
      BY <2>4, <3>1 DEF Pending
    <3>4. Ordered(prog, fs)
      BY <3>1 DEF Ordered
    <3> QED
      BY <3>2, <3>3, <3>4
  <2>6. InOrder(prog, work', LiveNodes(prog))
    BY <2>5 DEF InOrder
  <2>7. Numbered(prog, work') = {}
    BY <2>3, <2>5, CapturesLive DEF Numbered
  <2>8. GroupsIn(prog, out') = {}
    BY <2>1, <2>2 DEF GroupsIn
  <2>9. next_idx' = Cardinality(Numbered(prog, work')) + 1 /\ Emits(prog, out', Numbered(prog, work'))
    <3>1. Cardinality(Numbered(prog, work')) = 0 /\ Cardinality(GroupsIn(prog, out')) = 0
      BY <2>7, <2>8, FS_EmptySet, Zenon
    <3> QED
      BY <2>1, <2>2, <2>7, <3>1 DEF Emits
  <2> QED
    BY <1>1, <2>1, <2>2, <2>6, <2>9 DEF OrderInv
<1>9. CASE (VisitStep \/ ReturnStep) /\ ~Failing
  <2> DEFINE n == Top.node
             before == Numbered(prog, work)
  <2>1. /\ phase = "compile" /\ UNCHANGED <<phase, result>>
        /\ InOrder(prog, work', LiveNodes(prog))
        /\ ~(Top.op = "compile" /\ Kind(n) = "capture") => Numbered(prog, work') = before
        /\ Top.op = "compile" /\ Kind(n) = "capture" =>
              Numbered(prog, work') = before \cup {n} /\ n \notin before
    BY <1>9, CompileWalk
  <2>2. /\ next_idx = Cardinality(before) + 1 /\ Emits(prog, out, before)
        /\ result # Ok
    BY <2>1 DEF OrderInv, Passes, NoError, Ok
  <2>3. IsFiniteSet(before) /\ Cardinality(before) \in Nat
    BY CapturesFinite DEF Numbered, TypeOK
  <2>4. ASSUME Top.op = "compile", Kind(n) = "capture", Emit(n, next_idx, Plain),
               next_idx' = next_idx + 1
        PROVE  OrderInv'
    <3>1. Numbered(prog, work') = before \cup {n} /\ n \notin before
      BY <2>1, <2>4
    <3>2. Cardinality(before \cup {n}) = Cardinality(before) + 1
      BY <2>3, <3>1, FS_AddElement
    <3> DEFINE t == [node |-> n, number |-> next_idx, form |-> Plain]
    <3>3. out' = Append(out, t) /\ t.node = n
      BY <2>4 DEF Emit
    <3> HIDE DEF t, before
    <3>4. /\ \A i \in DOMAIN out : out'[i] = out[i]
          /\ out'[Len(out) + 1] = t
          /\ GroupsIn(prog, out') = GroupsIn(prog, out) \cup {Len(out) + 1}
          /\ Cardinality(GroupsIn(prog, out')) = Cardinality(GroupsIn(prog, out)) + 1
      BY <1>1, <2>4, <3>3, Appended
    <3>5. \A i \in GroupsIn(prog, out) : i \in DOMAIN out
      BY DEF GroupsIn
    <3>6. Emits(prog, out', before \cup {n})
      BY <2>2, <3>2, <3>3, <3>4, <3>5 DEF Emits
    <3> QED
      BY <1>1, <2>1, <2>2, <2>3, <2>4, <3>1, <3>2, <3>6 DEF OrderInv
  <2>5. ASSUME ~(Top.op = "compile" /\ Kind(n) = "capture"),
               UNCHANGED next_idx,
               UNCHANGED out \/ \E number, form : Kind(n) # "capture" /\ Emit(n, number, form)
        PROVE  OrderInv'
    <3>1. Numbered(prog, work') = before
      BY <2>1, <2>5
    <3>2. Emits(prog, out', before)
      <4>1. CASE UNCHANGED out
        BY <2>2, <4>1
      <4>2. ASSUME NEW number, NEW form, Kind(n) # "capture", Emit(n, number, form)
            PROVE  Emits(prog, out', before)
        <5> DEFINE t == [node |-> n, number |-> number, form |-> form]
        <5>1. out' = Append(out, t) /\ t.node = n
          BY <4>2 DEF Emit
        <5> HIDE DEF t, before
        <5>2. /\ \A i \in DOMAIN out : out'[i] = out[i]
              /\ GroupsIn(prog, out') = GroupsIn(prog, out)
          BY <1>1, <4>2, <5>1, Appended
        <5>3. \A i \in GroupsIn(prog, out) : i \in DOMAIN out
          BY DEF GroupsIn
        <5> QED
          BY <2>2, <5>2, <5>3 DEF Emits
      <4> QED
        BY <2>5, <4>1, <4>2
    <3> QED
      BY <1>1, <2>1, <2>2, <2>5, <3>1, <3>2 DEF OrderInv
  <2> QED
    BY <1>9, <2>4, <2>5, StepEmits DEF ReferenceKinds
<1>10. CASE Finish
  <2>1. /\ phase = "compile" /\ work = <<>> /\ phase' = "done" /\ UNCHANGED out
    BY <1>10 DEF Finish, emitted
  <2>2. Numbered(prog, work) = Captures(prog)
    BY <2>1 DEF Numbered, Pending
  <2> QED
    BY <1>1, <2>1, <2>2 DEF OrderInv
<1>11. CASE Returned
  BY <1>2, <1>11 DEF Returned
<1> QED
  BY <1>2, <1>3, <1>5, <1>6, <1>7, <1>8, <1>9, <1>10, <1>11
     DEF Next, CollectStep, VisitStep, ReturnStep

\* The group that a reference is compiled to is the one that it denotes.
LEMMA NewReference ==
  ASSUME TypeOK, CountInv, OrderInv, phase = "compile",
         NEW n \in Nodes(prog), Kind(n) \in ReferenceKinds,
         Numbered(prog, work) = {c \in Captures(prog) : c < n},
         ReferenceError(n) = NoError, FlavorError(n) = NoError
  PROVE  /\ \E c \in Nodes(prog) : Denotes(prog, n, c) /\ Rank(prog, c) = GroupNumber(n)
         /\ GroupNumber(n) \in Nat \ {0}
         /\ flavor # "Rust"
         /\ flavor \in {"JavaScript", "Python"} => GroupNumber(n) < next_idx
         /\ flavor = "Ruby" => /\ ReferenceForm(n) = ByNumber => ~HasNamed
                               /\ ReferenceForm(n) = ByName => NamedGroup(GroupNumber(n))
<1> DEFINE before == {c \in Captures(prog) : c < n}
<1>1. /\ WellFormed(prog) /\ n \in Nat /\ prog.size \in Nat /\ prog.size \in Nodes(prog)
      /\ used_names \in [Names -> Nat] /\ count \in Nat
  BY Subtree DEF TypeOK, Nodes, WellFormed
<1>2. /\ Kind(n) = prog.label[n].kind /\ Tag(n) = prog.label[n].tag /\ Num(n) = prog.label[n].num
      /\ Num(n) \in Int /\ ~IsCapture(prog, n)
      /\ Kind(n) = "refName" => Tag(n) \in Names
  <2>1. /\ Kind(n) = prog.label[n].kind /\ Tag(n) = prog.label[n].tag
        /\ Num(n) = prog.label[n].num
    BY <1>1, ProgramNodes
  <2>2. prog.label[n] \in Label /\ Tags(prog, n)
    BY <1>1 DEF WellFormed
  <2> QED
    BY <2>1, <2>2 DEF Label, Tags, IsCapture, ReferenceKinds
<1>3. GroupsKnown(prog, count, used_names)
  BY DEF CountInv
<1>4. Rank(prog, n) \in Nat /\ next_idx = Rank(prog, n) + 1
  <2>1. Rank(prog, n) = Cardinality(before) /\ Cardinality(before) \in Nat
    <3>1. /\ Cardinality(before) \in Nat
          /\ Rank(prog, n) = Cardinality(before) + (IF IsCapture(prog, n) THEN 1 ELSE 0)
      BY <1>1, RankCounts
    <3> QED
      BY <1>2, <3>1
  <2>2. next_idx = Cardinality(before) + 1
    BY DEF OrderInv
  <2> QED
    BY <2>1, <2>2
<1>5. \A c \in Captures(prog) : c \in Nodes(prog) /\ IsCapture(prog, c)
  BY DEF Captures
<1>6. \A v \in 1 .. count : \E c \in Nodes(prog) : IsCapture(prog, c) /\ Rank(prog, c) = v
  <2>1. Captures(prog) \cap (1 .. prog.size) = Captures(prog)
    BY DEF Captures, Nodes
  <2>2. count = Cardinality(Captures(prog) \cap (1 .. prog.size))
    BY <1>3, <2>1 DEF GroupsKnown
  <2> TAKE v \in 1 .. count
  <2>3. PICK c \in 1 .. prog.size :
          c \in Captures(prog) /\ Cardinality(Captures(prog) \cap (1 .. c)) = v
    BY <1>1, <2>2, CountReaches
  <2> QED
    BY <1>1, <1>5, <2>3, RankCounts
<1>7. CASE Kind(n) = "refName"
  <2>1. GroupNumber(n) = used_names[Tag(n)] /\ used_names[Tag(n)] # 0
    BY <1>7 DEF GroupNumber, ReferenceError, NoError
  <2>2. PICK c \in Captures(prog) : prog.label[c].tag = Tag(n) /\ Rank(prog, c) = used_names[Tag(n)]
    BY <1>2, <1>3, <1>7, <2>1 DEF GroupsKnown, NamesNumber
  <2>3. Denotes(prog, n, c)
    BY <1>2, <1>5, <1>7, <2>2 DEF Denotes
  <2>4. GroupNumber(n) \in Nat \ {0}
    BY <1>1, <1>2, <1>7, <2>1
  <2>5. flavor # "Rust" /\ (flavor \in {"JavaScript", "Python"} => ~IsForward(n))
    BY DEF FlavorError, NoError
  <2>6. ~IsForward(n) => GroupNumber(n) < next_idx
    BY <1>4, <1>7, <2>4 DEF IsForward
  <2>7. flavor = "Ruby" => /\ ReferenceForm(n) = ByNumber => ~HasNamed
                           /\ ReferenceForm(n) = ByName => NamedGroup(GroupNumber(n))
    BY DEF FlavorError, ReferenceForm, ByNumber, ByName, NoError
  <2>8. c \in Nodes(prog) /\ Rank(prog, c) = GroupNumber(n)
    BY <1>5, <2>1, <2>2
  <2> QED
    BY <2>3, <2>4, <2>5, <2>6, <2>7, <2>8
<1>8. CASE Kind(n) # "refName"
  <2>1. GroupNumber(n) \in 1 .. count /\ (Kind(n) = "refRelative" => Num(n) # 0)
    BY <1>2, <1>8 DEF ReferenceError, NoError
  <2>2. PICK c \in Nodes(prog) : IsCapture(prog, c) /\ Rank(prog, c) = GroupNumber(n)
    BY <1>6, <2>1
  <2>3. Denotes(prog, n, c)
    BY <1>2, <1>4, <1>8, <2>1, <2>2 DEF Denotes, GroupNumber, ReferenceKinds
  <2>4. GroupNumber(n) \in Nat \ {0} /\ next_idx \in Nat
    BY <1>1, <2>1 DEF TypeOK
  <2>5. flavor # "Rust" /\ (flavor \in {"JavaScript", "Python"} => ~IsForward(n))
    BY DEF FlavorError, NoError
  <2>6. ~IsForward(n) => GroupNumber(n) < next_idx
    BY <1>2, <1>8, <2>4 DEF IsForward, GroupNumber
  <2>7. flavor = "Ruby" => /\ ReferenceForm(n) = ByNumber => ~HasNamed
                           /\ ReferenceForm(n) = ByName => NamedGroup(GroupNumber(n))
    BY DEF FlavorError, ReferenceForm, ByNumber, ByName, NoError
  <2> QED
    BY <2>2, <2>3, <2>4, <2>5, <2>6, <2>7
<1> QED
  BY <1>7, <1>8

\* What is known of the tokens, each by itself.
GroupsPlaced ==
  \A i \in DOMAIN out : IsGroupToken(i) => EngineNumber(i) = Rank(prog, out[i].node)

RubyForms ==
  flavor = "Ruby" => \A i \in DOMAIN out : IsReferenceToken(i) =>
    /\ out[i].form = ByNumber => ~HasNamed
    /\ out[i].form = ByName => NamedGroup(out[i].number)

TokensInv == GroupsPlaced /\ ReferencesDenote /\ NoForwardReferences /\ RubyForms

LEMMA NothingEmitted == (out = <<>> => TokensInv) /\ (out' = <<>> => TokensInv')
BY DEF TokensInv, GroupsPlaced, ReferencesDenote, NoForwardReferences, RubyForms

LEMMA TokensKept ==
  TokensInv /\ UNCHANGED <<input, groups, out>> => TokensInv'
BY DEF TokensInv, GroupsPlaced, ReferencesDenote, NoForwardReferences, RubyForms, input, groups,
       IsGroupToken, IsReferenceToken, EngineNumber, Kind, HasNamed, NamedGroup, Nodes

LEMMA TokenAdded ==
  ASSUME TypeOK, CountInv, OrderInv, TokensInv, phase = "compile", UNCHANGED <<input, groups>>,
         NEW t, out' = Append(out, t),
         Kind(t.node) = "capture" =>
           t.node \in Nodes(prog) /\ Numbered(prog, work) = {c \in Captures(prog) : c < t.node},
         Kind(t.node) \in ReferenceKinds =>
           /\ t.node \in Nodes(prog) /\ Numbered(prog, work) = {c \in Captures(prog) : c < t.node}
           /\ ReferenceError(t.node) = NoError /\ FlavorError(t.node) = NoError
           /\ t.number = GroupNumber(t.node) /\ t.form = ReferenceForm(t.node)
  PROVE  TokensInv'
<1> DEFINE k == Len(out)
<1>1. prog' = prog /\ flavor' = flavor /\ used_names' = used_names /\ count' = count
  BY DEF input, groups
<1>2. /\ \A i \in DOMAIN out : i \in DOMAIN out' /\ out'[i] = out[i] /\ i # k + 1
      /\ \A i \in DOMAIN out' : i \in DOMAIN out \/ i = k + 1
      /\ k + 1 \in DOMAIN out' /\ out'[k + 1] = t
      /\ \A i \in DOMAIN out : EngineNumber(i)' = EngineNumber(i)
      /\ GroupsIn(prog, out') =
           IF Kind(t.node) = "capture" THEN GroupsIn(prog, out) \cup {k + 1}
                                       ELSE GroupsIn(prog, out)
      /\ \A i \in DOMAIN out' : i = k + 1 => EngineNumber(i)' = Cardinality(GroupsIn(prog, out'))
      /\ Cardinality(GroupsIn(prog, out')) =
           Cardinality(GroupsIn(prog, out)) + (IF Kind(t.node) = "capture" THEN 1 ELSE 0)
  BY <1>1, Appended
<1>3. /\ k \in Nat /\ DOMAIN out = 1 .. k
      /\ GroupsIn(prog, out) = GroupsIn(prog, out) \cap (1 .. k)
      /\ \A i \in 0 .. k : EngineNumber(i) = Cardinality(GroupsIn(prog, out) \cap (1 .. i))
      /\ \A i \in DOMAIN out : i \in GroupsIn(prog, out) <=> IsGroupToken(i)
  BY Emitted
<1>4. /\ \A i \in DOMAIN out : /\ IsGroupToken(i)' = IsGroupToken(i)
                               /\ IsReferenceToken(i)' = IsReferenceToken(i)
      /\ \A i \in DOMAIN out' : i = k + 1 =>
           /\ IsGroupToken(i)' <=> Kind(t.node) = "capture"
           /\ IsReferenceToken(i)' <=> Kind(t.node) \in ReferenceKinds
  BY <1>1, <1>2 DEF IsGroupToken, IsReferenceToken, Kind
<1>5. WellFormed(prog)
  BY DEF TypeOK
<1>6. /\ Cardinality(Numbered(prog, work)) \in Nat
      /\ Cardinality(GroupsIn(prog, out)) = Cardinality(Numbered(prog, work))
      /\ next_idx = Cardinality(Numbered(prog, work)) + 1
  BY <1>5, CapturesFinite DEF OrderInv, Emits, Numbered
<1> HIDE DEF k
<1>7. Kind(t.node) \in ReferenceKinds =>
        /\ \E c \in Nodes(prog) : Denotes(prog, t.node, c) /\ Rank(prog, c) = t.number
        /\ t.number \in Nat \ {0}
        /\ flavor # "Rust"
        /\ flavor \in {"JavaScript", "Python"} => t.number < next_idx
        /\ flavor = "Ruby" => /\ t.form = ByNumber => ~HasNamed
                              /\ t.form = ByName => NamedGroup(t.number)
  BY NewReference
<1>8. GroupsPlaced'
  <2> SUFFICES ASSUME NEW i \in DOMAIN out', IsGroupToken(i)'
               PROVE  EngineNumber(i)' = Rank(prog, out'[i].node)
    BY <1>1 DEF GroupsPlaced
  <2>1. CASE i \in DOMAIN out
    BY <1>2, <1>4, <2>1 DEF TokensInv, GroupsPlaced
  <2>2. CASE i = k + 1
    <3>1. Kind(t.node) = "capture" /\ out'[i] = t /\ t.node \in Nodes(prog)
      BY <1>2, <1>4, <2>2
    <3>2. EngineNumber(i)' = Cardinality(Numbered(prog, work)) + 1
      BY <1>2, <1>6, <2>2, <3>1
    <3>3. IsCapture(prog, t.node)
      BY <1>5, <3>1, ProgramNodes DEF IsCapture
    <3>4. Rank(prog, t.node) = Cardinality(Numbered(prog, work)) + 1
      BY <1>5, <3>1, <3>3, RankCounts
    <3> QED
      BY <3>1, <3>2, <3>4
  <2> QED
    BY <1>2, <2>1, <2>2
<1>9. ReferencesDenote'
  <2> SUFFICES ASSUME NEW i \in DOMAIN out', IsReferenceToken(i)'
               PROVE  \E c \in Nodes(prog) :
                        Denotes(prog, out'[i].node, c) /\ Rank(prog, c) = out'[i].number
    BY <1>1 DEF ReferencesDenote, Nodes
  <2>1. CASE i \in DOMAIN out
    BY <1>2, <1>4, <2>1 DEF TokensInv, ReferencesDenote
  <2>2. CASE i = k + 1
    BY <1>2, <1>4, <1>7, <2>2
  <2> QED
    BY <1>2, <2>1, <2>2
<1>10. RubyForms'
  <2> SUFFICES ASSUME flavor = "Ruby", NEW i \in DOMAIN out', IsReferenceToken(i)'
               PROVE  /\ out'[i].form = ByNumber => ~HasNamed
                      /\ out'[i].form = ByName => NamedGroup(out'[i].number)
    BY <1>1 DEF RubyForms, HasNamed, NamedGroup
  <2>1. CASE i \in DOMAIN out
    BY <1>2, <1>4, <2>1 DEF TokensInv, RubyForms
  <2>2. CASE i = k + 1
    BY <1>2, <1>4, <1>7, <2>2
  <2> QED
    BY <1>2, <2>1, <2>2
<1>11. NoForwardReferences'
  <2>1. flavor = "Rust" => \A i \in DOMAIN out' : ~IsReferenceToken(i)'
    BY <1>2, <1>4, <1>7 DEF TokensInv, NoForwardReferences
  <2>2. ASSUME flavor \in {"JavaScript", "Python"}, NEW i \in DOMAIN out', IsReferenceToken(i)'
        PROVE  \E j \in 1 .. i - 1 : IsGroupToken(j)' /\ EngineNumber(j)' = out'[i].number
    <3>1. \A j \in DOMAIN out : IsGroupToken(j)' = IsGroupToken(j) /\ EngineNumber(j)' = EngineNumber(j)
      BY <1>2, <1>4
    <3>2. CASE i \in DOMAIN out
      <4>1. PICK j \in 1 .. i - 1 : IsGroupToken(j) /\ EngineNumber(j) = out[i].number
        BY <1>4, <2>2, <3>2 DEF TokensInv, NoForwardReferences
      <4>2. j \in DOMAIN out
        BY <1>3, <3>2, <4>1
      <4> QED
        BY <1>2, <3>1, <3>2, <4>1, <4>2
    <3>3. CASE i = k + 1
      <4> DEFINE G == GroupsIn(prog, out)
      <4>1. out'[i] = t /\ t.number \in 1 .. Cardinality(G \cap (1 .. k))
        <5>1. Kind(t.node) \in ReferenceKinds /\ out'[i] = t
          BY <1>2, <1>4, <2>2, <3>3
        <5>2. t.number \in Nat \ {0} /\ t.number < next_idx
          BY <1>7, <2>2, <5>1
        <5>3. Cardinality(G \cap (1 .. k)) = Cardinality(Numbered(prog, work))
          BY <1>3, <1>6
        <5> QED
          BY <1>6, <5>1, <5>2, <5>3
      <4> HIDE DEF G
      <4>2. PICK j \in 1 .. k : j \in G /\ Cardinality(G \cap (1 .. j)) = t.number
        <5> DEFINE v == t.number
        <5>1. k \in Nat /\ v \in 1 .. Cardinality(G \cap (1 .. k))
          BY <1>3, <4>1
        <5> HIDE DEF v
        <5>2. \E j \in 1 .. k : j \in G /\ Cardinality(G \cap (1 .. j)) = v
          BY <5>1, CountReaches
        <5> QED
          BY <5>2 DEF v
      <4>3. j \in DOMAIN out /\ IsGroupToken(j) /\ EngineNumber(j) = t.number /\ j \in 1 .. i - 1
        BY <1>3, <3>3, <4>2 DEF G
      <4> QED
        BY <3>1, <4>1, <4>3
    <3> QED
      BY <1>2, <3>2, <3>3
  <2> QED
    BY <1>1, <2>1, <2>2 DEF NoForwardReferences
<1> QED
  BY <1>8, <1>9, <1>10, <1>11 DEF TokensInv

LEMMA TokensStep ==
  TypeOK /\ Passes /\ CountInv /\ OrderInv /\ TokensInv /\ [Next]_vars => TokensInv'
<1> SUFFICES ASSUME TypeOK, Passes, CountInv, OrderInv, TokensInv, [Next]_vars PROVE TokensInv'
  OBVIOUS
<1>1. UNCHANGED input
  BY InputKept
<1>2. CASE UNCHANGED vars
  BY <1>2, TokensKept DEF vars, emitted
<1>3. CASE \E e : Fail(e)
  BY <1>1, <1>3, TokensKept DEF Fail, emitted
<1>4. CASE ValidateRule \/ BeginCollect \/ CollectStep \/ BeginCompile
  <2>1. phase \in {"validate", "collect"}
    <3>1. ValidateRule => work # <<>> /\ Top.op = "validate"
      BY DEF ValidateRule, Visiting
    <3>2. CollectStep => work # <<>> /\ Top.op = "collect"
      BY CollectWalks
    <3> QED
      BY <1>4, <3>1, <3>2, PassOfTop DEF BeginCollect, BeginCompile
  <2>2. UNCHANGED out
    BY <1>4 DEF ValidateRule, BeginCollect, CollectStep, BeginCompile, CollectCapture,
       CollectReference, CollectLet, CollectOther, Fail, emitted
  <2> QED
    BY <2>1, <2>2, NothingEmitted DEF Passes
<1>5. CASE (VisitStep \/ ReturnStep) /\ ~Failing
  <2> DEFINE n == Top.node
  <2>1. /\ phase = "compile" /\ UNCHANGED <<input, groups>>
        /\ Top.op = "compile" /\ Kind(n) \in ReferenceKinds \cup {"capture"} =>
              n \in Nodes(prog) /\ Numbered(prog, work) = {c \in Captures(prog) : c < n}
    BY <1>5, CompileWalk
  <2>2. CASE UNCHANGED out
    BY <2>1, <2>2, TokensKept
  <2>3. ASSUME NEW number, NEW form, Emit(n, number, form),
               Kind(n) \in ReferenceKinds \cup {"capture"} => Top.op = "compile",
               Kind(n) \in ReferenceKinds =>
                 /\ ReferenceError(n) = NoError /\ FlavorError(n) = NoError
                 /\ number = GroupNumber(n) /\ form = ReferenceForm(n)
        PROVE  TokensInv'
    <3> DEFINE t == [node |-> n, number |-> number, form |-> form]
    <3>1. out' = Append(out, t) /\ t.node = n /\ t.number = number /\ t.form = form
      BY <2>3 DEF Emit
    <3> HIDE DEF t, n
    <3> QED
      BY <2>1, <2>3, <3>1, TokenAdded DEF n
  <2> HIDE DEF n
  <2>4. "capture" \notin ReferenceKinds /\ "repetition" \notin ReferenceKinds
    BY DEF ReferenceKinds
  <2> QED
    BY <1>5, <2>2, <2>3, <2>4, StepEmits DEF n
<1>6. CASE Finish
  BY <1>1, <1>6, TokensKept DEF Finish, emitted
<1>7. CASE Returned
  BY <1>2, <1>7 DEF Returned
<1> QED
  BY <1>2, <1>3, <1>4, <1>5, <1>6, <1>7
     DEF Next, CollectStep, VisitStep, ReturnStep, Failing

\* What the invariants mean for the regex.
LEMMA GroupsSound ==
  TypeOK /\ CountInv /\ OrderInv /\ TokensInv => GroupsInSourceOrder /\ RubyNamesOrNumbers
<1> SUFFICES ASSUME TypeOK, CountInv, OrderInv, TokensInv
             PROVE  GroupsInSourceOrder /\ RubyNamesOrNumbers
  OBVIOUS
<1>1. WellFormed(prog) /\ prog.size \in Nodes(prog)
  BY DEF TypeOK, WellFormed, Nodes
<1>2. result = Ok => EngineNumber(Len(out)) = Rank(prog, prog.size)
  <2> SUFFICES ASSUME result = Ok PROVE EngineNumber(Len(out)) = Rank(prog, prog.size)
    OBVIOUS
  <2>1. Captures(prog) \cap (1 .. prog.size) = Captures(prog)
    BY DEF Captures, Nodes
  <2>2. Rank(prog, prog.size) = Cardinality(Captures(prog))
    BY <1>1, <2>1, RankCounts
  <2>3. Len(out) \in 0 .. Len(out)
    BY Emitted
  <2>4. EngineNumber(Len(out)) = Cardinality(GroupsIn(prog, out))
    BY <2>3, Emitted
  <2> QED
    BY <2>2, <2>4 DEF OrderInv, Emits
<1>3. GroupsInSourceOrder
  BY <1>2 DEF GroupsInSourceOrder, TokensInv, GroupsPlaced
<1>4. RubyNamesOrNumbers
  <2> SUFFICES ASSUME flavor = "Ruby", result = Ok, NEW i \in DOMAIN out, IsReferenceToken(i)
               PROVE  /\ out[i].form = ByNumber =>
                           \A j \in DOMAIN out : IsGroupToken(j) => ~IsNamed(out[j].node)
                      /\ out[i].form = ByName =>
                           \E j \in DOMAIN out : /\ IsGroupToken(j) /\ IsNamed(out[j].node)
                                                 /\ EngineNumber(j) = out[i].number
    BY DEF RubyNamesOrNumbers
  <2>1. NamesNumber(prog, used_names, Captures(prog))
    BY DEF CountInv, GroupsKnown
  <2>2. \A c \in Captures(prog) : /\ Tag(c) = prog.label[c].tag
                                  /\ IsNamed(c) <=> prog.label[c].tag # NoName
                                  /\ IsNamed(c) => Tag(c) \in Names
                                  /\ Rank(prog, c) # 0
    <3> TAKE c \in Captures(prog)
    <3>1. c \in Nodes(prog) /\ IsCapture(prog, c) /\ Tag(c) = prog.label[c].tag
      BY <1>1, ProgramNodes DEF Captures
    <3>2. IsNamed(c) => Tag(c) \in Names
      <4>1. Tags(prog, c)
        BY <1>1, <3>1 DEF WellFormed
      <4> QED
        BY <3>1, <4>1 DEF Tags, IsCapture, IsNamed
    <3>3. Rank(prog, c) # 0
      <4> DEFINE b == {d \in Captures(prog) : d < c}
      <4>1. Cardinality(b) \in Nat /\ Rank(prog, c) = Cardinality(b) + 1
        BY <1>1, <3>1, RankCounts
      <4> HIDE DEF b
      <4> QED
        BY <4>1
    <3> QED
      BY <3>1, <3>2, <3>3 DEF IsNamed
  <2>3. out[i].form = ByNumber => ~HasNamed
    BY DEF TokensInv, RubyForms
  <2>4. out[i].form = ByName => NamedGroup(out[i].number)
    BY DEF TokensInv, RubyForms
  <2>5. out[i].number # 0
    <3>1. PICK c \in Nodes(prog) : Denotes(prog, out[i].node, c) /\ Rank(prog, c) = out[i].number
      BY DEF TokensInv, ReferencesDenote
    <3> QED
      BY <2>2, <3>1 DEF Denotes, Captures
  <2>6. ASSUME out[i].form = ByNumber, NEW j \in DOMAIN out, IsGroupToken(j), IsNamed(out[j].node)
        PROVE  FALSE
    <3>1. out[j].node \in Captures(prog)
      BY <2>6, Emitted
    <3>2. used_names[Tag(out[j].node)] = Rank(prog, out[j].node)
      BY <2>1, <2>2, <2>6, <3>1 DEF NamesNumber
    <3> QED
      BY <2>2, <2>3, <2>6, <3>1, <3>2 DEF HasNamed
  <2>7. ASSUME out[i].form = ByName
        PROVE  \E j \in DOMAIN out : /\ IsGroupToken(j) /\ IsNamed(out[j].node)
                                     /\ EngineNumber(j) = out[i].number
    <3>1. PICK x \in Names : used_names[x] = out[i].number
      BY <2>4, <2>7 DEF NamedGroup
    <3>2. PICK c \in Captures(prog) : /\ x # NoName /\ prog.label[c].tag = x
                                      /\ Rank(prog, c) = out[i].number
      BY <2>1, <2>5, <3>1 DEF NamesNumber
    <3>3. PICK j \in GroupsIn(prog, out) : out[j].node = c
      BY DEF OrderInv, Emits
    <3>4. j \in DOMAIN out /\ IsGroupToken(j) /\ IsNamed(out[j].node)
      BY <2>2, <3>2, <3>3, Emitted DEF GroupsIn
    <3>5. EngineNumber(j) = out[i].number
      BY <3>2, <3>3, <3>4 DEF TokensInv, GroupsPlaced
    <3> QED
      BY <3>4, <3>5
  <2> QED
    BY <2>6, <2>7
<1> QED
  BY <1>3, <1>4

\* The state of the compile pass, and every token it has emitted, agree with the
\* source: the order of the groups does not depend on what has been expanded.
THEOREM CompiledInOrder == Spec => [](TypeOK /\ CountInv /\ OrderInv /\ TokensInv)
<1>1. Init => OrderInv /\ TokensInv
  BY NothingEmitted DEF Init, OrderInv, NoError, Ok
<1>2. TypeOK /\ Passes /\ CountInv /\ OrderInv /\ TokensInv /\ [Next]_vars
        => OrderInv' /\ TokensInv'
  BY OrderStep, TokensStep
<1> QED
  BY <1>1, <1>2, GroupsCounted, PTL DEF Spec

\* The groups of the regex are those of the source, in their order, so that the
\* regex engine gives them the numbers of get_capturing_groups.
THEOREM GroupsKeepOrder == Spec => []GroupsInSourceOrder
BY CompiledInOrder, GroupsSound, PTL

\* Reference::compile emits the number of the group that is named, numbered or
\* counted to in the source.
THEOREM ReferencesResolve == Spec => []ReferencesDenote
<1>1. TokensInv => ReferencesDenote
  BY DEF TokensInv
<1> QED
  BY <1>1, CompiledInOrder, PTL

\* No reference is compiled for Rust, and none to a later group for JavaScript and
\* Python.
THEOREM ReferencesBackward == Spec => []NoForwardReferences
<1>1. TokensInv => NoForwardReferences
  BY DEF TokensInv
<1> QED
  BY <1>1, CompiledInOrder, PTL

\* A regex for Ruby refers to its groups either by number or by name.
THEOREM RubyConsistent == Spec => []RubyNamesOrNumbers
BY CompiledInOrder, GroupsSound, PTL

-----------------------------------------------------------------------------
(***************************************************************************)
(* The calls that compile makes.                                           *)
(***************************************************************************)

PartKinds == GroupKinds \cup LookaroundKinds \cup {"alternation", "repetition"}

LeafVisit ==
  Kind(Top.node) \in ValueKinds \cup ReferenceKinds /\ Continue(<<>>) /\ UNCHANGED scope
PartsVisit ==
  /\ Kind(Top.node) \in PartKinds
  /\ Continue(<<Build(Top.node)>> \o CompileAll(Kids(Top.node))) /\ UNCHANGED scope
ModeVisit ==
  /\ Kind(Top.node) \in ModeKinds
  /\ default_quantifier' = IF Kind(Top.node) = "enable" THEN "Lazy" ELSE "Greedy"
  /\ Continue(<<Restore(default_quantifier)>> \o CompileAll(Kids(Top.node)))
  /\ UNCHANGED <<variables, current_vars>>
LetVisit ==
  /\ Kind(Top.node) = "let"
  /\ variables' = Append(variables, [name |-> Tag(Top.node), rule |-> Kids(Top.node)[1]])
  /\ Continue(<<Unbind(Len(variables) + 1), Compile(Kids(Top.node)[2])>>)
  /\ UNCHANGED <<default_quantifier, current_vars>>
VariableVisit ==
  /\ Kind(Top.node) = "variable"
  /\ \E i \in 1 .. Len(variables) :
       /\ Resolves(Tag(Top.node), i) /\ Allowed(UseFeature(variables[i].rule))
       /\ variables[i] \in BoundTo(prog)
       /\ current_vars' = current_vars \cup {i}
       /\ Continue(<<Unexpand(i, Top.node), Compile(variables[i].rule)>>)
  /\ UNCHANGED <<default_quantifier, variables>>

LEMMA StepCalls ==
  ASSUME TypeOK, Passes, VisitStep, ~Failing
  PROVE  /\ work # <<>> /\ Top.op = "compile" /\ phase = "compile" /\ UNCHANGED <<input, phase>>
         /\ Top.node \in AnyNode
         /\ Kind(Top.node) \notin ValueKinds => Top.node \in Nodes(prog)
         /\ LeafVisit \/ PartsVisit \/ ModeVisit \/ LetVisit \/ VariableVisit
<1>1. /\ work # <<>> /\ Top.op = "compile" /\ UNCHANGED <<input, phase>>
  BY VisitWalks DEF Passes
<1>2. phase = "compile" /\ Top.node \in AnyNode
        /\ (Kind(Top.node) \notin ValueKinds => Top.node \in Nodes(prog))
  BY <1>1, PassOfTop, Compiled DEF CompileOps
<1>3. \A e : Fail(e) => e = Ok
  BY DEF Failing
<1>4. \A n : ValueError(n) # Ok /\ ReferenceError(n) # Ok /\ FlavorError(n) # Ok
  BY DEF ValueError, ReferenceError, FlavorError, Ok, NoError
<1>5. CASE CompileValue \/ CompileReference
  <2>1. LeafVisit
    BY <1>3, <1>4, <1>5 DEF CompileValue, CompileReference, Visiting, LeafVisit, state
  <2> QED
    BY <1>1, <1>2, <2>1
<1>6. CASE CompileGroup \/ CompileAlternation \/ CompileLookaround \/ CompileRepetition
  <2>1. PartsVisit
    BY <1>3, <1>6 DEF CompileGroup, CompileAlternation, CompileLookaround, CompileRepetition,
       Visiting, PartsVisit, PartKinds, state, Ok
  <2> QED
    BY <1>1, <1>2, <2>1
<1>7. CASE CompileMode
  BY <1>1, <1>2, <1>7 DEF CompileMode, Visiting, ModeVisit
<1>8. CASE CompileLet
  BY <1>1, <1>2, <1>8 DEF CompileLet, Visiting, LetVisit
<1>9. CASE CompileVariable
  <2>1. DOMAIN variables = 1 .. Len(variables)
    BY LenProperties DEF Passes
  <2>2. \A i \in 1 .. Len(variables) : variables[i] \in BoundTo(prog)
    BY ElementOfSeq DEF Passes
  <2>3. VariableVisit
    BY <1>3, <1>9, <2>1, <2>2 DEF CompileVariable, Visiting, VariableVisit, Ok
  <2> QED
    BY <1>1, <1>2, <2>3
<1> QED
  BY <1>5, <1>6, <1>7, <1>8, <1>9 DEF VisitStep

-----------------------------------------------------------------------------
(***************************************************************************)
(* The pass validate: what has been checked, with all that is in it, and   *)
(* what is yet to be checked is the whole program.                         *)
(***************************************************************************)

Settled(n) == Admitted(n) \/ InLookaround(n)

\* A built-in rule is only compiled if its feature is allowed at the use.
AdmittedFrames ==
  {f \in Frame : f.op = "compile" /\ f.node \in BuiltinRules => Admitted(f.node)}

AdmitInv ==
  /\ phase = "validate" => \A m \in Nodes(prog) :
       Settled(m) \/ \E i \in DOMAIN work : m \in Span(prog, work[i].node)
  /\ phase \in {"collect", "compile"} \/ result = Ok => \A m \in Nodes(prog) : Settled(m)
  /\ work \in Seq(AdmittedFrames)
  /\ \A i \in DOMAIN out : out[i].node \in BuiltinRules => Admitted(out[i].node)

LEMMA AdmissionKept ==
  ASSUME UNCHANGED input
  PROVE  /\ \A n : Admitted(n)' = Admitted(n) /\ Settled(n)' = Settled(n)
         /\ AdmittedFrames' = AdmittedFrames /\ Nodes(prog)' = Nodes(prog) /\ prog' = prog
<1>1. prog' = prog /\ features' = features /\ flavor' = flavor
  BY DEF input
<1>2. \A n : Admitted(n)' = Admitted(n)
  BY <1>1 DEF Admitted, FeatureOf, Kind, Num, IsNamed, Tag
<1>3. \A n : InLookaround(n)' = InLookaround(n)
  BY <1>1 DEF InLookaround, Nodes, Kind
<1>4. AdmittedFrames' = AdmittedFrames
  BY <1>1, <1>2 DEF AdmittedFrames, Frame, AnyNode, Nodes
<1> QED
  BY <1>1, <1>2, <1>3, <1>4 DEF Settled, Nodes

\* What validate does not reject is admitted.
LEMMA ValidAdmitted ==
  ASSUME NEW n, ValidationError(n) = NoError, Num(n) \in Int
  PROVE  Admitted(n)
BY RangeSizeAssumption DEF ValidationError, Admitted, Allowed, NoError

LEMMA ValidateSettles ==
  ASSUME TypeOK, Passes, AdmitInv, ValidateRule, ~Failing
  PROVE  \A m \in Nodes(prog) :
           Settled(m) \/ \E i \in DOMAIN work' : m \in Span(prog, work'[i].node)
<1> DEFINE n == Top.node
           k == Len(work)
           fs == ValidateAll(ValidatedParts(n))
<1>1. /\ work # <<>> /\ Top.op = "validate" /\ phase = "validate" /\ work[k] = Top
  BY PassOfTop DEF ValidateRule, Visiting, Top
<1>2. n \in Nodes(prog) /\ n \in AnyNode /\ WellFormed(prog)
  BY <1>1, TopFrame DEF TypeOK, AnyNode
<1>3. ValidationError(n) = NoError /\ Continue(fs)
  <2>1. ValidationError(n) # Ok
    BY DEF ValidationError, Ok, NoError
  <2> QED
    BY <2>1 DEF ValidateRule, Failing
<1>4. fs \in Seq(Frame)
  <2>1. ValidatedParts(n) \in Seq(Nodes(prog))
    BY <1>2, NodeTypes DEF ValidatedParts
  <2>2. \A m \in Nodes(prog) : Validate(m) \in Frame
    BY DEF Validate, Frame
  <2> QED
    BY <2>1, <2>2, Visits
<1>5. /\ k \in Nat \ {0} /\ DOMAIN work = 1 .. k /\ Len(fs) \in Nat
      /\ DOMAIN work' = 1 .. k - 1 + Len(fs)
      /\ \A i \in 1 .. k - 1 : work'[i] = work[i]
      /\ \A i \in k .. k - 1 + Len(fs) : work'[i] = fs[i - k + 1]
  BY <1>1, <1>3, <1>4, Positions
<1>6. Kind(n) \notin LookaroundKinds =>
        /\ Len(fs) = Len(Kids(n))
        /\ \A i \in 1 .. Len(fs) : fs[i].node = Kids(n)[Len(fs) + 1 - i]
  <2>1. Len(Kids(n)) \in Nat /\ DOMAIN Kids(n) = 1 .. Len(Kids(n))
    BY <1>2, Subtree
  <2> QED
    BY <2>1 DEF ValidateAll, ValidatedParts, Validate
<1>7. Admitted(n)
  BY <1>2, <1>3, NodeTypes, ValidAdmitted
<1>8. \A m \in Span(prog, n) : m # n =>
        \/ InLookaround(m)
        \/ Kind(n) \notin LookaroundKinds
             /\ \E i \in 1 .. Len(fs) : m \in Span(prog, fs[i].node)
  <2> SUFFICES ASSUME NEW m \in Span(prog, n), m # n,
                      Kind(n) \notin LookaroundKinds \/ ~InLookaround(m)
               PROVE  /\ Kind(n) \notin LookaroundKinds
                      /\ \E i \in 1 .. Len(fs) : m \in Span(prog, fs[i].node)
    OBVIOUS
  <2>1. n < m /\ m <= prog.last[n]
    BY <1>2, Subtree DEF Span, Nodes
  <2>2. Kind(n) \notin LookaroundKinds
    BY <1>2, <2>1 DEF InLookaround
  <2>3. PICK i \in 1 .. Len(Kids(n)) : m \in Span(prog, Kids(n)[i])
    BY <1>2, KidsCover
  <2> DEFINE j == Len(fs) + 1 - i
  <2>4. j \in 1 .. Len(fs) /\ Len(fs) + 1 - j = i
    BY <1>5, <1>6, <2>2, <2>3
  <2> HIDE DEF fs, j
  <2>5. fs[j].node = Kids(n)[i]
    BY <1>6, <2>2, <2>4
  <2> QED
    BY <2>2, <2>3, <2>4, <2>5
<1> HIDE DEF n, k, fs
<1>9. \A i \in 1 .. Len(fs) : i + k - 1 \in DOMAIN work' /\ work'[i + k - 1] = fs[i]
  <2> TAKE i \in 1 .. Len(fs)
  <2> DEFINE j == i + k - 1
  <2>1. j \in k .. k - 1 + Len(fs) /\ j \in DOMAIN work' /\ j - k + 1 = i
    BY <1>5
  <2> HIDE DEF j
  <2>2. work'[j] = fs[j - k + 1]
    BY <1>5, <2>1
  <2> QED
    BY <2>1, <2>2 DEF j
<1> TAKE m \in Nodes(prog)
<1>10. CASE Settled(m)
  BY <1>10
<1>11. ASSUME ~Settled(m)
       PROVE  \E i \in DOMAIN work' : m \in Span(prog, work'[i].node)
  <2>1. PICK i \in DOMAIN work : m \in Span(prog, work[i].node)
    BY <1>1, <1>11 DEF AdmitInv
  <2>2. CASE i = k
    <3>1. m \in Span(prog, n) /\ m # n
      BY <1>1, <1>7, <1>11, <2>1, <2>2 DEF Settled, n
    <3>2. PICK j \in 1 .. Len(fs) : m \in Span(prog, fs[j].node)
      BY <1>8, <1>11, <3>1 DEF Settled
    <3> QED
      BY <1>9, <3>2
  <2>3. CASE i # k
    <3>1. i \in 1 .. k - 1 /\ i \in DOMAIN work'
      BY <1>5, <2>3
    <3> QED
      BY <1>5, <2>1, <3>1
  <2> QED
    BY <2>2, <2>3
<1> QED
  BY <1>10, <1>11

LEMMA AdmitCalls ==
  ASSUME TypeOK, Passes, AdmitInv, VisitStep \/ ReturnStep, ~Failing
  PROVE  work' \in Seq(AdmittedFrames)
<1> DEFINE n == Top.node
<1>1. work # <<>> /\ work \in Seq(AdmittedFrames) /\ WellFormed(prog)
  BY VisitWalks, ReturnWalks DEF Passes, AdmitInv, TypeOK
<1>2. ASSUME NEW fs \in Seq(AdmittedFrames), Continue(fs) PROVE work' \in Seq(AdmittedFrames)
  BY <1>1, <1>2, Replaced DEF Continue, Rest
<1>3. CASE ReturnStep
  BY <1>2, <1>3, ReturnWalks, ShortSequences
<1>4. \A m \in Nodes(prog) : Compile(m) \in AdmittedFrames
  BY <1>1, ProgramNodes DEF Compile, AdmittedFrames, Frame, AnyNode
<1>5. CASE VisitStep
  <2>1. /\ n \in AnyNode /\ (Kind(n) \notin ValueKinds => n \in Nodes(prog))
        /\ LeafVisit \/ PartsVisit \/ ModeVisit \/ LetVisit \/ VariableVisit
    BY <1>5, StepCalls
  <2>2. CASE LeafVisit
    BY <1>2, <2>2, ShortSequences DEF LeafVisit
  <2>3. ASSUME NEW f \in Frame, f.op # "compile", Continue(<<f>> \o CompileAll(Kids(n)))
        PROVE  work' \in Seq(AdmittedFrames)
    <3>1. Kids(n) \in Seq(Nodes(prog))
      BY <1>1, <2>1, NodeTypes
    <3>2. CompileAll(Kids(n)) \in Seq(AdmittedFrames)
      BY <1>4, <3>1, Visits
    <3>3. <<f>> \in Seq(AdmittedFrames)
      BY <2>3, ShortSequences DEF AdmittedFrames
    <3>4. <<f>> \o CompileAll(Kids(n)) \in Seq(AdmittedFrames)
      BY <3>2, <3>3, ConcatProperties
    <3> QED
      BY <1>2, <2>3, <3>4
  <2>4. CASE PartsVisit
    <3>1. n \in Nodes(prog)
      BY <2>1, <2>4, OtherKinds DEF PartsVisit, PartKinds
    <3>2. Build(n) \in Frame /\ Build(n).op # "compile"
      BY <3>1 DEF Build, Frame
    <3> QED
      BY <2>3, <2>4, <3>2 DEF PartsVisit
  <2>5. CASE ModeVisit
    <3>1. Restore(default_quantifier) \in Frame /\ Restore(default_quantifier).op # "compile"
      BY DEF Restore, Frame, TypeOK
    <3> QED
      BY <2>3, <2>5, <3>1 DEF ModeVisit
  <2>6. CASE LetVisit
    <3>1. n \in Nodes(prog)
      BY <2>1, <2>6, OtherKinds DEF LetVisit
    <3>2. Kids(n)[2] \in Nodes(prog)
      BY <1>1, <2>6, <3>1, LetKids DEF LetVisit
    <3>3. Unbind(Len(variables) + 1) \in AdmittedFrames
      <4>1. Len(variables) + 1 \in Nat
        BY LenProperties DEF TypeOK
      <4> QED
        BY <4>1 DEF Unbind, AdmittedFrames, Frame
    <3> QED
      BY <1>2, <1>4, <2>6, <3>2, <3>3, ShortSequences DEF LetVisit
  <2>7. CASE VariableVisit
    <3>1. n \in Nodes(prog)
      BY <2>1, <2>7, OtherKinds DEF VariableVisit
    <3>2. PICK i \in 1 .. Len(variables) :
            /\ Allowed(UseFeature(variables[i].rule)) /\ variables[i] \in BoundTo(prog)
            /\ Continue(<<Unexpand(i, n), Compile(variables[i].rule)>>)
      BY <2>7 DEF VariableVisit
    <3>3. Unexpand(i, n) \in AdmittedFrames
      <4>1. i \in Nat
        BY LenProperties DEF TypeOK
      <4> QED
        BY <3>1, <4>1 DEF Unexpand, AdmittedFrames, Frame
    <3> DEFINE r == variables[i].rule
    <3>4. r \in AnyNode
      BY <1>1, <3>2, RuleNotLive
    <3>5. r \in BuiltinRules => Admitted(r)
      <4> SUFFICES ASSUME r \in BuiltinRules PROVE Admitted(r)
        OBVIOUS
      <4>1. Kind(r) \in {"boundary", "grapheme", "class"}
        BY DEF Kind, KindOf, LabelOf, BuiltinKind
      <4> HIDE DEF r
      <4> QED
        BY <3>2, <4>1 DEF Admitted, FeatureOf, UseFeature, Allowed, ReferenceKinds, r
    <3> HIDE DEF r
    <3>6. Compile(r) \in AdmittedFrames
      BY <3>4, <3>5 DEF Compile, AdmittedFrames, Frame
    <3> QED
      BY <1>2, <3>2, <3>3, <3>6, ShortSequences DEF r
  <2> QED
    BY <2>1, <2>2, <2>4, <2>5, <2>6, <2>7
<1> QED
  BY <1>3, <1>5

LEMMA AdmitStep == TypeOK /\ Passes /\ AdmitInv /\ [Next]_vars => AdmitInv'
<1> SUFFICES ASSUME TypeOK, Passes, AdmitInv, [Next]_vars PROVE AdmitInv'
  OBVIOUS
<1>1. /\ \A m : Admitted(m)' = Admitted(m) /\ Settled(m)' = Settled(m)
      /\ AdmittedFrames' = AdmittedFrames /\ Nodes(prog)' = Nodes(prog) /\ prog' = prog
      /\ UNCHANGED input
  BY InputKept, AdmissionKept
<1>2. work \in Seq(AdmittedFrames) /\ WellFormed(prog)
  BY DEF AdmitInv, TypeOK
<1>3. CASE UNCHANGED vars
  BY <1>1, <1>3 DEF vars, emitted, AdmitInv
<1>4. CASE Failing
  BY <1>1, <1>4 DEF Failing, Fail, AdmitInv, emitted
<1>5. \A ops : "compile" \notin ops => Seq(FramesOf(ops)) \subseteq Seq(AdmittedFrames)
  <2> TAKE ops
  <2> HAVE "compile" \notin ops
  <2>1. FramesOf(ops) \subseteq AdmittedFrames
    BY DEF FramesOf, AdmittedFrames
  <2> QED
    BY <2>1, SeqMonotonic
<1>6. Passes'
  BY PassesStep
<1>7. \A ops : FramesOf(ops)' = FramesOf(ops)
  BY <1>1 DEF FramesOf, Frame, AnyNode
<1>8. ValidateRule => work # <<>> /\ Top.op = "validate" /\ phase = "validate" /\ result = NoError
  BY PassOfTop DEF ValidateRule, Visiting, Passes
<1>9. CASE ValidateRule /\ ~Failing
  <2>1. /\ phase' = "validate" /\ result' = NoError /\ out' = out
    <3>1. ValidationError(Top.node) # Ok
      BY DEF ValidationError, Ok, NoError
    <3> QED
      BY <1>8, <1>9, <3>1 DEF ValidateRule, Failing, emitted
  <2>2. work' \in Seq(AdmittedFrames)
    BY <1>5, <1>6, <1>7, <2>1 DEF Passes
  <2> QED
    BY <1>1, <1>9, <2>1, <2>2, ValidateSettles DEF AdmitInv, Ok, NoError
<1>10. CASE BeginCollect
  <2>1. /\ phase = "validate" /\ work = <<>> /\ phase' = "collect" /\ out' = out
    BY <1>10 DEF BeginCollect, emitted
  <2>2. work' \in Seq(AdmittedFrames)
    BY <1>5, <1>6, <1>7, <2>1 DEF Passes
  <2> QED
    BY <1>1, <2>1, <2>2 DEF AdmitInv
<1>11. CASE CollectStep /\ ~Failing
  <2>1. work # <<>> /\ Top.op = "collect" /\ UNCHANGED <<phase, result, out>>
    BY <1>11, CollectWalks DEF emitted
  <2>2. phase' = "collect" /\ phase = "collect"
    BY <2>1, PassOfTop
  <2>3. work' \in Seq(AdmittedFrames)
    BY <1>5, <1>6, <1>7, <2>2 DEF Passes
  <2> QED
    BY <1>1, <2>1, <2>2, <2>3 DEF AdmitInv
<1>12. CASE BeginCompile
  <2>1. /\ phase = "collect" /\ phase' = "compile" /\ out' = out /\ work' = <<Compile(1)>>
    BY <1>12 DEF BeginCompile, emitted
  <2>2. 1 \in Nodes(prog) /\ 1 \notin BuiltinRules
    BY <1>2, ProgramNodes DEF WellFormed, Nodes
  <2>3. Compile(1) \in AdmittedFrames
    BY <2>2 DEF Compile, AdmittedFrames, Frame, AnyNode
  <2> QED
    BY <1>1, <2>1, <2>3, ShortSequences DEF AdmitInv
<1>13. CASE (VisitStep \/ ReturnStep) /\ ~Failing
  <2> DEFINE n == Top.node
  <2>1. work # <<>> /\ Top.op \in CompileOps /\ UNCHANGED <<phase, result>>
    BY <1>13, VisitWalks, ReturnWalks DEF Passes, CompileOps
  <2>2. phase = "compile"
    BY <2>1, PassOfTop
  <2>3. work' \in Seq(AdmittedFrames)
    BY <1>13, AdmitCalls
  <2>4. \A i \in DOMAIN out' : out'[i].node \in BuiltinRules => Admitted(out'[i].node)
    <3>1. CASE UNCHANGED out
      BY <3>1 DEF AdmitInv
    <3>2. ASSUME NEW number, NEW form, Emit(n, number, form), Top.op \in {"compile", "build"}
          PROVE  \A i \in DOMAIN out' : out'[i].node \in BuiltinRules => Admitted(out'[i].node)
      <4> DEFINE t == [node |-> n, number |-> number, form |-> form]
      <4>1. out' = Append(out, t) /\ t.node = n
        BY <3>2 DEF Emit
      <4>2. n \in BuiltinRules => Admitted(n)
        <5>1. Top \in AdmittedFrames
          <6>1. Len(work) \in 1 .. Len(work)
            BY <1>2, <2>1, EmptySeq
          <6> QED
            BY <1>2, <6>1, ElementOfSeq DEF Top
        <5>2. Top.op = "build" => n \in Nodes(prog)
          BY <2>1, TopFrame
        <5>3. n \in Nodes(prog) => n \notin BuiltinRules
          BY <1>2, ProgramNodes
        <5> QED
          BY <3>2, <5>1, <5>2, <5>3 DEF AdmittedFrames
      <4> HIDE DEF t, n
      <4>3. /\ \A i \in DOMAIN out : out'[i] = out[i]
            /\ \A i \in DOMAIN out' : i \in DOMAIN out \/ i = Len(out) + 1
            /\ out'[Len(out) + 1] = t
        BY <1>1, <4>1, Appended
      <4> QED
        BY <4>1, <4>2, <4>3 DEF AdmitInv
    <3> HIDE DEF n
    <3> QED
      BY <1>13, <3>1, <3>2, StepEmits DEF n
  <2> QED
    BY <1>1, <2>1, <2>2, <2>3, <2>4 DEF AdmitInv
<1>14. CASE Finish
  BY <1>1, <1>14 DEF Finish, AdmitInv, emitted
<1>15. CASE Returned
  BY <1>3, <1>15 DEF Returned
<1> QED
  BY <1>3, <1>4, <1>9, <1>10, <1>11, <1>12, <1>13, <1>14, <1>15
     DEF Next, CollectStep, VisitStep, ReturnStep

\* What Expr::compile returns is allowed by the options it was given, but for
\* what is written in a lookaround, which validate does not enter.
THEOREM OptionsRespected == Spec => []OptionsRespectedOutsideLookarounds
<1>1. Init => AdmitInv
  <2> SUFFICES ASSUME Init PROVE AdmitInv
    OBVIOUS
  <2>1. TypeOK /\ Passes /\ phase = "validate" /\ work = <<Validate(1)>>
    BY PassesInitially DEF Init
  <2>2. work \in Seq(AdmittedFrames)
    <3>1. FramesOf({"validate"}) \subseteq AdmittedFrames
      BY DEF FramesOf, AdmittedFrames
    <3> QED
      BY <2>1, <3>1, SeqMonotonic DEF Passes
  <2>3. \A m \in Nodes(prog) : m \in Span(prog, work[1].node)
    BY <2>1 DEF TypeOK, WellFormed, Validate, Span, Nodes
  <2>4. 1 \in DOMAIN work
    BY <2>1
  <2> QED
    BY <2>1, <2>2, <2>3, <2>4 DEF Init, AdmitInv, Ok, NoError
<1>2. TypeOK /\ Passes /\ AdmitInv /\ [Next]_vars => AdmitInv'
  BY AdmitStep
<1>3. TypeOK /\ AdmitInv => OptionsRespectedOutsideLookarounds
  <2> SUFFICES ASSUME TypeOK, AdmitInv, result = Ok, NEW i \in DOMAIN out
               PROVE  Settled(out[i].node)
    BY DEF OptionsRespectedOutsideLookarounds, Settled
  <2>1. out[i].node \in AnyNode
    <3>1. out[i] \in Token
      BY LenProperties, ElementOfSeq DEF TypeOK
    <3> QED
      BY <3>1 DEF Token
  <2> QED
    BY <2>1 DEF AdmitInv, AnyNode, Settled
<1> QED
  BY <1>1, <1>2, <1>3, OwnFrames, PTL DEF Spec
=============================================================================
