-------------------------------- MODULE Ast --------------------------------
(***************************************************************************)
(* The syntax tree that pomsky-syntax hands to the compiler.               *)
(*                                                                         *)
(* A program is a table of its nodes in source order: node 1 is the root,  *)
(* the subtree of node n occupies n .. last[n], and kids[n] lists the      *)
(* children of n from left to right.  The numbering is the order in which  *)
(* the expressions start in the source text, so "the second capturing      *)
(* group of the source" is a statement about node numbers and does not     *)
(* mention any traversal.                                                  *)
(***************************************************************************)
EXTENDS Integers, Sequences, FiniteSets

CONSTANT Names    \* the identifiers a program gives to variables and groups

(***************************************************************************)
(* The variants of pomsky_syntax::exprs::Rule.  Group is split by its      *)
(* GroupKind, Reference by its ReferenceTarget, Lookaround by direction    *)
(* and StmtExpr by its Stmt: these are what the compiler branches on.      *)
(***************************************************************************)
ValueKinds == {"literal", "class", "boundary", "grapheme", "dot", "range", "regex"}
ReferenceKinds == {"refName", "refNumber", "refRelative"}
GroupKinds == {"group", "capture", "atomic"}
LookaroundKinds == {"lookahead", "lookbehind"}
ModeKinds == {"enable", "disable"}

Kinds == ValueKinds \cup ReferenceKinds \cup GroupKinds \cup LookaroundKinds
           \cup ModeKinds \cup {"alternation", "repetition", "variable", "let"}

NoName == "-"
BuiltinNames == {"Start", "End", "Grapheme", "G", "Codepoint", "C"}
Quantifiers == {"Greedy", "Lazy"}
AnyTag == Names \cup BuiltinNames \cup Quantifiers \cup {"Default", NoName}

(***************************************************************************)
(* kind   the variant                                                      *)
(* tag    the name of a variable, let binding, named group or named        *)
(*        reference; the Quantifier of a repetition; NoName otherwise      *)
(* num    the number of a reference (negative for `::-2`); the length of a *)
(*        literal or raw regex; the digits of a range's upper end; 1 for a *)
(*        character class the flavor cannot express                        *)
(***************************************************************************)
Label == [kind : Kinds, tag : AnyTag, num : Int]

(***************************************************************************)
(* The rules the compiler adds to every program as built-in variables.     *)
(* They are not nodes of the program and get negative numbers.             *)
(***************************************************************************)
StartRule == -1
EndRule == -2
GraphemeRule == -3
CodepointRule == -4
BuiltinRules == {StartRule, EndRule, GraphemeRule, CodepointRule}

BuiltinKind(n) == IF n = GraphemeRule THEN "grapheme"
                  ELSE IF n = CodepointRule THEN "class"
                  ELSE "boundary"

Nodes(p) == 1 .. p.size
LabelOf(p, n) == IF n \in BuiltinRules
                 THEN [kind |-> BuiltinKind(n), tag |-> NoName, num |-> 0]
                 ELSE p.label[n]
KindOf(p, n) == LabelOf(p, n).kind
KidsOf(p, n) == IF n \in BuiltinRules THEN <<>> ELSE p.kids[n]

(***************************************************************************)
(* What a parsed tree looks like: children partition their parent's        *)
(* subtree in order.  That all subtrees are nested or disjoint follows     *)
(* (lemma SubtreesNest of CompilerOrder).                                  *)
(***************************************************************************)
Children(p, n) ==
  LET kids == p.kids[n] IN
  /\ kids = <<>> => p.last[n] = n
  /\ kids # <<>> => kids[1] = n + 1 /\ p.last[kids[Len(kids)]] = p.last[n]
  /\ \A i \in 1 .. Len(kids) - 1 : kids[i + 1] = p.last[kids[i]] + 1

Arity(p, n) ==
  LET kind == p.label[n].kind IN
  /\ kind \in ValueKinds \cup ReferenceKinds \cup {"variable"} => p.kids[n] = <<>>
  /\ kind \in LookaroundKinds \cup ModeKinds \cup {"repetition"} => Len(p.kids[n]) = 1
  /\ kind = "let" => Len(p.kids[n]) = 2      \* the bound rule, then the scope

Tags(p, n) ==
  LET kind == p.label[n].kind
      tag == p.label[n].tag IN
  /\ kind = "capture" => tag \in Names \cup {NoName}
  /\ kind \in {"let", "refName"} => tag \in Names

WellFormed(p) ==
  /\ p.size \in Nat \ {0}
  /\ p.label \in [Nodes(p) -> Label]
  /\ p.kids \in [Nodes(p) -> Seq(Nodes(p))]
  /\ p.last \in [Nodes(p) -> Nodes(p)]
  /\ p.last[1] = p.size
  /\ \A n \in Nodes(p) :
       n <= p.last[n] /\ Children(p, n) /\ Arity(p, n) /\ Tags(p, n)

-----------------------------------------------------------------------------
(***************************************************************************)
(* What the source text means, independently of the compiler.              *)
(***************************************************************************)

IsCapture(p, n) == p.label[n].kind = "capture"

\* The number of capturing groups that open at or before node n: the number
\* a regex engine gives to the group of a capturing node n.
Rank(p, n) == Cardinality({m \in 1 .. n : IsCapture(p, m)})

\* Node n is part of the rule bound by some `let`.
InLetRule(p, n) ==
  \E l \in Nodes(p) :
    /\ p.label[l].kind = "let"
    /\ p.kids[l][1] <= n
    /\ n <= p.last[p.kids[l][1]]

\* The group c is what the reference r names, by its name, by its number, or
\* by counting groups backwards or forwards from the reference.
Denotes(p, r, c) ==
  LET label == p.label[r]
      before == Rank(p, r) IN
  /\ IsCapture(p, c)
  /\ label.kind = "refName" => p.label[c].tag = label.tag
  /\ label.kind = "refNumber" => Rank(p, c) = label.num
  /\ label.kind = "refRelative" /\ label.num < 0 => Rank(p, c) = before + 1 + label.num
  /\ label.kind = "refRelative" /\ label.num > 0 => Rank(p, c) = before + label.num
=============================================================================
