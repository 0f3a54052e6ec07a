----------------------------- MODULE MCCompiler -----------------------------
(***************************************************************************)
(* Small programs for the compiler: groups and references of every sort,   *)
(* in and around a let binding and a lookahead; and variables that are     *)
(* bound, bound again, used before they are bound and defined in terms of  *)
(* each other, one of them with the name of a built-in; and modes that     *)
(* change in between.                                                      *)
(***************************************************************************)
EXTENDS CompilerSafety, ProgramGrammar

NoKinds == [leaves |-> {}, groups |-> {}, repetitions |-> {}, lookarounds |-> {}, modes |-> {},
            lets |-> {Named("let", "a")}, alternation |-> FALSE]

ReferenceGrammar ==
  [NoKinds EXCEPT
     !.leaves = {L("literal", NoName, 1), Named("variable", "a"), Named("refName", "a"),
                 L("refNumber", NoName, 2), L("refRelative", NoName, -1),
                 L("refRelative", NoName, 1)},
     !.groups = {Anonymous("capture"), Named("capture", "a")},
     !.lookarounds = {Anonymous("lookahead")}]

\* Fewer expressions, in larger programs.
CoreGrammar ==
  [ReferenceGrammar EXCEPT
     !.leaves = {L("literal", NoName, 1), Named("variable", "a"),
                 L("refNumber", NoName, 2), L("refRelative", NoName, -1)},
     !.lookarounds = {}]

BindingGrammar ==
  [NoKinds EXCEPT
     !.leaves = {L("literal", NoName, 1), Named("variable", "a"), Named("variable", "Start")},
     !.groups = {Anonymous("group")},
     !.lets = {Named("let", "a"), Named("let", "Start")}]

ModeGrammar ==
  [NoKinds EXCEPT
     !.leaves = {L("literal", NoName, 1), Named("variable", "a")},
     !.groups = {Anonymous("group")},
     !.repetitions = {Named("repetition", "Default"), Named("repetition", "Greedy")},
     !.modes = {Anonymous("enable"), Anonymous("disable")}]

SmallPrograms ==
  UnionOf(<<Generate(ReferenceGrammar, 5), Generate(CoreGrammar, 6),
            Generate(BindingGrammar, 7), Generate(ModeGrammar, 5)>>)
\* TLC evaluates the body of what replaces a constant at every use, and SmallPrograms once.
MCPrograms == SmallPrograms
AllFeaturesOnly == {AllFeatures}
=============================================================================
