----------------------------- MODULE MCOptions -----------------------------
(***************************************************************************)
(* Small programs over every kind of expression, compiled with every       *)
(* feature allowed and with each single feature forbidden.                 *)
(***************************************************************************)
EXTENDS CompilerSafety, ProgramGrammar

Grammar ==
  [leaves |-> {L("literal", NoName, 0), L("class", NoName, 0), L("class", NoName, 1),
               Anonymous("boundary"), Anonymous("grapheme"), Anonymous("dot"),
               L("range", NoName, 2), L("range", NoName, 3), L("regex", NoName, 1),
               L("refNumber", NoName, 1), L("refNumber", NoName, 4),
               L("refRelative", NoName, 0), Named("refName", "a"),
               Named("variable", "Start"), Named("variable", "G"), Named("variable", "C"),
               Named("variable", "a")},
   groups |-> {Anonymous("group"), Anonymous("capture"), Named("capture", "a"),
               Anonymous("atomic")},
   repetitions |-> {Named("repetition", "Default"), Named("repetition", "Lazy")},
   lookarounds |-> {Anonymous("lookahead"), Anonymous("lookbehind")},
   modes |-> {Anonymous("enable"), Anonymous("disable")},
   lets |-> {Named("let", "a")},
   alternation |-> TRUE]

OptionPrograms == Generate(Grammar, 3)
AllFeaturesOnly == {AllFeatures}
SomeFeatures == {AllFeatures} \cup {AllFeatures \ {f} : f \in AllFeatures}
=============================================================================
