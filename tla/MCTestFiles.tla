---------------------------- MODULE MCTestFiles ----------------------------
(***************************************************************************)
(* Small test files: every list of options about one thing, programs of    *)
(* one or two lines, and what may be expected of them.  The compiler of    *)
(* version 2 compiles one program differently and accepts another one.     *)
(***************************************************************************)
EXTENDS TestFiles

TwoVersions == 1 .. 2

Words(program) == {program[i].words : i \in {j \in DOMAIN program : program[j].kind = "text"}}

MCCompile(program, flavor, v) ==
  LET words == Words(program)
      wrong ==
        \/ Dashes \in {program[i] : i \in DOMAIN program}
        \/ "broken" \in words
        \/ "lookbehind" \in words /\ flavor # "JavaScript"
        \/ "fixed" \in words /\ v = 1
      regex ==
        IF "changed" \in words THEN <<Text(IF v = 1 THEN "old" ELSE "new")>>
        ELSE IF "invalid" \in words THEN <<Text("[")>>
        ELSE IF "warned" \in words THEN <<Text("regex")>>
        ELSE Empty
  IN IF wrong THEN [regex |-> <<>>, messages |-> <<Text("ERROR"), Text("SPAN")>>]
     ELSE [regex |-> regex, messages |-> IF "warned" \in words THEN <<Text("WARNING")>> ELSE <<>>]

MCAccepts(regex, flavor) == regex # <<Text("[")>>

Settings ==
  {<<>>}
    \cup {<<s>> : s \in {<<"flavor", "js">>, <<"flavor", ".net">>, <<"flavor", "perl">>, <<"expect", "error">>,
                         <<"expect", "success">>, <<"ignore", "">>, <<"compile", "false">>, <<"other", "">>}}
    \cup {<< <<"compile", "no">>, <<"compile", "yes">>, <<"flavor", "javascript">>, <<"ignored", "no">> >>,
          << <<"flavor", "dotnet">>, <<"compile", "true">>, <<"ignore", "yes">> >>,
          << <<"expect", "error">>, <<"expect", "fail">>, <<"flavor", "js">>, <<"ignore", "maybe">> >>}

Programs ==
  {<<Text(w)>> : w \in {"", "broken", "lookbehind", "fixed", "changed", "invalid", "warned"}}
    \cup {<<OptionLine(<< <<"flavor", "js">> >>), Text("lookbehind")>>, <<Text("changed"), OptionLine(<<>>)>>,
          <<Dashes>>, <<Dashes, Text("changed")>>, <<Text(""), Text("broken")>>}

Expectations ==
  {<<>>, <<Dashes>>} \cup {<<Dashes>> \o e : e \in {Empty, <<Text("old")>>, <<Text("["), Text("")>>,
                                                    <<Text("ERROR"), Text("SPAN")>>, <<Dashes, Text("new")>>}}

SmallFiles ==
  {head \o program \o expectation :
     head \in {<<>>} \cup {<<OptionLine(s)>> : s \in Settings}, program \in Programs, expectation \in Expectations}
    \cup {<<OptionLine(<< <<"flavor", "js">> >>)>>}
=============================================================================
