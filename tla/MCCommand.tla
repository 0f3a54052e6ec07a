----------------------------- MODULE MCCommand -----------------------------
(***************************************************************************)
(* Calls of the command for the model checker: source texts by the part of *)
(* the lexer, the parser and the compiler they exercise, and arguments.    *)
(***************************************************************************)
EXTENDS CommandMeaning, Alphabet

\* The identifiers of the texts that are accepted
MCNames ==
  {"x", "z", "_", "F", "FF", "eacute", "eacuteeacute", "eacuteeacuteeacute", "eacuteeacuteeacuteeacute"}
  \cup {"a", "h", "n", "s", "v", "w", "Z", "Alphabetic", "Greek", "InLatin", "ascii_lower"}
  \cup {"U", "U0", "UF", "U00", "U0F", "UF0", "UFF", "U000", "U00F", "U0F0", "U0FF", "UF00", "UF0F",
         "UFF0", "UFFF", "U1", "U100", "U11", "U1100", "U1001", "U100100", "U1000000000", "U000000001"}

\* Anything between tokens and trees: what is refused and what is not
Parens == TextsOf({<<"(">>, <<")">>, <<"|">>, <<">", ">">>, X}, 5)
Mixed == TextsOf({<<"(">>, <<")">>, <<"|">>, <<"!">>, <<"<", "<">>, X, <<":">>, <<" ", "let", " ", "x", "=">>,
                  <<";">>, <<"+">>, <<"%">>, <<"[", "x", "]">>, <<" ", "atomic">>, <<" ", "x">>}, 3)
Quantified ==
  {X \o t : t \in TextsOf({<<"+">>, <<"*">>, <<"?">>, <<"{", "2", "}">>, <<"{", "1", ",", "}">>,
                           <<" ", "lazy">>, <<" ", "greedy">>, <<"{", "65536", "}">>}, 2)
                  \cup {<<"{">> \o u : u \in TextsOf(Each({"}", "1", "2", ","}), 4)}}
Leaves == TextsOf({<<" ", "range">>, <<" ", "base">>, <<" ", "regex">>, X, Quote(<<"1">>), <<"-">>, <<" ", "2">>,
                   <<" ", "37">>, <<"[">>, <<".">>, <<"]">>}, 3)

\* Programs with statements
Let(x, rule) == <<" ", "let", " ", x, "=">> \o rule \o <<";">>
Rules == {X, <<" ", "x">>, <<" ", "z">>, <<"(", "z", "|", "!", "%", ")">>}
Statement1 == {Let(x, rule) : x \in {"x", "z"}, rule \in Rules}
              \cup {<<" ", word, " ", "lazy", ";">> : word \in {"enable", "disable"}}
Blocks == {a \o b \o rule : a, b \in Statement1 \cup {<<>>}, rule \in Rules \cup {X \o <<"+">>}}
Nested == {Let("x", <<"(">> \o a \o rule \o <<")">>) \o <<"x">> : a \in Statement1, rule \in Rules}

\* Character sets
SetItems ==
  {<<" ", "!">> \o <<x>> : x \in {"w", "s", "h", "Z", "Greek"}} \cup {<<" ", x>> : x \in {"w", "s", "h", "v", "Z"}}
  \cup {Quote(<<x>>) : x \in {"&", "~", "^", "-"}}
  \cup {Quote(<<x>>) \o <<"-">> \o Quote(<<x>>) : x \in {"&", "~"}}
OtherItems ==
  {<<x>> : x \in {"n", "Greek", "InLatin", "Alphabetic", "ascii_lower", "ascii_long", "@", ".", "let", "Latin"}}
  \cup {Quote(<<"a">>) \o <<"-">> \o Quote(<<"c">>), Quote(<<"c">>) \o <<"-">> \o Quote(<<"a">>),
         Quote(<<"]", "[", "x", "|">>), <<"'", "'", "-", "n">>, <<"\"", "\\", "\\", "\"">>, <<"\"", "\\", "x", "\"">>,
         <<"!", "!", "w">>, <<"!", "n">>, <<"!", "ascii_lower">>, <<"!", "ascii_long">>, <<"^">>, <<"U", "+", "b">>, Quote(<<"emoji">>),
         <<"U", "100", " ", "a">>, <<"U", "+", "d", "9", "0", "0">>, Quote(<<"x", "x">>) \o <<"-", "n">>}
Bracketed(items) == {not \o <<"[">> \o i \o <<"]">> : not \in {<<>>, <<"!">>}, i \in items}
Sets == Bracketed(OtherItems \cup TextsOf(SetItems, 2))

\* Ranges
Digits(units, n) == UNION {[1 .. k -> units] : k \in 1 .. n}
Base(a, b, radix) == <<"range">> \o Quote(a) \o <<"-">> \o Quote(b) \o <<" ", "base", " ", radix>>
Ranges == {Base(a, b, "2") : a, b \in Digits({"0", "1"}, 4)}
          \cup {Base(a, b, "3") : a \in Digits({"0", "1", "2"}, 2), b \in Digits({"0", "1", "2"}, 3)}
          \cup {Base(a, b, "36") : a, b \in Digits({"0", "9", "a", "F", "z"}, 1) \cup {<<>>}}

\* References
Before1 == {<<>>, <<":", "(">> \o X \o <<")">>, <<":", "x", "(">> \o X \o <<")">>,
            <<":", "x", "(">> \o X \o <<")", ":", "(", ")">>, <<"let", " ", "z", "=", ":", ":", "1", ";", "z">>}
References ==
  {b \o <<":", ":">> \o r : b \in Before1,
     r \in Each({"1", "2", "x", "z", "100", "65536", "let"}) \cup {<<s, n>> : s \in {"+", "-"}, n \in {"0", "1", "2", "x"}}}
GroupNames1 == {<<":", name, "(", ")">> : name \in {"x", "eacute", "long", "let", "_"}}

\* What the lexer does with bytes, with regex syntax and with code points
Bytes == TextsOf(Each({"\\", "\"", "'", "eacute", "emoji", "#", "newline"}), 4)
RegexSyntax ==
  {<<"(", "?">> \o t : t \in TextsOf(Each({"P", "<", "x", ">", "'", "=", "!", "#", ")"}), 3)}
  \cup {<<"\\">> \o t : t \in TextsOf(Each({"u", "x", "{", "}", "a", "k", "<", ">", "p", "1", "^"}), 3)}
CodePoints == {<<"U">> \o t : t \in TextsOf(Each({"+", "0", "F"}), 3) \cup TextsOf(Each({"1", "100"}), 2)}
              \cup {<<"[", "U">> \o t \o <<"]">> : t \in TextsOf(Each({"+", "0", "x", " "}), 3)}
              \cup {<<"U", "+">> \o t : t \in {<<"1", "0", "F", "F", "F", "F">>, <<"1", "1", "0", "0", "0", "0">>,
                                               <<"0", "0", "0", "0", "0", "0", "1">>}}
              \cup {<<"U", "1", "0", "0", "0", "0", "0", "0", "0", "0", "0">>, <<"U", "0", "0", "0", "0", "0", "0", "0", "0", "1">>}
Signs == TextsOf(Each({"<", ">", "%", ":", "^", "nbsp", "."}), 3)

\* Groups in repetitions in sequences in alternatives, as deep as n
Deep(n) ==
  LET nested[i \in 0 .. n] ==
        IF i = 0 THEN X ELSE X \o <<"|">> \o X \o <<"(">> \o nested[i - 1] \o <<")", "+">>
  IN nested[n]
Nestings == {Deep(n) : n \in 0 .. 4}

(***************************************************************************)
(* Calls                                                                   *)
(***************************************************************************)
Arg(option) == [option |-> option, value |-> <<>>]
ArgOf(option, value) == [option |-> option, value |-> value]
Input == Arg("input")
Flavor(name) == ArgOf("flavor", <<<<name>>>>)
Place(stdin, stdoutIs, file) == [stdin |-> stdin, stdout |-> stdoutIs, file |-> file]
Shell == Place("terminal", "terminal", TRUE)
Call(t, list) == [text |-> t, argv |-> list, place |-> Shell]
Short == {"pcre", "python", "java", "javascript", "dotnet", "ruby", "rust"}

\* Three warnings with the flavor JavaScript
Lookbehinds == Let("z", <<"<", "<">> \o X) \o <<"z", " ", "z", " ", "z">>
W(value) == ArgOf("warnings", value)
Options ==
  {Input, Arg("path"), Arg("json"), Flavor("js"), Flavor("basic"), Arg("-h"), Arg("-x"), Arg("debug"),
   W(<<<<"0">>>>), W(<<<<"compat", "0">>>>), W(<<<<"deprecated", "0">>, <<"syntax", "1">>>>),
   W(<<<<"deprecated", "0">>>>), W(<<<<"limits", "0">>>>), W(<<<<"compat">>>>),
   ArgOf("allowed-features", <<<<"lookbehind">>, <<"magic">>>>), ArgOf("allowed-features", <<<<"dot">>>>)}
Arguments == UNION {[1 .. k -> Options] : k \in 0 .. 2}
             \cup {<<Input, Flavor("js")>> \o list : list \in [1 .. 2 -> Options] \cup [1 .. 1 -> Options]}

Plainly(texts) == {Call(t, <<Input>>) : t \in texts}
With(texts, flavors) == {Call(t, <<Input, Flavor(f)>>) : t \in texts, f \in flavors}
Argued == {Call(Lookbehinds, list) : list \in Arguments}
Placed ==
  {[text |-> X, argv |-> list, place |-> Place(stdin, stdoutIs, file)] :
     list \in {<<>>, <<Arg("path")>>, <<Arg("json")>>}, file \in BOOLEAN,
     stdin \in {"terminal", "invalid", "text"}, stdoutIs \in {"terminal", "pipe"}}
MCCalls ==
  <<Plainly(Parens), Plainly(Mixed), Plainly(Quantified), Plainly(Leaves), Plainly(Blocks),
    Plainly(Nested), Plainly(Ranges), Plainly(GroupNames1), Plainly(Bytes), Plainly(RegexSyntax),
    Plainly(CodePoints), Plainly(Signs), Plainly(Nestings), With(Sets, Short), With(References, {"pcre", "js", "ruby", "rust"}),
    Argued, Placed>>
MCSetCalls == <<With(Sets, {"pcre"})>>
=============================================================================
