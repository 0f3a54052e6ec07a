----------------------------- MODULE MCBindings -----------------------------
(***************************************************************************)
(* Calls from JavaScript for the model checker: texts in which characters  *)
(* of several bytes come before, in and after what an error is about.      *)
(***************************************************************************)
EXTENDS Bindings, Alphabet

MCUtf16Length == "eacute" :> 1 @@ "emoji" :> 2 @@ "nbsp" :> 1

Wide == {<<"eacute">>, <<"emoji">>, <<"nbsp">>, Quote(<<"eacute">>), Quote(<<"emoji">>), <<"#", "emoji", "newline">>}
Wrong ==
  {<<":", "eacute", "(", ")">>, <<":", "x", "eacute", "(", ")">>, <<"[", "emoji", "]">>, <<"\"", "\\", "x", "\"">>,
   <<"'", "eacute">>, <<"(">>, X \o <<"+", "+">>, <<"{", "2", "}">>, <<" ", "range">> \o Quote(<<"2">>) \o <<"-">> \o Quote(<<"1">>),
   <<"[">> \o Quote(<<"emoji">>) \o <<"-">> \o Quote(<<"eacute">>) \o <<"]">>,
   X \o <<"{", "2", ",", "1", "}">>, <<" ", "let", " ", "x", "=">> \o X \o <<";", " ", "let", " ", "x", "=">> \o X \o <<";">>}
Escapes == {<<"\"">> \o t : t \in TextsOf(Each({"\\", "\"", "eacute", "emoji", "x"}), 4)}

MCInputs ==
  TextsOf(Wide \cup {X, <<"|">>, <<"(">>, <<")">>, <<"\"", "\\">>}, 3)
    \cup {before \o wrong \o after : before, after \in TextsOf(Wide, 1), wrong \in Wrong}
    \cup Escapes
MCFlavorNames == {"js", "pcre", "perl"}
=============================================================================
