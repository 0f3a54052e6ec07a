---------------------------- MODULE ParserSafety ----------------------------
(***************************************************************************)
(* What the lexer and the parser have to get right.                        *)
(***************************************************************************)
EXTENDS Parser

Stages == {"lexing", "parsing", "parsed", "rejected", "panicked"}
Levels == {"or", "group", "lookaround"}

\* Types.  A rule is the number of a node, and a node has the rules it
\* contains before it, so that the tree is a tree.
ParserTypeOK ==
  /\ stage \in Stages
  /\ recursion \in 0 .. Limit
  /\ result \in 0 .. Len(nodes)
  /\ at \in 1 .. Len(tokens) + 1
  /\ \A k \in DOMAIN stack :
       /\ stack[k].fn \in Functions
       /\ Range(stack[k].items) \cup Range(stack[k].fixes) \subseteq DOMAIN nodes
  /\ \A n \in DOMAIN nodes : Range(nodes[n].kids) \subseteq 1 .. n - 1

(***************************************************************************)
(* The lexer                                                               *)
(***************************************************************************)
AtCharacter(byte) == UnitAt(begin, byte) # 0
CoversUnits(token) ==
  token.units = SubSeq(text, UnitAt(begin, token.start), UnitAt(begin, token.end) - 1)

\* The tokens lie one after the other, each begins and ends at a character and
\* is not empty, and all of the text that is between or after them is white
\* space or comments.  The offsets are counted by hand and the code slices the
\* source with them, which panics inside a character (tokenize.rs:59-127).
TokensTile ==
  /\ stage # "panicked"
  /\ \A i \in DOMAIN tokens :
       /\ AtCharacter(tokens[i].start) /\ AtCharacter(tokens[i].end)
       /\ tokens[i].start < tokens[i].end \/ tokens[i].token = "EndOfInput"
       /\ CoversUnits(tokens[i])
       /\ tokens[i].start >= IF i = 1 THEN 0 ELSE tokens[i - 1].end
  /\ \A i \in DOMAIN tokens :
       LET from == UnitAt(begin, IF i = 1 THEN 0 ELSE tokens[i - 1].end)
           upTo == UnitAt(begin, tokens[i].start) - 1
       IN \A j \in from .. upTo :
            text[j] \in Blanks \/ \E c \in from .. j : text[c] = "#" /\ "newline" \notin Range(SubSeq(text, c, j))

\* A text that is refused is refused with an error, and every error has a
\* place in the source, on the boundaries of characters: from_parse_error
\* slices the source there (diagnostics.rs:62-63), and a place at byte 0 with
\* nothing in it would count as missing (span.rs:35).
ErrorsHavePlaces ==
  stage = "rejected" =>
    /\ errors # <<>>
    /\ \A i \in DOMAIN errors :
         LET e == errors[i] IN
         /\ AtCharacter(e.start) /\ AtCharacter(e.end)
         /\ e.start < e.end \/ (e.start = e.end /\ e.start = begin[Len(text) + 1] /\ text # <<>>)

(***************************************************************************)
(* The recursion limit                                                     *)
(***************************************************************************)
\* Each running call of parse_or, parse_group and parse_lookaround has taken
\* one level, and what has returned has given its level back: recursion_start
\* and recursion_end are paired by hand on every path (parser.rs:121-131).
\* So the depth of the native stack is bounded by the limit.
RecursionBalanced ==
  /\ recursion + Cardinality({k \in DOMAIN stack : stack[k].fn \in Levels}) = Limit
  /\ Len(stack) <= 2 * (Limit - recursion) + 2

\* The nesting of the tree is bounded by the limit as well, which is what
\* keeps the recursion of all later passes in bounds, except for statements:
\* a block may have any number of them, each in the scope of the one before.
Depths ==
  LET depth[n \in DOMAIN nodes] ==
        (IF nodes[n].kind \in {"stmt", "let"} THEN 0 ELSE 1)
        + Max({0} \cup {depth[kid] : kid \in Range(nodes[n].kids)})
  IN depth
NestingBounded ==
  stage = "parsed" => Depths[result] <= 2 * Limit + 2

(***************************************************************************)
(* The tree.  Reading it from left to right gives back the operators and   *)
(* the operands of the source, and no node is where the precedence of its  *)
(* operator does not let it be; there is only one such tree.               *)
(***************************************************************************)
InBrackets(i) ==
  \E j \in 1 .. i - 1 : Is(tokens, j, "OpenBracket") /\ \A k \in j .. i - 1 : ~Is(tokens, k, "CloseBracket")
Before(i) == IF i = 1 THEN "OpenParen" ELSE tokens[i - 1].token
WordBefore(i) == IF i = 1 THEN <<>> ELSE tokens[i - 1].units

Operand == "operand"
SourceSymbol ==
  "OpenParen" :> "(" @@ "CloseParen" :> ")" @@ "Pipe" :> "|" @@ "Not" :> "!" @@ "Colon" :> ":"
  @@ "LookAhead" :> "Ahead" @@ "LookBehind" :> "Behind" @@ "Equals" :> "=" @@ "Semicolon" :> ";"
  @@ "Plus" :> "repeat" @@ "Star" :> "repeat" @@ "QuestionMark" :> "repeat" @@ "OpenBrace" :> "repeat"
  @@ "OpenBracket" :> Operand @@ "Caret" :> Operand @@ "Dollar" :> Operand @@ "BWord" :> Operand
  @@ "DoubleColon" :> Operand @@ "CodePoint" :> Operand @@ "Dot" :> Operand
  @@ "Identifier" :> Operand @@ "String" :> Operand @@ "ReservedName" :> "word"

\* The tokens that are operators or begin an operand.  A pipe before the
\* first alternative means nothing, and neither does an empty string.
Meant(i) ==
  LET token == tokens[i].token IN
  /\ ~InBrackets(i)
  /\ token \in DOMAIN SourceSymbol
  /\ token = "Pipe" => Before(i) \notin {"OpenParen", "Equals", "Semicolon", "LookAhead", "LookBehind"}
  /\ token = "Plus" => Before(i) # "DoubleColon"
  /\ token = "Identifier" => Before(i) \notin {"Colon", "DoubleColon"} /\ WordBefore(i) # <<"let">>
  /\ token = "String" =>
       /\ Len(tokens[i].units) > 2
       /\ WordBefore(i) \notin {<<"range">>, <<"regex">>} /\ Before(i) # "Dash"
  /\ token = "ReservedName" => tokens[i].units[1] \notin {"base", "lazy", "greedy"}
Symbol(i) ==
  IF ~Is(tokens, i, "ReservedName") THEN SourceSymbol[tokens[i].token]
  ELSE IF tokens[i].units[1] \in {"range", "regex"} THEN Operand ELSE tokens[i].units[1]
SourceSymbols ==
  LET meant == SelectSeq([i \in DOMAIN tokens |-> i], Meant) IN
  [k \in DOMAIN meant |-> Symbol(meant[k])]

GroupSymbols == "Normal" :> <<>> @@ "Capturing" :> <<":">> @@ "Atomic" :> <<"atomic">>
SymbolsOf ==
  LET symbols[n \in DOMAIN nodes] ==
        LET node == nodes[n]
            Of(i) == symbols[node.kids[i]]
            Not == IF node.negative THEN <<"!">> ELSE <<>>
            RestOfAlternatives ==
              FlattenSeq([i \in 1 .. Len(node.kids) - 1 |-> <<"|">> \o Of(i + 1)])
        IN CASE node.kind = "stmt" -> Of(1) \o Of(2)
             [] node.kind = "let" -> <<"let", "=">> \o Of(1) \o <<";">>
             [] node.kind \in ModeWords -> <<node.kind, ";">>
             [] node.kind = "alternation" -> Of(1) \o RestOfAlternatives
             [] node.kind = "sequence" -> FlattenSeq([i \in DOMAIN node.kids |-> Of(i)])
             [] node.kind = "repetition" -> Of(1) \o <<"repeat">>
             [] node.kind = "lookaround" -> Not \o node.value \o Of(1)
             [] node.kind = "group" -> GroupSymbols[node.value[1]] \o <<"(">> \o Of(1) \o <<")">>
             [] node.kind = "literal" -> IF node.value = <<>> THEN <<>> ELSE <<Operand>>
             [] OTHER -> Not \o <<Operand>>
  IN symbols

\* The kinds of nodes that bind weaker than what may be below a node of a kind
Weaker ==
  LET fix == {"stmt", "alternation", "sequence"} IN
  "let" :> {"stmt"} @@ "alternation" :> {"stmt", "alternation"} @@ "sequence" :> fix
  @@ "repetition" :> fix \cup {"repetition", "lookaround"}
BindsTightly(n) ==
  nodes[n].kind \in DOMAIN Weaker =>
    \A i \in DOMAIN nodes[n].kids : nodes[nodes[n].kids[i]].kind \notin Weaker[nodes[n].kind]

\* A lookaround reaches as far as it can, so that nothing comes after it
Reaching ==
  LET reaching[n \in DOMAIN nodes] ==
        \/ nodes[n].kind = "lookaround"
        \/ nodes[n].kind \in {"sequence", "alternation"} /\ reaching[Last(nodes[n].kids)]
  IN reaching
NothingAfterLookaround(n) ==
  nodes[n].kind \in {"sequence", "alternation"} =>
    /\ Len(nodes[n].kids) > 1
    /\ \A i \in 1 .. Len(nodes[n].kids) - 1 : ~Reaching[nodes[n].kids[i]]

TreeIsParse ==
  stage = "parsed" =>
    /\ SymbolsOf[result] = SourceSymbols
    /\ \A n \in DOMAIN nodes : BindsTightly(n) /\ NothingAfterLookaround(n)
=============================================================================
