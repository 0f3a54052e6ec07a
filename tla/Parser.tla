------------------------------- MODULE Parser -------------------------------
(***************************************************************************)
(* pomsky_syntax::parse: a text is cut into tokens, and a recursive        *)
(* descent over the tokens builds the syntax tree.                         *)
(*                                                                         *)
(* The recursive functions are a machine with a stack of frames.  The tree *)
(* is the list `nodes`, a child before its parent; a rule is the number of *)
(* its node.  `result` is the rule that a finished function returns, 0     *)
(* while a call is in progress.  The functions that do not recurse are     *)
(* operators of Atoms.                                                     *)
(***************************************************************************)
EXTENDS Atoms, FiniteSets

CONSTANTS
  Limit       \* `recursion`: how deep an expression may be nested; 256 in the command

ASSUME LimitAssumption == Limit \in Nat

VARIABLES
  text, begin,      \* the source, and the byte at which each unit of it starts
  next, offset,     \* tokenize(): the rest of the text, as a unit and as a byte
  tokens,           \* the tokens so far; EndOfInput is added at the end
  at,               \* Parser.offset: the next token
  recursion,        \* Parser.recursion: the levels that are left
  stack,            \* the functions that are running
  nodes, result,    \* the tree
  stage,            \* what parse() is doing, or how it ended
  errors            \* the diagnostics that parse() returns

lexVars == <<text, begin, next, offset, tokens>>
parseVars == <<at, recursion, stack, nodes, result>>
parserVars == <<lexVars, parseVars, stage, errors>>

(***************************************************************************)
(* A frame                                                                 *)
(*   modified    parse_modified; items: its statements                     *)
(*   let         parse_let, waiting for the rule; from: the name           *)
(*   or          parse_or with parse_sequence and parse_fixes in it;       *)
(*               items: the alternatives, fixes: the sequence so far,      *)
(*               from: the leading pipe or 0, nots: the `!` of the fix     *)
(*   group       parse_repeated and parse_group; tag: the GroupKind        *)
(*   lookaround  parse_lookaround; tag: the LookaroundKind                 *)
(***************************************************************************)
Functions == {"modified", "let", "or", "group", "lookaround"}
Frame(fn, from, tag) ==
  [fn |-> fn, items |-> <<>>, fixes |-> <<>>, from |-> from, nots |-> 0, tag |-> tag]

Top == stack[Len(stack)]
Below == SubSeq(stack, 1, Len(stack) - 1)
Replaced(frame) == Append(Below, frame)

Calling(fn) == stage = "parsing" /\ stack # <<>> /\ Top.fn = fn /\ result = 0
Returned(fn) == stage = "parsing" /\ stack # <<>> /\ Top.fn = fn /\ result # 0

Going == UNCHANGED <<lexVars, stage, errors>>
Fail(error) ==
  /\ stage' = "rejected"
  /\ errors' = <<error>>
  /\ UNCHANGED <<lexVars, parseVars>>

Init ==
  /\ text \in Texts
  /\ begin = Begins(text)
  /\ next = 1 /\ offset = 0 /\ tokens = <<>>
  /\ at = 1 /\ recursion = Limit /\ stack = <<>> /\ nodes = <<>> /\ result = 0
  /\ stage = "lexing" /\ errors = <<>>

(***************************************************************************)
(* tokenize(), one turn of its loop at a time.  A slice that does not end  *)
(* at a character panics.                                                  *)
(***************************************************************************)
AddToken(i, lexeme) ==
  LET start == offset + (begin[i] - begin[next])
      end == start + lexeme[1]
      rest == UnitAt(begin, end)
  IN IF lexeme[1] < 1 \/ rest = 0
     THEN stage' = "panicked" /\ UNCHANGED <<lexVars, parseVars, errors>>
     ELSE /\ tokens' = Append(tokens, [token |-> lexeme[2], units |-> SubSeq(text, i, rest - 1),
                                       start |-> start, end |-> end])
          /\ next' = rest
          /\ offset' = end
          /\ UNCHANGED <<text, begin, parseVars, stage, errors>>

LexToken ==
  LET i == SkipBlanks(text, next) IN
  /\ stage = "lexing"
  /\ i <= Len(text)
  /\ AddToken(i, Lexeme(text, begin, i))

\* The end of the text: parse() reports every error token, or begins to parse
IsErrorToken(token) == token.token \in LexErrors
LexError(token) ==
  ErrorAt(IF token.token = "Error" THEN "UnknownToken" ELSE token.token, token)

EndLexing ==
  LET found == {i \in DOMAIN tokens : IsErrorToken(tokens[i])}
      ErrorToken(k) == CHOOSE i \in found : Cardinality({j \in found : j <= i}) = k
  IN
  /\ stage = "lexing"
  /\ SkipBlanks(text, next) > Len(text)
  /\ tokens' = Append(tokens, [token |-> "EndOfInput", units |-> <<>>,
                               start |-> begin[Len(text) + 1], end |-> begin[Len(text) + 1]])
  /\ errors' = [k \in 1 .. Cardinality(found) |-> LexError(tokens[ErrorToken(k)])]
  /\ stage' = IF found = {} THEN "parsing" ELSE "rejected"
  /\ stack' = IF found = {} THEN <<Frame("modified", 0, <<>>)>> ELSE <<>>
  /\ UNCHANGED <<text, begin, next, offset, at, recursion, nodes, result>>

(***************************************************************************)
(* parse_modified: statements, then an expression.  parse_or is called     *)
(* from two places, both of which take a level of recursion for it and     *)
(* give it back when it returns.                                           *)
(***************************************************************************)
CallOr(frames, o) ==
  IF recursion = 0 THEN Fail(ErrorAt("RecursionLimit", tokens[o]))
  ELSE /\ recursion' = recursion - 1
       /\ at' = After(tokens, o, "Pipe")
       /\ stack' = Append(frames, Frame("or", IF Is(tokens, o, "Pipe") THEN o ELSE 0, <<>>))
       /\ UNCHANGED <<nodes, result>>
       /\ Going

ModeWords == {"enable", "disable"}
IsStatement == \E word \in ModeWords \cup {"let"} : IsReserved(tokens, at, word)

ParseModeModifier ==
  /\ Calling("modified")
  /\ \E word \in ModeWords :
       /\ IsReserved(tokens, at, word)
       /\ IF ~IsReserved(tokens, at + 1, "lazy")
          THEN Fail(ErrorAt("ExpectedLazy", tokens[at + 1]))
          ELSE IF ~Is(tokens, at + 2, "Semicolon")
          THEN Fail(ErrorAt("ExpectedSemicolon", tokens[at + 2]))
          ELSE /\ nodes' = Append(nodes, Node(word, <<>>, <<>>))
               /\ stack' = Replaced([Top EXCEPT !.items = Append(@, Len(nodes) + 1)])
               /\ at' = at + 3
               /\ UNCHANGED <<recursion, result>>
               /\ Going

ParseLet ==
  LET name == tokens[at + 1] IN
  /\ Calling("modified")
  /\ IsReserved(tokens, at, "let")
  /\ IF name.token # "Identifier"
     THEN Fail(ErrorAt(IF name.token = "ReservedName" THEN "KeywordAfterLet"
                       ELSE "ExpectedIdentifier", name))
     ELSE IF ~Is(tokens, at + 2, "Equals") THEN Fail(ErrorAt("ExpectedEquals", tokens[at + 2]))
     ELSE CallOr(Append(stack, Frame("let", at + 1, <<>>)), at + 3)

EndLet ==
  /\ Returned("let")
  /\ IF ~Is(tokens, at, "Semicolon")
     THEN Fail(ErrorAt("ExpectedExpressionOrSemicolon", tokens[at]))
     ELSE LET caller == stack[Len(stack) - 1] IN
          /\ nodes' = Append(nodes, Node("let", <<result>>, <<tokens[Top.from].units, Top.from>>))
          /\ stack' = Append(SubSeq(stack, 1, Len(stack) - 2),
                             [caller EXCEPT !.items = Append(@, Len(nodes) + 1)])
          /\ at' = at + 1
          /\ result' = 0
          /\ UNCHANGED recursion
          /\ Going

ParseBody ==
  /\ Calling("modified")
  /\ ~IsStatement
  /\ CallOr(stack, at)

\* The statements of a block that bind a name another one before it binds
Rebinds(i) ==
  LET items == Top.items IN
  \E j \in 1 .. i - 1 :
    /\ nodes[items[i]].kind = "let" /\ nodes[items[j]].kind = "let"
    /\ nodes[items[i]].value[1] = nodes[items[j]].value[1]
Rebound == {i \in DOMAIN Top.items : Rebinds(i)}
FirstRebound == CHOOSE i \in Rebound : \A j \in Rebound : i <= j

\* Mutant: the first statement ends up innermost.
StatementsMutant(items, rule) ==
  [j \in DOMAIN items |-> Node("stmt", <<items[j], IF j = 1 THEN rule ELSE Len(nodes) + j - 1>>, <<>>)]

\* Each statement becomes an expression around the ones after it
Statements(items, rule) ==
  LET k == Len(items) IN
  [j \in 1 .. k |-> Node("stmt", <<items[k + 1 - j], IF j = 1 THEN rule ELSE Len(nodes) + j - 1>>, <<>>)]

EndModified ==
  /\ Returned("modified")
  /\ IF Rebound # {}
     THEN Fail(ErrorAt("LetBindingExists", tokens[nodes[Top.items[FirstRebound]].value[2]]))
     ELSE /\ nodes' = nodes \o Statements(Top.items, result)
          /\ result' = IF Top.items = <<>> THEN result ELSE Len(nodes) + Len(Top.items)
          /\ stack' = Below
          /\ UNCHANGED <<at, recursion>>
          /\ Going

(***************************************************************************)
(* parse_fixes: a lookaround or a repeated atom, with its `!`              *)
(***************************************************************************)
FixAt == AfterNots(tokens, at)      \* the token after the `!`

\* Rule::negate reaches through a repetition, whose rule is never another
NegationTarget(ns, n) == IF ns[n].kind = "repetition" THEN ns[n].kids[1] ELSE n
NegationError(node) ==
  CASE node.kind \in {"class", "lookaround"} ->
         IF node.negative THEN "UnallowedMultiNot" ELSE "none"
    [] node.kind = "boundary" ->
         IF node.value[1] # "Word" THEN "UnallowedNot"
         ELSE IF node.negative THEN "UnallowedMultiNot" ELSE "none"
    [] OTHER -> "UnallowedNot"

\* The last node of the tree ns, a fix parsed up to o, joins the sequence of
\* `frame` above `frames`; its nots begin at token `from`, and `left` levels are
\* left.
NotsError(ns, n, nots) ==
  IF nots = 0 THEN "none"
  ELSE IF nots > 1 THEN "UnallowedMultiNot"
  ELSE NegationError(ns[NegationTarget(ns, n)])
Negated(ns, n, nots) ==
  IF nots = 0 THEN ns ELSE [ns EXCEPT ![NegationTarget(ns, n)].negative = TRUE]

AddFix(ns, o, left, frames, frame, from, nots) ==
  IF NotsError(ns, Len(ns), nots) # "none"
  THEN Fail(Joined(NotsError(ns, Len(ns), nots), tokens[from], tokens[from + nots - 1]))
  ELSE /\ nodes' = Negated(ns, Len(ns), nots)
       /\ stack' = Append(frames, [frame EXCEPT !.fixes = Append(@, Len(ns))])
       /\ at' = o
       /\ recursion' = left
       /\ result' = 0
       /\ Going

\* Mutant: groups and lookarounds do not count.
CallModifiedMutant(fn, tag, o) ==
  LET caller == [Top EXCEPT !.nots = FixAt - at] IN
  /\ at' = o
  /\ stack' = Replaced(caller) \o <<Frame(fn, at, tag), Frame("modified", 0, <<>>)>>
  /\ UNCHANGED <<recursion, nodes, result>>
  /\ Going

\* A function that calls parse_modified takes a level for it
CallModified(fn, tag, o) ==
  LET caller == [Top EXCEPT !.nots = FixAt - at] IN
  IF recursion = 0 THEN Fail(ErrorAt("RecursionLimit", tokens[o]))
  ELSE /\ recursion' = recursion - 1
       /\ at' = o
       /\ stack' = Replaced(caller) \o <<Frame(fn, at, tag), Frame("modified", 0, <<>>)>>
       /\ UNCHANGED <<nodes, result>>
       /\ Going

LookaroundKind == Table({<<"LookAhead", "Ahead">>, <<"LookBehind", "Behind">>})
ParseLookaround ==
  /\ Calling("or")
  /\ tokens[FixAt].token \in DOMAIN LookaroundKind
  /\ CallModified("lookaround", <<LookaroundKind[tokens[FixAt].token]>>, FixAt + 1)

EndLookaround ==
  LET caller == stack[Len(stack) - 1]
      node == Node("lookaround", <<result>>, Top.tag)
  IN /\ Returned("lookaround")
     /\ AddFix(Append(nodes, node), at, recursion + 1,
               SubSeq(stack, 1, Len(stack) - 2), caller, Top.from, caller.nots)

(***************************************************************************)
(* Groups.  The name of a capturing group is at most 32 ASCII letters and  *)
(* digits.                                                                 *)
(***************************************************************************)
MaxGroupName == 32
BytesIn(units) == Begins(units)[Len(units) + 1]
BadUnits(units) == {i \in DOMAIN units : units[i] \notin AsciiAlnum}
\* Mutant: the span of the character is one byte long.
NonAsciiNameMutant(token) ==
  LET bad == CHOOSE i \in BadUnits(token.units) : \A j \in BadUnits(token.units) : i <= j
      start == token.start + Begins(token.units)[bad]
  IN [kind |-> "NonAsciiIdentAfterColon", start |-> start, end |-> start + 1]

NonAsciiName(token) ==
  LET bad == CHOOSE i \in BadUnits(token.units) : \A j \in BadUnits(token.units) : i <= j
      start == token.start + Begins(token.units)[bad]
  IN [kind |-> "NonAsciiIdentAfterColon", start |-> start, end |-> start + BytesOf(token.units[bad])]

\* parse_group_kind: the kind with a name, and the token after it
GroupKind(o) ==
  LET name == tokens[o + 1] IN
  IF IsReserved(tokens, o, "atomic") THEN Found(o + 1, <<"Atomic", <<>>>>)
  ELSE IF ~Is(tokens, o, "Colon") THEN Found(o, <<"Normal", <<>>>>)
  ELSE IF name.token = "ReservedName" THEN Failed(o, ErrorAt("KeywordAfterColon", name))
  ELSE IF name.token # "Identifier" THEN Found(o + 1, <<"Capturing", <<>>>>)
  ELSE IF BadUnits(name.units) # {} THEN Failed(o, NonAsciiName(name))
  ELSE IF BytesIn(name.units) > MaxGroupName THEN Failed(o, ErrorAt("GroupNameTooLong", name))
  ELSE Found(o + 2, <<"Capturing", name.units>>)

IsGroup(o) == tokens[o].token \in {"Colon", "OpenParen"} \/ IsReserved(tokens, o, "atomic")

OpenGroup(kind) ==
  IF kind.is = "failed" THEN Fail(kind.error)
  ELSE IF ~Is(tokens, kind.at, "OpenParen") THEN Fail(ErrorAt("ExpectedOpenParen", tokens[kind.at]))
  ELSE CallModified("group", kind.value, kind.at + 1)

ParseGroup ==
  /\ Calling("or")
  /\ IsGroup(FixAt)
  /\ OpenGroup(GroupKind(FixAt))

\* parse_repeated: the atom, wrapped in the repetition that follows it
Repeated(ns, repetition) ==
  IF repetition.is # "found" THEN ns
  ELSE Append(ns, Node("repetition", <<Len(ns)>>, repetition.value))

AddRepeated(ns, repetition, left, frames, frame, from, nots) ==
  IF repetition.is = "failed" THEN Fail(repetition.error)
  ELSE AddFix(Repeated(ns, repetition), repetition.at, left, frames, frame, from, nots)

EndGroup ==
  LET caller == stack[Len(stack) - 1]
      group == Node("group", <<result>>, Top.tag)
  IN /\ Returned("group")
     /\ IF ~Is(tokens, at, "CloseParen")
        THEN Fail(ErrorAt("ExpectedParenOrExpression", tokens[at]))
        ELSE AddRepeated(Append(nodes, group), Repetition(tokens, at + 1), recursion + 1,
                         SubSeq(stack, 1, Len(stack) - 2), caller, Top.from, caller.nots)

AddAtom(atom) ==
  IF atom.is = "failed" THEN Fail(atom.error)
  ELSE AddRepeated(Append(nodes, atom.value), Repetition(tokens, atom.at), recursion,
                   Below, Top, at, FixAt - at)

AtAtom ==
  /\ Calling("or")
  /\ tokens[FixAt].token \notin DOMAIN LookaroundKind
  /\ ~IsGroup(FixAt)

ParseAtom ==
  /\ AtAtom
  /\ LeafAtom(tokens, FixAt).is # "absent"
  /\ AddAtom(LeafAtom(tokens, FixAt))

(***************************************************************************)
(* parse_sequence and parse_or, when no fix is left (NoFix)                *)
(***************************************************************************)
LoneNot ==
  /\ FixAt > at
  /\ Fail(ErrorAt("ExpectedExpression", tokens[FixAt]))

\* The sequence that just ended, as a tree and its rule
Sequence == IF Len(Top.fixes) = 1 THEN nodes ELSE Append(nodes, Node("sequence", Top.fixes, <<>>))
SequenceRule == IF Len(Top.fixes) = 1 THEN Top.fixes[1] ELSE Len(nodes) + 1

NextAlternative ==
  /\ FixAt = at
  /\ Top.fixes # <<>>
  /\ Is(tokens, at, "Pipe")
  /\ nodes' = Sequence
  /\ stack' = Replaced([Top EXCEPT !.items = Append(@, SequenceRule), !.fixes = <<>>])
  /\ at' = at + 1
  /\ UNCHANGED <<recursion, result>>
  /\ Going

LonePipe ==
  /\ FixAt = at
  /\ Top.fixes = <<>>
  /\ Top.items # <<>> \/ Top.from # 0
  /\ Fail(ErrorAt("LonePipe", tokens[IF Top.items # <<>> THEN at - 1 ELSE Top.from]))

\* Mutant: the level is not given back.
ReturnOrMutant(ns, n) ==
  /\ nodes' = ns
  /\ result' = n
  /\ stack' = Below
  /\ UNCHANGED <<at, recursion>>
  /\ Going

\* parse_or returns the rule n of the tree ns
ReturnOr(ns, n) ==
  /\ nodes' = ns
  /\ result' = n
  /\ stack' = Below
  /\ recursion' = recursion + 1
  /\ UNCHANGED at
  /\ Going

EmptyExpression ==
  /\ FixAt = at
  /\ Top.fixes = <<>> /\ Top.items = <<>> /\ Top.from = 0
  /\ ReturnOr(Append(nodes, Node("literal", <<>>, <<>>)), Len(nodes) + 1)

EndOr ==
  LET alternatives == Append(Top.items, SequenceRule) IN
  /\ FixAt = at
  /\ Top.fixes # <<>>
  /\ ~Is(tokens, at, "Pipe")
  /\ IF Len(alternatives) = 1 THEN ReturnOr(Sequence, SequenceRule)
     ELSE ReturnOr(Append(Sequence, Node("alternation", alternatives, <<>>)), Len(Sequence) + 1)

NoFix ==
  /\ AtAtom
  /\ LeafAtom(tokens, FixAt).is = "absent"
  /\ LoneNot \/ NextAlternative \/ LonePipe \/ EmptyExpression \/ EndOr

\* Mutants: the tokens that are left are ignored; they are parsed as another
\* expression.
EndParseMutant ==
  /\ stage = "parsing"
  /\ stack = <<>>
  /\ stage' = "parsed" /\ UNCHANGED <<lexVars, parseVars, errors>>
EndParseAgain ==
  /\ stage = "parsing"
  /\ stack = <<>>
  /\ IF Is(tokens, at, "EndOfInput")
     THEN stage' = "parsed" /\ UNCHANGED <<lexVars, parseVars, errors>>
     ELSE /\ stack' = <<Frame("modified", 0, <<>>)>> /\ nodes' = <<>> /\ result' = 0
          /\ UNCHANGED <<at, recursion>>
          /\ Going

\* parse() after parse_modified
EndParse ==
  /\ stage = "parsing"
  /\ stack = <<>>
  /\ IF Is(tokens, at, "EndOfInput")
     THEN stage' = "parsed" /\ UNCHANGED <<lexVars, parseVars, errors>>
     ELSE Fail(ErrorAt("LeftoverTokens", tokens[at]))

ParserStep ==
  \/ LexToken \/ EndLexing
  \/ ParseModeModifier \/ ParseLet \/ EndLet \/ ParseBody \/ EndModified
  \/ ParseLookaround \/ EndLookaround \/ ParseGroup \/ EndGroup \/ ParseAtom \/ NoFix
  \/ EndParse

\* parse() on its own; it has returned in the last three stages
Spec == Init /\ [][ParserStep]_parserVars
=============================================================================
