---------------------------- MODULE CharClasses ----------------------------
(***************************************************************************)
(* The compilation of character classes: CharClass::compile with the named *)
(* classes each flavor has, and the printing of a set with its escapes.    *)
(*                                                                         *)
(* A character is its code point.  A printed class is a list of symbols: a *)
(* character as it is ("raw"), an escape that means a character ("esc"), a *)
(* shorthand or a property; which of them carry a special meaning is for   *)
(* the regex engine to say.                                                *)
(***************************************************************************)
EXTENDS Integers, Sequences
LOCAL INSTANCE SequencesExt

\* An item that is a character, a range of them or a named class; `name` is
\* a sort of GroupName with what it names
CharOf(c) == [is |-> "char", first |-> c, last |-> c, name |-> <<"-", "-">>, negative |-> FALSE]
RangeOf(first, last) ==
  [is |-> "range", first |-> first, last |-> last, name |-> <<"-", "-">>, negative |-> FALSE]
Named(sort, of, negative) ==
  [is |-> "named", first |-> 0, last |-> 0, name |-> <<sort, of>>, negative |-> negative]
Shorthand(of, negative) == Named("shorthand", of, negative)

Ok(regex) == [error |-> "none", regex |-> regex]
Err(kind) == [error |-> kind, regex |-> <<>>]
Single(item) == Ok([is |-> "item", negative |-> FALSE, items |-> <<item>>])
Set(negative, items) == Ok([is |-> "set", negative |-> negative, items |-> items])

(***************************************************************************)
(* What a named class is written as                                        *)
(***************************************************************************)
WordItems ==
  <<Named("other", "Alphabetic", FALSE), Named("category", "Mark", FALSE),
    Named("category", "Decimal_Number", FALSE), Named("category", "Connector_Punctuation", FALSE)>>
HorizSpaceItems == <<CharOf(9), Named("category", "Space_Separator", FALSE)>>
VertSpaceItems == <<RangeOf(10, 13), CharOf(133), CharOf(8232), CharOf(8233)>>

IsSpaceName(name) == name \in {<<"shorthand", "HorizSpace">>, <<"shorthand", "VertSpace">>}

\* The error for a category, script, block or other property
PropertyError(sort, flavor) ==
  IF flavor = "Python" THEN "UnicodeProp"
  ELSE IF sort = "block" /\ flavor \notin {"DotNet", "Java", "Ruby"} THEN "UnicodeBlock"
  ELSE IF sort = "other" /\ flavor \notin {"JavaScript", "Rust"} THEN "UnicodeProp"
  ELSE "none"

\* named_class_to_regex: a named class on its own
NamedClass(name, negative, flavor) ==
  LET of == name[2]
      error == PropertyError(name[1], flavor)
      hasSpaces == flavor \in {"Pcre", "Java"}
  IN IF name[1] # "shorthand"
     THEN IF error # "none" THEN Err(error) ELSE Single(Named(name[1], of, negative))
     ELSE CASE of = "Word" /\ flavor = "JavaScript" -> Set(negative, WordItems)
            [] of = "Digit" /\ flavor = "JavaScript" ->
                 Single(Named("category", "Decimal_Number", negative))
            [] of \in {"HorizSpace", "VertSpace"} /\ hasSpaces ->
                 IF negative THEN Set(TRUE, <<Shorthand(of, FALSE)>>) ELSE Single(Shorthand(of, FALSE))
            [] of = "HorizSpace" /\ ~hasSpaces ->
                 IF flavor = "Python" THEN Err("UnicodeProp") ELSE Set(negative, HorizSpaceItems)
            [] of = "VertSpace" /\ ~hasSpaces -> Set(negative, VertSpaceItems)
            [] OTHER -> Single(Shorthand(of, negative))

\* named_class_to_regex_class_items: a named class among the items of a set
ClassItems(name, negative, flavor) ==
  LET of == name[2]
      error == PropertyError(name[1], flavor)
      hasSpaces == flavor \in {"Pcre", "Java"}
  IN IF name[1] # "shorthand"
     THEN IF error # "none" THEN Err(error) ELSE Ok(<<Named(name[1], of, negative)>>)
     ELSE CASE of = "Word" /\ flavor = "JavaScript" ->
                 IF negative THEN Err("NegativeShorthandW") ELSE Ok(WordItems)
            [] of = "Digit" /\ flavor = "JavaScript" ->
                 Ok(<<Named("category", "Decimal_Number", negative)>>)
            [] IsSpaceName(name) /\ negative -> Err("NegatedHorizVertSpace")
            [] of = "HorizSpace" /\ ~negative /\ ~hasSpaces ->
                 IF flavor = "Python" THEN Err("UnicodeProp") ELSE Ok(HorizSpaceItems)
            [] of = "VertSpace" /\ ~negative /\ ~hasSpaces -> Ok(VertSpaceItems)
            [] OTHER -> Ok(<<Shorthand(of, negative)>>)

(***************************************************************************)
(* CharClass::compile                                                      *)
(***************************************************************************)
Separator == <<"category", "Separator">>
SpaceName == <<"shorthand", "Space">>

\* check_char_class_empty: the item that `item` excludes from a negated class
Opposite(item) ==
  [item EXCEPT !.name = IF item.name = Separator THEN SpaceName ELSE item.name,
               !.negative = ~item.negative]

\* The state of the loop: the items of the source that are done, the named
\* ones of them, and what is written
Started == [error |-> "none", seen |-> {}, named |-> {}, items |-> <<>>]

AddItem(negative, flavor, acc, item) ==
  LET class == ClassItems(item.name, item.negative, flavor)
      done == [acc EXCEPT !.seen = @ \cup {item}]
  IN IF acc.error # "none" \/ item \in acc.seen THEN acc
     ELSE IF item.is # "named" THEN [done EXCEPT !.items = Append(@, item)]
     ELSE IF negative /\ Opposite(item) \in acc.named
     THEN [done EXCEPT !.error = "EmptyClassNegated"]
     ELSE IF class.error # "none" THEN [done EXCEPT !.error = class.error]
     ELSE [done EXCEPT !.items = @ \o class.regex,
                       !.named = IF negative THEN @ \cup {item} ELSE @]

CompileItems(items, negative, flavor) ==
  LET Step(acc, item) == AddItem(negative, flavor, acc, item)
      done == FoldLeft(Step, Started, items)
  IN IF done.error # "none" THEN Err(done.error) ELSE Set(negative, done.items)

CompileClass(items, negative, flavor) ==
  LET item == items[1] IN
  IF items = <<>> THEN Err("EmptyClass")
  ELSE IF Len(items) > 1 THEN CompileItems(items, negative, flavor)
  ELSE IF item.is = "named" THEN NamedClass(item.name, item.negative # negative, flavor)
  ELSE IF item.is = "char" /\ ~negative THEN Single(item)
  ELSE Set(negative, <<item>>)

(***************************************************************************)
(* RegexCharSet::codegen and the escapes of literal.rs                     *)
(***************************************************************************)
Raw(c) == <<"raw", c, FALSE>>
Esc(c) == <<"esc", c, FALSE>>

\* compile_char writes printable ASCII, and letters and digits of the Basic
\* Multilingual Plane, as they are
Alphanumeric == {170, 181, 186} \cup 192 .. 214 \cup 216 .. 246 \cup 248 .. 255 \cup 945 .. 969
IsPlain(c) == c \in 32 .. 126 \cup Alphanumeric

\* Mutant: a caret is never escaped.
SpecialInClassMutant(c, isFirst, flavor) ==
  c \in {92, 45, 91, 93} \/ (c \in {38, 124} /\ flavor # "JavaScript")

SpecialInClass(c, isFirst, flavor) ==
  \/ c \in {92, 45, 91, 93}                               \* \ - [ ]
  \/ c = 94 /\ isFirst                                    \* ^
  \/ c \in {38, 124} /\ flavor # "JavaScript"             \* & |
\* \ [ ] { } ( ) . + * ? | ^ $
SpecialOutside == {92, 91, 93, 123, 125, 40, 41, 46, 43, 42, 63, 124, 94, 36}

CharInClass(c, isFirst, flavor) ==
  IF SpecialInClass(c, isFirst, flavor) \/ ~IsPlain(c) THEN Esc(c) ELSE Raw(c)
CharOutside(c) == IF c \in SpecialOutside \/ ~IsPlain(c) THEN Esc(c) ELSE Raw(c)

PrintItem(item, isFirst, flavor) ==
  CASE item.is = "char" -> <<CharInClass(item.first, isFirst, flavor)>>
    [] item.is = "range" ->
         <<CharInClass(item.first, isFirst, flavor), Raw(45), CharInClass(item.last, FALSE, flavor)>>
    [] item.is = "named" -> <<<<"named", item.name, item.negative>>>>

PrintSet(set, flavor) ==
  LET printed == [i \in DOMAIN set.items |-> PrintItem(set.items[i], i = 1, flavor)] IN
  (IF set.negative THEN <<Raw(91), Raw(94)>> ELSE <<Raw(91)>>) \o FlattenSeq(printed) \o <<Raw(93)>>

PrintClass(regex, flavor) ==
  LET item == regex.items[1] IN
  IF regex.is = "set" THEN PrintSet(regex, flavor)
  ELSE IF item.is = "char" THEN <<CharOutside(item.first)>>
  ELSE PrintItem(item, TRUE, flavor)
=============================================================================
