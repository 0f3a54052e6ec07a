# A TLA+ model of Pomsky

Pomsky compiles a small language for regular expressions to the syntax of seven
regex flavors. This directory holds TLA+ models of the compiler, from the bytes of
the source to the printed regex, of the command line and the JavaScript bindings
around it, and of the concurrent harness that tests what it emits; the TLC
configurations that check them; and machine-checked proofs of their main
invariants. All paths below are
relative to the root of the repository.

    tlc -config compiler.cfg MCCompiler     # one run
    tlc -config command.cfg MCCommand       # the whole command
    tlapm CompilerScopes.tla                # one proof module

`PROJECT.json` lists, for every definition that models code, the lines it was
translated from, and for every checked property a change of the model, as a
plausible bug would make it, that violates the property.

## 1. Inventory

### The system

| Part | Source | State | Operations |
|---|---|---|---|
| compile core | `pomsky-lib/src/exprs`, `compile.rs` | `CompileState`: names and number of the groups, `next_idx`, variables, variables being expanded, quantifier, warnings | three passes over the tree: `validate`, `get_capturing_groups`, `compile` |
| optimizer | `pomsky-lib/src/regex/optimize.rs` | the regex tree, changed in place | `optimize`, `reduce_repetitions` |
| code generation | `pomsky-lib/src/regex/mod.rs`, `exprs/*.rs` | the output buffer | `codegen`, `needs_parens_*` |
| ranges | `pomsky-lib/src/exprs/range.rs` | none | `range`, `merge_and_optimize_alternatives`, the spelling of digits |
| character classes | `exprs/char_class.rs` (both crates), `literal.rs` | negation, the set being built | `negate`, `compile`, `check_char_class_empty`, escaping |
| lexer | `pomsky-syntax/src/lexer` | the offset in bytes | `tokenize` |
| parser | `pomsky-syntax/src/parse` | tokens, offset, recursion depth | recursive descent |
| diagnostics | `pomsky-lib/src/diagnose` | none | `from_parse_error`, `get_help` |
| options and features | `options.rs`, `features.rs` | a bit set | `require`, `supports` |
| command line | `pomsky-bin/src` | arguments, enabled warnings, numbers of diagnostics | `parse_args`, `compile`, printing, exit status |
| wasm bindings | `pomsky-wasm` | none | `compile`, `convert_diagnostic` |
| test harness | `regex-test/src/async` and the children in `java`, `js`, `python` | per engine a child, its pipes, a mutex, a count | `start`, `test`, `kill`, counts |
| integration tests | `pomsky-lib/tests/it` | tasks and their results; the test files | warm up, spawn, await, report; judge and bless a file |
| threaded harness | `regex-test/src/sync` | as above, with one caller | used by the command `regex-test` and a fuzz target |
| macro, fuzz targets, benchmark, help texts | `pomsky-macro`, ... | none | wrappers |

`Expr::compile` runs the passes one after the other over the tree of the parser.
The passes interact only through `CompileState`: the second one numbers the
groups, the third one must visit them in the same order, and everything that it
pushes (a variable, an expansion, a quantifier) has to be undone in order. The
tree it builds is optimized, which must not remove a group that has been
numbered, and printed. In front of it the lexer and the parser turn bytes into
tokens and tokens into the tree; the command and the bindings call both and
report what they return: as text, as JSON, as an exit status, or as JavaScript
objects. The harness is the one concurrent part: eight worker
threads run one task per test case, the tasks share a child process per engine
behind a mutex, and they talk to it by lines through pipes.

### What makes it hard, and what has to hold

- **Two passes number the same groups.** Groups must reach the regex in source
  order, every reference must denote the group it denotes in the source, and the
  rule of a `let`, compiled once per use, must not contain any
  (`GroupsInSourceOrder`, `ReferencesDenote`, `NoForwardReferences`,
  `RubyNamesOrNumbers`).
- **Variables are a stack that is searched by name, and their expansion recurses
  outside the parser's limit.** The pop of a `let` removes its own binding, an
  index never outlives its binding, names resolve to the innermost binding, and
  expansion ends (`PopMatchesPush`, `ExpansionsTracked`, `LexicalResolution`,
  `AcyclicNeverRecursive`, `Terminates`).
- **Settings are restored by hand** (`QuantifierScoping`), and **options are checked in two
  passes and at points of use** (`OptionsRespectedOutsideLookarounds`, `FlavorRespected`).
- **The optimizer changes the tree after its groups were numbered, and prints
  parentheses only on demand** (`OptimizePreserves`, `CodegenFaithful`,
  `CapturesKept`).
- **Answers are matched to requests by order alone**, tasks panic with a mutex
  held, children die, the check for a child and its use are two critical
  sections, and a blank line is never answered (`PipesBelongToHolder`,
  `OwnVerdict`, `NeverWithoutChild`, `DriverExits`, `CallsReturn`).
- **All results are folded into one byte** (`StatusTellsTruth`, `CountsExact`).
- **The lexer counts bytes by hand and everything later slices the source with
  its counts** (`TokensTile`, `ErrorsHavePlaces`, `RangesDenote`,
  `PanicsExactlyInEscapes`).
- **The parser pairs its recursion counter by hand, on every path, and backtracks
  nowhere** (`RecursionBalanced`, `NestingBounded`, `TreeIsParse`), and the passes
  after it rely on its tree (`ProgramWellFormed`).
- **Named classes, negation and escapes differ between flavors, and a range
  becomes a regex by a recursion over the digits of both bounds**
  (`ClassFaithful`, `NoOpposites`, `RangeExact`).
- **Warnings are filtered by arguments that add up, in two places, and counted
  against a limit; an error has to reach both the output and the status**
  (`WarningsAddUp`, `WarningsReported`, `StatusTellsOutcome`, `Exits`).
- **The test driver rewrites the files it reads, and may die while doing so**
  (`BlessedStays`, `PurposeKept`).

The complete list, at the lines where each hazard bites, is under `hazards` in
`PROJECT.json`.

## 2. Modules

### Compiler

- **`Ast`** - the source program as the parser delivers it: nodes numbered in
  source order, with a label (kind, name, number), kids, and the last node of
  each subtree. `WellFormed` is what the parser guarantees. `Rank` and `Denotes`
  say, without any pass, which number a group has and which group a reference
  means.
- **`Compiler`** - `Expr::compile` up to the built regex. The native call stack
  is the variable `work`, a list of calls still to make and of what is left to do
  after a call returns (`Build`, `Unbind`, `Unexpand`, `Restore`); one action is
  one visit or one return. The variables carry the names of the code: `count`,
  `used_names`, `next_idx`, `default_quantifier`, `variables`, `current_vars`,
  `diagnostics`. The regex is the list `out` of its tokens in the order they will
  be printed; `vals` holds what `is_assertion` and `result_is_empty` say of the
  finished parts. Every early return is an action that goes through `Fail`.
- **`CompilerSafety`** - the type invariant and the properties, stated over the
  source program and the tokens.
- **`ProgramGrammar`** - all programs up to a size, by the nonterminals of
  `parser_impl.rs`; used by `MCCompiler` and `MCOptions`.
- **`CompilerOrder`** (types, the numbering, references, Ruby's names and the
  options) and **`CompilerScopes`** (scopes, resolution and quantifiers) -
  proofs, the second on top of the first.

### Optimizer and printer

- **`Repetitions`** - bounds of repetitions, `reduce_repetitions`, and how often
  a repetition of a repetition really matches its content.
- **`Emitter`** - the end of `Expr::compile`: a tree is optimized (every arm of
  `Regex::optimize`, with its count), then printed as tokens, with the decisions
  about parentheses of `needs_parens_in_sequence` and
  `needs_parens_before_repetition`, or not printed at all.
- **`EmitterSafety`** - two definitions of meaning that know nothing of the code:
  `Matches` for trees and `Parsed` for printed tokens, each the sequence of the
  matched words in the order a backtracking engine tries them.
  `Emitter` also has the refusal of repeated assertions for Ruby, which looks at a
  tree before it is optimized.
- **`RepetitionProofs`** - proofs. `Emitter` and `EmitterSafety` have RECURSIVE
  operators and are for TLC only; `Repetitions` has none.

### From the source to the exit status

- **`Lexer`** - `tokenize`: the source is a sequence of units, each with its
  length in bytes; an offset is a number of bytes, and `begin` gives the bytes at
  which units begin. Every token and every lexer error is there, with the
  arithmetic the code does on offsets.
- **`Atoms`** - the parts of the parser that never recurse: numbers of a given
  width, code points, quoted text, ranges, references, character sets and the
  items in them, each with its errors and their spans.
- **`Parser`** - the functions that recurse, as a machine with a stack of frames
  (`parse_or`, `parse_modified` and so on), `result` as the value the last one
  returned, `at` and `offset` as the position and the end of the last token, and
  `recursion` as the levels that are left. One action is one call or one return.
- **`ParserSafety`** - types and properties of both; **`ParserProofs`** - proofs.
- **`RangeCompiler`** - `range` with every branch of its recursion, the merging of
  alternatives, and the characters of a class of digits. A debug assertion that
  fails and a subtraction below zero are a value of their own.
- **`CharClasses`** - character sets: negation, the named classes of every flavor,
  the check for empty sets, and which characters are escaped.
- **`Diagnostics`** - how an error becomes a diagnostic: its place, and what the
  help for an invalid escape makes of it. Slicing the source inside a character
  is a panic.
- **`Cli`** - the arguments and the filters: the options that may be given once,
  the sets of warnings, and the lists of printed lines with their limit.
- **`Command`** - `main` of `pomsky-bin`: arguments, the choice of the input,
  parsing by the actions of `Parser`, compiling by the actions of `Compiler` on
  the program that the tree stands for, printing and exit. It composes all modules above.
- **`CommandSafety`**, **`CommandMeaning`** - properties. The second defines the
  meaning of character sets and ranges, in the source and in the regex, by the
  characters or the words they match. **`CommandProofs`** - proofs.
- **`Bindings`** - `compile` of `pomsky-wasm`, with `Parser` and `Diagnostics`: the
  ranges JavaScript gets are in UTF-16 code units. The compiler in it is any that
  returns one diagnostic about whole tokens, or none. **`BindingsProofs`** - proofs.
- **`Alphabet`** - the units that `MCCommand` and `MCBindings` build texts from.

### Harness

- **`RegexTest`** - the pool: for each engine ("service") its child (`slot`), the
  two pipes (`stdin`, `stdout`), the mutex (`holder`) and the count; the steps of
  a call between two awaits (`Call`, `Start`, `Acquire`, `Write`, `Read`,
  `Panic`), the loop of a child (`Answer`) and its death (`Die`). A line is a
  valid regex, an invalid one or a blank one, and a regex is a sequence of lines.
- **`IntegrationTest`** - the driver, composed with the pool: warm up, reset the
  counts, spawn a task per test, await them in order, exit.
- **`TestSuite`** - the abstract specification: each test is judged by its own
  regex alone, or lost if its engine died or the compiler panicked, and the
  status is zero iff all have passed.
- **`IntegrationSafety`** - type invariant, properties and the refinement mapping
  from `IntegrationTest` to `TestSuite`. **`IntegrationProofs`** - proofs of all of
  them.
- **`TestFiles`** - one test file over many runs of the driver: `test_file` with
  the options in the file (`Options::parse`, `process_content`), the comparison
  of the result, and `create_content`, by which `--bless` rewrites the file. A run
  may die anywhere, also between the emptying of the file and the writing, and
  between runs the compiler may change. `MCTestFiles` has the files.
  **`TestFilesProofs`** - proofs.

## 3. What is checked

| Run | What it shows | States |
|---|---|---|
| `compiler` | groups and references agree between the passes, the source and the emitted regex; no forbidden reference for JavaScript; Ruby's names and numbers; scopes, resolution, modes; every compilation ends | 18 180 programs: all of up to 5 nodes over groups, the four sorts of reference, `let` and lookahead, of up to 6 over fewer leaves, of up to 7 over two names with `let`, one of them that of a built-in, and of up to 5 over modes and quantifiers; three flavors; 993 000 states |
| `compiler_options` | types; nothing the options forbid is emitted outside of lookarounds | all programs of up to 3 nodes over every kind of expression; all features, or all but one; three flavors; 1 094 000 states |
| `integration` | pipes, verdicts, counts, status, the refinement of `TestSuite`, and that the driver exits | 3 tests with regexes of one line, 2 children, at most one death; 419 000 states |
| `emitter` | optimizing and printing preserve the language, its order of preference and the groups | 17 000 trees, two flavors; 102 000 states |
| `command` | tokens, places, the tree, recursion, character sets, ranges, warnings, output and status, and that every call ends | 21 312 calls; 363 000 states |
| `bindings` | the ranges that JavaScript gets denote the characters the diagnostic is about, and which calls panic | 2 769 texts, three flavors; 55 000 states |
| `test_files` | blessing keeps what a test is about, and no later run finds the result incorrect until the compiler changes | 1 086 files, two versions of the compiler; 113 000 states |
| `lookaround_options` | violated: see below | |
| `blank_regex` | violated: see below | 2 tests, also with blank lines and regexes of two lines |
| `emitter_reductions` | violated: see below | |
| `ruby_assertions` | violated: see below | assertions next to parts that may be empty |
| `empty_class` | violated: see below | the sets of run `command` |

**Why the bounds are enough.** Six nodes hold a let whose rule has a group or a
reference, a named and an unnamed group and a reference in either direction,
which are the ingredients of the hazards listed for the numbering. Seven nodes hold three
nested lets with shadowing, mutual recursion and a use after the scope. In the
harness one child is shared by up to three tasks and the warm-up, so that two
wait while one panics; each engine behaves alike, except that Java's reads
words, so two suffice. What a blank line does to Java's child is the subject of
run `blank_regex` and left out of `integration`, whose properties it would break. Trees of the emitter are up to four levels deep: a
quantifier, a group, a quantifier, a leaf, with an empty part anywhere; words of
five symbols tell all the bounds that occur apart. `MaxCount` is the width of
the bounds; no product in a run comes near it.

The texts of `command` are chosen by what they exercise: all lists of up to five
parentheses, bars, lookaheads and literals; of up to three of eleven kinds of
tokens and clauses; repetitions and their suffixes; blocks of two statements; sets of up to two items and their
negations, in all seven flavors; ranges of all pairs of bounds of up to four
digits in base 2, and shorter ones in bases 3 and 36; references before and after
groups; all lists of up to four quotes, backslashes, comment signs and characters
of two and four bytes; beginnings of regex syntax; code points; signs; and nests
as deep as the limit and deeper. The calls vary arguments over one text with
three warnings: all lists of up to two arguments, and lists of two that follow an input
and a flavor; and they vary where the input and the output are.
Hazards of the parser need two or three tokens, the limit of the recursion is
met at four levels, and a range recursion meets every branch with bounds of two digits
in base 3, while four digits in base 2 let alternatives be merged twice.

**Scaled limits.** `Limit = 4` stands for the 256 levels of recursion; it is even
as 256 is, because with an even limit a nest of groups is refused by `parse_or`
and with an odd one by `parse_group`. `MaxPrinted = 2` stands for 8 diagnostics,
`MaxRangeSize = 3` for 12 digits, `MaxOffset = 70000` for the width of an
offset; `Numerals` has a numeral above 65535, the limit that has its real value.

**Texts as units.** A unit is one character, or a run of characters that no rule
of the lexer takes apart: a keyword, a numeral, a name. Units have their real
length in bytes, and spans are computed as in the code. What a unit is to the
lexer (a letter, a blank, a hexadecimal digit) are constants.

**Carve-outs.** Each is visible in the property it belongs to. `NestingBounded`
does not count statements, since the code does not bound them. `ClassFaithful`
leaves out two tildes that meet in a set for Rust, where they would be an
operator and are not escaped: `['~' '~'-'}']` prints `[~~-}]`. `RangeExact` leaves
out bounds of different lengths with leading zeros, for which the source
documents no meaning. `LexicalResolution` says what a name in the rule of a let
resolves to only if a let around it binds the name, no let binds a name again, and it
is not the name of a built-in: the code searches the bindings that exist where the
rule is used. In `let Start = a; let a = Start; Start` the `Start` in the rule of
`a` is the built-in, because the let around it is being expanded. `QuantifierScoping` leaves out
repetitions in the rules of lets, which get the quantifier of the place of use. `BlessedStays` and `PurposeKept` leave out programs that
begin with `#!` or dashes, which are read differently once other options stand
before them, and files that are torn because a run died while it wrote. (A torn file is
empty, and an empty program compiles to an empty regex: the test passes from then on.) A test file
is not edited during a run.

**Bounds and abstractions.** `MaxReference` is 99, or 3 where options are varied; `MaxRangeSize` for
`max_range_size`, `MaxDeaths` limits how many children die, `StatusModulus` is
256, `MaxLength` cuts words off. The mutex of the runtime is modelled without
its queue: any waiting task may get it. Pipes have no capacity, since a request
is shorter than the buffer of a pipe and at most one is in flight. A child is
killed only at the exit. Tests that need no engine (ignored, wrong output,
compiler panic) are three outcomes of one action. An offset that wraps around in
`next_idx + offset` is refused like the sum that it would be; a debug build
panics instead.

**Meaning of languages.** Groups other than plain parentheses mark the words of
their content, so that captures, atomic groups and lookarounds are compared by
what they contain and where they stand. An optional round has to match
something. An inline `regex` is verbatim text: the trees contain it only where
its parent sees to the parentheses. Sequences of it next to other text are
printed without any, by design.

**Fairness.** The compiler is one thread: weak fairness of its next step. In the
harness, the runtime polls every task that can go on (weak fairness per task),
and a child that is alive reads its input (weak fairness per child). Nothing
makes a child die. No strong fairness is needed, as every task takes the mutex
a bounded number of times. The command is one thread as well; its fairness is
written `[]<>(doing = "exited") \/ []<><<CommandNext>>_commandVars`, which is weak
fairness of the next step, as a step is possible until the command has exited.
The test files and the bindings have safety properties only.

**What the runs found.**

- `lookaround_options`: `Lookaround::validate` does not validate its rule, so an
  atomic group in a lookahead reaches JavaScript; `options.rs:9` promises a
  compatible regex.
- `blank_regex`: Java's child waits for a word (`hasNext`), so a regex of blanks
  is never answered and the run of the tests hangs.
- `emitter_reductions`: `('a'{2,})*` is optimized to `a*`, which matches a
  single `a`. By theorem `ReductionUnsound` the same kind of error affects
  `('a'*){0}` and `('a'{0})*`, and no other kinds of bounds that fit their type.
- `ruby_assertions`: Ruby refuses a repeated assertion, and `Repetition::compile`
  refuses it too, but looks at the content before it is optimized: `(''? %)+`
  becomes `(?:\b)+`.
- `empty_class`: `check_char_class_empty` renames `Separator` to `Space` before it
  looks for the opposite, so `![Z !Z]`, which matches nothing, compiles, and
  `![!s Z]` is refused although it is not empty.

Smaller observations, which have no run of their own. `('a'{2,} lazy)+ lazy` tries
two, then four letters, where the optimized `a{2,}?` tries two, then three: the
matched words are the same, the preferred ones are not. `-W0` makes the parts of a
later `-W` pass unread. On a failed compilation the text output drops the warnings
that came before it. `::1 '0'` prints `\10`. For .NET, characters beyond the Basic
Multilingual Plane are written as `\u{...}`. Only references by number are checked
against the limit of 99 that `RegexReference::codegen` asserts
(`reference.rs:133`): in a debug build, a reference by name or offset to the 100th
group fails the assertion. The place of an invalid escape is narrowed to two bytes,
which end inside a character that has several, so that `"\é"` panics in the
bindings; `PanicsExactlyInEscapes` says that this is the only way. `--bless`
does not write the option `compile`, so that a test with `compile=false` whose
regex the engine refuses fails in the run after it has been blessed.

## 4. What is proved

TLAPS proves the following for all values of the constants that satisfy these
assumptions, which TLC evaluates in the runs:

| Assumption | Says | Justified by |
|---|---|---|
| `ProgramsAssumption` | the programs are well formed | what the parser builds is: `CommandCompilesWhole` proves it |
| `RangeSizeAssumption` | `MaxRangeSize` is a natural number | a `u8` |
| `MaxCountAssumption` | the greatest bound of a repetition is at least 2 | a `u32` |
| `BytesAssumption` | units have at least one byte, and those of punctuation one | UTF-8; the lexer names only ASCII characters |
| `Utf16Assumption` | a unit of several bytes has a natural number of UTF-16 code units | |
| `LimitAssumption` | `Limit` is a natural number | a `u32` |
| `MaxPrintedAssumption` | at least one diagnostic may be printed | the constant 8 |
| `CallsAssumption` | the arguments of a call are arguments | |
| `DriverAssumption` | test names are distinct, and the services are those of the driver | the driver |
| `FilesAssumption` | a file is a sequence of lines, and not empty | a saved file; `torn` is the empty one |
| `CompilerAssumption` | the compiler of `TestFiles` returns lines | |

### The compiler

- **`TypeInvariant`** (`CompilerOrder`). `TypeOK` is inductive by itself: the
  frames in `work` only hold nodes of the program or of the built-in rules.
- **`CompiledInOrder`**, **`GroupsKeepOrder`** (`CompilerOrder`). Both passes walk
  the tree by frames on `work`. `Open` is the set of nodes that a frame has yet to
  visit: its subtree, and in the pass `compile` what is not in the rule of a let.
  `InOrder` says that frames higher on the stack have smaller nodes to visit and
  that all nodes that are not pending come before all that are. An action replaces
  the top frame by frames for the rest of its nodes (`Walks`), which keeps
  `InOrder` (lemma `Walk`). Hence `count` is the number of groups that are not pending
  in the second pass, the names have the numbers of the source (`CountInv`), and in the
  third pass `next_idx` is one more than the number of groups emitted, which are
  those that are not pending (`OrderInv`).
- **`ReferencesResolve`**, **`ReferencesBackward`**, **`RubyConsistent`**
  (`CompilerOrder`). When a reference is compiled, the groups emitted are the ones
  before it in the source, so that `next_idx` plus an offset, a number or a name
  is the group that it denotes. `TokensInv` states this of all tokens in `out`; tokens
  are only appended, so the earlier ones keep their numbers (lemma `Appended`).
- **`OptionsRespected`** (`CompilerOrder`). While the first pass runs, a node is
  admitted by the options, or lies in a lookaround, or is in the subtree of a frame
  that is still to be validated; built-in rules are only compiled after the check at their
  use (`AdmitInv`).
- **`ScopeInvariant`**, **`PopMatchesPushHolds`**, **`ExpansionsTrackedHolds`**
  (`CompilerScopes`). That a pop removes the right binding does not follow from
  the state of `variables`; it follows from the frames that are still to be
  executed. `ScopeInv` relates the two: the `unbind` frames on `work` hold, from
  the bottom up, exactly the indices above the built-ins, the `unexpand` frames
  hold exactly `current_vars`, none twice, and a variable whose expansion began
  before a let statement was entered has a smaller index than the binding of that
  statement. Each action that pushes or pops one of these frames pushes or pops
  the state that belongs to it, and `Fail` drops all frames.
- **`QuantifiersScoped`** (`CompilerScopes`). The quantifier that will be in force when a
  frame is reached is the one in the lowest `restore` frame above it, or
  `default_quantifier` if there is none. For the frame of a node outside of the rules of
  lets, this is the quantifier of the innermost mode statement around the node (`QuantInv`).
- **`ScopesFollowSource`**, **`NamesResolve`**, **`RecursionIsReal`**
  (`CompilerScopes`). At a node outside of the rules of lets, the `unbind` frames are those of the let
  statements around it, the inner ones later (`LetsInv`); the last binding with a name
  is therefore the innermost (`ResolvedInv`). In the rule of a let, a name that a let around the
  use binds has only one binding to resolve to if no name is bound twice and it is not that of a
  built-in; `NamesResolve` says nothing of other names there. In `let x='a'; let y=x; (let x='b'; y)`
  the `x` in the rule of `y` is `'b'`, the binding of the place where `y` is used. If depths can be given to the names such that rules only mention
  names of lesser depth, every name below a running expansion
  has a lesser depth than the expanded one (`ExpandedInv`), so that no variable is met while
  it is being expanded.

### The optimizer

- **`ReductionSound`**, **`ReductionUnsound`** (`RepetitionProofs`). For all
  bounds, `reduce_repetitions` is exact where `Sound` holds and the products fit,
  and wrong where it does not hold. The proof goes by the arms: where one side is
  endless, bounded by bounded, endless by endless, each with the number of rounds
  that witnesses a match.

### The lexer, the parser and the command

- **`TokensTileHolds`** (`ParserProofs`), **`CommandTokensTile`**. For every text,
  the lexer never slices inside a character, and its tokens with the blanks and
  comments between them are the text. Every rule of the lexer that matches at a unit ends
  at a later unit: for the rules that are recursive functions (quotes, comments)
  the function exists by a descending induction over the text (lemma `Search`), and so does
  what it returns (`FindQuoteMatch`, `FindUnescapedQuoteMatch`). Since positions increase, the
  byte at which a unit begins tells the unit (`UnitFound`), so that the offset, which is only ever
  a sum of lengths in bytes, is the beginning of the unit at which the lexer continues (`TilesInv`).
- **`RecursionBalancedHolds`** (`ParserProofs`), **`CommandRecursionBalanced`**.
  The counter and the stack of
  frames add up to the limit, and the stack is at most twice as deep as the limit
  and two more: for every text and every limit. The second part does not follow
  from the first, because frames of `parse_modified` and of `parse_let` take no
  level. The invariant `LevelsInv` says that the lowest frame is one of
  `parse_modified`, and that the frame at height `k` has at least half of
  `k - Slack` levels at or below it, where `Slack` is what its function may be ahead: two
  for a let, one for `parse_modified` and `parse_or`, none for a group. A frame is
  pushed only on what may call it (`MayCall`). Each action of the parser pushes,
  replaces or pops the top frame, and the lemmas on stacks say what this does to
  the count.
- **`ErrorsHavePlacesHolds`** (`ParserProofs`), **`CommandErrorsHavePlaces`**. For
  every text and every `Limit` but 0 (the code passes 256; without any level even the empty text
  would be refused), a refused text has an error, and every error is about
  characters of the text or about its end. Tokens are in order and none but the last is empty
  (`TokensInOrder`), so that a row of tokens is a place (`TokenSpan`,
  `PlacedHasPlace`). Each function of `Atoms` ends further on, finds
  nothing, or reports an error about a row of tokens; none reads past the
  last token, because nothing but the end of the parser accepts `EndOfInput` (`Outcome`). `PlacesInv`
  adds that the frames and let nodes, which errors are reported about later, refer to tokens that exist, and
  `EmptyInv` follows the empty text to its empty expression.
- **`NestingBoundedHolds`** (`ParserProofs`), **`CommandNestingBounded`**. For every
  text and every `Limit`, the finished tree is at most twice as deep as the limit
  allows, and a little more, where a list of statements counts as one node. The
  depth of a node is never computed by the parser, so `DepthInv` says that a number
  can be given to each node built so far, greater than those of its kids, and that the
  numbers of what a frame has collected are bounded by the levels that were left when
  the frame was pushed (`Left`): two for each level, and two for what `parse_or` itself
  may wrap around them (`FrameDeep`). A node that is built gets one more than its kids. `RuleInv`
  adds that a rule has been returned when the parser ends.
- **`RangesDenoteHolds`** (`BindingsProofs`). The range in UTF-16 code units that
  JavaScript gets for a diagnostic denotes the characters that its range in bytes
  denotes. Both are sums over the same units, and a range that the parser reports begins and ends at units
  (`ErrorsHavePlacesHolds`).
- **`PanicsExactlyInEscapesHolds`** (`BindingsProofs`). For every text and every `Limit` but
  0, a call of the bindings panics exactly if its first error is an invalid escape whose narrowed place ends
  inside a character. The place is sliced again by the functions that look for a help, so
  the invariant on places is stronger than `ErrorsHavePlaces`: it says of each kind of error
  that has a help what the tokens at its place are (`Helps`), for example that the
  token a dash is looked for in is a dash of one byte.
- The first four hold in the command as well, since every step of it is a step of the parser or leaves
  its variables alone (lemma `ParserRuns`).
- **`CommandTypes`** (`CommandProofs`). For all arguments and texts and every `Limit` but 0, the command
  exits with 0, 1, 2 or 3 and never with a panic: the parser does not get to `panicked`, and no
  error makes `from_parse_error` slice inside a character (`NoParsePanic`, from `Helps`). The options
  stay what the flags allow, because each argument is refused before its value is used
  (`ArgsInv`), and the parser's place stays within the tokens (`PositionInv`).
- **`CommandCompilesWhole`** (`CommandProofs`). For all arguments, texts and limits, what the
  command compiles is the whole source, and its tree is well-formed: numbered in the order of the
  source, with the subtree of each node being a run of numbers that its kids divide among them, and
  with the kids, names, numbers and kinds that the compiler relies on, so that
  `ProgramsAssumption` holds of every program that the parser hands over. The parser numbers
  its nodes from the leaves up, and shares none. `TreeInv` says that a function `F` gives each node the
  first node of its subtree, so that the subtree of `n` is within `F[n] .. n`; that the nodes which the
  frames have collected, from the bottom of the stack to the top, followed by what has been
  returned, are in order and apart (`Row`, `Fits`); and that a node holds what its kind needs, a
  let its rule, a leaf no kid, a reference its name (`Shape`). Each action takes the nodes at the end of that
  row away, or puts a new one over them. When the parser ends, the
  tree is listed parents first: the list of a subtree has each node once, and has the subtree of each of
  its nodes as a run of it (`SubtreesSpread`, by the well-foundedness of the numbers of nodes), which
  is what numbering it again comes to (`ProgramFits`). That no token is left is
  known when the parser ends, and `CompileInv` keeps it. The theorem has a hypothesis, `NamesKnown`: the constant
  `Names`, which stands for all strings, has the identifiers of the texts that are accepted. The
  names in `MCCommand` are chosen so (as an invariant of `command.cfg`, `NamesKnown` holds), and were one
  missing that a node has, the run would show `ProgramWellFormed` violated.
- **`WarningsAddUpHolds`** (`CommandProofs`). For any number of arguments, a kind
  of warnings is enabled as long as no argument read so far has disabled it.
  `WarningsInv` says that the set is that of all the arguments read. A
  list of parts is accepted only if none is refused, and the code stops at the
  first refused one, which exists by the well-foundedness of the natural numbers.
- **`StatusTellsOutcomeHolds`**, **`WarningsReportedHolds`** (`CommandProofs`). The
  exit status, stdout, stderr and the JSON object agree. Until the process ends, stderr has
  nothing but notices about unknown features, a text that the parser refuses has
  at least one error (`ErrorsInv`), and the warnings of the compiler only become
  more (`OutputInv`); each way of leaving then prints what
  the two properties demand. Of the warnings printed as text, `FirstOnes` counts the lines.

### The harness

- **`HarnessTypes`**, **`HarnessInvariant`**, **`PipesBelongToHolderHolds`**,
  **`OwnVerdictHolds`**, **`NeverWithoutChildHolds`** (`IntegrationProofs`). The
  invariant `HarnessInv` says who holds a mutex (exactly the client whose
  program counter is between lock and release), what the pipes of a child hold
  in each phase of its holder (nothing, the holder's own line, or the answer to
  it), that nothing waits in the input of a child that is not alive, and which
  tasks the driver has spawned and awaited. A task panics either before it has
  written, or when its child is dead and its output read to the end, and in both
  cases the pipes are empty when the mutex is released. The invariant assumes
  one-line regexes (`Single`), as the first two properties do;
  `NeverWithoutChild` is proved without that.
- **`CountsExactHolds`** (`IntegrationProofs`). From the reset of its count on, and
  while no test has panicked, the count of an engine is the number of the tests that
  have come past the increment. No call of the warm-up is then under
  way (`Warm`), and no test is spawned before the last count is reset (`CountInv`).
- **`StatusTellsTruthHolds`**, **`ImplementsSuiteHolds`**
  (`IntegrationProofs`). The first holds whatever the regexes are, the
  second is the refinement: every step of the driver, a task or a child maps to
  a step of `TestSuite` or to a stutter, given `Single` and fewer tests than
  exit statuses (`Small`); with 256 failing tests the status is zero, so `Small`
  cannot be dropped.
- **`PurposeKeptHolds`**, **`BlessedStaysHolds`** (`TestFilesProofs`). For all
  files, compilers and engines. The core is a round trip: what `create_content`
  writes of a program and its options, `process_content` reads back (`RoundTrip`,
  `WrittenRead`), because each key is written at most once, defaults are read
  where nothing is written, and a program that was read has no line of dashes in
  it. `TestInv` then says at each stage of a run that what has been read, and what is on the
  disk, has the purpose of the saved file, and that what a blessed file expects is what the compiler
  returns. That the engine accepts the regex is not said: blessing does not ask it, and
  `create_content` drops `compile=false`. Both leave out what `Plain` and `torn` do (see the carve-outs).

### How induction is done

The library's induction theorems take an operator as a parameter and cannot be
used. Induction is done by a least counterexample instead (`Least`, `Downwards`), for
one property at a time. `@@` and `:>` cannot be expanded by the prover, so that the tables of
the lexer are functions made from a list of pairs (`Table`).

### Only model-checked

- Liveness and anything with ENABLED: `Terminates`, `DriverExits`, `CallsReturn`, `Exits`.
- `OptimizePreserves`, `CodegenFaithful`, `CapturesKept`: `Emitter` and the meaning of
  trees are RECURSIVE operators, with which the prover has no SMT backend.
- `ClassFaithful`, `RangeExact`, `FlavorRespected`: the meaning of sets and ranges is
  defined by recursion over their parts.
- `TreeIsParse`: it relates the finished tree to the text by recursive functions on
  trees; a proof would need an invariant that says of all the values that wait on the parser's stack
  which derivation of the grammar they are part of.

## 5. Plan

Compiler, optimizer, harness, lexer, parser, ranges, character sets, diagnostics,
command, bindings and test files are done, as described above. What is left, in this order:

1. **Proofs** - `TreeIsParse`, from an invariant like `TreeInv` that carries a derivation in
   `ProgramGrammar` instead of the row of nodes.
2. **From the compiler to the emitter** - one run that prints what the compiler
   builds from a parsed source: digits after a reference (`::1 '0'`) and inline
   regexes repeated exactly once (`regex 'a|b'{1} 'b'`).
3. **`fuzz_ranges`** - the enumeration of ranges in the test driver; its loop has
   no end, so that its result is never printed.

## 6. Not modelled, and why

The wording and layout of diagnostics (with what the library miette makes of a place that ends
inside a character, when the command prints it), the spans of compile errors, the debug printers and
the help texts are formatting. The Unicode tables are generated data. The macro,
the fuzz targets and the benchmark wrap the compile core; the macro depends on
the compiler's own interface. The threaded harness has a single caller at a time
and the same children. Of the integration tests, the walk over directories, the
printed report and `fuzz_ranges` are left out. How a flavor spells an escaped
character is abstracted: a symbol says which character it is and whether it is
escaped. Limits that regex engines put on repetition counts are not modelled: a
combined bound may exceed the 65535 that the parser admits.
