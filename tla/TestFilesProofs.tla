-------------------------- MODULE TestFilesProofs --------------------------
(***************************************************************************)
(* Proofs about blessing, for all files, compilers and engines: what a run *)
(* writes is read back as the same test.                                   *)
(***************************************************************************)
EXTENDS TestFiles, SequenceTheorems, WellFoundedInduction, TLAPS

-----------------------------------------------------------------------------
(***************************************************************************)
(* Options                                                                 *)
(***************************************************************************)
LEMMA Least ==
  ASSUME NEW S, S \subseteq Nat, S # {}
  PROVE  Min(S) \in S /\ \A x \in S : Min(S) <= x
<1>1. PICK x \in S : \A y \in S : <<y, x>> \notin OpToRel(<, Nat)
  BY WFMin, NatLessThanWellFounded, Zenon
<1>2. \A y \in S : ~(y < x)
  BY <1>1, Zenon DEF OpToRel
<1>3. \A y \in S : x <= y
  BY <1>2
<1> QED
  BY <1>3 DEF Min

LEMMA Greatest ==
  ASSUME NEW n \in Nat, NEW S, S \subseteq 1 .. n, S # {}
  PROVE  Max(S) \in S
<1> DEFINE bounds == {k \in Nat : \A x \in S : x <= k}
<1>1. n \in bounds
  OBVIOUS
<1>2. Min(bounds) \in bounds /\ \A k \in bounds : Min(bounds) <= k
  <2>1. bounds \subseteq Nat /\ bounds # {}
    BY <1>1
  <2> HIDE DEF bounds
  <2> QED
    BY <2>1, Least
<1>3. PICK k \in Nat : (\A x \in S : x <= k) /\ \A l \in bounds : k <= l
  BY <1>2
<1>4. k \in S
  <2>1. k # 0
    <3>1. PICK x \in S : x \in 1 .. n
      OBVIOUS
    <3> QED
      BY <1>3, <3>1
  <2>2. k - 1 \notin bounds
    BY <1>3
  <2>3. PICK x \in S : ~(x <= k - 1)
    BY <1>3, <2>1, <2>2
  <2> QED
    BY <1>3, <2>3
<1> QED
  BY <1>3, <1>4 DEF Max

\* What counts of the settings is a value that is known
LEMMA LastKnown ==
  ASSUME NEW T, NEW settings \in Seq(T), NEW keys, NEW values, NEW default
  PROVE  LastOf(settings, keys, values, default) \in values \cup {default}
<1> DEFINE known == {i \in DOMAIN settings : settings[i][1] \in keys /\ settings[i][2] \in values}
<1>1. CASE known = {}
  BY <1>1 DEF LastOf
<1>2. CASE known # {}
  <2>1. known \subseteq 1 .. Len(settings) /\ Len(settings) \in Nat
    OBVIOUS
  <2>2. Max(known) \in known
    <3> HIDE DEF known
    <3> QED
      BY <1>2, <2>1, Greatest
  <2> QED
    BY <1>2, <2>2 DEF LastOf
<1> QED
  BY <1>1, <1>2

LEMMA OneSetting ==
  ASSUME NEW settings, NEW keys, NEW values, NEW default, NEW i \in DOMAIN settings, i \in Nat,
         settings[i][1] \in keys, settings[i][2] \in values,
         \A j \in DOMAIN settings : settings[j][1] \in keys => j = i
  PROVE  LastOf(settings, keys, values, default) = settings[i][2]
<1> DEFINE known == {j \in DOMAIN settings : settings[j][1] \in keys /\ settings[j][2] \in values}
<1>1. known = {i}
  OBVIOUS
<1>2. Max({i}) = i
  BY DEF Max
<1> QED
  BY <1>1, <1>2 DEF LastOf

LEMMA NoSetting ==
  ASSUME NEW settings, NEW keys, NEW values, NEW default,
         \A j \in DOMAIN settings : settings[j][1] \notin keys
  PROVE  LastOf(settings, keys, values, default) = default
  BY DEF LastOf

\* Every flavor has a name by which it is found again
LEMMA FlavorNames ==
  /\ \A name \in DOMAIN FlavorNamed : FlavorNamed[name] \in Flavors
  /\ \A flavor \in Flavors : /\ NameOf(flavor) \in DOMAIN FlavorNamed
                             /\ FlavorNamed[NameOf(flavor)] = flavor
  /\ "rust" \in DOMAIN FlavorNamed /\ FlavorNamed["rust"] = "Rust"
<1>1. "rust" \in DOMAIN FlavorNamed /\ FlavorNamed["rust"] = "Rust"
  BY DEF FlavorNamed
<1>2. ASSUME NEW flavor \in Flavors
      PROVE  \E name \in DOMAIN FlavorNamed \ {"js", ".net"} : FlavorNamed[name] = flavor
  <2>1. PICK name \in DOMAIN FlavorNamed : FlavorNamed[name] = flavor
    BY DEF Flavors
  <2>2. /\ "javascript" \in DOMAIN FlavorNamed /\ FlavorNamed["javascript"] = "JavaScript"
        /\ "dotnet" \in DOMAIN FlavorNamed /\ FlavorNamed["dotnet"] = "DotNet"
        /\ FlavorNamed["js"] = "JavaScript" /\ FlavorNamed[".net"] = "DotNet"
    BY DEF FlavorNamed
  <2>3. CASE name = "js"
    BY <2>1, <2>2, <2>3
  <2>4. CASE name = ".net"
    BY <2>1, <2>2, <2>4
  <2> QED
    BY <2>1, <2>3, <2>4
<1> QED
  BY <1>1, <1>2 DEF NameOf, Flavors

\* The options of a file are of their types
LEMMA OptionTypes ==
  ASSUME NEW T, NEW settings \in Seq(T)
  PROVE  LET options1 == ParseOptions(settings)
         IN /\ options1.flavor \in Flavors /\ options1.ignore \in BOOLEAN
            /\ options1.expected_outcome \in {"success", "error"}
<1>1. LastOf(settings, {"flavor"}, DOMAIN FlavorNamed, "rust") \in DOMAIN FlavorNamed
  BY LastKnown, FlavorNames
<1>2. LastOf(settings, {"expect"}, {"success", "error"}, "success") \in {"success", "error"}
  BY LastKnown
<1> QED
  BY <1>1, <1>2, FlavorNames DEF ParseOptions

(***************************************************************************)
(* What create_content writes of the options                               *)
(***************************************************************************)
Written(settings) ==
  (IF settings.expected_outcome = "error" THEN << <<"expect", "error">> >> ELSE <<>>)
    \o (IF settings.ignore THEN << <<"ignore", "">> >> ELSE <<>>)
    \o (IF settings.flavor # "Rust" THEN << <<"flavor", NameOf(settings.flavor)>> >> ELSE <<>>)

\* One part of a list, which is written if it is not the default
Part(wanted, x) == IF wanted THEN <<x>> ELSE <<>>
In(x, W) == \E i \in DOMAIN W : W[i] = x
OneOfEach(W) == \A i, j \in DOMAIN W : W[i][1] = W[j][1] => i = j

LEMMA PartAdded ==
  ASSUME NEW T, NEW W \in Seq(T), NEW x \in T, NEW wanted \in BOOLEAN,
         OneOfEach(W), \A i \in DOMAIN W : W[i][1] # x[1]
  PROVE  /\ W \o Part(wanted, x) \in Seq(T)
         /\ OneOfEach(W \o Part(wanted, x))
         /\ \A y : In(y, W \o Part(wanted, x)) <=> In(y, W) \/ (wanted /\ y = x)
<1>1. CASE ~wanted
  <2>1. W \o Part(wanted, x) = W
    BY <1>1 DEF Part
  <2> QED
    BY <1>1, <2>1
<1>2. CASE wanted
  <2> DEFINE V == Append(W, x)
  <2>1. W \o Part(wanted, x) = V
    BY <1>2 DEF Part
  <2>2. /\ V \in Seq(T) /\ Len(V) = Len(W) + 1 /\ V[Len(W) + 1] = x
        /\ \A i \in DOMAIN W : V[i] = W[i]
        /\ DOMAIN V = DOMAIN W \cup {Len(W) + 1} /\ Len(W) + 1 \notin DOMAIN W
    OBVIOUS
  <2> HIDE DEF V
  <2>3. OneOfEach(V)
    BY <2>2 DEF OneOfEach
  <2>4. \A y : In(y, V) <=> In(y, W) \/ y = x
    BY <2>2 DEF In
  <2> QED
    BY <1>2, <2>1, <2>2, <2>3, <2>4
<1> QED
  BY <1>1, <1>2

\* The settings that create_content may write
ExpectError == <<"expect", "error">>
IgnoreTest == <<"ignore", "">>
WithFlavor(flavor) == <<"flavor", NameOf(flavor)>>

LEMMA Keys ==
  /\ ExpectError[1] = "expect" /\ ExpectError[2] = "error"
  /\ IgnoreTest[1] = "ignore" /\ IgnoreTest[2] = ""
  /\ \A flavor : WithFlavor(flavor)[1] = "flavor" /\ WithFlavor(flavor)[2] = NameOf(flavor)
  BY DEF ExpectError, IgnoreTest, WithFlavor

\* Each key is written at most once, and the default is not written
LEMMA WrittenOnce ==
  ASSUME NEW settings, settings.ignore \in BOOLEAN, settings.flavor \in Flavors
  PROVE  /\ Written(settings) \in Seq({ExpectError, IgnoreTest, WithFlavor(settings.flavor)})
         /\ OneOfEach(Written(settings))
         /\ \A y : In(y, Written(settings))
                     <=> \/ settings.expected_outcome = "error" /\ y = ExpectError
                         \/ settings.ignore /\ y = IgnoreTest
                         \/ settings.flavor # "Rust" /\ y = WithFlavor(settings.flavor)
<1> DEFINE E == ExpectError
           I == IgnoreTest
           N == WithFlavor(settings.flavor)
           T == {E, I, N}
           e == settings.expected_outcome = "error"
           n == settings.flavor # "Rust"
           W1 == Part(e, E)
           W2 == W1 \o Part(settings.ignore, I)
<1>2. E \in T /\ I \in T /\ N \in T
  OBVIOUS
<1>3. E[1] = "expect" /\ I[1] = "ignore" /\ N[1] = "flavor"
  BY Keys
<1>4. W1 \in Seq(T) /\ OneOfEach(W1) /\ \A y : In(y, W1) <=> e /\ y = E
  <2> DEFINE W0 == <<>>
  <2>1. /\ W0 \in Seq(T) /\ OneOfEach(W0) /\ \A y : ~In(y, W0)
        /\ \A i \in DOMAIN W0 : W0[i][1] # E[1]
    <3>1. \A i \in DOMAIN <<>> : FALSE
      OBVIOUS
    <3> HIDE DEF T, E
    <3> QED
      BY <3>1 DEF OneOfEach, In
  <2>2. e \in BOOLEAN /\ W1 = W0 \o Part(e, E)
    BY DEF Part
  <2> HIDE DEF T, W0, W1, E, e
  <2>3. /\ W0 \o Part(e, E) \in Seq(T) /\ OneOfEach(W0 \o Part(e, E))
        /\ \A y : In(y, W0 \o Part(e, E)) <=> In(y, W0) \/ (e /\ y = E)
    BY <1>2, <2>1, <2>2, PartAdded
  <2> QED
    BY <2>1, <2>2, <2>3
<1>5. Written(settings) = W2 \o Part(n, N)
  BY DEF Written, Part, ExpectError, IgnoreTest, WithFlavor
<1> HIDE DEF T, W1
<1>6. \A i \in DOMAIN W1 : W1[i] = E
  BY <1>4 DEF In
<1>7. /\ W2 \in Seq(T) /\ OneOfEach(W2)
      /\ \A y : In(y, W2) <=> In(y, W1) \/ (settings.ignore /\ y = I)
  BY <1>2, <1>3, <1>4, <1>6, PartAdded
<1> HIDE DEF W2
<1>8. \A i \in DOMAIN W2 : W2[i] \in {E, I}
  BY <1>4, <1>7 DEF In
<1>9. /\ W2 \o Part(n, N) \in Seq(T) /\ OneOfEach(W2 \o Part(n, N))
      /\ \A y : In(y, W2 \o Part(n, N)) <=> In(y, W2) \/ (n /\ y = N)
  <2>1. \A i \in DOMAIN W2 : W2[i][1] # N[1]
    BY <1>3, <1>8
  <2>2. n \in BOOLEAN
    OBVIOUS
  <2> HIDE DEF n
  <2> QED
    BY <1>2, <1>7, <2>1, <2>2, PartAdded
<1> QED
  BY <1>4, <1>5, <1>7, <1>9 DEF T

\* The options that are written are read back
LEMMA WrittenRead ==
  ASSUME NEW settings, settings.ignore \in BOOLEAN, settings.flavor \in Flavors,
         settings.expected_outcome \in {"success", "error"}
  PROVE  LET read == ParseOptions(Written(settings)) IN
         /\ read.flavor = settings.flavor
         /\ read.ignore = settings.ignore
         /\ read.expected_outcome = settings.expected_outcome
<1> DEFINE W == Written(settings)
           E == ExpectError
           I == IgnoreTest
           N == WithFlavor(settings.flavor)
<1>a. /\ E[1] = "expect" /\ I[1] = "ignore" /\ N[1] = "flavor"
      /\ E[2] = "error" /\ I[2] = "" /\ N[2] = NameOf(settings.flavor)
  BY Keys
<1>1. /\ W \in Seq({E, I, N}) /\ OneOfEach(W)
      /\ \A y : In(y, W) <=> \/ settings.expected_outcome = "error" /\ y = E
                             \/ settings.ignore /\ y = I
                             \/ settings.flavor # "Rust" /\ y = N
  BY WrittenOnce
<1> HIDE DEF W
<1>2. /\ DOMAIN W \subseteq Nat
      /\ \A i \in DOMAIN W : In(W[i], W)
  <2>1. DOMAIN W = 1 .. Len(W) /\ Len(W) \in Nat
    BY <1>1
  <2> QED
    BY <2>1 DEF In
<1>3. ASSUME NEW x, In(x, W), NEW keys, NEW values, NEW default,
             x[1] \in keys, x[2] \in values,
             \A i \in DOMAIN W : W[i][1] \in keys => W[i][1] = x[1]
      PROVE  LastOf(W, keys, values, default) = x[2]
  <2>1. PICK i \in DOMAIN W : W[i] = x
    BY <1>3 DEF In
  <2>2. \A j \in DOMAIN W : W[j][1] \in keys => j = i
    BY <1>1, <1>3, <2>1 DEF OneOfEach
  <2> QED
    BY <1>2, <1>3, <2>1, <2>2, OneSetting
<1>4. \A i \in DOMAIN W : /\ W[i][1] = "expect" => settings.expected_outcome = "error"
                          /\ W[i][1] \in {"ignore", "ignored"} => W[i][1] = "ignore" /\ settings.ignore
                          /\ W[i][1] = "flavor" => settings.flavor # "Rust"
  BY <1>1, <1>2, <1>a
<1>5. LastOf(W, {"expect"}, {"success", "error"}, "success") = settings.expected_outcome
  <2>1. CASE settings.expected_outcome = "error"
    <3>1. In(E, W)
      BY <1>1, <2>1
    <3> DEFINE keys == {"expect"}
               values == {"success", "error"}
    <3>3. /\ E[1] \in keys /\ E[2] \in values
          /\ \A i \in DOMAIN W : W[i][1] \in keys => W[i][1] = E[1]
      BY <1>a
    <3> HIDE DEF keys, values
    <3>4. LastOf(W, keys, values, "success") = E[2]
      BY <1>3, <3>1, <3>3
    <3> USE DEF keys, values
    <3> QED
      BY <1>a, <2>1, <3>4
  <2>2. CASE settings.expected_outcome = "success"
    BY <1>4, <2>2, NoSetting
  <2> QED
    BY <2>1, <2>2
<1>6. LastOf(W, {"ignore", "ignored"}, Yes \cup No, "no") \in Yes <=> settings.ignore
  <2>1. CASE settings.ignore
    <3>1. In(I, W)
      BY <1>1, <2>1
    <3>2. "" \in Yes
      BY DEF Yes
    <3> DEFINE keys == {"ignore", "ignored"}
               values == Yes \cup No
    <3>3. /\ I[1] \in keys /\ I[2] \in values
          /\ \A i \in DOMAIN W : W[i][1] \in keys => W[i][1] = I[1]
      BY <1>4, <1>a, <3>2
    <3> HIDE DEF keys, values
    <3>4. LastOf(W, keys, values, "no") = I[2]
      BY <1>3, <3>1, <3>3
    <3> USE DEF keys, values
    <3> QED
      BY <1>a, <2>1, <3>2, <3>4
  <2>2. CASE ~settings.ignore
    <3>1. LastOf(W, {"ignore", "ignored"}, Yes \cup No, "no") = "no"
      BY <1>4, <2>2, NoSetting
    <3> QED
      BY <2>2, <3>1 DEF Yes
  <2> QED
    BY <2>1, <2>2
<1>7. FlavorNamed[LastOf(W, {"flavor"}, DOMAIN FlavorNamed, "rust")] = settings.flavor
  <2>1. CASE settings.flavor # "Rust"
    <3>1. In(N, W)
      BY <1>1, <2>1
    <3>2. NameOf(settings.flavor) \in DOMAIN FlavorNamed
      BY FlavorNames
    <3> DEFINE keys == {"flavor"}
               values == DOMAIN FlavorNamed
    <3>3. /\ N[1] \in keys /\ N[2] \in values
          /\ \A i \in DOMAIN W : W[i][1] \in keys => W[i][1] = N[1]
      BY <1>a, <3>2
    <3> HIDE DEF keys, values
    <3>4. LastOf(W, keys, values, "rust") = N[2]
      BY <1>3, <3>1, <3>3
    <3> USE DEF keys, values
    <3>5. LastOf(W, {"flavor"}, DOMAIN FlavorNamed, "rust") = NameOf(settings.flavor)
      BY <1>a, <3>4
    <3> HIDE DEF keys, values
    <3> QED
      BY <3>5, FlavorNames
  <2>2. CASE settings.flavor = "Rust"
    <3>1. LastOf(W, {"flavor"}, DOMAIN FlavorNamed, "rust") = "rust"
      BY <1>4, <2>2, NoSetting
    <3> QED
      BY <2>2, <3>1, FlavorNames
  <2> QED
    BY <2>1, <2>2
<1> QED
  BY <1>5, <1>6, <1>7 DEF ParseOptions, W

-----------------------------------------------------------------------------
(***************************************************************************)
(* Files.  What is written is read back: the program begins with a line of *)
(* text and no line of dashes is in it.                                    *)
(***************************************************************************)
Program(input) ==
  /\ input # <<>> /\ Plain(input)
  /\ \A i \in 2 .. Len(input) : input[i] # Dashes

\* The line of dashes that ends a program
CutOf(f) == LET cuts == {i \in 2 .. Len(f) : f[i] = Dashes}
            IN IF cuts = {} THEN Len(f) + 1 ELSE Min(cuts)

LEMMA CutBounds ==
  ASSUME NEW T, NEW f \in Seq(T), f # <<>>
  PROVE  /\ CutOf(f) \in 2 .. Len(f) + 1
         /\ \A i \in 2 .. CutOf(f) - 1 : f[i] # Dashes
<1> DEFINE cuts == {i \in 2 .. Len(f) : f[i] = Dashes}
<1>1. Len(f) \in Nat /\ Len(f) >= 1
  BY EmptySeq, LenProperties
<1>2. CASE cuts = {}
  <2>1. CutOf(f) = Len(f) + 1
    BY <1>2 DEF CutOf
  <2>2. \A i \in 2 .. Len(f) : f[i] # Dashes
    BY <1>2
  <2> HIDE DEF cuts
  <2>3. Len(f) + 1 \in 2 .. Len(f) + 1 /\ Len(f) + 1 - 1 = Len(f)
    BY <1>1
  <2> QED
    BY <2>1, <2>2, <2>3
<1>3. CASE cuts # {}
  <2>1. cuts \subseteq Nat
    BY <1>1
  <2>2. CutOf(f) = Min(cuts)
    BY <1>3 DEF CutOf
  <2>3. Min(cuts) \in cuts /\ \A i \in cuts : Min(cuts) <= i
    <3> HIDE DEF cuts
    <3> QED
      BY <1>3, <2>1, Least
  <2>4. PICK cut \in cuts : cut = CutOf(f)
    BY <2>2, <2>3
  <2>5. \A i \in 2 .. cut - 1 : i \in 2 .. Len(f) /\ ~(cut <= i)
    BY <1>1
  <2>6. \A i \in 2 .. cut - 1 : f[i] # Dashes
    BY <2>2, <2>3, <2>4, <2>5
  <2>7. cut \in 2 .. Len(f) + 1
    BY <1>1
  <2> QED
    BY <2>4, <2>6, <2>7
<1> QED
  BY <1>2, <1>3

\* Where the first line of dashes is decides what is read
LEMMA CutAt ==
  ASSUME NEW T, NEW f \in Seq(T), NEW cut \in 2 .. Len(f), f[cut] = Dashes,
         \A i \in 2 .. cut - 1 : f[i] # Dashes
  PROVE  CutOf(f) = cut
<1> DEFINE cuts == {i \in 2 .. Len(f) : f[i] = Dashes}
<1>1. cut \in cuts /\ cuts \subseteq Nat
  OBVIOUS
<1>2. Min(cuts) \in cuts /\ \A i \in cuts : Min(cuts) <= i
  <2> HIDE DEF cuts
  <2> QED
    BY <1>1, Least
<1>3. CutOf(f) = Min(cuts)
  BY <1>1 DEF CutOf
<1>4. Min(cuts) = cut
  BY <1>1, <1>2
<1> QED
  BY <1>3, <1>4

Head1(f) == SubSeq(f, 1, CutOf(f) - 1)
Rest(f) == SubSeq(f, CutOf(f) + 1, Len(f))

LEMMA Reading ==
  ASSUME NEW f
  PROVE  LET t == process_content(f)
             head == Head1(f)
             marked == head[1].kind = "options"
         IN /\ t.input = IF ~marked THEN head ELSE IF Len(head) = 1 THEN Empty ELSE Tail(head)
            /\ t.expected = IF Rest(f) = <<>> THEN Empty ELSE Rest(f)
            /\ t.options = ParseOptions(IF marked /\ Len(head) > 1 THEN head[1].settings ELSE <<>>)
  BY DEF process_content, Head1, Rest, CutOf

\* A file that a developer has saved: its program, if it begins with text, is one
\* that can be written, and its options are of their types.
Blank == Text("")

LEMMA SavedFiles ==
  ASSUME NEW f \in Files
  PROVE  LET t == process_content(f) IN
         /\ t.options.flavor \in Flavors /\ t.options.ignore \in BOOLEAN
         /\ t.input \in Seq(Lines \cup {Blank})
         /\ Plain(t.input) => Program(t.input)
<1> DEFINE t == process_content(f)
           head == Head1(f)
           marked == head[1].kind = "options"
           U == Lines \cup {Blank}
<1>1. f \in Seq(Lines) /\ f # <<>>
  BY FilesAssumption
<1>2. CutOf(f) \in 2 .. Len(f) + 1 /\ \A i \in 2 .. CutOf(f) - 1 : f[i] # Dashes
  BY <1>1, CutBounds
<1>3. Len(f) \in Nat
  BY <1>1
<1>4. /\ head \in Seq(Lines) /\ Len(head) = CutOf(f) - 1
      /\ \A i \in 1 .. Len(head) : head[i] = f[i]
  BY <1>1, <1>2, <1>3 DEF Head1
<1>5. Len(head) \in Nat /\ Len(head) >= 1 /\ \A i \in 2 .. Len(head) : head[i] # Dashes
  BY <1>2, <1>3, <1>4
<1>6. head[1] \in Lines
  BY <1>4, <1>5, ElementOfSeq
<1>8. t.options = ParseOptions(IF marked /\ Len(head) > 1 THEN head[1].settings ELSE <<>>)
  BY Reading
<1>10. t.input = IF ~marked THEN head ELSE IF Len(head) = 1 THEN Empty ELSE Tail(head)
  BY Reading
<1> HIDE DEF head, t
<1>7. marked => head[1].settings \in Seq(STRING \X STRING)
  BY <1>6 DEF Lines, Dashes
<1> HIDE DEF marked
<1>9. t.options.flavor \in Flavors /\ t.options.ignore \in BOOLEAN
  <2>1. CASE marked /\ Len(head) > 1
    <3>1. t.options = ParseOptions(head[1].settings)
      BY <1>8, <2>1
    <3> QED
      BY <1>7, <2>1, <3>1, OptionTypes
  <2>2. CASE ~(marked /\ Len(head) > 1)
    <3>1. t.options = ParseOptions(<<>>) /\ <<>> \in Seq(Lines)
      BY <1>8, <2>2
    <3> QED
      BY <3>1, OptionTypes
  <2> QED
    BY <2>1, <2>2
<1>11. Empty \in Seq(U) /\ Len(Empty) = 1 /\ Empty # <<>>
  <2>1. Empty = <<Blank>> /\ Blank \in U
    BY DEF Empty, Blank
  <2> HIDE DEF U
  <2> QED
    BY <2>1
<1>a. head \in Seq(U) /\ head # <<>>
  <2>1. Lines \subseteq U /\ head # <<>>
    BY <1>4, <1>5
  <2> HIDE DEF U
  <2> QED
    BY <1>4, <2>1
<1> HIDE DEF U
<1>12. /\ Tail(head) \in Seq(U) /\ Len(Tail(head)) = Len(head) - 1
       /\ \A i \in 1 .. Len(head) - 1 : Tail(head)[i] = head[i + 1]
  BY <1>5, <1>a
<1>13. t.input \in Seq(U) /\ t.input # <<>> /\ \A i \in 2 .. Len(t.input) : t.input[i] # Dashes
  <2>1. CASE ~marked
    <3>1. t.input = head
      BY <1>10, <2>1
    <3> QED
      BY <1>5, <1>a, <3>1
  <2>2. CASE marked /\ Len(head) = 1
    <3>1. t.input = Empty
      BY <1>10, <2>2
    <3>2. 2 .. Len(Empty) = {}
      BY <1>11
    <3> QED
      BY <1>11, <3>1, <3>2
  <2>3. CASE marked /\ Len(head) # 1
    <3>1. t.input = Tail(head)
      BY <1>10, <2>3
    <3>2. \A i \in 2 .. Len(head) - 1 : Tail(head)[i] # Dashes
      <4>1. \A i \in 2 .. Len(head) - 1 : i + 1 \in 2 .. Len(head) /\ i \in 1 .. Len(head) - 1
        BY <1>5
      <4> QED
        BY <1>5, <1>12, <4>1
    <3>3. Tail(head) # <<>>
      <4>1. Len(Tail(head)) >= 1
        BY <1>5, <1>12, <2>3
      <4> DEFINE tail == Tail(head)
      <4>2. Len(tail) >= 1 /\ tail \in Seq(U)
        BY <1>12, <4>1
      <4> HIDE DEF tail
      <4>3. tail # <<>>
        BY <4>2
      <4> QED
        BY <4>3 DEF tail
    <3> QED
      BY <1>12, <3>1, <3>2, <3>3
  <2> QED
    BY <2>1, <2>2, <2>3
<1>14. Plain(t.input) => Program(t.input)
  BY <1>13 DEF Program
<1> QED
  BY <1>9, <1>13, <1>14 DEF t, U

\* Blessing: what is written is read back
LEMMA RoundTrip ==
  ASSUME NEW T, NEW input \in Seq(T), Program(input), NEW T2, NEW text \in Seq(T2),
         NEW settings, settings.ignore \in BOOLEAN, settings.flavor \in Flavors,
         settings.expected_outcome \in {"success", "error"}
  PROVE  LET t == process_content(create_content(input, text, settings)) IN
         /\ t.input = input
         /\ t.expected = IF text = <<>> THEN Empty ELSE text
         /\ t.options.flavor = settings.flavor
         /\ t.options.ignore = settings.ignore
         /\ t.options.expected_outcome = settings.expected_outcome
<1> DEFINE W == Written(settings)
           option == OptionLine(W)
           pre == IF W = <<>> THEN <<>> ELSE <<option>>
           f == pre \o input \o <<Dashes>> \o text
           p == Len(pre)
           n == Len(input)
           U == T \cup T2 \cup {Dashes, option}
<1>1. create_content(input, text, settings) = f
  BY DEF create_content, Written
<1>2. n \in Nat /\ n >= 1 /\ Len(text) \in Nat /\ input[1].kind = "text"
  BY EmptySeq, LenProperties DEF Program, Plain
<1>3. option.kind = "options" /\ option.settings = W /\ Dashes.kind = "dashes"
  BY DEF OptionLine, Dashes
<1> HIDE DEF W, option
<1>4. /\ p \in {0, 1} /\ (p = 0 <=> W = <<>>)
      /\ pre \in Seq(U)
      /\ p = 1 => pre[1] = option
  <2>1. CASE W = <<>>
    BY <2>1
  <2>2. CASE W # <<>>
    <3>1. pre = <<option>> /\ option \in U
      BY <2>2
    <3> HIDE DEF pre, U
    <3> QED
      BY <2>2, <3>1
  <2> QED
    BY <2>1, <2>2
<1>5. input \in Seq(U) /\ <<Dashes>> \in Seq(U) /\ text \in Seq(U)
  <2>1. T \subseteq U /\ T2 \subseteq U /\ Dashes \in U
    OBVIOUS
  <2> HIDE DEF U
  <2> QED
    BY <2>1
<1> HIDE DEF pre, U
<1>6. /\ f \in Seq(U) /\ Len(f) = p + n + 1 + Len(text)
      /\ \A i \in 1 .. p : f[i] = pre[i]
      /\ \A i \in 1 .. n : f[p + i] = input[i]
      /\ f[p + n + 1] = Dashes
      /\ \A i \in 1 .. Len(text) : f[p + n + 1 + i] = text[i]
  BY <1>2, <1>4, <1>5
<1> HIDE DEF f
<1>7. CutOf(f) = p + n + 1
  <2>1. \A i \in 2 .. p + n : f[i] # Dashes
    <3> SUFFICES ASSUME NEW i \in 2 .. p + n PROVE f[i] # Dashes
      OBVIOUS
    <3>1. PICK k \in 1 .. n : p + k = i
      <4>1. i - p \in 1 .. n /\ p + (i - p) = i
        <5>1. p = 0 \/ p = 1
          BY <1>4
        <5> HIDE DEF p, n
        <5> QED
          BY <1>2, <5>1
      <4> QED
        BY <4>1
    <3>2. f[i] = input[k]
      BY <1>6, <3>1
    <3>3. CASE k = 1
      BY <1>2, <1>3, <3>2, <3>3
    <3>4. CASE k # 1
      <4>1. k \in 2 .. n
        BY <1>2, <3>4
      <4> QED
        BY <3>2, <4>1 DEF Program
    <3> QED
      BY <3>3, <3>4
  <2>2. p + n + 1 \in 2 .. Len(f) /\ p + n + 1 - 1 = p + n
    <3>1. p = 0 \/ p = 1
      BY <1>4
    <3>2. Len(f) = p + n + 1 + Len(text)
      BY <1>6
    <3> HIDE DEF p, n
    <3> QED
      BY <1>2, <3>1, <3>2
  <2> DEFINE cut == p + n + 1
  <2>3. cut \in 2 .. Len(f) /\ f[cut] = Dashes /\ \A i \in 2 .. cut - 1 : f[i] # Dashes
    BY <1>6, <2>1, <2>2
  <2> HIDE DEF cut
  <2>4. CutOf(f) = cut
    BY <1>6, <2>3, CutAt
  <2> QED
    BY <2>4 DEF cut
<1>8. Rest(f) = text
  <2>1. Len(f) \in Nat /\ CutOf(f) + 1 = p + n + 2 /\ Len(f) - (p + n + 2) + 1 = Len(text)
    BY <1>2, <1>4, <1>6, <1>7
  <2>2. /\ Rest(f) \in Seq(U) /\ Len(Rest(f)) = Len(text)
        /\ \A i \in 1 .. Len(text) : Rest(f)[i] = f[p + n + 1 + i]
    <3> DEFINE m == p + n + 2
    <3>0. p \in Nat /\ n \in Nat
      BY <1>2, <1>4
    <3>1. m \in Nat /\ m >= 1 /\ Rest(f) = SubSeq(f, m, Len(f)) /\ Len(f) - m + 1 = Len(text)
      <4>1. Rest(f) = SubSeq(f, m, Len(f)) /\ Len(f) - m + 1 = Len(text)
        BY <2>1 DEF Rest
      <4> HIDE DEF p, n
      <4> QED
        BY <3>0, <4>1
    <3>2. \A i \in 1 .. Len(text) : m + i - 1 = p + n + 1 + i
      BY <1>2, <1>4
    <3>4. m <= Len(f) + 1
      <4> HIDE DEF m
      <4> QED
        BY <1>2, <2>1, <3>1
    <3> HIDE DEF m
    <3>3. /\ Rest(f) \in Seq(U) /\ Len(Rest(f)) = Len(f) - m + 1
          /\ \A i \in 1 .. Len(f) - m + 1 : Rest(f)[i] = f[m + i - 1]
      <4> DEFINE l == Len(f)
      <4>2. f \in Seq(U) /\ m \in 1 .. l + 1 /\ l \in m - 1 .. Len(f)
        BY <1>6, <2>1, <3>1, <3>4
      <4>3. Len(f) - m + 1 = IF m <= l THEN l - m + 1 ELSE 0
        BY <2>1, <3>1, <3>4
      <4> HIDE DEF l
      <4>4. /\ SubSeq(f, m, l) \in Seq(U)
            /\ Len(SubSeq(f, m, l)) = IF m <= l THEN l - m + 1 ELSE 0
            /\ \A i \in 1 .. l - m + 1 : SubSeq(f, m, l)[i] = f[m + i - 1]
        BY <4>2, SubSeqProperties, SMTT(30)
      <4> QED
        BY <3>1, <4>3, <4>4 DEF l
    <3> QED
      BY <3>1, <3>2, <3>3
  <2> QED
    BY <1>5, <1>6, <2>2, SeqEqual
<1>9. /\ Head1(f) \in Seq(U) /\ Len(Head1(f)) = p + n
      /\ \A i \in 1 .. p + n : Head1(f)[i] = f[i]
  BY <1>2, <1>4, <1>6, <1>7 DEF Head1
<1> DEFINE t == process_content(f)
           marked == Head1(f)[1].kind = "options"
<1>10. /\ t.input = IF ~marked THEN Head1(f) ELSE IF Len(Head1(f)) = 1 THEN Empty ELSE Tail(Head1(f))
       /\ t.expected = IF Rest(f) = <<>> THEN Empty ELSE Rest(f)
       /\ t.options = ParseOptions(IF marked /\ Len(Head1(f)) > 1 THEN Head1(f)[1].settings ELSE <<>>)
  BY Reading
<1> HIDE DEF t
<1>11. t.input = input /\ t.options = ParseOptions(W)
  <2>1. CASE p = 0
    <3>1. \A i \in 1 .. n : Head1(f)[i] = input[i]
      BY <1>2, <1>6, <1>9, <2>1
    <3>2. Head1(f) = input
      BY <1>2, <1>5, <1>9, <2>1, <3>1, SeqEqual
    <3>3. ~marked
      BY <1>2, <3>2
    <3> QED
      BY <1>4, <1>10, <2>1, <3>2, <3>3
  <2>2. CASE p = 1
    <3>1. Head1(f)[1] = option
      BY <1>2, <1>4, <1>6, <1>9, <2>2
    <3>2. \A i \in 1 .. n : Head1(f)[i + 1] = input[i]
      BY <1>2, <1>6, <1>9, <2>2
    <3>3. /\ Tail(Head1(f)) \in Seq(U) /\ Len(Tail(Head1(f))) = n
          /\ \A i \in 1 .. n : Tail(Head1(f))[i] = Head1(f)[i + 1]
      BY <1>2, <1>9, <2>2
    <3>4. Tail(Head1(f)) = input
      BY <1>2, <1>5, <3>2, <3>3, SeqEqual
    <3>5. marked /\ Len(Head1(f)) > 1
      BY <1>2, <1>3, <1>9, <2>2, <3>1
    <3> QED
      BY <1>3, <1>10, <3>1, <3>4, <3>5
  <2> QED
    BY <1>4, <2>1, <2>2
<1>12. /\ t.options.flavor = settings.flavor
       /\ t.options.ignore = settings.ignore
       /\ t.options.expected_outcome = settings.expected_outcome
  BY <1>11, WrittenRead DEF W
<1>13. t.expected = IF text = <<>> THEN Empty ELSE text
  BY <1>8, <1>10
<1>14. t = process_content(create_content(input, text, settings))
  BY <1>1 DEF t
<1> HIDE DEF W
<1> QED
  BY <1>11, <1>12, <1>13, <1>14

-----------------------------------------------------------------------------
(***************************************************************************)
(* The invariant: whatever a run has read, and what lies on the disk while *)
(* none writes, is the test that was saved, and what a run has written     *)
(* passes.                                                                 *)
(***************************************************************************)
\* What the compiler returns for a test, and what a run makes of it
Found(t, v) == Compile(t.input, t.options.flavor, v)
Got(found) == IF found.regex = <<>> THEN found.messages ELSE found.regex \o found.messages
Outcome(found) == IF found.regex = <<>> THEN "error" ELSE "success"
Passes(t, v) ==
  LET found == Found(t, v) IN
  /\ t.options.expected_outcome = Outcome(found)
  /\ t.expected = Got(found) \/ (Outcome(found) = "error" /\ t.expected = Empty)

Whole == ~torn /\ Plain(process_content(saved).input)

Stages ==
  /\ pc \in {"idle", "judge", "write"}
  /\ version \in Versions /\ saved \in Files
  /\ pc = "judge" => content = file

PurposeInv ==
  Whole => /\ pc # "write" => Purpose(file) = Purpose(saved)
           /\ pc # "idle" => Purpose(content) = Purpose(saved)

BlessedInv ==
  Whole /\ blessed => /\ pc # "write" /\ result # "IncorrectResult"
                      /\ Passes(process_content(file), version)

TestInv == Stages /\ PurposeInv /\ BlessedInv

LEMMA Terms ==
  /\ test = process_content(content) /\ options = test.options
  /\ compiled = Found(test, version) /\ got = Got(compiled) /\ outcome = Outcome(compiled)
  /\ AsExpected <=> Passes(test, version)
  BY DEF test, options, compiled, got, outcome, AsExpected, Found, Got, Outcome, Passes

\* What a purpose is
LEMMA Purposes ==
  ASSUME NEW f, NEW g
  PROVE  LET t == process_content(f)
             u == process_content(g)
         IN Purpose(f) = Purpose(g)
              <=> /\ t.input = u.input /\ t.options.flavor = u.options.flavor
                  /\ t.options.ignore = u.options.ignore
  BY DEF Purpose

\* The outcome is one of two, and nothing is got only from an error
LEMMA GotSomething ==
  ASSUME NEW T, NEW found, found.regex \in Seq(T), found.messages \in Seq(T)
  PROVE  /\ Got(found) \in Seq(T)
         /\ Outcome(found) \in {"success", "error"}
         /\ Got(found) = <<>> => Outcome(found) = "error"
<1>1. CASE found.regex = <<>>
  BY <1>1 DEF Got, Outcome
<1>2. CASE found.regex # <<>>
  <2> DEFINE r == found.regex
             m == found.messages
             g == r \o m
  <2>1. Got(found) = g /\ Outcome(found) = "success"
    BY <1>2 DEF Got, Outcome
  <2>2. g \in Seq(T) /\ Len(g) = Len(r) + Len(m) /\ Len(r) \in Nat /\ Len(m) \in Nat
    OBVIOUS
  <2>3. Len(r) # 0
    <3> HIDE DEF r
    <3>1. r \in Seq(T) /\ r # <<>>
      BY <1>2 DEF r
    <3> QED
      BY <3>1, EmptySeq
  <2> HIDE DEF g, r, m
  <2>4. g # <<>>
    BY <2>2, <2>3
  <2> QED
    BY <2>1, <2>2, <2>4
<1> QED
  BY <1>1, <1>2

\* A run that writes the test of a file that was saved writes a test of the same
\* purpose, and one that passes.
LEMMA Blessing ==
  ASSUME NEW f \in Files, Plain(process_content(f).input), NEW g, Purpose(g) = Purpose(f),
         NEW v \in Versions
  PROVE  LET t == process_content(g)
             found == Found(t, v)
             h == create_content(t.input, Got(found),
                                 [t.options EXCEPT !.expected_outcome = Outcome(found)])
         IN Purpose(h) = Purpose(f) /\ Passes(process_content(h), v)
<1> DEFINE s == process_content(f)
           t == process_content(g)
           found == Found(t, v)
           text == Got(found)
           settings == [t.options EXCEPT !.expected_outcome = Outcome(found)]
           h == create_content(t.input, text, settings)
           u == process_content(h)
           U == Lines \cup {Blank}
<1>1. /\ t.input = s.input /\ t.options.flavor = s.options.flavor
      /\ t.options.ignore = s.options.ignore
  BY Purposes
<1>2. /\ s.options.flavor \in Flavors /\ s.options.ignore \in BOOLEAN
      /\ s.input \in Seq(U) /\ Program(s.input)
  BY SavedFiles
<1>3. found.regex \in Seq(Lines) /\ found.messages \in Seq(Lines)
  BY <1>1, <1>2, CompilerAssumption DEF Found
<1>4. /\ settings.flavor = t.options.flavor /\ settings.ignore = t.options.ignore
      /\ settings.expected_outcome = Outcome(found)
  BY DEF process_content, ParseOptions
<1> HIDE DEF s, t, found, settings, U
<1>5. /\ text \in Seq(Lines) /\ Outcome(found) \in {"success", "error"}
      /\ text = <<>> => Outcome(found) = "error"
  BY <1>3, GotSomething
<1> HIDE DEF text
<1> DEFINE input == t.input
<1>6. /\ input \in Seq(U) /\ Program(input)
      /\ settings.ignore \in BOOLEAN /\ settings.flavor \in Flavors
      /\ settings.expected_outcome \in {"success", "error"}
  BY <1>1, <1>2, <1>4, <1>5
<1> HIDE DEF input
<1>7. LET w == process_content(create_content(input, text, settings)) IN
      /\ w.input = input
      /\ w.expected = IF text = <<>> THEN Empty ELSE text
      /\ w.options.flavor = settings.flavor
      /\ w.options.ignore = settings.ignore
      /\ w.options.expected_outcome = settings.expected_outcome
  BY <1>5, <1>6, RoundTrip
<1>8. /\ u.input = t.input
      /\ u.expected = IF text = <<>> THEN Empty ELSE text
      /\ u.options.flavor = t.options.flavor
      /\ u.options.ignore = t.options.ignore
      /\ u.options.expected_outcome = Outcome(found)
  BY <1>4, <1>7 DEF input
<1> HIDE DEF h
<1>9. Purpose(h) = Purpose(f)
  <2>1. /\ u.input = s.input /\ u.options.flavor = s.options.flavor
        /\ u.options.ignore = s.options.ignore
    BY <1>1, <1>8
  <2> QED
    BY <2>1, Purposes DEF s
<1>10. Passes(u, v)
  <2>1. Found(u, v) = found
    BY <1>8 DEF Found, found
  <2>2. u.expected = text \/ (Outcome(found) = "error" /\ u.expected = Empty)
    BY <1>5, <1>8
  <2> QED
    BY <1>8, <2>1, <2>2 DEF Passes, text
<1> QED
  BY <1>9, <1>10 DEF h, settings, text, found, t

LEMMA TestInit == Init => TestInv
  BY FilesAssumption DEF Init, TestInv, Stages, PurposeInv, BlessedInv

LEMMA TestStep ==
  ASSUME TestInv, [Next]_vars
  PROVE  TestInv'
<1> USE DEF TestInv, Stages
<1>1. CASE Start
  BY <1>1 DEF Start, PurposeInv, BlessedInv, Whole
<1>2. ASSUME NEW r, pc = "judge", Return(r), r # "IncorrectResult"
      PROVE  TestInv'
  BY <1>2 DEF Return, Finish, PurposeInv, BlessedInv, Whole
<1>3. CASE Ignore
  BY <1>2, <1>3 DEF Ignore
<1>4. CASE Reject
  BY <1>2, <1>4 DEF Reject, Judging
<1>5. CASE Pass
  BY <1>2, <1>5 DEF Pass, Judging
<1>6. Judging /\ ~AsExpected => ~(Whole /\ blessed)
  BY Terms DEF Judging, BlessedInv
<1>7. CASE Fail
  BY <1>6, <1>7 DEF Fail, Judging, Return, Finish, PurposeInv, BlessedInv, Whole
<1>8. CASE Truncate
  BY <1>6, <1>8 DEF Truncate, Judging, PurposeInv, BlessedInv, Whole
<1>9. CASE Write
  <2>1. pc = "write" /\ pc' = "idle" /\ result' = "Blessed"
    BY <1>9 DEF Write, Finish
  <2>2. UNCHANGED <<version, saved, torn>>
    BY <1>9 DEF Write
  <2>3. Whole' => Purpose(file') = Purpose(saved) /\ Passes(process_content(file'), version)
    <3> SUFFICES ASSUME Whole' PROVE Purpose(file') = Purpose(saved)
                                       /\ Passes(process_content(file'), version)
      OBVIOUS
    <3>1. Whole /\ Purpose(content) = Purpose(saved)
      BY <2>1, <2>2 DEF Whole, PurposeInv
    <3>2. Plain(process_content(saved).input)
      BY <3>1 DEF Whole
    <3> DEFINE t == process_content(content)
               found == Found(t, version)
    <3>3. file' = create_content(t.input, Got(found),
                                 [t.options EXCEPT !.expected_outcome = Outcome(found)])
      BY <1>9, Terms DEF Write
    <3> QED
      BY <3>1, <3>2, <3>3, Blessing
  <2> QED
    BY <2>1, <2>2, <2>3 DEF PurposeInv, BlessedInv
<1>10. CASE Die
  BY <1>10 DEF Die, Finish, PurposeInv, BlessedInv, Whole
<1>11. CASE ChangeCompiler
  BY <1>11 DEF ChangeCompiler, PurposeInv, BlessedInv, Whole
<1>12. CASE UNCHANGED vars
  BY <1>12 DEF vars, PurposeInv, BlessedInv, Whole
<1> QED
  BY <1>1, <1>3, <1>4, <1>5, <1>7, <1>8, <1>9, <1>10, <1>11, <1>12 DEF Next

\* The stages of a run, what it has read and what it has written (test_file,
\* collect_samples): the inductive invariant behind the two theorems below.
THEOREM TestKept == Spec => []TestInv
<1>1. Init => TestInv
  BY TestInit
<1>2. TestInv /\ [Next]_vars => TestInv'
  BY TestStep
<1> QED
  BY <1>1, <1>2, PTL DEF Spec

\* Blessing a test, which writes the file (create_content) and reads it back
\* (process_content), changes neither its program nor its flavor nor whether it is
\* ignored, whatever the compiler returns and however often it changes.
THEOREM PurposeKeptHolds == Spec => []PurposeKept
<1>1. TestInv => PurposeKept
  BY DEF TestInv, PurposeInv, PurposeKept, Whole
<1> QED
  BY <1>1, TestKept, PTL

\* Until the compiler changes, no run finds the result of a blessed test incorrect, and
\* none writes the file again (test_file).  That an engine accepts the regex is not
\* said: blessing does not ask it, and create_content drops compile=false.
THEOREM BlessedStaysHolds == Spec => []BlessedStays
<1>1. TestInv => BlessedStays
  BY DEF TestInv, BlessedInv, BlessedStays, Whole
<1> QED
  BY <1>1, TestKept, PTL
=============================================================================
