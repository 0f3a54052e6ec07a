--------------------------- MODULE BindingsProofs ---------------------------
(***************************************************************************)
(* Proofs about the bindings to JavaScript: what the ranges of diagnostics *)
(* denote, and which calls panic.                                          *)
(***************************************************************************)
EXTENDS Bindings, ParserProofs

(***************************************************************************)
(* Code units.  c[i] of them are before unit i of a text.                  *)
(***************************************************************************)
Counts(t, c) ==
  /\ c \in [1 .. Len(t) + 1 -> Nat]
  /\ c[1] = 0
  /\ \A i \in 1 .. Len(t) : c[i + 1] = c[i] + Utf16Of(t[i])

LEMMA Utf16Nat ==
  ASSUME NEW u
  PROVE  Utf16Of(u) \in Nat
  BY Utf16Assumption, Bytes DEF Utf16Of

\* There is only one, so that what adds up as Utf16Count does is Utf16Count
LEMMA CountIs ==
  ASSUME NEW u, Len(u) \in Nat, NEW g \in [0 .. Len(u) -> Nat],
         g[0] = 0, \A i \in 1 .. Len(u) : g[i] = g[i - 1] + Utf16Of(u[i])
  PROVE  Utf16Count(u) = g[Len(u)]
<1> DEFINE n == Len(u)
           Total(h) == h = [i \in 0 .. n |-> IF i = 0 THEN 0 ELSE h[i - 1] + Utf16Of(u[i])]
           f == CHOOSE h : Total(h)
           Wrong == {i \in 0 .. n : f[i] # g[i]}
<1>1. Utf16Count(u) = f[n]
  BY Zenon DEF Utf16Count
<1>2. n \in Nat /\ g \in [0 .. n -> Nat] /\ g[0] = 0 /\ \A i \in 1 .. n : g[i] = g[i - 1] + Utf16Of(u[i])
  OBVIOUS
<1> HIDE DEF n
<1>3. Total(g)
  <2>1. \A i \in 0 .. n : g[i] = IF i = 0 THEN 0 ELSE g[i - 1] + Utf16Of(u[i])
    BY <1>2
  <2> QED
    BY <1>2, <2>1
<1>4. Total(f)
  <2> HIDE DEF Total
  <2> QED
    BY <1>3
<1> HIDE DEF f
<1>5. f[0] = 0 /\ \A i \in 1 .. n : f[i] = f[i - 1] + Utf16Of(u[i])
  BY <1>2, <1>4
<1>6. Wrong = {}
  <2> SUFFICES ASSUME Wrong # {} PROVE FALSE
    OBVIOUS
  <2>1. PICK k \in Wrong : \A m \in Wrong : k <= m
    <3>1. Wrong \subseteq Nat
      BY <1>2
    <3> HIDE DEF Wrong
    <3> QED
      BY <3>1, Least
  <2>2. k \in 0 .. n /\ f[k] # g[k]
    BY <2>1
  <2>3. k \in 1 .. n /\ k - 1 \in 0 .. n /\ ~(k <= k - 1)
    BY <1>2, <1>5, <2>2
  <2>4. f[k - 1] = g[k - 1]
    BY <2>1, <2>3
  <2> QED
    BY <1>2, <1>5, <2>2, <2>3, <2>4
<1>7. n \in 0 .. n
  BY <1>2
<1>8. f[n] = g[n]
  BY <1>6, <1>7
<1> HIDE DEF Total
<1> QED
  BY <1>1, <1>8 DEF n

LEMMA HasCounts ==
  ASSUME NEW t \in Texts
  PROVE  \E c : Counts(t, c)
<1> DEFINE n == Len(t)
           step == [i \in 1 .. n |-> Utf16Of(t[i])]
<1>1. n \in Nat
  BY TextLen
<1>2. step \in [1 .. n -> Nat]
  BY Utf16Nat
<1> HIDE DEF n
<1>3. PICK f \in [0 .. n -> Nat] : f[0] = 0 /\ \A i \in 1 .. n : f[i] = f[i - 1] + step[i]
  <2> HIDE DEF step
  <2> QED
    BY <1>1, <1>2, RunningSum
<1> DEFINE c == [i \in 1 .. n + 1 |-> f[i - 1]]
<1>4. c \in [1 .. n + 1 -> Nat] /\ c[1] = 0
  BY <1>1, <1>3
<1>5. \A i \in 1 .. n : c[i + 1] = c[i] + Utf16Of(t[i])
  <2> SUFFICES ASSUME NEW i \in 1 .. n PROVE c[i + 1] = c[i] + Utf16Of(t[i])
    OBVIOUS
  <2>1. c[i + 1] = f[i] /\ c[i] = f[i - 1]
    BY <1>1
  <2> QED
    BY <1>3, <2>1
<1> HIDE DEF c
<1>6. Counts(t, c)
  BY <1>4, <1>5 DEF Counts, n
<1> QED
  BY <1>6

LEMMA CountsGrow ==
  ASSUME NEW t \in Texts, NEW c, Counts(t, c),
         NEW i \in 1 .. Len(t) + 1, NEW j \in 1 .. Len(t) + 1, i <= j
  PROVE  c[i] \in Nat /\ c[j] \in Nat /\ c[i] <= c[j]
<1> DEFINE l == Len(t)
           Late == {k \in i .. l + 1 : ~(c[i] <= c[k])}
<1>1. l \in Nat /\ c \in [1 .. l + 1 -> Nat] /\ \A k \in 1 .. l : c[k + 1] = c[k] + Utf16Of(t[k])
  BY TextLen DEF Counts
<1>2. i \in 1 .. l + 1 /\ j \in i .. l + 1
  BY <1>1
<1> HIDE DEF l
<1>3. Late = {}
  <2> SUFFICES ASSUME Late # {} PROVE FALSE
    OBVIOUS
  <2>1. PICK k \in Late : \A m \in Late : k <= m
    <3>1. Late \subseteq Nat
      BY <1>2
    <3> HIDE DEF Late
    <3> QED
      BY <3>1, Least
  <2>2. k \in i .. l + 1 /\ ~(c[i] <= c[k])
    BY <2>1
  <2>3. c[i] \in Nat /\ k # i
    BY <1>1, <1>2, <2>2
  <2>4. k - 1 \in i .. l + 1 /\ k - 1 \in 1 .. l /\ ~(k <= k - 1) /\ k - 1 + 1 = k
    BY <1>1, <1>2, <2>2, <2>3
  <2>5. c[i] <= c[k - 1] /\ c[k - 1] \in Nat
    BY <1>1, <2>1, <2>4
  <2>6. c[k] = c[k - 1] + Utf16Of(t[k - 1]) /\ Utf16Of(t[k - 1]) \in Nat
    BY <1>1, <2>4, Utf16Nat
  <2> QED
    BY <2>2, <2>3, <2>5, <2>6
<1>4. c[i] <= c[j]
  BY <1>2, <1>3
<1> QED
  BY <1>1, <1>2, <1>4

\* The code units of a part of a text
LEMMA PartCount ==
  ASSUME NEW t \in Texts, NEW c, Counts(t, c),
         NEW p \in 1 .. Len(t) + 1, NEW q \in 1 .. Len(t) + 1, p <= q
  PROVE  Utf16Count(SubSeq(t, p, q - 1)) = c[q] - c[p]
<1> DEFINE u == SubSeq(t, p, q - 1)
           n == q - p
           l == Len(t)
           b == Begins(t)
           step == [i \in 1 .. n |-> Utf16Of(u[i])]
           g == [i \in 0 .. n |-> c[p + i] - c[p]]
<1>1. l \in Nat /\ n \in Nat /\ p \in Nat /\ q \in Nat /\ n = q - p /\ Positions(t, b)
  BY TextLen, BeginsPositions
<1>0. n \in Nat
  BY <1>1
<1>2. Len(u) = n /\ \A k \in 1 .. n : u[k] = t[p + k - 1]
  <2> HIDE DEF b
  <2> QED
    BY <1>1, PartPositions
<1> HIDE DEF b, u
<1>3. step \in [1 .. n -> Nat]
  BY Utf16Nat
<1>4. c \in [1 .. l + 1 -> Nat] /\ (\A k \in 1 .. l : c[k + 1] = c[k] + Utf16Of(t[k])) /\ p + n <= l + 1 /\ p >= 1
  BY <1>1 DEF Counts
<1> HIDE DEF l
<1>5. g[0] = 0 /\ \A i \in 1 .. n : g[i] = g[i - 1] + step[i]
  <2>1. g[0] = 0
    <3>1. p + 0 = p /\ p \in 1 .. l + 1
      BY <1>1, <1>4
    <3>2. c[p] \in Nat
      BY <1>4, <3>1
    <3> QED
      BY <1>1, <3>1, <3>2
  <2>2. ASSUME NEW i \in 1 .. n PROVE g[i] = g[i - 1] + step[i]
    <3>1. p + i - 1 \in 1 .. l /\ p + (i - 1) = p + i - 1 /\ p + i = p + i - 1 + 1 /\ p + i \in 1 .. l + 1
          /\ p + i - 1 \in 1 .. l + 1 /\ p \in 1 .. l + 1
      BY <1>1, <1>4, <2>2
    <3>2. c[p + i] = c[p + i - 1] + Utf16Of(t[p + i - 1]) /\ c[p] \in Nat /\ c[p + i - 1] \in Nat
      BY <1>4, <3>1
    <3>3. step[i] = Utf16Of(t[p + i - 1]) /\ step[i] \in Nat
      BY <1>2, <1>3
    <3>4. g[i] = c[p + i] - c[p] /\ g[i - 1] = c[p + i - 1] - c[p]
      BY <1>1, <3>1
    <3> HIDE DEF g, step
    <3> QED
      BY <3>2, <3>3, <3>4
  <2> QED
    BY <2>1, <2>2
<1>6. g \in [0 .. n -> Nat]
  <2>1. ASSUME NEW i \in 0 .. n PROVE c[p + i] - c[p] \in Nat
    <3>1. p \in 1 .. Len(t) + 1 /\ p + i \in 1 .. Len(t) + 1 /\ p <= p + i
      BY <1>1, <1>4 DEF l
    <3>2. c[p] \in Nat /\ c[p + i] \in Nat /\ c[p] <= c[p + i]
      BY <3>1, CountsGrow
    <3> QED
      BY <3>2
  <2> QED
    BY <2>1
<1>7. \A i \in 1 .. n : g[i] = g[i - 1] + Utf16Of(u[i])
  BY <1>5
<1>8. g[n] = c[p + n] - c[p] /\ p + n = q
  BY <1>1
<1> HIDE DEF n, g
<1>9. Utf16Count(u) = g[n]
  BY <1>0, <1>2, <1>5, <1>6, <1>7, CountIs
<1> QED
  BY <1>8, <1>9 DEF u

-----------------------------------------------------------------------------
(***************************************************************************)
(* The string that JavaScript holds                                        *)
(***************************************************************************)
\* The unit that the code unit k belongs to
UnitOf(c, l, k) == CHOOSE m \in 1 .. l : c[m] < k /\ k <= c[m + 1]

LEMMA UnitOfCount ==
  ASSUME NEW t \in Texts, NEW c, Counts(t, c)
  PROVE  /\ \A k \in 1 .. c[Len(t) + 1] :
              LET m == UnitOf(c, Len(t), k) IN m \in 1 .. Len(t) /\ c[m] < k /\ k <= c[m + 1]
         /\ \A k \in Nat, m \in 1 .. Len(t) : c[m] < k /\ k <= c[m + 1] => UnitOf(c, Len(t), k) = m
<1> DEFINE l == Len(t)
<1>1. l \in Nat /\ c \in [1 .. l + 1 -> Nat] /\ c[1] = 0
  BY TextLen DEF Counts
<1>2. ASSUME NEW k \in 1 .. c[l + 1]
      PROVE  \E m \in 1 .. l : c[m] < k /\ k <= c[m + 1]
  <2> DEFINE S == {m \in 1 .. l + 1 : k <= c[m]}
  <2>1. l + 1 \in S /\ c[l + 1] \in Nat /\ k \in Nat \ {0}
    <3>1. l + 1 \in 1 .. l + 1
      BY <1>1
    <3> HIDE DEF l
    <3>2. c[l + 1] \in Nat
      BY <1>1, <3>1
    <3> QED
      BY <1>2, <3>1, <3>2
  <2>2. PICK m \in S : \A x \in S : m <= x
    <3>1. S \subseteq Nat
      BY <1>1
    <3> HIDE DEF S
    <3> QED
      BY <2>1, <3>1, Least
  <2> HIDE DEF l
  <2>3. m \in 1 .. l + 1 /\ k <= c[m] /\ m # 1
    BY <1>1, <2>1, <2>2
  <2>4. m - 1 \in 1 .. l /\ m - 1 \in 1 .. l + 1 /\ ~(m <= m - 1) /\ m - 1 + 1 = m
    BY <1>1, <2>3
  <2>5. ~(k <= c[m - 1]) /\ c[m - 1] \in Nat
    BY <1>1, <2>2, <2>4
  <2>6. c[m - 1] < k /\ k <= c[m - 1 + 1]
    BY <2>1, <2>3, <2>4, <2>5
  <2> QED
    BY <2>4, <2>6
<1>3. ASSUME NEW k \in Nat, NEW m \in 1 .. l, NEW n \in 1 .. l,
             c[m] < k, k <= c[m + 1], c[n] < k, k <= c[n + 1]
      PROVE  ~(m < n)
  <2> SUFFICES ASSUME m < n PROVE FALSE
    OBVIOUS
  <2>1. m + 1 \in 1 .. Len(t) + 1 /\ n \in 1 .. Len(t) + 1 /\ m + 1 <= n
    BY <1>1, <1>3
  <2>2. c[m + 1] \in Nat /\ c[n] \in Nat /\ c[m + 1] <= c[n]
    BY <2>1, CountsGrow
  <2> QED
    BY <1>3, <2>2
<1>4. ASSUME NEW k \in Nat, NEW m \in 1 .. l, c[m] < k, k <= c[m + 1]
      PROVE  UnitOf(c, l, k) = m
  <2>1. UnitOf(c, l, k) \in 1 .. l /\ c[UnitOf(c, l, k)] < k /\ k <= c[UnitOf(c, l, k) + 1]
    <3> HIDE DEF l
    <3> QED
      BY <1>4 DEF UnitOf
  <2> DEFINE n == UnitOf(c, l, k)
  <2> HIDE DEF n
  <2>2. ~(m < n) /\ ~(n < m)
    BY <1>3, <1>4, <2>1 DEF n
  <2> QED
    BY <2>1, <2>2 DEF n
<1>5. ASSUME NEW k \in 1 .. c[l + 1]
      PROVE  UnitOf(c, l, k) \in 1 .. l /\ c[UnitOf(c, l, k)] < k /\ k <= c[UnitOf(c, l, k) + 1]
  <2> HIDE DEF l
  <2> QED
    BY <1>2 DEF UnitOf
<1> QED
  BY <1>4, <1>5

\* Concatenated, where the lengths have names
LEMMA RowsConcatenated ==
  ASSUME NEW front, NEW row, NEW a, NEW n, IsStack(front), IsStack(row), Len(front) = a, Len(row) = n
  PROVE  /\ front \o row \in [1 .. a + n -> Elements(front \o row)]
         /\ \A k \in 1 .. a : (front \o row)[k] = front[k]
         /\ \A k \in 1 .. n : (front \o row)[a + k] = row[k]
<1> DEFINE both == front \o row
<1>1. IsStack(both) /\ Len(both) = a + n
  BY Concatenated
<1>2. \A k \in 1 .. a : both[k] = front[k]
  BY Concatenated
<1>3. \A k \in 1 .. n : both[a + k] = row[k]
  BY Concatenated
<1> HIDE DEF both
<1>4. both \in [1 .. a + n -> Elements(both)]
  BY <1>1, LenProperties DEF IsStack, Elements
<1> QED
  BY <1>2, <1>3, <1>4 DEF both

Joins(whole, front, a, row, n) ==
  (\A k \in 1 .. a : whole[k] = front[k]) /\ \A k \in 1 .. n : whole[a + k] = row[k]

LEMMA RowAdded ==
  ASSUME NEW a \in Nat, NEW n \in Nat, NEW T,
         NEW front \in [1 .. a -> T], NEW row \in [1 .. n -> T], NEW whole \in [1 .. a + n -> T],
         Joins(whole, front, a, row, n)
  PROVE  whole = front \o row
<1> DEFINE both == front \o row
<1>1. IsStack(front) /\ Len(front) = a
  BY RowIsStack
<1>2. IsStack(row) /\ Len(row) = n
  BY RowIsStack
<1>3. both \in [1 .. a + n -> Elements(both)]
  BY <1>1, <1>2, RowsConcatenated
<1>7. \A k \in 1 .. a : both[k] = front[k]
  BY <1>1, <1>2, RowsConcatenated
<1>8. \A k \in 1 .. n : both[a + k] = row[k]
  BY <1>1, <1>2, RowsConcatenated
<1> HIDE DEF both
<1>4. both = [k \in 1 .. a + n |-> both[k]]
  BY <1>3
<1>9. (\A k \in 1 .. a : whole[k] = front[k]) /\ \A k \in 1 .. n : whole[a + k] = row[k]
  BY DEF Joins
<1>5. ASSUME NEW k \in 1 .. a + n PROVE whole[k] = both[k]
  <2>1. CASE k \in 1 .. a
    BY <1>9, <1>7, <2>1
  <2>2. CASE k \notin 1 .. a
    <3>1. k - a \in 1 .. n /\ a + (k - a) = k
      BY <2>2
    <3> QED
      BY <1>9, <1>8, <3>1
  <2> QED
    BY <2>1, <2>2
<1>6. [k \in 1 .. a + n |-> whole[k]] = [k \in 1 .. a + n |-> both[k]]
  BY <1>5, Zenon
<1> QED
  <2>1. whole = [k \in 1 .. a + n |-> whole[k]]
    OBVIOUS
  <2> QED
    BY <1>4, <1>6, <2>1, Zenon DEF both

\* The code units of a text, with the byte its character is at
Rows(t, b) == [i \in DOMAIN t |-> [k \in 1 .. Utf16Of(t[i]) |-> b[i]]]

LEMMA CodeUnitsAre ==
  ASSUME NEW t \in Texts, NEW b, Positions(t, b), NEW c, Counts(t, c)
  PROVE  LET s == FlattenSeq(Rows(t, b)) IN
         /\ Len(s) = c[Len(t) + 1] /\ DOMAIN s = 1 .. c[Len(t) + 1]
         /\ \A k \in DOMAIN s : s[k] = b[UnitOf(c, Len(t), k)]
<1> DEFINE l == Len(t)
           rows == Rows(t, b)
           w == [i \in 1 .. l |-> [k \in 1 .. c[i + 1] |-> b[UnitOf(c, l, k)]]]
<1>1. /\ l \in Nat /\ DOMAIN t = 1 .. l /\ c \in [1 .. l + 1 -> Nat] /\ c[1] = 0
      /\ \A i \in 1 .. l : c[i + 1] = c[i] + Utf16Of(t[i])
      /\ b \in [1 .. l + 1 -> Nat]
  BY TextLen DEF Counts, Positions
<1>2. DOMAIN rows = 1 .. l /\ Len(rows) = l
  BY <1>1 DEF Rows
<1>3. \A i \in 1 .. l : rows[i] = [k \in 1 .. Utf16Of(t[i]) |-> b[i]]
  BY <1>1 DEF Rows
<1>4. \A k \in Nat, m \in 1 .. l : c[m] < k /\ k <= c[m + 1] => UnitOf(c, l, k) = m
  BY UnitOfCount
<1>5. \A i \in 1 .. l : c[i + 1] \in Nat /\ c[i] \in Nat /\ Utf16Of(t[i]) \in Nat
  <2> HIDE DEF l
  <2> QED
    BY <1>1, Utf16Nat
<1> HIDE DEF rows, l
<1>6. CASE l = 0
  <2>1. rows = <<>>
    BY <1>1, <1>2, <1>6 DEF rows, Rows
  <2>2. FlattenSeq(rows) = <<>>
    BY <2>1 DEF FlattenSeq
  <2>3. c[l + 1] = 0
    BY <1>1, <1>6
  <2> QED
    BY <2>2, <2>3 DEF l, rows
<1>7. CASE l # 0
  <2>1. w[1] = rows[1]
    <3>1. 1 \in 1 .. l /\ c[2] = 0 + Utf16Of(t[1]) /\ Utf16Of(t[1]) \in Nat
      BY <1>1, <1>5, <1>7
    <3>2. ASSUME NEW k \in 1 .. c[2] PROVE UnitOf(c, l, k) = 1
      <4>1. k \in Nat /\ c[1] < k /\ k <= c[1 + 1]
        BY <1>1, <3>1
      <4> QED
        BY <1>4, <3>1, <4>1
    <3>3. w[1] = [k \in 1 .. c[2] |-> b[UnitOf(c, l, k)]]
      BY <3>1
    <3>4. c[2] = Utf16Of(t[1])
      BY <3>1
    <3> HIDE DEF w
    <3> QED
      BY <1>3, <3>1, <3>2, <3>3, <3>4
  <2>2. ASSUME NEW i \in 2 .. l PROVE w[i] = w[i - 1] \o rows[i]
    <3> DEFINE s == w[i - 1]
               r == rows[i]
               u == Utf16Of(t[i])
               v == w[i]
    <3>1. /\ i \in 1 .. l /\ i - 1 \in 1 .. l /\ i - 1 + 1 = i
          /\ c[i + 1] = c[i] + u /\ u \in Nat /\ c[i] \in Nat /\ i + 1 \in 1 .. l + 1
      BY <1>1, <1>5
    <3>2. /\ s = [k \in 1 .. c[i] |-> b[UnitOf(c, l, k)]]
          /\ v = [k \in 1 .. c[i] + u |-> b[UnitOf(c, l, k)]]
          /\ r = [k \in 1 .. u |-> b[i]]
      BY <1>3, <3>1
    <3> HIDE DEF s, r, u, w, v
    <3>3. \A k \in 1 .. c[i] : v[k] = s[k]
      BY <3>1, <3>2
    <3>4. ASSUME NEW k \in 1 .. u PROVE v[c[i] + k] = r[k]
      <4>1. c[i] + k \in Nat /\ c[i] < c[i] + k /\ c[i] + k <= c[i + 1] /\ c[i] + k \in 1 .. c[i] + u
        BY <3>1
      <4>2. UnitOf(c, l, c[i] + k) = i
        BY <1>4, <3>1, <4>1
      <4> QED
        BY <3>2, <4>1, <4>2
    <3> DEFINE T == {b[UnitOf(c, l, k)] : k \in 1 .. c[i] + u} \cup {b[i]}
    <3>5. s \in [1 .. c[i] -> T] /\ r \in [1 .. u -> T] /\ v \in [1 .. c[i] + u -> T]
      BY <3>1, <3>2
    <3> HIDE DEF T
    <3>6. v = s \o r
      <4>1. Joins(v, s, c[i], r, u)
        BY <3>3, <3>4 DEF Joins
      <4> QED
        BY <3>1, <3>5, <4>1, RowAdded
    <3> QED
      BY <3>6 DEF v, s, r
  <2>3. l \in Nat \ {0} /\ w \in [1 .. l -> {w[i] : i \in 1 .. l}]
    BY <1>1, <1>7
  <2>4. w[l] = [k \in 1 .. c[l + 1] |-> b[UnitOf(c, l, k)]]
    BY <2>3
  <2>5. c[l + 1] \in Nat
    BY <1>1, <1>5, <1>7
  <2> HIDE DEF w
  <2>6. FlattenSeq(rows) = w[l]
    <3>1. \A i \in 2 .. l : w[i] = w[i - 1] \o rows[i]
      BY <2>2
    <3>2. l \in Nat \ {0} /\ Len(rows) = l
      BY <1>2, <2>3
    <3> DEFINE T == {w[i] : i \in 1 .. l}
    <3>3. w \in [1 .. l -> T]
      BY <2>3
    <3> HIDE DEF T
    <3> QED
      <4>1. Grows(rows, l, w)
        BY <2>1, <3>1 DEF Grows
      <4> QED
        BY <3>2, <3>3, <4>1, Flattened
  <2>7. LET s == FlattenSeq(rows) IN
        /\ Len(s) = c[l + 1] /\ DOMAIN s = 1 .. c[l + 1]
        /\ \A k \in DOMAIN s : s[k] = b[UnitOf(c, l, k)]
    BY <2>4, <2>5, <2>6
  <2> QED
    BY <2>7 DEF l, rows
<1> QED
  BY <1>6, <1>7

\* A cut at a unit of the text and the cut at its code units are the same
LEMMA CutsAgree ==
  ASSUME NEW t \in Texts, NEW b, Positions(t, b), NEW c, Counts(t, c),
         NEW p \in 1 .. Len(t) + 1, NEW m \in 1 .. Len(t), NEW k \in Nat, c[m] < k, k <= c[m + 1]
  PROVE  k <= c[p] <=> b[m] < b[p]
<1> DEFINE l == Len(t)
<1>1. l \in Nat /\ m \in 1 .. l + 1 /\ m + 1 \in 1 .. l + 1 /\ p \in 1 .. l + 1 /\ p \in Nat /\ m \in Nat
  BY TextLen
<1>2. b[m] \in Nat /\ b[p] \in Nat /\ c[m] \in Nat /\ c[p] \in Nat /\ c[m + 1] \in Nat
  <2>1. b \in [1 .. l + 1 -> Nat] /\ c \in [1 .. l + 1 -> Nat]
    BY DEF Positions, Counts
  <2> HIDE DEF l
  <2> QED
    BY <1>1, <2>1
<1>3. CASE m < p
  <2>1. m + 1 <= p
    BY <1>1, <1>3
  <2>2. c[m + 1] <= c[p]
    BY <1>1, <2>1, CountsGrow
  <2>3. b[m] < b[p]
    BY <1>1, <1>3, PositionsGrow
  <2> QED
    BY <1>2, <2>2, <2>3
<1>4. CASE ~(m < p)
  <2>1. p <= m
    BY <1>1, <1>4
  <2>2. c[p] <= c[m]
    BY <1>1, <2>1, CountsGrow
  <2>3. p < m => b[p] < b[m]
    BY <1>1, PositionsGrow
  <2>4. p = m => b[p] = b[m]
    OBVIOUS
  <2>5. ~(b[m] < b[p])
    BY <1>1, <1>2, <2>1, <2>3, <2>4
  <2> QED
    BY <1>2, <2>2, <2>5
<1> QED
  BY <1>3, <1>4

Denotes(range) ==
  /\ 0 <= range.start /\ range.start <= range.end /\ range.end <= Len(CodeUnits)
  /\ \A k \in DOMAIN CodeUnits :
       /\ k <= range.start <=> CodeUnits[k] < range.place[1]
       /\ k <= range.end <=> CodeUnits[k] < range.place[2]

LEMMA ConvertDenotes ==
  ASSUME TilesInv, NEW d, AtCharacters(d)
  PROVE  Denotes(Convert(d))
<1> DEFINE l == Len(text)
           p == UnitAt(begin, d.start)
           q == UnitAt(begin, d.end)
           range == Convert(d)
           s == CodeUnits
<1>1. text \in Texts /\ Positions(text, begin) /\ l \in Nat
  BY BeginsPositions, TextLen DEF TilesInv
<1>2. p \in 1 .. l + 1 /\ q \in 1 .. l + 1 /\ begin[p] = d.start /\ begin[q] = d.end /\ d.start <= d.end
  BY AtUnit DEF AtCharacters
<1>3. PICK c : Counts(text, c)
  BY <1>1, HasCounts
<1>4. range = [start |-> Utf16Count(SubSeq(text, 1, p - 1)),
               end |-> Utf16Count(SubSeq(text, 1, p - 1)) + Utf16Count(SubSeq(text, p, q - 1)),
               place |-> <<d.start, d.end>>]
  BY Zenon DEF Convert, SliceOf
<1> HIDE DEF p, q, range
<1>5. p <= q
  <2> SUFFICES ASSUME q < p PROVE FALSE
    BY <1>1, <1>2
  <2>1. begin[q] \in Nat /\ begin[p] \in Nat /\ begin[q] < begin[p]
    BY <1>1, <1>2, PositionsGrow
  <2> QED
    BY <1>2, <2>1
<1>6. 1 \in 1 .. l + 1 /\ l + 1 \in 1 .. l + 1 /\ 1 <= p /\ p <= l + 1 /\ q <= l + 1
  BY <1>1, <1>2
<1>7. Utf16Count(SubSeq(text, 1, p - 1)) = c[p] - c[1]
  BY <1>1, <1>2, <1>3, <1>6, PartCount
<1>8. Utf16Count(SubSeq(text, p, q - 1)) = c[q] - c[p]
  BY <1>1, <1>2, <1>3, <1>5, PartCount
<1>9. c[1] = 0 /\ c[p] \in Nat /\ c[q] \in Nat /\ c[l + 1] \in Nat /\ c[p] <= c[q] /\ c[q] <= c[l + 1]
  <2>1. c[1] = 0
    BY <1>3 DEF Counts
  <2>2. c[p] \in Nat /\ c[q] \in Nat /\ c[p] <= c[q]
    BY <1>1, <1>2, <1>3, <1>5, CountsGrow
  <2>3. c[l + 1] \in Nat /\ c[q] <= c[l + 1]
    BY <1>1, <1>2, <1>3, <1>6, CountsGrow
  <2> QED
    BY <2>1, <2>2, <2>3
<1>10. range.start = c[p] /\ range.end = c[q] /\ range.place[1] = begin[p] /\ range.place[2] = begin[q]
  BY <1>2, <1>4, <1>7, <1>8, <1>9
<1>11. /\ Len(s) = c[l + 1] /\ DOMAIN s = 1 .. c[l + 1]
       /\ \A k \in DOMAIN s : s[k] = begin[UnitOf(c, l, k)]
  <2>1. s = FlattenSeq(Rows(text, begin))
    BY Zenon DEF CodeUnits, Rows
  <2> QED
    BY <1>1, <1>3, <2>1, CodeUnitsAre
<1>12. ASSUME NEW k \in DOMAIN s
       PROVE  /\ k <= c[p] <=> s[k] < begin[p]
              /\ k <= c[q] <=> s[k] < begin[q]
  <2> DEFINE m == UnitOf(c, l, k)
  <2>1. k \in 1 .. c[l + 1] /\ k \in Nat /\ s[k] = begin[m]
    BY <1>9, <1>11
  <2>2. m \in 1 .. l /\ c[m] < k /\ k <= c[m + 1]
    BY <1>1, <1>3, <2>1, UnitOfCount
  <2> HIDE DEF m
  <2>3. k <= c[p] <=> begin[m] < begin[p]
    BY <1>1, <1>2, <1>3, <2>1, <2>2, CutsAgree
  <2>4. k <= c[q] <=> begin[m] < begin[q]
    BY <1>1, <1>2, <1>3, <2>1, <2>2, CutsAgree
  <2> QED
    BY <2>1, <2>3, <2>4
<1> HIDE DEF s
<1>13. /\ 0 <= range.start /\ range.start <= range.end /\ range.end <= Len(s)
       /\ \A k \in DOMAIN s :
            /\ k <= range.start <=> s[k] < range.place[1]
            /\ k <= range.end <=> s[k] < range.place[2]
  BY <1>9, <1>10, <1>11, <1>12
<1> QED
  BY <1>13 DEF Denotes, s, range

\* After a call that returns diagnostics, or before it, every range denotes its place
RangesInv == TilesInv /\ RangesDenote /\ (call = "called" => ranges = <<>>)

LEMMA RangesAre == RangesDenote <=> \A i \in DOMAIN ranges : Denotes(ranges[i])
  BY DEF RangesDenote, Denotes

LEMMA NoRanges == ranges = <<>> => RangesDenote
  BY DEF RangesDenote

LEMMA DenotesKept ==
  ASSUME text' = text, begin' = begin, ranges' = ranges, RangesDenote
  PROVE  RangesDenote'
  BY DEF RangesDenote, CodeUnits

LEMMA ReturnDenotes ==
  ASSUME TilesInv, NEW list, ReturnDiagnostics(list)
  PROVE  RangesDenote'
<1>0. text' = text /\ begin' = begin /\ CodeUnits' = CodeUnits
  BY DEF ReturnDiagnostics, Finish, parserVars, lexVars, CodeUnits
<1>1. CASE \E i \in DOMAIN list : ~AtCharacters(list[i])
  <2>1. ranges' = <<>>
    BY <1>1 DEF ReturnDiagnostics, Finish
  <2> QED
    BY <2>1 DEF RangesDenote
<1>2. CASE \A i \in DOMAIN list : AtCharacters(list[i])
  <2>1. ranges' = [i \in DOMAIN list |-> Convert(list[i])]
    BY <1>2 DEF ReturnDiagnostics, Finish
  <2>2. \A i \in DOMAIN list : Denotes(Convert(list[i]))
    BY <1>2, ConvertDenotes
  <2>3. \A i \in DOMAIN ranges' : Denotes(ranges'[i])
    BY <2>1, <2>2
  <2> QED
    BY <1>0, <2>3 DEF RangesDenote, Denotes
<1> QED
  BY <1>1, <1>2

LEMMA InitRanges == BindingsInit => RangesInv
  BY InitTiles, NoRanges DEF BindingsInit, RangesInv

LEMMA StepRanges == RangesInv /\ [BindingsNext]_vars => RangesInv'
<1> SUFFICES ASSUME RangesInv, [BindingsNext]_vars PROVE RangesInv'
  OBVIOUS
<1>1. TilesInv /\ RangesDenote /\ (call = "called" => ranges = <<>>)
  BY DEF RangesInv
<1>2. ASSUME UNCHANGED parserVars PROVE TilesInv'
  BY <1>1, <1>2, StepTiles
<1>3. ASSUME NEW how, how # "called", Finish(how, <<>>) PROVE RangesInv'
  <2>1. ranges' = <<>> /\ UNCHANGED parserVars
    BY <1>3 DEF Finish
  <2> QED
    BY <1>2, <2>1 DEF RangesInv, RangesDenote
<1>4. ASSUME NEW list, ReturnDiagnostics(list) PROVE RangesInv'
  <2>1. UNCHANGED parserVars /\ call' # "called"
    BY <1>4 DEF ReturnDiagnostics, Finish
  <2>2. RangesDenote'
    BY <1>1, <1>4, ReturnDenotes
  <2> QED
    BY <1>2, <2>1, <2>2 DEF RangesInv
<1>5. CASE UnknownFlavor
  BY <1>3, <1>5 DEF UnknownFlavor
<1>6. CASE Parse
  <2>1. [ParserStep]_parserVars /\ call = "called" /\ ranges' = ranges /\ call' = call
    BY <1>6 DEF Parse
  <2>2. TilesInv'
    BY <1>1, <2>1, StepTiles
  <2>3. ranges' = <<>>
    BY <1>1, <2>1
  <2> QED
    BY <2>2, <2>3 DEF RangesInv, RangesDenote
<1>7. CASE ParseFailed
  BY <1>3, <1>4, <1>7 DEF ParseFailed
<1>8. CASE Compile
  BY <1>3, <1>4, <1>8 DEF Compile
<1>9. CASE CallEnded \/ UNCHANGED vars
  <2>1. UNCHANGED parserVars /\ call' = call /\ ranges' = ranges
    BY <1>9 DEF CallEnded, vars
  <2>2. text' = text /\ begin' = begin
    BY <2>1 DEF parserVars, lexVars
  <2> QED
    BY <1>1, <1>2, <2>1, <2>2, DenotesKept DEF RangesInv
<1> QED
  BY <1>5, <1>6, <1>7, <1>8, <1>9 DEF BindingsNext

\* For every source, every flavor and every length of a character in bytes and in code
\* units: the range of each diagnostic that JavaScript gets cuts the string it holds where
\* the place of the diagnostic cuts the source (pomsky-wasm/src/lib.rs:95-122).
THEOREM RangesDenoteHolds == BindingsSpec => []RangesDenote
<1>1. RangesInv => RangesDenote
  BY DEF RangesInv
<1> QED
  BY <1>1, InitRanges, StepRanges, PTL DEF BindingsSpec

-----------------------------------------------------------------------------
(***************************************************************************)
(* Which calls panic                                                       *)
(***************************************************************************)
\* The escape that is invalid is at a backslash
LEMMA InvalidEscapeAt ==
  ASSUME NEW units, Len(units) \in Nat, InvalidEscape(units) # 0
  PROVE  InvalidEscape(units) \in 1 .. Len(units) /\ units[InvalidEscape(units)] = "\\"
<1> DEFINE n == Len(units)
           m == n + 1
           known == {"\\", "\""}
           bad(i) == i = n \/ units[i + 1] \notin known
           Stop == {i \in 1 .. m : i > n \/ (units[i] = "\\" /\ bad(i))}
           value == [i \in 1 .. m |-> IF i > n THEN 0 ELSE i]
           later == [i \in 1 .. m |-> IF units[i] # "\\" THEN i + 1 ELSE i + 2]
           V == {0} \cup {i \in 1 .. n : units[i] = "\\"}
           Total(h) == h = [i \in 1 .. m |->
                              IF i > n THEN 0
                              ELSE IF units[i] # "\\" THEN h[i + 1]
                              ELSE IF i = n \/ units[i + 1] \notin known THEN i
                              ELSE h[i + 2]]
           from == CHOOSE h : Total(h)
<1>1. InvalidEscape(units) = from[1]
  BY Zenon DEF InvalidEscape
<1>2. n \in Nat /\ m \in Nat /\ m = n + 1 /\ 1 \in 1 .. m
  OBVIOUS
<1> HIDE DEF known, n, m, from
<1>3. \A i \in 1 .. m : IF i \in Stop THEN value[i] \in V ELSE later[i] \in i + 1 .. m
  <2> SUFFICES ASSUME NEW i \in 1 .. m PROVE IF i \in Stop THEN value[i] \in V ELSE later[i] \in i + 1 .. m
    OBVIOUS
  <2>1. CASE i > n
    BY <1>2, <2>1
  <2>2. CASE ~(i > n)
    <3>1. i \in 1 .. n /\ i + 1 \in i + 1 .. m /\ (i # n => i + 2 \in i + 1 .. m)
      BY <1>2, <2>2
    <3> QED
      BY <2>2, <3>1
  <2> QED
    BY <2>1, <2>2
<1>4. \E g \in [1 .. m -> V] : \A i \in 1 .. m : g[i] = IF i \in Stop THEN value[i] ELSE g[later[i]]
  <2>1. Advances(1, m, Stop, value, later, V)
    BY <1>3 DEF Advances
  <2>2. 1 \in Nat
    OBVIOUS
  <2> HIDE DEF Stop, value, later, V
  <2> QED
    BY <1>2, <2>1, <2>2, Search
<1>5. PICK g \in [1 .. m -> V] : \A i \in 1 .. m : g[i] = IF i \in Stop THEN value[i] ELSE g[later[i]]
  BY <1>4
<1>6. Total(g)
  <2>1. ASSUME NEW i \in 1 .. m
        PROVE  g[i] = IF i > n THEN 0
                      ELSE IF units[i] # "\\" THEN g[i + 1]
                      ELSE IF i = n \/ units[i + 1] \notin known THEN i
                      ELSE g[i + 2]
    <3>1. /\ value[i] = IF i > n THEN 0 ELSE i
          /\ later[i] = IF units[i] # "\\" THEN i + 1 ELSE i + 2
          /\ i \in Stop <=> i > n \/ (units[i] = "\\" /\ bad(i))
      OBVIOUS
    <3> HIDE DEF value, later, Stop
    <3> QED
      BY <1>5, <3>1
  <2>2. [i \in 1 .. m |-> g[i]] = [i \in 1 .. m |->
                              IF i > n THEN 0
                              ELSE IF units[i] # "\\" THEN g[i + 1]
                              ELSE IF i = n \/ units[i + 1] \notin known THEN i
                              ELSE g[i + 2]]
    BY <2>1, Zenon
  <2>3. g = [i \in 1 .. m |-> g[i]]
    OBVIOUS
  <2> QED
    BY <2>2, <2>3, Zenon
<1>7. Total(from)
  <2> HIDE DEF Total
  <2> QED
    BY <1>6 DEF from
<1>8. \A i \in 1 .. m : from[i] = IF i > n THEN 0
                              ELSE IF units[i] # "\\" THEN from[i + 1]
                              ELSE IF i = n \/ units[i + 1] \notin known THEN i
                              ELSE from[i + 2]
  BY <1>7, Zenon
<1> DEFINE Good == {i \in 1 .. m : from[i] \in V}
<1>9. \A i \in 1 .. m : (\A k \in i + 1 .. m : k \in Good) => i \in Good
  <2> SUFFICES ASSUME NEW i \in 1 .. m, \A k \in i + 1 .. m : k \in Good PROVE from[i] \in V
    OBVIOUS
  <2>1. CASE i > n
    BY <1>8, <2>1
  <2>2. CASE ~(i > n)
    <3>1. i \in 1 .. n /\ i + 1 \in i + 1 .. m /\ (i # n => i + 2 \in i + 1 .. m)
      BY <1>2, <2>2
    <3>2. from[i + 1] \in V /\ (i # n => from[i + 2] \in V)
      BY <3>1
    <3>3. units[i] = "\\" => i \in V
      BY <3>1
    <3> HIDE DEF V
    <3> QED
      BY <1>8, <2>2, <3>2, <3>3
  <2> QED
    BY <2>1, <2>2
<1>10. \A i \in 1 .. m : i \in Good
  <2>1. 1 \in Nat
    OBVIOUS
  <2> HIDE DEF Good
  <2> QED
    BY <1>2, <1>9, <2>1, Downwards
<1>11. from[1] \in V
  BY <1>2, <1>10
<1> QED
  BY <1>1, <1>11 DEF n

\* The place of a help on an escape that is invalid begins at a backslash, and
\* there is a unit after it
LEMMA EscapePlace ==
  ASSUME TilesInv, NEW e, Placed(tokens, e), e.kind = "InvalidEscapeInString"
  PROVE  \E u \in 1 .. Len(text) - 1 :
           /\ text[u] = "\\"
           /\ WithHelp(e) = [kind |-> e.kind, start |-> begin[u], end |-> begin[u] + 2]
<1> DEFINE l == Len(text)
<1>1. PICK i \in DOMAIN tokens :
        /\ e.start = tokens[i].start /\ e.end = tokens[i].end
        /\ InvalidEscape(Inner(tokens[i].units)) # 0
  <2>1. Len(tokens) \in Nat /\ DOMAIN tokens = 1 .. Len(tokens)
    BY StackLen DEF TilesInv
  <2> QED
    BY <2>1 DEF Placed, Helps
<1>2. PICK p \in 1 .. l + 1, q \in 1 .. l + 1 :
        /\ tokens[i].start = begin[p] /\ tokens[i].end = begin[q] /\ p <= q
        /\ UnitAt(begin, tokens[i].start) = p /\ UnitAt(begin, tokens[i].end) = q
        /\ tokens[i].units = SubSeq(text, p, q - 1)
  BY TokenUnits
<1> DEFINE slice == SubSeq(text, p, q - 1)
           inner == Inner(slice)
           x == InvalidEscape(inner)
           n == q - p
<1>3. text \in Texts /\ Positions(text, begin) /\ l \in Nat /\ n \in Nat /\ p \in Nat /\ q \in Nat
  <2>1. text \in Texts /\ Positions(text, begin) /\ l \in Nat
    BY BeginsPositions, TextLen DEF TilesInv
  <2> QED
    BY <1>2, <2>1
<1>4. SliceOf(e) = slice /\ x # 0
  BY <1>1, <1>2 DEF SliceOf
<1>5. /\ Len(slice) = n /\ slice \in Texts
      /\ \A k \in 1 .. n : slice[k] = text[p + k - 1]
      /\ \A k \in 1 .. n + 1 : Begins(slice)[k] = begin[p + k - 1] - begin[p]
  <2>1. slice \in Texts
    <3>1. \A k \in p .. q - 1 : k \in 1 .. l
      BY <1>3
    <3>2. text \in Seq(Units) /\ \A k \in p .. q - 1 : text[k] \in Units
      BY <1>3, <3>1, TextLen DEF Texts
    <3>3. p \in 1 .. l + 1 /\ q - 1 \in p - 1 .. l
      BY <1>2, <1>3
    <3> QED
      BY <1>3, <3>2, <3>3, SubSeqProperties DEF Texts
  <2>2. Len(slice) = n
    BY <1>2, <1>3, PartPositions
  <2>3. \A k \in 1 .. n : slice[k] = text[p + k - 1]
    BY <1>2, <1>3, PartPositions
  <2>4. \A k \in 1 .. n + 1 : Begins(slice)[k] = begin[p + k - 1] - begin[p]
    BY <1>2, <1>3, PartPositions
  <2> QED
    BY <2>1, <2>2, <2>3, <2>4
<1> HIDE DEF slice
<1>6. /\ Len(inner) \in Nat
      /\ \A k \in 1 .. Len(inner) : k + 1 \in 1 .. n - 1 /\ inner[k] = slice[k + 1]
  <2>1. CASE n < 3
    <3>1. inner = <<>>
      <4>1. n - 1 < 2 /\ n - 1 \in Int /\ 2 \in Int
        BY <1>3, <2>1
      <4> QED
        BY <1>5, <4>1, SubSeqEmpty DEF Inner
    <3> QED
      BY <3>1
  <2>2. CASE ~(n < 3)
    <3>1. slice \in Seq(Units) /\ Len(slice) = n
      BY <1>5 DEF Texts
    <3>2. /\ Len(inner) = n - 2 /\ \A k \in 1 .. n - 2 : inner[k] = slice[2 + k - 1]
      <4>1. 2 \in 1 .. Len(slice) + 1 /\ n - 1 \in 2 - 1 .. Len(slice)
        BY <1>3, <2>2, <3>1
      <4>2. \A k \in 2 .. n - 1 : slice[k] \in Units
        BY <1>5, TextLen
      <4>3. /\ Len(inner) = IF 2 <= n - 1 THEN n - 1 - 2 + 1 ELSE 0
            /\ \A k \in 1 .. n - 1 - 2 + 1 : inner[k] = slice[2 + k - 1]
        BY <3>1, <4>1, <4>2, SubSeqProperties DEF Inner
      <4> QED
        BY <1>3, <2>2, <4>3
    <3> QED
      BY <1>3, <2>2, <3>2
  <2> QED
    BY <2>1, <2>2
<1> HIDE DEF inner
<1>7. x \in 1 .. Len(inner) /\ inner[x] = "\\"
  BY <1>4, <1>6, InvalidEscapeAt
<1> HIDE DEF x
<1>8. x \in Nat /\ x + 1 \in 1 .. n - 1 /\ x + 1 \in 1 .. n /\ x + 1 \in 1 .. n + 1 /\ slice[x + 1] = "\\"
  BY <1>3, <1>6, <1>7
<1>9. p + (x + 1) - 1 = p + x /\ p + x \in 1 .. l - 1 /\ p + x \in 1 .. l + 1
  BY <1>2, <1>3, <1>8
<1>10. text[p + x] = "\\" /\ Begins(slice)[x + 1] = begin[p + x] - begin[p]
  BY <1>5, <1>8, <1>9
<1>11. begin[p] \in Nat /\ begin[p + x] \in Nat
  <2> HIDE DEF l
  <2> QED
    BY <1>2, <1>3, <1>9 DEF Positions, l
<1>12. EscapeOffset(SliceOf(e)) = begin[p + x] - begin[p] + 1
  BY <1>4, <1>10 DEF EscapeOffset, x, inner
<1>13. WithHelp(e) = [kind |-> e.kind, start |-> e.start + EscapeOffset(SliceOf(e)) - 1,
                      end |-> e.start + EscapeOffset(SliceOf(e)) + 1]
  BY DEF WithHelp
<1>14. /\ e.start + EscapeOffset(SliceOf(e)) - 1 = begin[p + x]
       /\ e.start + EscapeOffset(SliceOf(e)) + 1 = begin[p + x] + 2
  BY <1>1, <1>2, <1>11, <1>12
<1> QED
  BY <1>9, <1>10, <1>13, <1>14

\* A diagnostic cuts a character exactly where its help narrows it to a backslash and
\* a part of the next character
LEMMA OnlyEscapesCut ==
  ASSUME TilesInv, text # <<>>, NEW e, Place(e)
  PROVE  ~AtCharacters(FromParseError(e)) <=> CutsCharacter(FromParseError(e))
<1>1. RangeOf(e) = e /\ AtCharacters(e)
  BY PlainError
<1>2. CASE e.kind # "InvalidEscapeInString"
  <2>1. FromParseError(e) = e
    BY <1>1, <1>2 DEF FromParseError, WithHelp
  <2> QED
    BY <1>1, <1>2, <2>1 DEF CutsCharacter
<1>3. CASE e.kind = "InvalidEscapeInString"
  <2> DEFINE d == FromParseError(e)
             l == Len(text)
  <2>1. Placed(tokens, e)
    BY <1>3 DEF Place, HelpKinds
  <2>2. PICK u \in 1 .. l - 1 :
          text[u] = "\\" /\ WithHelp(e) = [kind |-> e.kind, start |-> begin[u], end |-> begin[u] + 2]
    BY <1>3, <2>1, EscapePlace
  <2>3. d.kind = "InvalidEscapeInString" /\ d.start = begin[u] /\ d.end = begin[u] + 2
    BY <1>1, <1>3, <2>2 DEF FromParseError
  <2> HIDE DEF d
  <2>4. text \in Texts /\ Positions(text, begin) /\ l \in Nat
    BY BeginsPositions, TextLen DEF TilesInv
  <2>5. /\ u \in 1 .. l /\ u + 1 \in 1 .. l /\ u + 2 \in 1 .. l + 1 /\ u + 1 + 1 = u + 2
        /\ u \in 1 .. l + 1 /\ u + 1 \in 1 .. l + 1
    BY <2>4
  <2>6. UnitAt(begin, d.start) = u
    BY <2>3, <2>4, <2>5, UnitFound
  <2> DEFINE width == BytesOf(text[u + 1])
  <2>7. /\ begin[u + 1] = begin[u] + BytesOf(text[u]) /\ begin[u + 2] = begin[u + 1] + width
        /\ begin[u] \in Nat /\ BytesOf(text[u]) = 1 /\ width \in Nat \ {0}
    <3>1. begin[u + 1] = begin[u] + BytesOf(text[u]) /\ begin[u + 1 + 1] = begin[u + 1] + width /\ begin[u] \in Nat
      BY <2>4, <2>5 DEF Positions
    <3>2. BytesOf(text[u]) = 1
      BY <2>2, Bytes DEF Punctuation
    <3>3. width \in Nat \ {0}
      BY Bytes
    <3> QED
      BY <2>5, <3>1, <3>2, <3>3
  <2>8. CutsCharacter(d) <=> width > 1
    BY <2>3, <2>6 DEF CutsCharacter
  <2> HIDE DEF width
  <2>9. CASE width = 1
    <3>1. begin[u + 2] = d.end
      BY <2>3, <2>7, <2>9
    <3>2. UnitAt(begin, d.end) = u + 2
      BY <2>4, <2>5, <3>1, UnitFound
    <3>3. AtCharacters(d)
      BY <2>3, <2>5, <2>6, <2>7, <3>2 DEF AtCharacters
    <3> QED
      BY <2>8, <2>9, <3>3 DEF d
  <2>10. CASE width > 1
    <3>1. ASSUME UnitAt(begin, d.end) # 0 PROVE FALSE
      <4>1. PICK v \in 1 .. l + 1 : begin[v] = d.end
        BY <3>1, AtUnit
      <4>2. begin[v] < begin[u + 2] /\ begin[u + 1] < begin[v]
        BY <2>3, <2>7, <2>10, <4>1
      <4>3. ~(u + 2 <= v) /\ ~(v <= u + 1)
        <5>1. begin[v] \in Nat /\ begin[u + 1] \in Nat /\ begin[u + 2] \in Nat
          BY <2>4, <2>5 DEF Positions
        <5>2. (u + 2 <= v <=> begin[u + 2] <= begin[v])
          BY <2>5, BytesInOrder
        <5>3. (v <= u + 1 <=> begin[v] <= begin[u + 1])
          BY <2>5, BytesInOrder
        <5> QED
          BY <4>2, <5>1, <5>2, <5>3
      <4> QED
        BY <2>4, <4>3
    <3>2. ~AtCharacters(d)
      BY <3>1 DEF AtCharacters
    <3> QED
      BY <2>8, <2>10, <3>2 DEF d
  <2> QED
    BY <2>7, <2>9, <2>10
<1> QED
  BY <1>2, <1>3

\* The places that rules cover are at characters
LEMMA CompilePlacesAt ==
  ASSUME TilesInv, NEW d \in CompilePlaces, d.start <= d.end
  PROVE  AtCharacters(d)
<1>1. text \in Texts /\ Positions(text, begin) /\ Len(text) \in Nat
  BY BeginsPositions, TextLen DEF TilesInv
<1>2. CASE d = [start |-> 0, end |-> SourceLength]
  <2>1. 1 \in 1 .. Len(text) + 1 /\ Len(text) + 1 \in 1 .. Len(text) + 1
    BY <1>1
  <2>2. UnitAt(begin, begin[1]) = 1 /\ UnitAt(begin, begin[Len(text) + 1]) = Len(text) + 1
    BY <1>1, <2>1, UnitFound
  <2>3. d.start = begin[1] /\ d.end = begin[Len(text) + 1]
    BY <1>1, <1>2 DEF Positions, SourceLength
  <2>4. Len(text) + 1 # 0
    BY <1>1
  <2> QED
    BY <2>2, <2>3, <2>4 DEF AtCharacters
<1>3. CASE \E i, j \in DOMAIN tokens : d = [start |-> tokens[i].start, end |-> tokens[j].end]
  <2>1. PICK i \in DOMAIN tokens, j \in DOMAIN tokens : d.start = tokens[i].start /\ d.end = tokens[j].end
    BY <1>3
  <2>2. AtCharacter(tokens[i].start) /\ AtCharacter(tokens[j].end)
    BY TokenSpan
  <2> QED
    BY <2>1, <2>2 DEF AtCharacters, AtCharacter
<1> QED
  BY <1>2, <1>3 DEF CompilePlaces

CutsSome == \E i \in DOMAIN errors : CutsCharacter(ParseDiagnostics[i])

\* A call that has not begun to parse has no errors to report
CallsInv == ParserInv /\ (asked \notin KnownFlavors => stage = "lexing") /\ PanicsExactlyInEscapes

LEMMA RejectedOutcome ==
  ASSUME ParserInv, ParseFailed
  PROVE  stage = "rejected" /\ UNCHANGED parserVars /\ call' = (IF CutsSome THEN "panicked" ELSE "returned")
<1>1. stage = "rejected"
  BY DEF ParseFailed, ParserInv, TilesInv
<1>2. TilesInv /\ text # <<>> /\ \A i \in DOMAIN errors : Place(errors[i])
  BY <1>1 DEF ParserInv, PlacesInv, EmptyInv
<1>3. \A i \in DOMAIN errors : ~FromParseErrorPanics(errors[i])
  BY <1>2, NoParsePanic
<1>4. ReturnDiagnostics(ParseDiagnostics)
  BY <1>1, <1>3 DEF ParseFailed
<1>5. DOMAIN ParseDiagnostics = DOMAIN errors
      /\ \A i \in DOMAIN errors : ParseDiagnostics[i] = FromParseError(errors[i])
  BY DEF ParseDiagnostics
<1>6. \A i \in DOMAIN errors : ~AtCharacters(ParseDiagnostics[i]) <=> CutsCharacter(ParseDiagnostics[i])
  BY <1>2, <1>5, OnlyEscapesCut
<1>7. (\E i \in DOMAIN ParseDiagnostics : ~AtCharacters(ParseDiagnostics[i])) <=> CutsSome
  BY <1>5, <1>6 DEF CutsSome
<1> QED
  BY <1>1, <1>4, <1>7 DEF ReturnDiagnostics, Finish

LEMMA CompileReturns ==
  ASSUME TilesInv, Compile
  PROVE  stage = "parsed" /\ UNCHANGED parserVars /\ call' = "returned"
<1>1. stage = "parsed"
  BY DEF Compile
<1>2. CASE Finish("returned", <<>>)
  BY <1>1, <1>2 DEF Finish
<1>3. CASE \E d \in CompilePlaces : d.start <= d.end /\ ReturnDiagnostics(<<d>>)
  <2>1. PICK d \in CompilePlaces : d.start <= d.end /\ ReturnDiagnostics(<<d>>)
    BY <1>3
  <2>2. AtCharacters(d)
    BY <2>1, CompilePlacesAt
  <2>3. DOMAIN <<d>> = {1} /\ <<d>>[1] = d
    OBVIOUS
  <2>4. \A i \in DOMAIN <<d>> : AtCharacters(<<d>>[i])
    BY <2>2, <2>3
  <2> DEFINE list == <<d>>
  <2>5. ReturnDiagnostics(list) /\ \A i \in DOMAIN list : AtCharacters(list[i])
    BY <2>1, <2>4
  <2> HIDE DEF list
  <2> QED
    BY <1>1, <2>5 DEF ReturnDiagnostics, Finish
<1> QED
  BY <1>2, <1>3 DEF Compile

LEMMA PanicsAre ==
  PanicsExactlyInEscapes <=> (call # "called" => (call = "panicked" <=> stage = "rejected" /\ CutsSome))
  BY DEF PanicsExactlyInEscapes, CutsSome

LEMMA CutsKept ==
  ASSUME UNCHANGED parserVars
  PROVE  stage' = stage /\ (CutsSome' <=> CutsSome)
  BY DEF parserVars, lexVars, CutsSome, CutsCharacter, ParseDiagnostics, FromParseError, WithHelp, RangeOf,
         SliceOf, EscapeOffset, SourceLength

LEMMA InitCalls == BindingsInit => CallsInv
  BY InitParser DEF BindingsInit, CallsInv, PanicsExactlyInEscapes, Init

LEMMA StepCalls ==
  ASSUME Limit # 0, CallsInv, [BindingsNext]_vars
  PROVE  CallsInv'
<1>1. ParserInv /\ TilesInv /\ (asked \notin KnownFlavors => stage = "lexing")
  BY DEF CallsInv, ParserInv
<1>2. (call # "called" => (call = "panicked" <=> stage = "rejected" /\ CutsSome))
  BY PanicsAre DEF CallsInv
<1>3. ASSUME UNCHANGED parserVars, asked' = asked,
             call' # "called" => (call' = "panicked" <=> stage = "rejected" /\ CutsSome)
      PROVE  CallsInv'
  <2>1. ParserInv'
    BY <1>1, <1>3, StepParser
  <2>2. stage' = stage /\ (CutsSome' <=> CutsSome)
    BY <1>3, CutsKept
  <2>3. PanicsExactlyInEscapes'
    BY <1>3, <2>2 DEF PanicsExactlyInEscapes, CutsSome
  <2> QED
    BY <1>1, <1>3, <2>1, <2>2, <2>3 DEF CallsInv
<1>4. CASE UnknownFlavor
  <2>1. UNCHANGED parserVars /\ asked' = asked /\ call' = "thrown" /\ stage = "lexing"
    BY <1>1, <1>4 DEF UnknownFlavor, Finish
  <2> QED
    BY <1>3, <2>1
<1>5. CASE Parse
  <2>1. [ParserStep]_parserVars /\ asked \in KnownFlavors /\ asked' = asked /\ call' = "called"
    BY <1>5 DEF Parse
  <2>2. ParserInv'
    BY <1>1, <2>1, StepParser
  <2> QED
    BY <2>1, <2>2 DEF CallsInv, PanicsExactlyInEscapes
<1>6. CASE ParseFailed
  <2>1. asked' = asked
    BY <1>6 DEF ParseFailed, ReturnDiagnostics, Finish
  <2> QED
    BY <1>1, <1>3, <1>6, <2>1, RejectedOutcome
<1>7. CASE Compile
  <2>1. asked' = asked
    BY <1>7 DEF Compile, ReturnDiagnostics, Finish
  <2>2. stage = "parsed" /\ UNCHANGED parserVars /\ call' = "returned"
    BY <1>1, <1>7, CompileReturns
  <2> QED
    BY <1>3, <2>1, <2>2
<1>8. CASE CallEnded \/ UNCHANGED vars
  <2>1. UNCHANGED parserVars /\ asked' = asked /\ call' = call
    BY <1>8 DEF CallEnded, vars
  <2> QED
    BY <1>2, <1>3, <2>1
<1> QED
  BY <1>4, <1>5, <1>6, <1>7, <1>8 DEF BindingsNext

\* If expressions may be nested at all, a call of compile() from JavaScript panics exactly
\* if the source is refused for an escape that is invalid because of a character of several
\* bytes, for every source and every flavor: every other place is at characters when
\* convert_diagnostic cuts the source, and the help finds the dash that it looks for
\* (help.rs:55-59 and 182-198, pomsky-wasm/src/lib.rs:95-122).
THEOREM PanicsExactlyInEscapesHolds ==
  ASSUME Limit # 0
  PROVE  BindingsSpec => []PanicsExactlyInEscapes
<1>1. CallsInv => PanicsExactlyInEscapes
  BY DEF CallsInv
<1> QED
  BY <1>1, InitCalls, StepCalls, PTL DEF BindingsSpec
=============================================================================
