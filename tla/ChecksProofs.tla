---------------------------- MODULE ChecksProofs ----------------------------
(***************************************************************************)
(* Theorems about Checks: what an issuer gave out is read and what nobody  *)
(* gave out is refused, whatever the number, and passwords are kept, of    *)
(* any length and typed with any characters.                               *)
(***************************************************************************)
EXTENDS Checks, FiniteSetTheorems, WellFoundedInduction, TLAPS

-----------------------------------------------------------------------------
(* Numbers, and the members of a sequence that are counted. *)

\* A set of numbers has a least one.
LEMMA LeastExists ==
  ASSUME NEW T \in SUBSET Nat, T # {}
  PROVE  \E n \in T : \A m \in T : n <= m
<1>1. PICK n \in T : \A m \in T : ~(<<m, n>> \in OpToRel(<, Nat))
  BY NatLessThanWellFounded, WFMin
<1>2. \A m \in T : ~(m < n)
  BY <1>1 DEF OpToRel
<1>3. \A m \in T : n <= m
  BY <1>2
<1> QED BY <1>3

\* A set of numbers with 0 in it, and with each its successor, is all of them.
LEMMA Counting ==
  ASSUME NEW T \in SUBSET Nat, 0 \in T, \A n \in Nat : n \in T => n + 1 \in T
  PROVE  T = Nat
<1> SUFFICES ASSUME Nat \ T # {} PROVE FALSE
  OBVIOUS
<1>1. PICK n \in Nat \ T : \A m \in Nat \ T : n <= m
  BY LeastExists
<1>2. n # 0 /\ n - 1 \in Nat /\ ~(n <= n - 1)
  OBVIOUS
<1> QED BY <1>1, <1>2

\* How often o stands between two places of a sequence.
Count(v, i, j, o) == Cardinality({n \in i..j : v[n] = o})

\* One place more.
LEMMA CountNext ==
  ASSUME NEW v, NEW o, NEW i \in Nat, NEW j \in Int, i <= j + 1
  PROVE  /\ Count(v, i, j, o) \in Nat
         /\ Count(v, i, j + 1, o) = Count(v, i, j, o) + (IF v[j + 1] = o THEN 1 ELSE 0)
<1> DEFINE A == {n \in i..j : v[n] = o}
           B == {n \in i..j+1 : v[n] = o}
<1>1. IsFiniteSet(A) /\ Cardinality(A) \in Nat
  <2>1. IsFiniteSet(i..j)
    BY FS_Interval
  <2>2. A \subseteq i..j
    OBVIOUS
  <2>3. IsFiniteSet(A)
    BY <2>1, <2>2, FS_Subset
  <2> QED BY <2>3, FS_CardinalityType
<1>2. CASE v[j + 1] = o
  <2>1. B = A \union {j + 1} /\ j + 1 \notin A
    BY <1>2
  <2>2. Cardinality(A \union {j + 1}) = Cardinality(A) + 1
    BY <1>1, <2>1, FS_AddElement
  <2> QED BY <1>1, <1>2, <2>1, <2>2 DEF Count
<1>3. CASE v[j + 1] # o
  <2>1. B = A
    BY <1>3
  <2> QED BY <1>1, <1>3, <2>1 DEF Count
<1> QED BY <1>2, <1>3

\* No place at all.
LEMMA CountNone ==
  ASSUME NEW v, NEW o, NEW i \in Nat
  PROVE  Count(v, i, i - 1, o) = 0
<1>1. {n \in i..i-1 : v[n] = o} = {}
  OBVIOUS
<1> QED BY <1>1, FS_EmptySet DEF Count

\* One place.
LEMMA CountOne ==
  ASSUME NEW v, NEW o, NEW i \in Nat
  PROVE  Count(v, i, i, o) = IF v[i] = o THEN 1 ELSE 0
<1> DEFINE j == i - 1
<1>1. j \in Int /\ j + 1 = i /\ i <= j + 1
  OBVIOUS
<1>2. Count(v, i, j, o) = 0
  BY CountNone
<1> HIDE DEF j
<1>3. Count(v, i, j + 1, o) = Count(v, i, j, o) + (IF v[j + 1] = o THEN 1 ELSE 0)
  BY <1>1, CountNext
<1> QED BY <1>1, <1>2, <1>3

\* A sequence with one member more, and the one before it.
LEMMA CountAppend ==
  ASSUME NEW S, NEW s \in Seq(S), NEW c \in S, NEW o
  PROVE  /\ Count(s, 1, Len(s), o) \in Nat
         /\ Count(Append(s, c), 1, Len(s) + 1, o) =
              Count(s, 1, Len(s), o) + (IF c = o THEN 1 ELSE 0)
<1> DEFINE t == Append(s, c)
<1>1. Len(s) \in Nat /\ t[Len(s) + 1] = c /\ \A n \in 1..Len(s) : t[n] = s[n]
  OBVIOUS
<1> HIDE DEF t
<1>2. {n \in 1..Len(s) : t[n] = o} = {n \in 1..Len(s) : s[n] = o}
  BY <1>1
<1>3. Count(t, 1, Len(s), o) = Count(s, 1, Len(s), o)
  BY <1>2 DEF Count
<1>4. /\ Count(t, 1, Len(s), o) \in Nat
      /\ Count(t, 1, Len(s) + 1, o) = Count(t, 1, Len(s), o) + (IF t[Len(s) + 1] = o THEN 1 ELSE 0)
  BY SMTT(60), <1>1, CountNext
<1> QED BY <1>1, <1>3, <1>4 DEF t

\* What is left without the last member.
LEMMA FrontFacts ==
  ASSUME NEW S, NEW s \in Seq(S), s # <<>>
  PROVE  /\ Front(s) \in Seq(S) /\ Last(s) \in S /\ Len(s) \in Nat \ {0}
         /\ Len(Front(s)) = Len(s) - 1 /\ Last(s) = s[Len(s)]
         /\ \A n \in 1..(Len(s) - 1) : Front(s)[n] = s[n]
         /\ s = Append(Front(s), Last(s))
<1>1. Len(s) \in Nat \ {0}
  OBVIOUS
<1>2. Front(s) = SubSeq(s, 1, Len(s) - 1) /\ Last(s) = s[Len(s)]
  BY DEF Front, Last
<1>3. /\ SubSeq(s, 1, Len(s) - 1) \in Seq(S) /\ Len(SubSeq(s, 1, Len(s) - 1)) = Len(s) - 1
      /\ \A n \in 1..(Len(s) - 1) : SubSeq(s, 1, Len(s) - 1)[n] = s[n]
  <2> DEFINE m == Len(s) - 1
  <2>1. m \in Nat /\ m <= Len(s) /\ \A n \in 1..m : n \in 1..Len(s)
    BY <1>1
  <2> HIDE DEF m
  <2>2. SubSeq(s, 1, m) \in Seq(S) /\ Len(SubSeq(s, 1, m)) = m
    BY <2>1
  <2>3. \A n \in 1..m : SubSeq(s, 1, m)[n] = s[n]
    BY <2>1
  <2> QED BY <2>2, <2>3 DEF m
<1>4. s[Len(s)] \in S
  BY <1>1
<1> DEFINE f == SubSeq(s, 1, Len(s) - 1)
           l == s[Len(s)]
<1>5. s = Append(f, l)
  <2>1. f \in Seq(S) /\ l \in S /\ Len(f) = Len(s) - 1 /\ \A n \in 1..(Len(s) - 1) : f[n] = s[n]
    BY <1>3, <1>4
  <2>2. l = s[Len(s)]
    OBVIOUS
  <2> HIDE DEF f, l
  <2>3. Len(Append(f, l)) = Len(s) /\ Append(f, l) \in Seq(S)
    BY <1>1, <2>1
  <2>4. \A n \in 1..Len(s) : Append(f, l)[n] = s[n]
    BY <1>1, <2>1, <2>2
  <2> QED BY <2>3, <2>4
<1> QED BY <1>1, <1>2, <1>3, <1>4, <1>5

-----------------------------------------------------------------------------
(* Brackets. *)

Openers == {Opener, SquareOpener, CurlyOpener, AngleOpener}

\* An opener has a closer of its own, and no closer is an opener.
LEMMA ClosersFacts ==
  /\ DOMAIN CloserFor = Openers
  /\ \A o \in Openers : CloserFor[o] \notin Openers \union {Dot}
  /\ \A o, p \in Openers : CloserFor[o] = CloserFor[p] => o = p
BY DEF CloserFor, Openers, Opener, SquareOpener, CurlyOpener, AngleOpener, Dot

\* g has what is open after each character of v.
OpensTo(v, g, m) == g = [n \in 0..m |-> IF n = 0 THEN <<>> ELSE OpenAfter(g[n - 1], v[n])]

\* There is such a function, up to any m.
LEMMA OpensExists ==
  ASSUME NEW v
  PROVE  \A m \in Nat : \E g : OpensTo(v, g, m)
<1> DEFINE M == {m \in Nat : \E g : OpensTo(v, g, m)}
<1>1. 0 \in M
  <2>1. OpensTo(v, [n \in 0..0 |-> <<>>], 0)
    BY DEF OpensTo
  <2> QED BY <2>1
<1>2. ASSUME NEW m \in Nat, m \in M PROVE m + 1 \in M
  <2>1. PICK g : OpensTo(v, g, m)
    BY <1>2
  <2> DEFINE h == [n \in 0..m+1 |-> IF n = m + 1 THEN OpenAfter(g[m], v[n]) ELSE g[n]]
  <2>2. \A n \in 0..m : h[n] = g[n]
    OBVIOUS
  <2>3. \A n \in 0..m : g[n] = IF n = 0 THEN <<>> ELSE OpenAfter(g[n - 1], v[n])
    BY <2>1 DEF OpensTo
  <2>4. \A n \in 0..m+1 : h[n] = IF n = 0 THEN <<>> ELSE OpenAfter(h[n - 1], v[n])
    BY <2>2, <2>3
  <2>5. OpensTo(v, h, m + 1)
    BY <2>4 DEF OpensTo
  <2> QED BY <2>5
<1> HIDE DEF M
<1>3. M = Nat
  BY <1>1, <1>2, Counting DEF M
<1> QED BY <1>3 DEF M

\* What is open is openers, and any such function says what is open in the end.
OpensAll(v, g) ==
  /\ g[0] = <<>> /\ \A n \in 0..Len(v) : g[n] \in Seq(Openers)
  /\ \A n \in 1..Len(v) : g[n] = OpenAfter(g[n - 1], v[n])

\* A closer takes one opener, or nothing.
LEMMA OpenAfterCases ==
  ASSUME NEW s \in Seq(Openers), NEW c
  PROVE  /\ OpenAfter(s, c) \in Seq(Openers)
         /\ c \in Openers => OpenAfter(s, c) = Append(s, c)
         /\ c \notin Openers => \/ OpenAfter(s, c) = s
                                \/ s # <<>> /\ c = CloserFor[Last(s)] /\ OpenAfter(s, c) = Front(s)
         /\ c \notin Openers /\ s # <<>> /\ c = CloserFor[Last(s)] => OpenAfter(s, c) = Front(s)
<1>1. DOMAIN CloserFor = Openers
  BY ClosersFacts
<1>2. CASE c \in Openers
  BY <1>1, <1>2 DEF OpenAfter
<1>3. CASE c \notin Openers
  <2>1. OpenAfter(s, c) = IF s # <<>> /\ CloserFor[Last(s)] = c THEN Front(s) ELSE s
    BY <1>1, <1>3 DEF OpenAfter
  <2>2. s # <<>> => Front(s) \in Seq(Openers)
    BY FrontFacts
  <2> QED BY <1>3, <2>1, <2>2, Zenon
<1> QED BY <1>2, <1>3

LEMMA OpensFacts ==
  ASSUME NEW S, NEW v \in Seq(S)
  PROVE  \E g : OpensAll(v, g) /\ (UnclosedBracketCheck(v) <=> g[Len(v)] = <<>>)
<1>0. Len(v) \in Nat
  OBVIOUS
<1> DEFINE open == CHOOSE g : g = [n \in 0..Len(v) |->
                     IF n = 0 THEN <<>> ELSE OpenAfter(g[n - 1], v[n])]
<1>1. UnclosedBracketCheck(v) <=> open[Len(v)] = <<>>
  BY DEF UnclosedBracketCheck
<1>2. PICK g : g = [n \in 0..Len(v) |-> IF n = 0 THEN <<>> ELSE OpenAfter(g[n - 1], v[n])]
  <2> HIDE DEF open
  <2>1. PICK g : OpensTo(v, g, Len(v))
    BY <1>0, OpensExists
  <2> QED BY <2>1 DEF OpensTo
<1>3. open = [n \in 0..Len(v) |-> IF n = 0 THEN <<>> ELSE OpenAfter(open[n - 1], v[n])]
  BY <1>2
<1> HIDE DEF open
<1>4. \A n \in 0..Len(v) : open[n] = IF n = 0 THEN <<>> ELSE OpenAfter(open[n - 1], v[n])
  BY <1>3
<1>5. open[0] = <<>> /\ \A n \in 1..Len(v) : open[n] = OpenAfter(open[n - 1], v[n])
  BY <1>0, <1>4
<1> DEFINE M == {m \in Nat : m <= Len(v) => open[m] \in Seq(Openers)}
<1>6. 0 \in M
  <2>1. <<>> \in Seq(Openers)
    OBVIOUS
  <2> QED BY <1>5, <2>1
<1>7. ASSUME NEW m \in Nat, m \in M PROVE m + 1 \in M
  <2> SUFFICES ASSUME m + 1 <= Len(v) PROVE open[m + 1] \in Seq(Openers)
    OBVIOUS
  <2>1. open[m] \in Seq(Openers)
    BY <1>0, <1>7
  <2>2. open[m + 1] = OpenAfter(open[m], v[m + 1])
    BY <1>0, <1>5
  <2> QED BY <2>1, <2>2, OpenAfterCases
<1> HIDE DEF M
<1>8. M = Nat
  BY <1>6, <1>7, Counting DEF M
<1>9. \A n \in 0..Len(v) : open[n] \in Seq(Openers)
  BY <1>0, <1>8 DEF M
<1> QED BY <1>1, <1>5, <1>9 DEF OpensAll

\* Where two texts agree the same is open.
LEMMA OpensSame ==
  ASSUME NEW S, NEW v \in Seq(S), NEW w \in Seq(S), Len(w) <= Len(v),
         \A n \in 1..Len(w) : w[n] = v[n],
         NEW g, OpensAll(v, g), NEW h, OpensAll(w, h)
  PROVE  \A n \in 0..Len(w) : h[n] = g[n]
<1>0. Len(v) \in Nat /\ Len(w) \in Nat
  OBVIOUS
<1> DEFINE M == {m \in Nat : m <= Len(w) => h[m] = g[m]}
<1>1. 0 \in M
  BY DEF OpensAll
<1>2. ASSUME NEW m \in Nat, m \in M PROVE m + 1 \in M
  <2> SUFFICES ASSUME m + 1 <= Len(w) PROVE h[m + 1] = g[m + 1]
    OBVIOUS
  <2>1. h[m] = g[m]
    BY <1>0, <1>2
  <2>2. /\ m + 1 \in 1..Len(w) /\ m + 1 \in 1..Len(v) /\ (m + 1) - 1 = m
    BY <1>0
  <2>3. w[m + 1] = v[m + 1]
    BY <2>2
  <2>4. h[m + 1] = OpenAfter(h[m], w[m + 1]) /\ g[m + 1] = OpenAfter(g[m], v[m + 1])
    BY <2>2 DEF OpensAll
  <2> QED BY <2>1, <2>3, <2>4
<1> HIDE DEF M
<1>3. M = Nat
  BY <1>1, <1>2, Counting DEF M
<1> QED BY <1>0, <1>3 DEF M

\* A bracket left open is refused: what is open holds at least as many of its kind as
\* were opened and not closed.
LEMMA LeftOpenRefused ==
  ASSUME NEW S, NEW v \in Seq(S), LeftOpen(v)
  PROVE  ~UnclosedBracketCheck(v)
<1>0. Len(v) \in Nat /\ DOMAIN v = 1..Len(v)
  OBVIOUS
<1>1. PICK o \in Openers, i \in 1..Len(v) :
        /\ v[i] = o
        /\ \A j \in i..Len(v) : Count(v, i, j, o) > Count(v, i, j, CloserFor[o])
  BY <1>0, ClosersFacts DEF LeftOpen, Count
<1> DEFINE c == CloserFor[o]
           stacked(s) == Count(s, 1, Len(s), o)
<1>2. c \notin Openers /\ \A p \in Openers : CloserFor[p] = c => p = o
  BY ClosersFacts
<1>3. PICK g : OpensAll(v, g) /\ (UnclosedBracketCheck(v) <=> g[Len(v)] = <<>>)
  BY OpensFacts
<1>4. \A n \in 0..Len(v) : g[n] \in Seq(Openers)
  BY <1>3 DEF OpensAll
<1>5. \A n \in 1..Len(v) : g[n] = OpenAfter(g[n - 1], v[n])
  BY <1>3 DEF OpensAll
<1>6. i \in Nat /\ i >= 1 /\ i <= Len(v)
  BY <1>0
<1> DEFINE M == {m \in Nat : i + m <= Len(v) =>
                   stacked(g[i + m]) + Count(v, i, i + m, c) >= Count(v, i, i + m, o)}
<1> HIDE DEF c
<1>7. 0 \in M
  <2>1. g[i] = Append(g[i - 1], o) /\ g[i - 1] \in Seq(Openers)
    <3>1. i - 1 \in 0..Len(v)
      BY <1>6
    <3>2. g[i - 1] \in Seq(Openers) /\ g[i] = OpenAfter(g[i - 1], v[i])
      BY <1>4, <1>5, <3>1
    <3> QED BY <1>1, <3>2, OpenAfterCases
  <2> DEFINE s == g[i - 1]
  <2>2. s \in Seq(Openers) /\ g[i] = Append(s, o)
    BY <2>1
  <2> HIDE DEF s
  <2>3. Count(s, 1, Len(s), o) \in Nat /\ Len(g[i]) = Len(s) + 1
        /\ Count(g[i], 1, Len(s) + 1, o) = Count(s, 1, Len(s), o) + 1
    BY <2>2, CountAppend
  <2>4. /\ Count(v, i, i, o) = 1 /\ Count(v, i, i, c) = 0
    <3>1. v[i] = o /\ v[i] # c
      BY <1>1, <1>2
    <3> QED BY <1>6, <3>1, CountOne
  <2>5. i + 0 = i
    BY <1>6
  <2> QED BY <2>3, <2>4, <2>5
<1>8. ASSUME NEW m \in Nat, m \in M PROVE m + 1 \in M
  <2> SUFFICES ASSUME i + (m + 1) <= Len(v)
               PROVE  stacked(g[i + (m + 1)]) + Count(v, i, i + (m + 1), c) >= Count(v, i, i + (m + 1), o)
    OBVIOUS
  <2> DEFINE k == i + m
             s == g[k]
             t == g[k + 1]
             x == v[k + 1]
  <2>1. k \in Nat /\ k + 1 = i + (m + 1) /\ k \in 0..Len(v) /\ k + 1 \in 1..Len(v) /\ i <= k + 1
        /\ (k + 1) - 1 = k /\ k \in Int
    BY <1>0, <1>6
  <2>2. s \in Seq(Openers) /\ t = OpenAfter(s, x)
    BY <1>4, <1>5, <2>1
  <2>3. stacked(s) + Count(v, i, k, c) >= Count(v, i, k, o)
    BY <1>8, <2>1
  <2> HIDE DEF k
  <2>4. /\ Count(v, i, k, o) \in Nat /\ Count(v, i, k, c) \in Nat
        /\ Count(v, i, k + 1, o) = Count(v, i, k, o) + (IF x = o THEN 1 ELSE 0)
        /\ Count(v, i, k + 1, c) = Count(v, i, k, c) + (IF x = c THEN 1 ELSE 0)
    BY <1>6, <2>1, CountNext
  <2> HIDE DEF s, t, x
  <2>5. /\ stacked(s) \in Nat
        /\ stacked(t) + (IF x = c THEN 1 ELSE 0) >= stacked(s) + (IF x = o THEN 1 ELSE 0)
    <3>1. CASE x \in Openers
      <4>1. t = Append(s, x)
        BY <2>2, <3>1, OpenAfterCases
      <4>2. Count(s, 1, Len(s), o) \in Nat /\ Len(t) = Len(s) + 1
            /\ Count(t, 1, Len(s) + 1, o) = Count(s, 1, Len(s), o) + (IF x = o THEN 1 ELSE 0)
        BY <2>2, <3>1, <4>1, CountAppend
      <4> QED BY <4>2
    <3>2. CASE x \notin Openers /\ t = s
      <4>1. Count(s, 1, Len(s), o) \in Nat
        <5>1. Len(s) \in Nat
          BY <2>2
        <5> QED BY <5>1, CountNext
      <4>2. x # o
        BY <3>2
      <4> QED BY <3>2, <4>1, <4>2
    <3>3. CASE x \notin Openers /\ s # <<>> /\ x = CloserFor[Last(s)] /\ t = Front(s)
      <4> DEFINE l == Last(s)
      <4>1. t \in Seq(Openers) /\ l \in Openers /\ s = Append(t, l) /\ Len(s) = Len(t) + 1
        BY SMTT(60), <2>2, <3>3, FrontFacts
      <4> HIDE DEF l
      <4>2. Count(t, 1, Len(t), o) \in Nat
            /\ Count(s, 1, Len(t) + 1, o) = Count(t, 1, Len(t), o) + (IF l = o THEN 1 ELSE 0)
        BY <4>1, CountAppend
      <4>3. x # o /\ (l = o => x = c)
        BY <3>3 DEF l, c
      <4> QED BY <4>1, <4>2, <4>3
    <3> QED BY <2>2, <3>1, <3>2, <3>3, OpenAfterCases
  <2>6. stacked(t) \in Nat
    <3>1. t \in Seq(Openers)
      BY <2>2, OpenAfterCases
    <3>2. Len(t) \in Nat
      BY <3>1
    <3> QED BY <3>2, CountNext
  <2>7. stacked(t) + Count(v, i, k + 1, c) >= Count(v, i, k + 1, o)
    <3> DEFINE p == Count(v, i, k, o)
               q == Count(v, i, k, c)
               y == stacked(s)
               z == stacked(t)
    <3>1. p \in Nat /\ q \in Nat /\ y \in Nat /\ z \in Nat /\ y + q >= p
          /\ z + (IF x = c THEN 1 ELSE 0) >= y + (IF x = o THEN 1 ELSE 0)
      BY <2>3, <2>4, <2>5, <2>6
    <3> HIDE DEF p, q, y, z
    <3>2. z + (q + (IF x = c THEN 1 ELSE 0)) >= p + (IF x = o THEN 1 ELSE 0)
      BY <3>1
    <3> QED BY <2>4, <3>2 DEF p, q, z
  <2> QED BY <2>1, <2>7 DEF t
<1> HIDE DEF M
<1>9. M = Nat
  BY <1>7, <1>8, Counting DEF M
<1> DEFINE n == Len(v) - i
<1>10. n \in Nat /\ i + n = Len(v) /\ Len(v) \in i..Len(v) /\ i <= Len(v) + 1
  BY <1>0, <1>6
<1> HIDE DEF n
<1>11. Count(g[Len(v)], 1, Len(g[Len(v)]), o) + Count(v, i, Len(v), c) >= Count(v, i, Len(v), o)
  <2>1. Len(v) <= Len(v)
    BY <1>0
  <2>2. stacked(g[i + n]) + Count(v, i, i + n, c) >= Count(v, i, i + n, o)
    BY <1>9, <1>10, <2>1 DEF M
  <2> QED BY <1>10, <2>2
<1>12. Count(v, i, Len(v), o) > Count(v, i, Len(v), c)
  BY <1>1, <1>10 DEF c
<1>13. Count(v, i, Len(v), o) \in Nat /\ Count(v, i, Len(v), c) \in Nat
  BY <1>0, <1>6, <1>10, CountNext
<1>14. ASSUME g[Len(v)] = <<>> PROVE FALSE
  <2>1. Len(<<>>) = 0 /\ 0 = 1 - 1
    OBVIOUS
  <2>2. Count(<<>>, 1, 0, o) = 0
    BY <2>1, CountNone
  <2> QED BY <1>11, <1>12, <1>13, <1>14, <2>1, <2>2
<1> QED BY <1>3, <1>14

\* Brackets of one kind that are not left open are accepted: what is open has been so
\* since its first opener.
LEMMA ClosedAccepted ==
  ASSUME NEW S, NEW v \in Seq(S), ~LeftOpen(v), ~Crossed(v)
  PROVE  UnclosedBracketCheck(v)
<1>0. Len(v) \in Nat /\ DOMAIN v = 1..Len(v)
  OBVIOUS
<1>1. PICK o \in Openers : \A n \in 1..Len(v) : v[n] \in Openers => v[n] = o
  <2>1. CASE \E n \in 1..Len(v) : v[n] \in Openers
    <3>1. PICK n \in 1..Len(v) : v[n] \in Openers
      BY <2>1
    <3>2. \A m \in 1..Len(v) : v[m] \in Openers => v[m] = v[n]
      BY <1>0, <3>1, ClosersFacts DEF Crossed, Has
    <3> QED BY <3>1, <3>2
  <2>2. CASE \A n \in 1..Len(v) : v[n] \notin Openers
    <3>1. Opener \in Openers
      BY DEF Openers
    <3> QED BY <2>2, <3>1
  <2> QED BY <2>1, <2>2
<1> DEFINE c == CloserFor[o]
<1>2. c \notin Openers
  BY ClosersFacts
<1>3. PICK g : OpensAll(v, g) /\ (UnclosedBracketCheck(v) <=> g[Len(v)] = <<>>)
  BY OpensFacts
<1>4. \A n \in 1..Len(v) : g[n] = OpenAfter(g[n - 1], v[n])
  BY <1>3 DEF OpensAll
<1>5. \A n \in 0..Len(v) : g[n] \in Seq({o})
  <2> DEFINE M == {m \in Nat : m <= Len(v) => g[m] \in Seq({o})}
  <2>1. 0 \in M
    BY <1>3 DEF OpensAll
  <2>2. ASSUME NEW m \in Nat, m \in M PROVE m + 1 \in M
    <3> SUFFICES ASSUME m + 1 <= Len(v) PROVE g[m + 1] \in Seq({o})
      OBVIOUS
    <3> DEFINE s == g[m]
               x == v[m + 1]
    <3>1. s \in Seq({o}) /\ m + 1 \in 1..Len(v) /\ (m + 1) - 1 = m /\ m \in 0..Len(v)
      BY <1>0, <2>2
    <3>2. g[m + 1] = OpenAfter(s, x)
      BY <1>4, <3>1
    <3>3. s \in Seq(Openers)
      BY <1>3, <3>1 DEF OpensAll
    <3>4. x \in Openers => x = o
      BY <1>1, <3>1
    <3> HIDE DEF s, x
    <3>5. s # <<>> => Front(s) \in Seq({o})
      BY <3>1, FrontFacts
    <3>6. x \in Openers => Append(s, x) \in Seq({o})
      BY <3>1, <3>4
    <3> QED BY <3>1, <3>2, <3>3, <3>5, <3>6, OpenAfterCases
  <2> HIDE DEF M
  <2>3. M = Nat
    BY <2>1, <2>2, Counting DEF M
  <2> QED BY <1>0, <2>3 DEF M
<1> DEFINE Since(i, m) ==
             /\ v[i] = o
             /\ \A j \in i..m : /\ Len(g[j]) >= 1
                                /\ Len(g[j]) + Count(v, i, j, c) = Count(v, i, j, o)
           M == {m \in Nat : m <= Len(v) => (g[m] # <<>> => \E i \in 1..m : Since(i, m))}
<1> HIDE DEF c, Since
<1>6. 0 \in M
  BY <1>3 DEF OpensAll
<1>7. ASSUME NEW m \in Nat, m \in M PROVE m + 1 \in M
  <2> SUFFICES ASSUME m + 1 <= Len(v), g[m + 1] # <<>> PROVE \E i \in 1..m+1 : Since(i, m + 1)
    OBVIOUS
  <2> DEFINE s == g[m]
             t == g[m + 1]
             x == v[m + 1]
  <2>1. s \in Seq({o}) /\ t \in Seq({o}) /\ s \in Seq(Openers) /\ t = OpenAfter(s, x) /\ t # <<>>
        /\ (x \in Openers => x = o) /\ m + 1 \in 1..Len(v) /\ m <= Len(v)
    <3>1. m + 1 \in 1..Len(v) /\ (m + 1) - 1 = m /\ m \in 0..Len(v) /\ m + 1 \in 0..Len(v)
      BY <1>0
    <3>2. s \in Seq(Openers)
      BY <1>3, <3>1 DEF OpensAll
    <3>3. t = OpenAfter(s, x)
      BY <1>4, <3>1
    <3> QED BY <1>0, <1>1, <1>5, <3>1, <3>2, <3>3
  <2>2. g[m] = s /\ g[m + 1] = t /\ v[m + 1] = x
    OBVIOUS
  <2> HIDE DEF s, t, x
  <2>3. Len(s) \in Nat /\ Len(t) \in Nat \ {0} /\ (s # <<>> => Len(s) >= 1)
    BY <2>1
  <2>4. \/ x = o /\ Len(t) = Len(s) + 1
        \/ x # o /\ x # c /\ t = s
        \/ x # o /\ x = c /\ s = <<>> /\ t = s
        \/ x # o /\ x = c /\ s # <<>> /\ Len(t) = Len(s) - 1
    <3>1. CASE x \in Openers
      <4>1. t = Append(s, x) /\ x = o
        BY <2>1, <3>1, OpenAfterCases
      <4> QED BY <2>1, <4>1
    <3>2. CASE x \notin Openers
      <4>1. x # o
        BY <3>2
      <4>2. s # <<>> => Last(s) = o /\ Len(Front(s)) = Len(s) - 1
        <5>1. s \in Seq({o})
          BY <2>1
        <5>2. s # <<>> => Last(s) \in {o} /\ Len(Front(s)) = Len(s) - 1
          BY <5>1, FrontFacts
        <5> QED BY <5>2
      <4>3. CASE s = <<>>
        <5>1. t = s
          BY <2>1, <3>2, <4>3, OpenAfterCases
        <5> QED BY <4>1, <4>3, <5>1
      <4>4. CASE s # <<>> /\ x = c
        <5>1. t = Front(s)
          BY <2>1, <3>2, <4>2, <4>4, OpenAfterCases DEF c
        <5> QED BY <4>1, <4>2, <4>4, <5>1
      <4>5. CASE s # <<>> /\ x # c
        <5>1. t = s
          BY <2>1, <3>2, <4>2, <4>5, OpenAfterCases DEF c
        <5> QED BY <4>1, <4>5, <5>1
      <4> QED BY <4>3, <4>4, <4>5
    <3> QED BY <3>1, <3>2
  <2>5. CASE s = <<>>
    <3>1. x = o /\ Len(t) = 1
      <4>1. Len(<<>>) = 0
        OBVIOUS
      <4> QED BY <2>1, <2>3, <2>4, <2>5, <4>1
    <3> DEFINE i == m + 1
    <3>2. Count(v, i, i, o) = 1 /\ Count(v, i, i, c) = 0
      <4>0. i \in Nat /\ v[i] = x
        BY <2>2
      <4> HIDE DEF i
      <4>1. v[i] = o /\ v[i] # c
        BY <1>2, <3>1, <4>0
      <4> QED BY <4>0, <4>1, CountOne
    <3>3. i..m+1 = {i} /\ i \in 1..m+1
      OBVIOUS
    <3>4. Since(i, m + 1)
      <4>1. v[i] = o /\ g[i] = t
        BY <2>2, <3>1
      <4>2. Len(g[i]) >= 1 /\ Len(g[i]) + Count(v, i, i, c) = Count(v, i, i, o)
        <5>1. Len(g[i]) = 1
          BY <3>1, <4>1
        <5> HIDE DEF i
        <5>2. 1 >= 1 /\ 1 + 0 = 1
          OBVIOUS
        <5> QED BY <3>2, <5>1, <5>2
      <4>3. \A j \in i..m+1 : j = i
        OBVIOUS
      <4> HIDE DEF i
      <4> QED BY <4>1, <4>2, <4>3 DEF Since
    <3> QED BY <3>3, <3>4
  <2>6. CASE s # <<>>
    <3>1. PICK i \in 1..m : Since(i, m)
      BY <1>7, <2>1, <2>2, <2>6
    <3>2. i \in Nat /\ m \in i..m /\ i <= m + 1 /\ m \in Int /\ i \in 1..m+1
      OBVIOUS
    <3>3. Len(s) + Count(v, i, m, c) = Count(v, i, m, o)
      BY <2>2, <3>1, <3>2 DEF Since
    <3>4. /\ Count(v, i, m, o) \in Nat /\ Count(v, i, m, c) \in Nat
          /\ Count(v, i, m + 1, o) = Count(v, i, m, o) + (IF x = o THEN 1 ELSE 0)
          /\ Count(v, i, m + 1, c) = Count(v, i, m, c) + (IF x = c THEN 1 ELSE 0)
      BY ZenonT(60), <2>2, <3>2, CountNext
    <3>5. Len(t) = Len(s) + (IF x = o THEN 1 ELSE 0) - (IF x = c THEN 1 ELSE 0)
      <4>1. o # c
        BY <1>2
      <4> QED BY <2>3, <2>4, <2>6, <4>1
    <3>6. Len(t) + Count(v, i, m + 1, c) = Count(v, i, m + 1, o)
      <4> DEFINE p == Count(v, i, m, o)
                 q == Count(v, i, m, c)
                 y == Len(s)
                 z == Len(t)
                 a == IF x = o THEN 1 ELSE 0
                 b == IF x = c THEN 1 ELSE 0
      <4>1. p \in Nat /\ q \in Nat /\ y + q = p /\ y \in Nat /\ z \in Nat
            /\ a \in Nat /\ b \in Nat /\ z = y + a - b
        BY <2>3, <3>3, <3>4, <3>5
      <4> HIDE DEF p, q, y, z, a, b
      <4>2. z + (q + b) = p + a
        BY <4>1
      <4> QED BY <3>4, <4>2 DEF p, q, z, a, b
    <3>7. \A j \in i..m+1 : j \in i..m \/ j = m + 1
      OBVIOUS
    <3>8. Since(i, m + 1)
      BY <2>2, <2>3, <3>1, <3>6, <3>7 DEF Since
    <3> QED BY <3>2, <3>8
  <2> QED BY <2>5, <2>6
<1> HIDE DEF M
<1>8. M = Nat
  BY <1>6, <1>7, Counting DEF M
<1>9. ASSUME g[Len(v)] # <<>> PROVE FALSE
  <2>1. PICK i \in 1..Len(v) : Since(i, Len(v))
    BY <1>0, <1>8, <1>9 DEF M
  <2>2. \A j \in i..Len(v) : Count(v, i, j, o) > Count(v, i, j, c)
    <3> SUFFICES ASSUME NEW j \in i..Len(v) PROVE Count(v, i, j, o) > Count(v, i, j, c)
      OBVIOUS
    <3>1. Len(g[j]) >= 1 /\ Len(g[j]) + Count(v, i, j, c) = Count(v, i, j, o)
      BY <2>1 DEF Since
    <3>2. Count(v, i, j, c) \in Nat
      BY CountNext
    <3>3. Len(g[j]) \in Nat
      <4>1. g[j] \in Seq({o})
        BY <1>5
      <4> QED BY <4>1
    <3> QED BY <3>1, <3>2, <3>3
  <2>3. v[i] = o
    BY <2>1 DEF Since
  <2> QED BY <1>0, <2>2, <2>3, ClosersFacts DEF LeftOpen, Count, c
<1> QED BY <1>3, <1>9

-----------------------------------------------------------------------------
(* Passwords. *)

\* A text that does not begin with a star is read as it stands.
LEMMA NoStar ==
  ASSUME NEW S, NEW v \in Seq(S), v # <<>>, v[1] \notin Stars
  PROVE  WithoutStars(v) = v
<1> DEFINE plain == {i \in DOMAIN v : v[i] \notin Stars}
<1>1. Len(v) \in Nat /\ Len(v) >= 1 /\ DOMAIN v = 1..Len(v)
  OBVIOUS
<1>2. 1 \in plain /\ \A j \in plain : 1 <= j
  BY <1>1
<1> DEFINE first == CHOOSE i \in plain : \A j \in plain : i <= j
<1>3. first \in plain /\ \A j \in plain : first <= j
  BY <1>2
<1>4. first = 1
  BY <1>1, <1>2, <1>3
<1>5. WithoutStars(v) = SubSeq(v, first, Len(v))
  BY <1>2 DEF WithoutStars
<1> HIDE DEF first
<1>6. SubSeq(v, 1, Len(v)) = v
  OBVIOUS
<1> QED BY <1>4, <1>5, <1>6

\* What is read of a text is of the text.
LEMMA StarsFacts ==
  ASSUME NEW S, NEW v \in Seq(S)
  PROVE  /\ WithoutStars(v) \in Seq(S)
         /\ \A i \in DOMAIN WithoutStars(v) : \E k \in DOMAIN v : WithoutStars(v)[i] = v[k]
<1> DEFINE plain == {i \in DOMAIN v : v[i] \notin Stars}
           first == CHOOSE i \in plain : \A j \in plain : i <= j
<1>1. CASE plain = {}
  <2>1. WithoutStars(v) = <<>>
    BY <1>1 DEF WithoutStars
  <2> QED BY <2>1
<1>2. CASE plain # {}
  <2>1. WithoutStars(v) = SubSeq(v, first, Len(v))
    BY <1>2 DEF WithoutStars
  <2>2. plain \in SUBSET Nat
    OBVIOUS
  <2>3. \E p \in plain : \A j \in plain : p <= j
    BY <1>2, <2>2, LeastExists
  <2>4. first \in plain
    BY <2>3
  <2>6. first \in 1..Len(v)
    BY <2>4
  <2> HIDE DEF first
  <2> DEFINE w == SubSeq(v, first, Len(v))
  <2>7. /\ w \in Seq(S) /\ Len(w) = Len(v) - first + 1
        /\ \A i \in 1..Len(w) : w[i] = v[first + i - 1]
    BY <2>6
  <2>8. \A i \in 1..Len(w) : first + i - 1 \in 1..Len(v)
    BY <2>6, <2>7
  <2> HIDE DEF w
  <2>9. \A i \in DOMAIN w : \E k \in DOMAIN v : w[i] = v[k]
    BY <2>7, <2>8
  <2> QED BY <2>1, <2>7, <2>9 DEF w
<1> QED BY <1>1, <1>2

\* Dots at the end do not count, and one more does not either.
LEMMA DotsFacts ==
  ASSUME NEW S, NEW v \in Seq(S)
  PROVE  /\ ~Has(v, {Dot}) => ~Has(WithoutLastDots(v), {Dot})
         /\ v # <<>> /\ Last(v) = Dot => WithoutLastDots(v) = WithoutLastDots(Front(v))
<1> DEFINE solid(x) == {i \in DOMAIN x : x[i] # Dot}
           last(x) == CHOOSE i \in solid(x) : \A j \in solid(x) : j <= i
<1>1. ASSUME NEW x \in Seq(S), solid(x) # {}
      PROVE  last(x) \in 1..Len(x)
  <2> DEFINE rest == {Len(x) - i : i \in solid(x)}
  <2>1. rest \in SUBSET Nat /\ rest # {}
    BY <1>1
  <2>3. PICK d \in rest : \A e \in rest : d <= e
    BY <2>1, LeastExists
  <2>4. PICK i \in solid(x) : d = Len(x) - i
    OBVIOUS
  <2>5. \A j \in solid(x) : j <= i
    <3> SUFFICES ASSUME NEW j \in solid(x) PROVE j <= i
      OBVIOUS
    <3>1. Len(x) - j \in rest /\ j \in 1..Len(x) /\ i \in 1..Len(x)
      OBVIOUS
    <3>2. d <= Len(x) - j
      BY <2>3, <3>1
    <3> QED BY <2>4, <3>1, <3>2
  <2>6. last(x) \in solid(x)
    BY <2>5
  <2> HIDE DEF last
  <2>7. DOMAIN x = 1..Len(x)
    OBVIOUS
  <2> QED BY <2>6, <2>7
<1>2. ~Has(v, {Dot}) => ~Has(WithoutLastDots(v), {Dot})
  <2> SUFFICES ASSUME ~Has(v, {Dot}) PROVE ~Has(WithoutLastDots(v), {Dot})
    OBVIOUS
  <2>1. CASE solid(v) = {}
    BY <2>1 DEF WithoutLastDots, Has
  <2>2. CASE solid(v) # {}
    <3> DEFINE k == last(v)
               w == SubSeq(v, 1, k)
    <3>1. WithoutLastDots(v) = w
      BY <2>2 DEF WithoutLastDots
    <3>2. k \in 1..Len(v)
      BY <1>1, <2>2
    <3> HIDE DEF k
    <3>3. Len(w) = k /\ DOMAIN w = 1..k /\ \A i \in 1..k : w[i] = v[i]
      BY <3>2
    <3>4. \A i \in 1..k : v[i] # Dot
      BY <3>2 DEF Has
    <3> HIDE DEF w
    <3> QED BY <3>1, <3>3, <3>4 DEF Has
  <2> QED BY <2>1, <2>2
<1>3. ASSUME v # <<>>, Last(v) = Dot
      PROVE  WithoutLastDots(v) = WithoutLastDots(Front(v))
  <2> DEFINE w == Front(v)
  <2>1. w \in Seq(S) /\ Len(v) \in Nat \ {0} /\ Len(w) = Len(v) - 1 /\ v[Len(v)] = Dot
        /\ \A n \in 1..(Len(v) - 1) : w[n] = v[n]
    BY <1>3, FrontFacts
  <2> HIDE DEF w
  <2>2. solid(v) = solid(w)
    <3>1. DOMAIN v = 1..Len(v) /\ DOMAIN w = 1..(Len(v) - 1)
      BY <2>1
    <3> QED BY <2>1, <3>1
  <2>3. CASE solid(v) = {}
    BY <2>2, <2>3 DEF WithoutLastDots, w
  <2>4. CASE solid(v) # {}
    <3> DEFINE k == last(w)
    <3>1. k = last(v)
      BY <2>2
    <3>2. k \in 1..Len(w)
      BY <1>1, <2>1, <2>2, <2>4
    <3>3. WithoutLastDots(v) = SubSeq(v, 1, k) /\ WithoutLastDots(w) = SubSeq(w, 1, k)
      BY <2>2, <2>4, <3>1 DEF WithoutLastDots
    <3> HIDE DEF k
    <3>4. SubSeq(v, 1, k) = SubSeq(w, 1, k)
      BY <2>1, <3>2
    <3> QED BY <3>3, <3>4 DEF w
  <2> QED BY <2>3, <2>4
<1> QED BY <1>2, <1>3

\* The checks a kind makes on the text as it is typed.
LEMMA ReadsTyped ==
  ASSUME NEW v
  PROVE  /\ Reads("secret", v) <=> GenericSecretCheck(v)
         /\ Reads("bare", v) <=> UnclosedBracketCheck(v) /\ GenericSecretCheck(v)
         /\ Reads("header", v) <=> AuthHeaderCheck(v) /\ GenericSecretCheck(v)
BY DEF Reads

\* Where a reference to a variable begins and ends.
LEMMA ReferenceEnds ==
  ASSUME NEW S, NEW v \in Seq(S), Interpolation(v)
  PROVE  v[1] \in {Dollar, CurlyOpener, Percent} /\ v[Len(v)] # Dot
<1>1. PICK form \in References :
        /\ Len(v) - Len(form.closes) >= 2 /\ SubSeq(v, 1, 2) = form.opens
        /\ SubSeq(v, Len(v) - Len(form.closes) + 1, Len(v)) = form.closes
  BY Zenon DEF Interpolation
<1> DEFINE opens == form.opens
           closes == form.closes
           n == Len(closes)
<1>2. opens \in Seq(Nat) /\ opens[1] \in {Dollar, CurlyOpener, Percent}
  <2>1. opens \in {<<Dollar, CurlyOpener>>, <<CurlyOpener, CurlyOpener>>, <<Dollar, Opener>>,
                   <<Percent, Opener>>}
    BY <1>1 DEF References
  <2>2. \A a, b \in Nat : <<a, b>> \in Seq(Nat) /\ <<a, b>>[1] = a
    OBVIOUS
  <2>3. {Dollar, CurlyOpener, Percent, Opener} \subseteq Nat
    BY DEF Dollar, CurlyOpener, Percent, Opener
  <2> HIDE DEF opens
  <2> QED BY <2>1, <2>2, <2>3
<1>3. closes \in Seq(Nat) /\ n \in {1, 2} /\ closes[n] # Dot
  <2> DEFINE s == 68
  <2>1. closes \in {<<CurlyCloser>>, <<CurlyCloser, CurlyCloser>>, <<Closer>>, <<Closer, s>>}
    BY <1>1 DEF References
  <2>2. \A a, b \in Nat : /\ <<a>> \in Seq(Nat) /\ Len(<<a>>) = 1 /\ <<a>>[1] = a
                          /\ <<a, b>> \in Seq(Nat) /\ Len(<<a, b>>) = 2 /\ <<a, b>>[2] = b
    OBVIOUS
  <2>3. {CurlyCloser, Closer, s} \subseteq Nat /\ Dot \notin {CurlyCloser, Closer, s}
    BY DEF CurlyCloser, Closer, Dot
  <2> HIDE DEF closes, s
  <2>4. \/ Len(closes) = 1 /\ closes[1] # Dot
        \/ Len(closes) = 2 /\ closes[2] # Dot
    BY <2>1, <2>2, <2>3
  <2>5. closes \in Seq(Nat)
    BY <2>1, <2>2, <2>3
  <2>6. Len(closes) = 1 => closes[Len(closes)] = closes[1]
    BY Zenon
  <2>7. Len(closes) = 2 => closes[Len(closes)] = closes[2]
    BY Zenon
  <2> QED BY <2>4, <2>5, <2>6, <2>7
<1>4. Len(v) \in Nat /\ Len(v) - n >= 2
  BY <1>1
<1> HIDE DEF opens, closes
<1>5. SubSeq(v, 1, 2)[1] = v[1]
  BY <1>3, <1>4
<1>6. SubSeq(v, Len(v) - n + 1, Len(v))[n] = v[Len(v)]
  <2> DEFINE from == Len(v) - n + 1
             to == Len(v)
  <2>1. from \in 1..to /\ from + n - 1 = to /\ to = Len(v) /\ n \in 1..(to - from + 1)
    <3>1. n \in {1, 2} /\ Len(v) \in Nat /\ Len(v) - n >= 2
      BY <1>3, <1>4
    <3> HIDE DEF n
    <3> QED BY <3>1
  <2> HIDE DEF from, to, n
  <2>2. SubSeq(v, from, to)[n] = v[from + n - 1]
    BY <2>1
  <2> QED BY <2>1, <2>2 DEF from, to
<1> QED BY <1>1, <1>2, <1>3, <1>5, <1>6 DEF opens, closes

\* The first promise: a digit among other characters makes a credential.
LEMMA DigitIsKept ==
  ASSUME NEW S, NEW v \in Seq(S), NEW k \in Typed,
         NEW w, w = WithoutStars(v),
         Has(w, Digits), ~Within(w, Digits), ~Interpolation(w), ~Has(w, {Dot}),
         k # "secret" => ~LeftOpen(v) /\ ~Crossed(v)
  PROVE  Reads(k, v)
<1>1. w \in Seq(S) /\ \A i \in DOMAIN w : \E n \in DOMAIN v : w[i] = v[n]
  BY StarsFacts
<1>2. PICK i \in DOMAIN w : w[i] \in Digits
  BY DEF Has
<1>3. \A d \in Digits : d \notin Lower \union Hyphens /\ d # Reserved
  BY DEF Digits, Lower, Small, Secret, Reserved, Auth, Hyphens, Dash, Underscore
<1>4. ~NameByShape(w)
  <2>1. ~HasInteriorDot(w)
    BY <1>1, DotsFacts DEF HasInteriorDot
  <2>2. ~PropertyPath(w)
    BY <2>1 DEF PropertyPath, HasInteriorDot
  <2> QED BY <2>2 DEF NameByShape
<1>5. ~Next2(w, {Question}, {Dot})
  <2>1. \A j \in 1..(Len(w) - 1) : j + 1 \in DOMAIN w
    BY <1>1
  <2> QED BY <2>1 DEF Next2, Has
<1>6. ~SlugNamingItself(w)
  BY <1>2, <1>3 DEF SlugNamingItself, Within
<1>7. ~ReservedWord(w)
  <2> SUFFICES ASSUME w = <<Reserved>> PROVE FALSE
    BY DEF ReservedWord
  <2>1. i = 1 /\ w[1] = Reserved
    OBVIOUS
  <2> QED BY <1>2, <1>3, <2>1
<1>8. GenericSecretCheck(v)
  BY <1>4, <1>5, <1>6, <1>7 DEF GenericSecretCheck, AllDigits
<1>9. k # "secret" => UnclosedBracketCheck(v)
  BY ClosedAccepted
<1>10. ~Within(v, Lower \union Hyphens)
  BY <1>1, <1>2, <1>3 DEF Within
<1>11. k # "secret" => AuthHeaderCheck(v)
  BY <1>9, <1>10 DEF AuthHeaderCheck
<1> QED BY <1>8, <1>9, <1>11, ReadsTyped DEF Typed

\* The second: a last dot changes nothing.
LEMMA DotIsKept ==
  ASSUME NEW S, NEW v \in Seq(S), NEW k \in Typed, v # <<>>,
         Has(v, Digits), Last(v) = Dot, v[1] \notin Stars \union {Dot},
         ~Within(Front(v), Digits), ~Next2(v, {Question}, {Dot}),
         ~Interpolation(Front(v)), Reads(k, Front(v))
  PROVE  Reads(k, v)
<1> DEFINE w == Front(v)
<1>1. w \in Seq(S) /\ Len(v) \in Nat \ {0} /\ Len(w) = Len(v) - 1 /\ v[Len(v)] = Dot
      /\ \A n \in 1..(Len(v) - 1) : w[n] = v[n]
  BY FrontFacts
<1>2. w # <<>> /\ w[1] = v[1] /\ Len(w) \in Nat \ {0}
  <2>1. Len(v) # 1
    BY <1>1
  <2>2. Len(w) \in Nat \ {0} /\ 1 \in 1..(Len(v) - 1)
    BY <1>1, <2>1
  <2>3. w # <<>>
    BY <2>2
  <2> QED BY <1>1, <2>2, <2>3
<1>3. DOMAIN v = 1..Len(v) /\ DOMAIN w = 1..Len(w) /\ Len(v) \in DOMAIN v
  BY <1>1
<1>4. WithoutStars(v) = v /\ WithoutStars(w) = w
  BY <1>1, <1>2, NoStar
<1>5. WithoutLastDots(v) = WithoutLastDots(w)
  BY DotsFacts
<1> HIDE DEF w
<1>6. ~SlugNamingItself(v) /\ ~AllDigits(v) /\ ~Within(v, Lower \union Hyphens)
  <2>1. Dot \notin Lower \union Hyphens /\ Dot \notin Digits
    BY DEF Digits, Lower, Small, Secret, Reserved, Auth, Hyphens, Dash, Underscore, Dot
  <2> QED BY <1>1, <1>3, <2>1 DEF SlugNamingItself, AllDigits, Within
<1>7. ~ReservedWord(v)
  <2> SUFFICES ASSUME v = <<Reserved>> PROVE FALSE
    BY DEF ReservedWord
  <2>1. Len(v) = 1
    OBVIOUS
  <2> QED BY <1>1, <1>2, <2>1
<1>8. ~Interpolation(v)
  BY <1>1, ReferenceEnds DEF Last
<1>9. IdentifierOnly(v) => IdentifierOnly(w)
  BY <1>1, <1>2, <1>3 DEF IdentifierOnly, Within
<1>10. ~NameByShape(w) => ~NameByShape(v)
  <2> SUFFICES ASSUME ~NameByShape(w), NameByShape(v) PROVE FALSE
    OBVIOUS
  <2>1. Last(v) = Dot
    OBVIOUS
  <2>2. IF PropertyPath(v) THEN ReadsACredential(v) ELSE ~Has(v, Digits)
    BY <2>1 DEF NameByShape
  <2>3. PropertyPath(v) /\ ReadsACredential(v)
    BY <2>2
  <2>4. PropertyPath(w)
    BY <1>5, <2>3 DEF PropertyPath
  <2>5. HasInteriorDot(w)
    BY <2>4 DEF PropertyPath, HasInteriorDot
  <2>6. ReadsACredential(w)
    <3>1. HasInteriorCapital(v) => HasInteriorCapital(w)
      <4>1. Dot \notin Capitals
        BY DEF Dot, Capitals
      <4>2. \A n \in 2..Len(v) : v[n] \in Capitals => n \in 2..Len(w) /\ w[n] = v[n]
        BY <1>1, <4>1
      <4> QED BY <4>2 DEF HasInteriorCapital
    <3> QED BY <1>5, <2>3, <3>1 DEF ReadsACredential
  <2> QED BY <2>4, <2>5, <2>6 DEF NameByShape
<1>11. GenericSecretCheck(w) => GenericSecretCheck(v)
  BY <1>4, <1>6, <1>7, <1>8, <1>9, <1>10 DEF GenericSecretCheck
<1>12. UnclosedBracketCheck(w) => UnclosedBracketCheck(v)
  <2>1. PICK g : OpensAll(v, g) /\ (UnclosedBracketCheck(v) <=> g[Len(v)] = <<>>)
    BY OpensFacts
  <2>2. PICK h : OpensAll(w, h) /\ (UnclosedBracketCheck(w) <=> h[Len(w)] = <<>>)
    BY <1>1, OpensFacts
  <2>3. h[Len(w)] = g[Len(w)]
    <3>1. Len(w) <= Len(v) /\ \A n \in 1..Len(w) : w[n] = v[n]
      BY <1>1
    <3>2. Len(w) \in 0..Len(w)
      BY <1>2
    <3> QED BY SMTT(60), <1>1, <2>1, <2>2, <3>1, <3>2, OpensSame
  <2>4. g[Len(v)] = OpenAfter(g[Len(w)], Dot) /\ g[Len(w)] \in Seq(Openers)
    <3>1. Len(v) \in 1..Len(v) /\ Len(w) \in 0..Len(v) /\ Len(v) - 1 = Len(w)
      BY <1>1
    <3> QED BY <1>1, <2>1, <3>1 DEF OpensAll
  <2>5. Dot \notin Openers /\ \A o \in Openers : CloserFor[o] # Dot
    <3>1. Dot \notin Openers
      BY DEF Dot, Openers, Opener, SquareOpener, CurlyOpener, AngleOpener
    <3> QED BY <3>1, ClosersFacts
  <2>6. g[Len(v)] = g[Len(w)]
    <3> DEFINE s == g[Len(w)]
    <3>1. s # <<>> => Last(s) \in Openers
      BY <2>4, FrontFacts
    <3> QED BY <2>4, <2>5, <3>1, OpenAfterCases
  <2> QED BY <2>1, <2>2, <2>3, <2>6
<1>13. UnclosedBracketCheck(v) => AuthHeaderCheck(v)
  BY <1>6 DEF AuthHeaderCheck
<1>14. AuthHeaderCheck(w) => UnclosedBracketCheck(w)
  BY DEF AuthHeaderCheck
<1> QED BY <1>11, <1>12, <1>13, <1>14, ReadsTyped DEF Typed, w

\* The third: a word of small letters and dashes is one, unless the language has it.
LEMMA WordIsKept ==
  ASSUME NEW S, NEW v \in Seq(S), NEW k \in Typed, v # <<>>,
         Within(v, Small \union Hyphens \union {Reserved}), v # <<Reserved>>
  PROVE  Reads(k, v)
<1> DEFINE Plain == Small \union Hyphens \union {Reserved}
<1>1. /\ Plain \intersect ({Dot, Question, Secret, Auth} \union Stars) = {}
      /\ Plain \intersect ({Dollar, CurlyOpener, Percent} \union Openers) = {}
      /\ Plain \intersect Capitals = {} /\ Plain \intersect Digits = {}
  BY DEF Small, Hyphens, Dash, Underscore, Reserved, Stars, Star, Ampersand, Dot, Question,
         Secret, Auth, Dollar, Percent, Openers, Opener, SquareOpener, CurlyOpener, AngleOpener,
         Capitals, Digits
<1>2. Len(v) \in Nat \ {0} /\ DOMAIN v = 1..Len(v) /\ \A i \in 1..Len(v) : v[i] \in Plain
  BY DEF Within
<1> HIDE DEF Plain
<1>3. v[1] \in Plain /\ v[Len(v)] \in Plain /\ Last(v) = v[Len(v)]
  <2>1. 1 \in 1..Len(v) /\ Len(v) \in 1..Len(v)
    BY <1>2
  <2> QED BY <1>2, <2>1 DEF Last
<1>4. WithoutStars(v) = v
  BY <1>1, <1>3, NoStar
<1>5. ~Has(v, {Dot})
  BY <1>1, <1>2 DEF Has
<1>6. ~NameByShape(v)
  <2>1. ~HasInteriorDot(v)
    BY <1>5, DotsFacts DEF HasInteriorDot
  <2>2. ~HasCamelCaseJoin(v)
    <3>1. \A i \in 1..(Len(v) - 1) : i + 1 \in 1..Len(v)
      BY <1>2
    <3> QED BY <1>1, <1>2, <3>1 DEF HasCamelCaseJoin, Next2
  <2>3. Last(v) # Dot
    BY <1>1, <1>3
  <2> QED BY <2>1, <2>2, <2>3 DEF NameByShape
<1>7. ~Next2(v, {Question}, {Dot})
  <2>1. \A i \in 1..(Len(v) - 1) : i \in 1..Len(v)
    BY <1>2
  <2> QED BY <1>1, <1>2, <2>1 DEF Next2
<1>8. ~SlugNamingItself(v) /\ ~Has(v, {Auth})
  BY <1>1, <1>2 DEF SlugNamingItself, Has
<1>9. ~AllDigits(v) /\ ~Interpolation(v)
  <2>1. v[1] \notin {Dollar, CurlyOpener, Percent} /\ v[1] \notin Digits /\ 1 \in DOMAIN v
    BY <1>1, <1>2, <1>3
  <2> QED BY <2>1, ReferenceEnds DEF AllDigits, Within
<1>10. GenericSecretCheck(v)
  BY <1>4, <1>6, <1>7, <1>8, <1>9 DEF GenericSecretCheck, ReservedWord
<1>11. UnclosedBracketCheck(v)
  <2>1. ~Crossed(v) /\ ~LeftOpen(v)
    <3>1. \A i \in 1..Len(v) : v[i] \notin Openers
      BY <1>1, <1>2
    <3> QED BY <1>2, <3>1, ClosersFacts DEF Crossed, Has, LeftOpen
  <2> QED BY <2>1, ClosedAccepted
<1>12. AuthHeaderCheck(v)
  BY <1>8, <1>11 DEF AuthHeaderCheck
<1> QED BY <1>10, <1>11, <1>12, ReadsTyped DEF Typed

\* The fourth: an expression cut short is refused.
LEMMA CutIsRefused ==
  ASSUME NEW S, NEW v \in Seq(S), NEW k \in Typed, k # "secret", LeftOpen(v)
  PROVE  ~Reads(k, v)
BY LeftOpenRefused, ReadsTyped DEF Typed, AuthHeaderCheck

\* The fifth: nobody weakens a password by typing on.
LEMMA StrengthGrows ==
  ASSUME NEW S, NEW v \in Seq(S), v # <<>>
  PROVE  SecretStrength(Front(v)) <= SecretStrength(v)
<1> DEFINE w == Front(v)
           plain == Lower \union Capitals \union Digits \union Hyphens \union {Dot}
           Kinds == {Lower, Capitals, Digits}
           Found(x) == {k \in Kinds : Has(x, k)}
           other(x) == IF Within(x, plain) THEN 0 ELSE 1
           classes(x) == Cardinality(Found(x)) + other(x)
<1>1. w \in Seq(S) /\ Len(v) \in Nat \ {0} /\ Len(w) = Len(v) - 1
      /\ \A n \in 1..(Len(v) - 1) : w[n] = v[n]
  BY FrontFacts
<1> HIDE DEF w
<1>2. DOMAIN w \subseteq DOMAIN v /\ \A n \in DOMAIN w : w[n] = v[n]
  BY <1>1
<1>3. Found(w) \subseteq Found(v)
  BY <1>2 DEF Has
<1>4. other(w) <= other(v) /\ other(w) \in Nat /\ other(v) \in Nat
  <2>1. Within(v, plain) => Within(w, plain)
    BY <1>2 DEF Within
  <2> QED BY <2>1
<1>5. IsFiniteSet(Found(v)) /\ IsFiniteSet(Found(w))
  <2>1. IsFiniteSet({Lower}) /\ IsFiniteSet({Lower} \union {Capitals})
        /\ IsFiniteSet(({Lower} \union {Capitals}) \union {Digits})
    BY FS_Singleton, FS_AddElement
  <2>2. Kinds = ({Lower} \union {Capitals}) \union {Digits}
    OBVIOUS
  <2>3. Found(v) \subseteq Kinds /\ Found(w) \subseteq Kinds
    OBVIOUS
  <2> QED BY <2>1, <2>2, <2>3, FS_Subset
<1> HIDE DEF Found, other
<1>6. Cardinality(Found(w)) <= Cardinality(Found(v))
  BY <1>3, <1>5, FS_Subset
<1>7. Cardinality(Found(w)) \in Nat /\ Cardinality(Found(v)) \in Nat
  BY <1>5, FS_CardinalityType
<1>8. classes(w) <= classes(v) /\ classes(w) \in Nat /\ classes(v) \in Nat
  BY <1>4, <1>6, <1>7
<1>9. \A x : SecretStrength(x) = (IF classes(x) >= 3 \/ (classes(x) >= 2 /\ Len(x) >= Generated) THEN 2
                                 ELSE IF classes(x) = 2 THEN 1 ELSE 0)
  BY DEF SecretStrength, Found, other
<1> HIDE DEF classes
<1>10. Len(w) >= Generated => Len(v) >= Generated
  BY <1>1, BoundsAssumption
<1>11. SecretStrength(w) <= SecretStrength(v)
  BY <1>8, <1>9, <1>10
<1> QED BY <1>11 DEF w

-----------------------------------------------------------------------------
(* The theorem. *)

\* What is typed is a text of a kind that is typed, and nothing else happens to it.
TypedInv ==
  /\ kind \in Typed => value \in Seq(Keys)
  /\ origin = "typed" => kind \in Typed /\ value # <<>>
  /\ kind \in Typed => origin \in {"blank", "typed"}

LEMMA TypedAlways == Spec => []TypedInv
<1>1. Init => TypedInv
  BY DEF Init, TypedInv
<1>2. TypedInv /\ [Next]_vars => TypedInv'
  <2> SUFFICES ASSUME TypedInv, [Next]_vars PROVE TypedInv'
    OBVIOUS
  <2>0. Typed \intersect (Assignable \union Mintable \union {"iban", "date", "postcode"}) = {}
    BY DEF Typed, Assignable, Mintable
  <2>1. ASSUME NEW c \in Keys, Type(c) PROVE TypedInv'
    <3>1. value \in Seq(Keys) /\ value' = Append(value, c) /\ kind' = kind /\ kind \in Typed
          /\ origin' = "typed"
      BY <2>1 DEF Type, TypedInv
    <3>2. value' \in Seq(Keys) /\ value' # <<>>
      BY <3>1
    <3> QED BY <3>1, <3>2 DEF TypedInv
  <2>2. ASSUME kind \notin Typed, kind' = kind, origin' # "typed" PROVE TypedInv'
    BY <2>2 DEF TypedInv
  <2>3. ASSUME NEW body, Issue(body) PROVE TypedInv'
    BY <2>0, <2>2, <2>3 DEF Issue
  <2>4. ASSUME NEW i, Mint(i) PROVE TypedInv'
    BY <2>0, <2>2, <2>4 DEF Mint
  <2>5. ASSUME NEW i, NEW d, Mistype(i, d) PROVE TypedInv'
    BY <2>2, <2>5 DEF Mistype, TypedInv
  <2>6. ASSUME NEW i, Exchange(i) PROVE TypedInv'
    BY <2>2, <2>6 DEF Exchange, TypedInv
  <2>7. ASSUME NEW size, NEW separator, Group(size, separator) PROVE TypedInv'
    BY <2>2, <2>7 DEF Group, TypedInv
  <2>8. ASSUME NEW tail, RunInto(tail) PROVE TypedInv'
    BY <2>0, <2>2, <2>8 DEF RunInto
  <2>9. ASSUME NEW date, NEW notation, WriteDate(date[1], date[2], date[3], notation) PROVE TypedInv'
    BY <2>0, <2>2, <2>9 DEF WriteDate
  <2>10. ASSUME NEW month, List(month) PROVE TypedInv'
    BY <2>0, <2>2, <2>10 DEF List
  <2>11. CASE UNCHANGED vars
    BY <2>11 DEF vars, TypedInv
  <2> QED BY <2>1, <2>3, <2>4, <2>5, <2>6, <2>7, <2>8, <2>9, <2>10, <2>11 DEF Next
<1> QED BY <1>1, <1>2, PTL DEF Spec

\* What GenericSecretCheck, UnclosedBracketCheck and SecretStrength make of a password, of
\* any length and typed with any characters, brackets of all four kinds and references
\* to variables in all their forms among them: one with a digit is kept, a last dot changes
\* nothing, a word is kept, an expression cut short is refused, and typing on never
\* weakens it.
THEOREM PasswordsAreKept == Spec => []PasswordIsKept
<1>1. TypedInv => PasswordIsKept
  <2> SUFFICES ASSUME TypedInv, origin = "typed" PROVE PasswordIsKept
    BY DEF PasswordIsKept
  <2> DEFINE v == WithoutStars(value)
             cut == kind # "secret" /\ LeftOpen(value)
             crossed == kind # "secret" /\ Crossed(value)
  <2>0. value \in Seq(Keys) /\ value # <<>> /\ kind \in Typed
    BY DEF TypedInv
  <2>1. ASSUME Has(v, Digits), ~Within(v, Digits), ~Interpolation(v), ~Has(v, {Dot}), ~cut, ~crossed
        PROVE  Reads(kind, value)
    BY <2>0, <2>1, DigitIsKept
  <2>2. ASSUME Has(value, Digits), Last(value) = Dot, value[1] \notin Stars \union {Dot},
               ~Within(Front(value), Digits), ~Next2(value, {Question}, {Dot}),
               ~Interpolation(Front(value)), Reads(kind, Front(value))
        PROVE  Reads(kind, value)
    BY <2>0, <2>2, DotIsKept
  <2>3. ASSUME Within(value, Small \union Hyphens \union {Reserved}), value # <<Reserved>>
        PROVE  Reads(kind, value)
    BY <2>0, <2>3, WordIsKept
  <2>4. cut => ~Reads(kind, value)
    BY <2>0, CutIsRefused
  <2>5. SecretStrength(Front(value)) <= SecretStrength(value)
    BY <2>0, StrengthGrows
  <2> QED BY <2>1, <2>2, <2>3, <2>4, <2>5 DEF PasswordIsKept
<1> QED BY <1>1, TypedAlways, PTL

-----------------------------------------------------------------------------
(* Sums. *)

\* g has the sum of the first n numbers of s, for each n.
SummedTo(s, g, m) == g = [n \in 0..m |-> IF n = 0 THEN 0 ELSE g[n - 1] + s[n]]

Sums(s, g) == g[0] = 0 /\ \A n \in 1..Len(s) : g[n] = g[n - 1] + s[n]

\* There are such sums, of whatever length.
LEMMA SummedExists ==
  ASSUME NEW s
  PROVE  \A m \in Nat : \E g : SummedTo(s, g, m)
<1> DEFINE M == {m \in Nat : \E g : SummedTo(s, g, m)}
<1>1. 0 \in M
  <2>1. SummedTo(s, [n \in 0..0 |-> 0], 0)
    BY DEF SummedTo
  <2> QED BY <2>1
<1>2. ASSUME NEW m \in Nat, m \in M PROVE m + 1 \in M
  <2>1. PICK g : SummedTo(s, g, m)
    BY <1>2
  <2> DEFINE h == [n \in 0..m+1 |-> IF n = m + 1 THEN g[m] + s[n] ELSE g[n]]
  <2>2. \A n \in 0..m : h[n] = g[n]
    OBVIOUS
  <2>3. \A n \in 0..m : g[n] = IF n = 0 THEN 0 ELSE g[n - 1] + s[n]
    BY <2>1 DEF SummedTo
  <2>4. \A n \in 0..m+1 : h[n] = IF n = 0 THEN 0 ELSE h[n - 1] + s[n]
    BY <2>2, <2>3
  <2>5. SummedTo(s, h, m + 1)
    BY <2>4 DEF SummedTo
  <2> QED BY <2>5
<1> HIDE DEF M
<1>3. M = Nat
  BY <1>1, <1>2, Counting DEF M
<1> QED BY <1>3 DEF M

\* So Total, which chooses such a function, has chosen one.
LEMMA TotalUnfolds ==
  ASSUME NEW s, Len(s) \in Nat
  PROVE  \E g : Sums(s, g) /\ Total(s) = g[Len(s)]
<1> DEFINE sum == CHOOSE g : g = [n \in 0..Len(s) |-> IF n = 0 THEN 0 ELSE g[n - 1] + s[n]]
<1>1. Total(s) = sum[Len(s)]
  BY DEF Total
<1>2. PICK g : g = [n \in 0..Len(s) |-> IF n = 0 THEN 0 ELSE g[n - 1] + s[n]]
  <2> HIDE DEF sum
  <2>1. PICK g : SummedTo(s, g, Len(s))
    BY SummedExists
  <2> QED BY <2>1 DEF SummedTo
<1>3. sum = [n \in 0..Len(s) |-> IF n = 0 THEN 0 ELSE sum[n - 1] + s[n]]
  BY <1>2
<1> HIDE DEF sum
<1>4. \A n \in 0..Len(s) : sum[n] = IF n = 0 THEN 0 ELSE sum[n - 1] + s[n]
  BY <1>3
<1>5. Sums(s, sum)
  BY <1>4 DEF Sums
<1> QED BY <1>1, <1>5

\* They are numbers where what is added up is.
LEMMA SumsTyped ==
  ASSUME NEW s \in Seq(Int), NEW g, Sums(s, g)
  PROVE  \A n \in 0..Len(s) : g[n] \in Int
<1>0. Len(s) \in Nat /\ \A n \in 1..Len(s) : s[n] \in Int
  OBVIOUS
<1> DEFINE M == {m \in Nat : m <= Len(s) => g[m] \in Int}
<1>1. 0 \in M
  BY DEF Sums
<1>2. ASSUME NEW m \in Nat, m \in M PROVE m + 1 \in M
  <2> SUFFICES ASSUME m + 1 <= Len(s) PROVE g[m + 1] \in Int
    OBVIOUS
  <2>1. m + 1 \in 1..Len(s) /\ (m + 1) - 1 = m /\ m <= Len(s)
    BY <1>0
  <2>2. g[m + 1] = g[m] + s[m + 1]
    BY <2>1 DEF Sums
  <2> QED BY <1>0, <1>2, <2>1, <2>2
<1> HIDE DEF M
<1>3. M = Nat
  BY <1>1, <1>2, Counting DEF M
<1> QED BY <1>0, <1>3 DEF M

\* A number more adds to the sum, and a number that is changed changes it by as much.
LEMMA TotalGrows ==
  ASSUME NEW s \in Seq(Int), NEW t \in Seq(Int), Len(t) = Len(s) + 1,
         \A n \in 1..Len(s) : t[n] = s[n]
  PROVE  Total(s) \in Int /\ Total(t) = Total(s) + t[Len(t)]
<1>0. Len(s) \in Nat /\ Len(t) \in Nat
  OBVIOUS
<1>1. PICK g : Sums(s, g) /\ Total(s) = g[Len(s)]
  BY <1>0, TotalUnfolds
<1>2. PICK h : Sums(t, h) /\ Total(t) = h[Len(t)]
  BY <1>0, TotalUnfolds
<1> DEFINE M == {m \in Nat : m <= Len(s) => h[m] = g[m]}
<1>3. 0 \in M
  BY <1>1, <1>2 DEF Sums
<1>4. ASSUME NEW m \in Nat, m \in M PROVE m + 1 \in M
  <2> SUFFICES ASSUME m + 1 <= Len(s) PROVE h[m + 1] = g[m + 1]
    OBVIOUS
  <2>1. m + 1 \in 1..Len(s) /\ m + 1 \in 1..Len(t) /\ (m + 1) - 1 = m /\ m <= Len(s)
    BY <1>0
  <2>2. g[m + 1] = g[m] + s[m + 1] /\ h[m + 1] = h[m] + t[m + 1]
    BY <1>1, <1>2, <2>1 DEF Sums
  <2> QED BY <1>4, <2>1, <2>2
<1> HIDE DEF M
<1>5. M = Nat
  BY <1>3, <1>4, Counting DEF M
<1>6. h[Len(s)] = g[Len(s)]
  BY <1>0, <1>5 DEF M
<1>7. h[Len(t)] = h[Len(s)] + t[Len(t)]
  <2>1. Len(t) \in 1..Len(t) /\ Len(t) - 1 = Len(s)
    BY <1>0
  <2> QED BY <1>2, <2>1 DEF Sums
<1>8. g[Len(s)] \in Int
  BY <1>0, <1>1, SumsTyped
<1> QED BY <1>1, <1>2, <1>6, <1>7, <1>8

\* And a number that is changed changes the sum by as much.
LEMMA TotalChanges ==
  ASSUME NEW s \in Seq(Int), NEW t \in Seq(Int), Len(t) = Len(s), NEW i \in 1..Len(s),
         \A n \in 1..Len(s) : n # i => t[n] = s[n]
  PROVE  Total(s) \in Int /\ Total(t) = Total(s) + (t[i] - s[i])
<1>0. Len(s) \in Nat /\ Len(t) \in Nat /\ i \in Nat /\ s[i] \in Int /\ t[i] \in Int
  OBVIOUS
<1>1. PICK g : Sums(s, g) /\ Total(s) = g[Len(s)]
  BY <1>0, TotalUnfolds
<1>2. PICK h : Sums(t, h) /\ Total(t) = h[Len(t)]
  BY <1>0, TotalUnfolds
<1>3. \A n \in 0..Len(s) : g[n] \in Int /\ h[n] \in Int
  BY <1>1, <1>2, SumsTyped
<1> DEFINE M == {m \in Nat : m <= Len(s) => h[m] = g[m] + (IF m < i THEN 0 ELSE t[i] - s[i])}
<1>4. 0 \in M
  BY <1>0, <1>1, <1>2 DEF Sums
<1>5. ASSUME NEW m \in Nat, m \in M PROVE m + 1 \in M
  <2> SUFFICES ASSUME m + 1 <= Len(s)
               PROVE  h[m + 1] = g[m + 1] + (IF m + 1 < i THEN 0 ELSE t[i] - s[i])
    OBVIOUS
  <2>1. m + 1 \in 1..Len(s) /\ m + 1 \in 1..Len(t) /\ (m + 1) - 1 = m /\ m <= Len(s) /\ m \in 0..Len(s)
    BY <1>0
  <2>2. g[m + 1] = g[m] + s[m + 1] /\ h[m + 1] = h[m] + t[m + 1]
    BY <1>1, <1>2, <2>1 DEF Sums
  <2>3. h[m] = g[m] + (IF m < i THEN 0 ELSE t[i] - s[i])
    BY <1>5, <2>1
  <2>4. g[m] \in Int /\ s[m + 1] \in Int /\ t[m + 1] \in Int
    BY <1>3, <2>1
  <2>5. CASE m + 1 = i
    BY SMTT(60), <1>0, <2>2, <2>3, <2>4, <2>5
  <2>6. CASE m + 1 # i
    <3>1. t[m + 1] = s[m + 1] /\ (m < i <=> m + 1 < i)
      BY <1>0, <2>1, <2>6
    <3> QED BY SMTT(60), <1>0, <2>2, <2>3, <2>4, <3>1
  <2> QED BY <2>5, <2>6
<1> HIDE DEF M
<1>6. M = Nat
  BY <1>4, <1>5, Counting DEF M
<1>7. h[Len(s)] = g[Len(s)] + (t[i] - s[i])
  BY <1>0, <1>6 DEF M
<1>8. g[Len(s)] \in Int
  BY <1>0, <1>3
<1> QED BY <1>1, <1>2, <1>7, <1>8

-----------------------------------------------------------------------------
(* A number and its separators. *)

\* A beginning is the one before it and a character more.
LEMMA PrefixGrows ==
  ASSUME NEW S, NEW s \in Seq(S), NEW c \in Nat, c + 1 <= Len(s)
  PROVE  SubSeq(s, 1, c + 1) = Append(SubSeq(s, 1, c), s[c + 1])
<1> DEFINE d == c + 1
           u == SubSeq(s, 1, c)
           v == SubSeq(s, 1, d)
<1>1. d \in Nat /\ d = c + 1 /\ d <= Len(s) /\ Len(s) \in Nat /\ d \in 1..Len(s)
  OBVIOUS
<1> HIDE DEF d
<1>2. /\ v \in Seq(S) /\ Len(v) = d /\ \A n \in 1..d : v[n] = s[n]
  BY <1>1
<1>3. u \in Seq(S) /\ Len(u) = c /\ \A n \in 1..c : u[n] = s[n]
  BY <1>1
<1> HIDE DEF u, v
<1>4. s[d] \in S
  BY <1>1
<1>5. /\ Append(u, s[d]) \in Seq(S) /\ Len(Append(u, s[d])) = d
      /\ \A n \in 1..d : Append(u, s[d])[n] = s[n]
  BY <1>1, <1>3, <1>4
<1> DEFINE w == Append(u, s[d])
<1> HIDE DEF w
<1>6. v = w
  BY <1>1, <1>2, <1>5 DEF w
<1> QED BY <1>6 DEF d, u, v, w

\* g has what is kept of the first n characters of s, for each n.
KeptTo(s, T, g, m) ==
  g = [n \in 0..m |-> IF n = 0 THEN <<>>
                      ELSE IF s[n] \in T THEN Append(g[n - 1], s[n]) ELSE g[n - 1]]

Kept(s, T, g) ==
  /\ g[0] = <<>>
  /\ \A n \in 1..Len(s) : g[n] = IF s[n] \in T THEN Append(g[n - 1], s[n]) ELSE g[n - 1]

\* There is such a sequence of what is kept, of whatever length.
LEMMA KeptExists ==
  ASSUME NEW s, NEW T
  PROVE  \A m \in Nat : \E g : KeptTo(s, T, g, m)
<1> DEFINE M == {m \in Nat : \E g : KeptTo(s, T, g, m)}
<1>1. 0 \in M
  <2>1. KeptTo(s, T, [n \in 0..0 |-> <<>>], 0)
    BY DEF KeptTo
  <2> QED BY <2>1
<1>2. ASSUME NEW m \in Nat, m \in M PROVE m + 1 \in M
  <2>1. PICK g : KeptTo(s, T, g, m)
    BY <1>2
  <2> DEFINE h == [n \in 0..m+1 |-> IF n = m + 1
                     THEN IF s[n] \in T THEN Append(g[m], s[n]) ELSE g[m] ELSE g[n]]
  <2>2. \A n \in 0..m : h[n] = g[n]
    OBVIOUS
  <2>3. \A n \in 0..m : g[n] = IF n = 0 THEN <<>>
                      ELSE IF s[n] \in T THEN Append(g[n - 1], s[n]) ELSE g[n - 1]
    BY <2>1 DEF KeptTo
  <2>4. \A n \in 0..m+1 : h[n] = IF n = 0 THEN <<>>
                      ELSE IF s[n] \in T THEN Append(h[n - 1], s[n]) ELSE h[n - 1]
    BY <2>2, <2>3
  <2>5. KeptTo(s, T, h, m + 1)
    BY <2>4 DEF KeptTo
  <2> QED BY <2>5
<1> HIDE DEF M
<1>3. M = Nat
  BY <1>1, <1>2, Counting DEF M
<1> QED BY <1>3 DEF M

\* So Keep, which chooses one, has chosen one.
LEMMA KeepUnfolds ==
  ASSUME NEW s, NEW T, Len(s) \in Nat
  PROVE  \E g : Kept(s, T, g) /\ Keep(s, T) = g[Len(s)]
<1> DEFINE kept == CHOOSE g : g = [n \in 0..Len(s) |->
                     IF n = 0 THEN <<>>
                     ELSE IF s[n] \in T THEN Append(g[n - 1], s[n]) ELSE g[n - 1]]
<1>1. Keep(s, T) = kept[Len(s)]
  BY DEF Keep
<1>2. PICK g : g = [n \in 0..Len(s) |->
                     IF n = 0 THEN <<>>
                     ELSE IF s[n] \in T THEN Append(g[n - 1], s[n]) ELSE g[n - 1]]
  <2> HIDE DEF kept
  <2>1. PICK g : KeptTo(s, T, g, Len(s))
    BY SMTT(60), KeptExists
  <2> QED BY <2>1 DEF KeptTo
<1>3. kept = [n \in 0..Len(s) |->
                     IF n = 0 THEN <<>>
                     ELSE IF s[n] \in T THEN Append(kept[n - 1], s[n]) ELSE kept[n - 1]]
  BY <1>2
<1> HIDE DEF kept
<1>4. \A n \in 0..Len(s) : kept[n] = IF n = 0 THEN <<>>
                     ELSE IF s[n] \in T THEN Append(kept[n - 1], s[n]) ELSE kept[n - 1]
  BY <1>3
<1>5. Kept(s, T, kept)
  BY <1>4 DEF Kept
<1> QED BY <1>1, <1>5

\* The characters of a number stand in a text, each at its place, in their order, and
\* everything else there is a separator.
Laid(text, number, place, separators) ==
  /\ text \in Seq(Nat) /\ number \in Seq(Nat)
  /\ place \in [1..Len(number) -> 1..Len(text)]
  /\ \A a, b \in 1..Len(number) : a < b => place[a] < place[b]
  /\ \A k \in 1..Len(number) : text[place[k]] = number[k]
  /\ \A n \in 1..Len(text) : text[n] \in separators \/ \E k \in 1..Len(number) : place[k] = n

\* Then the number is what is kept of the text, whatever keeps its characters and no
\* separators.
LEMMA KeepIs ==
  ASSUME NEW text, NEW number, NEW place, NEW separators, NEW T,
         Laid(text, number, place, separators),
         \A k \in 1..Len(number) : number[k] \in T, \A c \in separators : c \notin T
  PROVE  Keep(text, T) = number
<1>0. text \in Seq(Nat) /\ number \in Seq(Nat) /\ Len(text) \in Nat /\ Len(number) \in Nat
  BY DEF Laid
<1>1. PICK g : Kept(text, T, g) /\ Keep(text, T) = g[Len(text)]
  BY <1>0, KeepUnfolds
<1> DEFINE Upto(n, c) == /\ c \in 0..Len(number)
                         /\ \A k \in 1..Len(number) : place[k] <= n <=> k <= c
                         /\ g[n] = SubSeq(number, 1, c)
           M == {n \in Nat : n <= Len(text) => \E c : Upto(n, c)}
<1>2. \A k \in 1..Len(number) : place[k] \in Nat /\ 1 <= place[k] /\ place[k] <= Len(text)
  BY SMTT(60), <1>0 DEF Laid
<1> HIDE DEF Upto
<1>3. 0 \in M
  <2>1. SubSeq(number, 1, 0) = <<>>
    BY <1>0
  <2>2. g[0] = <<>>
    BY <1>1 DEF Kept
  <2>3. \A k \in 1..Len(number) : place[k] <= 0 <=> k <= 0
    BY <1>0, <1>2
  <2>4. 0 \in 0..Len(number)
    BY <1>0
  <2>5. Upto(0, 0)
    BY <2>1, <2>2, <2>3, <2>4 DEF Upto
  <2> QED BY <2>5
<1>4. ASSUME NEW n \in Nat, n \in M PROVE n + 1 \in M
  <2> SUFFICES ASSUME n + 1 <= Len(text) PROVE \E c : Upto(n + 1, c)
    OBVIOUS
  <2>1. n <= Len(text) /\ n + 1 \in 1..Len(text) /\ (n + 1) - 1 = n
    BY <1>0
  <2>2. PICK c : Upto(n, c)
    BY <1>4, <2>1
  <2>3. /\ c \in 0..Len(number) /\ c \in Nat
        /\ \A k \in 1..Len(number) : place[k] <= n <=> k <= c
        /\ g[n] = SubSeq(number, 1, c)
    BY <2>2 DEF Upto
  <2>4. g[n + 1] = IF text[n + 1] \in T THEN Append(g[n], text[n + 1]) ELSE g[n]
    BY <1>1, <2>1 DEF Kept
  <2>5. CASE \E k \in 1..Len(number) : place[k] = n + 1
    <3>1. PICK k \in 1..Len(number) : place[k] = n + 1
      BY <2>5
    <3>2. k = c + 1
      <4>1. ~(k <= c)
        BY <2>3, <3>1
      <4>2. ASSUME c + 1 < k PROVE FALSE
        <5>1. c + 1 \in 1..Len(number)
          BY <2>3, <4>2
        <5>2. place[c + 1] < n + 1
          BY <3>1, <4>2, <5>1 DEF Laid
        <5>3. place[c + 1] <= n
          BY <1>2, <5>1, <5>2
        <5> QED BY <2>3, <5>1, <5>3
      <4> QED BY <2>3, <4>1, <4>2
    <3>3. c + 1 \in 0..Len(number)
      BY <1>0, <3>2
    <3>4. \A j \in 1..Len(number) : place[j] <= n + 1 <=> j <= c + 1
      <4> SUFFICES ASSUME NEW j \in 1..Len(number) PROVE place[j] <= n + 1 <=> j <= c + 1
        OBVIOUS
      <4>1. k < j => place[k] < place[j]
        BY DEF Laid
      <4>2. j <= c <=> place[j] <= n
        BY <2>3
      <4> QED BY <1>2, <2>3, <3>1, <3>2, <4>1, <4>2
    <3>5. text[n + 1] = number[k] /\ number[k] \in T
      BY <3>1 DEF Laid
    <3>6. g[n + 1] = SubSeq(number, 1, c + 1)
      <4>1. g[n + 1] = Append(SubSeq(number, 1, c), number[c + 1])
        BY <2>3, <2>4, <3>2, <3>5
      <4>2. SubSeq(number, 1, c + 1) = Append(SubSeq(number, 1, c), number[c + 1])
        <5>1. c + 1 <= Len(number)
          BY <1>0, <3>3
        <5> QED BY <1>0, <2>3, <5>1, PrefixGrows
      <4> QED BY <4>1, <4>2
    <3>7. Upto(n + 1, c + 1)
      BY <3>3, <3>4, <3>6 DEF Upto
    <3> QED BY <3>7
  <2>6. CASE ~ \E k \in 1..Len(number) : place[k] = n + 1
    <3>1. text[n + 1] \notin T
      BY <2>1, <2>6 DEF Laid
    <3>2. \A k \in 1..Len(number) : place[k] <= n + 1 <=> place[k] <= n
      BY <1>2, <2>6
    <3>3. Upto(n + 1, c)
      BY <2>3, <2>4, <3>1, <3>2 DEF Upto
    <3> QED BY <3>3
  <2> QED BY <2>5, <2>6
<1> HIDE DEF M
<1>5. M = Nat
  BY <1>3, <1>4, Counting DEF M
<1>6. PICK c : Upto(Len(text), c)
  BY <1>0, <1>5 DEF M
<1>7. c = Len(number)
  <2>1. c \in 0..Len(number) /\ \A k \in 1..Len(number) : k <= c
    BY <1>2, <1>6 DEF Upto
  <2>2. Len(number) # 0 => Len(number) \in 1..Len(number)
    BY <1>0
  <2> QED BY <1>0, <2>1, <2>2
<1>8. SubSeq(number, 1, Len(number)) = number
  BY <1>0
<1> QED BY <1>1, <1>6, <1>7, <1>8 DEF Upto

\* A number by itself.
LEMMA LaidBare ==
  ASSUME NEW number \in Seq(Nat), NEW separators
  PROVE  Laid(number, number, [k \in 1..Len(number) |-> k], separators)
BY DEF Laid

\* So two texts of one number are kept alike.
LEMMA KeptAlike ==
  ASSUME NEW text, NEW number, NEW place, NEW separators, NEW T,
         Laid(text, number, place, separators),
         \A k \in 1..Len(number) : number[k] \in T, \A c \in separators : c \notin T
  PROVE  Keep(text, T) = number /\ Keep(number, T) = number
<1>1. number \in Seq(Nat)
  BY DEF Laid
<1>2. Laid(number, number, [k \in 1..Len(number) |-> k], {})
  BY <1>1, LaidBare
<1> QED BY <1>2, KeepIs

\* Where a text with no separators has a number, it is the number.
LEMMA LaidAlone ==
  ASSUME NEW text, NEW number, NEW place, NEW separators,
         Laid(text, number, place, separators),
         \A n \in 1..Len(text) : text[n] \notin separators
  PROVE  text = number
<1>0. text \in Seq(Nat) /\ number \in Seq(Nat)
  BY DEF Laid
<1>1. Laid(text, number, place, {})
  BY DEF Laid
<1>2. Keep(text, Nat) = number
  <2>1. \A k \in 1..Len(number) : number[k] \in Nat
    BY <1>0
  <2> QED BY <1>1, <2>1, KeepIs
<1>3. Keep(text, Nat) = text
  <2>1. \A k \in 1..Len(text) : text[k] \in Nat
    BY <1>0
  <2>2. Laid(text, text, [k \in 1..Len(text) |-> k], {})
    BY <1>0, LaidBare
  <2> QED BY <2>1, <2>2, KeepIs
<1> QED BY <1>2, <1>3

\* A number written in groups has a separator between them and nothing else.
LEMMA LaidInGroups ==
  ASSUME NEW number \in Seq(Nat), NEW size \in 2..4, NEW separator \in Nat
  PROVE  \E place : /\ Laid(InGroups(number, size, separator), number, place, {separator})
                    /\ number # <<>> => place[Len(number)] = Len(InGroups(number, size, separator))
<1> DEFINE L == Len(number)
           N == L + (L - 1) \div size
           text == InGroups(number, size, separator)
           place == [k \in 1..L |-> k + (k - 1) \div size]
<1>1. L \in Nat
  OBVIOUS
<1> HIDE DEF L
<1>2. N \in Int /\ (L > 0 => N \in Nat) /\ (L = 0 => N = -1)
  <2>1. CASE size = 2
    BY <1>1, <2>1
  <2>2. CASE size = 3
    BY <1>1, <2>2
  <2>3. CASE size = 4
    BY <1>1, <2>3
  <2> QED BY <2>1, <2>2, <2>3
<1>3. \A k \in 1..L : /\ place[k] \in 1..N /\ place[k] % (size + 1) # 0
                      /\ place[k] - place[k] \div (size + 1) = k
  <2>1. CASE size = 2
    BY <1>1, <2>1
  <2>2. CASE size = 3
    BY <1>1, <2>2
  <2>3. CASE size = 4
    BY <1>1, <2>3
  <2> QED BY <2>1, <2>2, <2>3
<1>4. \A n \in 1..N : n % (size + 1) # 0 =>
        n - n \div (size + 1) \in 1..L /\ place[n - n \div (size + 1)] = n
  <2> SUFFICES ASSUME NEW n \in 1..N, n % (size + 1) # 0
               PROVE  n - n \div (size + 1) \in 1..L /\ place[n - n \div (size + 1)] = n
    OBVIOUS
  <2> DEFINE k == n - n \div (size + 1)
  <2>1. k \in 1..L /\ k + (k - 1) \div size = n
    <3>1. CASE size = 2
      BY <1>1, <3>1
    <3>2. CASE size = 3
      BY <1>1, <3>2
    <3>3. CASE size = 4
      BY <1>1, <3>3
    <3> QED BY <3>1, <3>2, <3>3
  <2> HIDE DEF k
  <2>2. k \in 1..L /\ place[k] = n
    BY <2>1
  <2> QED BY <2>2 DEF k
<1>5. \A a, b \in 1..L : a < b => place[a] < place[b]
  <2>1. CASE size = 2
    BY <1>1, <2>1
  <2>2. CASE size = 3
    BY <1>1, <2>2
  <2>3. CASE size = 4
    BY <1>1, <2>3
  <2> QED BY <2>1, <2>2, <2>3
<1>6. text = [n \in 1..N |-> IF n % (size + 1) = 0 THEN separator ELSE number[n - n \div (size + 1)]]
  BY DEF InGroups, L
<1>7. place \in [1..L -> 1..N]
  BY <1>3
<1>8. \A n \in 1..N : text[n] = separator \/ \E k \in 1..L : place[k] = n /\ text[n] = number[k]
  BY <1>4, <1>6
<1>9. \A k \in 1..L : text[place[k]] = number[k]
  <2> HIDE DEF place, N
  <2> SUFFICES ASSUME NEW k \in 1..L PROVE text[place[k]] = number[k]
    OBVIOUS
  <2>1. /\ place[k] \in 1..N /\ place[k] % (size + 1) # 0
        /\ place[k] - place[k] \div (size + 1) = k
    BY <1>3
  <2> QED BY <1>6, <2>1
<1> HIDE DEF N, place
<1>10. \A k \in 1..L : number[k] \in Nat
  BY DEF L
<1> DEFINE E == IF L = 0 THEN 0 ELSE N
<1>11. E \in Nat /\ 1..E = 1..N
  BY <1>1, <1>2
<1>12. text \in [1..E -> Nat]
  <2>1. \A n \in 1..N : text[n] \in Nat
    BY <1>8, <1>10
  <2> HIDE DEF text
  <2>2. text \in [1..N -> Nat]
    <3>1. \E f : text = [n \in 1..N |-> f[n]]
      <4>1. text = [n \in 1..N |-> text[n]]
        BY <1>6
      <4> QED BY <4>1
    <3> QED BY <2>1, <1>6
  <2> QED BY <1>11, <2>2
<1> HIDE DEF text, E
<1>13. text \in Seq(Nat) /\ Len(text) = E
  BY <1>11, <1>12
<1>14. Laid(text, number, place, {separator})
  BY <1>5, <1>7, <1>8, <1>9, <1>11, <1>13 DEF Laid, L
<1>15. ASSUME number # <<>> PROVE place[L] = E
  <2>1. L # 0
    BY <1>15 DEF L
  <2>2. L \in 1..L /\ L \in Nat
    BY <1>1, <2>1
  <2>3. place[L] = L + (L - 1) \div size
    BY <2>2 DEF place
  <2> QED BY <2>1, <2>3 DEF E, N
<1> QED BY <1>13, <1>14, <1>15 DEF text, L

-----------------------------------------------------------------------------
(* Digits. *)

\* The digits of a number are from 0 to 9.
LEMMA DigitsTyped ==
  ASSUME NEW n \in Nat, NEW d \in Seq(Digits), Len(d) = n
  PROVE  \A i \in 1..n : d[i] \in 0..9 /\ i \in DOMAIN d
BY DEF Digits

\* How far a wrong digit is off.
Off == {x \in Int : x # 0 /\ -9 <= x /\ x <= 9}

\* Two digits that are not one are off from each other.
LEMMA OffBy ==
  ASSUME NEW a \in 0..9, NEW b \in 0..9, a # b
  PROVE  b - a \in Off /\ a - b \in Off
BY DEF Off

\* Two that are exchanged, beside each other with weights beside each other.
LEMMA Neighbours ==
  ASSUME NEW a \in 0..9, NEW b \in 0..9, NEW w \in Int
  PROVE  (b - a) * (w + 1) + (a - b) * w = b - a
OBVIOUS

\* What is appended.
LEMMA AppendFacts ==
  ASSUME NEW S, NEW s \in Seq(S), NEW x \in S, NEW n \in Nat, Len(s) = n
  PROVE  /\ Append(s, x) \in Seq(S) /\ Len(Append(s, x)) = n + 1
         /\ Append(s, x)[n + 1] = x /\ \A i \in 1..n : Append(s, x)[i] = s[i]
OBVIOUS

\* A sum that is off is not a multiple of ten, nor of eleven.
LEMMA OffTen ==
  ASSUME NEW s \in Int, s % 10 = 0, NEW x \in Off
  PROVE  (s + x) % 10 # 0 /\ (s + 3 * x) % 10 # 0 /\ (s + 7 * x) % 10 # 0
BY DEF Off

\* Eleven is prime: nor does a weight of the ten make it one.
LEMMA OffEleven ==
  ASSUME NEW s \in Int, s % 11 = 0, NEW x \in Off, NEW w \in 1..10
  PROVE  (s + x * w) % 11 # 0
<1>1. CASE w \in 1..3
  BY <1>1 DEF Off
<1>2. CASE w \in 4..6
  BY <1>2 DEF Off
<1>3. CASE w \in 7..10
  BY <1>3 DEF Off
<1> QED BY <1>1, <1>2, <1>3

-----------------------------------------------------------------------------
(* Luhn. *)

\* What LuhnSum adds up.
Terms(digits, odd) ==
  [i \in DOMAIN digits |->
     IF (Len(digits) - i) % 2 = odd THEN Doubled(digits[i]) ELSE digits[i]]

\* They are numbers, one for each digit, every other one doubled.
LEMMA TermsTyped ==
  ASSUME NEW d \in Seq(Digits), NEW odd \in {0, 1}
  PROVE  /\ Terms(d, odd) \in Seq(Int) /\ Len(Terms(d, odd)) = Len(d)
         /\ \A i \in 1..Len(d) :
              Terms(d, odd)[i] = IF (Len(d) - i) % 2 = odd THEN Doubled(d[i]) ELSE d[i]
         /\ LuhnSum(d, odd) = Total(Terms(d, odd))
<1>1. Len(d) \in Nat /\ DOMAIN d = 1..Len(d) /\ \A i \in 1..Len(d) : d[i] \in 0..9
  BY DEF Digits
<1>2. \A i \in 1..Len(d) : Doubled(d[i]) \in Int
  BY <1>1 DEF Doubled
<1>3. Terms(d, odd) \in [1..Len(d) -> Int]
  BY <1>1, <1>2 DEF Terms
<1>4. Terms(d, odd) \in Seq(Int) /\ Len(Terms(d, odd)) = Len(d)
  BY <1>1, <1>3
<1> QED BY <1>1, <1>4 DEF Terms, LuhnSum

\* No two digits are doubled alike, and none is changed by 10 but 0 and 9.
LEMMA DoubledDiffers ==
  ASSUME NEW a \in 0..9, NEW b \in 0..9, a # b
  PROVE  /\ Doubled(a) \in 0..9 /\ Doubled(b) \in 0..9 /\ Doubled(a) # Doubled(b)
         /\ LET x == (Doubled(a) - a) - (Doubled(b) - b)
            IN  {a, b} # {0, 9} => x \in Off
<1>1. Doubled(a) \in 0..9 /\ Doubled(b) \in 0..9 /\ Doubled(a) # Doubled(b)
  BY DEF Doubled
<1> DEFINE x == (Doubled(a) - a) - (Doubled(b) - b)
<1>2. -9 <= x /\ x <= 9
  BY DEF Doubled
<1>3. x = 0 => (a = 0 /\ b = 9) \/ (a = 9 /\ b = 0)
  BY DEF Doubled
<1> QED BY <1>1, <1>2, <1>3 DEF Off

\* A digit that is changed is found.
LEMMA LuhnFindsDigit ==
  ASSUME NEW d \in Seq(Digits), NEW t \in Seq(Digits), Len(t) = Len(d), NEW i \in 1..Len(d),
         \A n \in 1..Len(d) : n # i => t[n] = d[n], t[i] # d[i]
  PROVE  LuhnSum(d, 1) \in Int /\ \E x \in Off : LuhnSum(t, 1) = LuhnSum(d, 1) + x
<1>0. d[i] \in 0..9 /\ t[i] \in 0..9 /\ Len(d) \in Nat /\ i \in Nat
  BY DEF Digits
<1> DEFINE u == Terms(d, 1)
           v == Terms(t, 1)
<1>1. /\ u \in Seq(Int) /\ Len(u) = Len(d) /\ LuhnSum(d, 1) = Total(u)
      /\ \A n \in 1..Len(d) : u[n] = IF (Len(d) - n) % 2 = 1 THEN Doubled(d[n]) ELSE d[n]
  BY TermsTyped
<1>2. /\ v \in Seq(Int) /\ Len(v) = Len(t) /\ LuhnSum(t, 1) = Total(v)
      /\ \A n \in 1..Len(t) : v[n] = IF (Len(t) - n) % 2 = 1 THEN Doubled(t[n]) ELSE t[n]
  BY TermsTyped
<1> HIDE DEF u, v
<1>3. \A n \in 1..Len(u) : n # i => v[n] = u[n]
  BY <1>1, <1>2
<1>4. Total(u) \in Int /\ Total(v) = Total(u) + (v[i] - u[i])
  <2>1. Len(v) = Len(u) /\ i \in 1..Len(u)
    BY <1>1, <1>2
  <2> QED BY <1>1, <1>2, <1>3, <2>1, TotalChanges
<1>5. v[i] - u[i] \in Off
  <2>1. CASE (Len(d) - i) % 2 = 1
    <3>1. u[i] = Doubled(d[i]) /\ v[i] = Doubled(t[i])
      BY <1>1, <1>2, <2>1
    <3>2. /\ Doubled(d[i]) \in 0..9 /\ Doubled(t[i]) \in 0..9
          /\ Doubled(d[i]) # Doubled(t[i])
      BY <1>0, DoubledDiffers
    <3> QED BY <3>1, <3>2, OffBy
  <2>2. CASE (Len(d) - i) % 2 # 1
    <3>1. u[i] = d[i] /\ v[i] = t[i]
      BY <1>1, <1>2, <2>2
    <3> QED BY <1>0, <3>1, OffBy
  <2> QED BY <2>1, <2>2
<1> QED BY <1>1, <1>2, <1>4, <1>5

\* And two that are exchanged, but for 0 and 9.
LEMMA LuhnFindsExchange ==
  ASSUME NEW d \in Seq(Digits), NEW t \in Seq(Digits), Len(t) = Len(d),
         NEW i \in 1..Len(d), i + 1 \in 1..Len(d),
         \A n \in 1..Len(d) : n # i /\ n # i + 1 => t[n] = d[n],
         t[i] = d[i + 1], t[i + 1] = d[i], d[i] # d[i + 1], {d[i], d[i + 1]} # {0, 9}
  PROVE  LuhnSum(d, 1) \in Int /\ \E x \in Off : LuhnSum(t, 1) = LuhnSum(d, 1) + x
<1>0. d[i] \in 0..9 /\ d[i + 1] \in 0..9 /\ Len(d) \in Nat /\ i \in Nat
  BY DEF Digits
<1> DEFINE m == [d EXCEPT ![i] = d[i + 1]]
<1>1. /\ m \in Seq(Digits) /\ Len(m) = Len(d) /\ m[i] = d[i + 1] /\ m[i + 1] = d[i + 1]
      /\ \A n \in 1..Len(d) : n # i => m[n] = d[n]
  BY <1>0
<1> HIDE DEF m
<1> DEFINE u == Terms(d, 1)
           v == Terms(m, 1)
           w == Terms(t, 1)
<1>2. /\ u \in Seq(Int) /\ Len(u) = Len(d) /\ LuhnSum(d, 1) = Total(u)
      /\ \A n \in 1..Len(d) : u[n] = IF (Len(d) - n) % 2 = 1 THEN Doubled(d[n]) ELSE d[n]
  BY TermsTyped
<1>3. /\ v \in Seq(Int) /\ Len(v) = Len(m)
      /\ \A n \in 1..Len(m) : v[n] = IF (Len(m) - n) % 2 = 1 THEN Doubled(m[n]) ELSE m[n]
  BY <1>1, TermsTyped
<1>4. /\ w \in Seq(Int) /\ Len(w) = Len(t) /\ LuhnSum(t, 1) = Total(w)
      /\ \A n \in 1..Len(t) : w[n] = IF (Len(t) - n) % 2 = 1 THEN Doubled(t[n]) ELSE t[n]
  BY TermsTyped
<1> HIDE DEF u, v, w
<1>5. Total(u) \in Int /\ Total(v) = Total(u) + (v[i] - u[i])
  <2>1. Len(v) = Len(u) /\ i \in 1..Len(u) /\ \A n \in 1..Len(u) : n # i => v[n] = u[n]
    BY <1>1, <1>2, <1>3
  <2> QED BY <1>2, <1>3, <2>1, TotalChanges
<1>6. Total(w) = Total(v) + (w[i + 1] - v[i + 1])
  <2>1. Len(w) = Len(v) /\ i + 1 \in 1..Len(v)
    BY <1>1, <1>3, <1>4
  <2>2. \A n \in 1..Len(v) : n # i + 1 => w[n] = v[n]
    <3> SUFFICES ASSUME NEW n \in 1..Len(d), n # i + 1 PROVE w[n] = v[n]
      BY <1>1, <1>3
    <3>1. t[n] = m[n]
      BY <1>1
    <3>2. n \in 1..Len(t) /\ n \in 1..Len(m) /\ Len(t) = Len(d) /\ Len(m) = Len(d)
      BY <1>1
    <3>3. /\ v[n] = (IF (Len(d) - n) % 2 = 1 THEN Doubled(m[n]) ELSE m[n])
          /\ w[n] = (IF (Len(d) - n) % 2 = 1 THEN Doubled(t[n]) ELSE t[n])
      BY <1>3, <1>4, <3>2
    <3> QED BY <3>1, <3>3
  <2>3. \A j \in 1..Len(v) : (\A n \in 1..Len(v) : n # j => w[n] = v[n])
                             => Total(w) = Total(v) + (w[j] - v[j])
    BY <1>3, <1>4, <2>1, TotalChanges
  <2> QED BY <2>1, <2>2, <2>3
<1> DEFINE a == d[i]
           b == d[i + 1]
<1>7. v[i + 1] = u[i + 1]
  BY SMTT(60), <1>0, <1>1, <1>2, <1>3
<1>8. a \in 0..9 /\ b \in 0..9 /\ a # b /\ {a, b} # {0, 9}
  BY <1>0
<1> DEFINE x == (v[i] - u[i]) + (w[i + 1] - v[i + 1])
<1>9. x \in Off /\ u[i] \in Int /\ v[i] \in Int /\ w[i + 1] \in Int /\ v[i + 1] \in Int
  <2> DEFINE y == (Doubled(a) - a) - (Doubled(b) - b)
             z == (Doubled(b) - b) - (Doubled(a) - a)
  <2>1. y \in Off /\ z \in Off /\ Doubled(a) \in 0..9 /\ Doubled(b) \in 0..9
    <3> HIDE DEF a, b
    <3>1. {b, a} # {0, 9}
      BY <1>8
    <3> QED BY <1>8, <3>1, DoubledDiffers
  <2>2. CASE (Len(d) - i) % 2 = 1
    <3>1. (Len(d) - (i + 1)) % 2 # 1
      BY <1>0, <2>2
    <3>2. u[i] = Doubled(a) /\ v[i] = Doubled(b) /\ v[i + 1] = b /\ w[i + 1] = a
      BY <1>0, <1>1, <1>2, <1>3, <1>4, <2>2, <3>1
    <3>3. x = z
      <4> DEFINE p == Doubled(a)
                 q == Doubled(b)
      <4>1. p \in Int /\ q \in Int /\ a \in Int /\ b \in Int
        BY <1>8, <2>1
      <4>2. x = (q - p) + (a - b)
        BY <3>2
      <4> HIDE DEF a, b, p, q, x
      <4>3. (q - p) + (a - b) = (q - b) - (p - a)
        BY <4>1
      <4> QED BY <4>2, <4>3 DEF p, q
    <3> HIDE DEF x, y, z, a, b
    <3> QED BY <1>8, <2>1, <3>2, <3>3
  <2>3. CASE (Len(d) - i) % 2 # 1
    <3>1. (Len(d) - (i + 1)) % 2 = 1
      BY <1>0, <2>3
    <3>2. u[i] = a /\ v[i] = b /\ v[i + 1] = Doubled(b) /\ w[i + 1] = Doubled(a)
      BY <1>0, <1>1, <1>2, <1>3, <1>4, <2>3, <3>1
    <3>3. x = y
      <4> DEFINE p == Doubled(a)
                 q == Doubled(b)
      <4>1. p \in Int /\ q \in Int /\ a \in Int /\ b \in Int
        BY <1>8, <2>1
      <4>2. x = (b - a) + (p - q)
        BY <3>2
      <4> HIDE DEF a, b, p, q, x
      <4>3. (b - a) + (p - q) = (p - a) - (q - b)
        BY <4>1
      <4> QED BY <4>2, <4>3 DEF p, q
    <3> HIDE DEF x, y, z, a, b
    <3> QED BY <1>8, <2>1, <3>2, <3>3
  <2> QED BY <2>2, <2>3
<1>10. Total(w) = Total(u) + x
  BY <1>5, <1>6, <1>9
<1> HIDE DEF x
<1> QED BY <1>2, <1>4, <1>5, <1>9, <1>10

\* The check digit makes the sum a multiple of ten, and the next digit does not.
LEMMA LuhnAppends ==
  ASSUME NEW body \in Seq(Digits), NEW x \in Digits
  PROVE  /\ Append(body, x) \in Seq(Digits) /\ LuhnCheckDigit(body) \in Digits
         /\ x = LuhnCheckDigit(body) => LuhnSum(Append(body, x), 1) % 10 = 0
         /\ x = InvalidCheckDigit(LuhnCheckDigit(body)) => LuhnSum(Append(body, x), 1) % 10 # 0
<1> DEFINE d == Append(body, x)
<1>1. d \in Seq(Digits) /\ Len(d) = Len(body) + 1 /\ d[Len(d)] = x /\ Len(body) \in Nat
      /\ \A n \in 1..Len(body) : d[n] = body[n]
  OBVIOUS
<1> HIDE DEF d
<1> DEFINE u == Terms(body, 0)
           v == Terms(d, 1)
<1>2. /\ u \in Seq(Int) /\ Len(u) = Len(body) /\ LuhnSum(body, 0) = Total(u)
      /\ \A n \in 1..Len(body) : u[n] = IF (Len(body) - n) % 2 = 0 THEN Doubled(body[n]) ELSE body[n]
  BY TermsTyped
<1>3. /\ v \in Seq(Int) /\ Len(v) = Len(d) /\ LuhnSum(d, 1) = Total(v)
      /\ \A n \in 1..Len(d) : v[n] = IF (Len(d) - n) % 2 = 1 THEN Doubled(d[n]) ELSE d[n]
  BY <1>1, TermsTyped
<1> HIDE DEF u, v
<1>4. \A n \in 1..Len(u) : v[n] = u[n]
  <2> SUFFICES ASSUME NEW n \in 1..Len(body) PROVE v[n] = u[n]
    BY <1>2
  <2>1. n \in 1..Len(d) /\ ((Len(d) - n) % 2 = 1 <=> (Len(body) - n) % 2 = 0)
    BY <1>1
  <2> QED BY <1>1, <1>2, <1>3, <2>1
<1>5. Total(u) \in Int /\ Total(v) = Total(u) + v[Len(v)]
  <2>1. Len(v) = Len(u) + 1
    BY <1>1, <1>2, <1>3
  <2> QED BY <1>2, <1>3, <1>4, <2>1, TotalGrows
<1>6. v[Len(v)] = x
  <2>1. Len(d) \in 1..Len(d) /\ (Len(d) - Len(d)) % 2 # 1
    BY <1>1
  <2> QED BY <1>1, <1>3, <2>1
<1>7. x \in 0..9 /\ LuhnCheckDigit(body) = (10 - (Total(u) % 10)) % 10
  BY <1>2 DEF Digits, LuhnCheckDigit
<1> DEFINE s == Total(u)
<1>8. s \in Int /\ LuhnSum(d, 1) = s + x
  BY <1>3, <1>5, <1>6
<1> HIDE DEF s
<1>9. /\ (10 - (s % 10)) % 10 \in 0..9
      /\ x = ((10 - (s % 10)) % 10) => ((s + x) % 10) = 0
      /\ x = ((((10 - (s % 10)) % 10) + 1) % 10) => ((s + x) % 10) # 0
  BY <1>7, <1>8
<1> QED BY <1>1, <1>7, <1>8, <1>9 DEF d, s, InvalidCheckDigit, Digits

-----------------------------------------------------------------------------
(* NHS numbers and routing numbers. *)

\* The tenth digit makes the weighted sum a multiple of eleven.
LEMMA NHSSums ==
  ASSUME NEW d \in Seq(Digits), Len(d) \in {9, 10}
  PROVE  /\ NHSSum(d) \in Int
         /\ NHSSum(d) = Total([i \in 1..9 |-> d[i] * (11 - i)])
         /\ [i \in 1..9 |-> d[i] * (11 - i)] \in Seq(Int)
         /\ Len([i \in 1..9 |-> d[i] * (11 - i)]) = 9
<1>1. \A i \in 1..9 : d[i] \in 0..9
  BY DEF Digits
<1> DEFINE s == [i \in 1..9 |-> d[i] * (11 - i)]
<1>2. s \in [1..9 -> Int]
  <2> SUFFICES ASSUME NEW i \in 1..9 PROVE d[i] * (11 - i) \in Int
    OBVIOUS
  <2>1. d[i] \in Int /\ 11 - i \in Int
    BY <1>1
  <2> QED BY <2>1
<1>3. s \in Seq(Int) /\ Len(s) = 9
  BY <1>2
<1>4. NHSSum(d) = Total(s)
  BY DEF NHSSum
<1> HIDE DEF s
<1>5. Total(s) \in Int
  <2>1. \A n \in 1..Len(s) : n # 1 => s[n] = s[n]
    OBVIOUS
  <2>2. 1 \in 1..Len(s)
    BY <1>3
  <2> QED BY <1>3, <2>1, <2>2, TotalChanges
<1> QED BY <1>3, <1>4, <1>5 DEF s

\* The rule of the tenth digit: with it the sum is a multiple of eleven.
LEMMA NHSPasses ==
  ASSUME NEW s \in Int, NEW x \in 0..9
  PROVE  11 - (s % 11) # 10 /\ x = (IF 11 - (s % 11) = 11 THEN 0 ELSE 11 - (s % 11))
         <=> (s + x) % 11 = 0
OBVIOUS

\* One digit of the nine changed changes the sum by its weight.
LEMMA NHSChanges ==
  ASSUME NEW d \in Seq(Digits), NEW t \in Seq(Digits), Len(d) = 10, Len(t) = 10,
         NEW i \in 1..9, \A n \in 1..9 : n # i => t[n] = d[n]
  PROVE  NHSSum(t) = NHSSum(d) + (t[i] - d[i]) * (11 - i)
<1> DEFINE u == [n \in 1..9 |-> d[n] * (11 - n)]
           v == [n \in 1..9 |-> t[n] * (11 - n)]
<1>1. u \in Seq(Int) /\ Len(u) = 9 /\ NHSSum(d) = Total(u)
  BY NHSSums
<1>2. v \in Seq(Int) /\ Len(v) = 9 /\ NHSSum(t) = Total(v)
  BY NHSSums
<1>3. \A n \in 1..9 : n # i => v[n] = u[n]
  OBVIOUS
<1>4. u[i] = d[i] * (11 - i) /\ v[i] = t[i] * (11 - i)
  OBVIOUS
<1> HIDE DEF u, v
<1>5. Total(u) \in Int /\ Total(v) = Total(u) + (v[i] - u[i])
  <2>1. i \in 1..Len(u) /\ Len(v) = Len(u)
    BY <1>1, <1>2
  <2> QED BY ZenonT(60), <1>1, <1>2, <1>3, <2>1, TotalChanges
<1>6. v[i] - u[i] = (t[i] - d[i]) * (11 - i)
  <2>1. \A n \in 1..10 : d[n] \in 0..9 /\ t[n] \in 0..9
    BY DigitsTyped
  <2>2. t[i] \in Int /\ d[i] \in Int /\ 11 - i \in Int
    BY <2>1
  <2> QED BY <1>4, <2>2
<1> QED BY <1>1, <1>2, <1>5, <1>6

\* So a wrong digit is found, and so are two exchanged.
LEMMA NHSFindsDigit ==
  ASSUME NEW d \in Seq(Digits), NEW t \in Seq(Digits), Len(d) = 10, Len(t) = 10,
         NEW i \in 1..10, \A n \in 1..10 : n # i => t[n] = d[n], t[i] # d[i]
  PROVE  /\ NHSSum(d) + d[10] \in Int
         /\ \E x \in Off, w \in 1..10 : NHSSum(t) + t[10] = (NHSSum(d) + d[10]) + x * w
<1>0. NHSSum(d) \in Int /\ \A n \in 1..10 : d[n] \in 0..9 /\ t[n] \in 0..9
  BY NHSSums, DigitsTyped
<1> DEFINE s == NHSSum(d)
           x == t[i] - d[i]
<1>1. x \in Off /\ x \in Int
  BY <1>0, OffBy DEF Off
<1>2. CASE i = 10
  <2>1. NHSSum(t) = s
    <3>1. NHSSum(t) = NHSSum(d) + (t[1] - d[1]) * (11 - 1)
      <4>1. \A n \in 1..9 : n # 1 => t[n] = d[n]
        BY <1>2
      <4> QED BY SMTT(60), <4>1, NHSChanges
    <3>2. t[1] = d[1] /\ d[1] \in Int
      BY <1>0, <1>2
    <3> QED BY <1>0, <3>1, <3>2
  <2>2. t[10] = d[10] + x /\ d[10] \in Int
    BY <1>0, <1>2
  <2>3. s + t[10] = (s + d[10]) + x * 1
    BY <1>0, <1>1, <2>2
  <2> QED BY SMTT(60), <1>0, <1>1, <2>1, <2>2, <2>3
<1>3. CASE i # 10
  <2>1. NHSSum(t) = s + x * (11 - i)
    <3>1. (\A n \in 1..9 : n # i => t[n] = d[n]) /\ i \in 1..9
      BY <1>3
    <3> QED BY <3>1, NHSChanges
  <2>2. t[10] = d[10] /\ d[10] \in Int
    BY <1>0, <1>3
  <2> DEFINE w == 11 - i
  <2>3. w \in 1..10
    BY <1>3
  <2> HIDE DEF w, x, s
  <2>4. (s + x * w) + d[10] = (s + d[10]) + x * w
    BY <1>0, <1>1, <2>2, <2>3 DEF s
  <2>5. s + d[10] \in Int
    BY <1>0 DEF s
  <2>6. NHSSum(t) + t[10] = (s + d[10]) + x * w
    BY <2>1, <2>2, <2>4 DEF w
  <2> QED BY <1>1, <2>3, <2>5, <2>6 DEF s
<1> QED BY <1>2, <1>3

\* The weights beside each other differ by one, so an exchange moves the sum too.
LEMMA NHSFindsExchange ==
  ASSUME NEW d \in Seq(Digits), NEW t \in Seq(Digits), Len(d) = 10, Len(t) = 10,
         NEW i \in 1..9, \A n \in 1..10 : n # i /\ n # i + 1 => t[n] = d[n],
         t[i] = d[i + 1], t[i + 1] = d[i], d[i] # d[i + 1]
  PROVE  /\ NHSSum(d) + d[10] \in Int
         /\ \E x \in Off, w \in 1..10 : NHSSum(t) + t[10] = (NHSSum(d) + d[10]) + x * w
<1> DEFINE a == d[i]
           b == d[i + 1]
           c == d[10]
           s == NHSSum(d)
           m == [d EXCEPT ![i] = d[i + 1]]
<1>0. s \in Int /\ a \in 0..9 /\ b \in 0..9 /\ c \in 0..9 /\ a # b
      /\ \A n \in 1..10 : d[n] \in Digits /\ n \in DOMAIN d /\ n \in 1..Len(d)
  <2>1. \A n \in 1..10 : d[n] \in 0..9
    BY DigitsTyped
  <2>2. \A n \in 1..10 : d[n] \in Digits
    BY <2>1 DEF Digits
  <2>3. \A n \in 1..10 : n \in DOMAIN d /\ n \in 1..Len(d)
    BY DigitsTyped
  <2>4. i \in 1..10 /\ i + 1 \in 1..10
    OBVIOUS
  <2>5. d[i] \in 0..9 /\ d[i + 1] \in 0..9 /\ d[10] \in 0..9
    BY <2>1, <2>4
  <2>6. NHSSum(d) \in Int
    BY NHSSums
  <2> QED BY <2>2, <2>3, <2>5, <2>6
<1>1. /\ m \in Seq(Digits) /\ Len(m) = 10 /\ m[i] = b /\ m[i + 1] = b
      /\ \A n \in 1..10 : n # i => m[n] = d[n]
  <2>1. d[i + 1] \in Digits /\ i \in 1..Len(d)
    BY <1>0
  <2>2. m \in Seq(Digits) /\ Len(m) = 10
    BY SMTT(60), <2>1
  <2> QED BY <1>0, <2>2
<1> HIDE DEF m
<1>2. NHSSum(m) = s + (b - a) * (11 - i)
  <2>1. \A n \in 1..9 : n # i => m[n] = d[n]
    BY <1>1
  <2> QED BY SMTT(60), <1>1, <2>1, NHSChanges
<1> DEFINE x == b - a
<1>3. x \in Off
  BY <1>0, OffBy
<1>4. CASE i = 9
  <2>1. NHSSum(t) = s + (b - a) * 2
    <3>1. \A n \in 1..9 : n # i => t[n] = d[n]
      BY <1>4
    <3>2. NHSSum(t) = NHSSum(d) + (t[i] - d[i]) * (11 - i)
      BY <3>1, NHSChanges
    <3> QED BY <1>4, <3>2
  <2>2. c = b /\ t[10] = a
    BY <1>4
  <2> HIDE DEF a, b, s, c
  <2>3. (s + (b - a) * 2) + a = (s + b) + (b - a) * 1
    BY <1>0
  <2>4. s + b \in Int
    BY <1>0
  <2> QED BY <1>3, <2>1, <2>2, <2>3, <2>4 DEF s, c
<1>5. CASE i # 9
  <2> DEFINE j == i + 1
  <2>1. j \in 1..9
    BY <1>5
  <2>2. NHSSum(t) = NHSSum(m) + (t[j] - m[j]) * (11 - j)
    <3>1. \A n \in 1..9 : n # j => t[n] = m[n]
      BY <1>1
    <3> HIDE DEF j
    <3> QED BY <1>1, <2>1, <3>1, NHSChanges
  <2>3. NHSSum(t) = (s + (b - a) * (11 - i)) + (a - b) * (11 - (i + 1))
    BY <1>1, <1>2, <2>2
  <2>4. t[10] = c
    BY <1>5
  <2> HIDE DEF a, b, s, c
  <2>5. (b - a) * (11 - i) + (a - b) * (11 - (i + 1)) = b - a
    <3> DEFINE w == 11 - (i + 1)
    <3>1. w \in Int /\ 11 - i = w + 1
      OBVIOUS
    <3> HIDE DEF w
    <3>2. (b - a) * (w + 1) + (a - b) * w = b - a
      BY <1>0, <3>1, Neighbours
    <3> QED BY <3>1, <3>2 DEF w
  <2>6. (b - a) * (11 - i) \in Int /\ (a - b) * (11 - (i + 1)) \in Int
    BY <1>0
  <2>7. NHSSum(t) = s + (b - a)
    BY <1>0, <2>3, <2>5, <2>6
  <2>8. (s + (b - a)) + c = (s + c) + (b - a) * 1
    BY <1>0
  <2>9. s + c \in Int
    BY <1>0
  <2> QED BY <1>3, <2>4, <2>7, <2>8, <2>9 DEF s, c
<1> QED BY <1>4, <1>5

\* The check digit passes; the next one, or that of a number with none, does not.
LEMMA NHSAppends ==
  ASSUME NEW body \in Seq(Digits), Len(body) = 9
  PROVE  /\ NHSSum(body) \in Int
         /\ \A x \in Digits : Append(body, x) \in Seq(Digits) /\ Len(Append(body, x)) = 10
                              /\ Append(body, x)[10] = x /\ NHSSum(Append(body, x)) = NHSSum(body)
         /\ NHSDigit(body) # 10 => NHSDigit(body) \in Digits /\ (NHSSum(body) + NHSDigit(body)) % 11 = 0
         /\ InvalidNHSCheckDigit(body) \in Digits
         /\ (NHSSum(body) + InvalidNHSCheckDigit(body)) % 11 # 0
<1>1. NHSSum(body) \in Int
  BY NHSSums
<1>2. ASSUME NEW x \in Digits
      PROVE  Append(body, x) \in Seq(Digits) /\ Len(Append(body, x)) = 10
             /\ Append(body, x)[10] = x /\ NHSSum(Append(body, x)) = NHSSum(body)
  <2> DEFINE d == Append(body, x)
  <2>1. d \in Seq(Digits) /\ Len(d) = 10 /\ d[10] = x /\ \A i \in 1..9 : d[i] = body[i]
    <3> DEFINE n == 9
    <3>1. n \in Nat /\ Len(body) = n
      OBVIOUS
    <3> HIDE DEF n, d
    <3>2. d \in Seq(Digits) /\ Len(d) = n + 1 /\ d[n + 1] = x /\ \A i \in 1..n : d[i] = body[i]
      BY <3>1, AppendFacts DEF d
    <3> QED BY <3>2 DEF n
  <2> HIDE DEF d
  <2>2. [i \in 1..9 |-> d[i] * (11 - i)] = [i \in 1..9 |-> body[i] * (11 - i)]
    BY <2>1
  <2> QED BY <2>1, <2>2 DEF NHSSum, d
<1> DEFINE s == NHSSum(body)
<1> HIDE DEF s
<1>3. s \in Int
  BY <1>1 DEF s
<1>4. NHSDigit(body) = (11 - (s % 11)) % 11
  BY DEF NHSDigit, s
<1>5. NHSDigit(body) # 10 => NHSDigit(body) \in Digits /\ (s + NHSDigit(body)) % 11 = 0
  BY <1>3, <1>4 DEF Digits
<1>6. InvalidNHSCheckDigit(body) =
        LET check == 11 - (s % 11)
        IN  CASE check = 10 -> 0 [] check = 11 -> 1 [] OTHER -> (check + 1) % 10
  BY DEF InvalidNHSCheckDigit, InvalidCheckDigit, s
<1>7. InvalidNHSCheckDigit(body) \in Digits /\ (s + InvalidNHSCheckDigit(body)) % 11 # 0
  <2> DEFINE check == 11 - (s % 11)
  <2>1. check \in 1..11
    BY <1>3
  <2>2. CASE check = 10
    <3>1. InvalidNHSCheckDigit(body) = 0
      BY <1>6, <2>2
    <3> QED BY <1>3, <2>2, <3>1 DEF Digits
  <2>3. CASE check = 11
    <3>1. InvalidNHSCheckDigit(body) = 1
      BY <1>6, <2>3
    <3> QED BY <1>3, <2>3, <3>1 DEF Digits
  <2>4. CASE check # 10 /\ check # 11
    <3>1. InvalidNHSCheckDigit(body) = (check + 1) % 10
      BY <1>6, <2>4
    <3> QED BY <1>3, <2>1, <2>4, <3>1 DEF Digits
  <2> QED BY <2>2, <2>3, <2>4
<1> QED BY <1>1, <1>2, <1>5, <1>7 DEF s

\* What the rule of a routing number adds up.
RoutingSum(d) == 3 * (d[1] + d[4] + d[7]) + 7 * (d[2] + d[5] + d[8]) + (d[3] + d[6] + d[9])

\* A place counts for three, seven or one.
LEMMA RoutingAdds ==
  ASSUME NEW a \in Int, NEW b \in Int, NEW c \in Int, NEW x \in Int, NEW i \in 1..9
  PROVE  LET s == 3 * a + 7 * b + c
             r == 3 * (a + (IF i \in {1, 4, 7} THEN x ELSE 0))
                   + 7 * (b + (IF i \in {2, 5, 8} THEN x ELSE 0)) + (c + (IF i \in {3, 6, 9} THEN x ELSE 0))
         IN  s \in Int /\ r \in {s + x, s + 3 * x, s + 7 * x}
<1>1. CASE i \in {1, 4, 7}
  BY <1>1
<1>2. CASE i \in {2, 5, 8}
  BY <1>2
<1>3. CASE i \in {3, 6, 9}
  BY <1>3
<1> QED BY <1>1, <1>2, <1>3

\* So what one digit is off by moves the sum that many times.
LEMMA RoutingChanges ==
  ASSUME NEW d, NEW t, NEW x \in Int, NEW i \in 1..9,
         d[1] \in Int, d[2] \in Int, d[3] \in Int,
         d[4] \in Int, d[5] \in Int, d[6] \in Int,
         d[7] \in Int, d[8] \in Int, d[9] \in Int,
         t[1] = d[1] + (IF 1 = i THEN x ELSE 0),
         t[2] = d[2] + (IF 2 = i THEN x ELSE 0),
         t[3] = d[3] + (IF 3 = i THEN x ELSE 0),
         t[4] = d[4] + (IF 4 = i THEN x ELSE 0),
         t[5] = d[5] + (IF 5 = i THEN x ELSE 0),
         t[6] = d[6] + (IF 6 = i THEN x ELSE 0),
         t[7] = d[7] + (IF 7 = i THEN x ELSE 0),
         t[8] = d[8] + (IF 8 = i THEN x ELSE 0),
         t[9] = d[9] + (IF 9 = i THEN x ELSE 0)
  PROVE  /\ RoutingSum(d) \in Int
         /\ RoutingSum(t) \in {RoutingSum(d) + x, RoutingSum(d) + 3 * x, RoutingSum(d) + 7 * x}
<1> DEFINE a == d[1] + d[4] + d[7]
           b == d[2] + d[5] + d[8]
           c == d[3] + d[6] + d[9]
<1>1. a \in Int /\ t[1] + t[4] + t[7] = a + (IF i \in {1, 4, 7} THEN x ELSE 0)
  OBVIOUS
<1>2. b \in Int /\ t[2] + t[5] + t[8] = b + (IF i \in {2, 5, 8} THEN x ELSE 0)
  OBVIOUS
<1>3. c \in Int /\ t[3] + t[6] + t[9] = c + (IF i \in {3, 6, 9} THEN x ELSE 0)
  OBVIOUS
<1>4. d[1] + d[4] + d[7] = a /\ d[2] + d[5] + d[8] = b /\ d[3] + d[6] + d[9] = c
  OBVIOUS
<1>5. /\ RoutingSum(d) = 3 * a + 7 * b + c
      /\ RoutingSum(t) = 3 * (a + (IF i \in {1, 4, 7} THEN x ELSE 0))
           + 7 * (b + (IF i \in {2, 5, 8} THEN x ELSE 0)) + (c + (IF i \in {3, 6, 9} THEN x ELSE 0))
  BY <1>1, <1>2, <1>3, Zenon DEF RoutingSum
<1> HIDE DEF a, b, c
<1> QED BY <1>1, <1>2, <1>3, <1>5, RoutingAdds

\* And a wrong digit is found.
LEMMA RoutingFindsDigit ==
  ASSUME NEW d \in [1..9 -> 0..9], NEW t \in [1..9 -> 0..9],
         NEW i \in 1..9, \A n \in 1..9 : n # i => t[n] = d[n], t[i] # d[i]
  PROVE  /\ RoutingSum(d) \in Int
         /\ \E x \in Off : RoutingSum(t) \in {RoutingSum(d) + x, RoutingSum(d) + 3 * x,
                                                RoutingSum(d) + 7 * x}
<1>1. \A n \in 1..9 : d[n] \in 0..9 /\ t[n] \in 0..9
  OBVIOUS
<1> DEFINE x == t[i] - d[i]
<1>2. x \in Off /\ x \in Int
  BY <1>1, OffBy DEF Off
<1>3. \A n \in 1..9 : d[n] \in Int
  BY <1>1
<1>4. t[i] = d[i] + x
  <2> DEFINE a == t[i]
             b == d[i]
  <2>1. a \in Int /\ b \in Int
    BY <1>1
  <2> HIDE DEF a, b
  <2>2. a = b + (a - b)
    BY <2>1
  <2> QED BY <2>2 DEF a, b
<1> HIDE DEF x
<1>5. \A n \in 1..9 : t[n] = d[n] + (IF n = i THEN x ELSE 0)
  <2> SUFFICES ASSUME NEW n \in 1..9 PROVE t[n] = d[n] + (IF n = i THEN x ELSE 0)
    OBVIOUS
  <2>1. n # i => t[n] = d[n] /\ d[n] + 0 = d[n]
    BY <1>3
  <2> QED BY <1>4, <2>1
<1>6. /\ d[1] \in Int /\ d[2] \in Int /\ d[3] \in Int
      /\ d[4] \in Int /\ d[5] \in Int /\ d[6] \in Int
      /\ d[7] \in Int /\ d[8] \in Int /\ d[9] \in Int
  BY <1>3
<1>7. /\ t[1] = d[1] + (IF 1 = i THEN x ELSE 0)
      /\ t[2] = d[2] + (IF 2 = i THEN x ELSE 0)
      /\ t[3] = d[3] + (IF 3 = i THEN x ELSE 0)
      /\ t[4] = d[4] + (IF 4 = i THEN x ELSE 0)
      /\ t[5] = d[5] + (IF 5 = i THEN x ELSE 0)
      /\ t[6] = d[6] + (IF 6 = i THEN x ELSE 0)
      /\ t[7] = d[7] + (IF 7 = i THEN x ELSE 0)
      /\ t[8] = d[8] + (IF 8 = i THEN x ELSE 0)
      /\ t[9] = d[9] + (IF 9 = i THEN x ELSE 0)
  BY <1>5
<1>8. /\ RoutingSum(d) \in Int
      /\ RoutingSum(t) \in {RoutingSum(d) + x, RoutingSum(d) + 3 * x, RoutingSum(d) + 7 * x}
  BY <1>2, <1>6, <1>7, RoutingChanges, ZenonT(60)
<1> QED BY <1>2, <1>8

-----------------------------------------------------------------------------
(* Remainders modulo 97. *)

\* a and b are congruent.
Same(a, b) == \E k \in Int : a = b + 97 * k

\* A number is congruent to itself.
LEMMA SameRefl ==
  ASSUME NEW a \in Int
  PROVE  Same(a, a)
<1>1. a = a + 97 * 0
  OBVIOUS
<1> QED BY <1>1 DEF Same

\* Congruent numbers are so in either order.
LEMMA SameSym ==
  ASSUME NEW a \in Int, NEW b \in Int, Same(a, b)
  PROVE  Same(b, a)
<1>1. PICK k \in Int : a = b + 97 * k
  BY DEF Same
<1>2. b = a + 97 * (-k) /\ -k \in Int
  BY <1>1
<1> QED BY <1>2 DEF Same

\* What is congruent to one of them is to the other.
LEMMA SameTrans ==
  ASSUME NEW a \in Int, NEW b \in Int, NEW c \in Int, Same(a, b), Same(b, c)
  PROVE  Same(a, c)
<1>1. PICK k \in Int : a = b + 97 * k
  BY DEF Same
<1>2. PICK l \in Int : b = c + 97 * l
  BY DEF Same
<1>3. a = c + 97 * (k + l) /\ k + l \in Int
  BY <1>1, <1>2
<1> QED BY <1>3 DEF Same

\* Sums and differences of congruent numbers are congruent.
LEMMA SamePlus ==
  ASSUME NEW a \in Int, NEW b \in Int, NEW c \in Int, NEW d \in Int, Same(a, b), Same(c, d)
  PROVE  Same(a + c, b + d) /\ Same(a - c, b - d)
<1>1. PICK k \in Int : a = b + 97 * k
  BY DEF Same
<1>2. PICK l \in Int : c = d + 97 * l
  BY DEF Same
<1>3. a + c = (b + d) + 97 * (k + l) /\ k + l \in Int
  BY <1>1, <1>2
<1>4. a - c = (b - d) + 97 * (k - l) /\ k - l \in Int
  BY <1>1, <1>2
<1> QED BY <1>3, <1>4 DEF Same

\* So are their multiples.
LEMMA SameTimes ==
  ASSUME NEW a \in Int, NEW b \in Int, NEW c \in Int, Same(a, b)
  PROVE  Same(a * c, b * c) /\ Same(c * a, c * b)
<1>1. PICK k \in Int : a = b + 97 * k
  BY DEF Same
<1>2. a * c = b * c + 97 * (k * c) /\ k * c \in Int
  BY <1>1
<1>3. c * a = c * b + 97 * (k * c)
  BY <1>1
<1> QED BY <1>2, <1>3 DEF Same

\* A number is congruent to its remainder.
LEMMA SameMod ==
  ASSUME NEW a \in Int
  PROVE  a % 97 \in 0..96 /\ Same(a % 97, a) /\ Same(a, a % 97)
<1>1. a % 97 \in 0..96 /\ a \div 97 \in Int /\ a = (a % 97) + 97 * (a \div 97)
  OBVIOUS
<1>2. Same(a, a % 97)
  BY <1>1 DEF Same
<1> QED BY <1>1, <1>2, SameSym

\* Congruent remainders are one.
LEMMA SameOnly ==
  ASSUME NEW a \in 0..96, NEW b \in 0..96, Same(a, b)
  PROVE  a = b
<1>1. PICK k \in Int : a = b + 97 * k
  BY DEF Same
<1> QED BY <1>1

\* No distance of two digits is one.
LEMMA OffIsNotSame ==
  ASSUME NEW e \in Off, NEW p \in 0..96, p # 1
  PROVE  ~Same(e * p, e)
<1> SUFFICES ASSUME Same(e * p, e) PROVE FALSE
  OBVIOUS
<1>1. PICK k \in Int : e * p = e + 97 * k
  BY DEF Same
<1>2. e * (p - 1) = 97 * k
  BY <1>1 DEF Off
<1>3. e \in Int /\ e # 0 /\ -9 <= e /\ e <= 9
  BY DEF Off
<1> QED BY <1>2, <1>3

-----------------------------------------------------------------------------
(* Mod97. *)

\* What stands for a number.
Alphabet == 0..35

\* A digit moves what is before it one place, a letter two.
LEMMA ScaleTyped ==
  ASSUME NEW c \in Alphabet
  PROVE  Scale(c) \in {10, 100} /\ Scale(c) \in Nat /\ c \in Int /\ (c \in 0..9 => Scale(c) = 10)
BY DEF Scale, Digits, Alphabet

\* g has the remainder of the first n characters of t, for each n.
RemTo(t, g, m) ==
  g = [n \in 0..m |-> IF n = 0 THEN 0 ELSE (g[n - 1] * Scale(t[n]) + t[n]) % 97]

Rems(t, g) == g[0] = 0 /\ \A n \in 1..Len(t) : g[n] = (g[n - 1] * Scale(t[n]) + t[n]) % 97

\* There are such remainders, of texts of whatever length.
LEMMA RemExists ==
  ASSUME NEW t
  PROVE  \A m \in Nat : \E g : RemTo(t, g, m)
<1> DEFINE M == {m \in Nat : \E g : RemTo(t, g, m)}
           After(r, n) == (r * Scale(t[n]) + t[n]) % 97
<1> HIDE DEF After
<1>1. 0 \in M
  <2>1. RemTo(t, [n \in 0..0 |-> 0], 0)
    BY DEF RemTo
  <2> QED BY <2>1
<1>2. ASSUME NEW m \in Nat, m \in M PROVE m + 1 \in M
  <2>1. PICK g : RemTo(t, g, m)
    BY <1>2
  <2> DEFINE h == [n \in 0..m+1 |-> IF n = m + 1 THEN After(g[m], n) ELSE g[n]]
  <2>2. \A n \in 0..m : h[n] = g[n]
    OBVIOUS
  <2>3. \A n \in 0..m : g[n] = IF n = 0 THEN 0 ELSE After(g[n - 1], n)
    BY <2>1 DEF RemTo, After
  <2>4. \A n \in 0..m+1 : h[n] = IF n = 0 THEN 0 ELSE After(h[n - 1], n)
    BY <2>2, <2>3
  <2>5. h = [n \in 0..m+1 |-> IF n = 0 THEN 0 ELSE After(h[n - 1], n)]
    BY <2>4
  <2>6. RemTo(t, h, m + 1)
    BY <2>5 DEF RemTo, After
  <2> QED BY <2>6
<1> HIDE DEF M
<1>3. M = Nat
  BY <1>1, <1>2, Counting DEF M
<1> QED BY <1>3 DEF M

\* So Mod97, which chooses them, has chosen them.
LEMMA Mod97Unfolds ==
  ASSUME NEW t, Len(t) \in Nat
  PROVE  \E g : Rems(t, g) /\ Mod97(t) = g[Len(t)]
<1> DEFINE After(r, n) == (r * Scale(t[n]) + t[n]) % 97
           rem == CHOOSE g : g = [n \in 0..Len(t) |->
                    IF n = 0 THEN 0 ELSE (g[n - 1] * Scale(t[n]) + t[n]) % 97]
<1>1. Mod97(t) = rem[Len(t)]
  BY DEF Mod97
<1>2. PICK g : g = [n \in 0..Len(t) |->
                    IF n = 0 THEN 0 ELSE (g[n - 1] * Scale(t[n]) + t[n]) % 97]
  <2> HIDE DEF rem
  <2>1. PICK g : RemTo(t, g, Len(t))
    BY RemExists
  <2> QED BY <2>1 DEF RemTo
<1>3. rem = [n \in 0..Len(t) |-> IF n = 0 THEN 0 ELSE (rem[n - 1] * Scale(t[n]) + t[n]) % 97]
  BY <1>2
<1> HIDE DEF rem
<1>4. \A n \in 0..Len(t) : rem[n] = IF n = 0 THEN 0 ELSE After(rem[n - 1], n)
  BY <1>3
<1> HIDE DEF After
<1>5. rem[0] = 0 /\ \A n \in 1..Len(t) : rem[n] = After(rem[n - 1], n)
  BY <1>4
<1>6. Rems(t, rem)
  BY <1>5 DEF Rems, After
<1> QED BY <1>1, <1>6

\* A step, as a sum.
LEMMA RemsStep ==
  ASSUME NEW t \in Seq(Alphabet), NEW g, Rems(t, g)
  PROVE  /\ g[0] = 0 /\ \A n \in 0..Len(t) : g[n] \in 0..96
         /\ \A n \in 1..Len(t) : /\ t[n] \in Alphabet /\ Scale(t[n]) \in {10, 100}
                                 /\ g[n] = (g[n - 1] * Scale(t[n]) + t[n]) % 97
                                 /\ Same(g[n], g[n - 1] * Scale(t[n]) + t[n])
<1>0. Len(t) \in Nat /\ \A n \in 1..Len(t) : t[n] \in Alphabet
  OBVIOUS
<1>1. g[0] = 0 /\ \A n \in 1..Len(t) : g[n] = (g[n - 1] * Scale(t[n]) + t[n]) % 97
  BY DEF Rems
<1>2. ASSUME NEW n \in 1..Len(t), g[n - 1] \in 0..96
      PROVE  g[n] \in 0..96 /\ Same(g[n], g[n - 1] * Scale(t[n]) + t[n])
  <2>1. t[n] \in Int /\ Scale(t[n]) \in Int
    BY <1>0, ScaleTyped
  <2> DEFINE a == g[n - 1] * Scale(t[n]) + t[n]
  <2>2. a \in Int
    <3> DEFINE q == g[n - 1]
               s == Scale(t[n])
               c == t[n]
    <3>1. q \in 0..96
      BY <1>2
    <3>2. s \in Int /\ c \in Int
      BY <2>1
    <3> HIDE DEF q, s, c
    <3>3. q * s + c \in Int
      BY <3>1, <3>2
    <3> QED BY <3>3 DEF q, s, c
  <2>3. g[n] = a % 97
    BY <1>1
  <2> HIDE DEF a
  <2>4. a % 97 \in 0..96 /\ Same(a % 97, a)
    BY <2>2, SameMod
  <2> QED BY <2>3, <2>4 DEF a
<1> DEFINE M == {m \in Nat : m <= Len(t) => g[m] \in 0..96}
<1>3. 0 \in M
  BY <1>1
<1>4. ASSUME NEW m \in Nat, m \in M PROVE m + 1 \in M
  <2> SUFFICES ASSUME m + 1 <= Len(t) PROVE g[m + 1] \in 0..96
    OBVIOUS
  <2> DEFINE n == m + 1
  <2>1. n \in 1..Len(t) /\ n - 1 = m /\ m <= Len(t)
    BY <1>0
  <2>2. g[n - 1] \in 0..96
    BY <1>4, <2>1
  <2> HIDE DEF n
  <2>3. g[n] \in 0..96
    BY <1>2, <2>1, <2>2
  <2> QED BY <2>3 DEF n
<1> HIDE DEF M
<1>5. M = Nat
  BY <1>3, <1>4, Counting DEF M
<1>6. \A n \in 0..Len(t) : g[n] \in 0..96
  <2> SUFFICES ASSUME NEW n \in 0..Len(t) PROVE g[n] \in 0..96
    OBVIOUS
  <2>1. n \in Nat /\ n <= Len(t)
    BY <1>0
  <2>2. n \in M
    BY <1>5, <2>1
  <2> QED BY <2>1, <2>2 DEF M
<1>7. \A n \in 1..Len(t) : g[n - 1] \in 0..96
  <2> SUFFICES ASSUME NEW n \in 1..Len(t) PROVE g[n - 1] \in 0..96
    OBVIOUS
  <2> DEFINE m == n - 1
  <2>1. m \in 0..Len(t)
    BY <1>0
  <2> HIDE DEF m
  <2>2. g[m] \in 0..96
    BY <1>6, <2>1
  <2> QED BY <2>2 DEF m
<1>8. \A n \in 1..Len(t) : Same(g[n], g[n - 1] * Scale(t[n]) + t[n])
  BY <1>2, <1>7
<1>9. \A n \in 1..Len(t) : t[n] \in Alphabet /\ Scale(t[n]) \in {10, 100}
  BY <1>0, ScaleTyped
<1> QED BY <1>1, <1>6, <1>8, <1>9

\* The remainder of texts that begin alike is alike as far as they do.
LEMMA RemsAlike ==
  ASSUME NEW t \in Seq(Alphabet), NEW u \in Seq(Alphabet), NEW g, NEW h, Rems(t, g), Rems(u, h),
         NEW m \in Nat, m <= Len(t), m <= Len(u), \A n \in 1..m : t[n] = u[n]
  PROVE  g[m] = h[m]
<1> DEFINE M == {k \in Nat : k <= m => g[k] = h[k]}
<1>1. 0 \in M
  BY DEF Rems
<1>2. ASSUME NEW k \in Nat, k \in M PROVE k + 1 \in M
  <2> SUFFICES ASSUME k + 1 <= m PROVE g[k + 1] = h[k + 1]
    OBVIOUS
  <2> DEFINE n == k + 1
  <2>1. n \in 1..Len(t) /\ n \in 1..Len(u) /\ n \in 1..m /\ n - 1 = k /\ k <= m
    OBVIOUS
  <2> HIDE DEF n
  <2>2. t[n] = u[n] /\ g[n - 1] = h[n - 1]
    BY <1>2, <2>1
  <2>3. g[n] = (g[n - 1] * Scale(t[n]) + t[n]) % 97 /\ h[n] = (h[n - 1] * Scale(u[n]) + u[n]) % 97
    BY <2>1 DEF Rems
  <2> QED BY <2>2, <2>3 DEF n
<1> HIDE DEF M
<1>3. M = Nat
  BY <1>1, <1>2, Counting DEF M
<1> QED BY <1>3 DEF M

\* What texts that end alike are apart, they stay.
LEMMA StepApart ==
  ASSUME NEW r \in 0..96, NEW q \in 0..96, NEW c \in Alphabet, r # q
  PROVE  (r * Scale(c) + c) % 97 # (q * Scale(c) + c) % 97
<1>1. CASE Scale(c) = 10
  <2>1. (r * 10 + c) % 97 # (q * 10 + c) % 97
    BY DEF Alphabet
  <2> QED BY <1>1, <2>1
<1>2. CASE Scale(c) = 100
  <2>1. (r * 100 + c) % 97 # (q * 100 + c) % 97
    BY DEF Alphabet
  <2> QED BY <1>2, <2>1
<1> QED BY <1>1, <1>2, ScaleTyped

\* So texts that are apart at one place and end alike are apart at the end.
LEMMA RemsApart ==
  ASSUME NEW t \in Seq(Alphabet), NEW u \in Seq(Alphabet), NEW g, NEW h, Rems(t, g), Rems(u, h),
         NEW p \in Nat, p <= Len(t), Len(u) = Len(t),
         \A n \in 1..Len(t) : n > p => t[n] = u[n], g[p] # h[p]
  PROVE  g[Len(t)] # h[Len(t)]
<1> DEFINE M == {k \in Nat : p <= k /\ k <= Len(t) => g[k] # h[k]}
<1>0. Len(t) \in Nat
  OBVIOUS
<1>1. 0 \in M
  <2>1. p <= 0 => p = 0
    OBVIOUS
  <2> QED BY <2>1
<1>2. ASSUME NEW k \in Nat, k \in M PROVE k + 1 \in M
  <2> SUFFICES ASSUME p <= k + 1, k + 1 <= Len(t) PROVE g[k + 1] # h[k + 1]
    OBVIOUS
  <2>1. CASE p = k + 1
    BY <2>1
  <2>2. CASE p # k + 1
    <3> DEFINE n == k + 1
    <3>1. n \in 1..Len(t) /\ n \in 1..Len(u) /\ n > p /\ n - 1 = k /\ p <= k /\ k <= Len(t)
          /\ k \in 0..Len(t) /\ k \in 0..Len(u)
      BY <1>0, <2>2
    <3> HIDE DEF n
    <3>2. t[n] = u[n] /\ g[k] # h[k]
      BY <1>2, <3>1
    <3>3. g[k] \in 0..96 /\ t[n] \in Alphabet /\ g[n] = (g[k] * Scale(t[n]) + t[n]) % 97
      BY <3>1, RemsStep
    <3>4. h[k] \in 0..96 /\ h[n] = (h[k] * Scale(u[n]) + u[n]) % 97
      BY <3>1, RemsStep
    <3> DEFINE a == g[k]
               b == h[k]
               c == t[n]
    <3>5. a \in 0..96 /\ b \in 0..96 /\ c \in Alphabet /\ a # b
          /\ g[n] = (a * Scale(c) + c) % 97 /\ h[n] = (b * Scale(c) + c) % 97
      BY SMTT(60), <3>2, <3>3, <3>4
    <3> HIDE DEF a, b, c
    <3>6. (a * Scale(c) + c) % 97 # (b * Scale(c) + c) % 97
      BY <3>5, StepApart
    <3>7. g[n] # h[n]
      BY <3>5, <3>6
    <3> QED BY <3>7 DEF n
  <2> QED BY <2>1, <2>2
<1> HIDE DEF M
<1>3. M = Nat
  BY <1>1, <1>2, Counting DEF M
<1> QED BY <1>0, <1>3 DEF M

\* A wrong digit is found, and so are two exchanged.
LEMMA TenApart ==
  ASSUME NEW r \in 0..96, NEW a \in 0..9, NEW b \in 0..9, a # b
  PROVE  /\ (r * 10 + a) % 97 # (r * 10 + b) % 97
         /\ (((r * 10 + a) % 97) * 10 + b) % 97 # (((r * 10 + b) % 97) * 10 + a) % 97
OBVIOUS

\* Mod97 finds a wrong digit anywhere in a text.
LEMMA Mod97FindsDigit ==
  ASSUME NEW t \in Seq(Alphabet), NEW u \in Seq(Alphabet), Len(u) = Len(t), NEW i \in 1..Len(t),
         \A n \in 1..Len(t) : n # i => t[n] = u[n],
         t[i] \in 0..9, u[i] \in 0..9, t[i] # u[i]
  PROVE  Mod97(t) # Mod97(u)
<1>0. Len(t) \in Nat /\ i \in Nat /\ i - 1 \in Nat /\ i - 1 <= Len(t) /\ i \in 1..Len(u)
  OBVIOUS
<1>1. PICK g : Rems(t, g) /\ Mod97(t) = g[Len(t)]
  BY <1>0, Mod97Unfolds
<1>2. PICK h : Rems(u, h) /\ Mod97(u) = h[Len(u)]
  BY <1>0, Mod97Unfolds
<1> DEFINE m == i - 1
<1>3. m \in Nat /\ m <= Len(t) /\ m \in 0..Len(t) /\ \A n \in 1..m : n \in 1..Len(t) /\ n # i
  BY <1>0
<1>4. g[m] = h[m]
  <2> HIDE DEF m
  <2> QED BY <1>1, <1>2, <1>3, RemsAlike
<1> DEFINE r == g[m]
           a == t[i]
           b == u[i]
<1>5. r \in 0..96
  <2> HIDE DEF m
  <2> QED BY <1>1, <1>3, RemsStep
<1>6. Scale(a) = 10 /\ Scale(b) = 10
  BY DEF Scale, Digits
<1>7. g[i] = (r * 10 + a) % 97 /\ h[i] = (r * 10 + b) % 97
  BY <1>0, <1>1, <1>2, <1>4, <1>6 DEF Rems
<1>8. a \in 0..9 /\ b \in 0..9 /\ a # b
  OBVIOUS
<1> HIDE DEF r, a, b
<1>9. g[i] # h[i]
  <2>1. (r * 10 + a) % 97 # (r * 10 + b) % 97
    BY <1>5, <1>8, TenApart
  <2> QED BY <1>7, <2>1
<1>10. i <= Len(t) /\ \A n \in 1..Len(t) : n > i => t[n] = u[n]
  BY <1>0
<1> QED BY <1>0, <1>1, <1>2, <1>9, <1>10, RemsApart

\* And two exchanged beside each other.
LEMMA Mod97FindsExchange ==
  ASSUME NEW t \in Seq(Alphabet), NEW u \in Seq(Alphabet), Len(u) = Len(t),
         NEW i \in 1..Len(t), i + 1 \in 1..Len(t),
         \A n \in 1..Len(t) : n # i /\ n # i + 1 => t[n] = u[n],
         t[i] \in 0..9, t[i + 1] \in 0..9, u[i] = t[i + 1], u[i + 1] = t[i], t[i] # t[i + 1]
  PROVE  Mod97(t) # Mod97(u)
<1>0. Len(t) \in Nat /\ i \in Nat /\ i - 1 \in Nat /\ i - 1 <= Len(t) /\ i \in 1..Len(u)
  OBVIOUS
<1>1. PICK g : Rems(t, g) /\ Mod97(t) = g[Len(t)]
  BY <1>0, Mod97Unfolds
<1>2. PICK h : Rems(u, h) /\ Mod97(u) = h[Len(u)]
  BY <1>0, Mod97Unfolds
<1> DEFINE m == i - 1
<1>3. m \in Nat /\ m <= Len(t) /\ m \in 0..Len(t)
      /\ \A n \in 1..m : n \in 1..Len(t) /\ n # i /\ n # i + 1
  BY <1>0
<1>4. g[m] = h[m]
  <2> HIDE DEF m
  <2> QED BY <1>1, <1>2, <1>3, RemsAlike
<1> DEFINE r == g[m]
           a == t[i]
           b == t[i + 1]
           j == i + 1
<1>5. r \in 0..96
  <2> HIDE DEF m
  <2> QED BY <1>1, <1>3, RemsStep
<1>6. Scale(a) = 10 /\ Scale(b) = 10
  BY DEF Scale, Digits
<1>7. g[i] = (r * 10 + a) % 97 /\ h[i] = (r * 10 + b) % 97
  BY <1>0, <1>1, <1>2, <1>4, <1>6 DEF Rems
<1>8. a \in 0..9 /\ b \in 0..9 /\ a # b
  OBVIOUS
<1>9. j \in 1..Len(t) /\ j \in 1..Len(u) /\ j - 1 = i /\ t[j] = b /\ u[j] = a /\ j \in Nat /\ j <= Len(t)
  BY <1>0
<1>10. \A n \in 1..Len(t) : n > j => t[n] = u[n]
  BY <1>0
<1> HIDE DEF r, a, b, j
<1>11. g[j] = (g[i] * 10 + b) % 97 /\ h[j] = (h[i] * 10 + a) % 97
  <2>1. g[j] = (g[j - 1] * Scale(t[j]) + t[j]) % 97 /\ h[j] = (h[j - 1] * Scale(u[j]) + u[j]) % 97
    BY <1>1, <1>2, <1>9 DEF Rems
  <2> QED BY <1>6, <1>9, <2>1
<1>12. g[j] # h[j]
  <2>1. (((r * 10 + a) % 97) * 10 + b) % 97 # (((r * 10 + b) % 97) * 10 + a) % 97
    BY <1>5, <1>8, TenApart
  <2> QED BY <1>7, <1>11, <2>1
<1> QED BY <1>0, <1>1, <1>2, <1>9, <1>10, <1>12, RemsApart

\* What it finds is a remainder.
LEMMA Mod97Typed ==
  ASSUME NEW t \in Seq(Alphabet)
  PROVE  Mod97(t) \in 0..96
<1>0. Len(t) \in Nat /\ Len(t) \in 0..Len(t)
  OBVIOUS
<1>1. PICK g : Rems(t, g) /\ Mod97(t) = g[Len(t)]
  BY <1>0, Mod97Unfolds
<1> QED BY <1>0, <1>1, RemsStep

\* What texts that end alike are apart grows with each character as the number does.
Carried(r, q, e, s, c) ==
  /\ r \in Int /\ q \in Int /\ e \in Int /\ s \in Int /\ c \in Int
  /\ Same(q, r + e)
  => Same((q * s + c) % 97, ((r * s + c) % 97) + e * s)

\* It does.
LEMMA Carries == \A r, q, e, s, c : Carried(r, q, e, s, c)
<1> SUFFICES ASSUME NEW r \in Int, NEW q \in Int, NEW e \in Int, NEW s \in Int, NEW c \in Int,
                    Same(q, r + e)
             PROVE  Same((q * s + c) % 97, ((r * s + c) % 97) + e * s)
  BY ZenonT(60) DEF Carried
<1> DEFINE a == q * s + c
           b == r * s + c
           d == e * s
<1>1. a \in Int /\ b \in Int /\ d \in Int /\ r + e \in Int /\ (r + e) * s + c = b + d
  OBVIOUS
<1>2. Same(a, b + d)
  <2>1. Same(q * s, (r + e) * s)
    BY <1>1, SameTimes
  <2>2. q * s \in Int /\ (r + e) * s \in Int /\ Same(c, c)
    BY <1>1, SameRefl
  <2>3. Same(q * s + c, (r + e) * s + c)
    BY <2>1, <2>2, SamePlus
  <2> QED BY <1>1, <2>3
<1> HIDE DEF a, b, d
<1>3. /\ a % 97 \in Int /\ b % 97 \in Int /\ Same(a % 97, a) /\ Same(b, b % 97) /\ Same(d, d)
  BY <1>1, SameMod, SameRefl
<1>4. Same(b + d, (b % 97) + d)
  BY <1>1, <1>3, SamePlus
<1>5. b + d \in Int /\ (b % 97) + d \in Int
  BY <1>1, <1>3
<1>6. Same(a % 97, b + d)
  BY <1>1, <1>2, <1>3, <1>5, SameTrans
<1>7. Same(a % 97, (b % 97) + d)
  BY <1>3, <1>4, <1>5, <1>6, SameTrans
<1> QED BY <1>7 DEF a, b, d

-----------------------------------------------------------------------------
(* The powers of ten modulo 97: none of the first sixty-seven is one. *)

Powers ==
  << 1, 10, 3, 30, 9, 90, 27, 76, 81, 34, 49, 5, 50, 15, 53, 45, 62, 38, 89, 17, 73, 51,
     25, 56, 75, 71, 31, 19, 93, 57, 85, 74, 61, 28, 86, 84, 64, 58, 95, 77, 91, 37, 79,
     14, 43, 42, 32, 29, 96, 87, 94, 67, 88, 7, 70, 21, 16, 63, 48, 92, 47, 82, 44, 52,
     35, 59, 8, 80 >>

Power(j) == Powers[j + 1]

\* They are the powers of ten, and only the first is 1.
LEMMA PowerFacts ==
  /\ Power(0) = 1
  /\ \A j \in 0..67 : Power(j) \in 1..96
  /\ \A j \in 1..67 : Power(j) # 1
  /\ \A j \in 0..66 : Same(Power(j) * 10, Power(j + 1))
<1>1. Powers[1] = 1 /\ \A n \in 1..68 : Powers[n] \in 1..96
  BY DEF Powers
<1>2. \A n \in 2..68 : Powers[n] # 1
  BY DEF Powers
<1>3. \A n \in 1..67 : (Powers[n] * 10) % 97 = Powers[n + 1]
  BY DEF Powers
<1>4. Power(0) = 1
  BY <1>1 DEF Power
<1>5. ASSUME NEW j \in 0..67 PROVE Power(j) \in 1..96
  <2> DEFINE n == j + 1
  <2>1. n \in 1..68
    OBVIOUS
  <2> HIDE DEF n
  <2>2. Powers[n] \in 1..96
    BY <1>1, <2>1
  <2> QED BY <2>2 DEF Power, n
<1>6. ASSUME NEW j \in 1..67 PROVE Power(j) # 1
  <2> DEFINE n == j + 1
  <2>1. n \in 2..68
    OBVIOUS
  <2> HIDE DEF n
  <2>2. Powers[n] # 1
    BY <1>2, <2>1
  <2> QED BY <2>2 DEF Power, n
<1>7. ASSUME NEW j \in 0..66 PROVE Same(Power(j) * 10, Power(j + 1))
  <2> DEFINE n == j + 1
  <2>1. n \in 1..67
    OBVIOUS
  <2> HIDE DEF n
  <2> DEFINE a == Powers[n]
             b == Powers[n + 1]
  <2>2. a \in 1..96 /\ (a * 10) % 97 = b
    BY <1>1, <1>3, <2>1
  <2> HIDE DEF a, b
  <2>3. Same(a * 10, b)
    <3>1. a * 10 \in Int
      BY <2>2
    <3>2. Same(a * 10, (a * 10) % 97)
      BY <3>1, SameMod
    <3> QED BY <2>2, <3>2
  <2> QED BY <2>3 DEF Power, n, a, b
<1> QED BY <1>4, <1>5, <1>6, <1>7

\* A digit, or a letter as two, further.
LEMMA PowerScales ==
  ASSUME NEW j \in 0..65, NEW e \in Int, NEW s \in {10, 100}
  PROVE  \E k \in {j + 1, j + 2} : Same((e * Power(j)) * s, e * Power(k))
<1> DEFINE p == Power(j)
           q == Power(j + 1)
           r == Power(j + 2)
           i == j + 1
<1>1. /\ p \in Int /\ q \in Int /\ r \in Int /\ Same(p * 10, q) /\ Same(q * 10, r)
  <2>1. j \in 0..66 /\ i \in 0..66 /\ j \in 0..67 /\ i \in 0..67 /\ i + 1 \in 0..67 /\ i + 1 = j + 2
    BY SMTT(60)
  <2>2. Same(p * 10, q) /\ p \in 1..96
    BY SMTT(60), <2>1, PowerFacts
  <2>3. Power(i) \in 1..96 /\ Power(i + 1) \in 1..96 /\ Same(Power(i) * 10, Power(i + 1))
    <3> HIDE DEF i
    <3> QED BY <2>1, PowerFacts
  <2> QED BY <2>1, <2>2, <2>3
<1> HIDE DEF p, q, r
<1>2. p * 10 \in Int /\ q * 10 \in Int /\ (p * 10) * 10 \in Int
  BY <1>1
<1>3. CASE s = 10
  <2>1. Same(e * (p * 10), e * q)
    BY <1>1, <1>2, SameTimes
  <2>2. e * (p * 10) = (e * p) * 10
    BY <1>1
  <2> QED BY <1>3, <2>1, <2>2 DEF p, q
<1>4. CASE s = 100
  <2>1. Same((p * 10) * 10, q * 10)
    BY <1>1, <1>2, SameTimes
  <2>2. Same((p * 10) * 10, r)
    BY <1>1, <1>2, <2>1, SameTrans
  <2>3. Same(e * ((p * 10) * 10), e * r)
    BY <1>1, <1>2, <2>2, SameTimes
  <2>4. e * ((p * 10) * 10) = (e * p) * 100
    BY <1>1
  <2> QED BY <1>4, <2>3, <2>4 DEF p, r
<1> QED BY <1>3, <1>4

\* A product of numbers is one, for leaves that must not multiply.
LEMMA TimesTyped ==
  ASSUME NEW a \in Int, NEW b \in Int
  PROVE  a * b \in Int
OBVIOUS

\* What a digit is off by is a number.
LEMMA OffTyped ==
  ASSUME NEW x \in Off
  PROVE  x \in Int
BY DEF Off

\* What two texts are apart, a character later.
StepsOn(r, q, e, c, j) ==
  /\ r \in Int /\ q \in Int /\ e \in Int /\ c \in Alphabet /\ j \in 0..65
  /\ Same(q, r + e * Power(j))
  => \E k \in {j + 1, j + 2} :
       Same((q * Scale(c) + c) % 97, ((r * Scale(c) + c) % 97) + e * Power(k))

\* They stay apart by a digit times some power of ten, one or two further.
LEMMA EndsStep == \A r, q, e, c, j : StepsOn(r, q, e, c, j)
<1> SUFFICES ASSUME NEW r \in Int, NEW q \in Int, NEW e \in Int, NEW c \in Alphabet,
                    NEW j \in 0..65, Same(q, r + e * Power(j))
             PROVE  \E k \in {j + 1, j + 2} :
                      Same((q * Scale(c) + c) % 97, ((r * Scale(c) + c) % 97) + e * Power(k))
  BY SMTT(60) DEF StepsOn
<1> DEFINE s == Scale(c)
           d == e * Power(j)
<1>1. s \in {10, 100} /\ s \in Int /\ c \in Int
  BY ScaleTyped
<1>2. d \in Int
  <2>1. j \in 0..67
    OBVIOUS
  <2>2. Power(j) \in 1..96
    BY <2>1, PowerFacts
  <2>3. Power(j) \in Int
    BY <2>2
  <2> QED BY <2>3, TimesTyped
<1>3. PICK k \in {j + 1, j + 2} : Same(d * s, e * Power(k))
  <2> HIDE DEF s
  <2>1. \E k \in {j + 1, j + 2} : Same((e * Power(j)) * s, e * Power(k))
    BY <1>1, PowerScales
  <2> QED BY <2>1
<1> DEFINE x == d * s
           y == e * Power(k)
           v == (r * s + c) % 97
           w == (q * s + c) % 97
<1>4. x \in Int /\ y \in Int /\ v \in Int /\ w \in Int
  <2>1. k \in 0..67
    BY <1>3
  <2>2. Power(k) \in 1..96
    BY <2>1, PowerFacts
  <2>3. Power(k) \in Int
    BY <2>2
  <2>4. x \in Int /\ y \in Int
    BY <1>1, <1>2, <2>3, TimesTyped
  <2> HIDE DEF s
  <2>5. r * s + c \in Int /\ q * s + c \in Int
    BY <1>1
  <2>6. v \in 0..96 /\ w \in 0..96
    BY <2>5, SameMod
  <2> QED BY <2>4, <2>6
<1>5. Same(w, v + x)
  <2> HIDE DEF s, d
  <2>1. Same(q, r + d)
    BY DEF d
  <2>2. Carried(r, q, d, s, c)
    BY Carries
  <2> QED BY <1>1, <1>2, <2>1, <2>2 DEF Carried
<1>6. Same(x, y)
  BY <1>3
<1> HIDE DEF x, y, v, w
<1>7. Same(w, v + y)
  <2>1. Same(v, v) /\ v + x \in Int /\ v + y \in Int
    BY <1>4, SameRefl
  <2>2. Same(v + x, v + y)
    BY <1>4, <1>6, <2>1, SamePlus
  <2> QED BY <1>4, <1>5, <2>1, <2>2, SameTrans
<1> QED BY <1>7 DEF v, w, y

\* What the last character makes of them.
EndsApart(r, q, a, b, j) ==
  /\ r \in 0..96 /\ q \in 0..96 /\ a \in 0..9 /\ b \in 0..9 /\ a # b /\ j \in 0..65
  /\ Same(q, r + (b - a) * Power(j))
  => (r * 10 + b) % 97 # (q * 10 + a) % 97

\* And the last digit does not make up for it, as no such power is 1.
LEMMA EndsLast == \A r, q, a, b, j : EndsApart(r, q, a, b, j)
<1> SUFFICES ASSUME NEW r, NEW q, NEW a, NEW b, NEW j PROVE EndsApart(r, q, a, b, j)
  OBVIOUS
<1> SUFFICES ASSUME r \in 0..96, q \in 0..96, a \in 0..9, b \in 0..9, a # b,
                    j \in 0..65, Same(q, r + (b - a) * Power(j))
             PROVE  (r * 10 + b) % 97 # (q * 10 + a) % 97
  BY Zenon DEF EndsApart
<1> SUFFICES ASSUME (r * 10 + b) % 97 = (q * 10 + a) % 97 PROVE FALSE
  OBVIOUS
<1> DEFINE e == b - a
           x == q * 10 + a
           y == q * 10 + b
           v == (r * 10 + b) % 97
           i == j + 1
           p == e * Power(i)
<1>1. e \in Off /\ e \in Int
  BY OffBy, OffTyped
<1>2. x \in Int /\ y \in Int /\ y - x = e /\ r * 10 + b \in Int
  OBVIOUS
<1>3. x % 97 = v
  OBVIOUS
<1>4. v \in 0..96
  <2> DEFINE z == r * 10 + b
  <2>1. z \in Int
    OBVIOUS
  <2> HIDE DEF z
  <2>2. z % 97 \in 0..96
    BY <2>1, SameMod
  <2> QED BY <2>2 DEF z
<1>5. i \in 0..67 /\ i \in 1..67 /\ j \in 0..66 /\ j \in 0..67
  OBVIOUS
<1>6. Power(i) \in 0..96 /\ Power(i) # 1 /\ Power(i) \in Int /\ Power(j) \in Int /\ Same(Power(j) * 10, Power(i))
  <2>1. Same(Power(j) * 10, Power(i)) /\ Power(j) \in 1..96
    BY SMTT(60), <1>5, PowerFacts
  <2> HIDE DEF i
  <2>2. Power(i) \in 1..96 /\ Power(i) # 1
    BY <1>5, PowerFacts
  <2> QED BY SMTT(60), <2>1, <2>2
<1>7. Same(y % 97, v + p)
  <2> DEFINE d == e * Power(j)
             z == (q * 10 + b) % 97
  <2>1. d \in Int /\ p \in Int /\ d * 10 \in Int
    BY <1>1, <1>6, TimesTyped
  <2>2. Same(z, v + d * 10)
    <3>1. Same(q, r + d)
      OBVIOUS
    <3> HIDE DEF d
    <3>2. Carried(r, q, d, 10, b)
      BY Carries
    <3> QED BY <2>1, <3>1, <3>2 DEF Carried
  <2>3. Same(d * 10, p)
    <3> DEFINE f == Power(j)
               g == Power(i)
    <3>1. f \in Int /\ g \in Int /\ f * 10 \in Int /\ Same(f * 10, g)
      BY <1>6
    <3> HIDE DEF f, g, e
    <3>2. Same(e * (f * 10), e * g)
      BY <1>1, <3>1, SameTimes
    <3>3. e * (f * 10) = (e * f) * 10
      BY <1>1, <3>1
    <3> QED BY <3>2, <3>3 DEF f, g
  <2>4. z \in Int
    <3>1. z \in 0..96
      BY <1>2, SameMod
    <3> QED BY <3>1
  <2> DEFINE c == d * 10
  <2> HIDE DEF d, z, p, v, c
  <2>5. Same(v, v) /\ v \in Int /\ v + c \in Int /\ v + p \in Int /\ c \in Int
    BY <1>4, <2>1, SameRefl DEF c
  <2>6. Same(v + c, v + p)
    BY <2>1, <2>3, <2>5, SamePlus DEF c
  <2>7. Same(z, v + p)
    BY <2>2, <2>4, <2>5, <2>6, SameTrans DEF c
  <2> QED BY <2>7 DEF z
<1>8. Same((y % 97) - v, e)
  <2> HIDE DEF x, y, v, e
  <2>1. Same(y % 97, y) /\ Same(x % 97, x) /\ y % 97 \in Int /\ x % 97 \in Int
    BY <1>2, SameMod
  <2>2. Same((y % 97) - (x % 97), y - x)
    BY <1>2, <2>1, SamePlus
  <2> QED BY <1>2, <1>3, <2>2
<1>9. y % 97 \in Int /\ p \in Int
  <2>1. y % 97 \in 0..96
    BY <1>2, SameMod
  <2>2. p \in Int
    BY <1>1, <1>6, TimesTyped
  <2> QED BY <2>1, <2>2
<1> DEFINE w == y % 97
<1> HIDE DEF w, v, p, e
<1>10. Same(p, e)
  <2>1. Same(v, v) /\ v \in Int /\ v + p \in Int /\ w - v \in Int /\ (v + p) - v = p
    BY <1>4, <1>9, SameRefl DEF w
  <2>2. Same(w - v, (v + p) - v)
    BY <1>7, <1>9, <2>1, SamePlus DEF w
  <2>3. Same(p, w - v)
    BY <1>9, <2>1, <2>2, SameSym
  <2> QED BY <1>1, <1>8, <1>9, <2>1, <2>3, SameTrans DEF w
<1> QED BY <1>1, <1>6, <1>10, OffIsNotSame DEF p

\* So are the first and the last exchanged, of no more than thirty-four.
LEMMA Mod97FindsEnds ==
  ASSUME NEW t \in Seq(Alphabet), NEW u \in Seq(Alphabet), Len(t) \in 2..34, Len(u) = Len(t),
         \A n \in 1..Len(t) : n # 1 /\ n # Len(t) => t[n] = u[n],
         t[1] \in 0..9, t[Len(t)] \in 0..9, u[1] = t[Len(t)], u[Len(t)] = t[1], t[1] # t[Len(t)]
  PROVE  Mod97(t) # Mod97(u)
<1> SUFFICES ASSUME Mod97(t) = Mod97(u) PROVE FALSE
  OBVIOUS
<1> DEFINE L == Len(t)
<1>0. L \in 2..34 /\ L \in Nat
  <2>1. L \in 2..34
    OBVIOUS
  <2> HIDE DEF L
  <2> QED BY <2>1
<1>1. PICK g : Rems(t, g) /\ Mod97(t) = g[L]
  BY <1>0, Mod97Unfolds
<1>2. PICK h : Rems(u, h) /\ Mod97(u) = h[L]
  BY <1>0, Mod97Unfolds
<1> DEFINE a == t[1]
           b == t[L]
           e == b - a
<1>3. /\ a \in 0..9 /\ b \in 0..9 /\ a # b /\ u[1] = b /\ u[L] = a /\ t[1] = a /\ t[L] = b
  OBVIOUS
<1>31. e \in Int /\ b = a + e * 1
  <2> HIDE DEF a, b
  <2> QED BY <1>3
<1>4. /\ g[0] = 0 /\ \A n \in 0..L : g[n] \in 0..96
      /\ \A n \in 1..L : t[n] \in Alphabet /\ g[n] = (g[n - 1] * Scale(t[n]) + t[n]) % 97
  BY <1>1, RemsStep
<1>5. /\ h[0] = 0 /\ \A n \in 0..L : h[n] \in 0..96
      /\ \A n \in 1..L : u[n] \in Alphabet /\ h[n] = (h[n - 1] * Scale(u[n]) + u[n]) % 97
  BY <1>2, RemsStep
<1>6. Scale(a) = 10 /\ Scale(b) = 10
  BY <1>3 DEF Scale, Digits
<1>60. \A n \in 1..L : n # 1 /\ n # L => t[n] = u[n]
  OBVIOUS
<1> HIDE DEF a, b, e, L
<1>7. g[1] = a /\ h[1] = b
  <2>1. g[1] = (0 * 10 + a) % 97
    <3>1. 1 \in 1..L /\ 1 - 1 = 0
      BY <1>0
    <3> QED BY SMTT(60), <1>3, <1>4, <1>6, <3>1
  <2>2. h[1] = (0 * 10 + b) % 97
    <3>1. 1 \in 1..L /\ 1 - 1 = 0
      BY <1>0
    <3> QED BY ZenonT(60), <1>3, <1>5, <1>6, <3>1
  <2> QED BY <1>3, <2>1, <2>2
<1> DEFINE Apart(m, j) == Same(h[m], g[m] + e * Power(j))
           M == {m \in Nat : 1 <= m /\ m <= L - 1 => \E j \in (m - 1)..(2 * m - 2) : Apart(m, j)}
<1>8. 0 \in M
  BY <1>0
<1>9. ASSUME NEW m \in Nat, m \in M PROVE m + 1 \in M
  <2> SUFFICES ASSUME m + 1 <= L - 1 PROVE \E j \in ((m + 1) - 1)..(2 * (m + 1) - 2) : Apart(m + 1, j)
    OBVIOUS
  <2>1. CASE m = 0
    <3>1. h[1] = g[1] + e * 1 /\ h[1] \in Int
      BY SMTT(60), <1>3, <1>31, <1>7
    <3>2. Same(h[1], g[1] + e * Power(0))
      BY <3>1, SameRefl, PowerFacts
    <3>3. 0 \in ((m + 1) - 1)..(2 * (m + 1) - 2) /\ m + 1 = 1
      BY <2>1
    <3> QED BY <3>2, <3>3
  <2>2. CASE m # 0
    <3>1. m \in 1..(L - 2) /\ 1 <= m /\ m <= L - 1
      BY <1>0, <2>2
    <3>2. PICK j \in (m - 1)..(2 * m - 2) : Apart(m, j)
      BY <1>9, <3>1
    <3>3. j \in 0..65 /\ \A k \in {j + 1, j + 2} : k \in ((m + 1) - 1)..(2 * (m + 1) - 2)
      BY <1>0, <3>1, <3>2
    <3> DEFINE n == m + 1
               r == g[m]
               q == h[m]
               c == t[n]
    <3>4. n \in 1..L /\ n - 1 = m /\ n # 1 /\ n # L /\ m \in 0..L
      BY <1>0, <3>1
    <3> HIDE DEF n
    <3>5. r \in 0..96 /\ q \in 0..96
      BY <1>4, <1>5, <3>4
    <3>6. c \in Alphabet /\ u[n] = c
      BY <1>4, <1>60, <3>4
    <3>7. g[n] = (r * Scale(c) + c) % 97
      BY <1>4, <3>4
    <3>8. h[n] = (q * Scale(c) + c) % 97
      BY <1>5, <3>4, <3>6
    <3>9. Same(q, r + e * Power(j))
      BY <3>2
    <3> HIDE DEF r, q, c
    <3>10. r \in Int /\ q \in Int
      BY <3>5
    <3>11. \E k \in {j + 1, j + 2} :
             Same((q * Scale(c) + c) % 97, ((r * Scale(c) + c) % 97) + e * Power(k))
      <4>1. StepsOn(r, q, e, c, j)
        BY EndsStep
      <4> QED BY <1>31, <3>3, <3>6, <3>9, <3>10, <4>1 DEF StepsOn
    <3>12. \E k \in {j + 1, j + 2} : Apart(n, k)
      BY <3>7, <3>8, <3>11
    <3> QED BY <3>3, <3>12 DEF n
  <2> QED BY <2>1, <2>2
<1> HIDE DEF M
<1>10. M = Nat
  BY <1>8, <1>9, Counting DEF M
<1> DEFINE m == L - 1
<1>11. m \in Nat /\ 1 <= m /\ m <= L - 1 /\ m \in 0..L /\ L \in 1..L /\ L \in 0..L /\ m \in 1..33
  BY <1>0
<1>12. PICK j \in (m - 1)..(2 * m - 2) : Apart(m, j)
  <2> HIDE DEF m
  <2> QED BY <1>10, <1>11 DEF M
<1>13. j \in 0..65
  <2>1. j \in (m - 1)..(2 * m - 2) /\ m \in 1..33
    BY <1>11, <1>12
  <2> HIDE DEF m, Apart
  <2> QED BY <2>1
<1> DEFINE r == g[m]
           q == h[m]
<1>14. r \in 0..96 /\ q \in 0..96
  <2> HIDE DEF m
  <2> QED BY <1>4, <1>5, <1>11
<1>15. g[L] = (r * 10 + b) % 97 /\ h[L] = (q * 10 + a) % 97
  <2>1. g[L] = (g[L - 1] * Scale(t[L]) + t[L]) % 97 /\ h[L] = (h[L - 1] * Scale(u[L]) + u[L]) % 97
    BY <1>4, <1>5, <1>11
  <2> QED BY <1>3, <1>6, <2>1
<1>16. Same(q, r + (b - a) * Power(j))
  BY <1>12 DEF e
<1> HIDE DEF r, q
<1>17. (r * 10 + b) % 97 # (q * 10 + a) % 97
  <2>1. EndsApart(r, q, a, b, j)
    BY EndsLast
  <2> QED BY <1>3, <1>13, <1>14, <1>16, <2>1 DEF EndsApart
<1> QED BY <1>1, <1>2, <1>15, <1>17

\* What each place counts for, from the right.
WeighTo(t, w, m) ==
  w = [k \in 0..m |-> IF k = 0 THEN 1 ELSE (w[k - 1] * Scale(t[Len(t) - k + 1])) % 97]

Weighs(t, w) ==
  w[0] = 1 /\ \A k \in 1..Len(t) : w[k] = (w[k - 1] * Scale(t[Len(t) - k + 1])) % 97

\* There are such weights, of texts of whatever length.
LEMMA WeighExists ==
  ASSUME NEW t
  PROVE  \A m \in Nat : \E w : WeighTo(t, w, m)
<1> DEFINE M == {m \in Nat : \E w : WeighTo(t, w, m)}
           After(r, k) == (r * Scale(t[Len(t) - k + 1])) % 97
<1> HIDE DEF After
<1>1. 0 \in M
  <2>1. WeighTo(t, [k \in 0..0 |-> 1], 0)
    BY DEF WeighTo
  <2> QED BY <2>1
<1>2. ASSUME NEW m \in Nat, m \in M PROVE m + 1 \in M
  <2>1. PICK w : WeighTo(t, w, m)
    BY <1>2
  <2> DEFINE v == [k \in 0..m+1 |-> IF k = m + 1 THEN After(w[m], k) ELSE w[k]]
  <2>2. \A k \in 0..m : v[k] = w[k]
    OBVIOUS
  <2>3. \A k \in 0..m : w[k] = IF k = 0 THEN 1 ELSE After(w[k - 1], k)
    BY <2>1 DEF WeighTo, After
  <2>4. \A k \in 0..m+1 : v[k] = IF k = 0 THEN 1 ELSE After(v[k - 1], k)
    BY <2>2, <2>3
  <2>5. v = [k \in 0..m+1 |-> IF k = 0 THEN 1 ELSE After(v[k - 1], k)]
    BY <2>4
  <2>6. WeighTo(t, v, m + 1)
    BY <2>5 DEF WeighTo, After
  <2> QED BY <2>6
<1> HIDE DEF M
<1>3. M = Nat
  BY <1>1, <1>2, Counting DEF M
<1> QED BY <1>3 DEF M

\* So Weights, which chooses them, has chosen them.
LEMMA WeightsUnfold ==
  ASSUME NEW t, Len(t) \in Nat
  PROVE  Weighs(t, Weights(t))
<1> DEFINE After(r, k) == (r * Scale(t[Len(t) - k + 1])) % 97
           weight == CHOOSE w : w = [k \in 0..Len(t) |->
                       IF k = 0 THEN 1 ELSE (w[k - 1] * Scale(t[Len(t) - k + 1])) % 97]
<1>1. Weights(t) = weight
  BY DEF Weights
<1>2. PICK w : w = [k \in 0..Len(t) |->
                      IF k = 0 THEN 1 ELSE (w[k - 1] * Scale(t[Len(t) - k + 1])) % 97]
  <2> HIDE DEF weight
  <2>1. PICK w : WeighTo(t, w, Len(t))
    BY WeighExists
  <2> QED BY <2>1 DEF WeighTo
<1>3. weight = [k \in 0..Len(t) |->
                  IF k = 0 THEN 1 ELSE (weight[k - 1] * Scale(t[Len(t) - k + 1])) % 97]
  BY <1>2
<1> HIDE DEF weight
<1>4. \A k \in 0..Len(t) : weight[k] = IF k = 0 THEN 1 ELSE After(weight[k - 1], k)
  BY <1>3
<1> HIDE DEF After
<1>5. weight[0] = 1 /\ \A k \in 1..Len(t) : weight[k] = After(weight[k - 1], k)
  BY <1>4
<1>6. Weighs(t, weight)
  BY <1>5 DEF Weighs, After
<1> QED BY <1>1, <1>6

\* Each is congruent to the one before it, moved by the character there.
LEMMA WeighsTyped ==
  ASSUME NEW t \in Seq(Alphabet), NEW w, Weighs(t, w)
  PROVE  /\ w[0] = 1 /\ \A k \in 0..Len(t) : w[k] \in Int
         /\ \A k \in 1..Len(t) : Same(w[k], w[k - 1] * Scale(t[Len(t) - k + 1]))
<1>0. Len(t) \in Nat /\ \A n \in 1..Len(t) : t[n] \in Alphabet
  OBVIOUS
<1>1. w[0] = 1 /\ \A k \in 1..Len(t) : w[k] = (w[k - 1] * Scale(t[Len(t) - k + 1])) % 97
  BY DEF Weighs
<1>2. ASSUME NEW k \in 1..Len(t), w[k - 1] \in Int
      PROVE  w[k] \in Int /\ Same(w[k], w[k - 1] * Scale(t[Len(t) - k + 1]))
  <2> DEFINE n == Len(t) - k + 1
             s == Scale(t[n])
             v == w[k - 1]
             a == v * s
  <2>1. n \in 1..Len(t)
    BY <1>0
  <2> HIDE DEF n
  <2>2. s \in Int
    BY <1>0, <2>1, ScaleTyped
  <2>3. w[k] = a % 97
    BY <1>1 DEF n
  <2> HIDE DEF s
  <2>4. v \in Int
    BY <1>2
  <2> HIDE DEF v
  <2>5. a \in Int
    BY <2>2, <2>4, TimesTyped
  <2> HIDE DEF a
  <2>6. a % 97 \in 0..96 /\ Same(a % 97, a)
    BY <2>5, SameMod
  <2> QED BY <2>3, <2>6 DEF a, v, s, n
<1> DEFINE M == {m \in Nat : m <= Len(t) => w[m] \in Int}
<1>3. 0 \in M
  BY <1>1
<1>4. ASSUME NEW m \in Nat, m \in M PROVE m + 1 \in M
  <2> SUFFICES ASSUME m + 1 <= Len(t) PROVE w[m + 1] \in Int
    OBVIOUS
  <2> DEFINE k == m + 1
  <2>1. k \in 1..Len(t) /\ k - 1 = m /\ m <= Len(t)
    BY <1>0
  <2>2. w[k - 1] \in Int
    BY <1>4, <2>1
  <2> HIDE DEF k
  <2>3. w[k] \in Int
    BY <1>2, <2>1, <2>2
  <2> QED BY <2>3 DEF k
<1> HIDE DEF M
<1>5. M = Nat
  BY <1>3, <1>4, Counting DEF M
<1>6. \A k \in 0..Len(t) : w[k] \in Int
  <2> SUFFICES ASSUME NEW k \in 0..Len(t) PROVE w[k] \in Int
    OBVIOUS
  <2>1. k \in Nat /\ k <= Len(t)
    BY <1>0
  <2>2. k \in M
    BY <1>5, <2>1
  <2> QED BY <2>1, <2>2 DEF M
<1>7. \A k \in 1..Len(t) : w[k - 1] \in Int
  <2> SUFFICES ASSUME NEW k \in 1..Len(t) PROVE w[k - 1] \in Int
    OBVIOUS
  <2> DEFINE m == k - 1
  <2>1. m \in 0..Len(t)
    BY <1>0
  <2> HIDE DEF m
  <2>2. w[m] \in Int
    BY <1>6, <2>1
  <2> QED BY <2>2 DEF m
<1>8. \A k \in 1..Len(t) : Same(w[k], w[k - 1] * Scale(t[Len(t) - k + 1]))
  BY <1>2, <1>7
<1> QED BY <1>1, <1>6, <1>8

\* A digit more: what was summed by weights is still the remainder, times what its
\* place counts for.
Horner(r, s, c, w, q, sum, next) ==
  /\ r \in Int /\ s \in Int /\ c \in Int /\ w \in Int /\ q \in Int /\ sum \in Int /\ next \in Int
  /\ Same(q, w * s) /\ Same(sum, r * q) /\ Same(next, r * s + c)
  => Same(sum + c * w, next * w)

\* It is.
LEMMA HornerStep == \A r, s, c, w, q, sum, next : Horner(r, s, c, w, q, sum, next)
<1> SUFFICES ASSUME NEW r, NEW s, NEW c, NEW w, NEW q, NEW sum, NEW next
             PROVE  Horner(r, s, c, w, q, sum, next)
  OBVIOUS
<1> SUFFICES ASSUME r \in Int, s \in Int, c \in Int, w \in Int, q \in Int, sum \in Int, next \in Int,
                    Same(q, w * s), Same(sum, r * q), Same(next, r * s + c)
             PROVE  Same(sum + c * w, next * w)
  BY Zenon DEF Horner
<1> DEFINE a == w * s
           b == r * q
           d == r * a
           e == r * s
           f == e + c
           x == c * w
           y == next * w
           z == f * w
<1>1. a \in Int /\ b \in Int /\ e \in Int /\ x \in Int /\ y \in Int
  BY TimesTyped
<1>2. d \in Int /\ f \in Int /\ d + x \in Int /\ sum + x \in Int
  <2> HIDE DEF a, e, x
  <2>1. d \in Int
    BY <1>1, TimesTyped
  <2> QED BY <1>1, <2>1
<1>3. z = d + x
  OBVIOUS
<1>4. Same(b, d)
  BY <1>1, SameTimes
<1>5. Same(sum, d)
  <2> HIDE DEF d, b
  <2>1. Same(sum, b)
    BY DEF b
  <2> QED BY <1>1, <1>2, <1>4, <2>1, SameTrans
<1>6. Same(sum + x, d + x)
  <2> HIDE DEF d, x
  <2>1. Same(x, x)
    BY <1>1, SameRefl
  <2> QED BY <1>1, <1>2, <1>5, <2>1, SamePlus
<1>7. Same(z, y)
  <2>1. Same(next, f)
    OBVIOUS
  <2> HIDE DEF f
  <2>2. Same(f, next)
    BY <1>2, <2>1, SameSym
  <2> QED BY <1>2, <2>2, SameTimes
<1> HIDE DEF a, b, d, e, f, x, y, z
<1>8. Same(sum + x, y)
  BY <1>1, <1>2, <1>3, <1>6, <1>7, SameTrans
<1> QED BY <1>8 DEF x, y

\* A remainder taken digit by digit is the remainder by weights.
LEMMA Mod97IsRemainder ==
  ASSUME NEW t \in Seq(Alphabet)
  PROVE  Mod97(t) = Remainder(t) /\ Mod97(t) \in 0..96
<1> DEFINE L == Len(t)
           w == Weights(t)
           terms == [i \in DOMAIN t |-> t[i] * w[L - i]]
<1>0. L \in Nat /\ DOMAIN t = 1..L /\ \A n \in 1..L : t[n] \in Alphabet /\ t[n] \in Int
  <2>1. L \in Nat /\ DOMAIN t = 1..L /\ \A n \in 1..L : t[n] \in Alphabet
    OBVIOUS
  <2> HIDE DEF L
  <2>2. \A c \in Alphabet : c \in Int
    BY ScaleTyped
  <2> QED BY <2>1, <2>2
<1>1. PICK g : Rems(t, g) /\ Mod97(t) = g[L]
  BY <1>0, Mod97Unfolds
<1>2. Remainder(t) = Total(terms) % 97
  BY DEF Remainder
<1>3. /\ g[0] = 0 /\ \A n \in 0..L : g[n] \in 0..96
      /\ \A n \in 1..L : Same(g[n], g[n - 1] * Scale(t[n]) + t[n])
  BY <1>1, RemsStep
<1>4. /\ w[0] = 1 /\ \A k \in 0..L : w[k] \in Int
      /\ \A k \in 1..L : Same(w[k], w[k - 1] * Scale(t[L - k + 1]))
  <2>1. Weighs(t, w)
    BY <1>0, WeightsUnfold
  <2> HIDE DEF w
  <2> QED BY <2>1, WeighsTyped
<1> HIDE DEF w
<1>5. \A i \in 1..L : L - i \in 0..L
  <2> HIDE DEF L
  <2> QED BY <1>0
<1>6. /\ terms \in Seq(Int) /\ Len(terms) = L
      /\ \A i \in 1..L : terms[i] = t[i] * w[L - i]
  <2>1. \A i \in 1..L : t[i] * w[L - i] \in Int
    <3> SUFFICES ASSUME NEW i \in 1..L PROVE t[i] * w[L - i] \in Int
      OBVIOUS
    <3>1. t[i] \in Int /\ w[L - i] \in Int
      BY <1>0, <1>4, <1>5
    <3> QED BY <3>1, TimesTyped
  <2> HIDE DEF L
  <2>2. terms \in [1..L -> Int]
    BY <1>0, <2>1
  <2>3. \A i \in 1..L : terms[i] = t[i] * w[L - i]
    BY <1>0
  <2> HIDE DEF terms
  <2>4. terms \in Seq(Int) /\ Len(terms) = L
    BY <1>0, <2>2
  <2> QED BY <2>3, <2>4
<1> HIDE DEF terms
<1>7. PICK sum : Sums(terms, sum) /\ Total(terms) = sum[Len(terms)]
  <2>1. Len(terms) \in Nat
    BY <1>0, <1>6
  <2> QED BY <2>1, TotalUnfolds
<1>8. \A n \in 0..L : sum[n] \in Int
  BY <1>6, <1>7, SumsTyped
<1>9. sum[0] = 0 /\ \A n \in 1..L : sum[n] = sum[n - 1] + t[n] * w[L - n]
  BY <1>6, <1>7 DEF Sums
<1> DEFINE M == {m \in Nat : m <= L => Same(sum[m], g[m] * w[L - m])}
<1> HIDE DEF L
<1>10. 0 \in M
  <2>1. w[L] \in Int /\ L - 0 = L
    BY <1>0, <1>4
  <2>2. g[0] * w[L - 0] = 0
    BY <1>3, <2>1
  <2> QED BY <1>9, <2>2, SameRefl
<1>11. ASSUME NEW m \in Nat, m \in M PROVE m + 1 \in M
  <2> SUFFICES ASSUME m + 1 <= L PROVE Same(sum[m + 1], g[m + 1] * w[L - (m + 1)])
    OBVIOUS
  <2> DEFINE n == m + 1
             k == L - m
             j == L - n
  <2>1. /\ n \in 1..L /\ n - 1 = m /\ m <= L /\ n \in 0..L /\ m \in 0..L
        /\ k \in 1..L /\ k - 1 = j /\ L - k + 1 = n /\ j \in 0..L /\ k \in 0..L
    BY <1>0
  <2>2. Same(sum[m], g[m] * w[k])
    BY <1>11, <2>1
  <2> HIDE DEF n, k, j
  <2>3. Same(w[k], w[j] * Scale(t[n]))
    BY <1>4, <2>1
  <2>4. Same(g[n], g[m] * Scale(t[n]) + t[n])
    BY <1>3, <2>1
  <2>5. sum[n] = sum[m] + t[n] * w[j]
    BY <1>9, <2>1 DEF j
  <2>6. /\ g[m] \in Int /\ g[n] \in Int /\ w[k] \in Int /\ w[j] \in Int /\ sum[m] \in Int
        /\ t[n] \in Int /\ Scale(t[n]) \in Int
    <3>1. g[m] \in 0..96 /\ g[n] \in 0..96
      BY <1>3, <2>1
    <3>2. t[n] \in Alphabet
      BY <1>0, <2>1
    <3>3. Scale(t[n]) \in Nat
      BY <3>2, ScaleTyped
    <3>4. t[n] \in Int
      BY <1>0, <2>1
    <3>5. w[k] \in Int /\ w[j] \in Int
      BY <1>4, <2>1
    <3>6. sum[m] \in Int
      BY <1>8, <2>1
    <3>7. g[m] \in Int /\ g[n] \in Int
      <4>1. \A x \in 0..96 : x \in Int
        OBVIOUS
      <4> QED BY Zenon, <3>1, <4>1
    <3>8. Scale(t[n]) \in Int
      BY <3>3
    <3> QED BY <3>4, <3>5, <3>6, <3>7, <3>8
  <2>7. Horner(g[m], Scale(t[n]), t[n], w[j], w[k], sum[m], g[n])
    BY HornerStep
  <2>8. Same(sum[m] + t[n] * w[j], g[n] * w[j])
    BY Zenon, <2>2, <2>3, <2>4, <2>6, <2>7 DEF Horner
  <2>9. Same(sum[n], g[n] * w[j])
    BY <2>5, <2>8
  <2> QED BY <2>9 DEF n, j
<1> HIDE DEF M
<1>12. M = Nat
  BY <1>10, <1>11, Counting DEF M
<1>13. Same(sum[L], g[L])
  <2>1. L \in M /\ L - L = 0 /\ L \in 0..L
    BY <1>0, <1>12
  <2>2. Same(sum[L], g[L] * w[L - L])
    BY <1>0, <2>1 DEF M
  <2>3. g[L] \in 0..96
    BY <1>3, <2>1
  <2>4. g[L] * w[L - L] = g[L]
    <3>1. w[L - L] = 1
      BY <1>4, <2>1
    <3> DEFINE G == g[L]
    <3>2. G \in 0..96
      BY <2>3
    <3> HIDE DEF G
    <3>3. G * 1 = G
      BY <3>2
    <3> QED BY <3>1, <3>3 DEF G
  <2> QED BY <2>2, <2>4
<1>14. sum[L] \in Int /\ g[L] \in 0..96 /\ Total(terms) = sum[L]
  <2>1. L \in 0..L
    BY <1>0
  <2> QED BY <1>3, <1>6, <1>7, <1>8, <2>1
<1> DEFINE T == sum[L]
           G == g[L]
<1> HIDE DEF T, G
<1>15. G = T % 97
  <2>1. T \in Int /\ G \in 0..96 /\ Same(T, G)
    BY <1>13, <1>14 DEF T, G
  <2>2. T % 97 \in 0..96 /\ Same(T % 97, T) /\ T % 97 \in Int /\ G \in Int
    BY <2>1, SameMod
  <2>3. Same(T % 97, G)
    BY <2>1, <2>2, SameTrans
  <2> QED BY <2>1, <2>2, <2>3, SameOnly
<1> QED BY <1>1, <1>2, <1>14, <1>15 DEF T, G

-----------------------------------------------------------------------------
(* Numbers that are wrong in a digit. *)

Mistyped(s, t) ==
  /\ t \in Seq(Nat) /\ Len(t) = Len(s)
  /\ \E i \in 1..Len(s) :
       /\ s[i] \in Digits /\ t[i] \in Digits /\ t[i] # s[i]
       /\ \A n \in 1..Len(s) : n # i => t[n] = s[n]

\* The digits a and b, beside each other in s, are exchanged in t.
Swapped(s, t, a, b) ==
  /\ t \in Seq(Nat) /\ Len(t) = Len(s) /\ a \in Digits /\ b \in Digits /\ a # b
  /\ \E i \in 1..Len(s) :
       /\ i + 1 \in 1..Len(s) /\ s[i] = a /\ s[i + 1] = b /\ t[i] = b /\ t[i + 1] = a
       /\ \A n \in 1..Len(s) : n # i /\ n # i + 1 => t[n] = s[n]

\* What is wrong in a digit is of the characters it was of.
LEMMA WrongTyped ==
  ASSUME NEW S, Digits \subseteq S, NEW s \in Seq(S), NEW t, NEW a, NEW b,
         Mistyped(s, t) \/ Swapped(s, t, a, b)
  PROVE  t \in Seq(S) /\ Len(t) = Len(s)
<1>1. t \in Seq(Nat) /\ Len(t) = Len(s)
  BY DEF Mistyped, Swapped
<1>2. \A n \in 1..Len(s) : s[n] \in S
  OBVIOUS
<1>3. \A n \in 1..Len(s) : t[n] \in S
  <2>1. CASE Mistyped(s, t)
    BY <1>2, <2>1 DEF Mistyped
  <2>2. CASE Swapped(s, t, a, b)
    BY <1>2, <2>2 DEF Swapped
  <2> QED BY <2>1, <2>2
<1>4. t \in [1..Len(t) -> S] /\ Len(t) \in Nat
  <2>1. t \in [1..Len(t) -> Nat] /\ Len(t) \in Nat
    BY <1>1
  <2> QED BY <1>1, <1>3, <2>1
<1> QED BY <1>1, <1>4

\* The sum of Luhn finds both.
LEMMA LuhnRefuses ==
  ASSUME NEW s \in Seq(Digits), LuhnSum(s, 1) % 10 = 0, NEW t, NEW a, NEW b,
         Mistyped(s, t) \/ (Swapped(s, t, a, b) /\ {a, b} # {0, 9})
  PROVE  t \in Seq(Digits) /\ Len(t) = Len(s) /\ LuhnSum(t, 1) % 10 # 0
<1>1. t \in Seq(Digits) /\ Len(t) = Len(s)
  BY WrongTyped
<1>2. LuhnSum(s, 1) \in Int /\ \E x \in Off : LuhnSum(t, 1) = LuhnSum(s, 1) + x
  <2>1. CASE Mistyped(s, t)
    <3>1. PICK i \in 1..Len(s) : t[i] # s[i] /\ \A n \in 1..Len(s) : n # i => t[n] = s[n]
      BY <2>1 DEF Mistyped
    <3> QED BY <1>1, <3>1, LuhnFindsDigit
  <2>2. CASE Swapped(s, t, a, b) /\ {a, b} # {0, 9}
    <3>1. PICK i \in 1..Len(s) :
            /\ i + 1 \in 1..Len(s) /\ t[i] = s[i + 1] /\ t[i + 1] = s[i] /\ s[i] # s[i + 1]
            /\ {s[i], s[i + 1]} # {0, 9}
            /\ \A n \in 1..Len(s) : n # i /\ n # i + 1 => t[n] = s[n]
      BY <2>2 DEF Swapped
    <3> QED BY <1>1, <3>1, LuhnFindsExchange
  <2> QED BY <2>1, <2>2
<1> QED BY <1>1, <1>2, OffTen

\* A number of digits, however it is laid out, is what the rules take.
LEMMA DigitsOf ==
  ASSUME NEW text, NEW s \in Seq(Digits), NEW place, NEW separators, Laid(text, s, place, separators),
         separators \subseteq {Space, Dot, Dash}
  PROVE  /\ Keep(text, Digits) = s /\ Within(text, Digits \union {Space, Dot, Dash})
         /\ Without(text, separators) = s
         /\ \A want : OnlyDigits(text, want) = IF Len(s) = want THEN s ELSE <<>>
<1>1. \A k \in 1..Len(s) : s[k] \in Digits
  OBVIOUS
<1>2. \A c \in separators : c \notin Digits
  BY DEF Digits, Space, Dot, Dash
<1>3. Keep(text, Digits) = s
  BY <1>1, <1>2, KeepIs
<1>4. Without(text, separators) = s
  <2>1. \A k \in 1..Len(s) : s[k] \in Nat \ separators
    <3>1. \A d \in Digits : d \in Nat
      BY DEF Digits
    <3> QED BY <1>1, <1>2, <3>1
  <2>2. \A c \in separators : c \notin Nat \ separators
    OBVIOUS
  <2>3. Keep(text, Nat \ separators) = s
    BY <2>1, <2>2, KeepIs
  <2> QED BY <2>3 DEF Without
<1>5. Within(text, Digits \union {Space, Dot, Dash})
  <2>1. DOMAIN text = 1..Len(text)
    BY DEF Laid
  <2>2. \A n \in 1..Len(text) : text[n] \in separators \/ \E k \in 1..Len(s) : place[k] = n /\ text[n] = s[k]
    BY DEF Laid
  <2> QED BY <1>1, <2>1, <2>2 DEF Within
<1>6. \A want : OnlyDigits(text, want) = IF Len(s) = want THEN s ELSE <<>>
  BY <1>3, <1>5 DEF OnlyDigits
<1> QED BY <1>3, <1>4, <1>5, <1>6

\* The check of a sum, by the sum.
LEMMA LuhnOf ==
  ASSUME NEW s \in Seq(Digits)
  PROVE  Luhn(s) <=> Len(s) # 0 /\ LuhnSum(s, 1) % 10 = 0
<1>1. Within(s, Digits)
  BY DEF Within
<1>2. s # <<>> <=> Len(s) # 0
  OBVIOUS
<1> QED BY <1>1, <1>2 DEF Luhn

\* A text with the separators of a card is read by its digits alone.
LEMMA CardOf ==
  ASSUME NEW text, NEW s \in Seq(Digits), NEW place, Laid(text, s, place, {Space, Dash})
  PROVE  LuhnCheck(text) <=> Len(s) \in 13..19 /\ LuhnSum(s, 1) % 10 = 0
<1>1. Without(text, {Space, Dash}) = s
  BY DigitsOf
<1>2. LuhnCheck(text) <=> Len(s) \in 13..19 /\ Luhn(s)
  BY <1>1 DEF LuhnCheck
<1>3. Len(s) \in 13..19 => Len(s) # 0
  <2>1. 0 \notin 13..19
    OBVIOUS
  <2> QED BY Zenon, <2>1
<1> QED BY <1>2, <1>3, LuhnOf

\* So is one of a company or of an establishment.
LEMMA SIRENOf ==
  ASSUME NEW text, NEW s \in Seq(Digits), NEW place, Laid(text, s, place, {Space, Dot})
  PROVE  /\ SIRENCheck(text) <=> Len(s) = 9 /\ LuhnSum(s, 1) % 10 = 0
         /\ SIRETCheck(text) <=> Len(s) = 14 /\ LuhnSum(s, 1) % 10 = 0
<1>1. /\ OnlyDigits(text, 9) = IF Len(s) = 9 THEN s ELSE <<>>
      /\ OnlyDigits(text, 14) = IF Len(s) = 14 THEN s ELSE <<>>
  BY DigitsOf
<1>2. ~Luhn(<<>>)
  BY DEF Luhn
<1>3. SIRENCheck(text) <=> Len(s) = 9 /\ Luhn(s)
  BY <1>1, <1>2 DEF SIRENCheck
<1>4. SIRETCheck(text) <=> Len(s) = 14 /\ Luhn(s)
  BY <1>1, <1>2 DEF SIRETCheck
<1>5. (Len(s) = 9 => Len(s) # 0) /\ (Len(s) = 14 => Len(s) # 0)
  <2>1. 0 # 9 /\ 0 # 14
    OBVIOUS
  <2> QED BY Zenon, <2>1
<1> QED BY <1>3, <1>4, <1>5, LuhnOf

\* So is one of a patient.
LEMMA NHSOf ==
  ASSUME NEW text, NEW s \in Seq(Digits), NEW place, Laid(text, s, place, {Space, Dash}), Len(s) = 10
  PROVE  NHSNumberCheck(text) <=> (NHSSum(s) + s[10]) % 11 = 0
<1>1. OnlyDigits(text, 10) = s
  BY DigitsOf
<1>2. s # <<>>
  <2>1. 0 # 10 /\ Len(<<>>) = 0
    OBVIOUS
  <2> QED BY Zenon, <2>1
<1>3. s[10] \in 0..9
  <2>1. 10 \in Nat /\ 10 \in 1..10
    OBVIOUS
  <2>2. \A i \in 1..10 : s[i] \in 0..9 /\ i \in DOMAIN s
    BY Zenon, <2>1, DigitsTyped
  <2> QED BY Zenon, <2>1, <2>2
<1>4. NHSSum(s) \in Int
  BY NHSSums
<1> DEFINE sum == NHSSum(s)
           x == s[10]
<1>5. NHSNumberCheck(text) <=> 11 - (sum % 11) # 10 /\ x = (IF 11 - (sum % 11) = 11 THEN 0 ELSE 11 - (sum % 11))
  BY <1>1, <1>2 DEF NHSNumberCheck
<1>6. sum \in Int /\ x \in 0..9
  BY <1>3, <1>4
<1> HIDE DEF sum, x
<1>7. NHSNumberCheck(text) <=> (sum + x) % 11 = 0
  BY <1>5, <1>6, NHSPasses
<1> QED BY <1>7 DEF sum, x

\* A patient's number with a slip is refused.
LEMMA NHSRefuses ==
  ASSUME NEW s \in Seq(Digits), Len(s) = 10, (NHSSum(s) + s[10]) % 11 = 0, NEW t, NEW a, NEW b,
         Mistyped(s, t) \/ Swapped(s, t, a, b)
  PROVE  t \in Seq(Digits) /\ Len(t) = 10 /\ (NHSSum(t) + t[10]) % 11 # 0
<1>1. t \in Seq(Digits) /\ Len(t) = 10 /\ Len(s) = 10
  BY WrongTyped
<1>2. /\ NHSSum(s) + s[10] \in Int
      /\ \E x \in Off, w \in 1..10 : NHSSum(t) + t[10] = (NHSSum(s) + s[10]) + x * w
  <2>1. CASE Mistyped(s, t)
    <3>1. PICK i \in 1..10 : t[i] # s[i] /\ \A n \in 1..10 : n # i => t[n] = s[n]
      BY <1>1, <2>1 DEF Mistyped
    <3> QED BY <1>1, <3>1, NHSFindsDigit
  <2>2. CASE Swapped(s, t, a, b)
    <3>1. PICK i \in 1..10 :
            /\ i + 1 \in 1..10 /\ t[i] = s[i + 1] /\ t[i + 1] = s[i] /\ s[i] # s[i + 1]
            /\ \A n \in 1..10 : n # i /\ n # i + 1 => t[n] = s[n]
      BY <1>1, <2>2 DEF Swapped
    <3>2. i \in 1..9
      BY <3>1
    <3> QED BY <1>1, <3>1, <3>2, NHSFindsExchange
  <2> QED BY <2>1, <2>2
<1> DEFINE sum == NHSSum(s) + s[10]
           other == NHSSum(t) + t[10]
<1>3. sum % 11 = 0 /\ sum \in Int /\ \E x \in Off, w \in 1..10 : other = sum + x * w
  BY <1>2
<1> HIDE DEF sum, other
<1>4. other % 11 # 0
  BY <1>3, OffEleven
<1> QED BY <1>1, <1>4 DEF other

-----------------------------------------------------------------------------
(* Routing numbers, and the numbers with no digit to check. *)

\* A sequence of digits, as a function.
LEMMA AsFunction ==
  ASSUME NEW n \in Nat, NEW s \in Seq(Digits), Len(s) = n
  PROVE  s \in [1..n -> 0..9]
BY DEF Digits

\* A routing number that is read has nine digits and the sum that passes.
LEMMA RoutingOf ==
  ASSUME NEW text, NEW s \in Seq(Digits), NEW place, Laid(text, s, place, {}), RoutingNumberCheck(text)
  PROVE  Len(s) = 9 /\ RoutingSum(s) % 10 = 0
<1>1. OnlyDigits(text, 9) = IF Len(s) = 9 THEN s ELSE <<>>
  <2>1. {} \subseteq {Space, Dot, Dash}
    OBVIOUS
  <2> QED BY <2>1, DigitsOf
<1>2. OnlyDigits(text, 9) # <<>>
  BY DEF RoutingNumberCheck
<1>3. Len(s) = 9 /\ OnlyDigits(text, 9) = s
  BY <1>1, <1>2
<1>4. RoutingSum(OnlyDigits(text, 9)) % 10 = 0
  BY Zenon DEF RoutingNumberCheck, RoutingSum
<1> QED BY Zenon, <1>3, <1>4

\* One with a wrong digit is refused.
LEMMA RoutingRefuses ==
  ASSUME NEW s \in Seq(Digits), Len(s) = 9, RoutingSum(s) % 10 = 0, NEW t, Mistyped(s, t),
         NEW text, NEW place, Laid(text, t, place, {})
  PROVE  ~RoutingNumberCheck(text)
<1>1. t \in Seq(Digits) /\ Len(t) = 9
  BY WrongTyped
<1>2. s \in [1..9 -> 0..9] /\ t \in [1..9 -> 0..9]
  <2>1. 9 \in Nat
    OBVIOUS
  <2> QED BY Zenon, <1>1, <2>1, AsFunction
<1>3. PICK i \in 1..9 : t[i] # s[i] /\ \A n \in 1..9 : n # i => t[n] = s[n]
  BY Zenon, <1>1 DEF Mistyped
<1>4. /\ RoutingSum(s) \in Int
      /\ \E x \in Off : RoutingSum(t) \in {RoutingSum(s) + x, RoutingSum(s) + 3 * x, RoutingSum(s) + 7 * x}
  BY Zenon, <1>2, <1>3, RoutingFindsDigit
<1> DEFINE sum == RoutingSum(s)
           other == RoutingSum(t)
<1>5. sum \in Int /\ sum % 10 = 0 /\ \E x \in Off : other \in {sum + x, sum + 3 * x, sum + 7 * x}
  BY <1>4
<1> HIDE DEF sum, other
<1>6. other % 10 # 0
  BY <1>5, OffTen
<1> QED BY Zenon, <1>1, <1>6, RoutingOf DEF other

\* A number of digits and capitals, however it is laid out.
LEMMA PlainOf ==
  ASSUME NEW text, NEW s \in Seq(Alphabet), NEW place, NEW separators, Laid(text, s, place, separators),
         separators \subseteq {Space, Dot, Dash}
  PROVE  Without(text, separators) = s /\ Capital(text) = text /\ ~Has(text, Small)
<1>1. \A k \in 1..Len(s) : s[k] \in Alphabet
  OBVIOUS
<1>2. Without(text, separators) = s
  <2>1. \A c \in separators : c \notin Alphabet
    BY DEF Alphabet, Space, Dot, Dash
  <2>2. \A k \in 1..Len(s) : s[k] \in Nat \ separators
    <3>1. \A d \in Alphabet : d \in Nat
      BY DEF Alphabet
    <3> QED BY <1>1, <2>1, <3>1
  <2>3. \A c \in separators : c \notin Nat \ separators
    OBVIOUS
  <2>4. Keep(text, Nat \ separators) = s
    BY <2>2, <2>3, KeepIs
  <2> QED BY <2>4 DEF Without
<1>3. text \in Seq(Nat) /\ DOMAIN text = 1..Len(text)
  BY DEF Laid
<1>4. \A n \in 1..Len(text) : text[n] \notin Small
  <2>1. \A n \in 1..Len(text) : text[n] \in separators \/ \E k \in 1..Len(s) : place[k] = n /\ text[n] = s[k]
    BY DEF Laid
  <2>2. \A c \in separators \union Alphabet : c \notin Small
    BY DEF Small, Alphabet, Space, Dot, Dash
  <2> QED BY <1>1, <2>1, <2>2
<1>5. Capital(text) = text
  <2>1. Capital(text) = [n \in 1..Len(text) |-> text[n]]
    BY <1>3, <1>4 DEF Capital
  <2>2. text = [n \in 1..Len(text) |-> text[n]]
    BY <1>3
  <2> QED BY <2>1, <2>2
<1> QED BY <1>2, <1>3, <1>4, <1>5 DEF Has

\* The separators of an insurance number are left out before it is read.
LEMMA NINOOf ==
  ASSUME NEW text, NEW s \in Seq(Alphabet), NEW place, Laid(text, s, place, {Space, Dash})
  PROVE  NINOCheck(text) <=> NINOCheck(s)
<1>1. {Space, Dash} \subseteq {Space, Dot, Dash}
  OBVIOUS
<1>2. Without(Capital(text), {Space, Dash}) = s
  BY <1>1, PlainOf
<1>3. Without(Capital(s), {Space, Dash}) = s
  <2>1. s \in Seq(Nat)
    BY DEF Laid
  <2>2. Laid(s, s, [k \in 1..Len(s) |-> k], {Space, Dash})
    BY <2>1, LaidBare
  <2> QED BY <1>1, <2>2, PlainOf
<1> QED BY Zenon, <1>2, <1>3 DEF NINOCheck

\* And those of a social security number.
LEMMA SSNOf ==
  ASSUME NEW text, NEW s \in Seq(Digits), NEW place, Laid(text, s, place, {Space, Dash})
  PROVE  SSNCheck(text) <=> SSNCheck(s)
<1>1. {Space, Dash} \subseteq {Space, Dot, Dash}
  OBVIOUS
<1>2. OnlyDigits(text, 9) = IF Len(s) = 9 THEN s ELSE <<>>
  BY <1>1, DigitsOf
<1>3. OnlyDigits(s, 9) = IF Len(s) = 9 THEN s ELSE <<>>
  <2>1. s \in Seq(Nat)
    BY DEF Laid
  <2>2. Laid(s, s, [k \in 1..Len(s) |-> k], {Space, Dash})
    BY <2>1, LaidBare
  <2> QED BY <1>1, <2>2, DigitsOf
<1> QED BY Zenon, <1>2, <1>3 DEF SSNCheck

-----------------------------------------------------------------------------
(* The numbers of the national register. *)

\* The first n of a sequence.
LEMMA Heads ==
  ASSUME NEW S, NEW s \in Seq(S), NEW n \in Nat, n <= Len(s)
  PROVE  /\ SubSeq(s, 1, n) \in Seq(S) /\ Len(SubSeq(s, 1, n)) = n
         /\ \A k \in 1..n : SubSeq(s, 1, n)[k] = s[k]
OBVIOUS

\* Where a digit is wrong, there was a digit.
LEMMA WrongDigits ==
  ASSUME NEW s, NEW t, NEW a, NEW b, Mistyped(s, t) \/ Swapped(s, t, a, b)
  PROVE  \A n \in 1..Len(s) : t[n] = s[n] \/ (s[n] \in Digits /\ t[n] \in Digits)
<1>1. CASE Mistyped(s, t)
  BY <1>1 DEF Mistyped
<1>2. CASE Swapped(s, t, a, b)
  BY <1>2 DEF Swapped
<1> QED BY <1>1, <1>2

\* A number of the register: fifteen digits, or a letter of Corsica for the seventh.
NIRShaped(s) ==
  /\ s \in Seq(Alphabet) /\ Len(s) = 15
  /\ \A i \in 1..15 : s[i] \in Digits \/ (i = 7 /\ s[i] \in {10, 11})

NIRDigits(s) == [i \in DOMAIN s |-> IF s[i] \in {10, 11} THEN 0 ELSE s[i]]
NIRHead(s) == SubSeq(NIRDigits(s), 1, 13)
Corsica(s) == IF Has(s, {11}) THEN 2 * Million ELSE IF Has(s, {10}) THEN Million ELSE 0
NIRBody(s) == (Mod97(NIRHead(s)) + 97 - (Corsica(s) % 97)) % 97
NIRRule(s) == 97 - NIRBody(s) = 10 * s[14] + s[15]

\* The letters are read as 0, and the key is the last two digits.
LEMMA NIRFacts ==
  ASSUME NEW s, NIRShaped(s)
  PROVE  /\ \A i \in 1..15 : NIRDigits(s)[i] = IF s[i] \in {10, 11} THEN 0 ELSE s[i]
         /\ NIRHead(s) \in Seq(Alphabet) /\ Len(NIRHead(s)) = 13
         /\ \A i \in 1..13 : /\ NIRHead(s)[i] = IF s[i] \in {10, 11} THEN 0 ELSE s[i]
                             /\ NIRHead(s)[i] \in 0..9
         /\ s[14] \in 0..9 /\ s[15] \in 0..9
         /\ NIRDigits(s)[14] = s[14] /\ NIRDigits(s)[15] = s[15]
         /\ Corsica(s) % 97 \in 0..96
<1>1. s \in Seq(Alphabet) /\ Len(s) = 15 /\ 15 \in Nat /\ 13 \in Nat /\ 13 <= 15
  BY DEF NIRShaped
<1>2. \A n \in Nat : Len(s) = n =>
        /\ DOMAIN s = 1..n /\ \A i \in 1..n : NIRDigits(s)[i] = IF s[i] \in {10, 11} THEN 0 ELSE s[i]
        /\ NIRDigits(s) \in Seq(Alphabet) /\ Len(NIRDigits(s)) = n
  <2> SUFFICES ASSUME NEW n \in Nat, Len(s) = n
               PROVE  /\ DOMAIN s = 1..n
                      /\ \A i \in 1..n : NIRDigits(s)[i] = IF s[i] \in {10, 11} THEN 0 ELSE s[i]
                      /\ NIRDigits(s) \in Seq(Alphabet) /\ Len(NIRDigits(s)) = n
    OBVIOUS
  <2>0. s \in Seq(Alphabet)
    BY DEF NIRShaped
  <2>1. DOMAIN s = 1..n /\ \A i \in 1..n : s[i] \in Alphabet
    BY <2>0
  <2>2. 0 \in Alphabet
    BY DEF Alphabet
  <2> DEFINE d == NIRDigits(s)
  <2>3. d = [i \in 1..n |-> IF s[i] \in {10, 11} THEN 0 ELSE s[i]]
    BY <2>1 DEF NIRDigits
  <2> HIDE DEF d
  <2>4. d \in [1..n -> Alphabet]
    BY <2>1, <2>2, <2>3
  <2>5. d \in Seq(Alphabet) /\ Len(d) = n
    BY <2>4
  <2> QED BY <2>1, <2>3, <2>5 DEF d
<1>3. /\ \A i \in 1..15 : NIRDigits(s)[i] = IF s[i] \in {10, 11} THEN 0 ELSE s[i]
      /\ NIRDigits(s) \in Seq(Alphabet) /\ Len(NIRDigits(s)) = 15
  BY Zenon, <1>1, <1>2
<1>4. /\ NIRHead(s) \in Seq(Alphabet) /\ Len(NIRHead(s)) = 13
      /\ \A i \in 1..13 : NIRHead(s)[i] = NIRDigits(s)[i]
  <2>1. 13 <= Len(NIRDigits(s))
    BY Zenon, <1>1, <1>3
  <2> QED BY Zenon, <1>1, <1>3, <2>1, Heads DEF NIRHead
<1>5. \A i \in 1..15 : s[i] \in 0..9 \/ (i = 7 /\ s[i] \in {10, 11})
  BY Zenon DEF NIRShaped, Digits
<1>6. \A i \in 1..13 : i \in 1..15
  OBVIOUS
<1>7. \A i \in 1..13 : /\ NIRHead(s)[i] = IF s[i] \in {10, 11} THEN 0 ELSE s[i]
                       /\ NIRHead(s)[i] \in 0..9
  <2> SUFFICES ASSUME NEW i \in 1..13
               PROVE  /\ NIRHead(s)[i] = IF s[i] \in {10, 11} THEN 0 ELSE s[i]
                      /\ NIRHead(s)[i] \in 0..9
    OBVIOUS
  <2>1. NIRHead(s)[i] = IF s[i] \in {10, 11} THEN 0 ELSE s[i]
    BY Zenon, <1>3, <1>4, <1>6
  <2>2. s[i] \in 0..9 \/ s[i] \in {10, 11}
    BY <1>5, <1>6
  <2>3. 0 \in 0..9
    OBVIOUS
  <2> QED BY <2>1, <2>2, <2>3
<1>8. /\ s[14] \in 0..9 /\ s[15] \in 0..9 /\ 14 \in 1..15 /\ 15 \in 1..15
      /\ s[14] \notin {10, 11} /\ s[15] \notin {10, 11}
  BY <1>5
<1>9. NIRDigits(s)[14] = s[14] /\ NIRDigits(s)[15] = s[15]
  BY Zenon, <1>3, <1>8
<1>10. Corsica(s) % 97 \in 0..96
  <2>1. Corsica(s) \in Int
    BY SMT DEF Corsica, Million
  <2> QED BY <2>1, SameMod
<1> QED BY <1>3, <1>4, <1>7, <1>8, <1>9, <1>10

\* A text with its separators is read by its characters alone, in these words.
LEMMA NIROf ==
  ASSUME NEW text, NEW s, NIRShaped(s), NEW place, Laid(text, s, place, {Space, Dot})
  PROVE  NIRCheck(text) <=> NIRRule(s)
<1>1. Without(text, {Space, Dot}) = s
  <2>1. {Space, Dot} \subseteq {Space, Dot, Dash} /\ s \in Seq(Alphabet)
    BY DEF NIRShaped
  <2> QED BY <2>1, PlainOf
<1>2. NIRCheck(text) <=>
        /\ Within(s, Digits \union {10, 11}) /\ Len(s) = 15
        /\ 97 - NIRBody(s) = 10 * NIRDigits(s)[14] + NIRDigits(s)[15]
  <2> DEFINE w == Without(text, {Space, Dot})
  <2>1. NIRCheck(text) <=>
          /\ Within(w, Digits \union {10, 11}) /\ Len(w) = 15
          /\ 97 - NIRBody(w) = 10 * NIRDigits(w)[14] + NIRDigits(w)[15]
    BY Zenon DEF NIRCheck, NIRBody, NIRHead, NIRDigits, Corsica
  <2> HIDE DEF w
  <2>2. w = s
    BY <1>1 DEF w
  <2> QED BY Zenon, <2>1, <2>2
<1>3. Within(s, Digits \union {10, 11}) /\ Len(s) = 15
  <2>1. DOMAIN s = 1..Len(s) /\ Len(s) = 15
    BY DEF NIRShaped
  <2>2. \A i \in 1..15 : s[i] \in Digits \union {10, 11}
    BY Zenon DEF NIRShaped
  <2> QED BY Zenon, <2>1, <2>2 DEF Within
<1>4. NIRDigits(s)[14] = s[14] /\ NIRDigits(s)[15] = s[15]
  BY NIRFacts
<1> QED BY Zenon, <1>2, <1>3, <1>4 DEF NIRRule

\* A wrong digit leaves the letter, and what is taken off for it, as it was.
LEMMA NIRWrong ==
  ASSUME NEW s, NIRShaped(s), NEW t, NEW a, NEW b, Mistyped(s, t) \/ Swapped(s, t, a, b)
  PROVE  NIRShaped(t) /\ Corsica(t) = Corsica(s)
<1>1. s \in Seq(Alphabet) /\ Len(s) = 15 /\ \A i \in 1..15 : s[i] \in Digits \/ (i = 7 /\ s[i] \in {10, 11})
  BY Zenon DEF NIRShaped
<1>2. Digits \subseteq Alphabet
  BY DEF Digits, Alphabet
<1>3. t \in Seq(Alphabet) /\ Len(t) = 15
  BY Zenon, <1>1, <1>2, WrongTyped
<1>4. \A n \in 1..15 : t[n] = s[n] \/ (s[n] \in Digits /\ t[n] \in Digits)
  BY Zenon, <1>1, WrongDigits
<1>5. NIRShaped(t)
  BY Zenon, <1>1, <1>3, <1>4 DEF NIRShaped
<1>6. DOMAIN s = 1..Len(s) /\ DOMAIN t = 1..Len(t)
  BY <1>1, <1>3
<1>7. 10 \notin Digits /\ 11 \notin Digits
  BY DEF Digits
<1>8. \A n \in 1..15 : (t[n] = 10 <=> s[n] = 10) /\ (t[n] = 11 <=> s[n] = 11)
  BY Zenon, <1>4, <1>7
<1>9. (Has(t, {10}) <=> Has(s, {10})) /\ (Has(t, {11}) <=> Has(s, {11}))
  <2>1. DOMAIN s = 1..15 /\ DOMAIN t = 1..15
    BY Zenon, <1>1, <1>3, <1>6
  <2>2. (Has(t, {10}) <=> \E n \in 1..15 : t[n] = 10) /\ (Has(s, {10}) <=> \E n \in 1..15 : s[n] = 10)
    BY <2>1 DEF Has
  <2>3. (Has(t, {11}) <=> \E n \in 1..15 : t[n] = 11) /\ (Has(s, {11}) <=> \E n \in 1..15 : s[n] = 11)
    BY <2>1 DEF Has
  <2> QED BY Zenon, <1>8, <2>2, <2>3
<1> QED BY <1>5, <1>9 DEF Corsica

\* The key of a body is its own.
LEMMA KeyApart ==
  ASSUME NEW m \in 0..96, NEW n \in 0..96, NEW c \in 0..96, m # n
  PROVE  (m + 97 - c) % 97 # (n + 97 - c) % 97
OBVIOUS

\* A number is its remainder and a multiple of 97.
LEMMA DividedBy97 ==
  ASSUME NEW a \in Int
  PROVE  a % 97 \in 0..96 /\ \E k \in Int : a = (a % 97) + 97 * k
<1>1. a \div 97 \in Int /\ a = (a % 97) + 97 * (a \div 97)
  OBVIOUS
<1> QED BY <1>1

\* The last of the body exchanged with the first of the key.
KeysExchanged(r, c, a, b, x) ==
  /\ r \in 0..96 /\ c \in 0..96 /\ a \in 0..9 /\ b \in 0..9 /\ x \in 0..9 /\ a # b
  /\ 97 - ((((r * 10 + a) % 97) + 97 - c) % 97) = 10 * b + x
  => 97 - ((((r * 10 + b) % 97) + 97 - c) % 97) # 10 * a + x

\* The key does not pass for the one of the other number.
LEMMA KeysExchange == \A r, c, a, b, x : KeysExchanged(r, c, a, b, x)
<1> SUFFICES ASSUME NEW r, NEW c, NEW a, NEW b, NEW x PROVE KeysExchanged(r, c, a, b, x)
  OBVIOUS
<1> SUFFICES ASSUME r \in 0..96, c \in 0..96, a \in 0..9, b \in 0..9, x \in 0..9, a # b,
                    97 - ((((r * 10 + a) % 97) + 97 - c) % 97) = 10 * b + x,
                    97 - ((((r * 10 + b) % 97) + 97 - c) % 97) = 10 * a + x
             PROVE  FALSE
  BY Zenon DEF KeysExchanged
<1> DEFINE m == (r * 10 + a) % 97
           n == (r * 10 + b) % 97
           u == (m + 97 - c) % 97
           v == (n + 97 - c) % 97
<1>1. 97 - u = 10 * b + x /\ 97 - v = 10 * a + x
  OBVIOUS
<1>2. m \in 0..96 /\ \E k \in Int : r * 10 + a = m + 97 * k
  <2> DEFINE z == r * 10 + a
  <2>1. z \in Int
    OBVIOUS
  <2> HIDE DEF z
  <2> QED BY <2>1, DividedBy97 DEF z
<1>3. n \in 0..96 /\ \E k \in Int : r * 10 + b = n + 97 * k
  <2> DEFINE z == r * 10 + b
  <2>1. z \in Int
    OBVIOUS
  <2> HIDE DEF z
  <2> QED BY <2>1, DividedBy97 DEF z
<1> HIDE DEF m, n
<1>4. u \in 0..96 /\ \E k \in Int : m + 97 - c = u + 97 * k
  <2> DEFINE z == m + 97 - c
  <2>1. z \in Int
    BY <1>2
  <2> HIDE DEF z
  <2> QED BY <2>1, DividedBy97 DEF z
<1>5. v \in 0..96 /\ \E k \in Int : n + 97 - c = v + 97 * k
  <2> DEFINE z == n + 97 - c
  <2>1. z \in Int
    BY <1>3
  <2> HIDE DEF z
  <2> QED BY <2>1, DividedBy97 DEF z
<1> HIDE DEF u, v
<1>6. PICK i \in Int : r * 10 + a = m + 97 * i
  BY <1>2
<1>7. PICK j \in Int : r * 10 + b = n + 97 * j
  BY <1>3
<1>8. PICK k \in Int : m + 97 - c = u + 97 * k
  BY <1>4
<1>9. PICK l \in Int : n + 97 - c = v + 97 * l
  BY <1>5
<1>10. 9 * (a - b) = 97 * ((j - i) + (l - k))
  BY <1>1, <1>2, <1>3, <1>4, <1>5, <1>6, <1>7, <1>8, <1>9
<1> QED BY <1>10

\* Two sequences of one length with the same members are one.
LEMMA Alike ==
  ASSUME NEW S, NEW n \in Nat, NEW u \in Seq(S), NEW v \in Seq(S), Len(u) = n, Len(v) = n,
         \A k \in 1..n : u[k] = v[k]
  PROVE  u = v
OBVIOUS

\* What the last digit adds.
LEMMA LastDigit ==
  ASSUME NEW n \in Nat, NEW u \in Seq(Alphabet), NEW v \in Seq(Alphabet),
         Len(u) = n + 1, Len(v) = n + 1, \A k \in 1..n : u[k] = v[k],
         u[n + 1] \in 0..9, v[n + 1] \in 0..9
  PROVE  \E r \in 0..96 : /\ Mod97(u) = (r * 10 + u[n + 1]) % 97
                          /\ Mod97(v) = (r * 10 + v[n + 1]) % 97
<1> DEFINE m == n + 1
<1>1. m \in Nat /\ m \in 1..m /\ m - 1 = n /\ n <= m /\ n \in 0..m /\ Len(u) = m /\ Len(v) = m
  OBVIOUS
<1>2. u[m] \in 0..9 /\ v[m] \in 0..9
  OBVIOUS
<1> HIDE DEF m
<1>3. PICK g : Rems(u, g) /\ Mod97(u) = g[m]
  BY <1>1, Mod97Unfolds
<1>4. PICK h : Rems(v, h) /\ Mod97(v) = h[m]
  BY <1>1, Mod97Unfolds
<1>5. g[n] = h[n]
  BY <1>1, <1>3, <1>4, RemsAlike
<1>6. g[n] \in 0..96
  BY <1>1, <1>3, RemsStep
<1>7. g[m] = (g[n] * Scale(u[m]) + u[m]) % 97
  <2>1. \A k \in 1..Len(u) : g[k] = (g[k - 1] * Scale(u[k]) + u[k]) % 97
    BY SMTT(60), <1>3, RemsStep
  <2> QED BY <1>1, <2>1
<1>8. h[m] = (h[n] * Scale(v[m]) + v[m]) % 97
  <2>1. \A k \in 1..Len(v) : h[k] = (h[k - 1] * Scale(v[k]) + v[k]) % 97
    BY SMTT(60), <1>4, RemsStep
  <2> QED BY <1>1, <2>1
<1>9. Scale(u[m]) = 10 /\ Scale(v[m]) = 10
  BY <1>2 DEF Scale, Digits
<1>10. /\ Mod97(u) = (g[n] * 10 + u[m]) % 97
       /\ Mod97(v) = (g[n] * 10 + v[m]) % 97
  BY Zenon, <1>3, <1>4, <1>5, <1>7, <1>8, <1>9
<1> QED BY Zenon, <1>6, <1>10 DEF m

\* Two digits that differ make different keys.
LEMMA KeyDigits ==
  ASSUME NEW a \in 0..9, NEW b \in 0..9, NEW c \in 0..9, NEW d \in 0..9, a # c \/ b # d
  PROVE  10 * a + b # 10 * c + d
OBVIOUS

\* A number of the register with a slip is refused.
LEMMA NIRRefuses ==
  ASSUME NEW s, NIRShaped(s), NIRRule(s), NEW t, NEW a, NEW b, Mistyped(s, t) \/ Swapped(s, t, a, b)
  PROVE  NIRShaped(t) /\ ~NIRRule(t)
<1>1. NIRShaped(t) /\ Corsica(t) = Corsica(s) /\ Len(s) = 15
  <2>1. Len(s) = 15
    BY Zenon DEF NIRShaped
  <2> QED BY Zenon, <2>1, NIRWrong
<1> SUFFICES ASSUME NIRRule(t) PROVE FALSE
  BY <1>1
<1> DEFINE u == NIRHead(s)
           v == NIRHead(t)
           m == Mod97(u)
           n == Mod97(v)
           c == Corsica(s) % 97
<1>2. /\ u \in Seq(Alphabet) /\ Len(u) = 13 /\ c \in 0..96
      /\ \A i \in 1..13 : u[i] = (IF s[i] \in {10, 11} THEN 0 ELSE s[i]) /\ u[i] \in 0..9
      /\ s[14] \in 0..9 /\ s[15] \in 0..9
  BY Zenon, NIRFacts
<1>3. /\ v \in Seq(Alphabet) /\ Len(v) = 13
      /\ \A i \in 1..13 : v[i] = (IF t[i] \in {10, 11} THEN 0 ELSE t[i]) /\ v[i] \in 0..9
      /\ t[14] \in 0..9 /\ t[15] \in 0..9
  BY Zenon, <1>1, NIRFacts
<1>4. 97 - ((m + 97 - c) % 97) = 10 * s[14] + s[15]
  BY Zenon DEF NIRRule, NIRBody
<1>5. 97 - ((n + 97 - c) % 97) = 10 * t[14] + t[15]
  BY Zenon, <1>1 DEF NIRRule, NIRBody
<1>6. m \in 0..96 /\ n \in 0..96
  BY Zenon, <1>2, <1>3, Mod97Typed
<1> HIDE DEF c
<1>7. ASSUME m # n PROVE s[14] # t[14] \/ s[15] # t[15]
  <2> SUFFICES ASSUME s[14] = t[14], s[15] = t[15] PROVE FALSE
    OBVIOUS
  <2>1. 97 - ((m + 97 - c) % 97) = 97 - ((n + 97 - c) % 97)
    BY Zenon, <1>4, <1>5
  <2> HIDE DEF m, n
  <2>2. (m + 97 - c) % 97 # (n + 97 - c) % 97
    BY ZenonT(60), <1>2, <1>6, <1>7, KeyApart
  <2> DEFINE x == (m + 97 - c) % 97
             y == (n + 97 - c) % 97
  <2>3. x \in 0..96 /\ y \in 0..96
    <3> DEFINE p == m + 97 - c
               q == n + 97 - c
    <3>1. p \in Int /\ q \in Int
      BY <1>2, <1>6
    <3> HIDE DEF p, q
    <3> QED BY <3>1, DividedBy97 DEF p, q
  <2> HIDE DEF x, y
  <2>4. x = y
    BY <2>1, <2>3 DEF x, y
  <2> QED BY <2>2, <2>4 DEF x, y
<1>8. ASSUME m = n PROVE s[14] = t[14] /\ s[15] = t[15]
  <2> DEFINE w == s[14]
             x == s[15]
             y == t[14]
             z == t[15]
  <2>1. 97 - ((n + 97 - c) % 97) = 10 * w + x
    BY Zenon, <1>4, <1>8
  <2>2. 97 - ((n + 97 - c) % 97) = 10 * y + z
    BY <1>5
  <2>3. w \in 0..9 /\ x \in 0..9 /\ y \in 0..9 /\ z \in 0..9
    BY Zenon, <1>2, <1>3
  <2> HIDE DEF w, x, y, z
  <2>4. 10 * w + x = 10 * y + z
    BY Zenon, <2>1, <2>2
  <2>5. w = y /\ x = z
    BY <2>3, <2>4
  <2> QED BY <2>5 DEF w, x, y, z
<1>9. ASSUME \A i \in 1..13 : u[i] = v[i] PROVE m = n
  <2>1. 13 \in Nat
    OBVIOUS
  <2>2. u = v
    BY ZenonT(60), <1>2, <1>3, <1>9, <2>1, Alike
  <2> QED BY Zenon, <2>2
<1>10. \A d \in Digits : d \notin {10, 11} /\ d \in 0..9
  BY DEF Digits
<1>11. \A i \in 1..13 : i \in 1..15
  OBVIOUS
<1>12. 14 \in 1..15 /\ 15 \in 1..15 /\ 14 \notin 1..13 /\ 15 \notin 1..13
  OBVIOUS
<1>13. \A i \in 1..15 : i \in 1..13 \/ i = 14 \/ i = 15
  OBVIOUS
<1>14. CASE Mistyped(s, t)
  <2>1. PICK i \in 1..15 : /\ s[i] \in Digits /\ t[i] \in Digits /\ t[i] # s[i]
                           /\ \A k \in 1..15 : k # i => t[k] = s[k]
    BY Zenon, <1>1, <1>14 DEF Mistyped
  <2>2. CASE i \in 1..13
    <3>1. \A k \in 1..13 : k # i => u[k] = v[k]
      BY Zenon, <1>2, <1>3, <1>11, <2>1
    <3>2. u[i] = s[i] /\ v[i] = t[i]
      BY Zenon, <1>2, <1>3, <1>10, <2>1, <2>2
    <3>3. u[i] \in 0..9 /\ v[i] \in 0..9 /\ u[i] # v[i]
      BY Zenon, <1>2, <1>3, <2>1, <2>2, <3>2
    <3> HIDE DEF u, v
    <3>4. /\ Len(v) = Len(u) /\ i \in 1..Len(u)
          /\ \A k \in 1..Len(u) : k # i => u[k] = v[k]
      BY Zenon, <1>2, <1>3, <2>2, <3>1
    <3>6. m # n
      <4>1. u \in Seq(Alphabet) /\ v \in Seq(Alphabet)
        BY <1>2, <1>3
      <4> QED BY <3>3, <3>4, <4>1, Mod97FindsDigit
    <3>5. s[14] = t[14] /\ s[15] = t[15]
      BY Zenon, <1>12, <2>1, <2>2
    <3> QED BY Zenon, <1>7, <3>5, <3>6
  <2>3. CASE i = 14 \/ i = 15
    <3>1. \A k \in 1..13 : u[k] = v[k]
      BY ZenonT(60), <1>2, <1>3, <1>11, <1>12, <2>1, <2>3
    <3> QED BY Zenon, <1>8, <1>9, <2>1, <2>3, <3>1
  <2> QED BY Zenon, <1>13, <2>2, <2>3
<1>15. CASE Swapped(s, t, a, b)
  <2>1. PICK i \in 1..15 :
          /\ i + 1 \in 1..15 /\ s[i] = a /\ s[i + 1] = b /\ t[i] = b /\ t[i + 1] = a
          /\ \A k \in 1..15 : k # i /\ k # i + 1 => t[k] = s[k]
    BY Zenon, <1>1, <1>15 DEF Swapped
  <2>2. a \in Digits /\ b \in Digits /\ a # b
    BY Zenon, <1>15 DEF Swapped
  <2>3. a \in 0..9 /\ b \in 0..9 /\ a \notin {10, 11} /\ b \notin {10, 11}
    BY Zenon, <1>10, <2>2
  <2>4. (i \in 1..13 /\ i + 1 \in 1..13) \/ (i = 13 /\ i + 1 = 14) \/ (i = 14 /\ i + 1 = 15)
    BY <2>1
  <2>5. CASE i \in 1..13 /\ i + 1 \in 1..13
    <3> DEFINE j == i + 1
    <3>1. /\ j \in 1..13 /\ s[j] = b /\ t[j] = a
          /\ \A k \in 1..15 : k # i /\ k # j => t[k] = s[k]
      BY Zenon, <2>1, <2>5
    <3>2. u[i] = a /\ v[i] = b /\ u[i + 1] = b /\ v[i + 1] = a
      BY Zenon, <1>2, <1>3, <2>1, <2>3, <2>5
    <3>3. \A k \in 1..13 : k # i /\ k # i + 1 => u[k] = v[k]
      BY Zenon, <1>2, <1>3, <1>11, <2>1
    <3> HIDE DEF u, v
    <3>4. /\ Len(v) = Len(u) /\ i \in 1..Len(u) /\ i + 1 \in 1..Len(u)
          /\ \A k \in 1..Len(u) : k # i /\ k # i + 1 => u[k] = v[k]
      BY Zenon, <1>2, <1>3, <2>5, <3>3
    <3>6. /\ u[i] \in 0..9 /\ u[i + 1] \in 0..9 /\ v[i] = u[i + 1] /\ v[i + 1] = u[i]
          /\ u[i] # u[i + 1]
      BY Zenon, <2>2, <2>3, <3>2
    <3>7. m # n
      <4>1. u \in Seq(Alphabet) /\ v \in Seq(Alphabet)
        BY <1>2, <1>3
      <4> QED BY <3>4, <3>6, <4>1, Mod97FindsExchange
    <3>5. s[14] = t[14] /\ s[15] = t[15]
      BY Zenon, <1>12, <2>1, <2>5
    <3> QED BY Zenon, <1>7, <3>5, <3>7
  <2>6. CASE i = 13 /\ i + 1 = 14
    <3>1. s[13] = a /\ t[13] = b /\ s[14] = b /\ t[14] = a
      BY Zenon, <2>1, <2>6
    <3>2. 13 \in 1..13 /\ 12 \in Nat /\ 13 = 12 + 1 /\ 15 # 13 /\ 15 # 14
          /\ \A k \in 1..12 : k \in 1..13 /\ k \in 1..15 /\ k # 13 /\ k # 14
      OBVIOUS
    <3>3. u[13] = a /\ v[13] = b /\ \A k \in 1..12 : u[k] = v[k]
      BY ZenonT(60), <1>2, <1>3, <2>1, <2>3, <2>6, <3>1, <3>2
    <3>4. PICK r \in 0..96 : m = (r * 10 + a) % 97 /\ n = (r * 10 + b) % 97
      <4> DEFINE l == 12
      <4>1. /\ l \in Nat /\ Len(u) = l + 1 /\ Len(v) = l + 1 /\ u[l + 1] = a /\ v[l + 1] = b
            /\ \A k \in 1..l : u[k] = v[k]
        BY Zenon, <1>2, <1>3, <3>2, <3>3
      <4> HIDE DEF l, u, v
      <4>2. \E r \in 0..96 : Mod97(u) = (r * 10 + u[l + 1]) % 97 /\ Mod97(v) = (r * 10 + v[l + 1]) % 97
        BY ZenonT(60), <1>2, <1>3, <2>3, <4>1, LastDigit
      <4> QED BY Zenon, <4>1, <4>2
    <3>5. t[15] = s[15]
      BY Zenon, <1>12, <2>1, <2>6, <3>2
    <3>6. 97 - ((((r * 10 + a) % 97) + 97 - c) % 97) = 10 * b + s[15]
      BY Zenon, <1>4, <3>1, <3>4
    <3>7. 97 - ((((r * 10 + b) % 97) + 97 - c) % 97) = 10 * a + s[15]
      BY Zenon, <1>5, <3>1, <3>4, <3>5
    <3> DEFINE x == s[15]
    <3>8. x \in 0..9 /\ c \in 0..96
      BY Zenon, <1>2
    <3>9. /\ 97 - ((((r * 10 + a) % 97) + 97 - c) % 97) = 10 * b + x
          /\ 97 - ((((r * 10 + b) % 97) + 97 - c) % 97) = 10 * a + x
      BY <3>6, <3>7
    <3> HIDE DEF x
    <3>10. KeysExchanged(r, c, a, b, x)
      BY KeysExchange
    <3> QED BY Zenon, <2>2, <2>3, <3>8, <3>9, <3>10 DEF KeysExchanged
  <2>7. CASE i = 14 /\ i + 1 = 15
    <3>1. \A k \in 1..13 : u[k] = v[k]
      BY ZenonT(60), <1>2, <1>3, <1>11, <1>12, <2>1, <2>7
    <3>2. s[14] # t[14]
      BY Zenon, <2>1, <2>2, <2>7
    <3> QED BY Zenon, <1>8, <1>9, <3>1, <3>2
  <2> QED BY Zenon, <2>4, <2>5, <2>6, <2>7
<1> QED BY Zenon, <1>14, <1>15

\* What two sequences joined are.
Joined(S, s, t) ==
  s \in Seq(S) /\ t \in Seq(S)
  => /\ s \o t \in Seq(S) /\ Len(s \o t) = Len(s) + Len(t) /\ DOMAIN (s \o t) = 1..(Len(s) + Len(t))
     /\ \A i \in 1..Len(s) : (s \o t)[i] = s[i]
     /\ \A i \in 1..Len(t) : (s \o t)[Len(s) + i] = t[i]

\* It is so.
LEMMA Joins == \A S, s, t : Joined(S, s, t)
BY DEF Joined

\* What a digit of a counter is.
LEMMA LastFigure ==
  ASSUME NEW n \in Nat, NEW d \in Nat, d # 0
  PROVE  (n \div d) % 10 \in 0..9
<1>1. n \div d \in Int
  OBVIOUS
<1> DEFINE q == n \div d
<1> HIDE DEF q
<1>2. q % 10 \in 0..9
  BY <1>1 DEF q
<1> QED BY <1>2 DEF q

\* A number padded is written in digits.
LEMMA PaddedTyped ==
  ASSUME NEW n \in Nat, NEW width \in Nat
  PROVE  Padded(n, width) \in Seq(Digits) /\ Len(Padded(n, width)) = width
<1>1. \A j \in 1..10 : Tens[j] \in Nat /\ Tens[j] # 0
  BY SMT DEF Tens
<1>2. \A k \in 1..width : ~(width - k > 9) => (width - k) + 1 \in 1..10
  OBVIOUS
<1>3. \A k \in 1..width : (IF width - k > 9 THEN 0 ELSE (n \div Tens[width - k + 1]) % 10) \in Digits
  <2> SUFFICES ASSUME NEW k \in 1..width
               PROVE  (IF width - k > 9 THEN 0 ELSE (n \div Tens[width - k + 1]) % 10) \in Digits
    OBVIOUS
  <2>1. CASE width - k > 9
    BY <2>1 DEF Digits
  <2>2. CASE ~(width - k > 9)
    <3> DEFINE j == width - k + 1
    <3>1. j \in 1..10
      BY <1>2, <2>2
    <3> HIDE DEF j
    <3> DEFINE d == Tens[j]
    <3>2. d \in Nat /\ d # 0
      BY <1>1, <3>1
    <3> HIDE DEF d
    <3>3. (n \div d) % 10 \in 0..9
      BY <3>2, LastFigure
    <3> QED BY <2>2, <3>3 DEF d, j, Digits
  <2> QED BY <2>1, <2>2
<1> DEFINE p == Padded(n, width)
<1>4. p = [k \in 1..width |-> IF width - k > 9 THEN 0 ELSE (n \div Tens[width - k + 1]) % 10]
  BY DEF Padded
<1> HIDE DEF p
<1>5. p \in [1..width -> Digits]
  BY <1>3, <1>4
<1>6. p \in Seq(Digits) /\ Len(p) = width
  BY <1>5
<1> QED BY <1>6 DEF p

\* A key in two digits is the number they spell.
LEMMA PaddedTwo ==
  ASSUME NEW n \in 0..99
  PROVE  /\ Padded(n, 2) \in Seq(Digits) /\ Len(Padded(n, 2)) = 2
         /\ 10 * Padded(n, 2)[1] + Padded(n, 2)[2] = n
<1>1. n \in Nat /\ 2 \in Nat /\ 1 \in 1..2 /\ 2 \in 1..2 /\ ~(2 - 1 > 9) /\ ~(2 - 2 > 9)
      /\ 2 - 1 + 1 = 2 /\ 2 - 2 + 1 = 1
  OBVIOUS
<1>2. Padded(n, 2) \in Seq(Digits) /\ Len(Padded(n, 2)) = 2
  BY Zenon, <1>1, PaddedTyped
<1>3. Tens[1] = 1 /\ Tens[2] = 10
  BY SMT DEF Tens
<1>4. Padded(n, 2)[1] = (n \div 10) % 10 /\ Padded(n, 2)[2] = (n \div 1) % 10
  <2>1. \A k \in 1..2 : Padded(n, 2)[k] = IF 2 - k > 9 THEN 0 ELSE (n \div Tens[2 - k + 1]) % 10
    BY DEF Padded
  <2>2. Padded(n, 2)[1] = IF 2 - 1 > 9 THEN 0 ELSE (n \div Tens[2 - 1 + 1]) % 10
    BY Zenon, <1>1, <2>1
  <2>3. Padded(n, 2)[2] = IF 2 - 2 > 9 THEN 0 ELSE (n \div Tens[2 - 2 + 1]) % 10
    BY Zenon, <1>1, <2>1
  <2> QED BY Zenon, <1>1, <1>3, <2>2, <2>3
<1>5. 10 * ((n \div 10) % 10) + ((n \div 1) % 10) = n
  OBVIOUS
<1> QED BY Zenon, <1>2, <1>4, <1>5

\* A digit more, when the numbers before it are apart by e.
TenOn(r, q, e, c, d) ==
  /\ r \in Int /\ q \in Int /\ e \in Int /\ c \in Int /\ d \in Int /\ Same(q, r + e)
  => Same((q * 10 + d) % 97, ((r * 10 + c) % 97) + (e * 10 + (d - c)))

\* They are apart by ten times as much, and by what the digits are.
LEMMA TensOn == \A r, q, e, c, d : TenOn(r, q, e, c, d)
<1> SUFFICES ASSUME NEW r, NEW q, NEW e, NEW c, NEW d PROVE TenOn(r, q, e, c, d)
  OBVIOUS
<1> SUFFICES ASSUME r \in Int, q \in Int, e \in Int, c \in Int, d \in Int, Same(q, r + e)
             PROVE  Same((q * 10 + d) % 97, ((r * 10 + c) % 97) + (e * 10 + (d - c)))
  BY Zenon DEF TenOn
<1> DEFINE x == q * 10 + d
           y == r * 10 + c
           f == e * 10 + (d - c)
           z == (r + e) * 10
           p == q * 10
<1>1. x \in Int /\ y \in Int /\ f \in Int /\ z \in Int /\ r + e \in Int /\ p \in Int
  OBVIOUS
<1>2. z + d = y + f /\ x = p + d
  OBVIOUS
<1>3. Same(p, z)
  <2>1. 10 \in Int
    OBVIOUS
  <2> QED BY <1>1, <2>1, SameTimes
<1> HIDE DEF x, y, f, z, p
<1>4. Same(x, y + f)
  <2>1. Same(d, d)
    BY SameRefl
  <2>2. Same(p + d, z + d)
    BY <1>1, <1>3, <2>1, SamePlus
  <2> QED BY <1>2, <2>2
<1>5. x % 97 \in 0..96 /\ y % 97 \in 0..96 /\ Same(x % 97, x) /\ Same(y, y % 97)
  BY <1>1, SameMod
<1> DEFINE u == x % 97
           v == y % 97
<1>6. u \in Int /\ v \in Int /\ Same(u, x) /\ Same(y, v)
  BY <1>5
<1> HIDE DEF u, v
<1>7. Same(y + f, v + f)
  <2>1. Same(f, f)
    BY <1>1, SameRefl
  <2> QED BY <1>1, <1>6, <2>1, SamePlus
<1>8. Same(u, v + f)
  <2>1. y + f \in Int /\ v + f \in Int
    BY <1>1, <1>6
  <2>2. Same(x, v + f)
    BY <1>1, <1>4, <1>7, <2>1, SameTrans
  <2> QED BY <1>1, <1>6, <2>1, <2>2, SameTrans
<1> QED BY <1>8 DEF u, v, x, y, f

\* The same, of the remainders of two texts with digits at a place.
LEMMA RemsOn ==
  ASSUME NEW t \in Seq(Alphabet), NEW u \in Seq(Alphabet), NEW g, NEW h, Rems(t, g), Rems(u, h),
         NEW n \in 1..Len(t), n \in 1..Len(u), t[n] \in 0..9, u[n] \in 0..9, NEW p, n - 1 = p,
         g[p] \in Int, h[p] \in Int, NEW e \in Int, Same(h[p], g[p] + e)
  PROVE  Same(h[n], g[n] + (e * 10 + (u[n] - t[n])))
<1>1. g[n] = (g[p] * 10 + t[n]) % 97 /\ h[n] = (h[p] * 10 + u[n]) % 97
  <2>1. g[n] = (g[p] * Scale(t[n]) + t[n]) % 97
    BY Zenon DEF Rems
  <2>2. h[n] = (h[p] * Scale(u[n]) + u[n]) % 97
    BY Zenon DEF Rems
  <2>3. Scale(t[n]) = 10 /\ Scale(u[n]) = 10
    BY Zenon DEF Scale, Digits
  <2> QED BY Zenon, <2>1, <2>2, <2>3
<1>2. TenOn(g[p], h[p], e, t[n], u[n])
  BY TensOn
<1>3. t[n] \in Int /\ u[n] \in Int
  <2>1. \A x \in 0..9 : x \in Int
    BY SMTT(60)
  <2> QED BY Zenon, <2>1
<1> QED BY Zenon, <1>1, <1>2, <1>3 DEF TenOn

\* What is taken off for Corsica.
LEMMA TakenOff ==
  ASSUME NEW m \in 0..96, NEW w \in 0..96, NEW c \in Int, Same(w, m + (-c))
  PROVE  (m + 97 - (c % 97)) % 97 = w
<1> DEFINE d == c % 97
           x == m + 97 - d
<1>1. d \in 0..96 /\ Same(d, c) /\ Same(c, d)
  BY SameMod
<1> HIDE DEF d
<1>2. x \in Int /\ d \in Int /\ m + 97 \in Int /\ m \in Int /\ w \in Int /\ m - c \in Int /\ m + (-c) = m - c
  BY <1>1
<1>3. Same(m + 97, m)
  <2>1. m + 97 = m + 97 * 1
    OBVIOUS
  <2> QED BY <2>1 DEF Same
<1>4. Same(x, m - c)
  BY <1>1, <1>2, <1>3, SamePlus
<1> HIDE DEF x
<1>5. x % 97 \in 0..96 /\ Same(x % 97, x)
  BY <1>2, SameMod
<1> DEFINE y == x % 97
<1>6. y \in Int /\ y \in 0..96 /\ Same(y, x)
  BY <1>5
<1> HIDE DEF y
<1>7. Same(y, m - c)
  BY <1>2, <1>4, <1>6, SameTrans
<1>8. Same(m - c, w)
  BY <1>2, SameSym
<1>9. Same(y, w)
  BY <1>2, <1>6, <1>7, <1>8, SameTrans
<1> QED BY <1>6, <1>9, SameOnly DEF y, x, d

\* Six digits further is a million times.
LEMMA MillionIs ==
  ASSUME NEW e \in Int
  PROVE  (((((e * 10) * 10) * 10) * 10) * 10) * 10 = e * Million
BY SMT DEF Million

\* Six digits more are a million times as much.
LEMMA RemsSix ==
  ASSUME NEW t \in Seq(Alphabet), NEW u \in Seq(Alphabet), NEW g, NEW h, Rems(t, g), Rems(u, h),
         Len(t) = 13, Len(u) = 13, \A n \in 8..13 : t[n] = u[n] /\ t[n] \in 0..9,
         NEW e \in Int, Same(h[7], g[7] + e)
  PROVE  Same(h[13], g[13] + e * Million)
<1>1. \A n \in 0..13 : g[n] \in Int /\ h[n] \in Int
  <2>1. \A n \in 0..13 : g[n] \in 0..96
    <3>1. \A n \in 0..Len(t) : g[n] \in 0..96
      BY ZenonT(60), RemsStep
    <3> QED BY Zenon, <3>1
  <2>2. \A n \in 0..13 : h[n] \in 0..96
    <3>1. \A n \in 0..Len(u) : h[n] \in 0..96
      BY ZenonT(60), RemsStep
    <3> QED BY Zenon, <3>1
  <2>3. \A x \in 0..96 : x \in Int
    OBVIOUS
  <2> QED BY Zenon, <2>1, <2>2, <2>3
<1>2. ASSUME NEW n \in 8..13, NEW p \in 0..13, n - 1 = p, NEW f \in Int, Same(h[p], g[p] + f)
      PROVE  f * 10 \in Int /\ Same(h[n], g[n] + f * 10)
  <2>1. n \in 1..Len(t) /\ n \in 1..Len(u) /\ t[n] \in 0..9 /\ u[n] \in 0..9 /\ u[n] = t[n]
    <3>1. n \in 1..13
      OBVIOUS
    <3> QED BY Zenon, <3>1
  <2>2. Same(h[n], g[n] + (f * 10 + (u[n] - t[n])))
    BY Zenon, <1>1, <1>2, <2>1, RemsOn
  <2> DEFINE c == t[n]
  <2>3. c \in 0..9 /\ u[n] - t[n] = c - c
    BY Zenon, <2>1
  <2> HIDE DEF c
  <2>4. f * 10 \in Int /\ f * 10 + (c - c) = f * 10
    BY <2>3
  <2> QED BY Zenon, <2>2, <2>3, <2>4
<1> DEFINE e8 == e * 10
           e9 == e8 * 10
           e10 == e9 * 10
           e11 == e10 * 10
           e12 == e11 * 10
           e13 == e12 * 10
<1>3. /\ e8 \in Int /\ e9 \in Int /\ e10 \in Int /\ e11 \in Int /\ e12 \in Int /\ e13 \in Int
  BY SMT
<1>4. /\ 8 \in 8..13 /\ 9 \in 8..13 /\ 10 \in 8..13 /\ 11 \in 8..13 /\ 12 \in 8..13 /\ 13 \in 8..13
      /\ 7 \in 0..13 /\ 8 \in 0..13 /\ 9 \in 0..13 /\ 10 \in 0..13 /\ 11 \in 0..13 /\ 12 \in 0..13
      /\ 8 - 1 = 7 /\ 9 - 1 = 8 /\ 10 - 1 = 9 /\ 11 - 1 = 10 /\ 12 - 1 = 11 /\ 13 - 1 = 12
  OBVIOUS
<1>5. Same(h[8], g[8] + e8)
  BY Zenon, <1>2, <1>4
<1> HIDE DEF e8
<1>6. Same(h[9], g[9] + e9)
  BY Zenon, <1>2, <1>3, <1>4, <1>5
<1> HIDE DEF e9
<1>7. Same(h[10], g[10] + e10)
  BY Zenon, <1>2, <1>3, <1>4, <1>6
<1> HIDE DEF e10
<1>8. Same(h[11], g[11] + e11)
  BY Zenon, <1>2, <1>3, <1>4, <1>7
<1> HIDE DEF e11
<1>9. Same(h[12], g[12] + e12)
  BY Zenon, <1>2, <1>3, <1>4, <1>8
<1> HIDE DEF e12
<1>10. Same(h[13], g[13] + e13)
  BY Zenon, <1>2, <1>3, <1>4, <1>9
<1>11. e13 = e * Million
  BY Zenon, MillionIs DEF e13, e12, e11, e10, e9, e8
<1> QED BY Zenon, <1>10, <1>11

\* What a body of thirteen is: digits, and Corsica's letter after a 2.
NIRBodied(body) ==
  /\ body \in Seq(Alphabet) /\ Len(body) = 13
  /\ \A i \in 1..13 : body[i] \in Digits \/ (i = 7 /\ body[6] = 2 /\ body[7] \in {10, 11})

NIRSpelt(body) ==
  [i \in 1..13 |-> IF i = 6 /\ body[7] \in {10, 11} THEN 1
                   ELSE IF i = 7 /\ body[7] = 10 THEN 9
                   ELSE IF i = 7 /\ body[7] = 11 THEN 8 ELSE body[i]]

\* A body and two digits.
LEMMA NIRJoined ==
  ASSUME NEW body, NIRBodied(body), NEW p \in Seq(Digits), Len(p) = 2
  PROVE  LET s == body \o p
         IN  /\ NIRShaped(s) /\ \A i \in 1..13 : s[i] = body[i]
             /\ s[14] = p[1] /\ s[15] = p[2]
             /\ Has(s, {10}) <=> body[7] = 10
             /\ Has(s, {11}) <=> body[7] = 11
<1> DEFINE s == body \o p
<1>1. body \in Seq(Alphabet) /\ Len(body) = 13 /\ 13 \in Nat /\ 2 \in Nat
      /\ 13 + 2 = 15 /\ 13 + 1 = 14 /\ 1 \in 1..2 /\ 2 \in 1..2
  BY DEF NIRBodied
<1>2. p \in Seq(Alphabet) /\ Digits \subseteq Alphabet
  <2>1. Digits \subseteq Alphabet
    BY DEF Digits, Alphabet
  <2> QED BY <2>1
<1>3. /\ s \in Seq(Alphabet) /\ Len(s) = 15 /\ \A i \in 1..13 : s[i] = body[i]
      /\ s[14] = p[1] /\ s[15] = p[2]
  <2>1. /\ s \in Seq(Alphabet) /\ Len(s) = 13 + 2 /\ \A i \in 1..13 : s[i] = body[i]
        /\ \A i \in 1..2 : s[13 + i] = p[i]
    <3>1. Joined(Alphabet, body, p)
      BY Joins
    <3> QED BY Zenon, <1>1, <1>2, <3>1 DEF Joined
  <2> QED BY Zenon, <1>1, <2>1
<1> HIDE DEF s
<1>4. p[1] \in Digits /\ p[2] \in Digits
  <2>1. \A n \in Nat : Len(p) = n => \A i \in 1..n : p[i] \in Digits
    OBVIOUS
  <2> QED BY Zenon, <1>1, <2>1
<1>5. \A i \in 1..13 : body[i] \in Digits \/ (i = 7 /\ body[7] \in {10, 11})
  BY Zenon DEF NIRBodied
<1>6. \A i \in 1..15 : i \in 1..13 \/ i = 14 \/ i = 15
  OBVIOUS
<1>7. \A i \in 1..15 : s[i] \in Digits \/ (i = 7 /\ s[i] \in {10, 11})
  BY Zenon, <1>3, <1>4, <1>5, <1>6
<1>8. NIRShaped(s)
  BY Zenon, <1>3, <1>7 DEF NIRShaped
<1>9. 10 \notin Digits /\ 11 \notin Digits /\ 7 \in 1..13 /\ 7 \in 1..15
  BY DEF Digits
<1>10. DOMAIN s = 1..15
  <2>1. DOMAIN s = 1..Len(s)
    BY <1>3
  <2> QED BY Zenon, <1>3, <2>1
<1>11. Has(s, {10}) <=> body[7] = 10
  <2>1. Has(s, {10}) <=> \E i \in 1..15 : s[i] = 10
    BY <1>10 DEF Has
  <2> QED BY Zenon, <1>3, <1>7, <1>9, <2>1
<1>12. Has(s, {11}) <=> body[7] = 11
  <2>1. Has(s, {11}) <=> \E i \in 1..15 : s[i] = 11
    BY <1>10 DEF Has
  <2> QED BY Zenon, <1>3, <1>7, <1>9, <2>1
<1> QED BY Zenon, <1>3, <1>8, <1>11, <1>12 DEF s

\* The rule for a body with two digits.
LEMMA NIRJoinedRule ==
  ASSUME NEW body, NIRBodied(body), NEW key \in 0..99
  PROVE  /\ NIRShaped(body \o Padded(key, 2))
         /\ NIRRule(body \o Padded(key, 2)) <=> 97 - NIRBody(body \o Padded(key, 2)) = key
<1> DEFINE p == Padded(key, 2)
           s == body \o p
<1>1. p \in Seq(Digits) /\ Len(p) = 2 /\ 10 * p[1] + p[2] = key
  BY PaddedTwo
<1> HIDE DEF p
<1>2. NIRShaped(s) /\ s[14] = p[1] /\ s[15] = p[2]
  BY Zenon, <1>1, NIRJoined
<1>3. NIRRule(s) <=> 97 - NIRBody(s) = key
  BY Zenon, <1>1, <1>2 DEF NIRRule
<1> QED BY Zenon, <1>2, <1>3 DEF s, p

\* The number as the key reads it, less what is taken off.
LEMMA NIRSpeltRemainder ==
  ASSUME NEW body, NIRBodied(body), NEW p \in Seq(Digits), Len(p) = 2
  PROVE  NIRSpelt(body) \in Seq(Alphabet) /\ NIRBody(body \o p) = Mod97(NIRSpelt(body))
<1> DEFINE s == body \o p
           t == NIRHead(s)
           u == NIRSpelt(body)
           c == Corsica(s)
<1>1. /\ NIRShaped(s) /\ \A i \in 1..13 : s[i] = body[i]
      /\ Has(s, {10}) <=> body[7] = 10
      /\ Has(s, {11}) <=> body[7] = 11
  BY Zenon, NIRJoined
<1> HIDE DEF s
<1>2. /\ t \in Seq(Alphabet) /\ Len(t) = 13
      /\ \A i \in 1..13 : t[i] = (IF body[i] \in {10, 11} THEN 0 ELSE body[i]) /\ t[i] \in 0..9
  <2>1. /\ t \in Seq(Alphabet) /\ Len(t) = 13
        /\ \A i \in 1..13 : t[i] = (IF s[i] \in {10, 11} THEN 0 ELSE s[i]) /\ t[i] \in 0..9
    BY Zenon, <1>1, NIRFacts
  <2> HIDE DEF t
  <2>2. \A i \in 1..13 : s[i] = body[i]
    BY <1>1
  <2>3. \A i \in 1..13 : t[i] = (IF body[i] \in {10, 11} THEN 0 ELSE body[i]) /\ t[i] \in 0..9
    BY Zenon, <2>1, <2>2
  <2> QED BY <2>1, <2>3
<1> HIDE DEF t
<1>3. \A i \in 1..13 : body[i] \in Digits \/ (i = 7 /\ body[6] = 2 /\ body[7] \in {10, 11})
  BY Zenon DEF NIRBodied
<1>4. \A i \in 1..13 : body[i] \in Alphabet /\ body[i] \in Digits \union {10, 11}
  <2>1. body \in Seq(Alphabet) /\ Len(body) = 13
    BY DEF NIRBodied
  <2>2. \A i \in 1..Len(body) : body[i] \in Alphabet
    <3>1. \A x \in Seq(Alphabet) : \A i \in 1..Len(x) : x[i] \in Alphabet
      OBVIOUS
    <3> QED BY Zenon, <2>1, <3>1
  <2>3. \A i \in 1..13 : body[i] \in Alphabet
    BY Zenon, <2>1, <2>2
  <2> QED BY Zenon, <1>3, <2>3
<1>5. /\ u \in Seq(Alphabet) /\ Len(u) = 13
      /\ \A i \in 1..13 : u[i] = IF i = 6 /\ body[7] \in {10, 11} THEN 1
                                 ELSE IF i = 7 /\ body[7] = 10 THEN 9
                                 ELSE IF i = 7 /\ body[7] = 11 THEN 8 ELSE body[i]
  <2>1. u = [i \in 1..13 |-> IF i = 6 /\ body[7] \in {10, 11} THEN 1
                             ELSE IF i = 7 /\ body[7] = 10 THEN 9
                             ELSE IF i = 7 /\ body[7] = 11 THEN 8 ELSE body[i]]
    BY DEF NIRSpelt
  <2>2. 1 \in Alphabet /\ 9 \in Alphabet /\ 8 \in Alphabet
    BY DEF Alphabet
  <2> HIDE DEF u
  <2>3. u \in [1..13 -> Alphabet]
    BY <1>4, <2>1, <2>2
  <2>4. \A n \in Nat : \A f \in [1..n -> Alphabet] : f \in Seq(Alphabet) /\ Len(f) = n
    OBVIOUS
  <2>5. 13 \in Nat
    OBVIOUS
  <2>6. u \in Seq(Alphabet) /\ Len(u) = 13
    BY Zenon, <2>3, <2>4, <2>5
  <2> QED BY <2>1, <2>6
<1> HIDE DEF u
<1>6. Mod97(t) \in 0..96 /\ Mod97(u) \in 0..96
  BY <1>2, <1>5, Mod97Typed
<1> DEFINE m == Mod97(t)
           w == Mod97(u)
<1> HIDE DEF m, w
<1>7. c \in Int /\ Same(w, m + (-c))
  <2>1. CASE body[7] \notin {10, 11}
    <3>1. c = 0
      BY Zenon, <1>1, <2>1 DEF Corsica
    <3>2. 6 # 7 /\ 7 \in 1..13 /\ 13 \in Nat
      OBVIOUS
    <3>3. \A i \in 1..13 : body[i] \notin {10, 11}
      <4>1. \A d \in Digits : d \notin {10, 11}
        BY DEF Digits
      <4> QED BY Zenon, <1>3, <2>1, <4>1
    <3>4. \A i \in 1..13 : t[i] = u[i]
      BY Zenon, <1>2, <1>5, <2>1, <3>3
    <3>5. t = u
      BY Zenon, <1>2, <1>5, <3>2, <3>4, Alike
    <3>6. w = m
      BY <3>5 DEF m, w
    <3> HIDE DEF c
    <3>7. m \in Int /\ m + (-c) = m
      <4>1. m \in 0..96
        BY <1>6 DEF m
      <4> QED BY <3>1, <4>1
    <3> QED BY <3>1, <3>6, <3>7, SameRefl
  <2>2. CASE body[7] \in {10, 11}
    <3>1. PICK g : Rems(t, g) /\ m = g[13]
      <4>1. Len(t) \in Nat
        BY <1>2
      <4>2. PICK g : Rems(t, g) /\ Mod97(t) = g[Len(t)]
        BY <4>1, Mod97Unfolds
      <4> QED BY Zenon, <1>2, <4>2 DEF m
    <3>2. PICK h : Rems(u, h) /\ w = h[13]
      <4>1. Len(u) \in Nat
        BY <1>5
      <4>2. PICK h : Rems(u, h) /\ Mod97(u) = h[Len(u)]
        BY <4>1, Mod97Unfolds
      <4> QED BY Zenon, <1>5, <4>2 DEF w
    <3>3. \A n \in 0..13 : g[n] \in Int /\ h[n] \in Int
      <4>1. \A n \in 0..Len(t) : g[n] \in 0..96
        BY <1>2, <3>1, RemsStep
      <4>2. \A n \in 0..Len(u) : h[n] \in 0..96
        BY <1>5, <3>2, RemsStep
      <4>3. \A x \in 0..96 : x \in Int
        OBVIOUS
      <4> QED BY Zenon, <1>2, <1>5, <4>1, <4>2, <4>3
    <3>4. /\ 5 \in Nat /\ 5 <= 13 /\ 5 \in 0..13 /\ 6 \in 0..13 /\ 7 \in 0..13
          /\ 6 \in 1..13 /\ 7 \in 1..13 /\ 6 # 7 /\ 6 - 1 = 5 /\ 7 - 1 = 6
          /\ 0 \in 0..9 /\ 1 \in 0..9 /\ 2 \in 0..9 /\ 8 \in 0..9 /\ 9 \in 0..9
          /\ 2 \notin {10, 11} /\ 10 # 11
      OBVIOUS
    <3>5. \A n \in 1..5 : n \in 1..13 /\ n # 6 /\ n # 7
      OBVIOUS
    <3>6. \A n \in 8..13 : n \in 1..13 /\ n # 6 /\ n # 7
      OBVIOUS
    <3>7. \A n \in 1..13 : n # 6 /\ n # 7 => t[n] = u[n] /\ t[n] \in 0..9
      <4>1. \A d \in Digits : d \notin {10, 11}
        BY DEF Digits
      <4>2. \A n \in 1..13 : n # 7 => body[n] \notin {10, 11}
        BY Zenon, <1>3, <4>1
      <4> QED BY Zenon, <1>2, <1>5, <4>2
    <3>8. g[5] = h[5]
      <4>1. 5 <= Len(t) /\ 5 <= Len(u)
        BY Zenon, <1>2, <1>5, <3>4
      <4>2. \A n \in 1..5 : t[n] = u[n]
        BY Zenon, <3>5, <3>7
      <4> DEFINE l == 5
      <4>3. l \in Nat /\ l <= Len(t) /\ l <= Len(u) /\ \A n \in 1..l : t[n] = u[n]
        BY Zenon, <3>4, <4>1, <4>2
      <4>4. t \in Seq(Alphabet) /\ u \in Seq(Alphabet) /\ Rems(t, g) /\ Rems(u, h)
        BY <1>2, <1>5, <3>1, <3>2
      <4> HIDE DEF l
      <4>5. g[l] = h[l]
        BY <4>3, <4>4, RemsAlike
      <4> QED BY <4>5 DEF l
    <3>9. Same(h[5], g[5] + 0)
      <4> DEFINE x == g[5]
      <4>1. x \in Int /\ h[5] = x
        BY Zenon, <3>3, <3>4, <3>8
      <4> HIDE DEF x
      <4>2. x + 0 = x /\ Same(x, x)
        BY <4>1, SameRefl
      <4> QED BY Zenon, <4>1, <4>2 DEF x
    <3>10. 6 \in 1..Len(t) /\ 6 \in 1..Len(u) /\ 7 \in 1..Len(t) /\ 7 \in 1..Len(u)
      BY Zenon, <1>2, <1>5, <3>4
    <3>11. t[6] = 2 /\ u[6] = 1 /\ t[7] = 0
      <4>1. body[6] = 2
        <5>1. \A d \in Digits : d \notin {10, 11}
          BY DEF Digits
        <5> QED BY Zenon, <1>3, <2>2, <3>4, <5>1
      <4> QED BY Zenon, <1>2, <1>5, <2>2, <3>4, <4>1
    <3>12. Same(h[6], g[6] + (-1))
      <4>1. 0 \in Int /\ 0 * 10 + (1 - 2) = -1
        OBVIOUS
      <4>2. Same(h[6], g[6] + (0 * 10 + (u[6] - t[6])))
        BY Zenon, <1>2, <1>5, <3>1, <3>2, <3>3, <3>4, <3>9, <3>10, <3>11, <4>1, RemsOn
      <4> QED BY Zenon, <3>11, <4>1, <4>2
    <3>13. -1 \in Int /\ Same(h[7], g[7] + ((-1) * 10 + (u[7] - t[7])))
      <4>1. -1 \in Int
        OBVIOUS
      <4>2. u[7] \in 0..9
        BY Zenon, <1>5, <2>2, <3>4
      <4> QED BY Zenon, <1>2, <1>5, <3>1, <3>2, <3>3, <3>4, <3>10, <3>11, <3>12, <4>1, <4>2, RemsOn
    <3>14. PICK e \in Int : Same(h[7], g[7] + e) /\ c = (-e) * Million
      <4>1. CASE body[7] = 10
        <5>1. u[7] = 9
          BY Zenon, <1>5, <3>4, <4>1
        <5>2. (-1) * 10 + (9 - 0) = -1 /\ -1 \in Int
          OBVIOUS
        <5>3. Same(h[7], g[7] + (-1))
          BY Zenon, <3>11, <3>13, <5>1, <5>2
        <5>4. c = Million
          BY Zenon, <1>1, <3>4, <4>1 DEF Corsica
        <5>5. Million = (-(-1)) * Million
          BY SMT DEF Million
        <5> QED BY Zenon, <5>2, <5>3, <5>4, <5>5
      <4>2. CASE body[7] = 11
        <5>1. u[7] = 8
          BY Zenon, <1>5, <3>4, <4>2
        <5>2. (-1) * 10 + (8 - 0) = -2 /\ -2 \in Int
          OBVIOUS
        <5>3. Same(h[7], g[7] + (-2))
          BY Zenon, <3>11, <3>13, <5>1, <5>2
        <5>4. c = 2 * Million
          BY Zenon, <1>1, <4>2 DEF Corsica
        <5>5. 2 * Million = (-(-2)) * Million
          BY SMT DEF Million
        <5> QED BY Zenon, <5>2, <5>3, <5>4, <5>5
      <4> QED BY Zenon, <2>2, <4>1, <4>2
    <3>15. Same(h[13], g[13] + e * Million)
      <4>1. \A n \in 8..13 : t[n] = u[n] /\ t[n] \in 0..9
        BY Zenon, <3>6, <3>7
      <4> QED BY Zenon, <1>2, <1>5, <3>1, <3>2, <3>14, <4>1, RemsSix
    <3>16. e * Million = -c /\ c \in Int
      <4> HIDE DEF c
      <4> QED BY SMT, <3>14 DEF Million
    <3> QED BY Zenon, <3>1, <3>2, <3>15, <3>16
  <2> QED BY <2>1, <2>2
<1>8. NIRBody(s) = w
  <2>1. NIRBody(s) = (m + 97 - (c % 97)) % 97
    BY Zenon DEF NIRBody, m, t
  <2>2. m \in 0..96 /\ w \in 0..96
    BY <1>6 DEF m, w
  <2> HIDE DEF c
  <2> QED BY Zenon, <1>7, <2>1, <2>2, TakenOff
<1> QED BY Zenon, <1>5, <1>8 DEF w, u, s

\* A number of the register, its key behind it, is read.
LEMMA NIRIssues ==
  ASSUME NEW body, NIRBodied(body)
  PROVE  NIRShaped(body \o Padded(NIRKey(body), 2)) /\ NIRRule(body \o Padded(NIRKey(body), 2))
<1> DEFINE u == NIRSpelt(body)
           key == NIRKey(body)
<1>1. key = 97 - Remainder(u)
  BY Zenon DEF NIRKey, NIRSpelt
<1>2. u \in Seq(Alphabet)
  <2>1. 1 \in 0..99
    OBVIOUS
  <2>2. Padded(1, 2) \in Seq(Digits) /\ Len(Padded(1, 2)) = 2
    BY Zenon, <2>1, PaddedTwo
  <2> QED BY Zenon, <2>2, NIRSpeltRemainder
<1>3. Remainder(u) = Mod97(u) /\ Mod97(u) \in 0..96
  BY Zenon, <1>2, Mod97IsRemainder
<1> DEFINE w == Mod97(u)
<1>4. w \in 0..96 /\ key = 97 - w
  BY Zenon, <1>1, <1>3
<1> HIDE DEF w, key
<1>5. key \in 0..99 /\ 97 - w = key
  BY <1>4
<1>6. NIRBody(body \o Padded(key, 2)) = w
  <2>1. Padded(key, 2) \in Seq(Digits) /\ Len(Padded(key, 2)) = 2
    BY Zenon, <1>5, PaddedTwo
  <2> QED BY Zenon, <2>1, NIRSpeltRemainder DEF w
<1>7. NIRShaped(body \o Padded(key, 2)) /\ NIRRule(body \o Padded(key, 2))
  BY Zenon, <1>5, <1>6, NIRJoinedRule
<1> QED BY <1>7 DEF key

\* The key a stand-in has is one more than its own, or 1 for 97.
LEMMA KeyMinted ==
  ASSUME NEW m \in 0..96
  PROVE  ((97 - m) % 97) + 1 \in 0..99 /\ 97 - m # ((97 - m) % 97) + 1
OBVIOUS

\* A body with no letter is spelt as it is.
LEMMA NIRPlain ==
  ASSUME NEW body, NIRBodied(body), body[7] \notin {10, 11}
  PROVE  NIRSpelt(body) = body
<1>1. body \in Seq(Alphabet) /\ Len(body) = 13
  BY DEF NIRBodied
<1>2. NIRSpelt(body) = [i \in 1..13 |-> body[i]]
  BY DEF NIRSpelt
<1>3. body = [i \in 1..13 |-> body[i]]
  <2>1. \A x \in Seq(Alphabet) : x = [i \in 1..Len(x) |-> x[i]]
    OBVIOUS
  <2> QED BY Zenon, <1>1, <2>1
<1> QED BY <1>2, <1>3

-----------------------------------------------------------------------------
(* Accounts. *)

\* The country and the key go behind the account.
Rearranged(s) == SubSeq(s, 5, Len(s)) \o SubSeq(s, 1, 4)

IBANRule(s) ==
  /\ Len(s) \in 15..34 /\ Len(s) \in IbanLength(SubSeq(s, 1, 2))
  /\ SubSeq(s, 3, 4) \notin ImpossibleKeys
  /\ Mod97(Rearranged(s)) = 1

\* The spaces of an account are left out before it is read.
LEMMA IBANOf ==
  ASSUME NEW text, NEW s \in Seq(Alphabet), NEW place, Laid(text, s, place, {Space})
  PROVE  IBANCheck(text) <=> IBANRule(s)
<1>1. Without(Capital(text), {Space}) = s /\ ~Has(text, Small)
  <2>1. {Space} \subseteq {Space, Dot, Dash}
    OBVIOUS
  <2> QED BY <2>1, PlainOf
<1>2. Within(s, Digits \union Capitals)
  <2>1. \A i \in DOMAIN s : s[i] \in Alphabet
    OBVIOUS
  <2>2. Alphabet \subseteq Digits \union Capitals
    BY DEF Alphabet, Digits, Capitals
  <2> QED BY <2>1, <2>2 DEF Within
<1>3. ~MixedCase(text)
  BY Zenon, <1>1 DEF MixedCase
<1>4. IBANCheck(text) <=>
        /\ Within(s, Digits \union Capitals) /\ ~MixedCase(text)
        /\ Len(s) \in 15..34 /\ Len(s) \in IbanLength(SubSeq(s, 1, 2))
        /\ SubSeq(s, 3, 4) \notin ImpossibleKeys
        /\ Mod97(SubSeq(s, 5, Len(s)) \o SubSeq(s, 1, 4)) = 1
  <2> DEFINE w == Without(Capital(text), {Space})
  <2>1. IBANCheck(text) <=>
          /\ Within(w, Digits \union Capitals) /\ ~MixedCase(text)
          /\ Len(w) \in 15..34 /\ Len(w) \in IbanLength(SubSeq(w, 1, 2))
          /\ SubSeq(w, 3, 4) \notin ImpossibleKeys
          /\ Mod97(SubSeq(w, 5, Len(w)) \o SubSeq(w, 1, 4)) = 1
    BY Zenon DEF IBANCheck
  <2> HIDE DEF w
  <2>2. w = s
    BY <1>1 DEF w
  <2> QED BY Zenon, <2>1, <2>2
<1> QED BY Zenon, <1>2, <1>3, <1>4 DEF IBANRule, Rearranged

\* Where each character goes.
Goes(i, L) == IF i > 4 THEN i - 4 ELSE (L - 4) + i

\* Every place goes to one of its own, and neighbours stay neighbours but the fourth.
LEMMA GoesOn ==
  ASSUME NEW L \in Nat, L >= 15
  PROVE  /\ \A i \in 1..L : Goes(i, L) \in 1..L
         /\ \A i, j \in 1..L : Goes(i, L) = Goes(j, L) => i = j
         /\ \A k \in 1..L : \E i \in 1..L : Goes(i, L) = k
         /\ \A i \in 1..L : i + 1 \in 1..L /\ i # 4 => Goes(i + 1, L) = Goes(i, L) + 1
         /\ Goes(4, L) = L /\ Goes(5, L) = 1 /\ 4 \in 1..L /\ 5 \in 1..L
<1>1. \A k \in 1..L : \E i \in 1..L : Goes(i, L) = k
  <2> SUFFICES ASSUME NEW k \in 1..L PROVE \E i \in 1..L : Goes(i, L) = k
    OBVIOUS
  <2> DEFINE i == IF k <= L - 4 THEN k + 4 ELSE k - (L - 4)
  <2>1. i \in 1..L /\ Goes(i, L) = k
    BY DEF Goes
  <2> QED BY <2>1
<1> QED BY <1>1 DEF Goes

\* So the rearranged text has each character where it goes.
LEMMA RearrangedFacts ==
  ASSUME NEW s \in Seq(Alphabet), NEW L \in Nat, Len(s) = L, L >= 15
  PROVE  /\ Rearranged(s) \in Seq(Alphabet) /\ Len(Rearranged(s)) = L
         /\ \A i \in 1..L : Rearranged(s)[Goes(i, L)] = s[i]
<1> DEFINE u == SubSeq(s, 5, L)
           v == SubSeq(s, 1, 4)
           K == L - 4
<1>1. K \in Nat /\ L = K + 4
  OBVIOUS
<1>2. u \in Seq(Alphabet) /\ Len(u) = K /\ \A i \in 1..K : u[i] = s[i + 4]
  OBVIOUS
<1>3. v \in Seq(Alphabet) /\ Len(v) = 4 /\ \A i \in 1..4 : v[i] = s[i]
  OBVIOUS
<1> HIDE DEF u, v
<1>4. Joined(Alphabet, u, v)
  BY Joins
<1>5. /\ u \o v \in Seq(Alphabet) /\ Len(u \o v) = K + 4
      /\ \A i \in 1..K : (u \o v)[i] = u[i]
      /\ \A i \in 1..4 : (u \o v)[K + i] = v[i]
  BY Zenon, <1>2, <1>3, <1>4 DEF Joined
<1>6. Rearranged(s) = u \o v
  BY Zenon DEF Rearranged, u, v
<1> DEFINE r == Rearranged(s)
<1>7. /\ r \in Seq(Alphabet) /\ Len(r) = L
      /\ \A i \in 1..K : r[i] = u[i]
      /\ \A i \in 1..4 : r[K + i] = v[i]
  BY Zenon, <1>1, <1>5, <1>6
<1> HIDE DEF r
<1>8. ASSUME NEW i \in 1..L PROVE r[Goes(i, L)] = s[i]
  <2>1. CASE i > 4
    <3> DEFINE k == i - 4
    <3>1. k \in 1..K /\ k + 4 = i /\ Goes(i, L) = k
      BY <1>1, <2>1 DEF Goes
    <3> HIDE DEF k
    <3> QED BY Zenon, <1>2, <1>7, <3>1
  <2>2. CASE ~(i > 4)
    <3>1. i \in 1..4 /\ Goes(i, L) = K + i
      BY <1>1, <2>2 DEF Goes
    <3> QED BY Zenon, <1>3, <1>7, <3>1
  <2> QED BY <2>1, <2>2
<1> QED BY <1>7, <1>8 DEF r

\* A remainder of 1 is not one that a wrong digit leaves.
LEMMA IBANRefuses ==
  ASSUME NEW s \in Seq(Alphabet), Len(s) \in 15..34, Mod97(Rearranged(s)) = 1,
         NEW t, NEW a, NEW b, Mistyped(s, t) \/ Swapped(s, t, a, b)
  PROVE  t \in Seq(Alphabet) /\ Len(t) = Len(s) /\ ~IBANRule(t)
<1> DEFINE L == Len(s)
           u == Rearranged(s)
           v == Rearranged(t)
<1>1. t \in Seq(Alphabet) /\ Len(t) = L
  <2>1. Digits \subseteq Alphabet
    BY DEF Digits, Alphabet
  <2> QED BY <2>1, WrongTyped
<1>2. L \in 15..34
  OBVIOUS
<1> HIDE DEF L
<1>3. L \in Nat /\ L >= 15 /\ L \in 2..34
  BY <1>2
<1>4. /\ \A i \in 1..L : Goes(i, L) \in 1..L
      /\ \A i, j \in 1..L : Goes(i, L) = Goes(j, L) => i = j
      /\ \A k \in 1..L : \E i \in 1..L : Goes(i, L) = k
      /\ \A i \in 1..L : i + 1 \in 1..L /\ i # 4 => Goes(i + 1, L) = Goes(i, L) + 1
      /\ Goes(4, L) = L /\ Goes(5, L) = 1 /\ 4 \in 1..L /\ 5 \in 1..L
  BY <1>3, GoesOn
<1>5. /\ u \in Seq(Alphabet) /\ Len(u) = L /\ \A i \in 1..L : u[Goes(i, L)] = s[i]
  BY <1>3, RearrangedFacts DEF L
<1>6. /\ v \in Seq(Alphabet) /\ Len(v) = L /\ \A i \in 1..L : v[Goes(i, L)] = t[i]
  BY <1>1, <1>3, RearrangedFacts
<1> HIDE DEF u, v
<1>7. \A d \in Digits : d \in 0..9
  BY DEF Digits
<1>8. Mod97(u) # Mod97(v)
  <2>1. CASE Mistyped(s, t)
    <3>1. PICK i \in 1..L : /\ s[i] \in Digits /\ t[i] \in Digits /\ t[i] # s[i]
                            /\ \A n \in 1..L : n # i => t[n] = s[n]
      BY <2>1 DEF Mistyped, L
    <3> DEFINE j == Goes(i, L)
    <3>2. j \in 1..L /\ u[j] \in 0..9 /\ v[j] \in 0..9 /\ u[j] # v[j]
      BY Zenon, <1>4, <1>5, <1>6, <1>7, <3>1
    <3>3. ASSUME NEW k \in 1..L, k # j PROVE u[k] = v[k]
      <4>1. PICK n \in 1..L : Goes(n, L) = k
        BY Zenon, <1>4
      <4> QED BY Zenon, <1>5, <1>6, <3>1, <3>3, <4>1
    <3> HIDE DEF j
    <3>4. /\ j \in 1..Len(u) /\ Len(v) = Len(u) /\ \A k \in 1..Len(u) : k # j => u[k] = v[k]
      BY Zenon, <1>5, <1>6, <3>2, <3>3
    <3> QED BY <1>5, <1>6, <3>2, <3>4, Mod97FindsDigit
  <2>2. CASE Swapped(s, t, a, b)
    <3>1. PICK i \in 1..L :
            /\ i + 1 \in 1..L /\ s[i] = a /\ s[i + 1] = b /\ t[i] = b /\ t[i + 1] = a
            /\ \A n \in 1..L : n # i /\ n # i + 1 => t[n] = s[n]
      BY <2>2 DEF Swapped, L
    <3>2. a \in 0..9 /\ b \in 0..9 /\ a # b
      BY <1>7, <2>2 DEF Swapped
    <3> DEFINE m == i + 1
               j == Goes(i, L)
               l == Goes(m, L)
    <3>3. /\ m \in 1..L /\ j \in 1..L /\ l \in 1..L
          /\ u[j] = a /\ u[l] = b /\ v[j] = b /\ v[l] = a
      BY Zenon, <1>4, <1>5, <1>6, <3>1
    <3>4. ASSUME NEW k \in 1..L, k # j, k # l PROVE u[k] = v[k]
      <4>1. PICK n \in 1..L : Goes(n, L) = k
        BY Zenon, <1>4
      <4> QED BY Zenon, <1>5, <1>6, <3>1, <3>4, <4>1
    <3>5. CASE i # 4
      <4>1. l = j + 1
        BY Zenon, <1>4, <3>1, <3>5
      <4> HIDE DEF j, l, m
      <4>2. /\ j \in 1..Len(u) /\ j + 1 \in 1..Len(u) /\ Len(v) = Len(u)
            /\ \A k \in 1..Len(u) : k # j /\ k # j + 1 => u[k] = v[k]
        BY Zenon, <1>5, <1>6, <3>3, <3>4, <4>1
      <4>3. /\ u[j] \in 0..9 /\ u[j + 1] \in 0..9 /\ v[j] = u[j + 1] /\ v[j + 1] = u[j]
            /\ u[j] # u[j + 1]
        BY Zenon, <3>2, <3>3, <4>1
      <4> QED BY <1>5, <1>6, <4>2, <4>3, Mod97FindsExchange
    <3>6. CASE i = 4
      <4>1. m = 5
        BY <3>6
      <4>2. j = L /\ l = 1
        BY Zenon, <1>4, <3>6, <4>1
      <4> HIDE DEF j, l, m
      <4>3. /\ Len(u) \in 2..34 /\ Len(v) = Len(u)
            /\ \A k \in 1..Len(u) : k # 1 /\ k # Len(u) => u[k] = v[k]
        BY Zenon, <1>3, <1>5, <1>6, <3>4, <4>2
      <4>4. /\ u[1] \in 0..9 /\ u[Len(u)] \in 0..9 /\ v[1] = u[Len(u)] /\ v[Len(u)] = u[1]
            /\ u[1] # u[Len(u)]
        BY Zenon, <1>5, <3>2, <3>3, <4>2
      <4> QED BY <1>5, <1>6, <4>3, <4>4, Mod97FindsEnds
    <3> QED BY <3>5, <3>6
  <2> QED BY <2>1, <2>2
<1>9. ~IBANRule(t)
  BY Zenon, <1>8 DEF IBANRule, u, v
<1> QED BY <1>1, <1>9 DEF L

\* What follows the first p of a sequence.
LEMMA Behind ==
  ASSUME NEW S, NEW s \in Seq(S), NEW p \in Nat, p <= Len(s), NEW q, p + 1 = q
  PROVE  /\ SubSeq(s, q, Len(s)) \in Seq(S) /\ Len(SubSeq(s, q, Len(s))) = Len(s) - p
         /\ \A k \in 1..(Len(s) - p) : SubSeq(s, q, Len(s))[k] = s[p + k]
OBVIOUS

\* The two key digits of an account.
LEMMA KeyOf ==
  ASSUME NEW S, NEW s \in Seq(S), Len(s) >= 4
  PROVE  SubSeq(s, 3, 4)[1] = s[3] /\ SubSeq(s, 3, 4)[2] = s[4]
OBVIOUS

\* What an account is issued for: a country of the table, and as much as it takes.
IBANBodied(body) ==
  /\ body \in Seq(Alphabet) /\ Len(body) >= 2
  /\ body[1] \in Capitals /\ body[2] \in Capitals
  /\ IbanLength(SubSeq(body, 1, 2)) = {Len(body) + 2}

IBANIssued(body) ==
  LET country == SubSeq(body, 1, 2)
      account == SubSeq(body, 3, Len(body))
  IN  country \o Padded(IBANKey(country, account), 2) \o account

\* No country has accounts of fewer than fifteen characters or of more than thirty-four.
LEMMA IbanRange ==
  ASSUME NEW country, NEW n, IbanLength(country) = {n}
  PROVE  n \in 15..34
<1>1. IbanLength(country) \in {{27}, {22}, {16}, {15}, 15..34}
  BY Zenon DEF IbanLength
<1>2. n \in IbanLength(country)
  OBVIOUS
<1> QED BY <1>1, <1>2

\* Two digits in the place of two zeros.
LEMMA RemsTwo ==
  ASSUME NEW t \in Seq(Alphabet), NEW u \in Seq(Alphabet), NEW m \in Nat,
         Len(t) = m + 2, Len(u) = m + 2, \A n \in 1..m : t[n] = u[n],
         t[m + 1] = 0, t[m + 2] = 0, u[m + 1] \in 0..9, u[m + 2] \in 0..9
  PROVE  Same(Mod97(u), Mod97(t) + (10 * u[m + 1] + u[m + 2]))
<1> DEFINE p == m + 1
           q == m + 2
           x == u[p]
           y == u[q]
<1>1. /\ p \in Nat /\ q \in Nat /\ p - 1 = m /\ q - 1 = p /\ m <= q /\ m \in 0..q /\ p \in 0..q
      /\ p \in 1..q /\ q \in 1..q /\ q \in 0..q
  OBVIOUS
<1>2. /\ Len(t) = q /\ Len(u) = q /\ t[p] = 0 /\ t[q] = 0 /\ x \in 0..9 /\ y \in 0..9
      /\ \A n \in 1..m : t[n] = u[n]
  OBVIOUS
<1>3. x \in Int /\ y \in Int /\ 0 * 10 + (x - 0) = x /\ x * 10 + (y - 0) = 10 * x + y
      /\ x * 10 + (y - 0) \in Int
  BY SMTT(60)
<1>4. 0 \in 0..9 /\ 0 \in Int
  OBVIOUS
<1> HIDE DEF p, q, x, y
<1>5. PICK g : Rems(t, g) /\ Mod97(t) = g[q]
  <2>1. Len(t) \in Nat
    BY <1>1, <1>2
  <2>2. PICK g : Rems(t, g) /\ Mod97(t) = g[Len(t)]
    BY <2>1, Mod97Unfolds
  <2> QED BY Zenon, <1>2, <2>2
<1>6. PICK h : Rems(u, h) /\ Mod97(u) = h[q]
  <2>1. Len(u) \in Nat
    BY <1>1, <1>2
  <2>2. PICK h : Rems(u, h) /\ Mod97(u) = h[Len(u)]
    BY <2>1, Mod97Unfolds
  <2> QED BY Zenon, <1>2, <2>2
<1>7. \A n \in 0..q : g[n] \in Int /\ h[n] \in Int
  <2>1. \A n \in 0..Len(t) : g[n] \in 0..96
    BY <1>5, RemsStep
  <2>2. \A n \in 0..Len(u) : h[n] \in 0..96
    BY <1>6, RemsStep
  <2>3. \A z \in 0..96 : z \in Int
    OBVIOUS
  <2> QED BY Zenon, <1>2, <2>1, <2>2, <2>3
<1>8. g[m] = h[m]
  <2>1. m <= Len(t) /\ m <= Len(u)
    BY Zenon, <1>1, <1>2
  <2> QED BY <1>2, <1>5, <1>6, <2>1, RemsAlike
<1>9. Same(h[m], g[m] + 0)
  <2> DEFINE z == g[m]
  <2>1. z \in Int /\ h[m] = z
    BY Zenon, <1>1, <1>7, <1>8
  <2> HIDE DEF z
  <2>2. z + 0 = z /\ Same(z, z)
    BY <2>1, SameRefl
  <2> QED BY Zenon, <2>1, <2>2 DEF z
<1>10. p \in 1..Len(t) /\ p \in 1..Len(u) /\ q \in 1..Len(t) /\ q \in 1..Len(u)
  BY Zenon, <1>1, <1>2
<1>11. Same(h[p], g[p] + x)
  <2>1. Same(h[p], g[p] + (0 * 10 + (u[p] - t[p])))
    BY Zenon, <1>1, <1>2, <1>4, <1>5, <1>6, <1>7, <1>9, <1>10, RemsOn DEF x
  <2> QED BY Zenon, <1>2, <1>3, <2>1 DEF x
<1>12. Same(h[q], g[q] + (10 * x + y))
  <2>1. Same(h[q], g[q] + (x * 10 + (u[q] - t[q])))
    BY Zenon, <1>1, <1>2, <1>3, <1>4, <1>5, <1>6, <1>7, <1>10, <1>11, RemsOn DEF y
  <2> QED BY Zenon, <1>2, <1>3, <2>1 DEF y
<1> QED BY Zenon, <1>5, <1>6, <1>12 DEF x, y, p, q

\* An account with its key is read.
LEMMA IBANIssues ==
  ASSUME NEW body, IBANBodied(body)
  PROVE  LET s == IBANIssued(body)
         IN  /\ s \in Seq(Alphabet) /\ Len(s) \in 15..34 /\ IBANRule(s)
             /\ s[1] \in Capitals /\ s[2] \in Capitals
             /\ IbanLength(SubSeq(s, 1, 2)) = {Len(s)}
<1> DEFINE country == SubSeq(body, 1, 2)
           account == SubSeq(body, 3, Len(body))
           n == Len(body) - 2
           L == n + 4
           key == IBANKey(country, account)
           p == Padded(key, 2)
           head == country \o p
           s == IBANIssued(body)
<1>1. body \in Seq(Alphabet) /\ Len(body) >= 2 /\ Len(body) \in Nat /\ 2 \in Nat /\ 2 <= Len(body) /\ 2 + 1 = 3
  BY DEF IBANBodied
<1>2. n \in Nat /\ L \in Nat /\ Len(body) = n + 2 /\ Len(body) + 2 = L /\ n + 2 + 2 = L
  BY <1>1
<1>3. /\ country \in Seq(Alphabet) /\ Len(country) = 2
      /\ country[1] = body[1] /\ country[2] = body[2]
  <2>1. 1 \in 1..2 /\ 2 \in 1..2
    OBVIOUS
  <2>2. country \in Seq(Alphabet) /\ Len(country) = 2 /\ \A k \in 1..2 : country[k] = body[k]
    BY Zenon, <1>1, Heads
  <2> QED BY Zenon, <2>1, <2>2
<1>4. account \in Seq(Alphabet) /\ Len(account) = n
  <2> DEFINE two == 2
             three == 3
             b == body
  <2>1. b \in Seq(Alphabet) /\ two \in Nat /\ two <= Len(b) /\ two + 1 = three
    BY <1>1
  <2> HIDE DEF two, three, b
  <2>2. SubSeq(b, three, Len(b)) \in Seq(Alphabet) /\ Len(SubSeq(b, three, Len(b))) = Len(b) - two
    BY <2>1, Behind
  <2> QED BY Zenon, <2>2 DEF two, three, b
<1>5. L \in 15..34 /\ IbanLength(country) = {L}
  <2>1. IbanLength(country) = {L}
    BY Zenon, <1>2 DEF IBANBodied
  <2> QED BY Zenon, <2>1, IbanRange
<1>6. body[1] \in Capitals /\ body[2] \in Capitals
  BY DEF IBANBodied
<1>7. s = head \o account
  BY Zenon DEF IBANIssued
<1> HIDE DEF n, L, s, country, account
<1> DEFINE zero == account \o country
           z == zero \o <<0, 0>>
<1>8. /\ zero \in Seq(Alphabet) /\ Len(zero) = n + 2
      /\ \A i \in 1..n : zero[i] = account[i]
      /\ \A i \in 1..2 : zero[n + i] = country[i]
  <2>1. Joined(Alphabet, account, country)
    BY Joins
  <2> QED BY Zenon, <1>3, <1>4, <2>1 DEF Joined
<1> HIDE DEF zero
<1>9. /\ z \in Seq(Alphabet) /\ Len(z) = (n + 2) + 2
      /\ \A i \in 1..(n + 2) : z[i] = zero[i]
      /\ \A i \in 1..2 : z[(n + 2) + i] = 0
  <2>1. Joined(Alphabet, zero, <<0, 0>>)
    BY Joins
  <2>2. <<0, 0>> \in Seq(Alphabet) /\ Len(<<0, 0>>) = 2 /\ \A i \in 1..2 : <<0, 0>>[i] = 0
    <3>1. 0 \in Alphabet
      BY DEF Alphabet
    <3> QED BY <3>1
  <2> QED BY Zenon, <1>8, <2>1, <2>2 DEF Joined
<1>10. key = 98 - Remainder(z)
  BY Zenon DEF IBANKey, zero
<1>11. Mod97(z) = Remainder(z) /\ Mod97(z) \in 0..96
  BY Zenon, <1>9, Mod97IsRemainder
<1> HIDE DEF z
<1> DEFINE R == Mod97(z)
<1>12. key = 98 - R /\ R \in 0..96
  BY Zenon, <1>10, <1>11
<1> HIDE DEF R, key
<1>13. key \in 0..99 /\ key \in 2..98 /\ R + key = 98
  BY <1>12
<1>14. p \in Seq(Digits) /\ Len(p) = 2 /\ 10 * p[1] + p[2] = key
  BY Zenon, <1>13, PaddedTwo
<1> HIDE DEF p
<1>15. p[1] \in 0..9 /\ p[2] \in 0..9 /\ p \in Seq(Alphabet)
  <2>1. 2 \in Nat /\ 1 \in 1..2 /\ 2 \in 1..2
    OBVIOUS
  <2>2. Digits \subseteq Alphabet
    BY DEF Digits, Alphabet
  <2>3. p \in Seq(Alphabet)
    BY <1>14, <2>2
  <2> QED BY Zenon, <1>14, <2>1, <2>3, DigitsTyped
<1>16. /\ head \in Seq(Alphabet) /\ Len(head) = 2 + 2 /\ head[1] = country[1] /\ head[2] = country[2]
       /\ head[2 + 1] = p[1] /\ head[2 + 2] = p[2]
  <2>1. Joined(Alphabet, country, p)
    BY Joins
  <2>2. 1 \in 1..2 /\ 2 \in 1..2
    OBVIOUS
  <2> QED BY Zenon, <1>3, <1>14, <1>15, <2>1, <2>2 DEF Joined
<1> HIDE DEF head
<1>17. /\ s \in Seq(Alphabet) /\ Len(s) = L /\ s[1] = country[1] /\ s[2] = country[2]
       /\ s[3] = p[1] /\ s[4] = p[2] /\ \A i \in 1..n : s[4 + i] = account[i]
  <2>1. Joined(Alphabet, head, account)
    BY Joins
  <2>2. 2 + 2 = 4 /\ 2 + 1 = 3 /\ 1 \in 1..4 /\ 2 \in 1..4 /\ 3 \in 1..4 /\ 4 \in 1..4 /\ 4 + n = L
    BY <1>2 DEF L
  <2> QED BY Zenon, <1>4, <1>7, <1>16, <2>1, <2>2 DEF Joined
<1>18. L >= 15 /\ L >= 4 /\ 2 <= L
  BY <1>5
<1> DEFINE r == Rearranged(s)
<1>19. /\ r \in Seq(Alphabet) /\ Len(r) = L /\ \A i \in 1..L : r[Goes(i, L)] = s[i]
  BY Zenon, <1>2, <1>17, <1>18, RearrangedFacts
<1> HIDE DEF r
<1>20. /\ r[n + 1] = s[1] /\ r[n + 2] = s[2] /\ r[(n + 2) + 1] = s[3] /\ r[(n + 2) + 2] = s[4]
       /\ \A i \in 1..n : r[i] = s[4 + i]
  <2>1. /\ Goes(1, L) = n + 1 /\ Goes(2, L) = n + 2 /\ Goes(3, L) = (n + 2) + 1
        /\ Goes(4, L) = (n + 2) + 2
        /\ 1 \in 1..L /\ 2 \in 1..L /\ 3 \in 1..L /\ 4 \in 1..L
    BY <1>2, <1>18 DEF Goes, L
  <2>2. \A i \in 1..n : Goes(4 + i, L) = i /\ 4 + i \in 1..L
    BY <1>2 DEF Goes, L
  <2> QED BY Zenon, <1>19, <2>1, <2>2
<1>21. \A i \in 1..(n + 2) : z[i] = r[i]
  <2>1. \A i \in 1..(n + 2) : i \in 1..n \/ i = n + 1 \/ i = n + 2
    BY <1>2
  <2>2. /\ n + 1 \in 1..(n + 2) /\ n + 2 \in 1..(n + 2) /\ 1 \in 1..2 /\ 2 \in 1..2
        /\ \A i \in 1..n : i \in 1..(n + 2)
    BY <1>2
  <2>3. z[n + 1] = r[n + 1]
    <3>1. z[n + 1] = zero[n + 1] /\ zero[n + 1] = country[1]
      BY Zenon, <1>8, <1>9, <2>2
    <3> QED BY Zenon, <1>17, <1>20, <3>1
  <2>4. z[n + 2] = r[n + 2]
    <3>1. z[n + 2] = zero[n + 2] /\ zero[n + 2] = country[2]
      BY Zenon, <1>8, <1>9, <2>2
    <3> QED BY Zenon, <1>17, <1>20, <3>1
  <2>5. ASSUME NEW i \in 1..n PROVE z[i] = r[i]
    <3>1. z[i] = zero[i] /\ zero[i] = account[i]
      BY Zenon, <1>8, <1>9, <2>2
    <3>2. r[i] = s[4 + i] /\ s[4 + i] = account[i]
      BY Zenon, <1>17, <1>20
    <3> QED BY Zenon, <3>1, <3>2
  <2> QED BY Zenon, <2>1, <2>3, <2>4, <2>5
<1>22. Same(Mod97(r), R + key)
  <2> DEFINE m == n + 2
  <2>1. m \in Nat /\ 1 \in 1..2 /\ 2 \in 1..2
    BY <1>2
  <2>2. /\ Len(z) = m + 2 /\ Len(r) = m + 2 /\ \A i \in 1..m : z[i] = r[i]
        /\ z[m + 1] = 0 /\ z[m + 2] = 0 /\ r[m + 1] = p[1] /\ r[m + 2] = p[2]
    BY Zenon, <1>2, <1>9, <1>17, <1>19, <1>20, <1>21, <2>1
  <2> HIDE DEF m
  <2>3. r[m + 1] \in 0..9 /\ r[m + 2] \in 0..9
    BY Zenon, <1>15, <2>2
  <2>4. Same(Mod97(r), Mod97(z) + (10 * r[m + 1] + r[m + 2]))
    BY Zenon, <1>9, <1>19, <2>1, <2>2, <2>3, RemsTwo
  <2> QED BY Zenon, <1>14, <2>2, <2>4 DEF R
<1>23. Mod97(r) = 1
  <2>1. Mod97(r) \in 0..96
    BY Zenon, <1>19, Mod97Typed
  <2> DEFINE M == Mod97(r)
  <2>2. M \in 0..96 /\ M \in Int /\ Same(M, 98)
    <3>1. \A x \in 0..96 : x \in Int
      OBVIOUS
    <3>2. Same(M, 98)
      BY Zenon, <1>13, <1>22
    <3> QED BY Zenon, <2>1, <3>1, <3>2
  <2> HIDE DEF M
  <2>3. M \in Int /\ 98 \in Int /\ 1 \in Int /\ 1 \in 0..96
    BY <2>2
  <2>4. Same(98, 1)
    <3>1. 98 = 1 + 97 * 1
      OBVIOUS
    <3> QED BY <3>1 DEF Same
  <2>5. Same(M, 1)
    BY <2>2, <2>3, <2>4, SameTrans
  <2> QED BY <2>2, <2>3, <2>5, SameOnly DEF M
<1>24. SubSeq(s, 1, 2) = country
  <2>1. 2 \in Nat /\ \A k \in 1..2 : k = 1 \/ k = 2
    OBVIOUS
  <2>2. 1 \in 1..2 /\ 2 \in 1..2
    OBVIOUS
  <2>3. SubSeq(s, 1, 2) \in Seq(Alphabet) /\ Len(SubSeq(s, 1, 2)) = 2 /\ \A k \in 1..2 : SubSeq(s, 1, 2)[k] = s[k]
    BY Zenon, <1>17, <1>18, <2>1, Heads
  <2>4. \A k \in 1..2 : SubSeq(s, 1, 2)[k] = country[k]
    BY Zenon, <1>17, <2>1, <2>3
  <2> QED BY Zenon, <1>3, <2>1, <2>3, <2>4, Alike
<1>25. SubSeq(s, 3, 4) \notin ImpossibleKeys
  <2>1. SubSeq(s, 3, 4)[1] = p[1] /\ SubSeq(s, 3, 4)[2] = p[2]
    <3>1. Len(s) >= 4
      BY Zenon, <1>17, <1>18
    <3> QED BY Zenon, <1>17, <3>1, KeyOf
  <2>2. /\ SubSeq(s, 3, 4) = <<0, 0>> => p[1] = 0 /\ p[2] = 0
        /\ SubSeq(s, 3, 4) = <<0, 1>> => p[1] = 0 /\ p[2] = 1
        /\ SubSeq(s, 3, 4) = <<9, 9>> => p[1] = 9 /\ p[2] = 9
    <3> DEFINE k == SubSeq(s, 3, 4)
    <3>1. k[1] = p[1] /\ k[2] = p[2]
      BY <2>1
    <3> HIDE DEF k
    <3>2. /\ k = <<0, 0>> => p[1] = 0 /\ p[2] = 0
          /\ k = <<0, 1>> => p[1] = 0 /\ p[2] = 1
          /\ k = <<9, 9>> => p[1] = 9 /\ p[2] = 9
      BY <3>1
    <3> QED BY <3>2 DEF k
  <2> DEFINE x == p[1]
             y == p[2]
  <2>3. 10 * x + y \in 2..98
    BY Zenon, <1>13, <1>14
  <2> HIDE DEF x, y
  <2>4. ~(x = 0 /\ y = 0) /\ ~(x = 0 /\ y = 1) /\ ~(x = 9 /\ y = 9)
    BY <2>3
  <2> QED BY Zenon, <2>2, <2>4 DEF ImpossibleKeys, x, y
<1>26. L \in {L}
  OBVIOUS
<1>27. IBANRule(s)
  BY Zenon, <1>5, <1>17, <1>23, <1>24, <1>25, <1>26 DEF IBANRule, r
<1> QED BY Zenon, <1>3, <1>5, <1>6, <1>17, <1>24, <1>27 DEF s

-----------------------------------------------------------------------------
(* A number of each kind. *)

\* How a number of a kind is made, and when it is one that its rule takes.
Formed(k, n) ==
  CASE k \in {"card", "siren", "siret", "ssn", "routing"} -> n \in Seq(Digits)
    [] k = "nhs" -> n \in Seq(Digits) /\ Len(n) = 10
    [] k = "nir" -> NIRShaped(n)
    [] k \in {"iban", "nino"} -> n \in Seq(Alphabet)
    [] OTHER -> n \in Seq(Nat)

Rules(k, n) ==
  CASE k = "card" -> Len(n) \in 13..19 /\ LuhnSum(n, 1) % 10 = 0
    [] k = "siren" -> Len(n) = 9 /\ LuhnSum(n, 1) % 10 = 0
    [] k = "siret" -> Len(n) = 14 /\ LuhnSum(n, 1) % 10 = 0
    [] k = "nhs" -> (NHSSum(n) + n[10]) % 11 = 0
    [] k = "nir" -> NIRRule(n)
    [] k = "iban" -> IBANRule(n)
    [] OTHER -> Reads(k, n)

\* In whatever groups it is written, the rule reads the number.
LEMMA ReadAsRuled ==
  ASSUME NEW k \in Assignable, NEW n, Formed(k, n),
         NEW text, NEW place, Laid(text, n, place, Separators(k))
  PROVE  Reads(k, text) <=> Rules(k, n)
<1>1. CASE k = "card"
  <2>1. n \in Seq(Digits) /\ Separators(k) = {Space, Dash}
    BY Zenon, <1>1 DEF Formed, Separators
  <2>2. LuhnCheck(text) <=> Len(n) \in 13..19 /\ LuhnSum(n, 1) % 10 = 0
    BY Zenon, <2>1, CardOf
  <2> QED BY Zenon, <1>1, <2>2 DEF Reads, Rules
<1>2. CASE k = "siren"
  <2>1. n \in Seq(Digits) /\ Separators(k) = {Space, Dot}
    BY Zenon, <1>2 DEF Formed, Separators
  <2>2. SIRENCheck(text) <=> Len(n) = 9 /\ LuhnSum(n, 1) % 10 = 0
    BY Zenon, <2>1, SIRENOf
  <2> QED BY Zenon, <1>2, <2>2 DEF Reads, Rules
<1>3. CASE k = "siret"
  <2>1. n \in Seq(Digits) /\ Separators(k) = {Space, Dot}
    BY Zenon, <1>3 DEF Formed, Separators
  <2>2. SIRETCheck(text) <=> Len(n) = 14 /\ LuhnSum(n, 1) % 10 = 0
    BY Zenon, <2>1, SIRENOf
  <2> QED BY Zenon, <1>3, <2>2 DEF Reads, Rules
<1>4. CASE k = "nhs"
  <2>1. n \in Seq(Digits) /\ Len(n) = 10 /\ Separators(k) = {Space, Dash}
    BY Zenon, <1>4 DEF Formed, Separators
  <2>2. NHSNumberCheck(text) <=> (NHSSum(n) + n[10]) % 11 = 0
    BY Zenon, <2>1, NHSOf
  <2> QED BY Zenon, <1>4, <2>2 DEF Reads, Rules
<1>5. CASE k = "nir"
  <2>1. NIRShaped(n) /\ Separators(k) = {Space, Dot}
    BY Zenon, <1>5 DEF Formed, Separators
  <2>2. NIRCheck(text) <=> NIRRule(n)
    BY Zenon, <2>1, NIROf
  <2> QED BY Zenon, <1>5, <2>2 DEF Reads, Rules
<1>6. CASE k = "iban"
  <2>1. n \in Seq(Alphabet) /\ Separators(k) = {Space}
    BY Zenon, <1>6 DEF Formed, Separators
  <2>2. IBANCheck(text) <=> IBANRule(n)
    BY Zenon, <2>1, IBANOf
  <2> QED BY Zenon, <1>6, <2>2 DEF Reads, Rules
<1>7. CASE k = "nino"
  <2>1. n \in Seq(Alphabet) /\ Separators(k) = {Space, Dash}
    BY Zenon, <1>7 DEF Formed, Separators
  <2>2. NINOCheck(text) <=> NINOCheck(n)
    <3>1. Laid(text, n, place, {Space, Dash})
      BY Zenon, <2>1
    <3> QED BY <2>1, <3>1, NINOOf
  <2> QED BY Zenon, <1>7, <2>2 DEF Reads, Rules
<1>8. CASE k = "ssn"
  <2>1. n \in Seq(Digits) /\ Separators(k) = {Space, Dash}
    BY Zenon, <1>8 DEF Formed, Separators
  <2>2. SSNCheck(text) <=> SSNCheck(n)
    <3>1. Laid(text, n, place, {Space, Dash})
      BY Zenon, <2>1
    <3> QED BY <2>1, <3>1, SSNOf
  <2> QED BY Zenon, <1>8, <2>2 DEF Reads, Rules
<1>9. CASE k \in {"routing", "ip", "email", "postcode"}
  <2>1. Separators(k) = {}
    BY Zenon, <1>9 DEF Separators
  <2>2. text = n
    BY Zenon, <2>1, LaidAlone
  <2>3. Rules(k, n) <=> Reads(k, n)
    BY Zenon, <1>9 DEF Rules
  <2> QED BY Zenon, <2>2, <2>3
<1> QED BY Zenon, <1>1, <1>2, <1>3, <1>4, <1>5, <1>6, <1>7, <1>8, <1>9 DEF Assignable, Mintable

\* What a slip of the pen makes of a number of the kinds that find it.
LEMMA SlipsRefused ==
  ASSUME NEW k \in Checked, NEW n, Formed(k, n), Rules(k, n), NEW t, NEW a, NEW b,
         Mistyped(n, t) \/ Swapped(n, t, a, b),
         Mistyped(n, t) \/ k \in {"nir", "iban", "nhs"}
           \/ (k \in {"card", "siren", "siret"} /\ {a, b} # {0, 9})
  PROVE  Formed(k, t) /\ ~Rules(k, t)
<1>1. CASE k \in {"card", "siren", "siret"}
  <2>1. n \in Seq(Digits)
    BY Zenon, <1>1 DEF Formed
  <2>2. LuhnSum(n, 1) % 10 = 0
    BY Zenon, <1>1 DEF Rules
  <2>3. Mistyped(n, t) \/ (Swapped(n, t, a, b) /\ {a, b} # {0, 9})
    BY Zenon, <1>1
  <2>4. t \in Seq(Digits) /\ LuhnSum(t, 1) % 10 # 0
    BY Zenon, <2>1, <2>2, <2>3, LuhnRefuses
  <2> QED BY Zenon, <1>1, <2>4 DEF Formed, Rules
<1>2. CASE k = "nhs"
  <2>1. n \in Seq(Digits) /\ Len(n) = 10
    BY Zenon, <1>2 DEF Formed
  <2>2. (NHSSum(n) + n[10]) % 11 = 0
    BY Zenon, <1>2 DEF Rules
  <2>3. t \in Seq(Digits) /\ Len(t) = 10 /\ (NHSSum(t) + t[10]) % 11 # 0
    BY Zenon, <2>1, <2>2, NHSRefuses
  <2> QED BY Zenon, <1>2, <2>3 DEF Formed, Rules
<1>3. CASE k = "nir"
  <2>1. NIRShaped(n) /\ NIRRule(n)
    BY Zenon, <1>3 DEF Formed, Rules
  <2>2. NIRShaped(t) /\ ~NIRRule(t)
    BY Zenon, <2>1, NIRRefuses
  <2> QED BY Zenon, <1>3, <2>2 DEF Formed, Rules
<1>4. CASE k = "iban"
  <2>1. n \in Seq(Alphabet) /\ IBANRule(n)
    BY Zenon, <1>4 DEF Formed, Rules
  <2>2. Len(n) \in 15..34 /\ Mod97(Rearranged(n)) = 1
    BY Zenon, <2>1 DEF IBANRule
  <2>3. t \in Seq(Alphabet) /\ ~IBANRule(t)
    BY Zenon, <2>1, <2>2, IBANRefuses
  <2> QED BY Zenon, <1>4, <2>3 DEF Formed, Rules
<1>5. CASE k = "routing"
  <2>1. n \in Seq(Digits)
    BY Zenon, <1>5 DEF Formed
  <2>2. RoutingNumberCheck(n)
    BY Zenon, <1>5 DEF Rules, Reads
  <2>3. Mistyped(n, t)
    BY Zenon, <1>5
  <2>4. n \in Seq(Nat) /\ Digits \subseteq Nat
    BY <2>1 DEF Digits
  <2>5. Len(n) = 9 /\ RoutingSum(n) % 10 = 0
    <3>1. Laid(n, n, [j \in 1..Len(n) |-> j], {})
      BY Zenon, <2>4, LaidBare
    <3> QED BY Zenon, <2>1, <2>2, <3>1, RoutingOf
  <2>6. t \in Seq(Digits)
    BY Zenon, <2>1, <2>3, WrongTyped
  <2>7. ~RoutingNumberCheck(t)
    <3>1. t \in Seq(Nat)
      BY <2>6 DEF Digits
    <3>2. Laid(t, t, [j \in 1..Len(t) |-> j], {})
      BY Zenon, <3>1, LaidBare
    <3> QED BY Zenon, <2>1, <2>3, <2>5, <3>2, RoutingRefuses
  <2> QED BY Zenon, <1>5, <2>6, <2>7 DEF Formed, Rules, Reads
<1> QED BY Zenon, <1>1, <1>2, <1>3, <1>4, <1>5 DEF Checked

\* What an issuer gives out is a number that the rule takes.
LEMMA AlphabetIs == Digits \union Capitals = Alphabet
BY DEF Digits, Capitals, Alphabet

\* With its check digit, a number passes.
LEMMA LuhnIssued ==
  ASSUME NEW body \in Seq(Digits)
  PROVE  LET n == Append(body, LuhnCheckDigit(body))
         IN  n \in Seq(Digits) /\ Len(n) = Len(body) + 1 /\ LuhnSum(n, 1) % 10 = 0
<1> DEFINE x == LuhnCheckDigit(body)
<1>1. x \in Digits
  <2>1. 0 \in Digits
    BY DEF Digits
  <2> QED BY <2>1, LuhnAppends
<1>2. Append(body, x) \in Seq(Digits) /\ LuhnSum(Append(body, x), 1) % 10 = 0
  BY Zenon, <1>1, LuhnAppends
<1> HIDE DEF x
<1>3. Len(Append(body, x)) = Len(body) + 1
  BY <1>1
<1> QED BY Zenon, <1>2, <1>3 DEF x

\* With the next one, it does not.
LEMMA LuhnMinted ==
  ASSUME NEW body \in Seq(Digits)
  PROVE  LET n == Append(body, InvalidCheckDigit(LuhnCheckDigit(body)))
         IN  n \in Seq(Digits) /\ LuhnSum(n, 1) % 10 # 0
<1> DEFINE x == LuhnCheckDigit(body)
           y == InvalidCheckDigit(x)
<1>1. x \in Digits
  <2>1. 0 \in Digits
    BY DEF Digits
  <2> QED BY <2>1, LuhnAppends
<1>2. y \in Digits
  <2> HIDE DEF x
  <2> QED BY <1>1 DEF InvalidCheckDigit, Digits
<1> QED BY Zenon, <1>2, LuhnAppends

\* What its issuer makes of a body has the form of its kind and passes its rule.
LEMMA IssuedRuled ==
  ASSUME NEW k \in Assignable, NEW body, Body(k, body), Assigned(k, body)
  PROVE  /\ Formed(k, Issued(k, body)) /\ Rules(k, Issued(k, body))
         /\ k = "iban" => IBANBodied(body) /\ Issued(k, body) = IBANIssued(body)
<1> DEFINE n == Issued(k, body)
<1>1. CASE k = "card"
  <2>1. body \in Seq(Digits) /\ Len(body) \in 12..18
    BY Zenon, <1>1 DEF Body
  <2>2. n = Append(body, LuhnCheckDigit(body))
    BY Zenon, <1>1 DEF Issued
  <2> HIDE DEF n
  <2>3. n \in Seq(Digits) /\ Len(n) = Len(body) + 1 /\ LuhnSum(n, 1) % 10 = 0
    BY Zenon, <2>1, <2>2, LuhnIssued
  <2>4. Len(n) \in 13..19
    <3> DEFINE l == Len(body)
    <3>1. l \in 12..18 /\ Len(n) = l + 1
      BY Zenon, <2>1, <2>3
    <3> HIDE DEF l
    <3> QED BY <3>1
  <2>5. Formed(k, n) /\ Rules(k, n)
    BY Zenon, <1>1, <2>3, <2>4 DEF Formed, Rules
  <2> QED BY Zenon, <1>1, <2>5 DEF n
<1>2. CASE k = "siren"
  <2>1. body \in Seq(Digits) /\ Len(body) = 8
    BY Zenon, <1>2 DEF Body
  <2>2. n = Append(body, LuhnCheckDigit(body))
    BY Zenon, <1>2 DEF Issued
  <2> HIDE DEF n
  <2>3. n \in Seq(Digits) /\ Len(n) = Len(body) + 1 /\ LuhnSum(n, 1) % 10 = 0
    BY Zenon, <2>1, <2>2, LuhnIssued
  <2>4. Len(n) = 9
    <3>1. 8 + 1 = 9
      OBVIOUS
    <3> QED BY Zenon, <2>1, <2>3, <3>1
  <2>5. Formed(k, n) /\ Rules(k, n)
    BY Zenon, <1>2, <2>3, <2>4 DEF Formed, Rules
  <2> QED BY Zenon, <1>2, <2>5 DEF n
<1>3. CASE k = "siret"
  <2>1. body \in Seq(Digits) /\ Len(body) = 13
    BY Zenon, <1>3 DEF Body
  <2>2. n = Append(body, LuhnCheckDigit(body))
    BY Zenon, <1>3 DEF Issued
  <2> HIDE DEF n
  <2>3. n \in Seq(Digits) /\ Len(n) = Len(body) + 1 /\ LuhnSum(n, 1) % 10 = 0
    BY Zenon, <2>1, <2>2, LuhnIssued
  <2>4. Len(n) = 14
    <3>1. 13 + 1 = 14
      OBVIOUS
    <3> QED BY Zenon, <2>1, <2>3, <3>1
  <2>5. Formed(k, n) /\ Rules(k, n)
    BY Zenon, <1>3, <2>3, <2>4 DEF Formed, Rules
  <2> QED BY Zenon, <1>3, <2>5 DEF n
<1>4. CASE k = "nhs"
  <2>1. body \in Seq(Digits) /\ Len(body) = 9 /\ NHSDigit(body) # 10
    BY Zenon, <1>4 DEF Body, Assigned
  <2>2. n = Append(body, NHSDigit(body))
    BY Zenon, <1>4 DEF Issued
  <2> DEFINE x == NHSDigit(body)
             y == NHSSum(body)
  <2>3. x \in Digits /\ (y + x) % 11 = 0
    BY Zenon, <2>1, NHSAppends
  <2>4. n = Append(body, x)
    BY <2>2
  <2> HIDE DEF n, x
  <2>5. n \in Seq(Digits) /\ Len(n) = 10 /\ n[10] = x /\ NHSSum(n) = y
    <3>1. /\ Append(body, x) \in Seq(Digits) /\ Len(Append(body, x)) = 10
          /\ Append(body, x)[10] = x /\ NHSSum(Append(body, x)) = NHSSum(body)
      BY Zenon, <2>1, <2>3, NHSAppends
    <3> QED BY Zenon, <2>4, <3>1
  <2> HIDE DEF y
  <2>6. Formed(k, n) /\ Rules(k, n)
    BY Zenon, <1>4, <2>3, <2>5 DEF Formed, Rules
  <2> QED BY Zenon, <1>4, <2>6 DEF n
<1>5. CASE k = "nir"
  <2>1. NIRBodied(body)
    BY Zenon, <1>5, AlphabetIs DEF Body, NIRBodied
  <2>2. n = body \o Padded(NIRKey(body), 2)
    BY Zenon, <1>5 DEF Issued
  <2> HIDE DEF n
  <2>3. NIRShaped(n) /\ NIRRule(n)
    BY Zenon, <2>1, <2>2, NIRIssues
  <2>4. Formed(k, n) /\ Rules(k, n)
    BY Zenon, <1>5, <2>3 DEF Formed, Rules
  <2> QED BY Zenon, <1>5, <2>4 DEF n
<1>6. CASE k = "iban"
  <2>1. IBANBodied(body)
    BY Zenon, <1>6, AlphabetIs DEF Body, IBANBodied
  <2>2. n = IBANIssued(body)
    BY Zenon, <1>6 DEF Issued, IBANIssued
  <2> HIDE DEF n
  <2>3. n \in Seq(Alphabet) /\ IBANRule(n)
    BY Zenon, <2>1, <2>2, IBANIssues
  <2>4. Formed(k, n) /\ Rules(k, n)
    BY Zenon, <1>6, <2>3 DEF Formed, Rules
  <2> QED BY Zenon, <2>1, <2>2, <2>4 DEF n
<1>7. CASE k = "nino"
  <2>1. body \in Seq(Alphabet) /\ Reads(k, body)
    BY Zenon, <1>7, AlphabetIs DEF Body
  <2>2. n = body
    BY Zenon, <1>7 DEF Issued
  <2> HIDE DEF n
  <2>3. Formed(k, n) /\ Rules(k, n)
    BY Zenon, <1>7, <2>1, <2>2 DEF Formed, Rules
  <2> QED BY Zenon, <1>7, <2>3 DEF n
<1>8. CASE k \in {"ssn", "routing"}
  <2>1. body \in Seq(Digits) /\ Reads(k, body)
    BY Zenon, <1>8 DEF Body
  <2>2. n = body
    BY Zenon, <1>8 DEF Issued
  <2> HIDE DEF n
  <2>3. Formed(k, n) /\ Rules(k, n)
    BY Zenon, <1>8, <2>1, <2>2 DEF Formed, Rules
  <2> QED BY Zenon, <1>8, <2>3 DEF n
<1>9. CASE k \in {"ip", "email", "postcode"}
  <2>1. body \in Seq(Nat) /\ Reads(k, body)
    BY Zenon, <1>9 DEF Body
  <2>2. n = body
    BY Zenon, <1>9 DEF Issued
  <2> HIDE DEF n
  <2>3. Formed(k, n) /\ Rules(k, n)
    BY Zenon, <1>9, <2>1, <2>2 DEF Formed, Rules
  <2> QED BY Zenon, <1>9, <2>3 DEF n
<1> QED BY Zenon, <1>1, <1>2, <1>3, <1>4, <1>5, <1>6, <1>7, <1>8, <1>9 DEF Assignable, Mintable

-----------------------------------------------------------------------------
(* What fake mode mints. *)

\* A sequence over a set is one over a wider set.
LEMMA WiderSeq ==
  ASSUME NEW S, NEW T, S \subseteq T, NEW s, s \in Seq(S)
  PROVE  s \in Seq(T)
OBVIOUS

\* A sequence of two is the pair of its members.
LEMMA Pair ==
  ASSUME NEW S, NEW u \in Seq(S), Len(u) = 2
  PROVE  u = <<u[1], u[2]>>
<1>1. u[1] \in S /\ u[2] \in S
  OBVIOUS
<1> DEFINE x == u[1]
           y == u[2]
           v == <<x, y>>
           n == 2
<1>2. n \in Nat /\ \A k \in 1..n : k = 1 \/ k = 2
  OBVIOUS
<1>3. Len(u) = n
  OBVIOUS
<1> HIDE DEF x, y
<1>4. v \in Seq(S) /\ Len(v) = n /\ v[1] = x /\ v[2] = y
  BY <1>1 DEF x, y
<1> HIDE DEF v, n
<1>5. \A k \in 1..n : u[k] = v[k]
  BY Zenon, <1>2, <1>4 DEF x, y
<1>6. u = v
  BY Zenon, <1>2, <1>3, <1>4, <1>5, Alike
<1> QED BY Zenon, <1>6 DEF v, x, y

\* The first two of a sequence.
LEMMA FirstTwo ==
  ASSUME NEW S, NEW s \in Seq(S), NEW x, NEW y, Len(s) >= 2, s[1] = x, s[2] = y
  PROVE  SubSeq(s, 1, 2) = <<x, y>>
<1> DEFINE u == SubSeq(s, 1, 2)
<1>1. u \in Seq(S) /\ Len(u) = 2 /\ u[1] = s[1] /\ u[2] = s[2]
  OBVIOUS
<1> HIDE DEF u
<1>2. u = <<u[1], u[2]>>
  BY Zenon, <1>1, Pair
<1> QED BY Zenon, <1>1, <1>2 DEF u

\* Its third and fourth.
LEMMA ThirdAndFourth ==
  ASSUME NEW S, NEW s \in Seq(S), NEW x, NEW y, Len(s) >= 4, s[3] = x, s[4] = y
  PROVE  SubSeq(s, 3, 4) = <<x, y>>
<1> DEFINE u == SubSeq(s, 3, 4)
<1>1. u \in Seq(S) /\ Len(u) = 2 /\ u[1] = s[3] /\ u[2] = s[4]
  OBVIOUS
<1> HIDE DEF u
<1>2. u = <<u[1], u[2]>>
  BY Zenon, <1>1, Pair
<1> QED BY Zenon, <1>1, <1>2 DEF u

\* Its first three, where they are zeros.
LEMMA FirstThree ==
  ASSUME NEW S, NEW s \in Seq(S), Len(s) >= 3, 0 \in S, s[1] = 0, s[2] = 0, s[3] = 0
  PROVE  SubSeq(s, 1, 3) = <<0, 0, 0>>
<1> DEFINE u == SubSeq(s, 1, 3)
           v == <<0, 0, 0>>
           n == 3
<1>1. u \in Seq(S) /\ Len(u) = n /\ \A k \in 1..n : u[k] = s[k]
  OBVIOUS
<1>2. v \in Seq(S) /\ Len(v) = n /\ \A k \in 1..n : v[k] = 0
  OBVIOUS
<1>3. n \in Nat /\ \A k \in 1..n : s[k] = 0
  OBVIOUS
<1> HIDE DEF u, v, n
<1>4. \A k \in 1..n : u[k] = v[k]
  BY Zenon, <1>1, <1>2, <1>3
<1>5. u = v
  BY Zenon, <1>1, <1>2, <1>3, <1>4, Alike
<1> QED BY <1>5 DEF u, v

\* A stand-in for a number of the register has the key next to its own.
LEMMA NIRMinted ==
  ASSUME NEW i \in Nat
  PROVE  LET body == <<1, 9, 0, 0, 1, 9, 9>> \o Padded(i, 6)
             n == body \o Padded(((97 - Mod97(body)) % 97) + 1, 2)
         IN  NIRShaped(n) /\ ~NIRRule(n)
<1> DEFINE front == <<1, 9, 0, 0, 1, 9, 9>>
           tail == Padded(i, 6)
           body == front \o tail
           m == Mod97(body)
           key == ((97 - m) % 97) + 1
           n == body \o Padded(key, 2)
<1>1. front \in Seq(Digits) /\ Len(front) = 7 /\ front[7] = 9
  BY DEF Digits
<1>2. tail \in Seq(Digits) /\ Len(tail) = 6
  <2>1. 6 \in Nat
    OBVIOUS
  <2> QED BY Zenon, <2>1, PaddedTyped
<1> HIDE DEF front, tail
<1>3. body \in Seq(Digits) /\ Len(body) = 7 + 6 /\ body[7] = 9
  <2>1. Joined(Digits, front, tail)
    BY Joins
  <2>2. 7 \in 1..7
    OBVIOUS
  <2> QED BY Zenon, <1>1, <1>2, <2>1, <2>2 DEF Joined
<1> HIDE DEF body
<1>4. NIRBodied(body) /\ body[7] \notin {10, 11}
  <2>1. 7 + 6 = 13 /\ 13 \in Nat /\ 9 \notin {10, 11}
    OBVIOUS
  <2>2. body \in Seq(Alphabet)
    <3>1. Digits \subseteq Alphabet
      BY DEF Digits, Alphabet
    <3> QED BY <1>3, <3>1
  <2>3. \A j \in 1..13 : body[j] \in Digits
    <3>1. Len(body) = 13
      BY Zenon, <1>3, <2>1
    <3>2. \A j \in 1..13 : body[j] \in 0..9
      BY Zenon, <1>3, <2>1, <3>1, DigitsTyped
    <3> QED BY Zenon, <3>2 DEF Digits
  <2> QED BY Zenon, <1>3, <2>1, <2>2, <2>3 DEF NIRBodied
<1>5. body \in Seq(Alphabet)
  BY Zenon, <1>4 DEF NIRBodied
<1>6. m \in 0..96
  BY Zenon, <1>5, Mod97Typed
<1>7. NIRSpelt(body) = body
  BY Zenon, <1>4, NIRPlain
<1> HIDE DEF m
<1>8. key \in 0..99 /\ 97 - m # key
  BY Zenon, <1>6, KeyMinted
<1> HIDE DEF key
<1>9. NIRShaped(n) /\ (NIRRule(n) <=> 97 - NIRBody(n) = key)
  BY Zenon, <1>4, <1>8, NIRJoinedRule
<1>10. NIRBody(n) = m
  <2> DEFINE p == Padded(key, 2)
  <2>1. p \in Seq(Digits) /\ Len(p) = 2
    <3>1. 2 \in Nat /\ \A x \in 0..99 : x \in Nat
      OBVIOUS
    <3> QED BY Zenon, <1>8, <3>1, PaddedTyped
  <2> HIDE DEF p
  <2>2. NIRBody(body \o p) = Mod97(NIRSpelt(body))
    BY Zenon, <1>4, <2>1, NIRSpeltRemainder
  <2> QED BY Zenon, <1>7, <2>2 DEF p, m
<1>11. ~NIRRule(n)
  BY Zenon, <1>8, <1>9, <1>10
<1> QED BY Zenon, <1>9, <1>11 DEF n, key, m, body, tail, front

\* One for an account has the key 00, which no account has.
LEMMA IBANMinted ==
  ASSUME NEW i \in Nat
  PROVE  LET n == <<15, 27, 0, 0>> \o Padded(i, 23)
         IN  n \in Seq(Alphabet) /\ ~IBANRule(n)
<1> DEFINE front == <<15, 27, 0, 0>>
           tail == Padded(i, 23)
           n == front \o tail
<1>1. front \in Seq(Alphabet) /\ Len(front) = 4 /\ front[3] = 0 /\ front[4] = 0
  BY DEF Alphabet
<1>2. tail \in Seq(Alphabet) /\ Len(tail) = 23
  <2>1. 23 \in Nat
    OBVIOUS
  <2>2. tail \in Seq(Digits) /\ Len(tail) = 23
    BY Zenon, <2>1, PaddedTyped
  <2> HIDE DEF tail
  <2>3. Digits \subseteq Alphabet
    BY DEF Digits, Alphabet
  <2> QED BY <2>2, <2>3
<1> HIDE DEF front, tail
<1>3. n \in Seq(Alphabet) /\ Len(n) = 4 + 23 /\ n[3] = 0 /\ n[4] = 0
  <2>1. Joined(Alphabet, front, tail)
    BY Joins
  <2>2. 3 \in 1..4 /\ 4 \in 1..4
    OBVIOUS
  <2> QED BY Zenon, <1>1, <1>2, <2>1, <2>2 DEF Joined
<1> HIDE DEF n
<1>4. SubSeq(n, 3, 4) = <<0, 0>>
  <2>1. 4 + 23 >= 4
    OBVIOUS
  <2>2. Len(n) >= 4
    BY Zenon, <1>3, <2>1
  <2> QED BY Zenon, <1>3, <2>2, ThirdAndFourth
<1>5. ~IBANRule(n)
  BY Zenon, <1>4 DEF IBANRule, ImpossibleKeys
<1> QED BY Zenon, <1>3, <1>5 DEF n, front, tail

\* One for an insurance number has a prefix that is not issued.
LEMMA NINOMinted ==
  ASSUME NEW i \in Nat
  PROVE  LET n == <<35, 35>> \o Padded(i, 6) \o <<10>>
         IN  n \in Seq(Alphabet) /\ ~NINOCheck(n)
<1> DEFINE front == <<35, 35>>
           tail == Padded(i, 6)
           m == front \o tail
           n == m \o <<10>>
<1>1. /\ front \in Seq(Alphabet) /\ Len(front) = 2 /\ front[1] = 35 /\ front[2] = 35
      /\ <<10>> \in Seq(Alphabet) /\ Len(<<10>>) = 1
  BY DEF Alphabet
<1>2. tail \in Seq(Alphabet) /\ Len(tail) = 6
  <2>1. 6 \in Nat
    OBVIOUS
  <2>2. tail \in Seq(Digits) /\ Len(tail) = 6
    BY Zenon, <2>1, PaddedTyped
  <2> HIDE DEF tail
  <2>3. Digits \subseteq Alphabet
    BY DEF Digits, Alphabet
  <2> QED BY <2>2, <2>3
<1> HIDE DEF front, tail
<1>3. m \in Seq(Alphabet) /\ Len(m) = 2 + 6 /\ m[1] = 35 /\ m[2] = 35
  <2>1. Joined(Alphabet, front, tail)
    BY Joins
  <2>2. 1 \in 1..2 /\ 2 \in 1..2
    OBVIOUS
  <2> QED BY Zenon, <1>1, <1>2, <2>1, <2>2 DEF Joined
<1> HIDE DEF m
<1>4. n \in Seq(Alphabet) /\ Len(n) = (2 + 6) + 1 /\ n[1] = 35 /\ n[2] = 35
  <2>1. Joined(Alphabet, m, <<10>>)
    BY Joins
  <2>2. 1 \in 1..(2 + 6) /\ 2 \in 1..(2 + 6)
    OBVIOUS
  <2> QED BY Zenon, <1>1, <1>3, <2>1, <2>2 DEF Joined
<1> HIDE DEF n
<1>5. SubSeq(n, 1, 2) = <<35, 35>>
  <2>1. (2 + 6) + 1 >= 2
    OBVIOUS
  <2>2. Len(n) >= 2
    BY Zenon, <1>4, <2>1
  <2> QED BY Zenon, <1>4, <2>2, FirstTwo
<1>6. Without(Capital(n), {Space, Dash}) = n
  <2>1. n \in Seq(Nat)
    <3>1. Alphabet \subseteq Nat
      BY DEF Alphabet
    <3> QED BY Zenon, <1>4, <3>1, WiderSeq
  <2>2. Laid(n, n, [k \in 1..Len(n) |-> k], {Space, Dash})
    BY <2>1, LaidBare
  <2>3. {Space, Dash} \subseteq {Space, Dot, Dash}
    OBVIOUS
  <2> QED BY <1>4, <2>2, <2>3, PlainOf
<1>7. ~NINOCheck(n)
  BY Zenon, <1>5, <1>6 DEF NINOCheck, NINOUnissued
<1> QED BY Zenon, <1>4, <1>7 DEF n, m, front, tail

\* What is read of digits alone.
LEMMA BareDigits ==
  ASSUME NEW n \in Seq(Digits), NEW want
  PROVE  OnlyDigits(n, want) = IF Len(n) = want THEN n ELSE <<>>
<1>1. Digits \subseteq Nat
  BY DEF Digits
<1>2. n \in Seq(Nat)
  BY Zenon, <1>1, WiderSeq
<1>3. Laid(n, n, [k \in 1..Len(n) |-> k], {Space, Dash})
  BY <1>2, LaidBare
<1>4. {Space, Dash} \subseteq {Space, Dot, Dash}
  OBVIOUS
<1> QED BY <1>3, <1>4, DigitsOf

\* One for a social security number has the area 000.
LEMMA SSNMinted ==
  ASSUME NEW i \in Nat
  PROVE  LET n == <<0, 0, 0>> \o Padded((i \div 10000) % 100, 2) \o Padded(i % 10000, 4)
         IN  n \in Seq(Digits) /\ ~SSNCheck(n)
<1> DEFINE front == <<0, 0, 0>>
           a == (i \div 10000) % 100
           b == i % 10000
           group == Padded(a, 2)
           serial == Padded(b, 4)
           m == front \o group
           n == m \o serial
<1>1. front \in Seq(Digits) /\ Len(front) = 3 /\ front[1] = 0 /\ front[2] = 0 /\ front[3] = 0
  BY DEF Digits
<1>2. a \in Nat /\ b \in Nat
  <2> DEFINE q == i \div 10000
  <2>1. q \in Nat
    BY SMT
  <2> HIDE DEF q
  <2>2. q % 100 \in Nat /\ i % 10000 \in Nat
    BY SMT, <2>1
  <2> QED BY SMT, <2>2 DEF q
<1> HIDE DEF a, b, front
<1>3. group \in Seq(Digits) /\ Len(group) = 2 /\ serial \in Seq(Digits) /\ Len(serial) = 4
  <2>1. 2 \in Nat /\ 4 \in Nat
    OBVIOUS
  <2> QED BY Zenon, <1>2, <2>1, PaddedTyped
<1> HIDE DEF group, serial
<1>4. m \in Seq(Digits) /\ Len(m) = 3 + 2 /\ m[1] = 0 /\ m[2] = 0 /\ m[3] = 0
  <2>1. Joined(Digits, front, group)
    BY Joins
  <2>2. 1 \in 1..3 /\ 2 \in 1..3 /\ 3 \in 1..3
    OBVIOUS
  <2> QED BY Zenon, <1>1, <1>3, <2>1, <2>2 DEF Joined
<1> HIDE DEF m
<1>5. n \in Seq(Digits) /\ Len(n) = (3 + 2) + 4 /\ n[1] = 0 /\ n[2] = 0 /\ n[3] = 0
  <2>1. Joined(Digits, m, serial)
    BY Joins
  <2>2. 1 \in 1..(3 + 2) /\ 2 \in 1..(3 + 2) /\ 3 \in 1..(3 + 2)
    OBVIOUS
  <2> QED BY Zenon, <1>3, <1>4, <2>1, <2>2 DEF Joined
<1> HIDE DEF n
<1>6. SubSeq(n, 1, 3) = <<0, 0, 0>>
  <2>1. (3 + 2) + 4 >= 3
    OBVIOUS
  <2>2. Len(n) >= 3
    BY Zenon, <1>5, <2>1
  <2>3. 0 \in Digits
    BY DEF Digits
  <2> QED BY Zenon, <1>5, <2>2, <2>3, FirstThree
<1>7. OnlyDigits(n, 9) = n \/ OnlyDigits(n, 9) = <<>>
  BY <1>5, BareDigits
<1>8. ~SSNCheck(n)
  BY Zenon, <1>6, <1>7 DEF SSNCheck
<1>9. n = <<0, 0, 0>> \o Padded((i \div 10000) % 100, 2) \o Padded(i % 10000, 4)
  BY DEF n, m, group, serial, front, a, b
<1> QED BY <1>5, <1>8, <1>9

\* One for a routing number begins with 99, which no bank has.
LEMMA RoutingMinted ==
  ASSUME NEW i \in Nat
  PROVE  LET n == <<9, 9>> \o Padded(i, 7)
         IN  n \in Seq(Digits) /\ ~RoutingNumberCheck(n)
<1> DEFINE front == <<9, 9>>
           tail == Padded(i, 7)
           n == front \o tail
<1>1. front \in Seq(Digits) /\ Len(front) = 2 /\ front[1] = 9 /\ front[2] = 9
  BY DEF Digits
<1>2. tail \in Seq(Digits) /\ Len(tail) = 7
  <2>1. 7 \in Nat
    OBVIOUS
  <2> QED BY Zenon, <2>1, PaddedTyped
<1> HIDE DEF front, tail
<1>3. n \in Seq(Digits) /\ n[1] = 9 /\ n[2] = 9
  <2>1. Joined(Digits, front, tail)
    BY Joins
  <2>2. 1 \in 1..2 /\ 2 \in 1..2
    OBVIOUS
  <2> QED BY Zenon, <1>1, <1>2, <2>1, <2>2 DEF Joined
<1> HIDE DEF n
<1>4. OnlyDigits(n, 9) = n \/ OnlyDigits(n, 9) = <<>>
  BY <1>3, BareDigits
<1>5. 10 * 9 + 9 \notin 0..12 \union 21..32 \union 61..72 \union {80}
  OBVIOUS
<1>6. ~RoutingNumberCheck(n)
  <2> DEFINE d == OnlyDigits(n, 9)
  <2>1. RoutingNumberCheck(n) =>
          d # <<>> /\ 10 * d[1] + d[2] \in 0..12 \union 21..32 \union 61..72 \union {80}
    BY Zenon DEF RoutingNumberCheck
  <2> HIDE DEF d
  <2>2. d = n \/ d = <<>>
    BY Zenon, <1>4 DEF d
  <2> QED BY Zenon, <1>3, <1>5, <2>1, <2>2
<1> QED BY Zenon, <1>3, <1>6 DEF n, front, tail

\* One for an address is in a domain of the documentation.
LEMMA EmailMinted == <<Example, 203>> \in Seq(Nat) /\ ~DocumentationEmailCheck(<<Example, 203>>)
<1> DEFINE domain == <<Example, 203>>
           words == [i \in DOMAIN domain |-> Lowered(domain[i])]
<1>1. /\ domain \in Seq(Nat) /\ DOMAIN domain = 1..2 /\ domain[1] = 200 /\ domain[2] = 203
  BY DEF Example
<1> HIDE DEF domain
<1>2. Lowered(200) = 200 /\ Lowered(203) = 203
  BY DEF Lowered
<1>3. words \in Seq(Nat) /\ Len(words) = 2 /\ words[1] = 200 /\ words[2] = 203
  <2>1. /\ 1 \in 1..2 /\ 2 \in 1..2 /\ \A i \in 1..2 : i = 1 \/ i = 2
        /\ 200 \in Nat /\ 203 \in Nat
    OBVIOUS
  <2>2. words[1] = 200 /\ words[2] = 203 /\ words = [i \in 1..2 |-> Lowered(domain[i])]
    BY <1>1, <1>2, <2>1
  <2>3. \A i \in 1..2 : Lowered(domain[i]) \in Nat
    <3>1. Lowered(domain[1]) \in Nat /\ Lowered(domain[2]) \in Nat
      BY <1>1, <1>2
    <3> QED BY Zenon, <2>1, <3>1
  <2>4. words \in Seq(Nat) /\ Len(words) = 2
    BY <2>2, <2>3
  <2> QED BY Zenon, <2>2, <2>4
<1> HIDE DEF words
<1>4. words = <<Example, 203>>
  <2>1. words = <<words[1], words[2]>>
    BY Zenon, <1>3, Pair
  <2> QED BY Zenon, <1>3, <2>1 DEF Example
<1>5. words \in {<<Example, tld>> : tld \in SecondLevel}
  <2>1. 203 \in SecondLevel
    BY DEF SecondLevel
  <2> QED BY Zenon, <1>4, <2>1
<1>6. ~DocumentationEmailCheck(domain)
  BY Zenon, <1>5 DEF DocumentationEmailCheck, words
<1> QED BY Zenon, <1>1, <1>6 DEF domain

\* One for an address of the network is in a block of the documentation.
LEMMA IPMinted ==
  ASSUME NEW i \in Nat, 1 <= i, i <= 768
  PROVE  LET blocks == <<<<192, 0, 2>>, <<198, 51, 100>>, <<203, 0, 113>>>>
             n == Append(blocks[((i - 1) \div 256) + 1], (i - 1) % 256)
         IN  n \in Seq(Nat) /\ ~IPAddressCheck(n)
<1> DEFINE blocks == <<<<192, 0, 2>>, <<198, 51, 100>>, <<203, 0, 113>>>>
           which == ((i - 1) \div 256) + 1
           block == blocks[which]
           last == (i - 1) % 256
           n == Append(block, last)
<1>1. which \in 1..3 /\ last \in Nat
  OBVIOUS
<1> HIDE DEF which, last
<1>2. block \in {<<192, 0, 2>>, <<198, 51, 100>>, <<203, 0, 113>>}
  <2>1. which = 1 \/ which = 2 \/ which = 3
    BY <1>1
  <2> QED BY <2>1
<1> HIDE DEF block
<1>3. block \in Seq(Nat) /\ Len(block) = 3
  <2>1. /\ <<192, 0, 2>> \in Seq(Nat) /\ Len(<<192, 0, 2>>) = 3
        /\ <<198, 51, 100>> \in Seq(Nat) /\ Len(<<198, 51, 100>>) = 3
        /\ <<203, 0, 113>> \in Seq(Nat) /\ Len(<<203, 0, 113>>) = 3
    OBVIOUS
  <2> QED BY Zenon, <1>2, <2>1
<1>4. n \in Seq(Nat) /\ SubSeq(n, 1, 3) = block
  <2> DEFINE three == 3
             u == SubSeq(n, 1, three)
  <2>1. n \in Seq(Nat) /\ Len(n) = 3 + 1 /\ \A k \in 1..3 : n[k] = block[k]
    <3>1. three \in Nat /\ Len(block) = three
      BY <1>3
    <3> HIDE DEF three
    <3>2. n \in Seq(Nat) /\ Len(n) = three + 1 /\ \A k \in 1..three : n[k] = block[k]
      BY <1>1, <1>3, <3>1, AppendFacts
    <3> QED BY <3>2 DEF three
  <2>2. three \in Nat /\ three <= Len(n) /\ Len(block) = three
    BY <1>3, <2>1
  <2>3. \A k \in 1..three : n[k] = block[k]
    BY <2>1
  <2> HIDE DEF n, three
  <2>4. u \in Seq(Nat) /\ Len(u) = three /\ \A k \in 1..three : u[k] = n[k]
    BY Zenon, <2>1, <2>2, Heads
  <2>5. \A k \in 1..three : u[k] = block[k]
    BY Zenon, <2>3, <2>4
  <2>6. u = block
    BY Zenon, <1>3, <2>2, <2>4, <2>5, Alike
  <2> QED BY Zenon, <2>1, <2>6 DEF three
<1> HIDE DEF n
<1>5. SubSeq(n, 1, 3) \in {<<192, 0, 2>>, <<198, 51, 100>>, <<203, 0, 113>>, <<192, 0, 0>>}
  BY Zenon, <1>2, <1>4
<1>6. ~IPAddressCheck(n)
  BY Zenon, <1>5 DEF IPAddressCheck
<1>7. n = Append(blocks[((i - 1) \div 256) + 1], (i - 1) % 256)
  BY DEF n, block, which, last
<1> QED BY <1>4, <1>6, <1>7 DEF blocks

\* Every stand-in has the form of its kind and breaks its rule.
LEMMA MintRefused ==
  ASSUME NEW k \in Mintable, NEW i \in Nat, 1 <= i, k = "ip" => i <= 768
  PROVE  Formed(k, StandIn(k, i)) /\ ~Rules(k, StandIn(k, i))
<1> DEFINE n == StandIn(k, i)
<1>1. CASE k = "card"
  <2> DEFINE front == <<4, 0, 0, 0, 0, 0>>
             tail == Padded(i, 9)
             body == front \o tail
  <2>1. n = Append(body, InvalidCheckDigit(LuhnCheckDigit(body)))
    BY <1>1 DEF StandIn
  <2>2. body \in Seq(Digits)
    <3>1. front \in Seq(Digits)
      BY DEF Digits
    <3>2. tail \in Seq(Digits)
      <4>1. 9 \in Nat
        OBVIOUS
      <4> QED BY Zenon, <4>1, PaddedTyped
    <3> HIDE DEF front, tail
    <3>3. Joined(Digits, front, tail)
      BY Joins
    <3> QED BY Zenon, <3>1, <3>2, <3>3 DEF Joined
  <2> HIDE DEF n, body
  <2>3. n \in Seq(Digits) /\ LuhnSum(n, 1) % 10 # 0
    BY Zenon, <2>1, <2>2, LuhnMinted
  <2>4. Formed(k, n) /\ ~Rules(k, n)
    BY Zenon, <1>1, <2>3 DEF Formed, Rules
  <2> QED BY Zenon, <2>4 DEF n
<1>2. CASE k = "siren"
  <2> DEFINE body == Padded(i, 8)
  <2>1. n = Append(body, InvalidCheckDigit(LuhnCheckDigit(body)))
    BY <1>2 DEF StandIn
  <2>2. body \in Seq(Digits)
    <3>1. 8 \in Nat
      OBVIOUS
    <3> QED BY Zenon, <3>1, PaddedTyped
  <2> HIDE DEF n, body
  <2>3. n \in Seq(Digits) /\ LuhnSum(n, 1) % 10 # 0
    BY Zenon, <2>1, <2>2, LuhnMinted
  <2>4. Formed(k, n) /\ ~Rules(k, n)
    BY Zenon, <1>2, <2>3 DEF Formed, Rules
  <2> QED BY Zenon, <2>4 DEF n
<1>11. CASE k = "siret"
  <2> DEFINE body == Padded(i, 13)
  <2>1. n = Append(body, InvalidCheckDigit(LuhnCheckDigit(body)))
    BY <1>11 DEF StandIn
  <2>2. body \in Seq(Digits)
    <3>1. 13 \in Nat
      OBVIOUS
    <3> QED BY Zenon, <3>1, PaddedTyped
  <2> HIDE DEF n, body
  <2>3. n \in Seq(Digits) /\ LuhnSum(n, 1) % 10 # 0
    BY Zenon, <2>1, <2>2, LuhnMinted
  <2>4. Formed(k, n) /\ ~Rules(k, n)
    BY Zenon, <1>11, <2>3 DEF Formed, Rules
  <2> QED BY Zenon, <2>4 DEF n
<1>3. CASE k = "nhs"
  <2> DEFINE body == Padded(i, 9)
             x == InvalidNHSCheckDigit(body)
  <2>1. n = Append(body, x)
    BY <1>3 DEF StandIn
  <2>2. body \in Seq(Digits) /\ Len(body) = 9
    <3>1. 9 \in Nat
      OBVIOUS
    <3> QED BY Zenon, <3>1, PaddedTyped
  <2>3. x \in Digits /\ (NHSSum(body) + x) % 11 # 0
    <3> HIDE DEF body
    <3> QED BY Zenon, <2>2, NHSAppends
  <2> HIDE DEF n, body, x
  <2>4. /\ Append(body, x) \in Seq(Digits) /\ Len(Append(body, x)) = 10
        /\ Append(body, x)[10] = x /\ NHSSum(Append(body, x)) = NHSSum(body)
    BY Zenon, <2>2, <2>3, NHSAppends
  <2>5. n \in Seq(Digits) /\ Len(n) = 10 /\ (NHSSum(n) + n[10]) % 11 # 0
    BY Zenon, <2>1, <2>3, <2>4
  <2>6. Formed(k, n) /\ ~Rules(k, n)
    BY Zenon, <1>3, <2>5 DEF Formed, Rules
  <2> QED BY Zenon, <2>6 DEF n
<1>4. CASE k = "nir"
  <2> DEFINE body == <<1, 9, 0, 0, 1, 9, 9>> \o Padded(i, 6)
  <2>1. n = body \o Padded(((97 - Mod97(body)) % 97) + 1, 2)
    BY <1>4 DEF StandIn
  <2>2. NIRShaped(n) /\ ~NIRRule(n)
    <3> HIDE DEF n
    <3> QED BY Zenon, <2>1, NIRMinted
  <2> HIDE DEF n
  <2>3. Formed(k, n) /\ ~Rules(k, n)
    BY Zenon, <1>4, <2>2 DEF Formed, Rules
  <2> QED BY Zenon, <2>3 DEF n
<1>5. CASE k = "iban"
  <2>1. n = <<15, 27, 0, 0>> \o Padded(i, 23)
    BY <1>5 DEF StandIn
  <2> HIDE DEF n
  <2>2. n \in Seq(Alphabet) /\ ~IBANRule(n)
    BY Zenon, <2>1, IBANMinted
  <2>3. Formed(k, n) /\ ~Rules(k, n)
    BY Zenon, <1>5, <2>2 DEF Formed, Rules
  <2> QED BY Zenon, <2>3 DEF n
<1>6. CASE k = "nino"
  <2>1. n = <<35, 35>> \o Padded(i, 6) \o <<10>>
    BY <1>6 DEF StandIn
  <2> HIDE DEF n
  <2>2. n \in Seq(Alphabet) /\ ~NINOCheck(n)
    BY Zenon, <2>1, NINOMinted
  <2>3. Formed(k, n) /\ ~Rules(k, n)
    BY Zenon, <1>6, <2>2 DEF Formed, Rules, Reads
  <2> QED BY Zenon, <2>3 DEF n
<1>7. CASE k = "ssn"
  <2>1. n = <<0, 0, 0>> \o Padded((i \div 10000) % 100, 2) \o Padded(i % 10000, 4)
    BY <1>7 DEF StandIn
  <2> HIDE DEF n
  <2>2. n \in Seq(Digits) /\ ~SSNCheck(n)
    BY <2>1, SSNMinted
  <2>3. Formed(k, n) /\ ~Rules(k, n)
    BY Zenon, <1>7, <2>2 DEF Formed, Rules, Reads
  <2> QED BY Zenon, <2>3 DEF n
<1>8. CASE k = "routing"
  <2>1. n = <<9, 9>> \o Padded(i, 7)
    BY <1>8 DEF StandIn
  <2> HIDE DEF n
  <2>2. n \in Seq(Digits) /\ ~RoutingNumberCheck(n)
    BY Zenon, <2>1, RoutingMinted
  <2>3. Formed(k, n) /\ ~Rules(k, n)
    BY Zenon, <1>8, <2>2 DEF Formed, Rules, Reads
  <2> QED BY Zenon, <2>3 DEF n
<1>9. CASE k = "email"
  <2>1. n = <<Example, 203>>
    BY <1>9 DEF StandIn
  <2> HIDE DEF n
  <2>2. n \in Seq(Nat) /\ ~DocumentationEmailCheck(n)
    BY Zenon, <2>1, EmailMinted
  <2>3. Formed(k, n) /\ ~Rules(k, n)
    BY Zenon, <1>9, <2>2 DEF Formed, Rules, Reads
  <2> QED BY Zenon, <2>3 DEF n
<1>10. CASE k = "ip"
  <2> DEFINE blocks == <<<<192, 0, 2>>, <<198, 51, 100>>, <<203, 0, 113>>>>
  <2>1. n = Append(blocks[((i - 1) \div 256) + 1], (i - 1) % 256)
    BY SMTT(60), <1>10 DEF StandIn
  <2> HIDE DEF n
  <2>2. n \in Seq(Nat) /\ ~IPAddressCheck(n)
    BY ZenonT(60), <1>10, <2>1, IPMinted
  <2>3. Formed(k, n) /\ ~Rules(k, n)
    BY Zenon, <1>10, <2>2 DEF Formed, Rules, Reads
  <2> QED BY Zenon, <2>3 DEF n
<1>12. \/ k = "card" \/ k = "siren" \/ k = "siret" \/ k = "nhs" \/ k = "nir" \/ k = "iban"
       \/ k = "nino" \/ k = "ssn" \/ k = "routing" \/ k = "email" \/ k = "ip"
  BY DEF Mintable
<1> HIDE DEF n
<1>13. Formed(k, n) /\ ~Rules(k, n)
  BY Zenon, <1>1, <1>2, <1>3, <1>4, <1>5, <1>6, <1>7, <1>8, <1>9, <1>10, <1>11, <1>12 DEF n
<1> QED BY Zenon, <1>13 DEF n

-----------------------------------------------------------------------------
(* A slip in the text is one in the number. *)

\* Each character of a number has a place of its own in the text, in their order.
LEMMA LaidOnce ==
  ASSUME NEW text, NEW n, NEW place, NEW separators, Laid(text, n, place, separators)
  PROVE  /\ text \in Seq(Nat) /\ n \in Seq(Nat) /\ Len(text) \in Nat /\ Len(n) \in Nat
         /\ \A k \in 1..Len(n) : place[k] \in 1..Len(text) /\ text[place[k]] = n[k]
         /\ \A j, k \in 1..Len(n) : j < k <=> place[j] < place[k]
         /\ \A j, k \in 1..Len(n) : place[j] = place[k] => j = k
<1>1. /\ text \in Seq(Nat) /\ n \in Seq(Nat) /\ Len(text) \in Nat /\ Len(n) \in Nat
      /\ \A k \in 1..Len(n) : place[k] \in 1..Len(text) /\ text[place[k]] = n[k]
      /\ \A j, k \in 1..Len(n) : j < k => place[j] < place[k]
  BY SMTT(60) DEF Laid
<1>2. \A k \in 1..Len(n) : place[k] \in Int /\ k \in Int
  BY <1>1
<1>3. ASSUME NEW j \in 1..Len(n), NEW k \in 1..Len(n)
      PROVE  (place[j] < place[k] => j < k) /\ (place[j] = place[k] => j = k)
  <2>1. (j < k => place[j] < place[k]) /\ (k < j => place[k] < place[j])
    BY <1>1
  <2>2. j \in Int /\ k \in Int /\ place[j] \in Int /\ place[k] \in Int
    BY <1>2
  <2>3. j < k \/ j = k \/ k < j
    BY <2>2
  <2>4. j = k => place[j] = place[k]
    OBVIOUS
  <2> QED BY <2>1, <2>2, <2>3, <2>4
<1> QED BY <1>1, <1>3

\* The same places, with other characters at them.
LEMMA LaidAnew ==
  ASSUME NEW text, NEW n, NEW place, NEW separators, Laid(text, n, place, separators),
         NEW other \in Seq(Nat), Len(other) = Len(text), NEW t \in Seq(Nat), Len(t) = Len(n),
         \A k \in 1..Len(n) : other[place[k]] = t[k],
         \A i \in 1..Len(text) : (\A k \in 1..Len(n) : place[k] # i) => other[i] = text[i]
  PROVE  Laid(other, t, place, separators)
<1>1. \A i \in 1..Len(text) : other[i] \in separators \/ \E k \in 1..Len(n) : place[k] = i
  BY DEF Laid
<1> QED BY <1>1 DEF Laid

\* A sequence with one member changed.
LEMMA ChangedFacts ==
  ASSUME NEW S, NEW s \in Seq(S), NEW n \in Nat, Len(s) = n, NEW i \in 1..n, NEW x \in S
  PROVE  /\ [s EXCEPT ![i] = x] \in Seq(S) /\ Len([s EXCEPT ![i] = x]) = n
         /\ [s EXCEPT ![i] = x][i] = x
         /\ \A j \in 1..n : j # i => [s EXCEPT ![i] = x][j] = s[j]
OBVIOUS

\* A wrong digit in the text is a wrong digit in the number.
LEMMA LaidMistyped ==
  ASSUME NEW text, NEW n, NEW place, NEW separators, Laid(text, n, place, separators),
         separators \subseteq {Space, Dot, Dash},
         NEW i \in 1..Len(text), text[i] \in Digits, NEW d \in Digits, text[i] # d
  PROVE  \E t : Mistyped(n, t) /\ Laid([text EXCEPT ![i] = d], t, place, separators)
<1> DEFINE other == [text EXCEPT ![i] = d]
<1>1. /\ text \in Seq(Nat) /\ n \in Seq(Nat) /\ Len(text) \in Nat /\ Len(n) \in Nat
      /\ \A k \in 1..Len(n) : place[k] \in 1..Len(text) /\ text[place[k]] = n[k]
      /\ \A j, k \in 1..Len(n) : place[j] = place[k] => j = k
  BY LaidOnce
<1>2. Digits \subseteq Nat /\ \A c \in separators : c \notin Digits
  BY DEF Digits, Space, Dot, Dash
<1>3. PICK k \in 1..Len(n) : place[k] = i
  BY <1>2 DEF Laid
<1> DEFINE t == [n EXCEPT ![k] = d]
<1>4. /\ other \in Seq(Nat) /\ Len(other) = Len(text) /\ other[i] = d
      /\ \A j \in 1..Len(text) : j # i => other[j] = text[j]
  <2>1. d \in Nat
    BY <1>2
  <2> QED BY <1>1, <2>1, ChangedFacts
<1>5. /\ t \in Seq(Nat) /\ Len(t) = Len(n) /\ t[k] = d
      /\ \A j \in 1..Len(n) : j # k => t[j] = n[j]
  <2>1. d \in Nat
    BY <1>2
  <2> QED BY <1>1, <2>1, ChangedFacts
<1> HIDE DEF other, t
<1>6. \A j \in 1..Len(n) : other[place[j]] = t[j]
  <2> SUFFICES ASSUME NEW j \in 1..Len(n) PROVE other[place[j]] = t[j]
    OBVIOUS
  <2>1. CASE j = k
    BY Zenon, <1>3, <1>4, <1>5, <2>1
  <2>2. CASE j # k
    <3>1. place[j] # i
      BY <1>1, <1>3, <2>2
    <3> QED BY Zenon, <1>1, <1>4, <1>5, <2>2, <3>1
  <2> QED BY <2>1, <2>2
<1>7. \A j \in 1..Len(text) : (\A m \in 1..Len(n) : place[m] # j) => other[j] = text[j]
  BY Zenon, <1>3, <1>4
<1>8. Laid(other, t, place, separators)
  BY ZenonT(60), <1>4, <1>5, <1>6, <1>7, LaidAnew
<1>9. n[k] = text[i]
  BY <1>1, <1>3
<1>10. Mistyped(n, t)
  BY Zenon, <1>5, <1>9 DEF Mistyped
<1> QED BY <1>8, <1>10 DEF other

\* Two digits exchanged in the text are beside each other in the number, and exchanged.
LEMMA LaidExchanged ==
  ASSUME NEW text, NEW n, NEW place, NEW separators, Laid(text, n, place, separators),
         separators \subseteq {Space, Dot, Dash},
         NEW i \in 1..Len(text), i + 1 \in 1..Len(text),
         text[i] \in Digits, text[i + 1] \in Digits, text[i] # text[i + 1]
  PROVE  \E t : /\ Swapped(n, t, text[i], text[i + 1])
                /\ Laid([text EXCEPT ![i] = text[i + 1], ![i + 1] = text[i]], t, place, separators)
<1> DEFINE o == i + 1
           a == text[i]
           b == text[o]
           other == [text EXCEPT ![i] = b, ![o] = a]
<1>0. o \in 1..Len(text) /\ a \in Digits /\ b \in Digits /\ a # b /\ o # i /\ i \in Int /\ o = i + 1
  OBVIOUS
<1>1. /\ text \in Seq(Nat) /\ n \in Seq(Nat) /\ Len(text) \in Nat /\ Len(n) \in Nat
      /\ \A k \in 1..Len(n) : place[k] \in 1..Len(text) /\ text[place[k]] = n[k]
      /\ \A j, k \in 1..Len(n) : j < k <=> place[j] < place[k]
      /\ \A j, k \in 1..Len(n) : place[j] = place[k] => j = k
  BY LaidOnce
<1>2. Digits \subseteq Nat /\ \A c \in separators : c \notin Digits
  BY DEF Digits, Space, Dot, Dash
<1> HIDE DEF o
<1>3. PICK k \in 1..Len(n) : place[k] = i
  BY <1>0, <1>2 DEF Laid
<1>4. PICK l \in 1..Len(n) : place[l] = o
  BY <1>0, <1>2 DEF Laid
<1>5. l = k + 1
  <2>1. k < l
    <3>1. i < o
      BY <1>0
    <3> QED BY <1>1, <1>3, <1>4, <3>1
  <2>2. ASSUME k + 1 < l PROVE FALSE
    <3> DEFINE m == k + 1
    <3>1. m \in 1..Len(n) /\ k < m /\ m < l
      BY <1>1, <2>2
    <3> HIDE DEF m
    <3>2. i < place[m] /\ place[m] < o /\ place[m] \in 1..Len(text)
      BY Zenon, <1>1, <1>3, <1>4, <3>1
    <3> QED BY <1>0, <3>2
  <2> QED BY <2>1, <2>2
<1>6. l # k
  BY <1>5
<1> HIDE DEF a, b
<1>15. a \in Nat /\ b \in Nat
  BY <1>0, <1>2
<1> DEFINE u == [n EXCEPT ![k] = b]
           t == [u EXCEPT ![l] = a]
<1>7. /\ other \in Seq(Nat) /\ Len(other) = Len(text) /\ other[i] = b /\ other[o] = a
      /\ \A j \in 1..Len(text) : j # i /\ j # o => other[j] = text[j]
  <2> DEFINE first == [text EXCEPT ![i] = b]
  <2>1. /\ first \in Seq(Nat) /\ Len(first) = Len(text) /\ first[i] = b
        /\ \A j \in 1..Len(text) : j # i => first[j] = text[j]
    BY <1>1, <1>15, ChangedFacts
  <2>2. other = [first EXCEPT ![o] = a]
    OBVIOUS
  <2> HIDE DEF first, other
  <2>3. /\ other \in Seq(Nat) /\ Len(other) = Len(text) /\ other[o] = a
        /\ \A j \in 1..Len(text) : j # o => other[j] = first[j]
    BY <1>0, <1>1, <1>15, <2>1, <2>2, ChangedFacts
  <2> QED BY Zenon, <1>0, <2>1, <2>3
<1>8. /\ t \in Seq(Nat) /\ Len(t) = Len(n) /\ t[k] = b /\ t[l] = a
      /\ \A j \in 1..Len(n) : j # k /\ j # l => t[j] = n[j]
  <2>1. /\ u \in Seq(Nat) /\ Len(u) = Len(n) /\ u[k] = b
        /\ \A j \in 1..Len(n) : j # k => u[j] = n[j]
    BY <1>1, <1>15, ChangedFacts
  <2> HIDE DEF u
  <2>2. /\ t \in Seq(Nat) /\ Len(t) = Len(n) /\ t[l] = a
        /\ \A j \in 1..Len(n) : j # l => t[j] = u[j]
    BY <1>1, <1>15, <2>1, ChangedFacts
  <2> HIDE DEF t
  <2> QED BY Zenon, <1>6, <2>1, <2>2
<1> HIDE DEF other, u, t
<1>9. \A j \in 1..Len(n) : other[place[j]] = t[j]
  <2> SUFFICES ASSUME NEW j \in 1..Len(n) PROVE other[place[j]] = t[j]
    OBVIOUS
  <2>1. CASE j = k
    BY Zenon, <1>3, <1>7, <1>8, <2>1
  <2>2. CASE j = l
    BY Zenon, <1>4, <1>7, <1>8, <2>2
  <2>3. CASE j # k /\ j # l
    <3>1. place[j] # i /\ place[j] # o
      BY <1>1, <1>3, <1>4, <2>3
    <3> QED BY Zenon, <1>1, <1>7, <1>8, <2>3, <3>1
  <2> QED BY <2>1, <2>2, <2>3
<1>10. \A j \in 1..Len(text) : (\A m \in 1..Len(n) : place[m] # j) => other[j] = text[j]
  BY Zenon, <1>3, <1>4, <1>7
<1>11. Laid(other, t, place, separators)
  <2>1. other \in Seq(Nat) /\ Len(other) = Len(text) /\ t \in Seq(Nat) /\ Len(t) = Len(n)
    BY Zenon, <1>7, <1>8
  <2> QED BY ZenonT(60), <1>9, <1>10, <2>1, LaidAnew
<1>12. n[k] = a /\ n[l] = b
  BY <1>1, <1>3, <1>4 DEF a, b
<1>13. Swapped(n, t, a, b)
  <2>1. \A j \in 1..Len(n) : j # k /\ j # k + 1 => t[j] = n[j]
    BY Zenon, <1>5, <1>8
  <2>2. k + 1 \in 1..Len(n) /\ n[k + 1] = b /\ t[k + 1] = a
    BY Zenon, <1>5, <1>8, <1>12
  <2> QED BY Zenon, <1>0, <1>8, <1>12, <2>1, <2>2 DEF Swapped
<1> QED BY Zenon, <1>11, <1>13 DEF other, a, b, o

-----------------------------------------------------------------------------
(* Where an account ends. *)

\* What is kept of the first characters only grows, by a character at most.
LEMMA KeptGrows ==
  ASSUME NEW s \in Seq(Nat), NEW T, NEW g, Kept(s, T, g)
  PROVE  /\ \A k \in 0..Len(s) : g[k] \in Seq(Nat) /\ Len(g[k]) <= k
         /\ \A j, k \in 0..Len(s) : j <= k =>
              Len(g[j]) <= Len(g[k]) /\ \A i \in 1..Len(g[j]) : g[k][i] = g[j][i]
         /\ \A j, k \in 0..Len(s) : j < k /\ s[j + 1] \in T => Len(g[j]) < Len(g[k])
<1>0. Len(s) \in Nat /\ \A n \in 1..Len(s) : s[n] \in Nat
  OBVIOUS
<1> DEFINE M == {m \in Nat : m <= Len(s) => g[m] \in Seq(Nat) /\ Len(g[m]) <= m}
<1>1. 0 \in M
  <2>1. <<>> \in Seq(Nat) /\ Len(<<>>) = 0
    OBVIOUS
  <2>2. g[0] = <<>>
    BY DEF Kept
  <2>3. g[0] \in Seq(Nat) /\ Len(g[0]) <= 0
    BY <2>1, <2>2
  <2> QED BY <2>3
<1>2. ASSUME NEW m \in Nat, m + 1 <= Len(s), g[m] \in Seq(Nat), Len(g[m]) <= m
      PROVE  /\ g[m + 1] \in Seq(Nat) /\ Len(g[m]) <= Len(g[m + 1]) /\ Len(g[m + 1]) <= m + 1
             /\ \A i \in 1..Len(g[m]) : g[m + 1][i] = g[m][i]
             /\ s[m + 1] \in T => Len(g[m]) < Len(g[m + 1])
  <2> DEFINE o == m + 1
             h == g[m]
             c == s[o]
  <2>1. o \in 1..Len(s) /\ o - 1 = m
    BY <1>0, <1>2
  <2> HIDE DEF o
  <2>2. g[o] = IF c \in T THEN Append(h, c) ELSE h
    BY Zenon, <2>1 DEF Kept
  <2>3. h \in Seq(Nat) /\ c \in Nat /\ Len(h) \in Nat /\ Len(h) <= m
    BY <1>0, <1>2, <2>1
  <2> HIDE DEF h, c
  <2>4. /\ g[o] \in Seq(Nat) /\ Len(h) <= Len(g[o]) /\ Len(g[o]) <= Len(h) + 1
        /\ \A i \in 1..Len(h) : g[o][i] = h[i]
        /\ c \in T => Len(h) < Len(g[o])
    <3>1. CASE c \in T
      <4>1. /\ Append(h, c) \in Seq(Nat) /\ Len(Append(h, c)) = Len(h) + 1
            /\ \A i \in 1..Len(h) : Append(h, c)[i] = h[i]
        BY <2>3
      <4>2. g[o] = Append(h, c)
        BY <2>2, <3>1
      <4>3. g[o] \in Seq(Nat) /\ Len(g[o]) = Len(h) + 1 /\ \A i \in 1..Len(h) : g[o][i] = h[i]
        BY Zenon, <4>1, <4>2
      <4> QED BY <2>3, <4>3
    <3>2. CASE c \notin T
      <4>1. g[o] = h
        BY <2>2, <3>2
      <4> QED BY <2>3, <3>2, <4>1
    <3> QED BY <3>1, <3>2
  <2>5. Len(g[o]) <= m + 1
    BY <2>3, <2>4
  <2> QED BY Zenon, <2>4, <2>5 DEF o, h, c
<1>3. ASSUME NEW m \in Nat, m \in M PROVE m + 1 \in M
  <2> SUFFICES ASSUME m + 1 <= Len(s) PROVE g[m + 1] \in Seq(Nat) /\ Len(g[m + 1]) <= m + 1
    OBVIOUS
  <2>1. g[m] \in Seq(Nat) /\ Len(g[m]) <= m
    BY <1>0, <1>3
  <2> QED BY <1>2, <2>1
<1> HIDE DEF M
<1>4. M = Nat
  BY <1>1, <1>3, Counting DEF M
<1>5. \A k \in 0..Len(s) : g[k] \in Seq(Nat) /\ Len(g[k]) <= k
  BY <1>0, <1>4 DEF M
<1>6. ASSUME NEW j \in 0..Len(s)
      PROVE  \A k \in 0..Len(s) : j <= k =>
               /\ Len(g[j]) <= Len(g[k]) /\ \A i \in 1..Len(g[j]) : g[k][i] = g[j][i]
               /\ j < k /\ s[j + 1] \in T => Len(g[j]) < Len(g[k])
  <2> DEFINE On(k) == /\ Len(g[j]) <= Len(g[k]) /\ \A i \in 1..Len(g[j]) : g[k][i] = g[j][i]
                      /\ j < k /\ s[j + 1] \in T => Len(g[j]) < Len(g[k])
             K == {k \in Nat : j + k <= Len(s) => On(j + k)}
  <2>1. j \in Nat /\ j <= Len(s) /\ j + 0 = j /\ ~(j < j) /\ Len(g[j]) \in Nat
    BY <1>0, <1>5
  <2>2. 0 \in K
    BY <2>1
  <2>3. ASSUME NEW k \in Nat, k \in K PROVE k + 1 \in K
    <3> SUFFICES ASSUME j + (k + 1) <= Len(s) PROVE On(j + (k + 1))
      OBVIOUS
    <3> DEFINE m == j + k
    <3>1. m \in Nat /\ m + 1 = j + (k + 1) /\ m + 1 <= Len(s) /\ m <= Len(s) /\ m \in 0..Len(s)
          /\ m + 1 \in 0..Len(s) /\ j <= m
      BY <1>0, <2>1
    <3>2. On(m)
      BY <2>3, <3>1
    <3> HIDE DEF m
    <3>3. /\ Len(g[m]) <= Len(g[m + 1]) /\ \A i \in 1..Len(g[m]) : g[m + 1][i] = g[m][i]
          /\ s[m + 1] \in T => Len(g[m]) < Len(g[m + 1])
      BY Zenon, <1>2, <1>5, <3>1
    <3>4. Len(g[j]) \in Nat /\ Len(g[m]) \in Nat /\ Len(g[m + 1]) \in Nat
      BY <1>5, <3>1
    <3>5. Len(g[j]) <= Len(g[m + 1])
      BY <3>2, <3>3, <3>4
    <3>6. \A i \in 1..Len(g[j]) : g[m + 1][i] = g[j][i]
      BY <3>2, <3>3, <3>4
    <3>7. j < m + 1 /\ s[j + 1] \in T => Len(g[j]) < Len(g[m + 1])
      <4>1. j = m \/ j < m
        BY <2>1, <3>1
      <4>2. CASE j = m
        BY Zenon, <3>3, <4>2
      <4>3. CASE j < m
        BY SMTT(60), <3>2, <3>3, <3>4, <4>3
      <4> QED BY <4>1, <4>2, <4>3
    <3>8. On(m + 1)
      BY <3>5, <3>6, <3>7
    <3> QED BY Zenon, <3>1, <3>8
  <2> HIDE DEF K, On
  <2>4. K = Nat
    BY <2>2, <2>3, Counting DEF K
  <2>5. \A k \in 0..Len(s) : j <= k => On(k)
    <3> SUFFICES ASSUME NEW k \in 0..Len(s), j <= k PROVE On(k)
      OBVIOUS
    <3>1. k - j \in Nat /\ j + (k - j) = k /\ k <= Len(s)
      BY <1>0, <2>1
    <3> QED BY <2>4, <3>1 DEF K
  <2> QED BY <2>5 DEF On
<1>7. \A j, k \in 0..Len(s) : j < k => j <= k
  BY <1>0
<1> QED BY Zenon, <1>5, <1>6, <1>7

\* And it is what is kept of those first characters by themselves.
LEMMA KeptHeads ==
  ASSUME NEW s \in Seq(Nat), NEW T, NEW g, Kept(s, T, g), NEW k \in 0..Len(s)
  PROVE  Keep(SubSeq(s, 1, k), T) = g[k]
<1> DEFINE u == SubSeq(s, 1, k)
<1>1. k \in Nat /\ Len(u) = k /\ \A i \in 1..k : u[i] = s[i] /\ i \in 1..Len(s)
  OBVIOUS
<1> HIDE DEF u
<1>2. Len(u) \in Nat
  BY <1>1
<1>3. PICK h : Kept(u, T, h) /\ Keep(u, T) = h[Len(u)]
  BY <1>2, KeepUnfolds
<1> DEFINE M == {m \in Nat : m <= k => h[m] = g[m]}
<1>4. 0 \in M
  BY <1>3 DEF Kept
<1>5. ASSUME NEW m \in Nat, m \in M PROVE m + 1 \in M
  <2> SUFFICES ASSUME m + 1 <= k PROVE h[m + 1] = g[m + 1]
    OBVIOUS
  <2>1. m + 1 \in 1..k /\ (m + 1) - 1 = m /\ m <= k
    BY <1>1
  <2>2. m + 1 \in 1..Len(u) /\ m + 1 \in 1..Len(s) /\ u[m + 1] = s[m + 1]
    BY <1>1, <2>1
  <2>3. h[m] = g[m]
    BY <1>5, <2>1
  <2>4. /\ h[m + 1] = IF u[m + 1] \in T THEN Append(h[m], u[m + 1]) ELSE h[m]
        /\ g[m + 1] = IF s[m + 1] \in T THEN Append(g[m], s[m + 1]) ELSE g[m]
    BY <1>3, <2>1, <2>2 DEF Kept
  <2> QED BY <2>2, <2>3, <2>4
<1> HIDE DEF M
<1>6. M = Nat
  BY <1>4, <1>5, Counting DEF M
<1>7. h[k] = g[k]
  BY <1>1, <1>6 DEF M
<1> QED BY <1>1, <1>3, <1>7 DEF u

\* A text in capitals has its spaces where they were, and begins as the text did.
LEMMA CapitalFacts ==
  ASSUME NEW s \in Seq(Nat)
  PROVE  /\ Capital(s) \in Seq(Nat) /\ Len(Capital(s)) = Len(s)
         /\ \A i \in 1..Len(s) : Capital(s)[i] = Space <=> s[i] = Space
         /\ \A k \in 0..Len(s) : Capital(SubSeq(s, 1, k)) = SubSeq(Capital(s), 1, k)
<1>1. DOMAIN s = 1..Len(s) /\ Len(s) \in Nat /\ \A i \in 1..Len(s) : s[i] \in Nat
  OBVIOUS
<1> DEFINE c == Capital(s)
<1>2. c = [i \in 1..Len(s) |-> IF s[i] \in Small THEN s[i] - 40 ELSE s[i]]
  BY <1>1 DEF Capital
<1>3. \A x \in Nat : /\ (IF x \in Small THEN x - 40 ELSE x) \in Nat
                     /\ (IF x \in Small THEN x - 40 ELSE x) = Space <=> x = Space
  BY DEF Small, Space
<1>4. \A i \in 1..Len(s) : c[i] = (IF s[i] \in Small THEN s[i] - 40 ELSE s[i]) /\ c[i] \in Nat
  BY <1>1, <1>2, <1>3
<1>5. c \in Seq(Nat) /\ Len(c) = Len(s)
  <2>1. c = [i \in 1..Len(s) |-> c[i]]
    BY <1>2
  <2> HIDE DEF c
  <2> QED BY <1>1, <1>4, <2>1
<1>6. \A i \in 1..Len(s) : c[i] = Space <=> s[i] = Space
  BY <1>1, <1>3, <1>4
<1> HIDE DEF c
<1>7. ASSUME NEW k \in 0..Len(s) PROVE Capital(SubSeq(s, 1, k)) = SubSeq(c, 1, k)
  <2> DEFINE u == SubSeq(s, 1, k)
             v == SubSeq(c, 1, k)
  <2>1. DOMAIN u = 1..k /\ \A i \in 1..k : u[i] = s[i] /\ i \in 1..Len(s)
    BY <1>1
  <2>2. v = [i \in 1..k |-> c[i]]
    BY <1>1, <1>5
  <2> HIDE DEF u, v
  <2>3. Capital(u) = [i \in 1..k |-> IF s[i] \in Small THEN s[i] - 40 ELSE s[i]]
    BY <2>1 DEF Capital
  <2> QED BY <1>4, <2>1, <2>2, <2>3 DEF u, v
<1> QED BY Zenon, <1>5, <1>6, <1>7 DEF c

\* What an account and the country of one have in common.
LEMMA CountryShared ==
  ASSUME NEW u \in Seq(Nat), NEW v \in Seq(Nat), Len(u) >= 2, Len(v) >= 2, u[1] = v[1], u[2] = v[2]
  PROVE  SubSeq(u, 1, 2) = SubSeq(v, 1, 2)
<1>1. SubSeq(u, 1, 2) = <<u[1], u[2]>>
  BY Zenon, FirstTwo
<1>2. SubSeq(v, 1, 2) = <<v[1], v[2]>>
  BY Zenon, FirstTwo
<1> QED BY Zenon, <1>1, <1>2

\* A whole account with its last character at the end of its text.
AccountIn(text, n, place) ==
  /\ n \in Seq(Alphabet) /\ IBANRule(n) /\ IbanLength(SubSeq(n, 1, 2)) = {Len(n)}
  /\ Laid(text, n, place, {Space}) /\ place[Len(n)] = Len(text)

\* Of the beginnings of what it was run into, none but the text itself, or with the
\* space behind it, is an account.
LEMMA AccountEnds ==
  ASSUME NEW text, NEW n, NEW place, AccountIn(text, n, place),
         NEW tail \in Seq(Nat), tail # <<>>, tail[1] = Space => Len(tail) >= 2 /\ tail[2] # Space
  PROVE  LET s == text \o tail
         IN  /\ s \in Seq(Nat) /\ Len(s) = Len(text) + Len(tail)
             /\ Len(text) \in Nat /\ Len(text) >= 15
             /\ IBANCheck(SubSeq(s, 1, Len(text)))
             /\ \A k \in 1..Len(s) : IBANCheck(SubSeq(s, 1, k)) =>
                  k = Len(text) \/ (k = Len(text) + 1 /\ tail[1] = Space)
<1> DEFINE s == text \o tail
           L == Len(text)
           N == Len(n)
           c == Capital(s)
           T == Nat \ {Space}
<1>1. /\ n \in Seq(Alphabet) /\ IBANRule(n) /\ IbanLength(SubSeq(n, 1, 2)) = {N}
      /\ Laid(text, n, place, {Space}) /\ place[N] = L
  BY DEF AccountIn
<1>2. text \in Seq(Nat) /\ n \in Seq(Nat) /\ L \in Nat /\ N \in 15..34
  BY <1>1 DEF Laid, IBANRule
<1>3. Len(tail) \in Nat /\ Len(tail) >= 1
  OBVIOUS
<1>4. /\ s \in Seq(Nat) /\ Len(s) = L + Len(tail)
      /\ \A i \in 1..L : s[i] = text[i]
      /\ \A i \in 1..Len(tail) : s[L + i] = tail[i]
  <2>1. Joined(Nat, text, tail)
    BY Joins
  <2> QED BY Zenon, <1>2, <2>1 DEF Joined
<1>5. L \in 1..Len(s) /\ N \in 1..N /\ L \in 1..L /\ s[L] # Space
  <2>0. \A m \in 15..34 : m \in 1..m
    OBVIOUS
  <2>1. N \in 1..N
    BY Zenon, <1>2, <2>0
  <2>2. L \in 1..L /\ text[L] = n[N]
    <3>1. \A k \in 1..Len(n) : place[k] \in 1..Len(text) /\ text[place[k]] = n[k]
      BY <1>1, LaidOnce
    <3> QED BY Zenon, <1>1, <2>1, <3>1
  <2>3. n[N] # Space
    <3>1. n[N] \in Alphabet
      <4>1. \A i \in 1..Len(n) : n[i] \in Alphabet
        BY <1>1
      <4> QED BY Zenon, <2>1, <4>1
    <3>2. \A x \in Alphabet : x # Space
      BY DEF Alphabet, Space
    <3> QED BY Zenon, <3>1, <3>2
  <2>4. s[L] = text[L]
    BY Zenon, <1>4, <2>2
  <2>5. L \in 1..Len(s)
    BY <1>3, <1>4, <2>2
  <2> QED BY Zenon, <2>1, <2>2, <2>3, <2>4, <2>5
<1>6. SubSeq(s, 1, L) = text
  <2>1. L <= Len(s)
    BY <1>3, <1>4
  <2>2. SubSeq(s, 1, L) \in Seq(Nat) /\ Len(SubSeq(s, 1, L)) = L /\ \A i \in 1..L : SubSeq(s, 1, L)[i] = s[i]
    BY Zenon, <1>2, <1>4, <2>1, Heads
  <2>3. \A i \in 1..L : SubSeq(s, 1, L)[i] = text[i]
    BY Zenon, <1>4, <2>2
  <2> QED BY Zenon, <1>2, <2>2, <2>3, Alike
<1>7. IBANCheck(text)
  BY Zenon, <1>1, IBANOf
<1>8. Capital(text) = text /\ Without(text, {Space}) = n
  <2>1. {Space} \subseteq {Space, Dot, Dash}
    OBVIOUS
  <2> QED BY <1>1, <2>1, PlainOf
<1> HIDE DEF s, L, N
<1>9. /\ c \in Seq(Nat) /\ Len(c) = Len(s)
      /\ \A i \in 1..Len(s) : c[i] = Space <=> s[i] = Space
      /\ \A k \in 0..Len(s) : Capital(SubSeq(s, 1, k)) = SubSeq(c, 1, k)
  BY Zenon, <1>4, CapitalFacts
<1> HIDE DEF c
<1>10. Len(c) \in Nat /\ Len(s) \in Nat
  BY <1>2, <1>3, <1>4, <1>9
<1>11. PICK g : Kept(c, T, g)
  BY <1>10, KeepUnfolds
<1>12. ASSUME NEW k \in 1..Len(s)
       PROVE  Without(Capital(SubSeq(s, 1, k)), {Space}) = g[k]
  <2>1. k \in 0..Len(s) /\ k \in 0..Len(c)
    BY <1>9, <1>10
  <2>2. Keep(SubSeq(c, 1, k), T) = g[k]
    BY <1>9, <1>11, <2>1, KeptHeads
  <2> QED BY Zenon, <1>9, <2>1, <2>2 DEF Without
<1>13. /\ \A k \in 0..Len(c) : g[k] \in Seq(Nat) /\ Len(g[k]) <= k
       /\ \A j, k \in 0..Len(c) : j <= k =>
            Len(g[j]) <= Len(g[k]) /\ \A i \in 1..Len(g[j]) : g[k][i] = g[j][i]
       /\ \A j, k \in 0..Len(c) : j < k /\ c[j + 1] \in T => Len(g[j]) < Len(g[k])
  BY <1>9, <1>11, KeptGrows
<1>14. g[L] = n
  BY Zenon, <1>5, <1>6, <1>8, <1>12
<1>15. \A i \in 1..Len(s) : c[i] \in T <=> s[i] # Space
  <2>1. \A i \in 1..Len(c) : c[i] \in Nat
    BY SMTT(60), <1>9
  <2> QED BY SMTT(60), <1>9, <2>1
<1>16. L \in Nat /\ L >= 15 /\ L \in 0..Len(c) /\ N \in 15..34
  <2>1. L \in Nat /\ N \in 15..34
    BY Zenon, <1>2 DEF L, N
  <2>2. L \in 0..Len(c)
    BY <1>5, <1>9, <1>10, <2>1
  <2>3. N <= L
    BY Zenon, <1>13, <1>14, <2>2 DEF N
  <2> QED BY <2>1, <2>2, <2>3
\* The account has to have as much kept of it as this one.
<1>17. ASSUME NEW k \in 1..Len(s), IBANCheck(SubSeq(s, 1, k)) PROVE Len(g[k]) = N
  <2> DEFINE w == g[k]
  <2>1. Len(w) \in 15..34 /\ Len(w) \in IbanLength(SubSeq(w, 1, 2))
    BY Zenon, <1>12, <1>17 DEF IBANCheck
  <2>2. k \in 0..Len(c) /\ (k <= L \/ L <= k)
    BY <1>9, <1>10, <1>16
  <2>3. w \in Seq(Nat)
    BY Zenon, <1>13, <2>2
  <2>4. w[1] = n[1] /\ w[2] = n[2]
    <3>1. 1 \in 1..Len(w) /\ 2 \in 1..Len(w)
      <4>1. \A m \in 15..34 : 1 \in 1..m /\ 2 \in 1..m
        OBVIOUS
      <4> QED BY Zenon, <2>1, <4>1
    <3>2. 1 \in 1..N /\ 2 \in 1..N
      BY <1>16
    <3>3. CASE k <= L
      BY Zenon, <1>13, <1>14, <1>16, <2>2, <3>1, <3>3
    <3>4. CASE L <= k
      BY Zenon, <1>13, <1>14, <1>16, <2>2, <3>2, <3>4 DEF N
    <3> QED BY Zenon, <2>2, <3>3, <3>4
  <2> HIDE DEF w
  <2>5. SubSeq(w, 1, 2) = SubSeq(n, 1, 2)
    <3>1. Len(w) >= 2 /\ N >= 2
      <4>1. \A m \in 15..34 : m >= 2
        OBVIOUS
      <4> QED BY Zenon, <1>16, <2>1, <4>1
    <3> QED BY Zenon, <1>2, <2>3, <2>4, <3>1, CountryShared DEF N
  <2>6. Len(w) \in {N}
    BY Zenon, <1>1, <2>1, <2>5 DEF N
  <2> QED BY <2>6 DEF w
<1>18. ASSUME NEW k \in 1..Len(s), IBANCheck(SubSeq(s, 1, k))
       PROVE  k = L \/ (k = L + 1 /\ tail[1] = Space)
  <2>1. Len(g[k]) = N /\ Len(g[L]) = N
    BY Zenon, <1>14, <1>17, <1>18 DEF N
  <2>2. k \in 0..Len(c) /\ k \in Nat
    BY <1>9, <1>10
  <2>3. ASSUME k < L PROVE FALSE
    <3> DEFINE j == L - 1
    <3>1. j \in 0..Len(c) /\ k <= j /\ j < L /\ j + 1 = L
      BY <1>16, <2>2, <2>3
    <3> HIDE DEF j
    <3>2. c[j + 1] \in T
      BY Zenon, <1>5, <1>15, <3>1
    <3>3. Len(g[k]) <= Len(g[j]) /\ Len(g[j]) < Len(g[L])
      BY Zenon, <1>13, <1>16, <2>2, <3>1, <3>2
    <3>4. Len(g[j]) \in Nat /\ N \in Nat
      <4>1. g[j] \in Seq(Nat)
        BY Zenon, <1>13, <3>1
      <4> QED BY <1>16, <4>1
    <3> QED BY <2>1, <3>3, <3>4
  <2>4. ASSUME L < k, tail[1] # Space PROVE FALSE
    <3>1. L + 1 \in 1..Len(s) /\ 1 \in 1..Len(tail)
      BY SMTT(60), <1>3, <1>4, <1>10, <1>16
    <3>2. c[L + 1] \in T
      BY Zenon, <1>4, <1>15, <2>4, <3>1
    <3>3. Len(g[L]) < Len(g[k])
      BY Zenon, <1>13, <1>16, <2>2, <2>4, <3>2
    <3> QED BY <1>16, <2>1, <3>3
  <2>5. ASSUME L + 1 < k, tail[1] = Space PROVE FALSE
    <3> DEFINE o == L + 1
    <3>1. /\ o + 1 = L + 2 /\ o \in 0..Len(c) /\ o < k /\ L <= o
      BY <1>9, <1>10, <1>16, <2>2, <2>5
    <3>2. L + 2 \in 1..Len(s) /\ 2 \in 1..Len(tail) /\ tail[2] # Space
      BY <1>3, <1>4, <1>10, <1>16, <2>2, <2>5
    <3>3. c[L + 2] \in T
      BY Zenon, <1>4, <1>15, <3>2
    <3> HIDE DEF o
    <3>4. Len(g[L]) <= Len(g[o]) /\ Len(g[o]) < Len(g[k])
      BY Zenon, <1>13, <1>16, <2>2, <3>1, <3>3
    <3>5. Len(g[o]) \in Nat /\ N \in Nat
      <4>1. g[o] \in Seq(Nat)
        BY Zenon, <1>13, <3>1
      <4> QED BY <1>16, <4>1
    <3> QED BY <2>1, <3>4, <3>5
  <2> QED BY <1>16, <2>2, <2>3, <2>4, <2>5
<1>19. IBANCheck(SubSeq(s, 1, L))
  BY Zenon, <1>6, <1>7
<1> QED BY Zenon, <1>4, <1>16, <1>18, <1>19 DEF s, L

\* So the account is all that is found of what it was run into.
LEMMA TrimsToWhole ==
  ASSUME NEW text, NEW n, NEW place, AccountIn(text, n, place),
         NEW tail \in Seq(Nat), tail # <<>>, tail[1] = Space => Len(tail) >= 2 /\ tail[2] # Space
  PROVE  TrimToIBAN(text \o tail) = Len(text)
<1> DEFINE s == text \o tail
           L == Len(text)
           S == Len(s)
           valid == {k \in 1..Len(s) : IBANCheck(SubSeq(s, 1, k))}
           groups == {k \in valid : k = Len(s) \/ s[k + 1] = Space}
           ends == IF groups # {} THEN groups ELSE {k \in valid : k >= 15}
<1>1. /\ s \in Seq(Nat) /\ S = L + Len(tail) /\ L \in Nat /\ L >= 15
      /\ IBANCheck(SubSeq(s, 1, L))
      /\ \A k \in 1..Len(s) : IBANCheck(SubSeq(s, 1, k)) => k = L \/ (k = L + 1 /\ tail[1] = Space)
  BY Zenon, AccountEnds
<1>2. text \in Seq(Nat)
  BY DEF AccountIn, Laid
<1>3. \A i \in 1..Len(tail) : s[L + i] = tail[i]
  <2>1. Joined(Nat, text, tail)
    BY Joins
  <2> QED BY Zenon, <1>2, <2>1 DEF Joined
<1>4. Len(tail) \in Nat /\ Len(tail) >= 1
  OBVIOUS
<1>5. TrimToIBAN(s) = IF ends = {} THEN Len(s) ELSE CHOOSE k \in ends : \A j \in ends : j <= k
  BY Zenon DEF TrimToIBAN
<1> HIDE DEF s, L, S
<1>6. L \in valid /\ \A k \in valid : k = L \/ (k = L + 1 /\ tail[1] = Space)
  <2>1. L \in 1..S
    BY <1>1, <1>4
  <2> QED BY Zenon, <1>1, <2>1 DEF S
<1>7. s[L + 1] = tail[1] /\ L # S
  <2>1. 1 \in 1..Len(tail) /\ L # S
    BY <1>1, <1>4
  <2> QED BY ZenonT(60), <1>3, <2>1
<1>8. ends = {L}
  <2>1. CASE tail[1] = Space
    <3>1. L \in groups
      BY Zenon, <1>6, <1>7, <2>1
    <3>2. ASSUME L + 1 \in groups PROVE FALSE
      <4>1. L + 1 # S /\ 2 \in 1..Len(tail) /\ L + 2 = (L + 1) + 1
        BY <1>1, <1>4, <2>1
      <4>2. s[L + 2] = tail[2] /\ tail[2] # Space
        BY Zenon, <1>3, <2>1, <4>1
      <4> QED BY Zenon, <3>2, <4>1, <4>2 DEF S
    <3>3. \A k \in groups : k \in valid
      OBVIOUS
    <3>4. groups = {L}
      <4> HIDE DEF groups, valid
      <4>1. \A k \in groups : k = L
        BY Zenon, <1>6, <3>2, <3>3
      <4> QED BY <3>1, <4>1
    <3> HIDE DEF groups
    <3> QED BY <3>4
  <2>2. CASE tail[1] # Space
    <3>1. \A k \in valid : k = L
      BY Zenon, <1>6, <2>2
    <3>2. groups = {}
      BY Zenon, <1>7, <2>2, <3>1 DEF S
    <3>3. {k \in valid : k >= 15} = {L}
      <4> HIDE DEF valid
      <4> QED BY <1>1, <1>6, <3>1
    <3> HIDE DEF groups, valid
    <3> QED BY <3>2, <3>3
  <2> QED BY <2>1, <2>2
<1> HIDE DEF ends
<1>9. ends # {} /\ (CHOOSE k \in ends : \A j \in ends : j <= k) = L
  <2>1. L <= L
    BY <1>1
  <2>2. \E k \in ends : \A j \in ends : j <= k
    BY Zenon, <1>8, <2>1
  <2> DEFINE m == CHOOSE k \in ends : \A j \in ends : j <= k
  <2>3. m \in ends
    BY Zenon, <2>2
  <2> HIDE DEF m
  <2>4. m = L /\ ends # {}
    BY <1>8, <2>3
  <2> QED BY Zenon, <2>4 DEF m
<1>10. TrimToIBAN(s) = L
  BY Zenon, <1>5, <1>9
<1> QED BY <1>10 DEF s, L

-----------------------------------------------------------------------------
(* Dates, and lines of a listing. *)

\* What is read as year first, as words, and as day or month first.
LEMMA DOBReads ==
  ASSUME NEW a, NEW b, NEW c
  PROVE  LET date == <<a, b, c>>
         IN  /\ a >= 1000 /\ ~(b > 100) => (DOBCheck(date) <=> NotAfter(a, b, c))
             /\ ~(a >= 1000) /\ b > 100 => (DOBCheck(date) <=> NotAfter(c, b - 100, a))
             /\ ~(a >= 1000) /\ ~(b > 100) =>
                  (DOBCheck(date) <=> NotAfter(c, b, a) \/ NotAfter(c, a, b))
<1> DEFINE date == <<a, b, c>>
<1>1. date[1] = a /\ date[2] = b /\ date[3] = c
  OBVIOUS
<1> HIDE DEF date
<1> DEFINE p == date[1] >= 1000
           q == date[2] > 100
           A == NotAfter(date[1], date[2], date[3])
           B == NotAfter(date[3], date[2] - 100, date[1])
           C == NotAfter(date[3], date[2], date[1]) \/ NotAfter(date[3], date[1], date[2])
<1>2. DOBCheck(date) <=> CASE p -> A [] q -> B [] OTHER -> C
  BY Zenon DEF DOBCheck
<1> HIDE DEF p, q, A, B, C
<1>3. p /\ ~q => (DOBCheck(date) <=> A)
  <2>1. SUFFICES ASSUME p, ~q PROVE DOBCheck(date) <=> A
    OBVIOUS
  <2> QED BY Zenon, <1>2, <2>1
<1>4. ~p /\ q => (DOBCheck(date) <=> B)
  <2>1. SUFFICES ASSUME ~p, q PROVE DOBCheck(date) <=> B
    OBVIOUS
  <2> QED BY Zenon, <1>2, <2>1
<1>5. ~p /\ ~q => (DOBCheck(date) <=> C)
  <2>1. SUFFICES ASSUME ~p, ~q PROVE DOBCheck(date) <=> C
    OBVIOUS
  <2> QED BY Zenon, <1>2, <2>1
<1>6. /\ a >= 1000 /\ ~(b > 100) => (DOBCheck(date) <=> NotAfter(a, b, c))
      /\ ~(a >= 1000) /\ b > 100 => (DOBCheck(date) <=> NotAfter(c, b - 100, a))
      /\ ~(a >= 1000) /\ ~(b > 100) =>
           (DOBCheck(date) <=> NotAfter(c, b, a) \/ NotAfter(c, a, b))
  <2>1. A = NotAfter(a, b, c) /\ (p <=> a >= 1000) /\ (q <=> b > 100)
    BY ZenonT(60), <1>1 DEF A, p, q
  <2>2. B = NotAfter(c, b - 100, a)
    BY Zenon, <1>1 DEF B
  <2>3. C <=> NotAfter(c, b, a) \/ NotAfter(c, a, b)
    BY Zenon, <1>1 DEF C
  <2> QED BY ZenonT(60), <1>3, <1>4, <1>5, <2>1, <2>2, <2>3
<1> QED BY Zenon, <1>6 DEF date

\* A date of the calendar is itself, so each notation is read as the day it is.
LEMMA DatesRead ==
  ASSUME NEW y \in Nat, y >= 1000, NEW m \in 1..12, NEW d \in Nat, 1 <= d, d <= MonthLength(y, m)
  PROVE  /\ ~Before(Cutoff, <<y, m, d>>) =>
              DOBCheck(<<y, m, d>>) /\ DOBCheck(<<d, m, y>>) /\ DOBCheck(<<m, d, y>>)
              /\ DOBCheck(<<d, 100 + m, y>>)
         /\ Before(Cutoff, <<y, m, d>>) => ~DOBCheck(<<y, m, d>>) /\ ~DOBCheck(<<d, 100 + m, y>>)
<1>1. MonthLength(y, m) <= 31
  <2>1. MonthLength(y, m) \in {28, 29, 30, 31}
    BY Zenon DEF MonthLength
  <2> QED BY <2>1
<1>2. NotAfter(y, m, d) <=> ~Before(Cutoff, <<y, m, d>>)
  BY Zenon DEF NotAfter, Normal
<1>3. /\ ~(d >= 1000) /\ ~(m >= 1000) /\ ~(m > 100) /\ ~(d > 100) /\ 100 + m > 100 /\ (100 + m) - 100 = m
  <2>1. MonthLength(y, m) \in Int
    <3>1. MonthLength(y, m) \in {28, 29, 30, 31}
      BY Zenon DEF MonthLength
    <3> QED BY <3>1
  <2> DEFINE l == MonthLength(y, m)
  <2>2. l \in Int /\ l <= 31 /\ d <= l
    BY <1>1, <2>1
  <2> HIDE DEF l
  <2> QED BY <2>2
<1>4. DOBCheck(<<y, m, d>>) <=> NotAfter(y, m, d)
  <2>1. \A a, b, c : a >= 1000 /\ ~(b > 100) => (DOBCheck(<<a, b, c>>) <=> NotAfter(a, b, c))
    BY ZenonT(60), DOBReads
  <2> QED BY ZenonT(60), <1>3, <2>1
<1>5. DOBCheck(<<d, m, y>>) <=> NotAfter(y, m, d) \/ NotAfter(y, d, m)
  <2>1. \A a, b, c : ~(a >= 1000) /\ ~(b > 100) =>
          (DOBCheck(<<a, b, c>>) <=> NotAfter(c, b, a) \/ NotAfter(c, a, b))
    BY ZenonT(60), DOBReads
  <2> QED BY ZenonT(60), <1>3, <2>1
<1>6. DOBCheck(<<m, d, y>>) <=> NotAfter(y, d, m) \/ NotAfter(y, m, d)
  <2>1. \A a, b, c : ~(a >= 1000) /\ ~(b > 100) =>
          (DOBCheck(<<a, b, c>>) <=> NotAfter(c, b, a) \/ NotAfter(c, a, b))
    BY Zenon, DOBReads
  <2> QED BY ZenonT(60), <1>3, <2>1
<1>7. DOBCheck(<<d, 100 + m, y>>) <=> NotAfter(y, m, d)
  <2> DEFINE month == 100 + m
  <2>1. month > 100 /\ month - 100 = m
    BY <1>3
  <2> HIDE DEF month
  <2>2. \A a, b, c : ~(a >= 1000) /\ b > 100 => (DOBCheck(<<a, b, c>>) <=> NotAfter(c, b - 100, a))
    BY ZenonT(60), DOBReads
  <2>3. \A a, b, c, e : ~(a >= 1000) /\ b > 100 /\ b - 100 = e =>
          (DOBCheck(<<a, b, c>>) <=> NotAfter(c, e, a))
    BY ZenonT(60), <2>2
  <2>4. DOBCheck(<<d, month, y>>) <=> NotAfter(y, m, d)
    <3>1. ~(d >= 1000) /\ month > 100 /\ month - 100 = m
      BY ZenonT(60), <1>3, <2>1
    <3>2. \A e : ~(d >= 1000) /\ month > 100 /\ month - 100 = e =>
            (DOBCheck(<<d, month, y>>) <=> NotAfter(y, e, d))
      BY ZenonT(60), <2>3
    <3> DEFINE Is(e) == ~(d >= 1000) /\ month > 100 /\ month - 100 = e
    <3>3. Is(m) /\ \A e : Is(e) => (DOBCheck(<<d, month, y>>) <=> NotAfter(y, e, d))
      BY Zenon, <3>1, <3>2
    <3> HIDE DEF Is
    <3> QED BY Zenon, <3>3
  <2> QED BY Zenon, <2>4 DEF month
<1> QED BY Zenon, <1>2, <1>4, <1>5, <1>6, <1>7

\* A line of a listing has a month where a postcode has its second part.
LEMMA ListingRefused ==
  ASSUME NEW month \in Months
  PROVE  ~PostcodeCheck(<<0, month>>) /\ ~PostcodeCheck(<<0, month + 1000>>)
<1>1. Lowered(month) \in Months /\ Lowered(month + 1000) \in Months
  BY DEF Lowered, Months
<1>2. \A x : Len(<<0, x>>) = 2 /\ <<0, x>>[2] = x /\ 2 >= 2
  OBVIOUS
<1> QED BY Zenon, <1>1, <1>2 DEF PostcodeCheck

-----------------------------------------------------------------------------
(* What is written of each kind. *)

\* A number that the rule of its kind takes, an account to its last character.
Right(k, text) ==
  \E n, place :
    /\ Formed(k, n) /\ Rules(k, n) /\ Laid(text, n, place, Separators(k))
    /\ k = "iban" => AccountIn(text, n, place)

\* One that the rule refuses.
Wrong(k, text) ==
  \E n, place : Formed(k, n) /\ ~Rules(k, n) /\ Laid(text, n, place, Separators(k))

\* A number is characters.
LEMMA FormedIs ==
  ASSUME NEW k, NEW n, Formed(k, n)
  PROVE  n \in Seq(Nat)
<1>1. n \in Seq(Digits) \/ NIRShaped(n) \/ n \in Seq(Alphabet) \/ n \in Seq(Nat)
  BY Zenon DEF Formed
<1>2. NIRShaped(n) => n \in Seq(Alphabet)
  BY Zenon DEF NIRShaped
<1>3. Digits \subseteq Nat /\ Alphabet \subseteq Nat
  BY DEF Digits, Alphabet
<1> QED BY Zenon, <1>1, <1>2, <1>3, WiderSeq

\* The separators are a space, a dot and a dash.
LEMMA SeparatorsAre ==
  ASSUME NEW k
  PROVE  Separators(k) \subseteq {Space, Dot, Dash}
<1>1. \/ Separators(k) = {Space, Dash} \/ Separators(k) = {Space}
      \/ Separators(k) = {Space, Dot} \/ Separators(k) = {}
  BY Zenon DEF Separators
<1> QED BY <1>1

\* What is right is read.
LEMMA RightReads ==
  ASSUME NEW k \in Assignable, NEW text, Right(k, text)
  PROVE  Reads(k, text)
<1>1. PICK n, place : Formed(k, n) /\ Rules(k, n) /\ Laid(text, n, place, Separators(k))
  BY Zenon DEF Right
<1> QED BY Zenon, <1>1, ReadAsRuled

\* What is wrong is refused.
LEMMA WrongRefused ==
  ASSUME NEW k \in Assignable, NEW text, Wrong(k, text)
  PROVE  ~Reads(k, text)
<1>1. PICK n, place : Formed(k, n) /\ ~Rules(k, n) /\ Laid(text, n, place, Separators(k))
  BY Zenon DEF Wrong
<1> QED BY Zenon, <1>1, ReadAsRuled

\* What is issued is right.
LEMMA IssuedRight ==
  ASSUME NEW k \in Assignable, NEW body, Body(k, body), Assigned(k, body)
  PROVE  Right(k, Issued(k, body))
<1> DEFINE n == Issued(k, body)
           place == [j \in 1..Len(n) |-> j]
<1>1. /\ Formed(k, n) /\ Rules(k, n)
      /\ k = "iban" => IBANBodied(body) /\ n = IBANIssued(body)
  BY Zenon, IssuedRuled
<1> HIDE DEF n
<1>2. n \in Seq(Nat)
  BY Zenon, <1>1, FormedIs
<1>3. Laid(n, n, place, Separators(k))
  BY Zenon, <1>2, LaidBare
<1>4. ASSUME k = "iban" PROVE AccountIn(n, n, place)
  <2>1. /\ n \in Seq(Alphabet) /\ Len(n) \in 15..34 /\ IBANRule(n)
        /\ IbanLength(SubSeq(n, 1, 2)) = {Len(n)}
    BY Zenon, <1>1, <1>4, IBANIssues
  <2>2. Separators(k) = {Space}
    BY Zenon, <1>4 DEF Separators
  <2>3. place[Len(n)] = Len(n)
    <3>1. \A m \in 15..34 : m \in 1..m
      OBVIOUS
    <3>2. Len(n) \in 1..Len(n)
      BY Zenon, <2>1, <3>1
    <3> QED BY Zenon, <3>2
  <2> QED BY Zenon, <1>3, <2>1, <2>2, <2>3 DEF AccountIn
<1> HIDE DEF place
<1>5. Right(k, n)
  BY Zenon, <1>1, <1>3, <1>4 DEF Right
<1> QED BY Zenon, <1>5 DEF n

\* A stand-in is wrong.
LEMMA MintedWrong ==
  ASSUME NEW k \in Mintable, NEW i \in Nat, 1 <= i, k = "ip" => i <= 768
  PROVE  Wrong(k, StandIn(k, i))
<1> DEFINE n == StandIn(k, i)
           place == [j \in 1..Len(n) |-> j]
<1>1. Formed(k, n) /\ ~Rules(k, n)
  BY Zenon, MintRefused
<1> HIDE DEF n
<1>2. n \in Seq(Nat)
  BY Zenon, <1>1, FormedIs
<1>3. Laid(n, n, place, Separators(k))
  BY Zenon, <1>2, LaidBare
<1> HIDE DEF place
<1>4. Wrong(k, n)
  BY Zenon, <1>1, <1>3 DEF Wrong
<1> QED BY Zenon, <1>4 DEF n

\* A number by itself, written in groups.
LEMMA LaidRegrouped ==
  ASSUME NEW k, NEW text, NEW n, NEW place, Laid(text, n, place, Separators(k)),
         ~Has(text, {Space, Dot, Dash}), NEW size \in 2..4, NEW separator \in Separators(k)
  PROVE  \E p : /\ Laid(InGroups(text, size, separator), n, p, Separators(k))
                /\ n # <<>> => p[Len(n)] = Len(InGroups(text, size, separator))
<1>1. text \in Seq(Nat) /\ n \in Seq(Nat) /\ DOMAIN text = 1..Len(text)
  BY DEF Laid
<1>2. \A j \in 1..Len(text) : text[j] \notin Separators(k)
  <2>1. \A j \in 1..Len(text) : text[j] \notin {Space, Dot, Dash}
    BY Zenon, <1>1 DEF Has
  <2> QED BY Zenon, <2>1, SeparatorsAre
<1>3. text = n
  BY Zenon, <1>2, LaidAlone
<1>4. separator \in Nat
  <2>1. separator \in {Space, Dot, Dash}
    BY Zenon, SeparatorsAre
  <2> QED BY <2>1 DEF Space, Dot, Dash
<1>5. PICK p : /\ Laid(InGroups(n, size, separator), n, p, {separator})
               /\ n # <<>> => p[Len(n)] = Len(InGroups(n, size, separator))
  BY Zenon, <1>1, <1>4, LaidInGroups
<1> DEFINE g == InGroups(n, size, separator)
<1> HIDE DEF g
<1>6. Laid(g, n, p, {separator})
  BY Zenon, <1>5 DEF g
<1>7. Laid(g, n, p, Separators(k))
  BY <1>6 DEF Laid
<1>8. n # <<>> => p[Len(n)] = Len(g)
  BY Zenon, <1>5 DEF g
<1>9. g = InGroups(text, size, separator)
  BY Zenon, <1>3 DEF g
<1> QED BY Zenon, <1>7, <1>8, <1>9

\* Grouped, what is right is right.
LEMMA RightGrouped ==
  ASSUME NEW k, NEW text, Right(k, text), ~Has(text, {Space, Dot, Dash}),
         NEW size \in 2..4, NEW separator \in Separators(k)
  PROVE  Right(k, InGroups(text, size, separator))
<1>1. PICK n, place : /\ Formed(k, n) /\ Rules(k, n) /\ Laid(text, n, place, Separators(k))
                      /\ k = "iban" => AccountIn(text, n, place)
  BY Zenon DEF Right
<1> DEFINE g == InGroups(text, size, separator)
<1>2. PICK p : Laid(g, n, p, Separators(k)) /\ (n # <<>> => p[Len(n)] = Len(g))
  <2>1. Laid(text, n, place, Separators(k))
    BY Zenon, <1>1
  <2>2. \E p : /\ Laid(InGroups(text, size, separator), n, p, Separators(k))
               /\ n # <<>> => p[Len(n)] = Len(InGroups(text, size, separator))
    BY SMTT(60), <2>1, LaidRegrouped
  <2> QED BY Zenon, <2>2
<1> HIDE DEF g
<1>3. ASSUME k = "iban" PROVE AccountIn(g, n, p)
  <2>1. n \in Seq(Alphabet) /\ IBANRule(n) /\ IbanLength(SubSeq(n, 1, 2)) = {Len(n)}
    BY Zenon, <1>1, <1>3 DEF AccountIn
  <2>2. n # <<>>
    <3>1. Len(n) \in 15..34
      BY Zenon, <2>1 DEF IBANRule
    <3>2. Len(<<>>) = 0 /\ 0 \notin 15..34
      OBVIOUS
    <3> QED BY Zenon, <3>1, <3>2
  <2>3. Separators(k) = {Space}
    BY Zenon, <1>3 DEF Separators
  <2> QED BY Zenon, <1>2, <2>1, <2>2, <2>3 DEF AccountIn
<1>4. Right(k, g)
  BY Zenon, <1>1, <1>2, <1>3 DEF Right
<1> QED BY Zenon, <1>4 DEF g

\* And what is wrong is wrong.
LEMMA WrongGrouped ==
  ASSUME NEW k, NEW text, Wrong(k, text), ~Has(text, {Space, Dot, Dash}),
         NEW size \in 2..4, NEW separator \in Separators(k)
  PROVE  Wrong(k, InGroups(text, size, separator))
<1>1. PICK n, place : Formed(k, n) /\ ~Rules(k, n) /\ Laid(text, n, place, Separators(k))
  BY Zenon DEF Wrong
<1> DEFINE g == InGroups(text, size, separator)
<1>2. PICK p : Laid(g, n, p, Separators(k))
  BY Zenon, <1>1, LaidRegrouped
<1> HIDE DEF g
<1>3. Wrong(k, g)
  BY Zenon, <1>1, <1>2 DEF Wrong
<1> QED BY Zenon, <1>3 DEF g

\* With a wrong digit it is wrong.
LEMMA RightMistyped ==
  ASSUME NEW k \in Checked, NEW text, Right(k, text),
         NEW i \in DOMAIN text, text[i] \in Digits, NEW d \in Digits, text[i] # d
  PROVE  Wrong(k, [text EXCEPT ![i] = d])
<1>1. PICK n, place : Formed(k, n) /\ Rules(k, n) /\ Laid(text, n, place, Separators(k))
  BY Zenon DEF Right
<1>2. i \in 1..Len(text)
  BY <1>1 DEF Laid
<1> DEFINE w == [text EXCEPT ![i] = d]
<1>3. PICK t : Mistyped(n, t) /\ Laid(w, t, place, Separators(k))
  BY Zenon, <1>1, <1>2, SeparatorsAre, LaidMistyped
<1> HIDE DEF w
<1>4. Formed(k, t) /\ ~Rules(k, t)
  BY Zenon, <1>1, <1>3, SlipsRefused
<1>5. Wrong(k, w)
  BY Zenon, <1>3, <1>4 DEF Wrong
<1> QED BY Zenon, <1>5 DEF w

\* With two exchanged that its rule tells apart, too.
LEMMA RightExchanged ==
  ASSUME NEW k \in Checked, NEW text, Right(k, text),
         NEW i \in DOMAIN text, i + 1 \in DOMAIN text,
         text[i] \in Digits, text[i + 1] \in Digits, text[i] # text[i + 1],
         \/ k \in {"nir", "iban", "nhs"}
         \/ k \in {"card", "siren", "siret"} /\ {text[i], text[i + 1]} # {0, 9}
  PROVE  Wrong(k, [text EXCEPT ![i] = text[i + 1], ![i + 1] = text[i]])
<1>1. PICK n, place : Formed(k, n) /\ Rules(k, n) /\ Laid(text, n, place, Separators(k))
  BY Zenon DEF Right
<1>2. i \in 1..Len(text) /\ i + 1 \in 1..Len(text)
  BY <1>1 DEF Laid
<1> DEFINE w == [text EXCEPT ![i] = text[i + 1], ![i + 1] = text[i]]
<1>3. PICK t : Swapped(n, t, text[i], text[i + 1]) /\ Laid(w, t, place, Separators(k))
  BY Zenon, <1>1, <1>2, SeparatorsAre, LaidExchanged
<1> HIDE DEF w
<1> DEFINE a == text[i]
           b == text[i + 1]
<1>4. Swapped(n, t, a, b) /\ (k \in {"nir", "iban", "nhs"}
                              \/ (k \in {"card", "siren", "siret"} /\ {a, b} # {0, 9}))
  BY Zenon, <1>3
<1> HIDE DEF a, b
<1>5. Formed(k, t) /\ ~Rules(k, t)
  BY Zenon, <1>1, <1>4, SlipsRefused
<1>6. Wrong(k, w)
  BY Zenon, <1>3, <1>5 DEF Wrong
<1> QED BY Zenon, <1>6 DEF w

\* Run into something, it still ends where it ended.
LEMMA RightTrims ==
  ASSUME NEW text, Right("iban", text), NEW tail \in Tails
  PROVE  TrimToIBAN(text \o tail) = Len(text)
<1>1. PICK n, place : AccountIn(text, n, place)
  BY Zenon DEF Right
<1>2. tail \in Seq(Nat) /\ tail # <<>> /\ (tail[1] = Space => Len(tail) >= 2 /\ tail[2] # Space)
  BY Zenon, TailsAssumption
<1> QED BY Zenon, <1>1, <1>2, TrimsToWhole

\* What was issued is right, what is wrong or nobody's is wrong, and what was run into
\* something ends where it did.
NumberInv ==
  /\ kind \in Assignable \union Typed \union {"date"}
  /\ kind \in Typed => origin \in {"blank", "typed"}
  /\ kind = "date" => origin \in {"blank", "issued", "too late", "either way"}
  /\ origin = "issued" => whole = Len(value)
  /\ origin = "issued" /\ kind \in Assignable => Right(kind, value)
  /\ origin \in {"mistyped", "exchanged", "stand-in"} => kind \in Assignable /\ Wrong(kind, value)
  /\ origin = "issued" /\ kind = "date" => DOBCheck(value)
  /\ origin = "too late" => kind = "date" /\ ~DOBCheck(value)
  /\ origin = "listing" => kind = "postcode" /\ ~PostcodeCheck(value)
  /\ origin = "run on" => kind = "iban" /\ TrimToIBAN(value) = whole

\* The kinds are apart.
LEMMA KindsApart ==
  /\ \A k \in Assignable : k \notin Typed /\ k # "date"
  /\ Checked \subseteq Assignable /\ Mintable \subseteq Assignable
  /\ "postcode" \in Assignable /\ "iban" \in Assignable
  /\ \A k \in Typed : Separators(k) = {}
  /\ Separators("date") = {}
<1>1. \A k \in Assignable : k \notin Typed /\ k # "date"
  BY DEF Assignable, Mintable, Typed
<1>2. /\ Checked \subseteq Assignable /\ Mintable \subseteq Assignable
      /\ "postcode" \in Assignable /\ "iban" \in Assignable
  BY DEF Assignable, Mintable, Checked
<1>3. ASSUME NEW k \in Typed \union {"date"} PROVE Separators(k) = {}
  <2>1. k = "secret" \/ k = "bare" \/ k = "header" \/ k = "date"
    BY DEF Typed
  <2> QED BY Zenon, <2>1 DEF Separators
<1> QED BY Zenon, <1>1, <1>2, <1>3

\* A blank number, of any kind.
LEMMA NumberInit == Init => NumberInv
<1> SUFFICES ASSUME Init PROVE NumberInv
  OBVIOUS
<1>1. kind \in Assignable \union Typed \union {"date"} /\ origin = "blank"
  BY Zenon DEF Init
<1> QED BY <1>1 DEF NumberInv

\* An issuer assigns it.
LEMMA NumberIssue ==
  ASSUME NumberInv, NEW body \in IF kind \in DOMAIN Bodies THEN Bodies[kind] ELSE {}, Issue(body)
  PROVE  NumberInv'
<1>1. /\ kind \in Assignable /\ Assigned(kind, body) /\ value' = Issued(kind, body)
      /\ whole' = Len(value') /\ origin' = "issued" /\ kind' = kind
  BY Zenon DEF Issue
<1>2. Body(kind, body)
  <2>1. kind \in DOMAIN Bodies /\ body \in Bodies[kind]
    BY Zenon
  <2> QED BY Zenon, <2>1, BodiesAssumption
<1>3. Right(kind', value')
  <2>1. Right(kind, Issued(kind, body))
    BY Zenon, <1>1, <1>2, IssuedRight
  <2> QED BY Zenon, <1>1, <2>1
<1>4. kind' \in Assignable /\ kind' \notin Typed /\ kind' # "date"
  BY Zenon, <1>1, KindsApart
<1>5. origin' # "too late" /\ origin' # "listing" /\ origin' # "run on"
      /\ origin' \notin {"mistyped", "exchanged", "stand-in"}
  BY <1>1
<1> QED BY Zenon, <1>1, <1>3, <1>4, <1>5 DEF NumberInv

\* Fake mode mints it.
LEMMA NumberMint ==
  ASSUME NumberInv, NEW i \in Indices, Mint(i)
  PROVE  NumberInv'
<1>1. /\ kind \in Mintable /\ i <= Capacity(kind) /\ value' = StandIn(kind, i)
      /\ origin' = "stand-in" /\ kind' = kind
  BY Zenon DEF Mint
<1>2. i \in Nat /\ 1 <= i
  BY IndicesAssumption
<1>3. ASSUME kind = "ip" PROVE i <= 768
  <2>1. Capacity("ip") = 768
    BY SMT DEF Capacity
  <2> QED BY Zenon, <1>1, <1>3, <2>1
<1>4. Wrong(kind', value')
  <2>1. Wrong(kind, StandIn(kind, i))
    BY Zenon, <1>1, <1>2, <1>3, MintedWrong
  <2> QED BY Zenon, <1>1, <2>1
<1>5. kind' \in Assignable /\ kind' \notin Typed /\ kind' # "date"
  BY Zenon, <1>1, KindsApart
<1>6. origin' # "too late" /\ origin' # "listing" /\ origin' # "run on" /\ origin' # "issued"
  BY <1>1
<1> QED BY Zenon, <1>1, <1>4, <1>5, <1>6 DEF NumberInv

\* A digit is mistyped.
LEMMA NumberMistype ==
  ASSUME NumberInv, NEW i, NEW d \in Digits, Mistype(i, d)
  PROVE  NumberInv'
<1>1. /\ origin = "issued" /\ kind \in Checked
      /\ i \in DOMAIN value /\ value[i] \in Digits /\ value[i] # d
      /\ value' = [value EXCEPT ![i] = d] /\ origin' = "mistyped" /\ kind' = kind
  BY Zenon DEF Mistype
<1>2. Right(kind, value)
  BY Zenon, <1>1, KindsApart DEF NumberInv
<1>3. Wrong(kind', value')
  <2>1. Wrong(kind, [value EXCEPT ![i] = d])
    BY Zenon, <1>1, <1>2, RightMistyped
  <2> QED BY Zenon, <1>1, <2>1
<1>4. kind' \in Assignable /\ kind' \notin Typed /\ kind' # "date"
  BY Zenon, <1>1, KindsApart
<1>5. origin' # "too late" /\ origin' # "listing" /\ origin' # "run on" /\ origin' # "issued"
  BY <1>1
<1> QED BY Zenon, <1>1, <1>3, <1>4, <1>5 DEF NumberInv

\* Two are exchanged.
LEMMA NumberExchange ==
  ASSUME NumberInv, NEW i, Exchange(i)
  PROVE  NumberInv'
<1>1. /\ origin = "issued" /\ kind \in Checked
      /\ {i, i + 1} \subseteq DOMAIN value
      /\ {value[i], value[i + 1]} \subseteq Digits /\ value[i] # value[i + 1]
      /\ FindsExchange(value[i], value[i + 1])
      /\ value' = [value EXCEPT ![i] = value[i + 1], ![i + 1] = value[i]]
      /\ origin' = "exchanged" /\ kind' = kind
  BY Zenon DEF Exchange
<1>2. Right(kind, value)
  BY Zenon, <1>1, KindsApart DEF NumberInv
<1>3. Wrong(kind', value')
  <2>1. \/ kind \in {"nir", "iban", "nhs"}
        \/ kind \in {"card", "siren", "siret"} /\ {value[i], value[i + 1]} # {0, 9}
    BY Zenon, <1>1 DEF FindsExchange
  <2>2. /\ i \in DOMAIN value /\ i + 1 \in DOMAIN value
        /\ value[i] \in Digits /\ value[i + 1] \in Digits
    BY Zenon, <1>1
  <2>3. Wrong(kind, [value EXCEPT ![i] = value[i + 1], ![i + 1] = value[i]])
    BY Zenon, <1>1, <1>2, <2>1, <2>2, RightExchanged
  <2> QED BY Zenon, <1>1, <2>3
<1>4. kind' \in Assignable /\ kind' \notin Typed /\ kind' # "date"
  BY Zenon, <1>1, KindsApart
<1>5. origin' # "too late" /\ origin' # "listing" /\ origin' # "run on" /\ origin' # "issued"
  BY <1>1
<1> QED BY Zenon, <1>1, <1>3, <1>4, <1>5 DEF NumberInv

\* It is printed in groups.
LEMMA NumberGroup ==
  ASSUME NumberInv, NEW size \in 2..4, NEW separator, Group(size, separator)
  PROVE  NumberInv'
<1>1. /\ origin \in {"issued", "stand-in"} /\ separator \in Separators(kind)
      /\ ~Has(value, {Space, Dot, Dash})
      /\ value' = InGroups(value, size, separator) /\ whole' = Len(value')
      /\ kind' = kind /\ origin' = origin
  BY Zenon DEF Group
<1>2. kind \in Assignable
  <2>1. kind \notin Typed /\ kind # "date"
    BY Zenon, <1>1, KindsApart
  <2> QED BY Zenon, <2>1 DEF NumberInv
<1>3. ASSUME origin = "issued" PROVE Right(kind', value')
  <2>1. Right(kind, value)
    BY Zenon, <1>2, <1>3 DEF NumberInv
  <2>2. Right(kind, InGroups(value, size, separator))
    BY Zenon, <1>1, <2>1, RightGrouped
  <2> QED BY Zenon, <1>1, <2>2
<1>4. ASSUME origin = "stand-in" PROVE Wrong(kind', value')
  <2>1. Wrong(kind, value)
    BY Zenon, <1>4 DEF NumberInv
  <2>2. Wrong(kind, InGroups(value, size, separator))
    BY Zenon, <1>1, <2>1, WrongGrouped
  <2> QED BY Zenon, <1>1, <2>2
<1>5. kind' \in Assignable /\ kind' \notin Typed /\ kind' # "date"
  BY Zenon, <1>1, <1>2, KindsApart
<1>6. /\ origin' # "too late" /\ origin' # "listing" /\ origin' # "run on"
      /\ origin' \in {"mistyped", "exchanged", "stand-in"} => origin = "stand-in"
  BY <1>1
<1> QED BY Zenon, <1>1, <1>3, <1>4, <1>5, <1>6 DEF NumberInv

\* Something follows an account.
LEMMA NumberRunInto ==
  ASSUME NumberInv, NEW tail \in Tails, RunInto(tail)
  PROVE  NumberInv'
<1>1. /\ origin = "issued" /\ kind = "iban" /\ value' = value \o tail
      /\ origin' = "run on" /\ kind' = kind /\ whole' = whole
  BY Zenon DEF RunInto
<1>2. Right("iban", value) /\ whole = Len(value)
  BY Zenon, <1>1, KindsApart DEF NumberInv
<1>3. TrimToIBAN(value') = whole'
  BY Zenon, <1>1, <1>2, RightTrims
<1>4. kind' \in Assignable /\ kind' \notin Typed /\ kind' # "date"
  BY Zenon, <1>1, KindsApart
<1>5. /\ origin' # "too late" /\ origin' # "listing" /\ origin' # "issued"
      /\ origin' \notin {"mistyped", "exchanged", "stand-in"}
  BY <1>1
<1> QED BY Zenon, <1>1, <1>3, <1>4, <1>5 DEF NumberInv

\* A date is written, in one of the notations.
LEMMA NumberWriteDate ==
  ASSUME NumberInv, NEW date \in Dates,
         NEW notation \in {"iso", "day first", "month first", "in words"},
         WriteDate(date[1], date[2], date[3], notation)
  PROVE  NumberInv'
<1> DEFINE y == date[1]
           m == date[2]
           d == date[3]
<1>1. y \in Nat /\ y >= 1000 /\ m \in 1..12 /\ d \in Nat /\ 1 <= d /\ d <= MonthLength(y, m)
  <2>1. /\ date[1] \in Nat /\ date[1] >= 1000 /\ date[2] \in 1..12
        /\ date[3] \in Nat /\ 1 <= date[3] /\ date[3] <= MonthLength(date[1], date[2])
    BY DatesAssumption
  <2> QED BY Zenon, <2>1
<1>2. /\ kind = "date" /\ kind' = kind /\ whole' = Len(value')
      /\ value' = CASE notation = "iso" -> <<y, m, d>>
                [] notation = "day first" -> <<d, m, y>>
                [] notation = "month first" -> <<m, d, y>>
                [] notation = "in words" -> <<d, 100 + m, y>>
      /\ origin' = IF ~Before(Cutoff, <<y, m, d>>) THEN "issued"
                   ELSE IF notation \in {"iso", "in words"} THEN "too late" ELSE "either way"
  BY Zenon DEF WriteDate
<1> HIDE DEF y, m, d
<1>3. /\ ~Before(Cutoff, <<y, m, d>>) =>
           DOBCheck(<<y, m, d>>) /\ DOBCheck(<<d, m, y>>) /\ DOBCheck(<<m, d, y>>)
           /\ DOBCheck(<<d, 100 + m, y>>)
      /\ Before(Cutoff, <<y, m, d>>) => ~DOBCheck(<<y, m, d>>) /\ ~DOBCheck(<<d, 100 + m, y>>)
  BY Zenon, <1>1, DatesRead
<1>4. /\ notation = "iso" => value' = <<y, m, d>>
      /\ notation = "day first" => value' = <<d, m, y>>
      /\ notation = "month first" => value' = <<m, d, y>>
      /\ notation = "in words" => value' = <<d, 100 + m, y>>
  BY Zenon, <1>2
<1>5. origin' = "issued" => ~Before(Cutoff, <<y, m, d>>)
  BY Zenon, <1>2
<1>6. origin' = "too late" => Before(Cutoff, <<y, m, d>>) /\ notation \in {"iso", "in words"}
  BY Zenon, <1>2
<1>7. origin' = "issued" => DOBCheck(value')
  BY Zenon, <1>3, <1>4, <1>5
<1>8. origin' = "too late" => ~DOBCheck(value')
  BY Zenon, <1>3, <1>4, <1>6
<1>9. origin' \in {"issued", "too late", "either way"}
  BY Zenon, <1>2
<1>10. kind' = "date" /\ kind' \notin Assignable /\ kind' \notin Typed
  <2>1. "date" \notin Typed
    BY DEF Typed
  <2> QED BY Zenon, <1>2, <2>1, KindsApart
<1>11. /\ origin' # "listing" /\ origin' # "run on"
       /\ origin' \notin {"mistyped", "exchanged", "stand-in"}
       /\ origin' \in {"blank", "issued", "too late", "either way"}
  BY <1>9
<1> QED BY Zenon, <1>2, <1>7, <1>8, <1>10, <1>11 DEF NumberInv

\* A line of a listing.
LEMMA NumberList ==
  ASSUME NumberInv, NEW month \in Months, List(month) \/ List(month + 1000)
  PROVE  NumberInv'
<1>1. /\ kind = "postcode" /\ kind' = kind /\ origin' = "listing"
      /\ value' = <<0, month>> \/ value' = <<0, month + 1000>>
  BY Zenon DEF List
<1>2. ~PostcodeCheck(value')
  <2>1. ~PostcodeCheck(<<0, month>>) /\ ~PostcodeCheck(<<0, month + 1000>>)
    BY SMT, ListingRefused
  <2>2. CASE value' = <<0, month>>
    BY Zenon, <2>1, <2>2
  <2>3. CASE value' = <<0, month + 1000>>
    BY Zenon, <2>1, <2>3
  <2> QED BY ZenonT(60), <1>1, <2>2, <2>3
<1>3. kind' \in Assignable /\ kind' \notin Typed /\ kind' # "date"
  BY ZenonT(60), <1>1, KindsApart
<1>4. /\ origin' # "too late" /\ origin' # "run on" /\ origin' # "issued"
      /\ origin' \notin {"mistyped", "exchanged", "stand-in"}
  BY <1>1
<1> QED BY ZenonT(60), <1>1, <1>2, <1>3, <1>4 DEF NumberInv

\* Something is typed.
LEMMA NumberType ==
  ASSUME NumberInv, NEW c, Type(c)
  PROVE  NumberInv'
<1>1. kind \in Typed /\ kind' = kind /\ origin' = "typed"
  BY Zenon DEF Type
<1>2. kind' \in Typed /\ kind' \notin Assignable /\ kind' # "date"
  <2>1. "date" \notin Typed
    BY DEF Typed
  <2> QED BY Zenon, <1>1, <2>1, KindsApart
<1>3. /\ origin' # "too late" /\ origin' # "run on" /\ origin' # "issued" /\ origin' # "listing"
      /\ origin' \notin {"mistyped", "exchanged", "stand-in"} /\ origin' \in {"blank", "typed"}
  BY <1>1
<1> QED BY Zenon, <1>2, <1>3 DEF NumberInv

\* It is an invariant.
LEMMA NumberAlways == Spec => []NumberInv
<1>1. NumberInv /\ [Next]_vars => NumberInv'
  <2> SUFFICES ASSUME NumberInv, [Next]_vars PROVE NumberInv'
    OBVIOUS
  <2>1. ASSUME NEW body \in IF kind \in DOMAIN Bodies THEN Bodies[kind] ELSE {}, Issue(body)
        PROVE  NumberInv'
    BY <2>1, NumberIssue
  <2>2. ASSUME NEW i \in Indices, Mint(i) PROVE NumberInv'
    BY <2>2, NumberMint
  <2>3. ASSUME NEW i, NEW d \in Digits, Mistype(i, d) PROVE NumberInv'
    BY <2>3, NumberMistype
  <2>4. ASSUME NEW i, Exchange(i) PROVE NumberInv'
    BY <2>4, NumberExchange
  <2>5. ASSUME NEW size \in 2..4, NEW separator, Group(size, separator) PROVE NumberInv'
    BY <2>5, NumberGroup
  <2>6. ASSUME NEW tail \in Tails, RunInto(tail) PROVE NumberInv'
    BY <2>6, NumberRunInto
  <2>7. ASSUME NEW date \in Dates,
               NEW notation \in {"iso", "day first", "month first", "in words"},
               WriteDate(date[1], date[2], date[3], notation)
        PROVE  NumberInv'
    BY <2>7, NumberWriteDate
  <2>8. ASSUME NEW month \in Months, List(month) \/ List(month + 1000) PROVE NumberInv'
    BY <2>8, NumberList
  <2>9. ASSUME NEW c, Type(c) PROVE NumberInv'
    BY <2>9, NumberType
  <2>10. ASSUME UNCHANGED vars PROVE NumberInv'
    <3>1. kind' = kind /\ value' = value /\ whole' = whole /\ origin' = origin
      BY Zenon, <2>10 DEF vars
    <3>2. /\ Right(kind', value') <=> Right(kind, value)
          /\ Wrong(kind', value') <=> Wrong(kind, value)
          /\ DOBCheck(value') <=> DOBCheck(value)
          /\ PostcodeCheck(value') <=> PostcodeCheck(value)
          /\ TrimToIBAN(value') = TrimToIBAN(value) /\ Len(value') = Len(value)
      BY Zenon, <3>1
    <3>3. /\ kind' \in Assignable \union Typed \union {"date"}
          /\ kind' \in Typed => origin' \in {"blank", "typed"}
          /\ kind' = "date" => origin' \in {"blank", "issued", "too late", "either way"}
      BY Zenon, <3>1 DEF NumberInv
    <3>4. /\ origin' = "issued" => whole' = Len(value')
          /\ origin' = "issued" /\ kind' \in Assignable => Right(kind', value')
          /\ origin' = "issued" /\ kind' = "date" => DOBCheck(value')
          /\ origin' = "too late" => kind' = "date" /\ ~DOBCheck(value')
      BY Zenon, <3>1, <3>2 DEF NumberInv
    <3>5. /\ origin' \in {"mistyped", "exchanged", "stand-in"}
               => kind' \in Assignable /\ Wrong(kind', value')
          /\ origin' = "listing" => kind' = "postcode" /\ ~PostcodeCheck(value')
          /\ origin' = "run on" => kind' = "iban" /\ TrimToIBAN(value') = whole'
      BY Zenon, <3>1, <3>2 DEF NumberInv
    <3> QED BY Zenon, <3>3, <3>4, <3>5 DEF NumberInv
  <2>11. ASSUME Next PROVE NumberInv'
    <3>1. CASE \E body \in IF kind \in DOMAIN Bodies THEN Bodies[kind] ELSE {} : Issue(body)
      BY Zenon, <3>1, <2>1
    <3>2. CASE \E i \in Indices : Mint(i)
      BY Zenon, <3>2, <2>2
    <3>3. CASE \E i \in 1..34, d \in Digits : Mistype(i, d)
      BY Zenon, <3>3, <2>3
    <3>4. CASE \E i \in 1..34 : Exchange(i)
      BY Zenon, <3>4, <2>4
    <3>5. CASE \E size \in 2..4, separator \in {Space, Dot, Dash} : Group(size, separator)
      BY Zenon, <3>5, <2>5
    <3>6. CASE \E tail \in Tails : RunInto(tail)
      BY Zenon, <3>6, <2>6
    <3>7. CASE \E date \in Dates, notation \in {"iso", "day first", "month first", "in words"} :
                 WriteDate(date[1], date[2], date[3], notation)
      BY Zenon, <3>7, <2>7
    <3>8. CASE \E month \in Months : List(month) \/ List(month + 1000)
      BY SMT, <3>8, <2>8
    <3>9. CASE \E c \in Keys : Type(c)
      BY Zenon, <3>9, <2>9
    <3> QED BY Zenon, <2>11, <3>1, <3>2, <3>3, <3>4, <3>5, <3>6, <3>7, <3>8, <3>9 DEF Next
  <2> QED BY Zenon, <2>10, <2>11
<1> QED BY <1>1, NumberInit, PTL DEF Spec

\* What its issuer assigned is read in every grouping it is printed in, an account to
\* its end where it runs into something, a date of birth in every notation.
THEOREM IssuedAreRead == Spec => []IssuedIsRead
<1>1. NumberInv => IssuedIsRead
  <2> SUFFICES ASSUME NumberInv PROVE IssuedIsRead
    OBVIOUS
  <2>1. ASSUME origin = "issued" PROVE Reads(kind, value)
    <3>1. kind \in Assignable \/ kind = "date"
      <4>1. kind \notin Typed
        <5>1. origin \notin {"blank", "typed"}
          BY <2>1
        <5> QED BY Zenon, <5>1 DEF NumberInv
      <4> QED BY Zenon, <4>1 DEF NumberInv
    <3>2. CASE kind \in Assignable
      BY Zenon, <2>1, <3>2, RightReads DEF NumberInv
    <3>3. CASE kind = "date"
      <4>1. DOBCheck(value)
        BY Zenon, <2>1, <3>3 DEF NumberInv
      <4> QED BY Zenon, <3>3, <4>1 DEF Reads
    <3> QED BY <3>1, <3>2, <3>3
  <2>2. origin = "run on" => TrimToIBAN(value) = whole
    BY Zenon DEF NumberInv
  <2> QED BY Zenon, <2>1, <2>2 DEF IssuedIsRead
<1> QED BY <1>1, NumberAlways, PTL

\* A number with a wrong digit or two exchanged, a stand-in of the agent however it is
\* grouped, a date to come and a line of a listing are refused by the rules of their own
\* kind, for any index, any date and any issuer.
THEOREM NobodysAreRefused == Spec => []NobodysIsRefused
<1>1. NumberInv => NobodysIsRefused
  <2> SUFFICES ASSUME NumberInv, origin \in {"mistyped", "exchanged", "stand-in", "too late", "listing"}
               PROVE  ~Reads(kind, value)
    BY Zenon DEF NobodysIsRefused
  <2>1. CASE origin \in {"mistyped", "exchanged", "stand-in"}
    <3>1. kind \in Assignable /\ Wrong(kind, value)
      BY Zenon, <2>1 DEF NumberInv
    <3> QED BY Zenon, <3>1, WrongRefused
  <2>2. CASE origin = "too late"
    <3>1. kind = "date" /\ ~DOBCheck(value)
      BY Zenon, <2>2 DEF NumberInv
    <3> QED BY Zenon, <3>1 DEF Reads
  <2>3. CASE origin = "listing"
    <3>1. kind = "postcode" /\ ~PostcodeCheck(value)
      BY Zenon, <2>3 DEF NumberInv
    <3> QED BY Zenon, <3>1 DEF Reads
  <2> QED BY <2>1, <2>2, <2>3
<1> QED BY <1>1, NumberAlways, PTL

=============================================================================
