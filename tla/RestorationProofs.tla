------------------------- MODULE RestorationProofs -------------------------
(***************************************************************************)
(* Theorems about Answer for every mapping that keeps its replacements     *)
(* apart, every alphabet and every number of blocks and pieces: the caller *)
(* has, of each block, the expansion of all the text the block has had but *)
(* for the tail that is held back, and in the end the whole of it.         *)
(***************************************************************************)
EXTENDS AnswerProofs

-----------------------------------------------------------------------------
(* Where a text may be cut. *)

\* No stand-in can be taken for a token.
Bracketless(m) == \A i \in DOMAIN m : m[i] \notin {"[", "]"}

\* A text ends with what another begins with.
Overlap(m, o) == \E k \in 1..(Least(Len(m), Len(o)) - 1) : End(m, k) = Start(o, k)

\* A mapping that keeps its replacements apart: tokens are as short as TokenTailLen takes
\* them to be, and where a stand-in ends neither another begins nor it itself.
Apart(known) ==
  /\ \A m \in DOMAIN known : IF IsToken(m) THEN Len(m) <= MaxTokenLen ELSE Bracketless(m)
  /\ \A m, o \in StandInsOf(known) : ~Overlap(m, o)

\* No replacement begins in a and ends in what follows it.
Parted(known, a, x) ==
  \A m \in DOMAIN known : \A i \in 1..Len(a) :
    BeginsAt(a \o x, i, m) => i + Len(m) - 1 <= Len(a)

\* None will, whatever is still to come behind what is held.
Safe(known, a, held) == \A s \in Text : Parted(known, a, held \o s)

\* In token mode every mapping is apart.
LEMMA TokensAreApart ==
  ASSUME NEW known, \A m \in DOMAIN known : IsToken(m) /\ Len(m) <= MaxTokenLen
  PROVE  Apart(known)
BY DEF Apart, StandInsOf

\* Two texts joined, place by place.
LEMMA JoinedFacts ==
  ASSUME NEW a \in Text, NEW x \in Text
  PROVE  /\ a \o x \in Text /\ Len(a \o x) = Len(a) + Len(x)
         /\ Len(a) \in Nat /\ Len(x) \in Nat
         /\ \A i \in 1..Len(a) : (a \o x)[i] = a[i]
         /\ \A i \in 1..Len(x) : (a \o x)[Len(a) + i] = x[i]
BY DEF Text

\* Texts are joined in any order, and nothing adds nothing.
LEMMA JoinedThrice ==
  ASSUME NEW a \in Text, NEW b \in Text, NEW c \in Text
  PROVE  (a \o b) \o c = a \o (b \o c) /\ a \o <<>> = a /\ <<>> \o a = a
BY DEF Text

\* Texts are joined in any order.
LEMMA JoinedAgain ==
  ASSUME NEW a \in Text, NEW b \in Text, NEW c \in Text
  PROVE  (a \o b) \o c = a \o (b \o c)
BY JoinedThrice

\* Nothing before a text leaves it.
LEMMA NothingBefore ==
  ASSUME NEW a \in Text
  PROVE  <<>> \o a = a
BY DEF Text

\* Texts that agree place by place are one.
LEMMA SameText ==
  ASSUME NEW a \in Text, NEW b \in Text, Len(a) = Len(b), \A i \in 1..Len(a) : a[i] = b[i]
  PROVE  a = b
BY DEF Text

\* A text is cut into its start and its end.
LEMMA CutFacts ==
  ASSUME NEW text \in Text, NEW t \in 0..Len(text)
  PROVE  LET a == Start(text, Len(text) - t)
             h == End(text, t)
         IN  /\ a \in Text /\ h \in Text /\ a \o h = text
             /\ Len(a) = Len(text) - t /\ Len(h) = t
             /\ \A i \in 1..Len(text) - t : a[i] = text[i]
             /\ \A i \in 1..t : h[i] = text[Len(text) - t + i]
<1>1. Len(text) \in Nat /\ t \in Nat /\ t <= Len(text)
  BY DEF Text
<1> DEFINE a == SubSeq(text, 1, Len(text) - t)
           h == SubSeq(text, Len(text) - t + 1, Len(text))
<1>2. /\ a \in Text /\ h \in Text /\ Len(a) = Len(text) - t /\ Len(h) = t
      /\ \A i \in 1..Len(text) - t : a[i] = text[i]
      /\ \A i \in 1..t : h[i] = text[Len(text) - t + i]
  BY <1>1 DEF Text
<1> HIDE DEF a, h
<1>a. /\ a \o h \in Text /\ Len(a \o h) = Len(a) + Len(h)
      /\ \A i \in 1..Len(a) : (a \o h)[i] = a[i]
      /\ \A i \in 1..Len(h) : (a \o h)[Len(a) + i] = h[i]
  BY <1>2, JoinedFacts, Zenon
<1>3. Len(a \o h) = Len(text)
  BY <1>1, <1>2, <1>a
<1>4. ASSUME NEW i \in 1..Len(text) PROVE (a \o h)[i] = text[i]
  <2>1. CASE i <= Len(a)
    BY <1>1, <1>2, <1>a, <2>1
  <2>2. CASE i > Len(a)
    <3>1. i - Len(a) \in 1..Len(h) /\ Len(a) + (i - Len(a)) = i
      BY <1>1, <1>2, <2>2
    <3>2. (a \o h)[i] = h[i - Len(a)]
      BY <1>a, <3>1
    <3>3. h[i - Len(a)] = text[i]
      BY <1>1, <1>2, <3>1
    <3> QED BY <3>2, <3>3
  <2> QED BY <1>1, <1>2, <2>1, <2>2
<1>5. a \o h = text
  BY <1>3, <1>4, <1>a, SameText
<1> QED BY <1>2, <1>5 DEF Start, End, a, h

\* A replacement stands at a place when it does character by character.
LEMMA BeginsPoint ==
  ASSUME NEW text \in Text, NEW m \in Text \ {<<>>}, NEW i \in 1..Len(text)
  PROVE  BeginsAt(text, i, m) <=> /\ i + Len(m) - 1 <= Len(text)
                                  /\ \A j \in 1..Len(m) : text[i + j - 1] = m[j]
<1>1. Len(text) \in Nat /\ Len(m) \in Nat /\ Len(m) # 0 /\ i \in Nat
  BY DEF Text
<1> SUFFICES ASSUME i + Len(m) - 1 <= Len(text)
             PROVE  SubSeq(text, i, i + Len(m) - 1) = m
                      <=> \A j \in 1..Len(m) : text[i + j - 1] = m[j]
  BY DEF BeginsAt
<1> DEFINE s == SubSeq(text, i, i + Len(m) - 1)
<1>2. s \in Text /\ Len(s) = Len(m) /\ \A j \in 1..Len(m) : s[j] = text[i + j - 1]
  BY <1>1 DEF Text
<1> HIDE DEF s
<1>3. (\A j \in 1..Len(m) : s[j] = m[j]) => s = m
  BY <1>2 DEF Text
<1> QED BY <1>2, <1>3 DEF s

\* What stands at a place of the first of two texts does not reach into the second, if
\* nothing does.
LEMMA MatchLeft ==
  ASSUME NEW known, Mapping(known), NEW a \in Text, NEW x \in Text, Parted(known, a, x),
         NEW i \in 1..Len(a)
  PROVE  MatchAt(known, a \o x, i) = MatchAt(known, a, i)
<1> DEFINE s == a \o x
<1>1. /\ s \in Text /\ Len(s) = Len(a) + Len(x) /\ Len(a) \in Nat /\ Len(x) \in Nat
      /\ \A j \in 1..Len(a) : s[j] = a[j]
  BY JoinedFacts
<1>2. ASSUME NEW m \in DOMAIN known PROVE BeginsAt(s, i, m) <=> BeginsAt(a, i, m)
  <2>1. m \in Text \ {<<>>} /\ Len(m) \in Nat /\ i \in 1..Len(s)
    BY <1>1 DEF Mapping, Text
  <2>2. BeginsAt(s, i, m) => i + Len(m) - 1 <= Len(a)
    BY <1>2 DEF Parted
  <2> HIDE DEF s
  <2>3. BeginsAt(s, i, m) <=> /\ i + Len(m) - 1 <= Len(s)
                              /\ \A j \in 1..Len(m) : s[i + j - 1] = m[j]
    BY <1>1, <2>1, BeginsPoint
  <2>4. BeginsAt(a, i, m) <=> /\ i + Len(m) - 1 <= Len(a)
                              /\ \A j \in 1..Len(m) : a[i + j - 1] = m[j]
    BY <1>1, <2>1, BeginsPoint
  <2>5. i + Len(m) - 1 <= Len(a) => i + Len(m) - 1 <= Len(s)
                                    /\ \A j \in 1..Len(m) : s[i + j - 1] = a[i + j - 1]
    BY <1>1, <2>1
  <2> QED BY <2>2, <2>3, <2>4, <2>5
<1> HIDE DEF s
<1>3. {m \in DOMAIN known : BeginsAt(s, i, m)} = {m \in DOMAIN known : BeginsAt(a, i, m)}
  BY <1>2
<1> QED BY <1>3 DEF MatchAt, s

\* What stands at a place of the second is what stands there without the first.
LEMMA BeginsRight ==
  ASSUME NEW a \in Text, NEW x \in Text, NEW i \in 1..Len(x), NEW m \in Text \ {<<>>}
  PROVE  BeginsAt(a \o x, Len(a) + i, m) <=> BeginsAt(x, i, m)
<1> DEFINE s == a \o x
           k == Len(a) + i
<1>1. /\ s \in Text /\ Len(s) = Len(a) + Len(x) /\ Len(a) \in Nat /\ Len(x) \in Nat
      /\ \A j \in 1..Len(x) : s[Len(a) + j] = x[j]
  BY JoinedFacts
<1>2. Len(m) \in Nat /\ k \in 1..Len(s)
  BY <1>1 DEF Text
<1> HIDE DEF s
<1>3. BeginsAt(s, k, m) <=> /\ k + Len(m) - 1 <= Len(s)
                            /\ \A j \in 1..Len(m) : s[k + j - 1] = m[j]
  BY <1>1, <1>2, BeginsPoint
<1>4. BeginsAt(x, i, m) <=> /\ i + Len(m) - 1 <= Len(x)
                            /\ \A j \in 1..Len(m) : x[i + j - 1] = m[j]
  BY <1>1, <1>2, BeginsPoint
<1>5. k + Len(m) - 1 <= Len(s) <=> i + Len(m) - 1 <= Len(x)
  BY <1>1, <1>2
<1>6. ASSUME i + Len(m) - 1 <= Len(x), NEW j \in 1..Len(m) PROVE s[k + j - 1] = x[i + j - 1]
  <2>1. i + j - 1 \in 1..Len(x) /\ k + j - 1 = Len(a) + (i + j - 1)
    BY <1>1, <1>2, <1>6
  <2> HIDE DEF k
  <2> QED BY <1>1, <2>1
<1> HIDE DEF k
<1>7. BeginsAt(s, k, m) <=> BeginsAt(x, i, m)
  BY <1>3, <1>4, <1>5, <1>6
<1> QED BY <1>7 DEF s, k

\* So a walk finds there what it finds without the first.
LEMMA MatchRight ==
  ASSUME NEW known, Mapping(known), NEW a \in Text, NEW x \in Text, NEW i \in 1..Len(x)
  PROVE  MatchAt(known, a \o x, Len(a) + i) = MatchAt(known, x, i)
<1> DEFINE s == a \o x
           k == Len(a) + i
<1>1. \A m \in DOMAIN known : BeginsAt(s, k, m) <=> BeginsAt(x, i, m)
  BY BeginsRight DEF Mapping
<1> HIDE DEF s, k
<1>2. {m \in DOMAIN known : BeginsAt(s, k, m)} = {m \in DOMAIN known : BeginsAt(x, i, m)}
  BY <1>1
<1> QED BY <1>2 DEF MatchAt, s, k

\* What stands at a place of a text stands there whatever follows.
LEMMA BeginsLeft ==
  ASSUME NEW a \in Text, NEW x \in Text, NEW i \in 1..Len(a), NEW m \in Text \ {<<>>},
         BeginsAt(a, i, m)
  PROVE  BeginsAt(a \o x, i, m)
<1> DEFINE s == a \o x
<1>1. /\ s \in Text /\ Len(s) = Len(a) + Len(x) /\ Len(a) \in Nat /\ Len(x) \in Nat
      /\ \A j \in 1..Len(a) : s[j] = a[j]
  BY JoinedFacts
<1>2. Len(m) \in Nat /\ i \in 1..Len(s)
  BY <1>1 DEF Text
<1> HIDE DEF s
<1>3. i + Len(m) - 1 <= Len(a) /\ \A j \in 1..Len(m) : a[i + j - 1] = m[j]
  BY BeginsPoint
<1>4. i + Len(m) - 1 <= Len(s) /\ \A j \in 1..Len(m) : s[i + j - 1] = m[j]
  <2>1. \A j \in 1..Len(m) : i + j - 1 \in 1..Len(a)
    BY <1>1, <1>2, <1>3
  <2>2. \A j \in 1..Len(m) : s[i + j - 1] = m[j]
    BY <1>1, <1>3, <2>1
  <2>3. i + Len(m) - 1 <= Len(s)
    BY <1>1, <1>2, <1>3
  <2> QED BY <2>2, <2>3
<1> QED BY <1>1, <1>2, <1>4, BeginsPoint DEF s

\* Two texts that nothing joins are expanded each for itself.
LEMMA ExpandedParted ==
  ASSUME NEW known, Mapping(known), NEW a \in Text, NEW x \in Text, Parted(known, a, x)
  PROVE  Expanded(known, a \o x) = Expanded(known, a) \o Expanded(known, x)
<1> DEFINE s == a \o x
<1>1. /\ s \in Text /\ Len(s) = Len(a) + Len(x) /\ Len(a) \in Nat /\ Len(x) \in Nat
      /\ \A i \in 1..Len(a) : s[i] = a[i]
      /\ \A i \in 1..Len(x) : s[Len(a) + i] = x[i]
  BY JoinedFacts
<1>2. /\ \A i \in 1..Len(a) : MatchAt(known, s, i) = MatchAt(known, a, i)
      /\ \A i \in 1..Len(x) : MatchAt(known, s, Len(a) + i) = MatchAt(known, x, i)
  BY MatchLeft, MatchRight
<1> HIDE DEF s
<1>3. PICK w : WalksFrom(known, s, w, 1) /\ Expanded(known, s) = w[1]
  BY <1>1, ExpandedUnfolds
<1>4. PICK g : WalksFrom(known, a, g, 1) /\ Expanded(known, a) = g[1]
  BY ExpandedUnfolds
<1>5. PICK h : WalksFrom(known, x, h, 1) /\ Expanded(known, x) = h[1]
  BY ExpandedUnfolds
<1>6. /\ w[Len(s) + 1] = <<>> /\ \A i \in 1..Len(s) : w[i] = Bit(known, s, i) \o w[Jump(known, s, i)]
      /\ g[Len(a) + 1] = <<>> /\ \A i \in 1..Len(a) : g[i] = Bit(known, a, i) \o g[Jump(known, a, i)]
      /\ h[Len(x) + 1] = <<>> /\ \A i \in 1..Len(x) : h[i] = Bit(known, x, i) \o h[Jump(known, x, i)]
  <2>1. w[Len(s) + 1] = <<>> /\ \A i \in 1..Len(s) : w[i] = Bit(known, s, i) \o w[Jump(known, s, i)]
    <3>1. s \in Text
      BY <1>1
    <3>2. WalksFrom(known, s, w, 1)
      BY <1>3
    <3> QED BY <3>1, <3>2, WalkSteps, Zenon
  <2>2. g[Len(a) + 1] = <<>> /\ \A i \in 1..Len(a) : g[i] = Bit(known, a, i) \o g[Jump(known, a, i)]
    BY <1>4, WalkSteps
  <2>3. h[Len(x) + 1] = <<>> /\ \A i \in 1..Len(x) : h[i] = Bit(known, x, i) \o h[Jump(known, x, i)]
    BY <1>5, WalkSteps
  <2> QED BY <2>1, <2>2, <2>3
<1>7. /\ \A i \in 1..Len(a) : /\ Bit(known, s, i) = Bit(known, a, i)
                              /\ Jump(known, s, i) = Jump(known, a, i)
      /\ \A i \in 1..Len(x) : /\ Bit(known, s, Len(a) + i) = Bit(known, x, i)
                              /\ Jump(known, s, Len(a) + i) = Len(a) + Jump(known, x, i)
  <2>1. ASSUME NEW i \in 1..Len(a)
        PROVE  Bit(known, s, i) = Bit(known, a, i) /\ Jump(known, s, i) = Jump(known, a, i)
    BY <1>1, <1>2 DEF Bit, Jump
  <2>2. ASSUME NEW i \in 1..Len(x)
        PROVE  /\ Bit(known, s, Len(a) + i) = Bit(known, x, i)
               /\ Jump(known, s, Len(a) + i) = Len(a) + Jump(known, x, i)
    <3>1. MatchAt(known, s, Len(a) + i) = MatchAt(known, x, i) /\ s[Len(a) + i] = x[i]
      BY <1>1, <1>2
    <3>2. CASE MatchAt(known, x, i) = <<>>
      BY <1>1, <3>1, <3>2 DEF Bit, Jump
    <3>3. CASE MatchAt(known, x, i) # <<>>
      <4>1. MatchAt(known, x, i) \in DOMAIN known
        BY <3>3, MatchFound
      <4>2. Len(MatchAt(known, x, i)) \in Nat
        BY <4>1 DEF Mapping, Text
      <4> QED BY <1>1, <3>1, <3>3, <4>2 DEF Bit, Jump
    <3> QED BY <3>2, <3>3
  <2> QED BY <2>1, <2>2
<1>8. /\ \A i \in 1..Len(x) : Bit(known, x, i) \in Text /\ Jump(known, x, i) \in i + 1..Len(x) + 1
      /\ \A i \in 1..Len(a) : Bit(known, a, i) \in Text /\ Jump(known, a, i) \in i + 1..Len(a) + 1
  BY WalkGoesOn
\* The second text is walked as if it stood alone.
<1> DEFINE U == {i \in Nat : w[Len(a) + i] = h[i]}
<1>9. \A i \in 1..Len(x) + 1 : i \in U
  <2>1. Len(x) + 1 \in U
    <3>1. Len(a) + (Len(x) + 1) = Len(s) + 1 /\ Len(x) + 1 \in Nat
      BY <1>1
    <3> QED BY <1>6, <3>1
  <2>2. ASSUME NEW i \in 1..Len(x), \A j \in i + 1..Len(x) + 1 : j \in U PROVE i \in U
    <3>1. Len(a) + i \in 1..Len(s) /\ i \in Nat
      BY <1>1
    <3>2. w[Len(a) + i] = Bit(known, x, i) \o w[Len(a) + Jump(known, x, i)]
      BY <1>6, <1>7, <3>1
    <3>3. w[Len(a) + Jump(known, x, i)] = h[Jump(known, x, i)]
      BY <1>8, <2>2
    <3>4. h[i] = Bit(known, x, i) \o h[Jump(known, x, i)]
      BY <1>6
    <3> QED BY <3>1, <3>2, <3>3, <3>4
  <2> HIDE DEF U
  <2> QED BY <1>1, <2>1, <2>2, Backwards
<1>10. w[Len(a) + 1] = h[1]
  <2>1. 1 \in 1..Len(x) + 1
    BY <1>1
  <2> QED BY <1>9, <2>1
<1>11. /\ \A i \in 1..Len(a) + 1 : g[i] \in Text
       /\ h[1] \in Text
  <2>1. 1 \in 1..Len(x) + 1
    BY <1>1
  <2> QED BY <1>4, <1>5, <2>1, WalkIsText
\* The first goes on into the second.
<1> DEFINE V == {i \in Nat : w[i] = g[i] \o h[1]}
<1>12. \A i \in 1..Len(a) + 1 : i \in V
  <2>1. Len(a) + 1 \in V
    <3>1. <<>> \o h[1] = h[1]
      BY <1>11, NothingBefore
    <3>2. w[Len(a) + 1] = g[Len(a) + 1] \o h[1]
      BY <1>6, <1>10, <3>1, Zenon
    <3>3. Len(a) + 1 \in Nat
      BY <1>1
    <3> QED BY <3>2, <3>3, Zenon
  <2>2. ASSUME NEW i \in 1..Len(a), \A j \in i + 1..Len(a) + 1 : j \in V PROVE i \in V
    <3> DEFINE b == Bit(known, a, i)
               j == Jump(known, a, i)
    <3>1. i \in 1..Len(s) /\ i \in Nat /\ b \in Text /\ j \in i + 1..Len(a) + 1 /\ j \in 1..Len(a) + 1
      BY <1>1, <1>8
    <3>2. w[i] = b \o w[j]
      BY <1>6, <1>7, <3>1
    <3>3. w[j] = g[j] \o h[1]
      BY <2>2, <3>1
    <3>4. g[i] = b \o g[j]
      BY <1>6
    <3>5. g[j] \in Text /\ h[1] \in Text
      BY <1>11, <3>1
    <3> HIDE DEF b, j
    <3>6. (b \o g[j]) \o h[1] = b \o (g[j] \o h[1])
      <4> DEFINE p == g[j]
                 q == h[1]
      <4>1. b \in Text /\ p \in Text /\ q \in Text
        BY <3>1, <3>5
      <4> HIDE DEF p, q
      <4>2. (b \o p) \o q = b \o (p \o q)
        BY <4>1, JoinedAgain
      <4> QED BY <4>2 DEF p, q
    <3>7. w[i] = g[i] \o h[1]
      BY <3>2, <3>3, <3>4, <3>6
    <3> QED BY <3>1, <3>7, Zenon
  <2> HIDE DEF V
  <2> QED BY <1>1, <2>1, <2>2, Backwards
<1>13. w[1] = g[1] \o h[1]
  <2>1. 1 \in 1..Len(a) + 1
    BY <1>1
  <2> QED BY <1>12, <2>1
<1> QED BY <1>3, <1>4, <1>5, <1>13 DEF s

-----------------------------------------------------------------------------
(* The tail that is held back is enough. *)

\* A text ends with what another begins with when it does character by character.
LEMMA EndIsStart ==
  ASSUME NEW text \in Text, NEW m \in Text, NEW k \in 1..Len(text), k <= Len(m)
  PROVE  End(text, k) = Start(m, k) <=> \A j \in 1..k : text[Len(text) - k + j] = m[j]
<1>1. Len(text) \in Nat /\ Len(m) \in Nat /\ k \in Nat
  BY DEF Text
<1> DEFINE e == SubSeq(text, Len(text) - k + 1, Len(text))
           s == SubSeq(m, 1, k)
<1>2. /\ e \in Text /\ Len(e) = k /\ \A j \in 1..k : e[j] = text[Len(text) - k + j]
      /\ s \in Text /\ Len(s) = k /\ \A j \in 1..k : s[j] = m[j]
  BY <1>1 DEF Text
<1> HIDE DEF e, s
<1>3. (\A j \in 1..k : e[j] = s[j]) => e = s
  BY <1>2, SameText
<1> QED BY <1>2, <1>3 DEF Start, End, e, s

\* The end of a text, from the k-th place before its end, is a bracket left open.
Open(text, k) ==
  /\ k <= MaxTokenLen
  /\ text[Len(text) - k + 1] = "["
  /\ \A i \in 2..k : text[Len(text) - k + i] \in TokenChars

\* It begins a stand-in.
StandInBegun(known, text, k) ==
  \E m \in StandInsOf(known) :
    k < Len(m) /\ \A j \in 1..k : text[Len(text) - k + j] = m[j]

\* A stand-in ends the text, and no longer one does.
LEMMA WholeLenFacts ==
  ASSUME NEW known, Mapping(known), NEW text \in Text
  PROVE  /\ WholeLen(known, text) \in 0..Len(text)
         /\ \/ WholeLen(known, text) = 0
            \/ \E o \in StandInsOf(known) :
                 /\ Len(o) = WholeLen(known, text)
                 /\ \A j \in 1..Len(o) : text[Len(text) - Len(o) + j] = o[j]
<1> DEFINE S == {0} \union {Len(m) : m \in {o \in StandInsOf(known) :
                          Len(o) <= Len(text) /\ End(text, Len(o)) = o}}
<1>1. Len(text) \in Nat
  BY DEF Text
<1>2. \A m \in StandInsOf(known) : m \in Text /\ Len(m) \in Nat \ {0}
  BY DEF StandInsOf, Mapping, Text
<1>3. S \in SUBSET Nat /\ S # {} /\ \A k \in S : k <= Len(text)
  BY <1>1, <1>2
<1>4. WholeLen(known, text) = Greatest(S)
  BY DEF WholeLen
<1> HIDE DEF S
<1>5. Greatest(S) \in S
  BY <1>1, <1>3, GreatestIsOne
<1>6. CASE Greatest(S) = 0
  BY <1>1, <1>4, <1>6
<1>7. CASE Greatest(S) # 0
  <2>1. PICK o \in StandInsOf(known) : /\ Len(o) <= Len(text) /\ End(text, Len(o)) = o
                                       /\ Greatest(S) = Len(o)
    BY <1>5, <1>7 DEF S
  <2>2. o \in Text /\ Len(o) \in Nat \ {0} /\ Len(o) \in 0..Len(text)
    BY <1>1, <1>2, <2>1
  <2>3. \A j \in 1..Len(o) : End(text, Len(o))[j] = text[Len(text) - Len(o) + j]
    BY <2>2, CutFacts
  <2> QED BY <1>4, <2>1, <2>2, <2>3
<1> QED BY <1>6, <1>7

\* What is held back reaches as far as any bracket left open and any stand-in begun
\* behind the last whole one, and is one of these.
LEMMA TailLenFacts ==
  ASSUME NEW known, Mapping(known), NEW text \in Text
  PROVE  LET t == TailLen(known, text)
         IN  /\ t \in 0..Len(text)
             /\ \A k \in 1..Len(text) :
                  \/ Open(text, k)
                  \/ k >= WholeLen(known, text) /\ StandInBegun(known, text, k)
                  => k <= t
             /\ t = 0 \/ Open(text, t) \/ StandInBegun(known, text, t)
<1> DEFINE open == {0} \union
             {k \in 1..Least(Len(text), MaxTokenLen) :
                /\ End(text, k)[1] = "["
                /\ \A i \in 2..k : End(text, k)[i] \in TokenChars}
           begun == {k \in 1..Len(text) :
                  /\ k >= WholeLen(known, text)
                  /\ \E m \in StandInsOf(known) :
                       k < Len(m) /\ End(text, k) = Start(m, k)}
           u == TokenTailLen(text)
           all == begun \union {u}
           t == TailLen(known, text)
<1>1. Len(text) \in Nat
  BY DEF Text
<1>2. \A k \in 1..Len(text) : \A i \in 1..k : End(text, k)[i] = text[Len(text) - k + i]
  <2> TAKE k \in 1..Len(text)
  <2>1. k \in 0..Len(text)
    BY <1>1
  <2> QED BY <2>1, CutFacts
<1>3. /\ \A k \in 1..Len(text) : Open(text, k) => k \in open
      /\ \A k \in open \ {0} : k \in 1..Len(text) /\ Open(text, k)
  <2>1. ASSUME NEW k \in 1..Len(text), Open(text, k) PROVE k \in open
    <3>1. End(text, k)[1] = "[" /\ \A i \in 2..k : End(text, k)[i] \in TokenChars
      <4>1. 1 \in 1..k /\ \A i \in 2..k : i \in 1..k
        OBVIOUS
      <4> QED BY <1>2, <2>1, <4>1 DEF Open
    <3>2. k \in 1..Least(Len(text), MaxTokenLen)
      BY <1>1, <2>1, BoundsAssumption DEF Open, Least
    <3> QED BY <3>1, <3>2
  <2>2. ASSUME NEW k \in open, k # 0 PROVE k \in 1..Len(text) /\ Open(text, k)
    <3>1. /\ k \in 1..Least(Len(text), MaxTokenLen)
          /\ End(text, k)[1] = "[" /\ \A i \in 2..k : End(text, k)[i] \in TokenChars
      BY <2>2
    <3>2. k \in 1..Len(text) /\ k <= MaxTokenLen
      BY <1>1, <3>1, BoundsAssumption DEF Least
    <3>3. 1 \in 1..k /\ \A i \in 2..k : i \in 1..k
      BY <3>2
    <3> QED BY <1>2, <3>1, <3>2, <3>3 DEF Open
  <2> QED BY <2>1, <2>2
<1>4. \A k \in 1..Len(text) :
        k \in begun <=> k >= WholeLen(known, text) /\ StandInBegun(known, text, k)
  <2> SUFFICES ASSUME NEW k \in 1..Len(text), NEW m \in StandInsOf(known), k < Len(m)
               PROVE  End(text, k) = Start(m, k)
                        <=> \A j \in 1..k : text[Len(text) - k + j] = m[j]
    BY DEF StandInBegun
  <2>1. m \in Text /\ Len(m) \in Nat
    BY DEF StandInsOf, Mapping, Text
  <2> QED BY <2>1, EndIsStart
<1>5. open \in SUBSET Nat /\ open # {} /\ \A k \in open : k <= Len(text)
  BY <1>1, BoundsAssumption DEF Least
<1>6. u = Greatest(open)
  BY DEF TokenTailLen
<1>7. begun \in SUBSET (1..Len(text))
  OBVIOUS
<1>8. t = Greatest(all)
  BY DEF TailLen
<1> HIDE DEF open, begun, u, t
<1>9. u \in open /\ (\A k \in open : k <= u) /\ u \in 0..Len(text)
  <2>1. u \in open /\ \A k \in open : k <= u
    BY <1>1, <1>5, <1>6, GreatestIsOne
  <2> QED BY <1>1, <1>5, <2>1
<1>10. all \in SUBSET Nat /\ all # {} /\ \A k \in all : k \in 0..Len(text) /\ k <= Len(text)
  <2>1. \A k \in 1..Len(text) : k \in 0..Len(text)
    OBVIOUS
  <2>2. \A k \in all : k \in 0..Len(text)
    BY <1>7, <1>9, <2>1
  <2>3. \A k \in 0..Len(text) : k \in Nat /\ k <= Len(text)
    BY <1>1
  <2> QED BY <2>2, <2>3
<1>11. t \in all /\ \A k \in all : k <= t
  <2> HIDE DEF all
  <2> QED BY <1>1, <1>8, <1>10, GreatestIsOne
<1>12. u \in Nat /\ t \in Nat /\ u <= t
  BY <1>9, <1>10, <1>11
<1>13. ASSUME NEW k \in 1..Len(text), Open(text, k) PROVE k <= t
  <2>1. k <= u
    BY <1>3, <1>9, <1>13
  <2> QED BY <1>12, <2>1
<1>14. ASSUME NEW k \in 1..Len(text), k >= WholeLen(known, text), StandInBegun(known, text, k)
       PROVE  k <= t
  BY <1>4, <1>11, <1>14
<1>15. t = 0 \/ Open(text, t) \/ StandInBegun(known, text, t)
  <2>1. CASE t = u
    BY <1>3, <1>9, <2>1
  <2>2. CASE t \in begun
    BY <1>4, <1>7, <2>2
  <2> QED BY <1>11, <2>1, <2>2
<1> QED BY <1>10, <1>11, <1>13, <1>14, <1>15 DEF t

\* Whatever comes behind the tail, no replacement begins before it and ends past its
\* beginning.
LEMMA TailIsSafe ==
  ASSUME NEW known, Mapping(known), Apart(known), NEW text \in Text, NEW t,
         t = TailLen(known, text)
  PROVE  Safe(known, Start(text, Len(text) - t), End(text, t))
<1> DEFINE front == Start(text, Len(text) - t)
           held == End(text, t)
           L == Len(text)
           p == L - t
<1>1. /\ t \in 0..L /\ L \in Nat /\ t \in Nat
      /\ \A k \in 1..L : Open(text, k) => k <= t
      /\ \A k \in 1..L : k >= WholeLen(known, text) /\ StandInBegun(known, text, k) => k <= t
      /\ t = 0 \/ Open(text, t) \/ StandInBegun(known, text, t)
  <2>1. L \in Nat
    BY DEF Text
  <2> HIDE DEF L
  <2> QED BY <2>1, TailLenFacts DEF L
<1>2. front \in Text /\ held \in Text /\ front \o held = text /\ Len(front) = p
  BY <1>1, CutFacts
<1> HIDE DEF front, held
<1> SUFFICES ASSUME NEW s \in Text, NEW m \in DOMAIN known, NEW i \in 1..p,
                    BeginsAt(text \o s, i, m), i + Len(m) - 1 > p
             PROVE  FALSE
  <2>1. ASSUME NEW s \in Text PROVE front \o (held \o s) = text \o s
    <3>0. front \in Text /\ held \in Text
      BY <1>2
    <3>1. (front \o held) \o s = front \o (held \o s)
      BY <3>0, JoinedThrice, Zenon
    <3> QED BY <1>2, <3>1
  <2>2. ASSUME NEW s \in Text PROVE Parted(known, front, held \o s)
    <3> DEFINE x == held \o s
               l == Len(front)
    <3>1. front \o x = text \o s /\ l = p
      BY <1>2, <2>1
    <3> HIDE DEF x, l
    <3>2. ASSUME NEW m \in DOMAIN known, NEW i \in 1..l, BeginsAt(front \o x, i, m)
          PROVE  i + Len(m) - 1 <= l
      <4>1. i \in 1..p /\ BeginsAt(text \o s, i, m) /\ i \in Nat /\ p \in Nat
        BY <1>1, <3>1, <3>2
      <4>2. Len(m) \in Nat
        BY DEF Mapping, Text
      <4>3. ~(i + Len(m) - 1 > p)
        BY <4>1
      <4> HIDE DEF p
      <4> QED BY <3>1, <4>1, <4>2, <4>3
    <3> QED BY <3>2 DEF Parted, x, l
  <2> QED BY <2>2 DEF Safe, front, held
<1>3. m \in Text \ {<<>>} /\ m \in Text /\ Len(m) \in Nat /\ Len(m) # 0
  BY DEF Mapping, Text
<1>4. /\ text \o s \in Text /\ Len(text \o s) = L + Len(s) /\ Len(s) \in Nat
      /\ \A j \in 1..L : (text \o s)[j] = text[j]
  BY JoinedFacts
<1>5. /\ i \in 1..L /\ i \in Nat /\ p \in Nat /\ i <= p /\ p + t = L
      /\ i + Len(m) - 1 > p
  BY <1>1
<1>6. /\ i + Len(m) - 1 <= L + Len(s)
      /\ \A j \in 1..Len(m) : (text \o s)[i + j - 1] = m[j]
  <2>1. i \in 1..Len(text \o s)
    BY <1>4, <1>5
  <2> DEFINE q == text \o s
  <2>2. q \in Text /\ i \in 1..Len(q) /\ BeginsAt(q, i, m)
    BY <1>4, <2>1
  <2> HIDE DEF q
  <2>3. i + Len(m) - 1 <= Len(q) /\ \A j \in 1..Len(m) : q[i + j - 1] = m[j]
    BY <1>3, <2>2, BeginsPoint
  <2> QED BY <1>4, <2>3 DEF q
<1>7. \A j \in 1..Len(m) : i + j - 1 <= L => text[i + j - 1] = m[j]
  <2> TAKE j \in 1..Len(m)
  <2> HAVE i + j - 1 <= L
  <2>1. i + j - 1 \in 1..L
    BY <1>1, <1>3, <1>5
  <2> QED BY <1>4, <1>6, <2>1
<1>8. /\ \A o \in StandInsOf(known) : /\ o \in Text /\ Len(o) \in Nat
                                      /\ \A j \in 1..Len(o) : o[j] \notin {"[", "]"}
      /\ \A o, n \in StandInsOf(known) : \A k \in Nat \ {0} :
           k < Len(o) /\ k < Len(n) => \E j \in 1..k : o[Len(o) - k + j] # n[j]
  <2>1. \A o \in StandInsOf(known) : o \in DOMAIN known /\ o \in Text /\ Len(o) \in Nat
    BY DEF StandInsOf, Mapping, Text
  <2>2. \A o \in StandInsOf(known) : DOMAIN o = 1..Len(o)
    BY <2>1 DEF Text
  <2>3. \A o \in StandInsOf(known) : Bracketless(o)
    BY DEF StandInsOf, Apart
  <2>4. ASSUME NEW o \in StandInsOf(known), NEW n \in StandInsOf(known), NEW k \in Nat \ {0},
               k < Len(o), k < Len(n)
        PROVE  \E j \in 1..k : o[Len(o) - k + j] # n[j]
    <3>1. k \in 1..(Least(Len(o), Len(n)) - 1)
      BY <2>1, <2>4 DEF Least
    <3>2. End(o, k) # Start(n, k)
      BY <3>1 DEF Apart, Overlap
    <3>3. k \in 1..Len(o) /\ k <= Len(n)
      BY <2>1, <2>4
    <3> QED BY <2>1, <3>2, <3>3, EndIsStart
  <2> QED BY <2>1, <2>2, <2>3, <2>4 DEF Bracketless
<1>9. IsToken(m) => /\ Len(m) <= MaxTokenLen /\ m[1] = "[" /\ m[Len(m)] = "]"
                    /\ \A j \in 2..(Len(m) - 1) : m[j] \in TokenChars
  BY DEF IsToken, Apart
<1>10. ~IsToken(m) => m \in StandInsOf(known)
  BY DEF StandInsOf
\* A replacement that ends behind the text.
<1>11. CASE i + Len(m) - 1 > L
  <2> DEFINE k == L - i + 1
  <2>1. k \in 1..L /\ k \in Nat \ {0} /\ k < Len(m) /\ k > t
    BY <1>1, <1>3, <1>5, <1>11
  <2>2. \A j \in 1..k : text[L - k + j] = m[j]
    <3> TAKE j \in 1..k
    <3>1. j \in 1..Len(m) /\ i + j - 1 <= L /\ L - k + j = i + j - 1
      BY <1>1, <1>3, <1>5, <2>1
    <3> HIDE DEF k
    <3> QED BY <1>7, <3>1
  <2> HIDE DEF k
  <2>3. CASE IsToken(m)
    <3>1. 1 \in 1..k /\ \A j \in 2..k : j \in 1..k /\ j \in 2..(Len(m) - 1)
      BY <1>3, <2>1
    <3>2. k <= MaxTokenLen
      BY <1>3, <1>9, <2>1, <2>3, BoundsAssumption
    <3>3. Open(text, k)
      BY <1>9, <2>2, <2>3, <3>1, <3>2 DEF Open
    <3>4. k <= t
      BY <1>1, <2>1, <3>3
    <3> QED BY <1>1, <2>1, <3>4
  <2>4. CASE ~IsToken(m) /\ k >= WholeLen(known, text)
    <3>1. StandInBegun(known, text, k)
      BY <1>10, <2>1, <2>2, <2>4 DEF StandInBegun
    <3>2. k <= t
      BY <1>1, <2>1, <2>4, <3>1
    <3> QED BY <1>1, <2>1, <3>2
  <2>5. CASE ~IsToken(m) /\ k < WholeLen(known, text)
    <3>1. PICK o \in StandInsOf(known) :
            /\ Len(o) = WholeLen(known, text)
            /\ \A j \in 1..Len(o) : text[L - Len(o) + j] = o[j]
      BY <2>1, <2>5, WholeLenFacts
    <3>2. Len(o) \in Nat /\ k < Len(o)
      BY <1>8, <2>5, <3>1
    <3>3. PICK j \in 1..k : o[Len(o) - k + j] # m[j]
      BY <1>8, <1>10, <2>1, <2>5, <3>2
    <3>4. Len(o) - k + j \in 1..Len(o) /\ L - Len(o) + (Len(o) - k + j) = L - k + j
      BY <1>1, <2>1, <3>2
    <3> QED BY <2>2, <3>1, <3>3, <3>4
  <2>6. k >= WholeLen(known, text) \/ k < WholeLen(known, text)
    <3>1. WholeLen(known, text) \in 0..L
      BY WholeLenFacts
    <3> QED BY <1>1, <2>1, <3>1
  <2> QED BY <2>3, <2>4, <2>5, <2>6
\* A replacement that ends inside the tail.
<1>12. CASE i + Len(m) - 1 <= L
  <2>0. p \in Nat /\ i <= p /\ p + t = L /\ p = L - t
    BY <1>1, <1>5
  <2> HIDE DEF p, L
  <2> DEFINE k == i + Len(m) - 1 - p
             q == p - i + 2
  <2>1. /\ t # 0 /\ k \in 1..t /\ k \in Nat \ {0} /\ k < Len(m)
        /\ q \in 2..Len(m) /\ q \in 1..Len(m) /\ i + q - 1 = p + 1 /\ p + 1 <= L
    <3> DEFINE n == Len(m)
    <3>1. n \in Nat /\ i \in Nat /\ p \in Nat /\ t \in Nat /\ L \in Nat /\ 1 <= i
      BY <1>1, <1>3, <1>5
    <3>2. i <= p /\ p + t = L /\ i + n - 1 > p /\ i + n - 1 <= L
      BY <1>5, <1>12, <2>0
    <3> HIDE DEF n
    <3>3. /\ t # 0 /\ i + n - 1 - p \in 1..t /\ i + n - 1 - p \in Nat \ {0}
          /\ i + n - 1 - p < n
          /\ p - i + 2 \in 2..n /\ p - i + 2 \in 1..n /\ i + (p - i + 2) - 1 = p + 1 /\ p + 1 <= L
      BY <3>1, <3>2
    <3> QED BY <3>3 DEF n
  <2>2. text[p + 1] = m[q]
    <3> HIDE DEF q
    <3> QED BY <1>7, <2>1
  <2>3. \A j \in 1..k : text[p + j] = m[Len(m) - k + j]
    <3> TAKE j \in 1..k
    <3>0. /\ Len(m) \in Nat /\ i \in Nat /\ p \in Nat /\ t \in Nat /\ L \in Nat
          /\ p + t = L /\ k \in 1..t /\ k < Len(m) /\ k = i + Len(m) - 1 - p
      BY <1>1, <1>3, <1>5, <2>0, <2>1
    <3> HIDE DEF k
    <3>1. /\ Len(m) - k + j \in 1..Len(m) /\ i + (Len(m) - k + j) - 1 = p + j
          /\ p + j <= L
      BY <3>0
    <3> HIDE DEF k
    <3> QED BY <1>7, <3>1
  <2> HIDE DEF k, q
  <2>4. CASE Open(text, t)
    <3>1. m[q] = "["
      BY <2>0, <2>2, <2>4 DEF Open, L
    <3>2. CASE IsToken(m)
      <4>1. q \in 2..(Len(m) - 1) \/ q = Len(m)
        BY <1>3, <2>1
      <4>2. "[" \notin TokenChars
        BY TokenCharsAssumption
      <4> QED BY <1>9, <3>1, <3>2, <4>1, <4>2
    <3>3. CASE ~IsToken(m)
      BY <1>8, <1>10, <2>1, <3>1, <3>3
    <3> QED BY <3>2, <3>3
  <2>5. CASE StandInBegun(known, text, t)
    <3>1. PICK o \in StandInsOf(known) : t < Len(o) /\ \A j \in 1..t : text[p + j] = o[j]
      BY <2>0, <2>5 DEF StandInBegun, L
    <3>2. /\ Len(o) \in Nat /\ k < Len(o) /\ k \in 1..k /\ k \in 1..Len(o)
          /\ \A j \in 1..k : j \in 1..t
      BY <1>1, <1>8, <2>1, <3>1
    <3>3. \A j \in 1..k : o[j] = m[Len(m) - k + j]
      BY <2>3, <3>1, <3>2
    <3>4. CASE IsToken(m)
      <4>1. Len(m) - k + k = Len(m)
        BY <1>3, <2>1
      <4>2. o[k] = "]"
        BY <1>9, <3>2, <3>3, <3>4, <4>1
      <4>3. o[k] \notin {"[", "]"}
        BY <1>8, <3>1, <3>2
      <4> QED BY <4>2, <4>3, Zenon
    <3>5. CASE ~IsToken(m)
      <4>1. PICK j \in 1..k : m[Len(m) - k + j] # o[j]
        BY <1>8, <1>10, <2>1, <3>1, <3>2, <3>5
      <4> QED BY <3>3, <4>1
    <3> QED BY <3>4, <3>5
  <2> QED BY <1>1, <2>1, <2>4, <2>5
<1> QED BY <1>1, <1>3, <1>5, <1>11, <1>12

\* What is delivered and what is held are expanded each for itself.
LEMMA SafeNow ==
  ASSUME NEW known, Mapping(known), NEW a \in Text, NEW h \in Text, Safe(known, a, h)
  PROVE  Expanded(known, a \o h) = Expanded(known, a) \o Expanded(known, h)
<1>1. <<>> \in Text /\ h \o <<>> = h
  BY TextFacts, JoinedThrice
<1>2. Parted(known, a, h \o <<>>)
  BY <1>1 DEF Safe
<1>3. Parted(known, a, h)
  BY <1>1, <1>2
<1> QED BY <1>3, ExpandedParted

\* Nothing is cut in nothing.
LEMMA SafeNothing ==
  ASSUME NEW known, NEW h
  PROVE  Safe(known, <<>>, h)
BY DEF Safe, Parted

\* What goes out, a, goes on where the front ended, and b is held.
GoesOn(known, front, held, piece, a, b) ==
  /\ front \o a \in Text
  /\ (front \o a) \o b = (front \o held) \o piece
  /\ Safe(known, front \o a, b)
  /\ Expanded(known, front \o a) = Expanded(known, front) \o Expanded(known, a)

\* A text has had a front and a tail; a piece comes, and the tail and the piece are cut
\* anew.  If that cut is safe for the two of them it is for the whole, and the front and
\* what is cut off are expanded each for itself.
LEMMA SafeGoesOn ==
  ASSUME NEW known, Mapping(known), NEW front \in Text, NEW held \in Text, NEW piece \in Text,
         Safe(known, front, held), NEW a \in Text, NEW b \in Text,
         a \o b = held \o piece, Safe(known, a, b)
  PROVE  GoesOn(known, front, held, piece, a, b)
<1> DEFINE c == held \o piece
<1>1. c \in Text
  BY JoinedFacts
<1>3. a \in Text /\ b \in Text /\ a \o b = c
  OBVIOUS
<1> HIDE DEF c
<1>4. front \o a \in Text /\ Len(front \o a) = Len(front) + Len(a)
      /\ Len(front) \in Nat /\ Len(a) \in Nat
  BY <1>3, JoinedFacts
<1>5. (front \o a) \o b = front \o c
  <2>1. (front \o a) \o b = front \o (a \o b)
    BY JoinedAgain
  <2> QED BY <1>3, <2>1
<1>6. front \o c = (front \o held) \o piece
  <2>1. (front \o held) \o piece = front \o (held \o piece)
    BY JoinedAgain
  <2> QED BY <2>1 DEF c
<1>7. Safe(known, a, b)
  OBVIOUS
<1>8. ASSUME NEW s \in Text
      PROVE  /\ (front \o a) \o (b \o s) = front \o (a \o (b \o s))
             /\ (front \o a) \o (b \o s) = front \o (held \o (piece \o s))
             /\ a \o (b \o s) \in Text /\ b \o s \in Text /\ piece \o s \in Text
  <2>1. b \o s \in Text /\ piece \o s \in Text
    BY <1>3, JoinedFacts
  <2>2. a \o (b \o s) \in Text
    BY <1>3, <2>1, JoinedFacts
  <2>3. (front \o a) \o (b \o s) = front \o (a \o (b \o s))
    <3> DEFINE x == b \o s
    <3>1. x \in Text
      BY <2>1
    <3>2. \A u \in Text : (front \o a) \o u = front \o (a \o u)
      BY JoinedAgain
    <3> HIDE DEF x
    <3>3. (front \o a) \o x = front \o (a \o x)
      BY <3>1, <3>2
    <3> QED BY <3>3 DEF x
  <2>4. a \o (b \o s) = c \o s
    <3>1. (a \o b) \o s = a \o (b \o s)
      BY JoinedAgain
    <3> QED BY <1>3, <3>1
  <2>5. c \o s = held \o (piece \o s)
    <3>1. (held \o piece) \o s = held \o (piece \o s)
      BY JoinedAgain
    <3> QED BY <3>1 DEF c
  <2> QED BY <2>1, <2>2, <2>3, <2>4, <2>5
<1>9. Safe(known, front \o a, b)
  <2> DEFINE fa == front \o a
  <2>1. fa \in Text /\ Len(fa) = Len(front) + Len(a)
    BY <1>4
  <2> SUFFICES ASSUME NEW s \in Text, NEW m \in DOMAIN known, NEW i \in 1..Len(fa),
                      BeginsAt(fa \o (b \o s), i, m)
               PROVE  i + Len(m) - 1 <= Len(fa)
    BY DEF Safe, Parted
  <2>2. m \in Text \ {<<>>} /\ Len(m) \in Nat /\ i \in Nat
    BY <1>4, <2>1 DEF Mapping, Text
  <2>3. CASE i <= Len(front)
    <3> DEFINE x == piece \o s
    <3>1. BeginsAt(front \o (held \o x), i, m) /\ x \in Text
      BY <1>8
    <3>2. i \in 1..Len(front)
      BY <2>2, <2>3
    <3> HIDE DEF x
    <3>3. i + Len(m) - 1 <= Len(front)
      BY <3>1, <3>2 DEF Safe, Parted
    <3> QED BY <1>4, <2>1, <2>2, <3>3
  <2>4. CASE i > Len(front)
    <3> DEFINE x == b \o s
               y == a \o x
               j == i - Len(front)
    <3>1. /\ x \in Text /\ y \in Text /\ fa \o x = front \o y
          /\ Len(y) = Len(a) + Len(x) /\ Len(x) \in Nat
      <4>1. x \in Text /\ y \in Text /\ fa \o x = front \o y
        BY <1>8
      <4> HIDE DEF fa
      <4>2. Len(y) = Len(a) + Len(x) /\ Len(x) \in Nat
        <5> HIDE DEF x
        <5> QED BY <1>3, <4>1, JoinedFacts
      <4> QED BY <4>1, <4>2
    <3>2. j \in 1..Len(a) /\ j \in 1..Len(y) /\ Len(front) + j = i
      BY <1>4, <2>1, <2>2, <2>4, <3>1
    <3>3. BeginsAt(front \o y, Len(front) + j, m)
      BY <3>1, <3>2
    <3> HIDE DEF x, fa
    <3>4. BeginsAt(y, j, m)
      <4> HIDE DEF y, j
      <4> QED BY <2>2, <3>1, <3>2, <3>3, BeginsRight
    <3>5. j + Len(m) - 1 <= Len(a)
      <4> HIDE DEF j
      <4>1. Parted(known, a, x)
        BY <1>7 DEF Safe, x
      <4> QED BY <3>2, <3>4, <4>1 DEF Parted
    <3> QED BY <1>4, <2>1, <2>2, <3>2, <3>5
  <2> QED BY <1>4, <2>2, <2>3, <2>4
<1>10. Parted(known, front, a)
  <2> SUFFICES ASSUME NEW m \in DOMAIN known, NEW i \in 1..Len(front),
                      BeginsAt(front \o a, i, m)
               PROVE  i + Len(m) - 1 <= Len(front)
    BY DEF Parted
  <2>1. m \in Text \ {<<>>} /\ i \in 1..Len(front \o a)
    BY <1>4 DEF Mapping
  <2> DEFINE fa == front \o a
  <2>2. fa \in Text /\ i \in 1..Len(fa) /\ BeginsAt(fa, i, m) /\ fa \o b = front \o (held \o piece)
    BY <1>4, <1>5, <2>1 DEF c
  <2> HIDE DEF fa
  <2>3. BeginsAt(fa \o b, i, m)
    BY <1>3, <2>1, <2>2, BeginsLeft
  <2> QED BY <2>2, <2>3 DEF Safe, Parted
<1>11. Expanded(known, front \o a) = Expanded(known, front) \o Expanded(known, a)
  BY <1>10, ExpandedParted
<1> QED BY <1>4, <1>5, <1>6, <1>9, <1>11 DEF GoesOn

\* The cut at the tail is.
LEMMA CutGoesOn ==
  ASSUME NEW known, Mapping(known), Apart(known),
         NEW front \in Text, NEW held \in Text, NEW piece \in Text, Safe(known, front, held),
         NEW c, c = held \o piece, NEW t, t = TailLen(known, c),
         NEW a, a = Start(c, Len(c) - t), NEW b, b = End(c, t)
  PROVE  a \in Text /\ b \in Text /\ GoesOn(known, front, held, piece, a, b)
<1>1. c \in Text
  BY JoinedFacts
<1>2. t \in 0..Len(c)
  BY <1>1, TailLenFacts
<1>3. a \in Text /\ b \in Text /\ a \o b = c
  BY <1>1, <1>2, CutFacts
<1>4. Safe(known, a, b)
  BY <1>1, TailIsSafe
<1>5. a \o b = held \o piece
  BY <1>3
<1> QED BY <1>3, <1>4, <1>5, SafeGoesOn

-----------------------------------------------------------------------------
(* What the caller has of each block, and what is held back of it. *)

\* What an event adds to the text and to the arguments of a block.
Spoken(e, b) == IF e.type = "text_delta" /\ Slot(e) = b THEN e.text ELSE <<>>
Handed(e, b) == IF e.type = "json_delta" /\ Slot(e) = b THEN e.text ELSE <<>>

\* What the caller has, the event included that it is in the middle of.
Said(c, b) == c.text[b] \o Spoken(c.event, b)
Given(c, b) == c.args[b] \o Handed(c.event, b)

\* What is held back of a block.
HeldOf(rr, b) == IF Slot(rr.template) = b THEN rr.pending ELSE <<>>
HeldArgs(rr, b) == rr.argumentsIn # NoEvent /\ Slot(rr.argumentsIn) = b
Holds(rr) == rr.pending # <<>> \/ rr.argumentsIn # NoEvent

\* The blocks whose text and arguments can still grow: the one that is open, or the one
\* of a chat before its sentinel.
Growing ==
  IF Over THEN {}
  ELSE IF Chat THEN (IF source.phase = "sentinel" THEN {} ELSE {0})
  ELSE {source.open} \ {None}

\* Of all that has come of a text the caller has a front, expanded, and the rest is held:
\* the two can be expanded each for itself, and, while more may come, will be so always.
Fronted(all, held, said, grows) ==
  \E front \in Text :
    /\ all = front \o held /\ said = Expanded(Known, front)
    /\ Expanded(Known, all) = said \o Expanded(Known, held)
    /\ grows => Safe(Known, front, held)

\* A tool call's arguments are held until they are whole.
ArgsDelivered(rr, c, a, b) ==
  Given(c, b) = (IF HeldArgs(rr, b) THEN <<>> ELSE Restored(Known, a.args[b]))

\* What is held is of the block the agent is in.
HeldInPlace(rr) ==
  /\ rr.pending # <<>> => IF Chat THEN rr.template.index = None
                          ELSE rr.block # None /\ rr.template.index = rr.block
  /\ rr.argumentsIn # NoEvent => /\ ~Chat /\ rr.argumentsIn.index = rr.toolName
                                 /\ rr.toolName = rr.block

\* Nothing is held of a block the caller has the end of, nor is it in the middle of more.
EndsDelivered(rr, c) ==
  \A b \in StopsOf(c) :
    /\ ~Chat /\ HeldOf(rr, b) = <<>> /\ ~HeldArgs(rr, b)
    /\ b \in c.stopped => Spoken(c.event, b) = <<>> /\ Handed(c.event, b) = <<>>

Delivery(rr, c, a, g) ==
  /\ \A b \in Indices : /\ Fronted(a.text[b], HeldOf(rr, b), Said(c, b), b \in g)
                        /\ ArgsDelivered(rr, c, a, b)
  /\ HeldInPlace(rr)
  /\ Holds(rr) => c.event = NoEvent /\ ~c.done
  /\ EndsDelivered(rr, c)
  /\ c.done => c.event = NoEvent /\ g = {}

\* What the caller has the end of it has whole.
Whole(c, a) ==
  \A b \in Indices : b \in c.stopped \/ c.done =>
    c.text[b] = Expanded(Known, a.text[b]) /\ c.args[b] = Restored(Known, a.args[b])

RestoredInOrder ==
  Streams /\ Apart(Known) =>
    /\ Whole(client, arrived)
    /\ r.done => ~Holds(r)
    /\ client.result \in {"end", "error"} => out = <<>>
    /\ client.result # "hung up" =>
         IF r.joined THEN Whole(Upcoming, arrived) ELSE Delivery(r, Upcoming, arrived, Growing)

\* What is held goes out: the whole is delivered.
LEMMA FrontedOut ==
  ASSUME Mapping(Known), NEW all \in Text, NEW held \in Text, NEW said, NEW grows,
         Fronted(all, held, said, grows)
  PROVE  said \o Expanded(Known, held) = Expanded(Known, all) /\ said \in Text
<1>1. PICK front \in Text : said = Expanded(Known, front)
                            /\ Expanded(Known, all) = said \o Expanded(Known, held)
  BY DEF Fronted
<1> QED BY <1>1, ExpandedIsText

\* Nothing is expanded to nothing.
LEMMA ExpandedAtNothing ==
  ASSUME NEW known, Mapping(known)
  PROVE  Expanded(known, <<>>) = <<>>
<1>1. <<>> \in Text /\ Len(<<>>) = 0
  BY TextFacts
<1>2. PICK g : WalksFrom(known, <<>>, g, 1) /\ Expanded(known, <<>>) = g[1]
  BY <1>1, ExpandedUnfolds
<1>3. g[Len(<<>>) + 1] = <<>>
  BY <1>1, <1>2, WalkSteps
<1>4. Len(<<>>) + 1 = 1
  BY <1>1
<1> QED BY <1>2, <1>3, <1>4

\* Nothing is held when the whole is delivered, and as long as nothing comes that is so.
LEMMA FrontedWhole ==
  ASSUME Mapping(Known), NEW all \in Text
  PROVE  /\ Fronted(all, <<>>, Expanded(Known, all), FALSE)
         /\ \A said, grows : Fronted(all, <<>>, said, grows) => said = Expanded(Known, all)
<1>1. all \o <<>> = all /\ Expanded(Known, <<>>) = <<>> /\ Expanded(Known, all) \in Text
  BY JoinedThrice, TextFacts, ExpandedIsText, ExpandedAtNothing
<1>2. Expanded(Known, all) \o <<>> = Expanded(Known, all)
  BY <1>1, JoinedThrice, TextFacts
<1>3. Fronted(all, <<>>, Expanded(Known, all), FALSE)
  BY <1>1, <1>2 DEF Fronted
<1>4. ASSUME NEW said, NEW grows, Fronted(all, <<>>, said, grows) PROVE said = Expanded(Known, all)
  <2>1. PICK front \in Text : all = front \o <<>> /\ said = Expanded(Known, front)
    BY <1>4 DEF Fronted
  <2>2. front \o <<>> = front
    BY JoinedThrice, TextFacts
  <2> QED BY <2>1, <2>2
<1> QED BY <1>3, <1>4

\* A piece is cut behind what was held.
LEMMA FrontedCut ==
  ASSUME Mapping(Known), Apart(Known), NEW all \in Text, NEW held \in Text, NEW said,
         Fronted(all, held, said, TRUE), NEW piece \in Text,
         NEW c, c = held \o piece, NEW t, t = TailLen(Known, c), NEW grows
  PROVE  /\ Start(c, Len(c) - t) \in Text /\ End(c, t) \in Text
         /\ Fronted(all \o piece, End(c, t),
                    said \o Expanded(Known, Start(c, Len(c) - t)), grows)
<1> DEFINE a == Start(c, Len(c) - t)
           b == End(c, t)
<1>1. PICK front \in Text : /\ all = front \o held /\ said = Expanded(Known, front)
                            /\ Safe(Known, front, held)
  BY DEF Fronted
<1>2. a \in Text /\ b \in Text /\ GoesOn(Known, front, held, piece, a, b)
  BY <1>1, CutGoesOn
<1> HIDE DEF a, b
<1> DEFINE next == front \o a
<1>3. /\ next \in Text /\ next \o b = all \o piece /\ Safe(Known, next, b)
      /\ Expanded(Known, next) = said \o Expanded(Known, a)
  BY <1>1, <1>2 DEF GoesOn
<1> HIDE DEF next
<1>4. Expanded(Known, next \o b) = Expanded(Known, next) \o Expanded(Known, b)
  BY <1>2, <1>3, SafeNow
<1>5. Fronted(all \o piece, b, said \o Expanded(Known, a), grows)
  BY <1>3, <1>4 DEF Fronted
<1> QED BY <1>2, <1>5 DEF a, b

\* A block that has had nothing may grow.
LEMMA FrontedNothing ==
  ASSUME NEW held \in Text, NEW said, NEW grows, Fronted(<<>>, held, said, grows), NEW more
  PROVE  Fronted(<<>>, held, said, more)
<1>1. PICK front \in Text : /\ <<>> = front \o held /\ said = Expanded(Known, front)
                            /\ Expanded(Known, <<>>) = said \o Expanded(Known, held)
  BY DEF Fronted
<1>2. front = <<>>
  <2>1. Len(front \o held) = Len(front) + Len(held) /\ Len(front) \in Nat /\ Len(held) \in Nat
    BY JoinedFacts
  <2>2. Len(<<>>) = 0
    OBVIOUS
  <2>3. Len(front \o held) = 0
    BY <1>1, <2>2
  <2> DEFINE m == Len(front)
             n == Len(held)
  <2>4. m \in Nat /\ n \in Nat /\ m + n = 0
    BY <2>1, <2>3
  <2> HIDE DEF m, n
  <2>5. m = 0
    BY <2>4
  <2> QED BY <2>5 DEF Text, m
<1>3. Safe(Known, front, held)
  BY <1>2, SafeNothing
<1> QED BY <1>1, <1>3 DEF Fronted

\* What may grow may also stay as it is.
LEMMA FrontedLess ==
  ASSUME NEW all, NEW held, NEW said, NEW grows, NEW fewer, fewer => grows,
         Fronted(all, held, said, grows)
  PROVE  Fronted(all, held, said, fewer)
BY DEF Fronted

\* A session that has nothing to put back holds nothing.
LEMMA FrontedObserving ==
  ASSUME Mapping(Known), Observing, NEW all \in Text, NEW grows
  PROVE  Expanded(Known, all) = all /\ Fronted(all, <<>>, all, grows)
<1>1. Expanded(Known, all) = all /\ Expanded(Known, <<>>) = <<>>
  BY ExpandedOfNothing, TextFacts DEF Observing
<1>2. all \o <<>> = all
  BY JoinedThrice, TextFacts
<1>3. Safe(Known, all, <<>>)
  BY DEF Safe, Parted, Observing
<1> QED BY <1>1, <1>2, <1>3 DEF Fronted

\* A caller acts on an event it has in whole.
Speaks(f, d, e) ==
  /\ f \in Clients /\ ~f.done /\ f.event = NoEvent
  /\ f.stopped = d.stopped \union (IF e.type = "block_stop" THEN {Slot(e)} ELSE {})
  /\ \A b \in Indices : f.text[b] = d.text[b] \o Spoken(e, b) /\ f.args[b] = d.args[b] \o Handed(e, b)

\* It does so at the blank line.
LEMMA BlankSpeaks ==
  ASSUME NEW c \in Clients, ~c.done
  PROVE  Speaks(Took(c, Blank), c, c.event)
<1> DEFINE e == c.event
           s == Slot(e)
           a == Acted(c)
           d == Took(c, Blank)
<1>1. /\ e \in Events /\ s \in Indices /\ e.text \in Text
      /\ c.text \in [Indices -> Text] /\ c.args \in [Indices -> Text]
  <2>1. e \in Events /\ c.text \in [Indices -> Text] /\ c.args \in [Indices -> Text]
    BY DEF Clients
  <2>2. e.text \in Text
    BY <2>1 DEF Events
  <2> QED BY <2>1, <2>2, LineTypes
<1>2. d \in Clients /\ ~d.done /\ d.event = NoEvent /\ d.stopped = StopsOf(c)
  <2>1. d \in Clients
    BY TookTypes, LineTypes
  <2> QED BY <2>1, TookBlank
<1>3. d.text = a.text /\ d.args = a.args
  <2> DEFINE ok == c.coherent /\ Sound(c)
  <2>1. d = [a EXCEPT !.coherent = ok, !.name = Unnamed, !.event = NoEvent, !.id = 0]
    BY LineKinds DEF Took
  <2> HIDE DEF a, ok, d
  <2> QED BY <2>1
<1>4. /\ a.text = (IF e.type = "text_delta" THEN [c.text EXCEPT ![s] = @ \o e.text] ELSE c.text)
      /\ a.args = (IF e.type = "json_delta" THEN [c.args EXCEPT ![s] = @ \o e.text] ELSE c.args)
  BY DEF Acted, Clients
<1> HIDE DEF a, d
<1>5. ASSUME NEW b \in Indices
      PROVE  d.text[b] = c.text[b] \o Spoken(e, b) /\ d.args[b] = c.args[b] \o Handed(e, b)
  <2>1. /\ a.text[b] = (IF e.type = "text_delta" /\ s = b THEN c.text[b] \o e.text ELSE c.text[b])
        /\ a.args[b] = (IF e.type = "json_delta" /\ s = b THEN c.args[b] \o e.text ELSE c.args[b])
    BY <1>1, <1>4
  <2>2. c.text[b] \o <<>> = c.text[b] /\ c.args[b] \o <<>> = c.args[b]
    <3>1. c.text[b] \in Text /\ c.args[b] \in Text
      BY <1>1
    <3> QED BY <3>1, JoinedThrice
  <2> HIDE DEF e, s
  <2> QED BY <1>3, <2>1, <2>2 DEF Spoken, Handed, s
<1>6. d.stopped = c.stopped \union (IF e.type = "block_stop" THEN {Slot(e)} ELSE {})
  BY <1>2 DEF StopsOf
<1> HIDE DEF e
<1>7. Speaks(d, c, e)
  BY <1>2, <1>5, <1>6 DEF Speaks
<1> QED BY <1>7 DEF d, e

\* A whole event, under a name or none.
LEMMA WholeSpeaks ==
  ASSUME NEW before \in Clients, ~before.done, NEW e \in Events, NEW name \in Names
  PROVE  Speaks(Taken(before, Named(name, <<DataLine(e), Blank>>)), before, e)
<1> DEFINE c == Naming(before, name)
           f == [c EXCEPT !.event = e]
<1>1. Taken(before, Named(name, <<DataLine(e), Blank>>)) = Took(f, Blank) /\ c \in Clients
  BY TakenEvent, ZenonT(60)
<1>2. /\ f \in Clients /\ ~f.done /\ f.event = e /\ f.stopped = before.stopped
      /\ f.text = before.text /\ f.args = before.args
  BY DEF Naming, Clients
<1> HIDE DEF f
<1>3. Speaks(Took(f, Blank), f, e)
  BY <1>2, BlankSpeaks
<1>4. Speaks(Took(f, Blank), before, e)
  BY <1>2, <1>3 DEF Speaks
<1> QED BY <1>1, <1>4 DEF f

\* It is taken behind what was taken before.
LEMMA SpokenBehind ==
  ASSUME NEW c \in Clients, NEW lines \in Seq(AllLines), ~Taken(c, lines).done,
         NEW e \in Events, NEW name \in Names
  PROVE  Speaks(Taken(c, lines \o Named(name, <<DataLine(e), Blank>>)), Taken(c, lines), e)
<1> DEFINE d == Taken(c, lines)
           event == Named(name, <<DataLine(e), Blank>>)
<1>1. event \in Seq(AllLines)
  <2>1. <<DataLine(e), Blank>> \in Seq(AllLines)
    BY LineTypes, TwoLines
  <2> QED BY <2>1, NamedTypes
<1>2. d \in Clients
  BY TakenTypes
<1>3. Speaks(Taken(d, event), d, e)
  BY <1>2, WholeSpeaks
<1> HIDE DEF event
<1>4. Taken(c, lines \o event) = Taken(Taken(c, lines), event)
  BY <1>1, TakenJoined
<1> QED BY <1>3, <1>4 DEF event

\* What a delivery depends on, with the agent and with the caller.
SameHolding(p, q) ==
  /\ p.pending = q.pending /\ p.template = q.template /\ p.argumentsIn = q.argumentsIn
  /\ p.block = q.block /\ p.toolName = q.toolName
SameHearing(c, d) ==
  /\ c.text = d.text /\ c.args = d.args /\ c.event = d.event /\ c.stopped = d.stopped
  /\ c.done = d.done

LEMMA DeliverySame ==
  ASSUME NEW p, NEW q, SameHolding(p, q), NEW c, NEW d, SameHearing(c, d), NEW a, NEW g,
         Delivery(q, d, a, g)
  PROVE  Delivery(p, c, a, g)
<1>1. \A b : HeldOf(p, b) = HeldOf(q, b) /\ (HeldArgs(p, b) <=> HeldArgs(q, b))
  BY DEF HeldOf, HeldArgs, SameHolding
<1>2. \A b : Said(c, b) = Said(d, b) /\ Given(c, b) = Given(d, b)
  BY DEF Said, Given, SameHearing
<1>3. StopsOf(c) = StopsOf(d) /\ (Holds(p) <=> Holds(q))
  BY DEF StopsOf, Holds, SameHolding, SameHearing
<1>4. \A b \in Indices : /\ Fronted(a.text[b], HeldOf(p, b), Said(c, b), b \in g)
                         /\ ArgsDelivered(p, c, a, b)
  BY <1>1, <1>2 DEF Delivery, ArgsDelivered
<1>5. HeldInPlace(p) /\ EndsDelivered(p, c)
  BY <1>1, <1>3 DEF Delivery, HeldInPlace, EndsDelivered, SameHolding, SameHearing
<1> QED BY <1>3, <1>4, <1>5 DEF Delivery, SameHearing

\* No event says nothing.
LEMMA NothingSpoken ==
  /\ \A b : Spoken(NoEvent, b) = <<>> /\ Handed(NoEvent, b) = <<>>
  /\ NoEvent.type = "none"
  /\ \A c \in Clients : c.event = NoEvent =>
       StopsOf(c) = c.stopped /\ \A b \in Indices : Said(c, b) = c.text[b] /\ Given(c, b) = c.args[b]
<1>1. NoEvent.type = "none"
  BY DEF NoEvent, Event
<1>2. \A b : Spoken(NoEvent, b) = <<>> /\ Handed(NoEvent, b) = <<>>
  BY <1>1 DEF Spoken, Handed
<1>3. ASSUME NEW c \in Clients, c.event = NoEvent
      PROVE  StopsOf(c) = c.stopped /\ \A b \in Indices : Said(c, b) = c.text[b] /\ Given(c, b) = c.args[b]
  <2>1. ASSUME NEW b \in Indices PROVE Said(c, b) = c.text[b] /\ Given(c, b) = c.args[b]
    <3>1. c.text[b] \in Text /\ c.args[b] \in Text
      BY DEF Clients
    <3>2. Said(c, b) = c.text[b] \o <<>> /\ Given(c, b) = c.args[b] \o <<>>
      BY <1>2, <1>3 DEF Said, Given
    <3> QED BY <3>1, <3>2, JoinedThrice
  <2> QED BY <1>1, <1>3, <2>1 DEF StopsOf
<1> QED BY <1>1, <1>2, <1>3

\* The blank line of an event hands over nothing more.
LEMMA BlankDelivers ==
  ASSUME NEW rr, NEW c \in Clients, NEW a, NEW g, Delivery(rr, c, a, g)
  PROVE  Delivery(rr, Took(c, Blank), a, g) /\ Took(c, Blank) \in Clients
<1> DEFINE d == Took(c, Blank)
<1>1. CASE c.done
  BY <1>1, TookLine
<1>2. CASE ~c.done
  <2>1. Speaks(d, c, c.event)
    BY <1>2, BlankSpeaks
  <2> HIDE DEF d
  <2>2. /\ d \in Clients /\ ~d.done /\ d.event = NoEvent /\ d.stopped = StopsOf(c)
        /\ \A b \in Indices : d.text[b] = Said(c, b) /\ d.args[b] = Given(c, b)
    BY <2>1 DEF Speaks, Said, Given, StopsOf
  <2>3. StopsOf(d) = StopsOf(c) /\ \A b \in Indices : Said(d, b) = Said(c, b) /\ Given(d, b) = Given(c, b)
    BY <2>2, NothingSpoken
  <2>4. \A b \in Indices : /\ Fronted(a.text[b], HeldOf(rr, b), Said(d, b), b \in g)
                           /\ ArgsDelivered(rr, d, a, b)
    BY <2>3 DEF Delivery, ArgsDelivered
  <2>5. EndsDelivered(rr, d)
    BY <2>2, <2>3, NothingSpoken DEF Delivery, EndsDelivered
  <2>6. Delivery(rr, d, a, g)
    BY <2>2, <2>4, <2>5 DEF Delivery
  <2> QED BY <2>2, <2>6 DEF d
<1> QED BY <1>1, <1>2

\* Nor do a name, an id and a line cut short; and the sentinel only ends the reading.
LEMMA QuietDelivers ==
  ASSUME NEW rr, NEW c \in Clients, NEW a, NEW g, Delivery(rr, c, a, g), NEW line \in AllLines
  PROVE  /\ line.kind \in {"name", "id"} \union Partial => Delivery(rr, Took(c, line), a, g)
         /\ line.kind = "done" /\ ~Holds(rr) /\ g = {} /\ c.event = NoEvent =>
              Delivery(rr, Took(c, line), a, g)
<1> DEFINE d == Took(c, line)
<1>1. CASE c.done
  BY <1>1 DEF Took
<1>2. CASE ~c.done /\ line.kind \in {"name", "id"} \union Partial
  <2>1. SameHearing(d, c)
    BY <1>2 DEF Took, Clients, SameHearing, Partial
  <2>2. SameHolding(rr, rr)
    BY DEF SameHolding
  <2> HIDE DEF d
  <2>3. Delivery(rr, d, a, g)
    BY <2>1, <2>2, DeliverySame
  <2> QED BY <1>2, <2>3 DEF d
<1>3. CASE ~c.done /\ line.kind = "done" /\ ~Holds(rr) /\ g = {} /\ c.event = NoEvent
  <2>1. d = [c EXCEPT !.done = TRUE]
    BY <1>3 DEF Took
  <2> HIDE DEF d
  <2>2. /\ d.text = c.text /\ d.args = c.args /\ d.event = c.event /\ d.stopped = c.stopped
    BY <2>1 DEF Clients
  <2>3. StopsOf(d) = StopsOf(c) /\ \A b \in Indices : Said(d, b) = Said(c, b) /\ Given(d, b) = Given(c, b)
    BY <2>2 DEF StopsOf, Said, Given
  <2>4. \A b \in Indices : /\ Fronted(a.text[b], HeldOf(rr, b), Said(d, b), b \in g)
                           /\ ArgsDelivered(rr, d, a, b)
    BY <2>3 DEF Delivery, ArgsDelivered
  <2>5. EndsDelivered(rr, d)
    BY <2>2, <2>3 DEF Delivery, EndsDelivered
  <2>6. Delivery(rr, d, a, g)
    BY <1>3, <2>2, <2>4, <2>5 DEF Delivery
  <2> QED BY <1>3, <2>6 DEF d
<1> QED BY <1>1, <1>2, <1>3

\* What may grow next has had nothing yet, or may grow already.
LEMMA GrowsNext ==
  ASSUME NEW rr \in Rehydrators, NEW c, NEW a, NEW g, Delivery(rr, c, a, g),
         NEW more, \A b \in Indices : b \in more \ g => a.text[b] = <<>>, c.done => more = {}
  PROVE  Delivery(rr, c, a, more)
<1>1. ASSUME NEW b \in Indices PROVE Fronted(a.text[b], HeldOf(rr, b), Said(c, b), b \in more)
  <2>1. Fronted(a.text[b], HeldOf(rr, b), Said(c, b), b \in g)
    BY DEF Delivery
  <2>2. HeldOf(rr, b) \in Text
    BY TextFacts DEF HeldOf, Rehydrators
  <2>3. CASE b \in more \ g
    BY <2>1, <2>2, <2>3, FrontedNothing
  <2>4. CASE b \notin more \ g
    BY <2>1, <2>4, FrontedLess
  <2> QED BY <2>3, <2>4
<1> QED BY <1>1 DEF Delivery

\* Releasing held arguments, field by field.
LEMMA ArgumentsReleasedFields ==
  ASSUME Mapping(Known), NEW x \in Steps, x.r.argumentsIn # NoEvent
  PROVE  LET z == ArgumentsReleased(x)
             e == [x.r.argumentsIn EXCEPT !.text = Restored(Known, x.r.arguments)]
         IN  /\ z \in Steps /\ z.r.pending = x.r.pending /\ SameTemplate(z.r, x.r)
             /\ z.r.block = x.r.block /\ z.r.argumentsIn = NoEvent
             /\ z.out = x.out \o Named(x.r.argumentsName, <<DataLine(e), Blank>>)
<1> DEFINE whole == Restored(Known, x.r.arguments)
           z == ArgumentsReleased(x)
<1>0. x.r \in Rehydrators
  BY DEF Steps
<1>1. z \in Steps /\ z = HeldWritten(x, x.r.arguments, whole)
  BY ReleasedTypes DEF ArgumentsReleased
<1> HIDE DEF whole
<1> DEFINE q == Tell(x.r, whole, whole # x.r.arguments)
           d == IF IsDocument(x.r.arguments) THEN q.degraded ELSE q.degraded + 1
<1>a. z.r = [q EXCEPT !.arguments = <<>>, !.argumentsIn = NoEvent, !.argumentsName = Unnamed,
                      !.degraded = d]
  BY <1>1 DEF HeldWritten
<1>b. z.out = x.out \o Named(x.r.argumentsName,
                <<DataLine([x.r.argumentsIn EXCEPT !.text = whole]), Blank>>)
  <2>1. \A raw, text : HeldWritten(x, raw, text).out
                       = x.out \o Named(x.r.argumentsName,
                           <<DataLine([x.r.argumentsIn EXCEPT !.text = text]), Blank>>)
    BY DEF HeldWritten
  <2> QED BY <1>1, <2>1
<1>3. /\ q.pending = x.r.pending /\ SameTemplate(q, x.r) /\ q.block = x.r.block
      /\ DOMAIN q = DOMAIN x.r
  BY <1>0 DEF Tell, Rehydrators, SameTemplate
<1> HIDE DEF q, d, z
<1>4. "argumentsIn" \in DOMAIN q
  BY <1>0, <1>3 DEF Rehydrators
<1>5. z.r.pending = q.pending /\ SameTemplate(z.r, q) /\ z.r.block = q.block /\ z.r.argumentsIn = NoEvent
  BY <1>a, <1>4 DEF SameTemplate
<1> QED BY <1>1, <1>b, <1>3, <1>5 DEF SameTemplate, z, whole

\* A step that writes what was held of one block and lets go of it.
ReleasesTail(y, x, e) ==
  /\ y.pending = <<>> /\ y.template = x.template /\ y.argumentsIn = x.argumentsIn
  /\ y.block = x.block /\ y.toolName = x.toolName
  /\ e.type = "text_delta" /\ Slot(e) = Slot(x.template) /\ e.text = Expanded(Known, x.pending)

\* The tail goes out: the whole of its block is delivered.
LEMMA TailSpoken ==
  ASSUME Mapping(Known), NEW x \in Rehydrators, NEW y, NEW e, ReleasesTail(y, x, e), x.pending # <<>>,
         NEW a \in Arrivals, NEW g, NEW d \in Clients, Delivery(x, d, a, g), Slot(x.template) \notin g,
         NEW f, Speaks(f, d, e)
  PROVE  Delivery(y, f, a, g)
<1>1. d.event = NoEvent /\ ~d.done
  BY DEF Delivery, Holds
<1>2. /\ StopsOf(d) = d.stopped /\ \A b \in Indices : Said(d, b) = d.text[b] /\ Given(d, b) = d.args[b]
  BY <1>1, NothingSpoken
<1>3. /\ f \in Clients /\ ~f.done /\ f.event = NoEvent /\ f.stopped = d.stopped
      /\ \A b \in Indices : f.text[b] = d.text[b] \o Spoken(e, b) /\ f.args[b] = d.args[b] \o Handed(e, b)
  BY DEF Speaks, ReleasesTail
<1>4. StopsOf(f) = f.stopped /\ \A b \in Indices : Said(f, b) = f.text[b] /\ Given(f, b) = f.args[b]
  BY <1>3, NothingSpoken
<1>5. ASSUME NEW b \in Indices
      PROVE  /\ Fronted(a.text[b], HeldOf(y, b), Said(f, b), b \in g)
             /\ ArgsDelivered(y, f, a, b)
  <2>1. /\ Fronted(a.text[b], HeldOf(x, b), Said(d, b), b \in g) /\ ArgsDelivered(x, d, a, b)
    BY DEF Delivery
  <2>2. d.text[b] \in Text /\ d.args[b] \in Text /\ a.text[b] \in Text /\ x.pending \in Text
    BY DEF Clients, Arrivals, Rehydrators
  <2>3. Given(f, b) = Given(d, b)
    <3>1. Handed(e, b) = <<>> /\ d.args[b] \o <<>> = d.args[b]
      BY <2>2, JoinedThrice DEF ReleasesTail, Handed
    <3> QED BY <1>2, <1>3, <1>4, <3>1
  <2>4. ArgsDelivered(y, f, a, b)
    BY <2>1, <2>3 DEF ArgsDelivered, HeldArgs, ReleasesTail
  <2>5. HeldOf(y, b) = <<>>
    BY DEF HeldOf, ReleasesTail
  <2>6. CASE Slot(x.template) = b
    <3>1. HeldOf(x, b) = x.pending /\ Spoken(e, b) = Expanded(Known, x.pending)
      BY <2>6 DEF HeldOf, Spoken, ReleasesTail
    <3>2. Said(f, b) = Said(d, b) \o Expanded(Known, x.pending)
      BY <1>2, <1>3, <1>4, <3>1
    <3>3. Fronted(a.text[b], x.pending, Said(d, b), b \in g)
      BY <2>1, <3>1
    <3>4. Said(f, b) = Expanded(Known, a.text[b])
      BY <2>2, <3>2, <3>3, FrontedOut
    <3>5. Fronted(a.text[b], <<>>, Said(f, b), FALSE)
      BY <2>2, <3>4, FrontedWhole
    <3>6. Fronted(a.text[b], <<>>, Said(f, b), b \in g)
      BY <2>6, <3>5, FrontedLess
    <3> QED BY <2>4, <2>5, <3>6
  <2>7. CASE Slot(x.template) # b
    <3>1. HeldOf(x, b) = <<>> /\ Spoken(e, b) = <<>> /\ d.text[b] \o <<>> = d.text[b]
      BY <2>2, <2>7, JoinedThrice DEF HeldOf, Spoken, ReleasesTail
    <3>2. Said(f, b) = Said(d, b)
      BY <1>2, <1>3, <1>4, <3>1
    <3> QED BY <2>1, <2>4, <2>5, <3>1, <3>2
  <2> QED BY <2>6, <2>7
<1>6. HeldInPlace(y)
  BY DEF Delivery, HeldInPlace, ReleasesTail
<1>7. EndsDelivered(y, f)
  BY <1>2, <1>3, <1>4, NothingSpoken DEF Delivery, EndsDelivered, HeldOf, HeldArgs, ReleasesTail
<1> QED BY <1>3, <1>5, <1>6, <1>7 DEF Delivery

\* A step that writes the arguments that were held and lets go of them.
ReleasesArguments(y, x, e) ==
  /\ y.argumentsIn = NoEvent /\ y.pending = x.pending /\ y.template = x.template
  /\ y.block = x.block
  /\ e.type = "json_delta" /\ Slot(e) = Slot(x.argumentsIn) /\ e.text = Restored(Known, x.arguments)

\* The arguments go out: the whole of the call is delivered.
LEMMA ArgumentsSpoken ==
  ASSUME Mapping(Known), NEW x \in Rehydrators, NEW y, NEW e, ReleasesArguments(y, x, e),
         x.argumentsIn # NoEvent, NEW a \in Arrivals, x.arguments = a.args[Slot(x.argumentsIn)],
         NEW g, NEW d \in Clients, Delivery(x, d, a, g), NEW f, Speaks(f, d, e)
  PROVE  Delivery(y, f, a, g)
<1>1. d.event = NoEvent /\ ~d.done
  BY DEF Delivery, Holds
<1>2. /\ StopsOf(d) = d.stopped /\ \A b \in Indices : Said(d, b) = d.text[b] /\ Given(d, b) = d.args[b]
  BY <1>1, NothingSpoken
<1>3. /\ f \in Clients /\ ~f.done /\ f.event = NoEvent /\ f.stopped = d.stopped
      /\ \A b \in Indices : f.text[b] = d.text[b] \o Spoken(e, b) /\ f.args[b] = d.args[b] \o Handed(e, b)
  BY DEF Speaks, ReleasesArguments
<1>4. StopsOf(f) = f.stopped /\ \A b \in Indices : Said(f, b) = f.text[b] /\ Given(f, b) = f.args[b]
  BY <1>3, NothingSpoken
<1>5. ASSUME NEW b \in Indices
      PROVE  /\ Fronted(a.text[b], HeldOf(y, b), Said(f, b), b \in g)
             /\ ArgsDelivered(y, f, a, b)
  <2>1. /\ Fronted(a.text[b], HeldOf(x, b), Said(d, b), b \in g) /\ ArgsDelivered(x, d, a, b)
    BY DEF Delivery
  <2>2. d.text[b] \in Text /\ d.args[b] \in Text /\ a.args[b] \in Text
    BY DEF Clients, Arrivals
  <2>3. Said(f, b) = Said(d, b) /\ HeldOf(y, b) = HeldOf(x, b)
    <3>1. Spoken(e, b) = <<>> /\ d.text[b] \o <<>> = d.text[b]
      BY <2>2, JoinedThrice DEF ReleasesArguments, Spoken
    <3> QED BY <1>2, <1>3, <1>4, <3>1 DEF HeldOf, ReleasesArguments
  <2>4. ~HeldArgs(y, b)
    BY DEF HeldArgs, ReleasesArguments
  <2>5. Given(f, b) = Given(d, b) \o Handed(e, b)
    BY <1>2, <1>3, <1>4
  <2>6. CASE Slot(x.argumentsIn) = b
    <3>1. Given(d, b) = <<>> /\ Handed(e, b) = Restored(Known, a.args[b])
      BY <2>1, <2>6 DEF ArgsDelivered, HeldArgs, Handed, ReleasesArguments
    <3>2. <<>> \o Restored(Known, a.args[b]) = Restored(Known, a.args[b])
      BY <2>2, RestoredIsText, JoinedThrice
    <3> QED BY <2>1, <2>3, <2>4, <2>5, <3>1, <3>2 DEF ArgsDelivered
  <2>7. CASE Slot(x.argumentsIn) # b
    <3>1. Given(d, b) = Restored(Known, a.args[b]) /\ Handed(e, b) = <<>>
      BY <2>1, <2>7 DEF ArgsDelivered, HeldArgs, Handed, ReleasesArguments
    <3>2. Given(d, b) \o <<>> = Given(d, b)
      BY <1>2, <2>2, JoinedThrice
    <3> QED BY <2>1, <2>3, <2>4, <2>5, <3>1, <3>2 DEF ArgsDelivered
  <2> QED BY <2>6, <2>7
<1>6. HeldInPlace(y)
  BY DEF Delivery, HeldInPlace, ReleasesArguments
<1>7. EndsDelivered(y, f)
  BY <1>2, <1>3, <1>4, NothingSpoken DEF Delivery, EndsDelivered, HeldOf, HeldArgs, ReleasesArguments
<1> QED BY <1>3, <1>5, <1>6, <1>7 DEF Delivery

\* What can be let go of: nothing more comes for the tail, and the arguments are those that
\* have arrived.
Ready(rr, a, g) ==
  /\ rr.pending # <<>> => Slot(rr.template) \notin g
  /\ rr.argumentsIn # NoEvent => /\ rr.argumentsIn.type = "json_delta"
                                 /\ rr.arguments = a.args[Slot(rr.argumentsIn)]

\* What a step leaves of a delivery when it has let go of everything.
LetGo(rr, d, a, g, before) ==
  /\ Delivery(rr, d, a, g) /\ ~Holds(rr)
  /\ d \in Clients /\ d.done = before.done /\ d.event = before.event

\* A block that is closed is delivered whole.
LEMMA CloseDelivers ==
  ASSUME Mapping(Known), NEW x \in Steps, KeptIn(x.r), NEW c \in Clients, NEW a \in Arrivals, NEW g,
         Delivery(x.r, Taken(c, x.out), a, g), Ready(x.r, a, g)
  PROVE  LetGo(CloseBlock(x).r, Taken(c, CloseBlock(x).out), a, g, Taken(c, x.out))
<1> DEFINE z == ArgumentsReleased(x)
           y == CloseBlock(x)
           d == Taken(c, x.out)
           k == Taken(c, z.out)
           f == Taken(c, y.out)
<1>0. /\ x.r \in Rehydrators /\ z \in Steps /\ z.r \in Rehydrators /\ x.out \in Seq(AllLines)
      /\ z.out \in Seq(AllLines) /\ d \in Clients /\ k \in Clients
  <2>1. z \in Steps
    BY ReleasedTypes
  <2>2. x.r \in Rehydrators /\ z.r \in Rehydrators /\ x.out \in Seq(AllLines) /\ z.out \in Seq(AllLines)
    BY <2>1 DEF Steps
  <2> QED BY <2>1, <2>2, TakenTypes
<1>1. /\ Delivery(z.r, k, a, g) /\ k.done = d.done /\ k.event = d.event
      /\ z.r.argumentsIn = NoEvent /\ z.r.pending = x.r.pending /\ z.r.template = x.r.template
  <2>1. CASE x.r.argumentsIn = NoEvent
    BY <2>1 DEF ArgumentsReleased
  <2>2. CASE x.r.argumentsIn # NoEvent
    <3> DEFINE e == [x.r.argumentsIn EXCEPT !.text = Restored(Known, x.r.arguments)]
    <3>1. /\ z.r.pending = x.r.pending /\ SameTemplate(z.r, x.r)
          /\ z.r.block = x.r.block /\ z.r.argumentsIn = NoEvent
          /\ z.out = x.out \o Named(x.r.argumentsName, <<DataLine(e), Blank>>)
      BY <2>2, ArgumentsReleasedFields
    <3>2. /\ x.r.argumentsIn \in Events /\ x.r.argumentsIn.type = "json_delta" /\ x.r.arguments \in Text
          /\ x.r.argumentsName \in Names
      BY <1>0, <2>2 DEF Rehydrators, Ready
    <3>3. Restored(Known, x.r.arguments) \in Text
      BY <3>2, RestoredIsText
    <3>4. /\ e \in Events /\ e.type = "json_delta" /\ Slot(e) = Slot(x.r.argumentsIn)
          /\ e.text = Restored(Known, x.r.arguments)
      BY <3>2, <3>3 DEF Events, Slot
    <3>5. ReleasesArguments(z.r, x.r, e)
      BY <3>1, <3>4 DEF ReleasesArguments, SameTemplate
    <3>6. Delivery(x.r, d, a, g) /\ d.event = NoEvent /\ ~d.done
      BY <2>2 DEF Delivery, Holds
    <3> HIDE DEF z, e
    <3>7. Speaks(k, d, e)
      BY <1>0, <3>1, <3>2, <3>4, <3>6, SpokenBehind
    <3> HIDE DEF d, k
    <3>8. Delivery(z.r, k, a, g)
      <4>1. x.r.arguments = a.args[Slot(x.r.argumentsIn)]
        BY <2>2 DEF Ready
      <4> QED BY <1>0, <2>2, <3>5, <3>6, <3>7, <4>1, ArgumentsSpoken
    <3>9. k.done = d.done /\ k.event = d.event
      BY <1>0, <3>6, <3>7 DEF Speaks, Clients
    <3> QED BY <3>1, <3>8, <3>9 DEF SameTemplate
  <2> QED BY <2>1, <2>2
<1>2. y = TailReleased(z)
  BY DEF CloseBlock
<1> HIDE DEF z, d, y
<1>3. /\ Delivery(y.r, f, a, g) /\ f.done = d.done /\ f.event = d.event /\ ~Holds(y.r)
  <2>1. CASE z.r.pending = <<>>
    BY <1>1, <1>2, <2>1 DEF TailReleased, Holds
  <2>2. CASE z.r.pending # <<>>
    <3> DEFINE t == Expanded(Known, z.r.pending)
               e == [z.r.template EXCEPT !.text = t]
    <3>1. z.r.template \in Events /\ z.r.template.type = "text_delta" /\ z.r.pending \in Text
          /\ z.r.templateName \in Names
      BY <1>0, <1>1, <2>2 DEF Rehydrators, KeptIn
    <3>2. y.r = [z.r EXCEPT !.pending = <<>>]
          /\ y.out = z.out \o Named(z.r.templateName, <<DataLine(e), Blank>>)
      BY <1>2, <2>2, <3>1, NothingSpoken DEF TailReleased
    <3>3. t \in Text
      BY <3>1, ExpandedIsText
    <3> HIDE DEF t
    <3>4. e \in Events /\ e.type = "text_delta" /\ Slot(e) = Slot(z.r.template) /\ e.text = t
      BY <3>1, <3>3 DEF Events, Slot
    <3>5. /\ y.r.pending = <<>> /\ y.r.template = z.r.template /\ y.r.argumentsIn = z.r.argumentsIn
          /\ y.r.block = z.r.block /\ y.r.toolName = z.r.toolName
      BY <1>0, <3>2 DEF Rehydrators
    <3>6. ReleasesTail(y.r, z.r, e)
      BY <3>4, <3>5 DEF ReleasesTail, t
    <3>7. Delivery(z.r, k, a, g) /\ k.event = NoEvent /\ ~k.done
      BY <1>1, <2>2 DEF Delivery, Holds
    <3> HIDE DEF e
    <3>8. Speaks(f, k, e)
      BY <1>0, <3>1, <3>2, <3>4, <3>7, SpokenBehind
    <3> HIDE DEF k, f
    <3>9. Delivery(y.r, f, a, g)
      <4>1. Slot(z.r.template) \notin g
        BY <1>1, <2>2 DEF Ready
      <4> QED BY <1>0, <2>2, <3>6, <3>7, <3>8, <4>1, TailSpoken
    <3>10. f.done = k.done /\ f.event = k.event
      BY <1>0, <3>7, <3>8 DEF Speaks, Clients
    <3> QED BY <1>1, <3>5, <3>9, <3>10 DEF Holds
  <2> QED BY <2>1, <2>2
<1>4. f \in Clients
  <2>1. y \in Steps
    BY ReleasedTypes DEF y
  <2>2. y.out \in Seq(AllLines)
    BY <2>1 DEF Steps
  <2> QED BY <2>2, TakenTypes
<1> QED BY <1>3, <1>4 DEF LetGo, d, y

\* When nothing is held it does not matter where the agent is.
LEMMA NothingHeld ==
  ASSUME NEW p, NEW q, ~Holds(p), ~Holds(q), NEW c, NEW a, NEW g, Delivery(q, c, a, g)
  PROVE  Delivery(p, c, a, g)
<1>1. \A b : /\ HeldOf(p, b) = <<>> /\ HeldOf(q, b) = <<>>
             /\ ~HeldArgs(p, b) /\ ~HeldArgs(q, b)
  BY DEF HeldOf, HeldArgs, Holds
<1>2. \A b \in Indices : /\ Fronted(a.text[b], HeldOf(p, b), Said(c, b), b \in g)
                         /\ ArgsDelivered(p, c, a, b)
  BY <1>1 DEF Delivery, ArgsDelivered
<1>3. HeldInPlace(p) /\ EndsDelivered(p, c)
  BY <1>1 DEF Delivery, HeldInPlace, EndsDelivered, Holds
<1> QED BY <1>2, <1>3 DEF Delivery

\* The same has arrived.
SameArrived(a, b) == \A i \in Indices : a.text[i] = b.text[i] /\ a.args[i] = b.args[i]

\* An event that is of no block's text, arguments or end adds nothing.
LEMMA PassesOn ==
  ASSUME NEW q, NEW d \in Clients, ~d.done, d.event = NoEvent, NEW a, NEW g, Delivery(q, d, a, g),
         NEW e, e.type \notin {"text_delta", "json_delta", "block_stop"}, NEW f, Speaks(f, d, e),
         NEW more, SameArrived(more, a)
  PROVE  Delivery(q, f, more, g)
<1>1. /\ f \in Clients /\ ~f.done /\ f.event = NoEvent /\ f.stopped = d.stopped
      /\ \A b \in Indices : f.text[b] = d.text[b] \o <<>> /\ f.args[b] = d.args[b] \o <<>>
  BY DEF Speaks, Spoken, Handed
<1>2. ASSUME NEW b \in Indices PROVE f.text[b] = d.text[b] /\ f.args[b] = d.args[b]
  <2>1. d.text[b] \in Text /\ d.args[b] \in Text
    BY DEF Clients
  <2> QED BY <1>1, <2>1, JoinedThrice
<1>3. StopsOf(f) = StopsOf(d) /\ \A b \in Indices : Said(f, b) = Said(d, b) /\ Given(f, b) = Given(d, b)
  BY <1>1, <1>2, NothingSpoken
<1>4. \A b \in Indices : /\ Fronted(more.text[b], HeldOf(q, b), Said(f, b), b \in g)
                         /\ ArgsDelivered(q, f, more, b)
  BY <1>3 DEF Delivery, ArgsDelivered, SameArrived
<1>5. EndsDelivered(q, f)
  BY <1>1, <1>3, NothingSpoken DEF Delivery, EndsDelivered
<1> QED BY <1>1, <1>4, <1>5 DEF Delivery

\* The end of a block is passed on when nothing is held.
LEMMA StopPasses ==
  ASSUME NEW q, ~Holds(q), ~Chat, NEW d \in Clients, ~d.done, d.event = NoEvent, NEW a, NEW g,
         Delivery(q, d, a, g), NEW e \in Events, e.type = "block_stop", NEW name \in Names,
         NEW f, f = Taken(d, Named(name, <<DataLine(e)>>)), NEW more, SameArrived(more, a)
  PROVE  Delivery(q, f, more, g)
<1>1. f = [Naming(d, name) EXCEPT !.event = e] /\ Naming(d, name) \in Clients
  BY TakenEvent, ZenonT(60)
<1>2. /\ f.text = d.text /\ f.args = d.args /\ f.stopped = d.stopped /\ f.event = e /\ ~f.done
  BY <1>1 DEF Naming, Clients
<1>3. \A b \in Indices : Said(f, b) = d.text[b] \o <<>> /\ Given(f, b) = d.args[b] \o <<>>
  BY <1>2 DEF Said, Given, Spoken, Handed
<1>4. \A b \in Indices : Said(f, b) = Said(d, b) /\ Given(f, b) = Given(d, b)
  BY <1>3, NothingSpoken DEF Said, Given
<1>5. \A b \in Indices : /\ Fronted(more.text[b], HeldOf(q, b), Said(f, b), b \in g)
                         /\ ArgsDelivered(q, f, more, b)
  BY <1>4 DEF Delivery, ArgsDelivered, SameArrived
<1>6. EndsDelivered(q, f)
  BY <1>2 DEF EndsDelivered, HeldOf, HeldArgs, Holds, Spoken, Handed
<1> QED BY <1>2, <1>5, <1>6 DEF Delivery

\* Where an event finds the agent, g being the blocks that can still grow.
Placed(rr, c, a, g, e) ==
  /\ ~c.done /\ c.event = NoEvent /\ e.type # "none"
  /\ e.type \in Starts => ~Chat /\ e.index # None /\ e.index # rr.block
  /\ e.type = "text_delta" =>
       /\ Slot(e) \in g /\ Slot(e) \notin StopsOf(c)
       /\ IF Chat THEN e.index = None ELSE e.index # None /\ e.index = rr.block
  /\ e.type = "json_delta" =>
       /\ ~Chat /\ e.index # None /\ e.index = rr.block /\ e.index = rr.toolName
       /\ Slot(e) \notin StopsOf(c)
       /\ rr.argumentsIn = NoEvent => a.args[e.index] = <<>>
  /\ e.type = "block_stop" => ~Chat /\ e.index # None /\ g = {}
  /\ e.type \notin Starts \union {"text_delta", "json_delta", "block_stop"} => e.index = None
  /\ e.index # None /\ e.index # rr.block => rr.block \notin g
  /\ rr.argumentsIn # NoEvent => /\ rr.argumentsIn.type = "json_delta"
                                 /\ rr.arguments = a.args[Slot(rr.argumentsIn)]

\* Entering the block of an event closes the one before it, or nothing changes.
LEMMA EnteredDelivers ==
  ASSUME Mapping(Known), NEW x \in Steps, x.out = <<>>, KeptIn(x.r), NEW c \in Clients,
         NEW a \in Arrivals, NEW g, NEW e \in Events, Placed(x.r, c, a, g, e), Delivery(x.r, c, a, g)
  PROVE  LET t == NameTaken(Entered(x, e))
             d == Taken(c, t.out)
         IN  /\ t \in Steps /\ d \in Clients /\ ~d.done /\ d.event = NoEvent
             /\ Delivery(t.r, d, a, g) /\ KeptIn(t.r)
             /\ IF e.index = None \/ e.index = x.r.block
                THEN d = c /\ t.out = <<>> /\ SameHolding(t.r, x.r) /\ t.r.arguments = x.r.arguments
                ELSE ~Holds(t.r)
<1> DEFINE n == Noted(x, e)
           y == Entered(x, e)
           t == NameTaken(y)
           k == CloseBlock(n)
           d == Taken(c, t.out)
<1>1. /\ n \in Steps /\ y \in Steps /\ t \in Steps
      /\ n.out = x.out /\ SameReading(n.r, x.r) /\ SameTemplate(n.r, x.r)
      /\ SameTelling(n.r, x.r) /\ SameHeld(n.r, x.r)
      /\ IF e.index = None \/ e.index = x.r.block THEN y = n
         ELSE y.out = k.out /\ y.r = [k.r EXCEPT !.block = e.index]
      /\ t.out = y.out /\ t.r = [y.r EXCEPT !.name = Unnamed]
  BY EnteredFields
<1> HIDE DEF n, y, t
<1>2. /\ x.r \in Rehydrators /\ n.r \in Rehydrators /\ y.r \in Rehydrators /\ t.r \in Rehydrators
      /\ t.out \in Seq(AllLines)
  BY <1>1 DEF Steps
<1>3. SameHolding(n.r, x.r) /\ n.r.arguments = x.r.arguments /\ KeptIn(n.r)
  BY <1>1 DEF SameHolding, SameReading, SameTemplate, SameTelling, SameHeld, KeptIn
<1>4. Taken(c, n.out) = c /\ Delivery(n.r, c, a, g)
  <2>1. Taken(c, n.out) = c
    BY <1>1, TakenNone
  <2>2. SameHearing(c, c)
    BY DEF SameHearing
  <2> QED BY <1>3, <2>1, <2>2, DeliverySame
<1>5. CASE e.index = None \/ e.index = x.r.block
  <2>1. y = n
    BY <1>1, <1>5
  <2>2. /\ SameHolding(t.r, n.r) /\ t.r.arguments = n.r.arguments /\ KeptIn(t.r)
    BY <1>1, <1>2, <1>3, <2>1 DEF Rehydrators, SameHolding, KeptIn
  <2>3. d = c
    BY <1>1, <1>4, <2>1
  <2>4. SameHearing(c, c)
    BY DEF SameHearing
  <2>5. Delivery(t.r, c, a, g)
    BY <1>4, <2>2, <2>4, DeliverySame
  <2>6. SameHolding(t.r, x.r)
    BY <1>3, <2>2 DEF SameHolding
  <2>7. t.out = <<>>
    BY <1>1, <2>1
  <2>8. ~c.done /\ c.event = NoEvent
    BY DEF Placed
  <2> QED BY <1>1, <1>3, <1>5, <2>2, <2>3, <2>5, <2>6, <2>7, <2>8 DEF t, y
<1>6. CASE ~(e.index = None \/ e.index = x.r.block)
  <2>1. y.out = k.out /\ y.r = [k.r EXCEPT !.block = e.index]
    BY <1>1, <1>6
  <2>2. Ready(n.r, a, g)
    <3>1. n.r.pending # <<>> => Slot(n.r.template) \notin g
      <4> SUFFICES ASSUME x.r.pending # <<>> PROVE Slot(x.r.template) \notin g
        BY <1>3 DEF SameHolding
      <4>1. ~Chat /\ x.r.block \notin g
        BY <1>6 DEF Placed, Starts
      <4>2. x.r.block # None /\ x.r.template.index = x.r.block
        BY <4>1 DEF Delivery, HeldInPlace
      <4> QED BY <4>1, <4>2 DEF Slot
    <3> QED BY <1>3, <3>1 DEF Ready, Placed, SameHolding
  <2>3. LetGo(k.r, Taken(c, k.out), a, g, Taken(c, n.out))
    BY <1>1, <1>3, <1>4, <2>2, CloseDelivers
  <2>4. k.r \in Rehydrators /\ KeptIn(k.r)
    <3>1. k \in Steps /\ KeptIn(k.r)
      BY <1>1, <1>3, KeptClosed
    <3> QED BY <3>1 DEF Steps
  <2> HIDE DEF k
  <2>5. d = Taken(c, k.out) /\ ~c.done /\ c.event = NoEvent
    BY <1>1, <2>1 DEF Placed
  <2> HIDE DEF d
  <2>6. Delivery(k.r, d, a, g) /\ ~Holds(k.r) /\ d \in Clients /\ d.done = c.done /\ d.event = c.event
    BY <1>4, <2>3, <2>5 DEF LetGo
  <2>7. /\ t.r.pending = k.r.pending /\ t.r.argumentsIn = k.r.argumentsIn /\ t.r.template = k.r.template
    BY <1>1, <1>2, <2>1, <2>4 DEF Rehydrators
  <2>8. ~Holds(t.r) /\ KeptIn(t.r)
    BY <2>4, <2>6, <2>7 DEF Holds, KeptIn
  <2>9. Delivery(t.r, d, a, g)
    BY <2>6, <2>8, NothingHeld
  <2> QED BY <1>1, <1>6, <2>5, <2>6, <2>8, <2>9 DEF t, y, d
<1> QED BY <1>5, <1>6

\* The tail is held as it came.
LEMMA CutHolds ==
  ASSUME NEW x \in Steps, NEW e, NEW name, NEW combined, NEW tail
  PROVE  CutAt(x, e, name, combined, tail).r.pending = End(combined, tail)
<1> DEFINE q == End(combined, tail)
           t == [e EXCEPT !.text = <<>>]
<1>1. x.r \in Rehydrators
  BY DEF Steps
<1>2. CutAt(x, e, name, combined, tail).r
      = [x.r EXCEPT !.pending = q, !.template = t, !.templateName = name]
  BY DEF CutAt
<1> HIDE DEF q, t
<1>3. [x.r EXCEPT !.pending = q, !.template = t, !.templateName = name].pending = q
  BY <1>1 DEF Rehydrators
<1> QED BY <1>2, <1>3 DEF q

\* A piece of text: what can go out goes out, the tail is held.
LEMMA TextDelivers ==
  ASSUME Mapping(Known), Apart(Known), arrived \in Arrivals,
         NEW x \in Steps, KeptIn(x.r), x.out = <<>>, NEW c \in Clients, ~c.done, c.event = NoEvent,
         NEW g, Delivery(x.r, c, arrived, g),
         NEW e \in Events, e.type = "text_delta", NEW name \in Names,
         Slot(e) \in g, Slot(e) \notin StopsOf(c),
         IF Chat THEN e.index = None ELSE e.index # None /\ e.index = x.r.block,
         NEW more, BroughtBy(more, e)
  PROVE  Delivery(EventWritten(x, e, name).r, Taken(c, EventWritten(x, e, name).out), more, g)
<1> DEFINE held == x.r.pending
           whole == held \o e.text
           t == TailLen(Known, whole)
           text == Expanded(Known, Start(whole, Len(whole) - t))
           w == EventWritten(x, e, name)
           e2 == [e EXCEPT !.text = text]
           f == Taken(c, w.out)
           s == Slot(e)
<1>0. /\ x.r \in Rehydrators /\ held \in Text /\ e.text \in Text /\ s \in Indices
      /\ arrived.text[s] \in Text
  <2>1. x.r \in Rehydrators /\ s \in Indices /\ e.text \in Text
    BY LineTypes DEF Steps, Events
  <2> QED BY <2>1 DEF Rehydrators, Arrivals
<1>1. w = CutAt(x, e, name, whole, t)
  BY DEF EventWritten, TextRewritten
<1>2. CutAs(w, x, e, name, whole, t)
  BY <1>1, CutFields
<1>3. w.r.pending = End(whole, t)
  BY <1>1, CutHolds
<1> HIDE DEF w
<1>4. HeldOf(x.r, s) = held /\ (held # <<>> => Slot(x.r.template) = s)
  <2>1. CASE held = <<>>
    BY <2>1 DEF HeldOf
  <2>2. CASE held # <<>>
    <3>1. x.r.template.index = e.index
      BY <2>2 DEF Delivery, HeldInPlace
    <3> QED BY <3>1 DEF HeldOf, Slot
  <2> QED BY <2>1, <2>2
<1>5. Fronted(arrived.text[s], held, Said(c, s), TRUE)
  <2>1. Fronted(arrived.text[s], HeldOf(x.r, s), Said(c, s), s \in g)
    BY <1>0 DEF Delivery
  <2> QED BY <1>4, <2>1, FrontedLess
<1> HIDE DEF held, t
<1>6. /\ Start(whole, Len(whole) - t) \in Text /\ End(whole, t) \in Text
      /\ Fronted(arrived.text[s] \o e.text, End(whole, t), Said(c, s) \o text, s \in g)
  <2> DEFINE now == s \in g
  <2> HIDE DEF s, now
  <2>1. t = TailLen(Known, whole) /\ whole = held \o e.text
    BY DEF t
  <2> HIDE DEF whole
  <2>2. /\ Start(whole, Len(whole) - t) \in Text /\ End(whole, t) \in Text
        /\ Fronted(arrived.text[s] \o e.text, End(whole, t),
                   Said(c, s) \o Expanded(Known, Start(whole, Len(whole) - t)), now)
    BY <1>0, <1>5, <2>1, FrontedCut
  <2> QED BY <2>2 DEF now
<1> HIDE DEF whole
<1>7. text \in Text
  BY <1>6, ExpandedIsText
<1> HIDE DEF text
<1>8. e2 \in Events /\ e2.type = "text_delta" /\ Slot(e2) = s /\ e2.text = text
  BY <1>7 DEF Events, Slot
<1>9. /\ w.out = x.out \o Named(name, <<DataLine(e2), Blank>>) /\ SameReading(w.r, x.r)
      /\ SameTelling(w.r, x.r) /\ w.r.argumentsIn = x.r.argumentsIn
      /\ w.r.template.index = e.index
  BY <1>2 DEF CutAs, text, Events
<1> HIDE DEF e2
<1>10. Speaks(f, c, e2)
  <2>1. <<>> \in Seq(AllLines) /\ Taken(c, <<>>) = c
    BY TakenNone, SequencesOf
  <2>2. ~Taken(c, <<>>).done
    BY <2>1
  <2> DEFINE none == <<>>
  <2>3. Speaks(Taken(c, none \o Named(name, <<DataLine(e2), Blank>>)), Taken(c, none), e2)
    <3>1. none \in Seq(AllLines) /\ ~Taken(c, none).done
      BY <2>1, <2>2
    <3> HIDE DEF none
    <3> QED BY <1>8, <3>1, SpokenBehind
  <2> QED BY <1>9, <2>1, <2>3
<1> HIDE DEF f
<1>11. /\ f \in Clients /\ ~f.done /\ f.event = NoEvent /\ f.stopped = c.stopped
       /\ \A b \in Indices : f.text[b] = c.text[b] \o Spoken(e2, b) /\ f.args[b] = c.args[b] \o <<>>
  BY <1>8, <1>10 DEF Speaks, Handed
<1>12. /\ StopsOf(f) = StopsOf(c)
       /\ \A b \in Indices : Said(f, b) = f.text[b] /\ Given(f, b) = f.args[b]
       /\ \A b \in Indices : Said(c, b) = c.text[b] /\ Given(c, b) = c.args[b]
  BY <1>11, NothingSpoken
<1>13. Slot(w.r.template) = s
  BY <1>9 DEF Slot
<1>14. ASSUME NEW b \in Indices
       PROVE  /\ Fronted(more.text[b], HeldOf(w.r, b), Said(f, b), b \in g)
              /\ ArgsDelivered(w.r, f, more, b)
  <2>1. c.text[b] \in Text /\ c.args[b] \in Text
    BY DEF Clients
  <2>2. Given(f, b) = Given(c, b) /\ more.args[b] = arrived.args[b]
    <3>1. Given(f, b) = Given(c, b)
      BY <1>11, <1>12, <2>1, JoinedThrice
    <3> QED BY <3>1 DEF BroughtBy
  <2>3. ArgsDelivered(w.r, f, more, b)
    BY <1>9, <2>2 DEF Delivery, ArgsDelivered, HeldArgs
  <2>4. CASE b = s
    <3>1. HeldOf(w.r, b) = End(whole, t) /\ Spoken(e2, b) = text
      BY <1>3, <1>8, <1>13, <2>4 DEF HeldOf, Spoken
    <3>2. Said(f, b) = Said(c, s) \o text /\ more.text[b] = arrived.text[s] \o e.text
      BY <1>11, <1>12, <2>4, <3>1 DEF BroughtBy
    <3> QED BY <1>6, <2>3, <2>4, <3>1, <3>2
  <2>5. CASE b # s
    <3>1. HeldOf(w.r, b) = <<>> /\ HeldOf(x.r, b) = <<>> /\ Spoken(e2, b) = <<>>
      BY <1>4, <1>8, <1>13, <2>5 DEF HeldOf, Spoken, held
    <3>2. Said(f, b) = Said(c, b) /\ more.text[b] = arrived.text[b]
      <4>1. Said(f, b) = Said(c, b)
        BY <1>11, <1>12, <2>1, <3>1, JoinedThrice
      <4> QED BY <2>5, <4>1 DEF BroughtBy
    <3> QED BY <2>3, <3>1, <3>2 DEF Delivery
  <2> QED BY <2>4, <2>5
<1>15. HeldInPlace(w.r)
  BY <1>9 DEF Delivery, HeldInPlace, SameReading, SameTelling
<1>16. EndsDelivered(w.r, f)
  <2> SUFFICES ASSUME NEW b \in StopsOf(c)
               PROVE  ~Chat /\ HeldOf(w.r, b) = <<>> /\ ~HeldArgs(w.r, b)
    BY <1>11, <1>12, NothingSpoken DEF EndsDelivered
  <2>1. ~Chat /\ ~HeldArgs(x.r, b)
    BY DEF Delivery, EndsDelivered
  <2> QED BY <1>9, <1>13, <2>1 DEF HeldOf, HeldArgs
<1> QED BY <1>11, <1>14, <1>15, <1>16 DEF Delivery, f, w

\* Nothing is restored to nothing: it is no document.
LEMMA RestoredAtNothing ==
  ASSUME Mapping(Known)
  PROVE  Restored(Known, <<>>) = <<>>
<1>1. ~IsDocument(<<>>)
  <2>1. ~(Len(<<>>) >= 2)
    OBVIOUS
  <2> QED BY <2>1 DEF IsDocument
<1> QED BY <1>1, ExpandedAtNothing DEF Restored

\* A slice of a call's arguments: it is held, with those before it.
LEMMA FragmentDelivers ==
  ASSUME Mapping(Known), arrived \in Arrivals, NEW x \in Steps, NEW c \in Clients, ~c.done,
         c.event = NoEvent, NEW g, Delivery(x.r, c, arrived, g),
         NEW e \in Events, e.type = "json_delta", NEW name \in Names,
         ~Chat, e.index # None, e.index = x.r.block, e.index = x.r.toolName,
         Slot(e) \notin StopsOf(c), x.r.argumentsIn = NoEvent => arrived.args[e.index] = <<>>,
         NEW more, BroughtBy(more, e)
  PROVE  Delivery(EventWritten(x, e, name).r, c, more, g)
<1> DEFINE w == EventWritten(x, e, name)
           s == Slot(e)
           e2 == [e EXCEPT !.text = <<>>]
<1>1. FragmentAs(w, x, e, name)
  <2>1. w = FragmentHeld(x, e, name)
    BY DEF EventWritten
  <2> QED BY <2>1, FragmentFields
<1> HIDE DEF w
<1>2. e2.type = "json_delta" /\ e2.index = e.index /\ e2 # NoEvent /\ s = e.index
  <2>1. e2.type = "json_delta" /\ e2.index = e.index
    BY DEF Events
  <2> QED BY <2>1, NothingSpoken DEF Slot
<1>3. /\ w.r.pending = x.r.pending /\ w.r.template = x.r.template /\ w.r.block = x.r.block
      /\ w.r.toolName = x.r.toolName
      /\ w.r.argumentsIn = (IF x.r.argumentsIn = NoEvent THEN e2 ELSE x.r.argumentsIn)
  BY <1>1 DEF FragmentAs, SameTemplate
<1> HIDE DEF e2
<1>4. w.r.argumentsIn # NoEvent /\ w.r.argumentsIn.index = e.index /\ HeldArgs(w.r, s)
  <2>1. CASE x.r.argumentsIn = NoEvent
    BY <1>2, <1>3, <2>1 DEF HeldArgs, Slot
  <2>2. CASE x.r.argumentsIn # NoEvent
    BY <1>2, <1>3, <2>2 DEF HeldArgs, Slot, Delivery, HeldInPlace
  <2> QED BY <2>1, <2>2
<1>5. Given(c, s) = <<>>
  <2>1. s \in Indices /\ ArgsDelivered(x.r, c, arrived, s)
    BY LineTypes DEF Delivery
  <2>2. CASE x.r.argumentsIn = NoEvent
    BY <1>2, <2>1, <2>2, RestoredAtNothing DEF ArgsDelivered, HeldArgs
  <2>3. CASE x.r.argumentsIn # NoEvent
    <3>1. HeldArgs(x.r, s)
      BY <1>2, <2>3 DEF HeldArgs, Slot, Delivery, HeldInPlace
    <3> QED BY <2>1, <3>1 DEF ArgsDelivered
  <2> QED BY <2>2, <2>3
<1>6. ASSUME NEW b \in Indices
      PROVE  /\ Fronted(more.text[b], HeldOf(w.r, b), Said(c, b), b \in g)
             /\ ArgsDelivered(w.r, c, more, b)
  <2>1. HeldOf(w.r, b) = HeldOf(x.r, b) /\ more.text[b] = arrived.text[b]
    BY <1>3 DEF HeldOf, BroughtBy
  <2>2. CASE b = s
    BY <1>4, <1>5, <2>1, <2>2 DEF Delivery, ArgsDelivered
  <2>3. CASE b # s
    <3>1. more.args[b] = arrived.args[b] /\ ~HeldArgs(w.r, b)
      BY <1>2, <1>4, <2>3 DEF BroughtBy, HeldArgs, Slot
    <3>2. ~HeldArgs(x.r, b)
      BY <1>3, <3>1 DEF HeldArgs
    <3> QED BY <2>1, <3>1, <3>2 DEF Delivery, ArgsDelivered
  <2> QED BY <2>2, <2>3
<1>7. HeldInPlace(w.r)
  BY <1>3, <1>4 DEF Delivery, HeldInPlace
<1>8. EndsDelivered(w.r, c)
  <2> SUFFICES ASSUME NEW b \in StopsOf(c)
               PROVE  ~Chat /\ HeldOf(w.r, b) = <<>> /\ ~HeldArgs(w.r, b)
    BY NothingSpoken DEF EndsDelivered
  <2>1. HeldOf(x.r, b) = <<>>
    BY DEF Delivery, EndsDelivered
  <2> QED BY <1>2, <1>3, <1>4, <2>1 DEF HeldOf, HeldArgs, Slot
<1> QED BY <1>6, <1>7, <1>8 DEF Delivery, w

\* An event that brings no text and no arguments leaves what has arrived.
LEMMA BringsNothing ==
  ASSUME NEW e, e.type \notin {"text_delta", "json_delta"}, NEW more, BroughtBy(more, e)
  PROVE  SameArrived(more, arrived)
BY DEF BroughtBy, SameArrived

\* The end of a block: what is held goes out before it.
LEMMA StopDelivers ==
  ASSUME Mapping(Known), arrived \in Arrivals, NEW t \in Steps, KeptIn(t.r), NEW c \in Clients, NEW g,
         Delivery(t.r, Taken(c, t.out), arrived, g), Ready(t.r, arrived, g),
         ~Taken(c, t.out).done, Taken(c, t.out).event = NoEvent,
         NEW e \in Events, e.type = "block_stop", ~Chat, NEW name \in Names,
         NEW more, BroughtBy(more, e)
  PROVE  Delivery(EventWritten(t, e, name).r, Taken(c, EventWritten(t, e, name).out), more, g)
<1> DEFINE w == EventWritten(t, e, name)
           k == CloseBlock(t)
           d == Taken(c, k.out)
           event == Named(name, <<DataLine(e)>>)
<1>1. w.r = k.r /\ w.out = k.out \o event
  BY WrittenFields DEF WrittenAs
<1>2. LetGo(k.r, d, arrived, g, Taken(c, t.out))
  BY CloseDelivers
<1>3. k.out \in Seq(AllLines) /\ event \in Seq(AllLines)
  <2>1. k \in Steps
    BY ReleasedTypes
  <2>2. <<DataLine(e)>> \in Seq(AllLines)
    <3>1. DataLine(e) \in AllLines
      BY LineTypes
    <3> QED BY <3>1, SequencesOf
  <2>3. event \in Seq(AllLines)
    BY <2>2, NamedTypes
  <2> QED BY <2>1, <2>3 DEF Steps
<1> HIDE DEF w, k
<1>4. Taken(c, w.out) = Taken(d, event)
  <2> HIDE DEF event
  <2>1. Taken(c, k.out \o event) = Taken(Taken(c, k.out), event)
    BY <1>3, TakenJoined
  <2> QED BY <1>1, <2>1
<1> HIDE DEF d
<1>5. /\ Delivery(k.r, d, arrived, g) /\ ~Holds(k.r) /\ d \in Clients /\ ~d.done /\ d.event = NoEvent
  BY <1>2 DEF LetGo
<1>6. SameArrived(more, arrived)
  BY BringsNothing
<1> DEFINE f == Taken(d, event)
<1>7. f = Taken(d, Named(name, <<DataLine(e)>>))
  OBVIOUS
<1> HIDE DEF f
<1>8. Delivery(k.r, f, more, g)
  BY <1>5, <1>6, <1>7, StopPasses
<1> QED BY <1>1, <1>4, <1>8 DEF w, f

\* An event that is written as it is.
LEMMA OtherDelivers ==
  ASSUME NEW t \in Steps, NEW c \in Clients, NEW g,
         Delivery(t.r, Taken(c, t.out), arrived, g),
         ~Taken(c, t.out).done, Taken(c, t.out).event = NoEvent,
         NEW e \in Events, e.type \notin {"text_delta", "json_delta", "block_stop"},
         NEW name \in Names, NEW more, BroughtBy(more, e)
  PROVE  Delivery(t.r, Taken(c, t.out \o Named(name, <<DataLine(e), Blank>>)), more, g)
<1> DEFINE d == Taken(c, t.out)
           f == Taken(c, t.out \o Named(name, <<DataLine(e), Blank>>))
<1>1. t.out \in Seq(AllLines)
  BY DEF Steps
<1>2. d \in Clients
  BY <1>1, TakenTypes
<1>3. Speaks(f, d, e)
  BY <1>1, SpokenBehind
<1>4. SameArrived(more, arrived)
  BY BringsNothing
<1> HIDE DEF d, f
<1>5. Delivery(t.r, d, arrived, g) /\ ~d.done /\ d.event = NoEvent
  BY DEF d
<1>6. Delivery(t.r, f, more, g)
  BY <1>2, <1>3, <1>4, <1>5, PassesOn
<1> QED BY <1>6 DEF f

\* What becomes of an event is a delivery again.
LEMMA EventDelivers ==
  ASSUME Mapping(Known), Apart(Known), arrived \in Arrivals, NEW x \in Steps, x.out = <<>>,
         KeptIn(x.r), NEW c \in Clients, NEW g, NEW e \in Events,
         Placed(x.r, c, arrived, g, e), Delivery(x.r, c, arrived, g), NEW more, BroughtBy(more, e)
  PROVE  Delivery(EventRewritten(x, e).r, Taken(c, EventRewritten(x, e).out), more, g)
<1> DEFINE y == Entered(x, e)
           t == NameTaken(y)
           name == y.r.name
           w == EventWritten(t, e, name)
           d == Taken(c, t.out)
<1>1. /\ t \in Steps /\ d \in Clients /\ ~d.done /\ d.event = NoEvent
      /\ Delivery(t.r, d, arrived, g) /\ KeptIn(t.r)
      /\ IF e.index = None \/ e.index = x.r.block
         THEN d = c /\ t.out = <<>> /\ SameHolding(t.r, x.r) /\ t.r.arguments = x.r.arguments
         ELSE ~Holds(t.r)
  BY EnteredDelivers
<1>2. EventRewritten(x, e) = w /\ name \in Names
  <2>1. y \in Steps /\ EventRewritten(x, e) = w
    BY EnteredFields
  <2>2. y.r \in Rehydrators
    BY <2>1 DEF Steps
  <2> QED BY <2>1, <2>2 DEF Rehydrators
<1> HIDE DEF t, name, y
<1>3. CASE e.type = "block_stop"
  <2>1. ~Chat /\ g = {}
    BY <1>3 DEF Placed
  <2>2. Ready(t.r, arrived, g)
    <3>1. CASE e.index = None \/ e.index = x.r.block
      BY <1>1, <2>1, <3>1 DEF Ready, Placed, SameHolding
    <3>2. CASE ~(e.index = None \/ e.index = x.r.block)
      BY <1>1, <3>2 DEF Ready, Holds
    <3> QED BY <3>1, <3>2
  <2>3. Delivery(w.r, Taken(c, w.out), more, g)
    BY <1>1, <1>2, <1>3, <2>1, <2>2, StopDelivers
  <2> QED BY <1>2, <2>3
<1>4. CASE e.type \in {"text_delta", "json_delta"}
  <2>1. /\ d = c /\ t.out = <<>> /\ SameHolding(t.r, x.r)
        /\ IF Chat /\ e.type = "text_delta" THEN e.index = None
           ELSE ~Chat /\ e.index # None /\ e.index = x.r.block
    BY <1>1, <1>4 DEF Placed
  <2>2. Delivery(t.r, c, arrived, g) /\ t.r.block = x.r.block /\ t.r.toolName = x.r.toolName
        /\ t.r.argumentsIn = x.r.argumentsIn /\ ~c.done /\ c.event = NoEvent
    BY <1>1, <2>1 DEF SameHolding
  <2>3. CASE e.type = "text_delta"
    <3>1. Slot(e) \in g /\ Slot(e) \notin StopsOf(c)
      BY <2>3 DEF Placed
    <3>2. IF Chat THEN e.index = None ELSE e.index # None /\ e.index = t.r.block
      BY <2>1, <2>2, <2>3
    <3>3. Delivery(w.r, Taken(c, w.out), more, g)
      BY <1>1, <1>2, <2>1, <2>2, <2>3, <3>1, <3>2, TextDelivers
    <3> QED BY <1>2, <3>3
  <2>4. CASE e.type = "json_delta"
    <3>1. /\ Slot(e) \notin StopsOf(c) /\ e.index = x.r.toolName
          /\ x.r.argumentsIn = NoEvent => arrived.args[e.index] = <<>>
      BY <2>4 DEF Placed
    <3>2. ~Chat /\ e.index # None /\ e.index = t.r.block /\ e.index = t.r.toolName
          /\ (t.r.argumentsIn = NoEvent => arrived.args[e.index] = <<>>)
      BY <2>1, <2>2, <2>4, <3>1
    <3>3. Delivery(w.r, c, more, g)
      BY <1>1, <1>2, <2>2, <2>4, <3>1, <3>2, FragmentDelivers
    <3>4. w.out = t.out
      <4>1. w = FragmentHeld(t, e, name)
        BY <2>4 DEF EventWritten
      <4>2. FragmentAs(FragmentHeld(t, e, name), t, e, name)
        BY <1>1, <1>2, FragmentFields
      <4> HIDE DEF w
      <4> QED BY <4>1, <4>2 DEF FragmentAs
    <3>5. Taken(c, w.out) = c
      BY <2>1, <3>4, TakenNone
    <3> QED BY <1>2, <3>3, <3>5
  <2> QED BY <1>4, <2>3, <2>4
<1>5. CASE e.type \in Starts
  <2>1. ~Holds(t.r)
    BY <1>1, <1>5 DEF Placed
  <2>2. w.r = [t.r EXCEPT !.toolName = ToolOf(e)]
        /\ w.out = t.out \o Named(name, <<DataLine(e), Blank>>)
    BY <1>1, <1>2, <1>5, WrittenFields DEF WrittenAs
  <2>3. ~Holds(w.r)
    <3>1. t.r \in Rehydrators
      BY <1>1 DEF Steps
    <3> QED BY <2>1, <2>2, <3>1 DEF Holds, Rehydrators
  <2>4. e.type \notin {"text_delta", "json_delta", "block_stop"}
    BY <1>5 DEF Starts
  <2> DEFINE f == Taken(c, t.out \o Named(name, <<DataLine(e), Blank>>))
  <2>5. Delivery(t.r, f, more, g)
    BY <1>1, <1>2, <2>4, OtherDelivers
  <2> HIDE DEF f
  <2>6. Delivery(w.r, f, more, g)
    BY <2>1, <2>3, <2>5, NothingHeld
  <2> QED BY <1>2, <2>2, <2>6 DEF f
<1>6. CASE e.type \in {"none", "message_start", "ping", "message_delta"}
  <2>1. w.r = t.r /\ w.out = t.out \o Named(name, <<DataLine(e), Blank>>)
    BY <1>1, <1>2, <1>6, WrittenFields DEF WrittenAs
  <2>2. e.type \notin {"text_delta", "json_delta", "block_stop"}
    BY <1>6
  <2>3. Delivery(t.r, Taken(c, t.out \o Named(name, <<DataLine(e), Blank>>)), more, g)
    BY <1>1, <1>2, <2>2, OtherDelivers
  <2> QED BY <1>2, <2>1, <2>3
<1> QED BY <1>3, <1>4, <1>5, <1>6 DEF Events, Kinds, Starts

-----------------------------------------------------------------------------
(* A line. *)

\* The arguments that are held are those that have arrived.
LEMMA ArgumentsHere ==
  ASSUME Copying, HeardInOrder, ReportedInOrder, Streams, HeldInPlace(r)
  PROVE  r.argumentsIn # NoEvent => /\ r.argumentsIn.type = "json_delta"
                                    /\ r.arguments = arrived.args[Slot(r.argumentsIn)]
<1> SUFFICES ASSUME r.argumentsIn # NoEvent
             PROVE  /\ r.argumentsIn.type = "json_delta"
                    /\ r.arguments = arrived.args[Slot(r.argumentsIn)]
  OBVIOUS
<1>1. r.argumentsIn.type = "json_delta"
  BY DEF Copying, KeptIn, HeardInOrder, HeldInOrder, NamedAsHeld
<1>2. r.toolName \in arrived.tools /\ r.arguments = arrived.args[r.toolName]
  BY DEF ReportedInOrder, StreamReported, ReportedAt, ToldOrHeld, Holding
<1>3. r.toolName # None
  <2>1. arrived.tools \subseteq Indices
    BY DEF Copying, Typed, Arrivals
  <2> QED BY <1>2, <2>1, PlacesFacts
<1>4. Slot(r.argumentsIn) = r.toolName
  BY <1>3 DEF HeldInPlace, Slot
<1> QED BY <1>1, <1>2, <1>4

\* Where the caller is when an event is read: between two, and not at the end of its block.
LEMMA EventHere ==
  ASSUME Copying, HeardInOrder, ReportedInOrder, Streams, client.result = "open", out = <<>>,
         ~r.done, feed # <<>>, NEW e \in Events, Latest(e), AtData(e),
         Delivery(r, client, arrived, Growing)
  PROVE  /\ ~Over /\ Growing = (IF Chat THEN {0} ELSE {source.open} \ {None})
         /\ ReportedAt(r, arrived, Len(trace.blocks), StartUnread)
         /\ ~client.done /\ client.event = NoEvent
         /\ e.type \in {"text_delta", "json_delta"} => Slot(e) \notin StopsOf(client)
<1>1. source.phase \notin {"sentinel", "over"} /\ ~Over
  <2>1. Head(feed).kind = "data"
    BY LineKinds DEF AtData
  <2>2. Head(feed) # DoneLine /\ Head(feed) # Blank /\ Head(feed) \notin Parts
    BY <2>1, LineKinds DEF Partial
  <2> QED BY <2>2, FeedCases DEF Copying, AtDone, AtBlank, Over
<1>2. Growing = (IF Chat THEN {0} ELSE {source.open} \ {None})
  BY <1>1 DEF Growing
<1>3. Upcoming = client
  BY TakenNone DEF Upcoming
<1>4. /\ ReportedAt(r, arrived, Len(trace.blocks), StartUnread)
      /\ StopsTold(r, client, arrived, Len(trace.blocks)) /\ (client.done => Chat)
  BY <1>3 DEF ReportedInOrder, StreamReported
<1>5. ~client.done
  <2>1. client.done => Growing = {}
    BY DEF Delivery
  <2> QED BY <1>2, <1>4, <2>1
<1>6. client.event = NoEvent
  <2>1. ReadNext = "data" /\ Head(feed).event = e
    BY LineKinds DEF AtData, ReadNext
  <2>2. CallerInOrder(r, client)
    BY <1>3 DEF HeardInOrder
  <2>3. NameHeard(r, client, e)
    BY <1>1, <2>1, <2>2 DEF CallerInOrder
  <2> QED BY <1>5, <2>3 DEF NameHeard, Clean
<1>7. e.type \in {"text_delta", "json_delta"} => Slot(e) \notin StopsOf(client)
  <2>1. CASE Chat
    BY <2>1 DEF Delivery, EndsDelivered
  <2>2. CASE ~Chat /\ e.type \in {"text_delta", "json_delta"}
    <3>1. source.open # None /\ e.index = source.open
      BY <2>2 DEF Latest
    <3> QED BY <1>1, <1>4, <3>1 DEF StopsTold, Slot
  <2> QED BY <2>1, <2>2
<1> QED BY <1>1, <1>2, <1>4, <1>5, <1>6, <1>7

\* Where the agent and the caller are when an event is read.
LEMMA PlacedHere ==
  ASSUME Copying, HeardInOrder, ReportedInOrder, Streams, client.result = "open", out = <<>>,
         ~r.done, ~Observing, feed # <<>>, NEW e \in Events, Latest(e), AtData(e),
         Delivery(r, client, arrived, Growing)
  PROVE  Placed(r, client, arrived, Growing, e)
<1>1. ~Over /\ ~client.done /\ client.event = NoEvent
  BY EventHere
<1>2. Growing = (IF Chat THEN {0} ELSE {source.open} \ {None})
  BY EventHere
<1>4. ReportedAt(r, arrived, Len(trace.blocks), StartUnread)
  BY EventHere
<1>5. e.type \in {"text_delta", "json_delta"} => Slot(e) \notin StopsOf(client)
  BY EventHere
<1>7. Messages \/ Chat
  BY ScenarioFacts DEF Copying, Typed, Streams, Messages, Chat
<1>8. /\ source.open # None => source.open = source.next - 1
      /\ Chat => source.open = None
      /\ source.next \in Nat /\ source.open \in Places /\ r.block \in Places
      /\ e.index \in Places
  <2>1. source \in Sources /\ r \in Rehydrators
    BY DEF Copying, Typed
  <2>2. source.next \in Nat
    BY <2>1, BoundsAssumption DEF Sources, Begun
  <2> QED BY <2>1, <2>2 DEF Copying, BlocksInOrder, Sources, Rehydrators, Events
<1>9. StartUnread <=> e.type \in Starts
  BY DEF StartUnread, AtData
<1>10. ASSUME e.type \in Starts
       PROVE  ~Chat /\ e.index # None /\ e.index # r.block /\ e.index = source.open
  <2>1. ~Chat /\ source.open # None /\ e.index = source.open
    BY <1>10 DEF Latest
  <2>2. Len(trace.blocks) = source.next - 1
    BY <1>1, <1>7, <1>9, <1>10, <2>1 DEF Copying, TraceInOrder, BlocksRead
  <2>3. r.block # None => r.block < source.open
    BY <1>4, <1>8, <2>1, <2>2 DEF ReportedAt
  <2>4. CASE r.block = None
    BY <2>1, <2>4
  <2>5. CASE r.block # None
    <3>1. r.block \in Nat /\ source.open \in Nat
      BY <1>8, <2>1, <2>5, PlacesFacts DEF Places
    <3> QED BY <2>1, <2>3, <2>5, <3>1
  <2> QED BY <2>4, <2>5
<1>11. ASSUME e.type \in {"text_delta", "json_delta"}, ~Chat
       PROVE  /\ e.index # None /\ e.index = r.block /\ e.index = source.open
              /\ Slot(e) \in Growing
              /\ e.type = "json_delta" => r.toolName = e.index /\ e.index \notin Told(r)
  <2>1. source.open # None /\ e.index = source.open
        /\ (e.type = "json_delta" => source.kind = "tool")
    BY <1>11 DEF Latest
  <2>2. r.block = source.open /\ source.open \notin Told(r)
        /\ r.toolName = (IF source.kind = "tool" THEN source.open ELSE None)
    BY <1>1, <1>4, <1>7, <1>9, <1>11, <2>1 DEF ReportedAt, ToolKnown, Starts
  <2>3. Slot(e) = source.open
    BY <2>1 DEF Slot
  <2> QED BY <1>2, <1>11, <2>1, <2>2, <2>3
<1>12. ASSUME e.type = "text_delta", Chat
       PROVE  e.index = None /\ Slot(e) \in Growing
  <2>1. e.index = None /\ Slot(e) = 0
    BY <1>8, <1>12 DEF Latest, Slot
  <2> QED BY <1>2, <1>12, <2>1
<1>13. ASSUME e.type = "json_delta"
       PROVE  ~Chat /\ (r.argumentsIn = NoEvent => arrived.args[e.index] = <<>>)
  <2>1. ~Chat
    BY <1>13 DEF Latest
  <2>2. ASSUME r.argumentsIn = NoEvent PROVE arrived.args[e.index] = <<>>
    <3>1. arrived.tools = Told(r)
      BY <1>4, <2>2 DEF ReportedAt, HeldByReader, ToldOrHeld, Holding
    <3>2. e.index \notin arrived.tools /\ e.index \in Indices
      BY <1>8, <1>11, <1>13, <2>1, <3>1 DEF Places
    <3> QED BY <1>4, <3>2 DEF ReportedAt, ToolsArrived
  <2> QED BY <2>1, <2>2
<1>14. ASSUME e.type = "block_stop" PROVE ~Chat /\ e.index # None /\ Growing = {}
  <2>1. ~Chat /\ source.open = None /\ source.next # 0 /\ e.index = source.next - 1
    BY <1>14 DEF Latest
  <2>2. e.index # None
    BY <1>8, <2>1 DEF None
  <2> QED BY <1>2, <2>1, <2>2
<1>15. e.type \notin Starts \union {"text_delta", "json_delta", "block_stop"} => e.index = None
  BY DEF Latest, Events, Kinds, Starts
<1>16. e.index # None /\ e.index # r.block => r.block \notin Growing
  <2>1. CASE e.type \in Starts
    BY <1>2, <1>10, <2>1
  <2>2. CASE e.type = "text_delta" /\ Chat
    BY <1>12, <2>2
  <2>3. CASE e.type \in {"text_delta", "json_delta"} /\ ~Chat
    BY <1>11, <2>3
  <2>4. CASE e.type = "block_stop"
    BY <1>14, <2>4
  <2> QED BY <1>13, <1>15, <2>1, <2>2, <2>3, <2>4
<1>17. r.argumentsIn # NoEvent => /\ r.argumentsIn.type = "json_delta"
                                  /\ r.arguments = arrived.args[Slot(r.argumentsIn)]
  BY ArgumentsHere DEF Delivery
<1>18. e.type = "text_delta" =>
         /\ Slot(e) \in Growing /\ Slot(e) \notin StopsOf(client)
         /\ IF Chat THEN e.index = None ELSE e.index # None /\ e.index = r.block
  BY <1>5, <1>11, <1>12
<1>19. e.type = "json_delta" =>
         /\ ~Chat /\ e.index # None /\ e.index = r.block /\ e.index = r.toolName
         /\ Slot(e) \notin StopsOf(client)
         /\ r.argumentsIn = NoEvent => arrived.args[e.index] = <<>>
  BY <1>5, <1>11, <1>13
<1>20. e.type # "none"
  BY DEF Latest
<1> HIDE DEF Growing
<1> QED BY <1>1, <1>10, <1>14, <1>15, <1>16, <1>17, <1>18, <1>19, <1>20 DEF Placed

\* A session that has nothing to put back hands an event on as it is.
LEMMA ObservedDelivers ==
  ASSUME Copying, HeardInOrder, ReportedInOrder, Streams, client.result = "open", out = <<>>,
         ~r.done, Observing, feed # <<>>, NEW e \in Events, Latest(e), AtData(e),
         Delivery(r, client, arrived, Growing),
         NEW more \in Arrivals, BroughtBy(more, e),
         \A b \in Indices : \A i \in DOMAIN more.args[b] : more.args[b][i] # "quote",
         NEW rr, ~Holds(rr)
  PROVE  Delivery(rr, Took(client, DataLine(e)), more, Growing)
<1> DEFINE c == Took(client, DataLine(e))
           s == Slot(e)
<1>0. Mapping(Known) /\ arrived \in Arrivals /\ client \in Clients
  BY ScenarioFacts DEF Copying, Typed
<1>4. ReportedAt(r, arrived, Len(trace.blocks), StartUnread)
  BY EventHere
<1>5. ~client.done
  BY EventHere
<1>6. client.event = NoEvent
  BY EventHere
<1>7. \A b : HeldOf(r, b) = <<>> /\ ~HeldArgs(r, b) /\ HeldOf(rr, b) = <<>> /\ ~HeldArgs(rr, b)
  BY <1>4 DEF ReportedAt, HeldByReader, HeldOf, HeldArgs, Holds
<1>8. c = [client EXCEPT !.event = e]
  BY <1>0, <1>5, TookLine
<1> HIDE DEF c
<1>9. /\ c.text = client.text /\ c.args = client.args /\ c.event = e /\ c.stopped = client.stopped
      /\ ~c.done
  BY <1>0, <1>5, <1>8 DEF Clients
<1>10. ASSUME NEW b \in Indices
       PROVE  client.text[b] = arrived.text[b] /\ client.args[b] = arrived.args[b]
  <2>1. arrived.text[b] \in Text /\ arrived.args[b] \in Text
    BY <1>0 DEF Arrivals
  <2>2. Said(client, b) = client.text[b] /\ Given(client, b) = client.args[b]
    BY <1>0, <1>6, NothingSpoken
  <2>3. Fronted(arrived.text[b], <<>>, client.text[b], b \in Growing)
    BY <1>7, <2>2 DEF Delivery
  <2>4. client.text[b] = Expanded(Known, arrived.text[b])
    BY <1>0, <2>1, <2>3, FrontedWhole
  <2>5. client.args[b] = Restored(Known, arrived.args[b])
    BY <1>7, <2>2 DEF Delivery, ArgsDelivered
  <2>6. \A i \in DOMAIN arrived.args[b] : arrived.args[b][i] # "quote"
    BY <1>4 DEF ReportedAt, ToolsArrived
  <2>7. Restored(Known, arrived.args[b]) = arrived.args[b]
    BY <2>1, <2>6, RestoredOfNothing DEF Observing
  <2> QED BY <1>0, <2>1, <2>4, <2>5, <2>7, FrontedObserving
<1>11. ASSUME NEW b \in Indices
       PROVE  /\ Fronted(more.text[b], HeldOf(rr, b), Said(c, b), b \in Growing)
              /\ ArgsDelivered(rr, c, more, b)
  <2>1. /\ more.text[b] \in Text /\ more.args[b] \in Text
        /\ arrived.text[b] \in Text /\ arrived.args[b] \in Text
    BY <1>0 DEF Arrivals
  <2>2. Said(c, b) = arrived.text[b] \o Spoken(e, b) /\ Given(c, b) = arrived.args[b] \o Handed(e, b)
    BY <1>9, <1>10 DEF Said, Given
  <2>3. arrived.text[b] \o <<>> = arrived.text[b] /\ arrived.args[b] \o <<>> = arrived.args[b]
    BY <2>1, JoinedThrice
  <2>4. Said(c, b) = more.text[b] /\ Given(c, b) = more.args[b]
    BY <2>2, <2>3 DEF BroughtBy, Spoken, Handed
  <2>5. Fronted(more.text[b], <<>>, more.text[b], b \in Growing)
    BY <1>0, <2>1, FrontedObserving
  <2>6. Restored(Known, more.args[b]) = more.args[b]
    BY <2>1, RestoredOfNothing DEF Observing
  <2> QED BY <1>7, <2>4, <2>5, <2>6 DEF ArgsDelivered
<1>12. e.type \in {"text_delta", "json_delta"} => s \notin client.stopped
  BY EventHere DEF StopsOf
<1>13. EndsDelivered(rr, c)
  <2>1. ASSUME NEW b \in client.stopped PROVE ~Chat /\ Spoken(e, b) = <<>> /\ Handed(e, b) = <<>>
    <3>1. ~Chat
      BY DEF Delivery, EndsDelivered, StopsOf
    <3> QED BY <1>12, <3>1 DEF Spoken, Handed
  <2>2. e.type = "block_stop" => ~Chat
    BY DEF Latest
  <2> QED BY <1>7, <1>9, <2>1, <2>2 DEF EndsDelivered, StopsOf
<1>14. HeldInPlace(rr) /\ ~Holds(rr)
  BY DEF HeldInPlace, Holds
<1> QED BY <1>9, <1>11, <1>13, <1>14 DEF Delivery, c

\* A line that is no event, behind a name or none.
LEMMA NamedQuietly ==
  ASSUME NEW q, NEW d \in Clients, NEW a, NEW g, Delivery(q, d, a, g), NEW name \in Names,
         NEW line \in {DoneLine, TornLine},
         line = DoneLine => ~Holds(q) /\ g = {} /\ d.event = NoEvent
  PROVE  Delivery(q, Taken(d, Named(name, <<line>>)), a, g)
<1>1. ASSUME NEW c \in Clients, Delivery(q, c, a, g), c.event = d.event
      PROVE  Delivery(q, Took(c, line), a, g)
  <2>1. line \in AllLines /\ line.kind = (IF line = DoneLine THEN "done" ELSE "torn")
    BY LineTypes, LineKinds DEF Parts
  <2>2. CASE line = DoneLine
    <3>1. line.kind = "done" /\ ~Holds(q) /\ g = {} /\ c.event = NoEvent
      BY <1>1, <2>1, <2>2
    <3> QED BY <1>1, <2>1, <3>1, QuietDelivers
  <2>3. CASE line # DoneLine
    <3>1. line.kind = "torn"
      BY <2>1, <2>3
    <3> QED BY <1>1, <2>1, <3>1, QuietDelivers DEF Partial
  <2> QED BY <2>2, <2>3
<1>2. CASE name = Unnamed
  <2>1. Taken(d, Named(name, <<line>>)) = Took(d, line)
    BY <1>2, TakenOne DEF Named
  <2> QED BY <1>1, <2>1
<1>3. CASE name # Unnamed
  <2> DEFINE c == Took(d, NameLine(name))
  <2>1. <<NameLine(name)>> \o <<line>> = <<NameLine(name), line>>
    BY Pairs
  <2>2. Taken(d, Named(name, <<line>>)) = Took(c, line)
    <3>1. Named(name, <<line>>) = <<NameLine(name)>> \o <<line>>
      BY <1>3 DEF Named
    <3>2. Taken(d, <<NameLine(name), line>>) = Took(c, line)
      BY TakenPair
    <3> HIDE DEF c
    <3> QED BY <2>1, <3>1, <3>2
  <2>3. NameLine(name) \in AllLines /\ NameLine(name).kind = "name"
    BY LineTypes, LineKinds
  <2>4. c \in Clients
    BY <2>3, TookTypes
  <2>5. Delivery(q, c, a, g)
    BY <2>3, QuietDelivers
  <2>6. c.event = d.event
    <3>1. c = d \/ c = [d EXCEPT !.name = name]
      BY TookLine
    <3> HIDE DEF c
    <3> QED BY <3>1 DEF Clients
  <2> HIDE DEF c
  <2> QED BY <1>1, <2>2, <2>4, <2>5, <2>6
<1> QED BY <1>2, <1>3

\* The hold on a blank line has no part in a delivery.
LEMMA Unheld ==
  ASSUME NEW x \in Steps, KeptIn(x.r)
  PROVE  LET z == [x EXCEPT !.r.held = FALSE]
         IN  /\ z \in Steps /\ z.out = x.out /\ SameHolding(z.r, x.r) /\ KeptIn(z.r)
             /\ z.r.arguments = x.r.arguments /\ z.r.name = x.r.name
<1> DEFINE z == [x EXCEPT !.r.held = FALSE]
<1>1. x = [r |-> x.r, out |-> x.out] /\ x.r \in Rehydrators
  BY DEF Steps
<1>2. z \in Steps
  BY DEF Steps, Rehydrators
<1>3. z.r = [x.r EXCEPT !.held = FALSE] /\ z.out = x.out
  BY <1>1
<1> HIDE DEF z
<1>4. /\ SameHolding(z.r, x.r) /\ z.r.arguments = x.r.arguments /\ z.r.name = x.r.name
  BY <1>1, <1>3 DEF SameHolding, Rehydrators
<1>5. KeptIn(z.r)
  BY <1>4 DEF KeptIn, SameHolding
<1> QED BY <1>2, <1>3, <1>4, <1>5 DEF z

\* What is no event lets everything go, and is handed on.
LEMMA UnreadableDelivers ==
  ASSUME Mapping(Known), NEW x \in Steps, x.out = <<>>, KeptIn(x.r), NEW c \in Clients,
         NEW a \in Arrivals, NEW g, Delivery(x.r, c, a, g), Ready(x.r, a, g),
         NEW line \in {DoneLine, TornLine}, line = DoneLine => g = {} /\ c.event = NoEvent
  PROVE  /\ Delivery(Rewritten(x, line).r, Taken(c, Rewritten(x, line).out), a, g)
         /\ ~Holds(Rewritten(x, line).r)
<1> DEFINE z == [x EXCEPT !.r.held = FALSE]
           k == CloseBlock(z)
           w == Rewritten(x, line)
           d == Taken(c, k.out)
           lines == Named(k.r.name, <<line>>)
<1>1. /\ w.r = [k.r EXCEPT !.name = Unnamed] /\ w.out = k.out \o lines
      /\ z \in Steps /\ z.out = x.out /\ SameHolding(z.r, x.r) /\ KeptIn(z.r)
      /\ z.r.arguments = x.r.arguments
  BY RewrittenUnreadable, Unheld
<1>2. k \in Steps /\ k.r \in Rehydrators /\ k.out \in Seq(AllLines) /\ lines \in Seq(AllLines)
      /\ k.r.name \in Names
  <2>1. k \in Steps
    BY <1>1, ReleasedTypes
  <2>2. k.r \in Rehydrators /\ k.out \in Seq(AllLines)
    BY <2>1 DEF Steps
  <2>3. k.r.name \in Names
    BY <2>2 DEF Rehydrators
  <2>4. <<line>> \in Seq(AllLines)
    BY LineTypes, SequencesOf DEF Parts
  <2> QED BY <2>1, <2>2, <2>3, <2>4, NamedTypes
<1> HIDE DEF z, w
<1>3. Taken(c, z.out) = c /\ Delivery(z.r, Taken(c, z.out), a, g) /\ Ready(z.r, a, g)
  <2>1. Taken(c, z.out) = c
    BY <1>1, TakenNone
  <2>2. SameHearing(c, c)
    BY DEF SameHearing
  <2>3. Delivery(z.r, c, a, g)
    BY <1>1, <2>2, DeliverySame
  <2> QED BY <1>1, <2>1, <2>3 DEF Ready, SameHolding
<1>4. LetGo(k.r, d, a, g, Taken(c, z.out))
  BY <1>1, <1>3, CloseDelivers
<1> HIDE DEF k, lines
<1>5. Taken(c, w.out) = Taken(d, lines)
  <2>1. Taken(c, k.out \o lines) = Taken(Taken(c, k.out), lines)
    BY <1>2, TakenJoined
  <2> QED BY <1>1, <2>1
<1> HIDE DEF d
<1>6. Delivery(k.r, d, a, g) /\ ~Holds(k.r) /\ d \in Clients /\ d.event = c.event
  BY <1>3, <1>4 DEF LetGo
<1>7. Delivery(k.r, Taken(d, lines), a, g)
  <2>1. line = DoneLine => ~Holds(k.r) /\ g = {} /\ d.event = NoEvent
    BY <1>6
  <2> QED BY <1>2, <1>6, <2>1, NamedQuietly DEF lines
<1>8. ~Holds(w.r)
  BY <1>1, <1>2, <1>6 DEF Holds, Rehydrators
<1>9. Delivery(w.r, Taken(d, lines), a, g)
  BY <1>6, <1>7, <1>8, NothingHeld
<1> QED BY <1>5, <1>8, <1>9 DEF w

\* What becomes of a line that is rewritten.
LEMMA LineRewrittenDelivers ==
  ASSUME Copying, HeardInOrder, ReportedInOrder, Apart(Known), ReadLine, ~Observing,
         Delivery(r, client, arrived, Growing),
         NEW x, x = [r |-> r, out |-> <<>>], NEW w, w = Rewritten(x, Head(feed))
  PROVE  Delivery(w.r, Taken(client, w.out), arrived', Growing)
<1>0. /\ Typed /\ KeptIn(r) /\ FeedInOrder /\ feed # <<>> /\ Head(feed).kind \notin Partial /\ Streams
      /\ client.result = "open" /\ out = <<>> /\ ~r.done /\ Mapping(Known)
      /\ arrived' = (IF Head(feed).kind = "data" THEN Arriving(Head(feed).event) ELSE arrived)
  BY ScenarioFacts DEF Copying, ReadLine, Typed
<1>1. /\ x \in Steps /\ x.r = r /\ x.out = <<>> /\ client \in Clients /\ arrived \in Arrivals
      /\ r \in Rehydrators
  <2>1. <<>> \in Seq(AllLines)
    BY SequencesOf
  <2> QED BY <1>0, <2>1 DEF Steps, Typed
<1>2. /\ \A name : /\ Rewritten(x, NameLine(name)).r = [r EXCEPT !.name = name]
                   /\ Rewritten(x, NameLine(name)).out = <<>>
      /\ \A n : /\ Rewritten(x, IdLine(n)).r = [r EXCEPT !.held = FALSE]
                /\ Rewritten(x, IdLine(n)).out = <<IdLine(n)>>
      /\ r.held => /\ Rewritten(x, Blank).r = [r EXCEPT !.held = FALSE]
                   /\ Rewritten(x, Blank).out = <<>>
      /\ ~r.held => Rewritten(x, Blank).r = r /\ Rewritten(x, Blank).out = <<Blank>>
      /\ \A e : Rewritten(x, DataLine(e)) = EventRewritten([x EXCEPT !.r.held = FALSE], e)
  BY <1>0, <1>1, RewrittenOther
<1>3. ASSUME NEW rr, SameHolding(rr, r) PROVE Delivery(rr, client, arrived, Growing)
  <2>1. SameHearing(client, client)
    BY DEF SameHearing
  <2> QED BY <1>3, <2>1, DeliverySame
<1>4. ASSUME Head(feed).kind # "data" PROVE arrived' = arrived
  BY <1>0, <1>4
<1> HIDE DEF Growing
<1>5. ASSUME NEW e \in Events, AtName(e) PROVE Delivery(w.r, Taken(client, w.out), arrived', Growing)
  <2>1. Head(feed) = NameLine(NameOf(e)) /\ arrived' = arrived
    BY <1>4, <1>5, LineKinds DEF AtName
  <2>2. w.r = [r EXCEPT !.name = NameOf(e)] /\ w.out = <<>>
    BY <1>2, <2>1
  <2>3. SameHolding(w.r, r)
    BY <1>1, <2>2 DEF SameHolding, Rehydrators
  <2>4. Taken(client, w.out) = client
    BY <2>2, TakenNone
  <2> QED BY <1>3, <2>1, <2>3, <2>4
<1>6. ASSUME NEW e \in Events, Latest(e), AtData(e)
      PROVE  Delivery(w.r, Taken(client, w.out), arrived', Growing)
  <2> DEFINE z == [x EXCEPT !.r.held = FALSE]
  <2>1. Head(feed).kind = "data" /\ Head(feed).event = e /\ Head(feed) = DataLine(e)
    BY <1>6, LineKinds DEF AtData
  <2>2. w = EventRewritten(z, e)
    BY <1>2, <2>1
  <2>3. /\ z \in Steps /\ z.out = <<>> /\ SameHolding(z.r, r) /\ KeptIn(z.r)
        /\ z.r.arguments = r.arguments
    BY <1>0, <1>1, Unheld
  <2> HIDE DEF z
  <2>4. Placed(r, client, arrived, Growing, e)
    BY <1>0, <1>6, PlacedHere
  <2>5. Placed(z.r, client, arrived, Growing, e)
    BY <2>3, <2>4 DEF Placed, SameHolding
  <2>6. Delivery(z.r, client, arrived, Growing)
    BY <1>3, <2>3
  <2>7. BroughtBy(arrived', e)
    BY <1>0, <1>1, <2>1, ArrivingBrings
  <2> DEFINE more == arrived'
  <2> HIDE DEF more
  <2>8. BroughtBy(more, e)
    BY <2>7 DEF more
  <2>9. Delivery(EventRewritten(z, e).r, Taken(client, EventRewritten(z, e).out), more, Growing)
    BY <1>0, <1>1, <2>3, <2>5, <2>6, <2>8, EventDelivers
  <2> QED BY <2>2, <2>9 DEF more
<1>7. ASSUME NEW e \in Events, AtId(e) PROVE Delivery(w.r, Taken(client, w.out), arrived', Growing)
  <2>1. Head(feed) = IdLine(e.n) /\ arrived' = arrived
    BY <1>4, <1>7, LineKinds DEF AtId
  <2>2. w.r = [r EXCEPT !.held = FALSE] /\ w.out = <<IdLine(e.n)>>
    <3> DEFINE n == e.n
    <3>1. w = Rewritten(x, IdLine(n))
      BY <2>1
    <3> HIDE DEF n
    <3>2. /\ Rewritten(x, IdLine(n)).r = [r EXCEPT !.held = FALSE]
          /\ Rewritten(x, IdLine(n)).out = <<IdLine(n)>>
      BY <1>2
    <3>3. w.r = [r EXCEPT !.held = FALSE] /\ w.out = <<IdLine(n)>>
      BY <3>1, <3>2
    <3> QED BY <3>3 DEF n
  <2>3. SameHolding(w.r, r)
    BY <1>1, <2>2 DEF SameHolding, Rehydrators
  <2>4. Taken(client, w.out) = Took(client, IdLine(e.n))
    BY <2>2, TakenOne
  <2>5. Delivery(w.r, client, arrived, Growing)
    BY <1>3, <2>3
  <2>6. IdLine(e.n) \in AllLines /\ IdLine(e.n).kind = "id"
    BY LineTypes, LineKinds DEF Events
  <2> QED BY <1>1, <2>1, <2>4, <2>5, <2>6, QuietDelivers
<1>8. ASSUME AtBlank PROVE Delivery(w.r, Taken(client, w.out), arrived', Growing)
  <2>1. Head(feed) = Blank /\ arrived' = arrived
    BY <1>4, <1>8, LineKinds DEF AtBlank
  <2>2. CASE r.held
    <3>1. w.r = [r EXCEPT !.held = FALSE] /\ w.out = <<>>
      BY <1>2, <2>1, <2>2
    <3>2. SameHolding(w.r, r)
      BY <1>1, <3>1 DEF SameHolding, Rehydrators
    <3>3. Taken(client, w.out) = client
      BY <3>1, TakenNone
    <3> QED BY <1>3, <2>1, <3>2, <3>3
  <2>3. CASE ~r.held
    <3>1. w.r = r /\ w.out = <<Blank>>
      BY <1>2, <2>1, <2>3
    <3>2. Taken(client, w.out) = Took(client, Blank)
      BY <3>1, TakenOne
    <3> QED BY <1>1, <2>1, <3>1, <3>2, BlankDelivers
  <2> QED BY <2>2, <2>3
<1>9. ASSUME AtDone PROVE Delivery(w.r, Taken(client, w.out), arrived', Growing)
  <2>1. Head(feed) = DoneLine /\ Head(feed).kind = "done" /\ arrived' = arrived
    BY <1>4, <1>9, LineKinds DEF AtDone
  <2>2. Growing = {}
    <3>1. Head(feed).kind \notin {"name", "data", "id", "blank"}
      BY <2>1
    <3>2. Chat /\ source.phase = "sentinel"
      <4>1. \A e \in Events : ~(AtName(e) \/ AtData(e) \/ AtId(e) \/ AtBlank)
        BY <3>1, LineKinds DEF AtName, AtData, AtId, AtBlank
      <4>2. Head(feed) \notin Parts
        BY <1>0, LineKinds
      <4> QED BY <1>0, <4>1, <4>2, FeedCases
    <3> QED BY <3>2 DEF Growing
  <2>3. client.event = NoEvent
    <3>1. ~Over /\ ReadNext = "done"
      BY <1>0, <2>1, ReadingAt
    <3>2. Upcoming = client
      BY <1>0, TakenNone DEF Upcoming
    <3>3. Clean(client)
      BY <1>0, <3>1, <3>2 DEF HeardInOrder, CallerInOrder, CallerAt
    <3> QED BY <3>3 DEF Clean, Delivery
  <2>4. Ready(r, arrived, Growing)
    <3>1. r.argumentsIn # NoEvent => /\ r.argumentsIn.type = "json_delta"
                                     /\ r.arguments = arrived.args[Slot(r.argumentsIn)]
      BY <1>0, ArgumentsHere DEF Delivery
    <3> QED BY <2>2, <3>1 DEF Ready
  <2> DEFINE g == Growing
             last == DoneLine
  <2>5. /\ Delivery(x.r, client, arrived, g) /\ Ready(x.r, arrived, g) /\ KeptIn(x.r)
        /\ last \in {DoneLine, TornLine} /\ (last = DoneLine => g = {} /\ client.event = NoEvent)
    BY <1>0, <1>1, <2>2, <2>3, <2>4
  <2> HIDE DEF g, last
  <2>6. Delivery(Rewritten(x, last).r, Taken(client, Rewritten(x, last).out), arrived, g)
    BY <1>0, <1>1, <2>5, UnreadableDelivers
  <2> QED BY <2>1, <2>6 DEF g, last
<1> QED BY <1>0, <1>5, <1>6, <1>7, <1>8, <1>9, ReadingAt

\* What becomes of a line that is only observed.
LEMMA LineObservedDelivers ==
  ASSUME Copying, HeardInOrder, ReportedInOrder, ReadLine, Observing,
         Delivery(r, client, arrived, Growing)
  PROVE  Delivery(Observed(r, Head(feed)), Took(client, Head(feed)), arrived', Growing)
<1> DEFINE line == Head(feed)
           rr == Observed(r, line)
<1>0. /\ Typed /\ FeedInOrder /\ feed # <<>> /\ line.kind \notin Partial /\ Streams
      /\ client.result = "open" /\ out = <<>> /\ ~r.done
      /\ arrived' = (IF line.kind = "data" THEN Arriving(line.event) ELSE arrived)
  BY DEF Copying, ReadLine
<1>1. /\ client \in Clients /\ arrived \in Arrivals /\ r \in Rehydrators /\ line \in AllLines
  <2>1. feed \in Seq(AllLines)
    BY <1>0 DEF Typed
  <2> QED BY <1>0, <2>1 DEF Typed
<1>2. ~Holds(r) /\ ~Holds(rr)
  <2>1. r.pending = <<>> /\ r.argumentsIn = NoEvent
    BY <1>0 DEF ReportedInOrder, StreamReported, ReportedAt, HeldByReader
  <2>2. SameHeld(rr, r)
    BY <1>1, ObservedKeeps
  <2> HIDE DEF rr
  <2> QED BY <2>1, <2>2 DEF SameHeld, Holds
<1>3. line.kind # "data" => arrived' = arrived
  BY <1>0
<1>4. line.kind \in {"name", "data", "id", "blank", "done"}
  BY <1>0, <1>1 DEF AllLines, Partial
<1> HIDE DEF rr, Growing
<1>5. CASE line.kind = "data"
  <2>1. PICK e \in Events : Latest(e) /\ AtData(e)
    <3>1. ReadNext = "data"
      BY <1>0, <1>5, ReadingAt
    <3>2. line.kind \notin {"blank", "done"}
      BY <1>5
    <3>3. ~AtBlank /\ ~AtDone
      BY <3>2, LineKinds DEF AtBlank, AtDone
    <3>4. \A e \in Events : ~AtName(e) /\ ~AtId(e)
      BY <1>5, LineKinds DEF AtName, AtId
    <3> QED BY <1>0, <3>3, <3>4, ReadingAt
  <2>2. line = DataLine(e) /\ line.event = e
    BY <2>1, LineKinds DEF AtData
  <2>3. BroughtBy(arrived', e) /\ arrived' \in Arrivals
    BY <1>0, <1>1, <1>5, <2>2, ArrivingBrings, ArrivingTypes
  <2>4. \A b \in Indices : \A i \in DOMAIN arrived'.args[b] : arrived'.args[b][i] # "quote"
    <3>1. ReportedInOrder' /\ Streams'
      <4>1. ReportedInOrder'
        BY ReadIsReported
      <4>2. scenario' = scenario
        BY DEF ReadLine
      <4> QED BY <1>0, <4>1, <4>2 DEF Streams
    <3>2. StreamReported'
      BY <3>1 DEF ReportedInOrder
    <3>3. ReportedAt(r, arrived, Len(trace.blocks), StartUnread)'
      BY <3>2 DEF StreamReported
    <3>4. ToolsArrived(arrived, Len(trace.blocks))'
      BY <3>3 DEF ReportedAt
    <3> QED BY <3>4 DEF ToolsArrived
  <2> DEFINE more == arrived'
  <2>5. /\ more \in Arrivals /\ BroughtBy(more, e)
        /\ \A b \in Indices : \A i \in DOMAIN more.args[b] : more.args[b][i] # "quote"
    BY <2>3, <2>4
  <2> HIDE DEF more
  <2>6. Delivery(rr, Took(client, DataLine(e)), more, Growing)
    BY <1>0, <1>2, <2>1, <2>5, ObservedDelivers
  <2> QED BY <2>2, <2>6 DEF more, rr
<1>6. CASE line.kind \in {"name", "id"}
  <2>1. Delivery(r, Took(client, line), arrived, Growing)
    BY <1>1, <1>6, QuietDelivers
  <2>2. Delivery(rr, Took(client, line), arrived, Growing)
    BY <1>2, <2>1, NothingHeld
  <2> QED BY <1>3, <1>6, <2>2 DEF rr
<1>7. CASE line.kind = "blank"
  <2>1. line = Blank
    <3>1. \A e \in Events : ~AtName(e) /\ ~AtData(e) /\ ~AtId(e)
      BY <1>7, LineKinds DEF AtName, AtData, AtId
    <3>2. ~AtDone
      BY <1>7, LineKinds DEF AtDone
    <3> QED BY <1>0, <3>1, <3>2, ReadingAt DEF AtBlank
  <2>2. Delivery(r, Took(client, Blank), arrived, Growing)
    BY <1>1, BlankDelivers
  <2>3. Delivery(rr, Took(client, Blank), arrived, Growing)
    BY <1>2, <2>2, NothingHeld
  <2> QED BY <1>3, <1>7, <2>1, <2>3 DEF rr
<1>8. CASE line.kind = "done"
  <2>1. \A e \in Events : ~(AtName(e) \/ AtData(e) \/ AtId(e) \/ AtBlank)
    BY <1>8, LineKinds DEF AtName, AtData, AtId, AtBlank
  <2>2. line \notin Parts
    BY <1>0, LineKinds
  <2>3. Chat /\ source.phase = "sentinel"
    BY <1>0, <2>1, <2>2, FeedCases
  <2>4. Growing = {}
    BY <2>3 DEF Growing
  <2>5. client.event = NoEvent
    <3>1. ~Over /\ ReadNext = "done"
      BY <1>0, <1>8, ReadingAt
    <3>2. Upcoming = client
      BY <1>0, TakenNone DEF Upcoming
    <3>3. Clean(client)
      BY <1>0, <3>1, <3>2 DEF HeardInOrder, CallerInOrder, CallerAt
    <3> QED BY <3>3 DEF Clean, Delivery
  <2>6. Delivery(r, Took(client, line), arrived, Growing)
    BY <1>1, <1>2, <1>8, <2>4, <2>5, QuietDelivers
  <2>7. Delivery(rr, Took(client, line), arrived, Growing)
    BY <1>2, <2>6, NothingHeld
  <2> QED BY <1>3, <1>8, <2>7 DEF rr
<1> QED BY <1>4, <1>5, <1>6, <1>7, <1>8

\* The mapping and the shape of the answer do not change.
LEMMA DeliveryNext ==
  ASSUME scenario' = scenario, Delivery(r', Upcoming', arrived', Growing')
  PROVE  Delivery(r, Upcoming, arrived, Growing)'
<1>1. Known' = Known /\ Chat' = Chat
  BY DEF Known, Chat
<1>2. \A b \in Indices : Fronted(arrived.text[b], HeldOf(r, b), Said(Upcoming, b), b \in Growing)'
  BY <1>1 DEF Delivery, Fronted, HeldOf, Said
<1>3. \A b \in Indices : ArgsDelivered(r, Upcoming, arrived, b)'
  BY <1>1 DEF Delivery, ArgsDelivered, HeldArgs, Given
<1>4. HeldInPlace(r)' /\ EndsDelivered(r, Upcoming)'
  BY <1>1 DEF Delivery, HeldInPlace, EndsDelivered, StopsOf, HeldOf, HeldArgs
<1> QED BY <1>2, <1>3, <1>4 DEF Delivery, Holds

\* Whatever line is read, what is handed on and what is held are again all that has come.
LEMMA LineDelivers ==
  ASSUME Copying, HeardInOrder, ReportedInOrder, Apart(Known), ReadLine,
         Delivery(r, Upcoming, arrived, Growing)
  PROVE  Delivery(r, Upcoming, arrived, Growing)'
<1> DEFINE line == Head(feed)
           x == [r |-> r, out |-> <<>>]
           w == Read(x, line)
<1>0. out = <<>> /\ r' = w.r /\ out' = w.out /\ UNCHANGED <<scenario, source, client>>
  BY DEF ReadLine
<1>1. Upcoming = client
  BY <1>0, TakenNone DEF Upcoming
<1>2. Growing' = Growing
  BY <1>0 DEF Growing, Over, Chat
<1>3. Upcoming' = Taken(client, w.out)
  BY <1>0 DEF Upcoming
<1>4. CASE Observing
  <2>1. Append(<<>>, line) = <<line>>
    OBVIOUS
  <2>2. w = [r |-> Observed(r, line), out |-> <<line>>]
    BY <1>4, <2>1 DEF Read, Observing
  <2>3. w.r = Observed(r, line) /\ w.out = <<line>>
    BY <2>2
  <2>4. Upcoming' = Took(client, line)
    BY <1>3, <2>3, TakenOne
  <2>5. Delivery(Observed(r, line), Took(client, line), arrived', Growing)
    BY <1>1, <1>4, LineObservedDelivers
  <2> HIDE DEF w
  <2>6. Delivery(r', Upcoming', arrived', Growing')
    BY <1>0, <1>2, <2>3, <2>4, <2>5
  <2> QED BY <1>0, <2>6, DeliveryNext
<1>5. CASE ~Observing
  <2>1. w = Rewritten(x, line)
    BY <1>5 DEF Read, Observing
  <2> HIDE DEF w
  <2>2. Delivery(w.r, Taken(client, w.out), arrived', Growing)
    <3> HIDE DEF x
    <3>1. x = [r |-> r, out |-> <<>>]
      BY DEF x
    <3> QED BY <1>1, <1>5, <2>1, <3>1, LineRewrittenDelivers
  <2>3. Delivery(r', Upcoming', arrived', Growing')
    BY <1>0, <1>2, <1>3, <2>2
  <2> QED BY <1>0, <2>3, DeliveryNext
<1> QED BY <1>4, <1>5

-----------------------------------------------------------------------------
(* The end, and the other steps. *)

\* Where the end of the answer finds the agent.
AtEnd(x) ==
  /\ x \in Steps /\ KeptIn(x.r) /\ Delivery(x.r, Taken(client, x.out), arrived, {})
  /\ Ready(x.r, arrived, {}) /\ (x.r.observing => ~Holds(x.r))
  /\ feed = <<StubLine>> => x.out = <<StubLine>> /\ (Holds(x.r) => HeldInOrder(x.r))

\* A line that the connection cut short is the last.
LEMMA TornDelivers ==
  ASSUME Copying, HeardInOrder, ReportedInOrder, ReadEnd, Delivery(r, client, arrived, Growing),
         NEW before, before = [r |-> r, out |-> <<>>]
  PROVE  AtEnd(IF feed = <<>> THEN before ELSE Read(before, Head(feed)))
<1>0. /\ Typed /\ KeptIn(r) /\ FeedInOrder /\ Streams /\ Over /\ Mapping(Known)
      /\ r \in Rehydrators /\ client \in Clients /\ arrived \in Arrivals /\ Growing = {}
      /\ (feed # <<>> => Head(feed).kind \in Partial)
  BY ScenarioFacts DEF Copying, ReadEnd, Typed, Over, Growing
<1>1. before \in Steps /\ before.r = r /\ before.out = <<>>
  <2>1. <<>> \in Seq(AllLines)
    BY SequencesOf
  <2> QED BY <1>0, <2>1 DEF Steps
<1>2. Delivery(r, client, arrived, {}) /\ Ready(r, arrived, {})
  <2>1. Delivery(r, client, arrived, {})
    BY <1>0
  <2> QED BY <1>0, <2>1, ArgumentsHere DEF Ready, Delivery
<1>3. IF Observing THEN ~Holds(r) ELSE ~r.observing
  BY <1>0 DEF ReportedInOrder, StreamReported, ReportedAt, HeldByReader, Holds
<1>4. <<StubLine>> # <<>> /\ Head(<<StubLine>>) = StubLine
  OBVIOUS
<1>5. CASE feed = <<>>
  <2>1. Taken(client, before.out) = client
    BY <1>1, TakenNone
  <2> QED BY <1>0, <1>1, <1>2, <1>3, <1>4, <1>5, <2>1 DEF AtEnd
<1>6. CASE feed # <<>>
  <2> DEFINE line == Head(feed)
             x == Read(before, line)
  <2>1. line \in Parts /\ line \in AllLines /\ feed = <<line>>
    BY <1>0, <1>6, FeedCases, LineKinds, LineTypes DEF AtName, AtData, AtId, AtBlank, AtDone, Partial
  <2>2. x \in Steps /\ KeptIn(x.r)
    BY <1>0, <1>1, <2>1, ReadTypes, KeptRead
  <2>3. feed = <<StubLine>> => line = StubLine
    BY <1>4
  <2>4. CASE Observing
    <3>1. Append(<<>>, line) = <<line>>
      OBVIOUS
    <3>2. x = [r |-> Observed(r, line), out |-> <<line>>]
      BY <1>1, <2>4, <3>1 DEF Read, Observing
    <3>3. x.r = Observed(r, line) /\ x.out = <<line>>
      BY <3>2
    <3>4. SameHeld(x.r, r)
      BY <1>0, <2>1, <3>3, ObservedKeeps
    <3>5. ~Holds(x.r) /\ ~Holds(r)
      BY <1>3, <2>4, <3>4 DEF SameHeld, Holds
    <3>6. feed = <<StubLine>> => x.out = <<StubLine>>
      BY <2>3, <3>3
    <3> HIDE DEF x, line
    <3>7. Taken(client, x.out) = client
      BY <1>0, <2>1, <3>3, TakenOne, TookLine
    <3>8. Delivery(x.r, Taken(client, x.out), arrived, {})
      BY <1>2, <3>5, <3>7, NothingHeld
    <3> QED BY <1>6, <2>2, <3>5, <3>6, <3>8 DEF AtEnd, Ready, Holds, x, line
  <2>5. CASE ~Observing
    <3>1. x = Rewritten(before, line)
      BY <2>5 DEF Read, Observing
    <3>2. CASE line = TornLine
      <4>1. line \in {DoneLine, TornLine} /\ line # DoneLine /\ line # StubLine
        BY <3>2, LineKinds
      <4> HIDE DEF x, line
      <4> DEFINE g == {}
      <4>2. Delivery(before.r, client, arrived, g) /\ Ready(before.r, arrived, g) /\ KeptIn(before.r)
        BY <1>0, <1>1, <1>2
      <4> HIDE DEF g
      <4>3. /\ Delivery(Rewritten(before, line).r, Taken(client, Rewritten(before, line).out), arrived, g)
            /\ ~Holds(Rewritten(before, line).r)
        BY <1>0, <1>1, <4>1, <4>2, UnreadableDelivers
      <4>4. Delivery(x.r, Taken(client, x.out), arrived, {}) /\ ~Holds(x.r)
        BY <3>1, <4>3 DEF g
      <4>5. AtEnd(x)
        BY <2>2, <2>3, <4>1, <4>4 DEF AtEnd, Ready, Holds
      <4> QED BY <1>6, <4>5 DEF x, line
    <3>3. CASE line # TornLine
      <4>1. line = StubLine \/ line = CutLine
        BY <2>1, <3>3 DEF Parts
      <4> HIDE DEF x, line
      <4>2. \/ line = StubLine /\ x.r = [r EXCEPT !.held = FALSE] /\ x.out = <<StubLine>>
            \/ line = CutLine /\ x.r = [r EXCEPT !.name = Unnamed] /\ x.out = <<>>
        BY <1>0, <1>1, <3>1, <4>1, RewrittenOther
      <4>3. /\ SameHolding(x.r, r) /\ x.r.arguments = r.arguments /\ x.r.observing = r.observing
            /\ HeldInOrder(r) => HeldInOrder(x.r)
        BY <1>0, <4>2 DEF Rehydrators, SameHolding, HeldInOrder, NamedAsHeld
      <4>4. Taken(client, x.out) = client
        <5>1. CASE x.out = <<>>
          BY <5>1, TakenNone
        <5>2. CASE x.out = <<StubLine>>
          <6>1. Took(client, StubLine) = client
            BY <1>0, TookLine DEF Parts
          <6> QED BY <5>2, <6>1, TakenOne
        <5> QED BY <4>2, <5>1, <5>2
      <4>5. SameHearing(client, client)
        BY DEF SameHearing
      <4>6. Delivery(x.r, client, arrived, {})
        BY <1>2, <4>3, <4>5, DeliverySame
      <4>7. Ready(x.r, arrived, {})
        BY <1>2, <4>3 DEF Ready, SameHolding
      <4>8. HeldInOrder(r)
        BY <1>0 DEF HeardInOrder
      <4>9. StubLine # CutLine
        BY LineKinds
      <4>10. feed = <<StubLine>> => x.out = <<StubLine>>
        BY <2>3, <4>2, <4>9
      <4>11. ~x.r.observing
        BY <1>3, <2>5, <4>3
      <4>12. AtEnd(x)
        BY <2>2, <4>3, <4>4, <4>6, <4>7, <4>8, <4>10, <4>11 DEF AtEnd
      <4> QED BY <1>6, <4>12 DEF x, line
    <3> QED BY <3>2, <3>3
  <2> QED BY <2>4, <2>5
<1> QED BY <1>5, <1>6

\* What is released behind a line cut short changes no block that had its stop.
LEMMA JoinedKeeps ==
  ASSUME Mapping(Known), NEW z \in Steps, KeptIn(z.r), HeldInOrder(z.r), z.out = <<StubLine>>,
         NEW c \in Clients, NEW a, NEW g, Delivery(z.r, c, a, g), Whole(c, a), Holds(z.r)
  PROVE  Whole(Taken(c, Joined(CloseBlock(z).out)), a)
<1> DEFINE S == c.stopped
           L == {line \in AllLines :
                   /\ line.kind \in {"name", "data", "blank", "stub"}
                   /\ line.kind = "data" => /\ line.event.type # "block_stop"
                                            /\ Slot(line.event) \notin S}
           G == {d \in Clients :
                   /\ ~d.done /\ d.stopped = S /\ d.event.type # "block_stop"
                   /\ \A b \in S : /\ d.text[b] = c.text[b] /\ d.args[b] = c.args[b]
                                    /\ Spoken(d.event, b) = <<>> /\ Handed(d.event, b) = <<>>}
<1>1. c.event = NoEvent /\ ~c.done /\ StopsOf(c) = S /\ S \subseteq Indices
  BY NothingSpoken DEF Delivery, Clients
<1>2. PICK more \in Seq(ClosingLines(z.r)) : CloseBlock(z).out = z.out \o more
  BY ClosingWritten
<1>3. /\ z.r.pending # <<>> => Slot(z.r.template) \notin S
      /\ z.r.argumentsIn # NoEvent => Slot(z.r.argumentsIn) \notin S
  BY <1>1 DEF Delivery, EndsDelivered, HeldOf, HeldArgs
<1>4. ClosingLines(z.r) \subseteq L
  <2> SUFFICES ASSUME NEW line \in ClosingLines(z.r) PROVE line \in L
    OBVIOUS
  <2>1. line \in AllLines /\ line.kind \in {"name", "data", "blank"}
    BY DEF ClosingLines
  <2>2. ASSUME line.kind = "data"
        PROVE  line.event.type # "block_stop" /\ Slot(line.event) \notin S
    BY <1>3, <2>2 DEF ClosingLines, Slot
  <2> QED BY <2>1, <2>2
<1>5. StubLine \in L
  BY LineTypes, LineKinds DEF Parts
<1>6. c \in G
  BY <1>1, NothingSpoken
<1>7. ASSUME NEW d \in G, NEW line \in L PROVE Took(d, line) \in G
  <2>0. d \in Clients /\ ~d.done /\ line \in AllLines /\ line.event \in Events
    BY DEF AllLines
  <2>1. Took(d, line) \in Clients
    BY <2>0, TookTypes
  <2>2. CASE line.kind = "name"
    <3>1. Took(d, line) = [d EXCEPT !.name = line.name]
      BY <2>0, <2>2 DEF Took, Partial
    <3>2. LET f == Took(d, line)
          IN  /\ ~f.done /\ f.stopped = d.stopped /\ f.event = d.event /\ f.text = d.text
              /\ f.args = d.args
      BY <2>0, <3>1 DEF Clients
    <3> QED BY <2>1, <3>2
  <2>3. CASE line.kind = "data"
    <3>1. Took(d, line) = [d EXCEPT !.event = line.event]
      BY <2>0, <2>3 DEF Took, Partial
    <3>2. LET f == Took(d, line)
          IN  /\ ~f.done /\ f.stopped = d.stopped /\ f.event = line.event /\ f.text = d.text
              /\ f.args = d.args
      BY <2>0, <3>1 DEF Clients
    <3>3. \A b \in S : Spoken(line.event, b) = <<>> /\ Handed(line.event, b) = <<>>
      BY <2>3 DEF Spoken, Handed
    <3>4. line.event.type # "block_stop"
      BY <2>3
    <3> QED BY <2>1, <3>2, <3>3, <3>4
  <2>4. CASE line.kind = "blank"
    <3>1. Took(d, line) = Took(d, Blank)
      BY <2>0, <2>4, LineKinds DEF Took, Partial
    <3> DEFINE f == Took(d, Blank)
    <3>2. Speaks(f, d, d.event)
      BY <2>0, BlankSpeaks
    <3> HIDE DEF f
    <3>3. f \in Clients /\ ~f.done /\ f.event = NoEvent /\ f.stopped = S
      BY <3>2 DEF Speaks
    <3>4. ASSUME NEW b \in S PROVE f.text[b] = c.text[b] /\ f.args[b] = c.args[b]
      <4>1. b \in Indices
        BY <1>1
      <4>2. f.text[b] = d.text[b] \o <<>> /\ f.args[b] = d.args[b] \o <<>>
        BY <3>2, <4>1 DEF Speaks
      <4>3. d.text[b] \in Text /\ d.args[b] \in Text
        BY <2>0, <4>1 DEF Clients
      <4>4. f.text[b] = d.text[b] /\ f.args[b] = d.args[b]
        BY <4>2, <4>3, JoinedThrice
      <4> QED BY <4>4
    <3>5. f \in G
      BY <3>3, <3>4, NothingSpoken
    <3> QED BY <3>1, <3>5 DEF f
  <2>5. CASE line.kind = "stub"
    <3>1. Took(d, line) = d
      BY <2>0, <2>5 DEF Took, Partial
    <3> QED BY <3>1
  <2> QED BY <2>2, <2>3, <2>4, <2>5
<1>8. Joined(CloseBlock(z).out) \in Seq(L)
  <2> HIDE DEF L
  <2>1. more \in Seq(L)
    BY <1>4
  <2> QED BY <1>2, <1>5, <2>1, JoinedLines
<1> DEFINE d == Taken(c, Joined(CloseBlock(z).out))
<1>9. d \in G
  <2> HIDE DEF G, L
  <2> QED BY <1>6, <1>7, <1>8, TakenKeeps
<1> HIDE DEF d
<1>10. d.stopped = S /\ ~d.done /\ \A b \in S : d.text[b] = c.text[b] /\ d.args[b] = c.args[b]
  BY <1>9
<1>11. Whole(d, a)
  BY <1>10 DEF Whole
<1> QED BY <1>11 DEF d

\* At the end what is held goes out: the whole is handed on.
LEMMA EndDelivers ==
  ASSUME Copying, HeardInOrder, ReportedInOrder, ReadEnd, Delivery(r, Upcoming, arrived, Growing),
         Whole(client, arrived)
  PROVE  /\ ~Holds(r')
         /\ IF r'.joined THEN Whole(Upcoming', arrived')
            ELSE Delivery(r, Upcoming, arrived, Growing)'
<1> DEFINE before == [r |-> r, out |-> <<>>]
           x == IF feed = <<>> THEN before ELSE Read(before, Head(feed))
           z == [x EXCEPT !.r = ArgumentsReported(x.r)]
           y == Flushed(x)
           g == {}
           joined == feed = <<StubLine>> /\ y.out # x.out
<1>0. /\ out = <<>>
      /\ r' = [ReportUsage(y.r) EXCEPT !.done = TRUE, !.readErr = Failed, !.joined = joined]
      /\ out' = (IF joined THEN Joined(y.out) ELSE y.out)
      /\ UNCHANGED <<scenario, source, arrived, client>> /\ Over
      /\ Mapping(Known) /\ client \in Clients /\ arrived \in Arrivals
  BY ScenarioFacts DEF ReadEnd, Over, Copying, Typed
<1>1. AtEnd(x)
  <2>1. Delivery(r, client, arrived, Growing)
    <3>1. Upcoming = client
      BY <1>0, TakenNone DEF Upcoming
    <3> QED BY <3>1
  <2> HIDE DEF before
  <2>2. before = [r |-> r, out |-> <<>>]
    BY DEF before
  <2> QED BY <2>1, <2>2, TornDelivers
<1>j. joined => feed = <<StubLine>> /\ y.out # x.out
  OBVIOUS
<1> HIDE DEF x, joined
<1>2. y = CloseBlock(z)
  BY DEF Flushed
<1>3. /\ x \in Steps /\ x.r \in Rehydrators /\ x = [r |-> x.r, out |-> x.out]
      /\ x.out \in Seq(AllLines)
  BY <1>1 DEF AtEnd, Steps
<1>4. z.r = ArgumentsReported(x.r) /\ z.out = x.out /\ z \in Steps
  BY <1>3, ReportedFields DEF Steps
<1> HIDE DEF z
<1>5. /\ SameTemplate(z.r, x.r) /\ SameHeld(z.r, x.r) /\ z.r.block = x.r.block
      /\ (~x.r.observing => SameTelling(z.r, x.r))
  <2> DEFINE p == ArgumentsReported(x.r)
  <2>1. /\ SameTemplate(p, x.r) /\ SameHeld(p, x.r) /\ p.block = x.r.block
        /\ ~x.r.observing => SameTelling(p, x.r)
    BY <1>3, ReportedFields
  <2> HIDE DEF p
  <2>2. z.r = p
    BY <1>4 DEF p
  <2> QED BY <2>1, <2>2
<1>6. KeptIn(z.r)
  BY <1>1, <1>5 DEF AtEnd, KeptIn, SameTemplate, SameHeld
<1>7. Delivery(z.r, Taken(client, z.out), arrived, g) /\ Ready(z.r, arrived, g)
  <2>1. Delivery(x.r, Taken(client, x.out), arrived, g) /\ Ready(x.r, arrived, g)
    BY <1>1 DEF AtEnd
  <2>2. CASE x.r.observing
    <3>1. ~Holds(x.r) /\ ~Holds(z.r)
      BY <1>1, <1>5, <2>2 DEF AtEnd, Holds, SameHeld
    <3>2. Delivery(z.r, Taken(client, x.out), arrived, g)
      BY <2>1, <3>1, NothingHeld
    <3> QED BY <1>4, <3>1, <3>2 DEF Ready, Holds
  <2>3. CASE ~x.r.observing
    <3>1. SameHolding(z.r, x.r) /\ z.r.arguments = x.r.arguments
      BY <1>5, <2>3 DEF SameHolding, SameTemplate, SameHeld, SameTelling
    <3>2. SameHearing(Taken(client, x.out), Taken(client, x.out))
      BY DEF SameHearing
    <3>3. Delivery(z.r, Taken(client, x.out), arrived, g)
      BY <2>1, <3>1, <3>2, DeliverySame
    <3> QED BY <1>4, <2>1, <3>1, <3>3 DEF Ready, SameHolding
  <2> QED BY <2>2, <2>3
<1> HIDE DEF g
<1>8. LetGo(y.r, Taken(client, y.out), arrived, g, Taken(client, z.out))
  <2>1. LetGo(CloseBlock(z).r, Taken(client, CloseBlock(z).out), arrived, g, Taken(client, z.out))
    BY <1>0, <1>4, <1>6, <1>7, CloseDelivers
  <2> HIDE DEF y
  <2> QED BY <1>2, <2>1
<1>9. y.r \in Rehydrators
  <2>1. y \in Steps
    BY <1>0, <1>2, <1>4, ReleasedTypes
  <2> QED BY <2>1 DEF Steps
<1> HIDE DEF y
<1>10. Delivery(y.r, Taken(client, y.out), arrived, g) /\ ~Holds(y.r)
  BY <1>8 DEF LetGo
<1>11. ~Holds(r') /\ r'.joined = joined
  <2> DEFINE p == ReportUsage(y.r)
  <2>1. p \in Rehydrators /\ SameHeld(p, y.r)
    BY <1>9, ReportUsageFields
  <2>2. r' = [p EXCEPT !.done = TRUE, !.readErr = Failed, !.joined = joined]
    BY <1>0
  <2> HIDE DEF p
  <2>3. r'.pending = p.pending /\ r'.argumentsIn = p.argumentsIn /\ r'.joined = joined
    BY <2>1, <2>2 DEF Rehydrators
  <2> QED BY <1>10, <2>1, <2>3 DEF Holds, SameHeld
<1>12. Delivery(r', Taken(client, y.out), arrived, g)
  BY <1>10, <1>11, NothingHeld
<1>13. /\ Growing' = g /\ arrived' = arrived
       /\ Upcoming' = Taken(client, IF joined THEN Joined(y.out) ELSE y.out)
  <2>1. Over'
    BY <1>0 DEF Over
  <2> QED BY <1>0, <2>1 DEF Growing, Upcoming, g
<1>14. ASSUME ~joined PROVE Delivery(r, Upcoming, arrived, Growing)'
  <2>1. Delivery(r', Upcoming', arrived', Growing')
    BY <1>12, <1>13, <1>14
  <2> QED BY <1>0, <2>1, DeliveryNext
<1>15. ASSUME joined PROVE Whole(Upcoming', arrived')
  <2>1. z.out = <<StubLine>> /\ y.out # z.out /\ (Holds(x.r) => HeldInOrder(x.r))
    BY <1>1, <1>4, <1>15, <1>j DEF AtEnd
  <2>2. Holds(z.r)
    <3> SUFFICES ASSUME ~Holds(z.r) PROVE FALSE
      OBVIOUS
    <3>1. ArgumentsReleased(z) = z
      BY DEF Holds, ArgumentsReleased
    <3>2. CloseBlock(z) = z
      BY <3>1 DEF Holds, TailReleased, CloseBlock
    <3> QED BY <1>2, <2>1, <3>2
  <2>3. HeldInOrder(z.r)
    <3>1. Holds(x.r)
      BY <1>5, <2>2 DEF Holds, SameHeld
    <3>2. ~x.r.observing
      BY <1>1, <3>1 DEF AtEnd
    <3>3. z.r = x.r
      BY <1>4, <3>2 DEF ArgumentsReported
    <3> QED BY <2>1, <3>1, <3>3
  <2>4. Delivery(z.r, client, arrived, g)
    <3>1. Taken(client, <<StubLine>>) = client
      <4>1. Took(client, StubLine) = client
        BY <1>0, TookLine DEF Parts
      <4> QED BY <4>1, TakenOne
    <3> QED BY <1>7, <2>1, <3>1
  <2>5. Whole(Taken(client, Joined(CloseBlock(z).out)), arrived)
    BY <1>0, <1>4, <1>6, <2>1, <2>2, <2>3, <2>4, JoinedKeeps
  <2> QED BY <1>2, <1>13, <1>15, <2>5
<1> QED BY <1>11, <1>14, <1>15

\* What the caller has the end of has been handed on whole.
LEMMA WholeDelivered ==
  ASSUME Mapping(Known), NEW rr, NEW c \in Clients, NEW a \in Arrivals, NEW g, Delivery(rr, c, a, g)
  PROVE  Whole(c, a)
<1> SUFFICES ASSUME NEW b \in Indices, b \in c.stopped \/ c.done
             PROVE  c.text[b] = Expanded(Known, a.text[b]) /\ c.args[b] = Restored(Known, a.args[b])
  BY DEF Whole
<1>1. HeldOf(rr, b) = <<>> /\ ~HeldArgs(rr, b) /\ Spoken(c.event, b) = <<>> /\ Handed(c.event, b) = <<>>
  <2>1. CASE b \in c.stopped
    BY <2>1 DEF Delivery, EndsDelivered, StopsOf
  <2>2. CASE c.done
    <3>1. ~Holds(rr) /\ c.event = NoEvent
      BY <2>2 DEF Delivery
    <3> QED BY <3>1, NothingSpoken DEF Holds, HeldOf, HeldArgs
  <2> QED BY <2>1, <2>2
<1>2. c.text[b] \in Text /\ c.args[b] \in Text /\ a.text[b] \in Text
  BY DEF Clients, Arrivals
<1>3. Said(c, b) = c.text[b] /\ Given(c, b) = c.args[b]
  BY <1>1, <1>2, JoinedThrice DEF Said, Given
<1>4. Fronted(a.text[b], <<>>, c.text[b], b \in g)
  BY <1>1, <1>3 DEF Delivery
<1>5. c.text[b] = Expanded(Known, a.text[b])
  BY <1>2, <1>4, FrontedWhole
<1>6. c.args[b] = Restored(Known, a.args[b])
  BY <1>1, <1>3 DEF Delivery, ArgsDelivered
<1> QED BY <1>5, <1>6

\* What the provider sends belongs to a block that may grow, or begins one.
LEMMA SentDelivers ==
  ASSUME Copying, ReportedInOrder, Streams, NEW e, SendsEvent(e),
         Delivery(r, Upcoming, arrived, Growing)
  PROVE  Delivery(r, Upcoming, arrived, Growing)'
<1>0. /\ feed = <<>> /\ UNCHANGED <<scenario, arrived, r, out, client>> /\ r \in Rehydrators
      /\ client.result = "open" /\ (Messages \/ Chat) /\ scenario \in Scenarios /\ source \in Sources
  BY ScenarioFacts DEF SendsEvent, Copying, Typed, Streams, Messages, Chat, Alive
<1>1. source.phase \in {"head", "blocks"} /\ ~Over /\ (Chat => source.open = None)
      /\ source'.phase \notin {"sentinel", "over"} /\ BlocksInOrder'
  <2>1. source.phase \in {"head", "blocks", "tail"}
    BY DEF SendsEvent, Alive
  <2>2. source'.phase \notin {"sentinel", "over"} /\ BlocksInOrder'
    BY SentIsLatest DEF Copying
  <2> QED BY <2>1, <2>2 DEF SendsEvent, Over, Copying, BlocksInOrder
<1>2. /\ Growing = (IF Chat THEN {0} ELSE {source.open} \ {None})
      /\ Growing' = (IF Chat THEN {0} ELSE {source'.open} \ {None})
  BY <1>0, <1>1 DEF Growing, Over, Chat
<1>3. ~Upcoming.done
  <2>1. Upcoming.done => Chat /\ Growing = {}
    BY <1>0 DEF ReportedInOrder, StreamReported, Delivery
  <2> QED BY <1>2, <2>1
<1>4. ASSUME NEW b \in Indices, b \in Growing' \ Growing PROVE arrived.text[b] = <<>>
  <2>1. ~Chat /\ b = source'.open /\ b # None /\ b # source.open
    BY <1>2, <1>4
  <2>2. source'.open = source.next
    BY <2>1 DEF SendsEvent
  <2>3. Len(trace.blocks) = source.next
    <3>1. Carried(feed) = {}
      BY <1>0, CarriedFacts
    <3>2. ~StartUnread
      BY <3>1 DEF StartUnread
    <3> QED BY <1>0, <1>1, <2>1, <3>2 DEF Copying, TraceInOrder, BlocksRead
  <2>4. CopiedRight(trace.blocks, arrived)
    BY DEF Copying, TraceInOrder
  <2>5. source.next \in Nat
    BY <1>0, BoundsAssumption DEF Sources, Begun
  <2>6. b >= Len(trace.blocks)
    BY <2>1, <2>2, <2>3, <2>5
  <2> QED BY <2>4, <2>6 DEF CopiedRight
<1> DEFINE more == Growing'
<1>5. \A b \in Indices : b \in more \ Growing => arrived.text[b] = <<>>
  BY <1>4
<1> HIDE DEF more, Growing
<1>6. Delivery(r, Upcoming, arrived, more)
  BY <1>0, <1>3, <1>5, GrowsNext
<1>7. Upcoming' = Upcoming
  BY <1>0 DEF Upcoming
<1> QED BY <1>0, <1>6, <1>7, DeliveryNext DEF more

\* What reading keeps of what the caller has the end of.
LEMMA WholeRead ==
  ASSUME Copying, HeardInOrder, ReportedInOrder, ReadLine, Delivery(r, Upcoming, arrived, Growing)
  PROVE  Whole(client, arrived')
<1> DEFINE line == Head(feed)
<1>0. /\ Typed /\ FeedInOrder /\ feed # <<>> /\ line.kind \notin Partial /\ Streams /\ out = <<>> /\ ~r.done
      /\ client.result = "open" /\ Mapping(Known) /\ client \in Clients /\ arrived \in Arrivals
      /\ arrived' = (IF line.kind = "data" THEN Arriving(line.event) ELSE arrived)
  BY ScenarioFacts DEF Copying, ReadLine, Typed
<1>1. Delivery(r, client, arrived, Growing)
  <2>1. Upcoming = client
    BY <1>0, TakenNone DEF Upcoming
  <2> QED BY <2>1
<1>2. Whole(client, arrived)
  BY <1>0, <1>1, WholeDelivered
<1> HIDE DEF Growing
<1>3. CASE line.kind = "data"
  <2>1. PICK e \in Events : Latest(e) /\ AtData(e)
    <3>1. line.kind \notin {"blank", "done"}
      BY <1>3
    <3>2. ~AtBlank /\ ~AtDone
      BY <3>1, LineKinds DEF AtBlank, AtDone
    <3>3. \A e \in Events : ~AtName(e) /\ ~AtId(e)
      BY <1>3, LineKinds DEF AtName, AtId
    <3> QED BY <1>0, <3>2, <3>3, ReadingAt
  <2>2. line.event = e
    BY <2>1, LineKinds DEF AtData
  <2>3. BroughtBy(arrived', e)
    BY <1>0, <1>3, <2>2, ArrivingBrings
  <2>4. ~client.done /\ (e.type \in {"text_delta", "json_delta"} => Slot(e) \notin client.stopped)
    BY <1>0, <1>1, <2>1, EventHere DEF StopsOf
  <2> DEFINE more == arrived'
  <2>5. \A b \in client.stopped : more.text[b] = arrived.text[b] /\ more.args[b] = arrived.args[b]
    <3>1. client.stopped \subseteq Indices
      BY <1>0 DEF Clients
    <3>2. BroughtBy(more, e)
      BY <2>3
    <3> HIDE DEF more
    <3> QED BY <2>4, <3>1, <3>2 DEF BroughtBy
  <2> HIDE DEF more
  <2> QED BY <1>2, <2>4, <2>5 DEF Whole, more
<1>4. CASE line.kind # "data"
  BY <1>0, <1>2, <1>4
<1> QED BY <1>3, <1>4

\* No step changes what the provider answers with.
LEMMA ScenarioStays ==
  ASSUME Typed, [Next]_vars
  PROVE  scenario' = scenario
<1>1. ASSUME NEW e, SendsEvent(e) PROVE scenario' = scenario
  BY <1>1 DEF SendsEvent
<1>2. CASE \/ SendHead \/ SendPing \/ SendTail \/ SendBlockStop
           \/ \E kind \in {"text", "tool"} : SendBlockStart(kind)
           \/ \E piece \in scenario.pieces : SendText(piece)
           \/ \E fragment \in scenario.fragments : SendFragment(fragment)
  BY <1>1, <1>2, SendIsOfEvent
<1>3. CASE \/ SendDone \/ ReadLine \/ ReadEnd \/ Deliver \/ Finish \/ HangUp \/ Buffered
           \/ UNCHANGED vars
  BY <1>3 DEF SendDone, ReadLine, ReadEnd, Deliver, Finish, HangUp, Buffered, vars
<1>4. ASSUME NEW how \in {"whole", "short", "failed"}, NEW left \in Remains, EndOfAnswer(how, left)
      PROVE  scenario' = scenario
  BY <1>4 DEF EndOfAnswer
<1> QED BY <1>2, <1>3, <1>4 DEF Next

\* Every step keeps what is handed on and what is held together all that has come.
LEMMA RestoredStep ==
  ASSUME Copying, HeardInOrder, ReportedInOrder, RestoredInOrder, [Next]_vars
  PROVE  RestoredInOrder'
<1>0. /\ r \in Rehydrators /\ client \in Clients /\ arrived \in Arrivals /\ out \in Seq(AllLines)
      /\ Mapping(Known) /\ Typed
  BY ScenarioFacts DEF Copying, Typed
<1>1. scenario' = scenario
  BY <1>0, ScenarioStays
<1> SUFFICES ASSUME Streams, Apart(Known)
             PROVE  RestoredInOrder'
  BY <1>1 DEF RestoredInOrder, Streams, Known
<1>2. /\ Whole(client, arrived) /\ (r.done => ~Holds(r))
      /\ client.result \in {"end", "error"} => out = <<>>
      /\ client.result # "hung up" =>
           IF r.joined THEN Whole(Upcoming, arrived) ELSE Delivery(r, Upcoming, arrived, Growing)
      /\ r.joined => r.done /\ (r.done => Over)
  BY DEF RestoredInOrder, HeardInOrder
<1>3. ASSUME Whole(client', arrived'), r'.done => ~Holds(r'),
             client'.result \in {"end", "error"} => out' = <<>>,
             client'.result # "hung up" =>
               IF r'.joined THEN Whole(Upcoming', arrived')
               ELSE Delivery(r, Upcoming, arrived, Growing)'
      PROVE  RestoredInOrder'
  <2>1. Whole(client, arrived)'
    BY <1>1, <1>3 DEF Whole, Known
  <2>2. (r.done => ~Holds(r))'
    BY <1>3 DEF Holds
  <2>3. (r.joined => Whole(Upcoming, arrived))' <=> (r'.joined => Whole(Upcoming', arrived'))
    BY <1>1 DEF Whole, Known
  <2> QED BY <1>3, <2>1, <2>2, <2>3 DEF RestoredInOrder
<1>4. CASE \/ SendHead \/ SendPing \/ SendTail \/ SendBlockStop
           \/ \E kind \in {"text", "tool"} : SendBlockStart(kind)
           \/ \E piece \in scenario.pieces : SendText(piece)
           \/ \E fragment \in scenario.fragments : SendFragment(fragment)
  <2>1. PICK e : SendsEvent(e)
    BY <1>0, <1>4, SendIsOfEvent
  <2>2. UNCHANGED <<arrived, r, out, client>> /\ client.result = "open" /\ ~r.joined
    BY <1>2, <2>1 DEF SendsEvent, Alive, Over
  <2>3. Delivery(r, Upcoming, arrived, Growing)'
    BY <1>2, <2>1, <2>2, SentDelivers
  <2> QED BY <1>2, <1>3, <2>2, <2>3
<1>5. ASSUME UNCHANGED <<arrived, r, out, client>>, client.result = "open", ~r.joined, Growing' = {}
      PROVE  RestoredInOrder'
  <2> DEFINE more == Growing'
  <2>1. \A b \in Indices : b \in more \ Growing => arrived.text[b] = <<>>
    BY <1>5
  <2>2. Upcoming.done => more = {}
    BY <1>5
  <2>3. Upcoming' = Upcoming
    BY <1>5 DEF Upcoming
  <2> HIDE DEF more, Growing
  <2>4. Delivery(r, Upcoming, arrived, more)
    BY <1>0, <1>2, <1>5, <2>1, <2>2, GrowsNext
  <2>5. Delivery(r, Upcoming, arrived, Growing)'
    BY <1>1, <1>5, <2>3, <2>4, DeliveryNext DEF more
  <2> QED BY <1>2, <1>3, <1>5, <2>5
<1>6. CASE SendDone
  <2>1. /\ UNCHANGED <<arrived, r, out, client>> /\ client.result = "open" /\ Chat /\ ~r.joined
        /\ source' = [source EXCEPT !.phase = "sentinel"]
    BY <1>2, <1>6 DEF SendDone, Alive, Chat, Over
  <2>2. source'.phase = "sentinel" /\ Chat'
    BY <1>0, <1>1, <2>1 DEF Typed, Sources, Chat
  <2>3. Growing' = {}
    BY <2>2 DEF Growing
  <2> QED BY <1>5, <2>1, <2>3
<1>7. ASSUME NEW how \in {"whole", "short", "failed"}, NEW left \in Remains, EndOfAnswer(how, left)
      PROVE  RestoredInOrder'
  <2>1. /\ UNCHANGED <<arrived, r, out, client>> /\ client.result = "open" /\ ~r.joined
        /\ source' = [source EXCEPT !.phase = "over", !.kind = how]
    BY <1>2, <1>7 DEF EndOfAnswer, Alive, Over
  <2>2. Over'
    BY <1>0, <2>1 DEF Typed, Sources, Over
  <2>3. Growing' = {}
    BY <2>2 DEF Growing
  <2> QED BY <1>5, <2>1, <2>3
<1>8. CASE ReadLine
  <2>1. client.result = "open" /\ ~r.done /\ ~r.joined /\ client' = client
    BY <1>2, <1>8 DEF ReadLine
  <2>2. Delivery(r, Upcoming, arrived, Growing)' /\ Whole(client, arrived')
    BY <1>2, <1>8, <2>1, LineDelivers, WholeRead
  <2>3. ~r'.done /\ ~r'.joined
    <3>1. Over' => Over
      BY <1>8 DEF ReadLine, Over
    <3>2. ~Over
      BY <1>8, ReadingAt DEF ReadLine, Copying
    <3>3. HeardInOrder' /\ Streams'
      BY <1>1, <1>8, ReadIsHeard DEF Streams
    <3> QED BY <3>1, <3>2, <3>3 DEF HeardInOrder
  <2> QED BY <1>3, <2>1, <2>2, <2>3
<1>9. CASE ReadEnd
  <2>1. client.result = "open" /\ ~r.joined /\ UNCHANGED <<client, arrived>>
    BY <1>2, <1>9 DEF ReadEnd
  <2>2. /\ ~Holds(r')
        /\ IF r'.joined THEN Whole(Upcoming', arrived')
           ELSE Delivery(r, Upcoming, arrived, Growing)'
    BY <1>2, <1>9, <2>1, EndDelivers
  <2> QED BY <1>2, <1>3, <2>1, <2>2
<1>10. CASE Deliver
  <2>1. /\ client.result = "open" /\ client' = Upcoming /\ out' = <<>>
        /\ UNCHANGED <<source, arrived, r>>
    BY <1>10 DEF Deliver, Upcoming
  <2>2. Upcoming \in Clients /\ Upcoming.result = "open"
    BY <1>0, <2>1, TakenTypes, TakenResult DEF Upcoming
  <2>3. Upcoming' = Upcoming
    <3>1. Upcoming' = Taken(client', <<>>)
      BY <2>1 DEF Upcoming
    <3> QED BY <2>1, <3>1, TakenNone
  <2>4. Growing' = Growing
    BY <1>1, <2>1 DEF Growing, Over, Chat
  <2> HIDE DEF Growing
  <2>5. ~r'.joined => Delivery(r, Upcoming, arrived, Growing)'
    BY <1>1, <1>2, <2>1, <2>3, <2>4, DeliveryNext
  <2>6. Whole(Upcoming, arrived)
    BY <1>0, <1>2, <2>1, <2>2, WholeDelivered
  <2> QED BY <1>2, <1>3, <2>1, <2>3, <2>5, <2>6
<1>11. ASSUME UNCHANGED <<source, arrived, out>>, r' = ReportUsage(r), client.result = "open",
              NEW end \in {"end", "error", "hung up"}, client' = [client EXCEPT !.result = end],
              end # "hung up" => out = <<>>
       PROVE  RestoredInOrder'
  <2>1. SameHolding(r', r) /\ r'.done = r.done /\ r'.joined = r.joined
    <3>1. SameReading(r', r) /\ SameTemplate(r', r) /\ SameHeld(r', r) /\ SameTelling(r', r)
      BY <1>0, <1>11, ReportUsageFields
    <3> QED BY <3>1 DEF SameHolding, SameReading, SameTemplate, SameHeld, SameTelling
  <2>2. SameHearing(client', client) /\ client'.result = end
    BY <1>0, <1>11 DEF Clients, SameHearing
  <2>3. Growing' = Growing
    BY <1>1, <1>11 DEF Growing, Over, Chat
  <2>4. Whole(client', arrived') /\ (r'.done => ~Holds(r'))
    BY <1>2, <1>11, <2>1, <2>2 DEF Whole, Holds, SameHolding, SameHearing
  <2> HIDE DEF Growing
  <2>5. ASSUME end # "hung up", ~r.joined PROVE Delivery(r, Upcoming, arrived, Growing)'
    <3>1. Upcoming = client /\ Upcoming' = client'
      BY <1>11, <2>5, TakenNone DEF Upcoming
    <3>2. Delivery(r', client', arrived, Growing)
      <4>1. Delivery(r, client, arrived, Growing)
        BY <1>2, <1>11, <2>5, <3>1
      <4> DEFINE p == r'
                 d == client'
      <4>2. SameHolding(p, r) /\ SameHearing(d, client)
        BY <2>1, <2>2
      <4> HIDE DEF p, d
      <4>3. Delivery(p, d, arrived, Growing)
        BY <4>1, <4>2, DeliverySame
      <4> QED BY <4>3 DEF p, d
    <3>3. Delivery(r', Upcoming', arrived', Growing')
      BY <1>11, <2>3, <3>1, <3>2
    <3> QED BY <1>1, <3>3, DeliveryNext
  <2>6. ASSUME end # "hung up", r.joined PROVE Whole(Upcoming', arrived')
    <3>1. Upcoming' = client'
      BY <1>11, <2>6, TakenNone DEF Upcoming
    <3> QED BY <2>4, <3>1
  <2> QED BY <1>3, <1>11, <2>1, <2>2, <2>4, <2>5, <2>6
<1>12. CASE Finish
  <2> DEFINE end == IF r.readErr THEN "error" ELSE "end"
  <2>1. /\ out = <<>> /\ UNCHANGED <<source, arrived, out>> /\ r' = ReportUsage(r)
        /\ client.result = "open" /\ client' = [client EXCEPT !.result = end]
    BY <1>12 DEF Finish
  <2>2. end \in {"end", "error", "hung up"}
    OBVIOUS
  <2> HIDE DEF end
  <2> QED BY <1>11, <2>1, <2>2
<1>13. CASE HangUp
  <2> DEFINE end == "hung up"
  <2>1. /\ UNCHANGED <<source, arrived, out>> /\ r' = ReportUsage(r)
        /\ client.result = "open" /\ client' = [client EXCEPT !.result = end]
    BY <1>13 DEF HangUp
  <2>2. end \in {"end", "error", "hung up"} /\ (end # "hung up" => out = <<>>)
    OBVIOUS
  <2> HIDE DEF end
  <2> QED BY <1>11, <2>1, <2>2
<1>14. CASE Buffered
  BY <1>14 DEF Buffered
<1>15. CASE UNCHANGED vars
  <2>1. UNCHANGED <<source, arrived, r, out, client>>
    BY <1>15 DEF vars
  <2>2. Upcoming' = Upcoming /\ Growing' = Growing
    BY <1>1, <2>1 DEF Upcoming, Growing, Over, Chat
  <2> HIDE DEF Growing
  <2>3. client.result # "hung up" /\ ~r.joined => Delivery(r, Upcoming, arrived, Growing)'
    BY <1>1, <1>2, <2>1, <2>2, DeliveryNext
  <2> QED BY <1>2, <1>3, <2>1, <2>2, <2>3
<1> QED BY <1>4, <1>6, <1>7, <1>8, <1>9, <1>10, <1>12, <1>13, <1>14, <1>15 DEF Next

-----------------------------------------------------------------------------
(* A buffered answer, and the theorems. *)

\* What a call's arguments are restored to holds nothing more to restore: a document is
\* expanded once for the report of its calls and once more with the whole answer.
Settled ==
  \A b \in Indices :
    Restored(Known, Restored(Known, arrived.args[b])) = Restored(Known, arrived.args[b])

\* Of a buffered answer the caller has every text, expanded, and every call's arguments,
\* expanded for the report and then again.
DocumentRestored ==
  ~Streams =>
    /\ \A b \in Indices : b \notin arrived.tools => arrived.args[b] = <<>>
    /\ client.result = "end" => \A b \in Indices :
         /\ client.text[b] = Expanded(Known, arrived.text[b])
         /\ client.args[b] = Restored(Known, Restored(Known, arrived.args[b]))

\* The buffered half holds in every state.
LEMMA DocumentStep ==
  ASSUME Copying, HeardInOrder, ReportedInOrder, DocumentRestored, [Next]_vars
  PROVE  DocumentRestored'
<1>0. client \in Clients /\ arrived \in Arrivals /\ Typed
  BY DEF Copying, Typed
<1>1. scenario' = scenario
  BY ScenarioStays DEF Copying, Typed
<1> SUFFICES ASSUME ~Streams
             PROVE  DocumentRestored'
  BY <1>1 DEF DocumentRestored, Streams
<1>2. /\ \A b \in Indices : b \notin arrived.tools => arrived.args[b] = <<>>
      /\ client.result = "end" => \A b \in Indices :
           /\ client.text[b] = Expanded(Known, arrived.text[b])
           /\ client.args[b] = Restored(Known, Restored(Known, arrived.args[b]))
  BY DEF DocumentRestored
<1>3. out = <<>> /\ Known' = Known
  BY <1>1 DEF HeardInOrder, Known
<1>4. CASE \/ SendHead \/ SendPing \/ SendTail \/ SendBlockStop
           \/ \E kind \in {"text", "tool"} : SendBlockStart(kind)
           \/ \E piece \in scenario.pieces : SendText(piece)
           \/ \E fragment \in scenario.fragments : SendFragment(fragment)
  <2>1. PICK e : SendsEvent(e)
    BY <1>0, <1>4, SendIsOfEvent
  <2>2. e \in Events /\ arrived' = Arriving(e) /\ client' = client /\ client.result = "open"
    BY <2>1 DEF SendsEvent, Alive
  <2>3. BroughtBy(arrived', e)
    BY <1>0, <2>2, ArrivingBrings
  <2> DEFINE more == arrived'
  <2>4. \A b \in Indices : b \notin more.tools => more.args[b] = <<>>
    <3>1. BroughtBy(more, e)
      BY <2>3
    <3> HIDE DEF more
    <3> QED BY <1>2, <3>1 DEF BroughtBy
  <2>5. client'.result # "end"
    BY <2>2
  <2> QED BY <2>4, <2>5 DEF DocumentRestored
<1>5. CASE UNCHANGED <<arrived, client>>
  BY <1>2, <1>3, <1>5 DEF DocumentRestored
<1>6. CASE \/ SendDone \/ UNCHANGED vars
           \/ \E how \in {"whole", "short", "failed"}, left \in Remains : EndOfAnswer(how, left)
  BY <1>5, <1>6 DEF SendDone, EndOfAnswer, vars
<1>7. CASE ReadLine \/ ReadEnd \/ Deliver \/ Finish \/ HangUp
  BY <1>3, <1>7 DEF ReadLine, ReadEnd, Deliver, Finish, HangUp
<1>8. CASE Buffered
  <2> DEFINE inPlace == [b \in Indices |-> IF b \in arrived.tools
                                           THEN Restored(Known, arrived.args[b]) ELSE <<>>]
             texts == [b \in Indices |-> Expanded(Known, arrived.text[b])]
             calls == [b \in Indices |-> Restored(Known, inPlace[b])]
  <2>1. arrived' = arrived
    BY <1>8 DEF Buffered
  <2>2. CASE source.kind # "whole"
    <3>1. client'.result = "error"
      BY <1>0, <1>8, <2>2 DEF Buffered, Clients
    <3> QED BY <1>2, <2>1, <3>1 DEF DocumentRestored
  <2>3. CASE source.kind = "whole"
    <3>1. client' = [client EXCEPT !.result = "end", !.text = texts, !.args = calls]
      BY <1>8, <2>3 DEF Buffered
    <3>2. \A b \in Indices : inPlace[b] = Restored(Known, arrived.args[b])
      <4>1. Restored(Known, <<>>) = <<>>
        BY <1>0, ScenarioFacts, RestoredAtNothing DEF Typed
      <4> QED BY <1>2, <4>1
    <3>3. /\ \A b \in Indices : texts[b] = Expanded(Known, arrived.text[b])
          /\ \A b \in Indices : calls[b] = Restored(Known, Restored(Known, arrived.args[b]))
      BY <3>2
    <3> HIDE DEF inPlace, texts, calls
    <3>4. client'.text = texts /\ client'.args = calls
      BY <1>0, <3>1 DEF Clients
    <3> QED BY <1>2, <1>3, <2>1, <3>3, <3>4 DEF DocumentRestored
  <2> QED BY <2>2, <2>3
<1> QED BY <1>4, <1>6, <1>7, <1>8 DEF Next

\* Both halves hold in every state.
LEMMA RestoringAlways == Spec => [](RestoredInOrder /\ DocumentRestored)
<1>1. Init => RestoredInOrder /\ DocumentRestored
  <2> SUFFICES ASSUME Init PROVE RestoredInOrder /\ DocumentRestored
    OBVIOUS
  <2>1. /\ client.event = NoEvent /\ client.text = Nothing /\ client.args = Nothing /\ client.stopped = {}
        /\ ~client.done /\ client.result = "open" /\ out = <<>> /\ ~r.done
        /\ arrived.text = Nothing /\ arrived.args = Nothing /\ scenario \in Scenarios /\ ~r.joined
    BY DEF Init, NewRehydrator
  <2>2. r.pending = <<>> /\ r.argumentsIn = NoEvent
    BY DEF Init, NewRehydrator
  <2>3. DocumentRestored
    BY <2>1 DEF DocumentRestored, Nothing
  <2>4. Mapping(Known) /\ ~Holds(r) /\ Upcoming = client
    BY <2>1, <2>2, ScenarioFacts, TakenNone DEF Holds, Upcoming
  <2>5. Expanded(Known, <<>>) = <<>> /\ Restored(Known, <<>>) = <<>> /\ <<>> \in Text
        /\ <<>> \o <<>> = <<>>
    BY <2>4, ExpandedAtNothing, RestoredAtNothing, TextFacts, NothingBefore
  <2>6. ASSUME NEW b \in Indices
        PROVE  Said(client, b) = <<>> /\ Given(client, b) = <<>> /\ HeldOf(r, b) = <<>> /\ ~HeldArgs(r, b)
               /\ arrived.text[b] = <<>> /\ arrived.args[b] = <<>>
    <3>1. Spoken(client.event, b) = <<>> /\ Handed(client.event, b) = <<>>
      BY <2>1, NothingSpoken
    <3>2. client.text[b] = <<>> /\ client.args[b] = <<>> /\ arrived.text[b] = <<>> /\ arrived.args[b] = <<>>
      BY <2>1 DEF Nothing
    <3> QED BY <2>2, <2>5, <3>1, <3>2 DEF Said, Given, HeldOf, HeldArgs
  <2>7. StopsOf(client) = {}
    BY <2>1 DEF StopsOf, NoEvent, Event
  <2>8. ASSUME NEW grows PROVE Fronted(<<>>, <<>>, <<>>, grows)
    <3>1. Fronted(<<>>, <<>>, <<>>, FALSE)
      BY <2>4, <2>5, FrontedWhole
    <3> QED BY <2>5, <3>1, FrontedNothing
  <2> HIDE DEF Growing
  <2>9. Delivery(r, client, arrived, Growing)
    <3>1. \A b \in Indices : Fronted(arrived.text[b], HeldOf(r, b), Said(client, b), b \in Growing)
      BY <2>6, <2>8
    <3>2. \A b \in Indices : ArgsDelivered(r, client, arrived, b)
      BY <2>5, <2>6 DEF ArgsDelivered
    <3> QED BY <2>1, <2>2, <2>4, <2>7, <3>1, <3>2 DEF Delivery, HeldInPlace, EndsDelivered
  <2>10. Whole(client, arrived)
    BY <2>1 DEF Whole
  <2> QED BY <2>1, <2>3, <2>4, <2>9, <2>10 DEF RestoredInOrder
<1>2. Copying /\ HeardInOrder /\ ReportedInOrder /\ (RestoredInOrder /\ DocumentRestored) /\ [Next]_vars
        => (RestoredInOrder /\ DocumentRestored)'
  BY RestoredStep, DocumentStep
<1> QED BY <1>1, <1>2, CopyingAlways, HearingAlways, ReportingAlways, PTL DEF Spec

\* A streamed answer cut anywhere into events: what the caller has of a block, and the tail
\* the agent holds back for it, are together the expansion of all the text the block has
\* had.  No cut loses, doubles or moves a character, or restores less than the buffered
\* expansion would (streamRehydrator.rewrite and Expander.TailLen), for every mapping
\* that keeps its replacements apart, as every mapping of token mode does.  Left out is a
\* block without a stop in an answer that broke inside a line without data, which was handed
\* on unfinished, while something was held: flush then writes on that line (Garbled).
THEOREM NothingIsLostInACut == Spec => [](Apart(Known) => HeldOrDelivered)
<1>1. Copying /\ HeardInOrder /\ RestoredInOrder => (Apart(Known) => HeldOrDelivered)
  <2> SUFFICES ASSUME Copying, HeardInOrder, RestoredInOrder, Apart(Known), Streams, out = <<>>,
                      client.event = NoEvent, client.result # "hung up", NEW b \in Indices, ~Garbled(b)
               PROVE  client.text[b] \o Expanded(Known, HeldOf(r, b)) = Expanded(Known, arrived.text[b])
    BY DEF HeldOrDelivered, HeldOf
  <2>1. r \in Rehydrators /\ client \in Clients /\ arrived \in Arrivals /\ Mapping(Known)
    BY ScenarioFacts DEF Copying, Typed
  <2>2. CASE r.joined
    <3>1. HeldOf(r, b) = <<>>
      BY <2>2 DEF HeardInOrder, RestoredInOrder, Holds, HeldOf
    <3>2. client.text[b] = Expanded(Known, arrived.text[b])
      BY <2>2 DEF Garbled, RestoredInOrder, Whole
    <3>3. Expanded(Known, <<>>) = <<>> /\ client.text[b] \in Text /\ client.text[b] \o <<>> = client.text[b]
      BY <2>1, ExpandedAtNothing, JoinedThrice, TextFacts DEF Clients
    <3> QED BY <3>1, <3>2, <3>3
  <2>3. CASE ~r.joined
    <3>1. Delivery(r, client, arrived, Growing)
      <4>1. Upcoming = client
        BY TakenNone DEF Upcoming
      <4> QED BY <2>3, <4>1 DEF RestoredInOrder
    <3>2. Said(client, b) = client.text[b]
      <4>1. client.text[b] \in Text /\ Spoken(client.event, b) = <<>>
        BY <2>1, NothingSpoken DEF Clients
      <4> QED BY <4>1, JoinedThrice DEF Said
    <3>3. Fronted(arrived.text[b], HeldOf(r, b), client.text[b], b \in Growing)
      BY <3>1, <3>2 DEF Delivery
    <3>4. arrived.text[b] \in Text /\ HeldOf(r, b) \in Text
      BY <2>1, TextFacts DEF Arrivals, Rehydrators, HeldOf
    <3> QED BY <2>1, <3>3, <3>4, FrontedOut
  <2> QED BY <2>2, <2>3
<1> QED BY <1>1, CopyingAlways, HearingAlways, RestoringAlways, PTL

\* At a block's stop, at the sentinel of a chat and at the end of an answer, be that a
\* failure, nothing is left behind: the caller has the whole text and the whole arguments
\* of the block, each restored as one (streamRehydrator.closeBlock and flush, and
\* Server.unmask for a buffered answer).  Again but for a block without a stop whose held
\* part flush wrote on a line the connection had cut short (Garbled).
THEOREM AnswersAreRestored ==
  Spec => []((IF Streams THEN Apart(Known) ELSE Settled) => RestoredWhole)
<1>1. Copying /\ ReportedInOrder /\ RestoredInOrder /\ DocumentRestored
        => ((IF Streams THEN Apart(Known) ELSE Settled) => RestoredWhole)
  <2> SUFFICES ASSUME Copying, ReportedInOrder, RestoredInOrder, DocumentRestored,
                      IF Streams THEN Apart(Known) ELSE Settled, NEW b \in Indices, Complete(b), ~Garbled(b)
               PROVE  /\ client.text[b] = Expanded(Known, arrived.text[b])
                      /\ client.args[b] = Restored(Known, arrived.args[b])
    BY DEF RestoredWhole
  <2>1. r \in Rehydrators /\ client \in Clients /\ arrived \in Arrivals /\ Mapping(Known)
    BY ScenarioFacts DEF Copying, Typed
  <2>2. CASE ~Streams
    <3>1. client.stopped = {} /\ ~client.done
      BY <2>2 DEF ReportedInOrder, DocumentReported
    <3>2. client.result = "end"
      BY <2>2, <3>1 DEF Complete
    <3> QED BY <2>2, <3>2 DEF DocumentRestored, Settled
  <2>3. CASE Streams /\ (b \in client.stopped \/ client.done)
    BY <2>3 DEF RestoredInOrder, Whole
  <2>4. CASE /\ Streams /\ client.result \in {"end", "error"} /\ client.event = NoEvent
             /\ b \notin client.stopped /\ ~client.done
    <3>1. r.done /\ ~Holds(r) /\ out = <<>>
      BY <2>4 DEF ReportedInOrder, StreamReported, RestoredInOrder
    <3>2. Upcoming = client
      BY <3>1, TakenNone DEF Upcoming
    <3>3. Delivery(r, client, arrived, Growing)
      BY <2>4, <3>2 DEF RestoredInOrder, Garbled
    <3>4. client.text[b] \in Text /\ client.args[b] \in Text /\ arrived.text[b] \in Text
      BY <2>1 DEF Clients, Arrivals
    <3>5. Said(client, b) = client.text[b] /\ Given(client, b) = client.args[b]
      <4>1. Spoken(client.event, b) = <<>> /\ Handed(client.event, b) = <<>>
        BY <2>4, NothingSpoken
      <4>2. client.text[b] \o <<>> = client.text[b] /\ client.args[b] \o <<>> = client.args[b]
        BY <3>4, JoinedThrice, TextFacts
      <4> QED BY <4>1, <4>2 DEF Said, Given
    <3>6. HeldOf(r, b) = <<>> /\ ~HeldArgs(r, b)
      BY <3>1 DEF Holds, HeldOf, HeldArgs
    <3>7. Fronted(arrived.text[b], <<>>, client.text[b], b \in Growing)
      BY <3>3, <3>5, <3>6 DEF Delivery
    <3>8. client.text[b] = Expanded(Known, arrived.text[b])
      BY <2>1, <3>4, <3>7, FrontedWhole
    <3>9. client.args[b] = Restored(Known, arrived.args[b])
      BY <3>3, <3>5, <3>6 DEF Delivery, ArgsDelivered
    <3> QED BY <3>8, <3>9
  <2> QED BY <2>2, <2>3, <2>4 DEF Complete
<1> QED BY <1>1, CopyingAlways, ReportingAlways, RestoringAlways, PTL
=============================================================================
