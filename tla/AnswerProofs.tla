---------------------------- MODULE AnswerProofs ----------------------------
(***************************************************************************)
(* Theorems about Answer for every mapping, alphabet and number of blocks: *)
(* every variable keeps its type; the trace has the answer as it arrived;  *)
(* the caller acts on whole events, each under its own name; and the       *)
(* operator hears of the cost once, and of every tool call once and        *)
(* rightly, before the caller has it.                                      *)
(*                                                                         *)
(* The argument: the provider's blocks open one after the other and an     *)
(* event is not sent before the one before it has been read, so what the   *)
(* agent reads next says which block is open, what the caller is in the    *)
(* middle of and which tool an event is of.  A line that is read leaves    *)
(* the buffer with whole events only, or with an event's data and its rest *)
(* still to be read; the caller, seen as what it will be once the buffer   *)
(* is delivered, is therefore always between two events or within the one  *)
(* that is being read.  What the agent holds of a call is its arguments as *)
(* they arrived, and the block's end finds them held exactly when the      *)
(* operator has not been told of them.                                     *)
(*                                                                         *)
(* The invariant is built in three layers, each proved with those before   *)
(* it: Copying (the types, the provider, the lines that wait and the copy  *)
(* for the trace), HeardInOrder (the caller) and ReportedInOrder (the      *)
(* operator).                                                              *)
(***************************************************************************)
EXTENDS Answer, FiniteSetTheorems, WellFoundedInduction, TLAPS

-----------------------------------------------------------------------------
(* Induction.  The library's theorems of it take an operator as a parameter,   *)
(* which no prover here can instantiate; a set of numbers that has no least    *)
(* number outside it does as well, and that < well-founds the numbers is a     *)
(* fact that can be cited.                                                     *)

\* A set of numbers with 0 in it, and with each its successor, is all of them.
LEMMA Induction ==
  ASSUME NEW T \in SUBSET Nat, 0 \in T, \A n \in Nat : n \in T => n + 1 \in T
  PROVE  T = Nat
<1> SUFFICES ASSUME Nat \ T # {} PROVE FALSE
  OBVIOUS
<1>1. PICK n \in Nat \ T : \A m \in Nat \ T : ~(<<m, n>> \in OpToRel(<, Nat))
  BY NatLessThanWellFounded, WFMin
<1>2. \A m \in Nat \ T : ~(m < n)
  BY <1>1 DEF OpToRel
<1>3. n # 0 /\ n - 1 \in Nat /\ n - 1 < n
  OBVIOUS
<1> QED BY <1>2, <1>3

-----------------------------------------------------------------------------
(* Expansion. *)

\* The greatest of some numbers that are bounded is one of them.
LEMMA GreatestIsOne ==
  ASSUME NEW S \in SUBSET Nat, NEW n \in Nat, S # {}, \A k \in S : k <= n
  PROVE  Greatest(S) \in S /\ \A k \in S : k <= Greatest(S)
<1> DEFINE U == {m \in Nat : \A k \in S : k <= m}
<1>1. U \in SUBSET Nat /\ n \in U
  OBVIOUS
<1>2. PICK u \in U : \A m \in U : ~(<<m, u>> \in OpToRel(<, Nat))
  BY <1>1, NatLessThanWellFounded, WFMin
<1>3. \A m \in U : ~(m < u)
  BY <1>1, <1>2 DEF OpToRel
<1>4. u \in S
  <2> SUFFICES ASSUME u \notin S PROVE FALSE
    OBVIOUS
  <2>1. PICK k \in S : TRUE
    OBVIOUS
  <2>2. \A j \in S : j < u
    OBVIOUS
  <2>3. u - 1 \in U /\ u - 1 < u
    BY <2>1, <2>2
  <2> QED BY <1>3, <2>3
<1>5. \A k \in S : k <= u
  OBVIOUS
<1> QED BY <1>4, <1>5 DEF Greatest

\* A mapping of replacements to originals.
Mapping(known) == DOMAIN known \subseteq Text \ {<<>>} /\ \A m \in DOMAIN known : known[m] \in Text

\* What stands at a place of a text is found, if anything does.
LEMMA MatchFound ==
  ASSUME NEW known, Mapping(known), NEW text \in Text, NEW i \in 1..Len(text)
  PROVE  \/ MatchAt(known, text, i) = <<>>
         \/ /\ MatchAt(known, text, i) \in DOMAIN known
            /\ BeginsAt(text, i, MatchAt(known, text, i))
<1> DEFINE here == {m \in DOMAIN known : BeginsAt(text, i, m)}
           best == {m \in here : ~IsToken(m)}
           sizes == {Len(m) : m \in best}
<1>1. \A m \in here : Len(m) \in Nat /\ Len(m) <= Len(text)
  BY DEF Mapping, BeginsAt, Text
<1>2. CASE here = {}
  BY <1>2 DEF MatchAt, Preferred
<1>3. CASE here # {} /\ best = {}
  <2>1. \E m \in here : \A o \in here : /\ IsToken(m) => IsToken(o)
                                        /\ ~IsToken(m) /\ ~IsToken(o) => Len(o) <= Len(m)
    BY <1>3
  <2> QED BY <1>3, <2>1 DEF MatchAt, Preferred
<1>4. CASE best # {}
  <2>1. sizes \in SUBSET Nat /\ sizes # {} /\ \A k \in sizes : k <= Len(text)
    BY <1>1, <1>4
  <2>2. Len(text) \in Nat
    BY DEF Text
  <2> HIDE DEF sizes
  <2>3. Greatest(sizes) \in sizes /\ \A k \in sizes : k <= Greatest(sizes)
    BY <2>1, <2>2, GreatestIsOne
  <2>4. PICK m \in best : Len(m) = Greatest(sizes)
    BY <2>3 DEF sizes
  <2>5. \A o \in best : Len(o) <= Len(m)
    BY <2>3, <2>4 DEF sizes
  <2>6. \E p \in here : \A o \in here : /\ IsToken(p) => IsToken(o)
                                        /\ ~IsToken(p) /\ ~IsToken(o) => Len(o) <= Len(p)
    BY <2>4, <2>5
  <2> QED BY <1>4, <2>6 DEF MatchAt, Preferred
<1> QED BY <1>2, <1>3, <1>4

\* What the walk writes at a place, and where it goes on.
Bit(known, text, i) ==
  IF MatchAt(known, text, i) = <<>> THEN <<text[i]>> ELSE known[MatchAt(known, text, i)]

Jump(known, text, i) ==
  IF MatchAt(known, text, i) = <<>> THEN i + 1 ELSE i + Len(MatchAt(known, text, i))

\* The walk goes on by what it finds, and not past the end.
LEMMA WalkGoesOn ==
  ASSUME NEW known, Mapping(known), NEW text \in Text, NEW i \in 1..Len(text)
  PROVE  Bit(known, text, i) \in Text /\ Jump(known, text, i) \in i + 1..Len(text) + 1
<1>1. CASE MatchAt(known, text, i) = <<>>
  <2>1. text[i] \in Chars /\ Len(text) \in Nat
    BY DEF Text
  <2> QED BY <1>1, <2>1 DEF Bit, Jump, Text
<1>2. CASE MatchAt(known, text, i) # <<>>
  <2> DEFINE m == MatchAt(known, text, i)
  <2>1. m \in DOMAIN known /\ BeginsAt(text, i, m)
    BY <1>2, MatchFound
  <2>2. Len(m) \in Nat /\ Len(m) # 0 /\ i + Len(m) - 1 <= Len(text) /\ Len(text) \in Nat
    <3> HIDE DEF m
    <3>1. m \in Text /\ m # <<>> /\ i + Len(m) - 1 <= Len(text)
      BY <2>1 DEF Mapping, BeginsAt
    <3> QED BY <3>1 DEF Text
  <2>3. known[m] \in Text
    BY <2>1 DEF Mapping
  <2> HIDE DEF m
  <2> QED BY <1>2, <2>2, <2>3 DEF Bit, Jump, m
<1> QED BY <1>1, <1>2

\* g is the function that Expanded is defined by, from a place on.
WalksFrom(known, text, g, p) ==
  g = [i \in p..Len(text) + 1 |->
         IF i > Len(text) THEN <<>> ELSE Bit(known, text, i) \o g[Jump(known, text, i)]]

\* A walk of a text exists, built from its end.
LEMMA WalkExists ==
  ASSUME NEW known, Mapping(known), NEW text \in Text
  PROVE  \E g : WalksFrom(known, text, g, 1)
<1> DEFINE n == Len(text)
           M == {k \in Nat : k <= n => \E g : WalksFrom(known, text, g, n + 1 - k)}
<1>0. n \in Nat
  BY DEF Text
<1>1. 0 \in M
  <2> DEFINE g == [i \in n + 1..n + 1 |-> <<>>]
  <2>0. n + 1 - 0 = n + 1
    BY <1>0
  <2>1. [i \in n + 1..n + 1 |-> <<>>]
         = [i \in n + 1..n + 1 |-> IF i > n THEN <<>>
                                  ELSE Bit(known, text, i) \o g[Jump(known, text, i)]]
    <3> HIDE DEF g
    <3>1. \A i \in n + 1..n + 1 : i > n
      BY <1>0
    <3> QED BY <3>1
  <2>2. WalksFrom(known, text, g, n + 1 - 0)
    BY <2>0, <2>1, Zenon DEF WalksFrom
  <2> QED BY <2>2
<1>2. ASSUME NEW k \in Nat, k \in M PROVE k + 1 \in M
  <2> SUFFICES ASSUME k + 1 <= n PROVE \E g : WalksFrom(known, text, g, n + 1 - (k + 1))
    OBVIOUS
  <2>1. PICK g : WalksFrom(known, text, g, n + 1 - k)
    BY <1>0, <1>2
  <2> DEFINE p == n - k
             h == [i \in p..n + 1 |-> IF i = p THEN Bit(known, text, p) \o g[Jump(known, text, p)]
                                      ELSE g[i]]
  <2>2. p \in 1..n
    BY <1>0
  <2>3. \A i \in p..n : Jump(known, text, i) \in i + 1..n + 1
    BY <1>0, <2>2, WalkGoesOn
  <2>4. \A i \in p + 1..n + 1 : g[i] = IF i > n THEN <<>>
                                   ELSE Bit(known, text, i) \o g[Jump(known, text, i)]
    <3>1. n + 1 - k = p + 1
      BY <1>0
    <3>2. g = [i \in p + 1..n + 1 |-> IF i > n THEN <<>>
                                   ELSE Bit(known, text, i) \o g[Jump(known, text, i)]]
      BY <2>1, <3>1, Zenon DEF WalksFrom
    <3> HIDE DEF p, n
    <3> TAKE j \in p + 1..n + 1
    <3> QED BY <3>2, Zenon
  <2>5. \A i \in p + 1..n + 1 : h[i] = g[i]
    BY <1>0, <2>2
  <2>6. h[p] = Bit(known, text, p) \o g[Jump(known, text, p)]
    <3>1. p \in p..n + 1
      BY <1>0, <2>2
    <3> HIDE DEF p, n
    <3> QED BY <3>1, Zenon
  <2> HIDE DEF p
  <2>7. \A i \in p..n + 1 : h[i] = IF i > n THEN <<>>
                               ELSE Bit(known, text, i) \o h[Jump(known, text, i)]
    <3> HIDE DEF h, n
    <3> TAKE i \in p..n + 1
    <3>1. CASE i = p
      <4>1. h[Jump(known, text, p)] = g[Jump(known, text, p)]
        BY <1>0, <2>2, <2>3, <2>5
      <4>2. ~(i > n)
        BY <1>0, <2>2, <3>1
      <4> QED BY <2>6, <3>1, <4>1, <4>2, Zenon
    <3>2. CASE i # p /\ i > n
      BY <1>0, <2>2, <2>4, <2>5, <3>2
    <3>3. CASE i # p /\ i <= n
      <4>1. i \in p + 1..n /\ i \in p + 1..n + 1
        BY <1>0, <2>2, <3>3
      <4>2. Jump(known, text, i) \in p + 1..n + 1
        BY <1>0, <2>2, <2>3, <4>1
      <4>3. h[i] = g[i] /\ h[Jump(known, text, i)] = g[Jump(known, text, i)]
        BY <2>5, <4>1, <4>2
      <4> QED BY <2>4, <3>3, <4>1, <4>3
    <3> QED BY <1>0, <2>2, <3>1, <3>2, <3>3
  <2>8. h = [i \in p..n + 1 |-> h[i]]
    OBVIOUS
  <2>9. p = n + 1 - (k + 1)
    BY <1>0 DEF p
  <2>10. WalksFrom(known, text, h, n + 1 - (k + 1))
    <3> HIDE DEF h
    <3> QED BY <2>7, <2>8, <2>9 DEF WalksFrom
  <2> QED BY <2>10
<1> HIDE DEF M
<1>3. M = Nat
  BY <1>1, <1>2, Induction DEF M
<1>4. n \in M
  BY <1>0, <1>3
<1> QED BY <1>0, <1>4 DEF M

\* So Expanded, which chooses one, has chosen one.
LEMMA ExpandedUnfolds ==
  ASSUME NEW known, Mapping(known), NEW text \in Text
  PROVE  \E g : WalksFrom(known, text, g, 1) /\ Expanded(known, text) = g[1]
<1> DEFINE walk == CHOOSE walk : walk = [i \in 1..(Len(text) + 1) |->
                     IF i > Len(text) THEN <<>>
                     ELSE IF MatchAt(known, text, i) = <<>> THEN <<text[i]>> \o walk[i + 1]
                     ELSE known[MatchAt(known, text, i)] \o walk[i + Len(MatchAt(known, text, i))]]
<1>1. Expanded(known, text) = walk[1]
  BY DEF Expanded
<1>2. \A g : WalksFrom(known, text, g, 1) <=>
             g = [i \in 1..(Len(text) + 1) |->
                     IF i > Len(text) THEN <<>>
                     ELSE IF MatchAt(known, text, i) = <<>> THEN <<text[i]>> \o g[i + 1]
                     ELSE known[MatchAt(known, text, i)] \o g[i + Len(MatchAt(known, text, i))]]
  <2> TAKE g
  <2>1. \A i : (IF i > Len(text) THEN <<>> ELSE Bit(known, text, i) \o g[Jump(known, text, i)])
               = (IF i > Len(text) THEN <<>>
                  ELSE IF MatchAt(known, text, i) = <<>> THEN <<text[i]>> \o g[i + 1]
                  ELSE known[MatchAt(known, text, i)] \o g[i + Len(MatchAt(known, text, i))])
    BY Zenon DEF Bit, Jump
  <2> QED BY <2>1 DEF WalksFrom
<1>3. PICK g : WalksFrom(known, text, g, 1)
  BY WalkExists
<1>4. WalksFrom(known, text, walk, 1)
  BY <1>2, <1>3
<1> HIDE DEF walk
<1> QED BY <1>1, <1>4

\* A walk, seen as what it writes from each place.
LEMMA WalkSteps ==
  ASSUME NEW known, NEW text \in Text, NEW g, WalksFrom(known, text, g, 1)
  PROVE  /\ g[Len(text) + 1] = <<>>
         /\ \A i \in 1..Len(text) : g[i] = Bit(known, text, i) \o g[Jump(known, text, i)]
<1>1. Len(text) \in Nat
  BY DEF Text
<1>2. \A i \in 1..Len(text) + 1 : g[i] = IF i > Len(text) THEN <<>>
                                 ELSE Bit(known, text, i) \o g[Jump(known, text, i)]
  BY DEF WalksFrom
<1>3. Len(text) + 1 \in 1..Len(text) + 1 /\ Len(text) + 1 > Len(text)
  BY <1>1
<1>4. \A i \in 1..Len(text) : i \in 1..Len(text) + 1 /\ ~(i > Len(text))
  BY <1>1
<1>5. g[Len(text) + 1] = <<>>
  BY <1>2, <1>3, Zenon
<1>6. \A i \in 1..Len(text) : g[i] = Bit(known, text, i) \o g[Jump(known, text, i)]
  BY <1>2, <1>4, Zenon
<1> QED BY <1>5, <1>6

\* What is true at the end of a text, and at a place of it whenever it is at the places
\* after that, is true at every place.
LEMMA Backwards ==
  ASSUME NEW n \in Nat, NEW T, n + 1 \in T,
         \A i \in 1..n : (\A j \in i + 1..n + 1 : j \in T) => i \in T
  PROVE  \A i \in 1..n + 1 : i \in T
<1> DEFINE M == {k \in Nat : k <= n => \A j \in n + 1 - k..n + 1 : j \in T}
<1>1. 0 \in M
  OBVIOUS
<1>2. ASSUME NEW k \in Nat, k \in M PROVE k + 1 \in M
  <2> SUFFICES ASSUME k + 1 <= n PROVE \A j \in n + 1 - (k + 1)..n + 1 : j \in T
    OBVIOUS
  <2>1. \A j \in (n - k) + 1..n + 1 : j \in T
    BY <1>2
  <2>2. n - k \in T
    BY <2>1
  <2> QED BY <2>1, <2>2
<1> HIDE DEF M
<1>3. M = Nat
  BY <1>1, <1>2, Induction DEF M
<1>4. n \in M
  BY <1>3
<1> QED BY <1>4 DEF M

\* What a walk writes is text, from every place.
LEMMA WalkIsText ==
  ASSUME NEW known, Mapping(known), NEW text \in Text, NEW g, WalksFrom(known, text, g, 1)
  PROVE  \A i \in 1..Len(text) + 1 : g[i] \in Text
<1>2. Len(text) \in Nat
  BY DEF Text
<1> DEFINE T == {i \in Nat : g[i] \in Text}
<1>3. Len(text) + 1 \in T
  <2>1. g[Len(text) + 1] = <<>>
    BY WalkSteps
  <2>2. <<>> \in Text
    BY DEF Text
  <2>3. Len(text) + 1 \in Nat
    BY <1>2
  <2> QED BY <2>1, <2>2, <2>3, Zenon
<1>4. ASSUME NEW i \in 1..Len(text), \A j \in i + 1..Len(text) + 1 : j \in T PROVE i \in T
  <2>1. g[i] = Bit(known, text, i) \o g[Jump(known, text, i)]
    BY WalkSteps
  <2>2. Bit(known, text, i) \in Text /\ g[Jump(known, text, i)] \in Text
    BY <1>4, WalkGoesOn
  <2>3. Bit(known, text, i) \o g[Jump(known, text, i)] \in Text
    BY <2>2 DEF Text
  <2>4. i \in Nat
    BY <1>2
  <2> QED BY <2>1, <2>3, <2>4, Zenon
<1> HIDE DEF T
<1>5. \A i \in 1..Len(text) + 1 : i \in T
  BY <1>2, <1>3, <1>4, Backwards
<1> QED BY <1>5 DEF T

\* The expansion of a text is a text.
LEMMA ExpandedIsText ==
  ASSUME NEW known, Mapping(known), NEW text \in Text
  PROVE  Expanded(known, text) \in Text
<1>1. PICK g : WalksFrom(known, text, g, 1) /\ Expanded(known, text) = g[1]
  BY ExpandedUnfolds
<1>2. Len(text) \in Nat
  BY DEF Text
<1>3. 1 \in 1..Len(text) + 1
  BY <1>2
<1> QED BY <1>1, <1>3, WalkIsText

\* A session that minted nothing changes nothing.
LEMMA ExpandedOfNothing ==
  ASSUME NEW known, DOMAIN known = {}, NEW text \in Text
  PROVE  Expanded(known, text) = text
<1>0. Mapping(known)
  BY DEF Mapping
<1>1. PICK g : WalksFrom(known, text, g, 1) /\ Expanded(known, text) = g[1]
  BY <1>0, ExpandedUnfolds
<1>2. Len(text) \in Nat
  BY DEF Text
<1> DEFINE T == {i \in Nat : g[i] = SubSeq(text, i, Len(text))}
<1>3. Len(text) + 1 \in T
  <2>1. g[Len(text) + 1] = <<>>
    BY <1>1, WalkSteps
  <2>2. SubSeq(text, Len(text) + 1, Len(text)) = <<>>
    BY <1>2 DEF Text
  <2>3. Len(text) + 1 \in Nat
    BY <1>2
  <2> QED BY <2>1, <2>2, <2>3, Zenon
<1>4. ASSUME NEW i \in 1..Len(text), \A j \in i + 1..Len(text) + 1 : j \in T PROVE i \in T
  <2>1. g[i] = Bit(known, text, i) \o g[Jump(known, text, i)]
    BY <1>1, WalkSteps
  <2>2. MatchAt(known, text, i) = <<>>
    BY DEF MatchAt, Preferred
  <2>3. g[i] = <<text[i]>> \o g[i + 1]
    BY <2>1, <2>2 DEF Bit, Jump
  <2>4. g[i + 1] = SubSeq(text, i + 1, Len(text))
    BY <1>2, <1>4
  <2>5. <<text[i]>> \o SubSeq(text, i + 1, Len(text)) = SubSeq(text, i, Len(text))
    BY <1>2 DEF Text
  <2>6. i \in Nat
    BY <1>2
  <2>7. g[i] = SubSeq(text, i, Len(text))
    BY <2>3, <2>4, <2>5, Zenon
  <2> QED BY <2>6, <2>7, Zenon
<1> HIDE DEF T
<1>5. \A i \in 1..Len(text) + 1 : i \in T
  BY <1>2, <1>3, <1>4, Backwards
<1>6. 1 \in T
  BY <1>2, <1>5
<1>7. SubSeq(text, 1, Len(text)) = text
  BY DEF Text
<1> QED BY <1>1, <1>6, <1>7 DEF T

\* The escapes of a text are one, and leave a text without a quote alone.
LEMMA EscapedFacts ==
  ASSUME NEW text \in Text
  PROVE  /\ Escaped(text) \in Text
         /\ (\A i \in DOMAIN text : text[i] # "quote") => Escaped(text) = text
<1>1. Escaped(text) \in [1..Len(text) -> Chars] /\ Len(text) \in Nat
  <2>1. Len(text) \in Nat /\ \A i \in 1..Len(text) : text[i] \in Chars
    BY DEF Text
  <2>2. "escaped" \in Chars
    BY CharsAssumption
  <2> QED BY <2>1, <2>2 DEF Escaped
<1>2. ASSUME \A i \in DOMAIN text : text[i] # "quote" PROVE Escaped(text) = text
  <2>1. \A i \in 1..Len(text) : Escaped(text)[i] = text[i]
    BY <1>2 DEF Escaped, Text
  <2>2. DOMAIN text = 1..Len(text) /\ text = [i \in 1..Len(text) |-> text[i]]
    BY DEF Text
  <2>3. Escaped(text) = [i \in 1..Len(text) |-> Escaped(text)[i]]
    BY <1>1
  <2> HIDE DEF Text
  <2> QED BY <2>1, <2>2, <2>3
<1> QED BY <1>1, <1>2 DEF Text

\* What arguments are restored to is a text.
LEMMA RestoredIsText ==
  ASSUME NEW known, Mapping(known), NEW raw \in Text
  PROVE  Restored(known, raw) \in Text
<1>1. CASE ~IsDocument(raw)
  BY <1>1, ExpandedIsText DEF Restored
<1>2. CASE IsDocument(raw)
  <2>0. Len(raw) \in Nat /\ Len(raw) >= 2
    <3>1. Len(raw) >= 2
      BY <1>2 DEF IsDocument
    <3> QED BY <3>1 DEF Text
  <2>1. SubSeq(raw, 2, Len(raw) - 1) \in Text
    BY <2>0 DEF Text
  <2>2. Escaped(Expanded(known, SubSeq(raw, 2, Len(raw) - 1))) \in Text
    BY <2>1, ExpandedIsText, EscapedFacts
  <2>3. <<"{">> \in Text /\ <<"}">> \in Text
    <3>1. "{" \in Chars /\ "}" \in Chars
      BY CharsAssumption
    <3>2. \A c \in Chars : <<c>> \in Text
      BY DEF Text
    <3> QED BY <3>1, <3>2
  <2>4. \A a, b \in Text : a \o b \in Text
    BY DEF Text
  <2>5. DocumentExpanded(known, raw) \in Text
    BY <2>2, <2>3, <2>4 DEF DocumentExpanded
  <2> QED BY <1>2, <2>5 DEF Restored
<1> QED BY <1>1, <1>2

\* A session that minted nothing leaves arguments alone.
LEMMA RestoredOfNothing ==
  ASSUME NEW known, DOMAIN known = {}, NEW raw \in Text,
         \A i \in DOMAIN raw : raw[i] # "quote"
  PROVE  Restored(known, raw) = raw
<1>1. CASE ~IsDocument(raw)
  BY <1>1, ExpandedOfNothing DEF Restored
<1>2. CASE IsDocument(raw)
  <2> DEFINE inner == SubSeq(raw, 2, Len(raw) - 1)
  <2>1. Len(raw) \in Nat /\ Len(raw) >= 2 /\ raw[1] = "{" /\ raw[Len(raw)] = "}"
    <3>1. Len(raw) >= 2 /\ raw[1] = "{" /\ raw[Len(raw)] = "}"
      BY <1>2 DEF IsDocument
    <3>2. Len(raw) \in Nat
      BY DEF Text
    <3> QED BY <3>1, <3>2
  <2>a. Len(raw) \in Nat /\ Len(raw) >= 2
    BY <2>1
  <2>2. inner \in Text /\ \A i \in DOMAIN inner : inner[i] # "quote"
    BY <2>a DEF Text
  <2>3. <<raw[1]>> \o inner \o <<raw[Len(raw)]>> = raw
    BY <2>a DEF Text
  <2> HIDE DEF inner
  <2>4. Expanded(known, inner) = inner
    BY <2>2, ExpandedOfNothing
  <2>5. Escaped(inner) = inner
    BY <2>2, EscapedFacts
  <2>6. Restored(known, raw) = <<"{">> \o Escaped(Expanded(known, inner)) \o <<"}">>
    BY <1>2, Zenon DEF Restored, DocumentExpanded, inner
  <2>7. Restored(known, raw) = <<raw[1]>> \o inner \o <<raw[Len(raw)]>>
    BY <2>1, <2>4, <2>5, <2>6, Zenon
  <2> QED BY <2>3, <2>7, Zenon
<1> QED BY <1>1, <1>2

-----------------------------------------------------------------------------
(* The caller's reading of lines. *)

\* g is the function that Taken is defined by, up to m lines.
TakesTo(c, lines, g, m) ==
  g = [i \in 0..m |-> IF i = 0 THEN c ELSE Took(g[i - 1], lines[i])]

\* The lines can be taken one after the other, as far as one likes.
LEMMA TakesExists ==
  ASSUME NEW c, NEW lines
  PROVE  \A m \in Nat : \E g : TakesTo(c, lines, g, m)
<1> DEFINE M == {m \in Nat : \E g : TakesTo(c, lines, g, m)}
<1>1. 0 \in M
  <2>1. TakesTo(c, lines, [i \in 0..0 |-> c], 0)
    BY DEF TakesTo
  <2> QED BY <2>1
<1>2. ASSUME NEW m \in Nat, m \in M PROVE m + 1 \in M
  <2>1. PICK g : TakesTo(c, lines, g, m)
    BY <1>2
  <2> DEFINE h == [i \in 0..m+1 |-> IF i = m + 1 THEN Took(g[m], lines[i]) ELSE g[i]]
  <2>2. \A i \in 0..m : h[i] = g[i]
    OBVIOUS
  <2>3. \A i \in 0..m : g[i] = IF i = 0 THEN c ELSE Took(g[i - 1], lines[i])
    BY <2>1 DEF TakesTo
  <2>4. \A i \in 0..m+1 : h[i] = IF i = 0 THEN c ELSE Took(h[i - 1], lines[i])
    BY <2>2, <2>3
  <2>5. TakesTo(c, lines, h, m + 1)
    BY <2>4 DEF TakesTo
  <2> QED BY <2>5
<1> HIDE DEF M
<1>3. M = Nat
  BY <1>1, <1>2, Induction DEF M
<1> QED BY <1>3 DEF M

\* Taken is where taking the lines one after the other ends.
LEMMA TakenUnfolds ==
  ASSUME NEW c, NEW lines, Len(lines) \in Nat
  PROVE  \E g : TakesTo(c, lines, g, Len(lines)) /\ Taken(c, lines) = g[Len(lines)]
<1> DEFINE after == CHOOSE g : g = [i \in 0..Len(lines) |->
                      IF i = 0 THEN c ELSE Took(g[i - 1], lines[i])]
<1>1. Taken(c, lines) = after[Len(lines)]
  BY DEF Taken
<1>2. PICK g : g = [i \in 0..Len(lines) |-> IF i = 0 THEN c ELSE Took(g[i - 1], lines[i])]
  <2> HIDE DEF after
  <2>1. PICK g : TakesTo(c, lines, g, Len(lines))
    BY TakesExists
  <2> QED BY <2>1 DEF TakesTo
<1>3. after = [i \in 0..Len(lines) |-> IF i = 0 THEN c ELSE Took(after[i - 1], lines[i])]
  BY <1>2
<1> HIDE DEF after
<1> QED BY <1>1, <1>3 DEF TakesTo

\* Two such functions agree, where the lines do.
LEMMA TakesAgree ==
  ASSUME NEW c, NEW s, NEW t, NEW n \in Nat, NEW m \in Nat, NEW g, NEW h,
         TakesTo(c, s, g, n), TakesTo(c, t, h, m),
         n <= m, \A i \in 1..n : s[i] = t[i]
  PROVE  g[n] = h[n]
<1> DEFINE M == {i \in Nat : i <= n => g[i] = h[i]}
<1>1. \A i \in 0..n : g[i] = IF i = 0 THEN c ELSE Took(g[i - 1], s[i])
  BY DEF TakesTo
<1>2. \A i \in 0..m : h[i] = IF i = 0 THEN c ELSE Took(h[i - 1], t[i])
  BY DEF TakesTo
<1>3. 0 \in M
  BY <1>1, <1>2
<1>4. ASSUME NEW i \in Nat, i \in M PROVE i + 1 \in M
  <2> SUFFICES ASSUME i + 1 <= n PROVE g[i + 1] = h[i + 1]
    OBVIOUS
  <2>1. g[i] = h[i] /\ s[i + 1] = t[i + 1]
    BY <1>4
  <2>2. i + 1 \in 0..n /\ i + 1 \in 0..m /\ i + 1 # 0 /\ (i + 1) - 1 = i
    OBVIOUS
  <2>3. g[i + 1] = Took(g[i], s[i + 1]) /\ h[i + 1] = Took(h[i], t[i + 1])
    BY <1>1, <1>2, <2>2
  <2> QED BY <2>1, <2>3
<1> HIDE DEF M
<1>5. M = Nat
  BY <1>3, <1>4, Induction DEF M
<1> QED BY <1>5 DEF M

\* No lines change nothing.
LEMMA TakenNone == ASSUME NEW c PROVE Taken(c, <<>>) = c
<1>1. PICK g : TakesTo(c, <<>>, g, Len(<<>>)) /\ Taken(c, <<>>) = g[Len(<<>>)]
  BY TakenUnfolds
<1>2. g[0] = c
  BY <1>1 DEF TakesTo
<1> QED BY <1>1, <1>2

\* The last line is taken last.
LEMMA TakenLast ==
  ASSUME NEW S, NEW c, NEW lines \in Seq(S), NEW line \in S
  PROVE  Taken(c, Append(lines, line)) = Took(Taken(c, lines), line)
<1> DEFINE n == Len(lines)
           longer == Append(lines, line)
<1>1. n \in Nat /\ Len(longer) = n + 1 /\ longer[n + 1] = line /\ \A i \in 1..n : lines[i] = longer[i]
  OBVIOUS
<1> HIDE DEF n, longer
<1>2. PICK g : TakesTo(c, lines, g, n) /\ Taken(c, lines) = g[n]
  BY <1>1, TakenUnfolds DEF n
<1>3. PICK h : TakesTo(c, longer, h, n + 1) /\ Taken(c, longer) = h[n + 1]
  <2>1. Len(longer) \in Nat
    BY <1>1
  <2>2. \E h : TakesTo(c, longer, h, Len(longer)) /\ Taken(c, longer) = h[Len(longer)]
    BY <2>1, TakenUnfolds
  <2> QED BY <1>1, <2>2
<1>4. g[n] = h[n]
  BY <1>1, <1>2, <1>3, TakesAgree
<1>5. h[n + 1] = Took(h[n], longer[n + 1])
  <2>1. \A i \in 0..n + 1 : h[i] = IF i = 0 THEN c ELSE Took(h[i - 1], longer[i])
    BY <1>3 DEF TakesTo
  <2>2. n + 1 \in 0..n + 1 /\ n + 1 # 0 /\ (n + 1) - 1 = n
    BY <1>1
  <2> QED BY <2>1, <2>2
<1> QED BY <1>1, <1>2, <1>3, <1>4, <1>5 DEF longer

\* Lines taken in two portions are taken.
LEMMA TakenJoined ==
  ASSUME NEW S, NEW c, NEW s \in Seq(S), NEW t \in Seq(S)
  PROVE  Taken(c, s \o t) = Taken(Taken(c, s), t)
<1> DEFINE first(k) == SubSeq(t, 1, k)
           M == {k \in Nat : k <= Len(t) => Taken(c, s \o first(k)) = Taken(Taken(c, s), first(k))}
<1>1. 0 \in M
  <2>1. first(0) = <<>> /\ s \o <<>> = s
    OBVIOUS
  <2>2. Taken(Taken(c, s), <<>>) = Taken(c, s)
    BY TakenNone
  <2> QED BY <2>1, <2>2
<1>2. ASSUME NEW k \in Nat, k \in M PROVE k + 1 \in M
  <2> SUFFICES ASSUME k + 1 <= Len(t)
               PROVE  Taken(c, s \o first(k + 1)) = Taken(Taken(c, s), first(k + 1))
    OBVIOUS
  <2>1. Taken(c, s \o first(k)) = Taken(Taken(c, s), first(k))
    BY <1>2
  <2>2. first(k) \in Seq(S) /\ t[k + 1] \in S /\ s \o first(k) \in Seq(S)
    OBVIOUS
  <2>3. first(k + 1) = Append(first(k), t[k + 1])
    OBVIOUS
  <2>4. s \o Append(first(k), t[k + 1]) = Append(s \o first(k), t[k + 1])
    BY <2>2
  <2> DEFINE u == s \o first(k)
             v == first(k)
             line == t[k + 1]
  <2>5. u \in Seq(S) /\ v \in Seq(S) /\ line \in S
    BY <2>2
  <2>6. first(k + 1) = Append(v, line) /\ s \o first(k + 1) = Append(u, line)
    BY <2>3, <2>4
  <2>7. Taken(c, u) = Taken(Taken(c, s), v)
    BY <2>1
  <2> HIDE DEF u, v, line, first
  <2>8. Taken(c, Append(u, line)) = Took(Taken(c, u), line)
    BY <2>5, TakenLast
  <2>9. Taken(Taken(c, s), Append(v, line)) = Took(Taken(Taken(c, s), v), line)
    BY <2>5, TakenLast
  <2> QED BY <2>6, <2>7, <2>8, <2>9
<1> HIDE DEF M
<1>3. M = Nat
  BY <1>1, <1>2, Induction DEF M
<1>4. Len(t) \in M /\ first(Len(t)) = t
  BY <1>3
<1>5. Len(t) \in Nat
  OBVIOUS
<1>6. Taken(c, s \o first(Len(t))) = Taken(Taken(c, s), first(Len(t)))
  BY <1>4, <1>5 DEF M
<1> HIDE DEF first
<1> QED BY <1>4, <1>6

\* A single line is taken as such.
LEMMA TakenOne == ASSUME NEW c, NEW line PROVE Taken(c, <<line>>) = Took(c, line)
<1>1. Append(<<>>, line) = <<line>> /\ <<>> \in Seq({line}) /\ line \in {line}
  OBVIOUS
<1>2. Taken(c, Append(<<>>, line)) = Took(Taken(c, <<>>), line)
  <2> DEFINE none == <<>>
  <2>1. none \in Seq({line})
    OBVIOUS
  <2> HIDE DEF none
  <2>2. Taken(c, Append(none, line)) = Took(Taken(c, none), line)
    BY <2>1, TakenLast
  <2> QED BY <2>2 DEF none
<1> QED BY <1>1, <1>2, TakenNone

-----------------------------------------------------------------------------
(* Types. *)

Names == {Unnamed, "content_block_delta"} \union Kinds
Places == Indices \union {None}

Events == [type : Kinds, index : Places, text : Text, n : Nat]
AllLines == [kind : {"name", "data", "id", "blank", "done", "stub", "torn", "cut"}, name : Names,
             event : Events, n : Nat]

\* What there may be of a line.
Parts == {StubLine, TornLine, CutLine}

Calls == [tool : Places, args : Text, restored : BOOLEAN]

Rehydrators ==
  [block : Places, pending : Text, template : Events, templateName : Names,
   arguments : Text, argumentsIn : Events, argumentsName : Names,
   toolName : Places, observing : BOOLEAN, name : Names, held : BOOLEAN,
   done : BOOLEAN, readErr : BOOLEAN,
   model : BOOLEAN, input : {0, 1}, output : {0, 1}, usageSent : BOOLEAN,
   usage : Seq({0, 1} \X {0, 1}), console : Seq(Calls), degraded : Nat,
   joined : BOOLEAN]

Steps == [r : Rehydrators, out : Seq(AllLines)]

Clients ==
  [named : BOOLEAN, name : Names, event : Events, id : Nat, text : [Indices -> Text], args : [Indices -> Text],
   stopped : SUBSET Indices, done : BOOLEAN, coherent : BOOLEAN,
   result : {"open", "end", "error", "hung up"}]

\* The indices of blocks.
LEMMA PlacesFacts ==
  /\ Indices \in SUBSET Nat /\ 0 \in Indices /\ None \notin Indices
  /\ \A b \in Indices : b \in 0..MaxBlocks - 1
BY BoundsAssumption DEF Indices, None

\* Texts, joined and cut, are texts.
LEMMA TextFacts ==
  /\ <<>> \in Text
  /\ \A s, t \in Text : s \o t \in Text
  /\ \A s \in Text : Len(s) \in Nat
  /\ \A s \in Text : \A k \in 0..Len(s) : Start(s, k) \in Text /\ End(s, k) \in Text
BY DEF Text, Start, End

\* Names, events and lines are of their types.
LEMMA LineTypes ==
  /\ NoEvent \in Events
  /\ \A e \in Events : NameOf(e) \in Names /\ Slot(e) \in Indices
  /\ \A name \in Names : NameLine(name) \in AllLines
  /\ \A e \in Events : DataLine(e) \in AllLines
  /\ \A n \in Nat : IdLine(n) \in AllLines
  /\ Blank \in AllLines /\ DoneLine \in AllLines /\ Parts \in SUBSET AllLines
<1>1. NoEvent \in Events
  BY TextFacts DEF NoEvent, Event, Events, Kinds, Places
<1>2. \A e \in Events : NameOf(e) \in Names /\ Slot(e) \in Indices
  BY PlacesFacts DEF NameOf, Slot, Events, Names, Places
<1>3. Unnamed \in Names
  BY DEF Names
<1> QED BY <1>1, <1>2, <1>3
        DEF NameLine, DataLine, IdLine, Blank, DoneLine, Parts, StubLine, TornLine, CutLine, Line,
            AllLines

\* An event with another text is an event.
LEMMA EventWith ==
  ASSUME NEW e \in Events, NEW text \in Text
  PROVE  [e EXCEPT !.text = text] \in Events
BY DEF Events

\* Sequences of anything.
LEMMA SequencesOf ==
  /\ \A S : <<>> \in Seq(S)
  /\ \A S : \A x \in S : <<x>> \in Seq(S)
  /\ \A S : \A s, t \in Seq(S) : s \o t \in Seq(S)
OBVIOUS

\* Lines behind a name are lines.
LEMMA NamedTypes ==
  ASSUME NEW name \in Names, NEW lines \in Seq(AllLines)
  PROVE  Named(name, lines) \in Seq(AllLines)
<1>1. <<NameLine(name)>> \in Seq(AllLines)
  BY LineTypes, SequencesOf
<1>2. <<NameLine(name)>> \o lines \in Seq(AllLines)
  BY <1>1, SequencesOf
<1> QED BY <1>2 DEF Named

\* Writing lines keeps the type of a step.
LEMMA WroteTypes ==
  ASSUME NEW x \in Steps, NEW lines \in Seq(AllLines)
  PROVE  Wrote(x, lines) \in Steps
<1>1. x.out \o lines \in Seq(AllLines)
  BY SequencesOf DEF Steps
<1> QED BY <1>1 DEF Wrote, Steps

\* Noting a count keeps the type of the rehydrator.
LEMMA NoteUsageTypes ==
  ASSUME NEW rr \in Rehydrators, NEW e
  PROVE  NoteUsage(rr, e) \in Rehydrators
BY DEF NoteUsage, Rehydrators

\* So does telling of the cost.
LEMMA ReportUsageTypes ==
  ASSUME NEW rr \in Rehydrators
  PROVE  ReportUsage(rr) \in Rehydrators
<1>1. <<rr.input, rr.output>> \in {0, 1} \X {0, 1}
  BY DEF Rehydrators
<1>2. Append(rr.usage, <<rr.input, rr.output>>) \in Seq({0, 1} \X {0, 1})
  BY <1>1 DEF Rehydrators
<1> QED BY <1>2 DEF ReportUsage, Rehydrators

\* So does telling of a call.
LEMMA TellTypes ==
  ASSUME NEW rr \in Rehydrators, NEW args \in Text, NEW restored \in BOOLEAN
  PROVE  Tell(rr, args, restored) \in Rehydrators
<1>1. [tool |-> rr.toolName, args |-> args, restored |-> restored] \in Calls
  BY DEF Calls, Rehydrators
<1>2. Append(rr.console, [tool |-> rr.toolName, args |-> args, restored |-> restored]) \in Seq(Calls)
  BY <1>1 DEF Rehydrators
<1> QED BY <1>2 DEF Tell, Rehydrators, Places

\* Writing the held arguments keeps the type of a step.
LEMMA HeldWrittenTypes ==
  ASSUME NEW x \in Steps, NEW raw \in Text, NEW whole \in Text
  PROVE  HeldWritten(x, raw, whole) \in Steps
<1> DEFINE rr == Tell(x.r, whole, whole # raw)
           line == DataLine([x.r.argumentsIn EXCEPT !.text = whole])
<1>1. x.r \in Rehydrators /\ x.out \in Seq(AllLines)
  BY DEF Steps
<1>2. rr \in Rehydrators
  BY <1>1, TellTypes
<1>3. x.r.argumentsName \in Names /\ x.r.argumentsIn \in Events
  BY <1>1 DEF Rehydrators
<1>4. line \in AllLines
  BY <1>3, EventWith, LineTypes
<1> HIDE DEF rr, line
<1>5. <<line, Blank>> \in Seq(AllLines)
  BY <1>4, LineTypes
<1>6. x.out \o Named(x.r.argumentsName, <<line, Blank>>) \in Seq(AllLines)
  BY <1>1, <1>3, <1>5, NamedTypes, SequencesOf
<1> DEFINE d == IF IsDocument(raw) THEN rr.degraded ELSE rr.degraded + 1
<1>7. d \in Nat /\ NoEvent \in Events /\ <<>> \in Text /\ Unnamed \in Names
  <2>1. rr.degraded \in Nat
    BY <1>2 DEF Rehydrators
  <2>2. d \in Nat
    BY <2>1
  <2>3. Unnamed \in Names
    BY DEF Names
  <2> QED BY <2>2, <2>3, TextFacts, LineTypes
<1> HIDE DEF d
<1>8. [rr EXCEPT !.arguments = <<>>, !.argumentsIn = NoEvent, !.argumentsName = Unnamed,
                 !.degraded = d] \in Rehydrators
  BY <1>2, <1>7 DEF Rehydrators
<1>9. HeldWritten(x, raw, whole)
      = [r |-> [rr EXCEPT !.arguments = <<>>, !.argumentsIn = NoEvent, !.argumentsName = Unnamed,
                          !.degraded = d],
         out |-> x.out \o Named(x.r.argumentsName, <<line, Blank>>)]
  BY Zenon DEF HeldWritten, rr, line, d
<1> QED BY <1>6, <1>8, <1>9 DEF Steps

\* So do the releases that close a block.
LEMMA ReleasedTypes ==
  ASSUME Mapping(Known), NEW x \in Steps
  PROVE  /\ ArgumentsReleased(x) \in Steps /\ TailReleased(x) \in Steps
         /\ CloseBlock(x) \in Steps
<1>1. \A y \in Steps : ArgumentsReleased(y) \in Steps
  <2> TAKE y \in Steps
  <2>1. y.r.arguments \in Text
    BY DEF Steps, Rehydrators
  <2>2. Restored(Known, y.r.arguments) \in Text
    BY <2>1, RestoredIsText
  <2> QED BY <2>1, <2>2, HeldWrittenTypes DEF ArgumentsReleased
<1>2. \A y \in Steps : TailReleased(y) \in Steps
  <2> TAKE y \in Steps
  <2> DEFINE line == DataLine([y.r.template EXCEPT !.text = Expanded(Known, y.r.pending)])
  <2>1. /\ y.r \in Rehydrators /\ y.out \in Seq(AllLines)
        /\ y.r.pending \in Text /\ y.r.template \in Events /\ y.r.templateName \in Names
    BY DEF Steps, Rehydrators
  <2>2. line \in AllLines
    BY <2>1, ExpandedIsText, EventWith, LineTypes
  <2> HIDE DEF line
  <2>3. <<line, Blank>> \in Seq(AllLines)
    BY <2>2, LineTypes
  <2>4. y.out \o Named(y.r.templateName, <<line, Blank>>) \in Seq(AllLines)
    BY <2>1, <2>3, NamedTypes, SequencesOf
  <2>5. [y.r EXCEPT !.pending = <<>>] \in Rehydrators
    BY <2>1, TextFacts DEF Rehydrators
  <2> QED BY <2>1, <2>4, <2>5 DEF TailReleased, Steps, line
<1>3. CloseBlock(x) \in Steps
  BY <1>1, <1>2 DEF CloseBlock
<1> QED BY <1>1, <1>2, <1>3

\* How much of a text is held back is a length of it.
LEMMA TailLenIsLength ==
  ASSUME Mapping(Known), NEW text \in Text
  PROVE  TailLen(Known, text) \in 0..Len(text)
<1> DEFINE open == {0} \union
             {k \in 1..Least(Len(text), MaxTokenLen) :
                /\ End(text, k)[1] = "["
                /\ \A i \in 2..k : End(text, k)[i] \in TokenChars}
           begun == {k \in 1..Len(text) :
                  /\ k >= WholeLen(Known, text)
                  /\ \E m \in StandInsOf(Known) :
                       k < Len(m) /\ End(text, k) = Start(m, k)}
           all == begun \union {TokenTailLen(text)}
<1>1. Len(text) \in Nat
  BY TextFacts
<1>2. open \in SUBSET Nat /\ open # {} /\ \A k \in open : k <= Len(text)
  BY <1>1, BoundsAssumption DEF Least
<1>3. TokenTailLen(text) = Greatest(open)
  BY DEF TokenTailLen
<1> HIDE DEF open
<1>4. TokenTailLen(text) \in 0..Len(text)
  <2>1. Greatest(open) \in open
    BY <1>1, <1>2, GreatestIsOne
  <2>2. \A k \in open : k \in 0..Len(text)
    BY <1>1, <1>2
  <2> QED BY <1>3, <2>1, <2>2
<1>5. begun \in SUBSET (1..Len(text))
  OBVIOUS
<1>6. TailLen(Known, text) = Greatest(all)
  BY DEF TailLen
<1> HIDE DEF begun
<1>7. all \in SUBSET Nat /\ all # {} /\ \A k \in all : k <= Len(text)
  <2>1. \A k \in all : k \in 0..Len(text)
    BY <1>1, <1>4, <1>5
  <2> HIDE DEF all
  <2>2. \A k \in 0..Len(text) : k \in Nat /\ k <= Len(text)
    BY <1>1
  <2>3. all # {}
    BY DEF all
  <2> QED BY <2>1, <2>2, <2>3
<1> HIDE DEF all
<1>8. Greatest(all) \in all
  BY <1>1, <1>7, GreatestIsOne
<1>9. \A k \in all : k \in 0..Len(text)
  BY <1>1, <1>7
<1> QED BY <1>6, <1>8, <1>9

\* So does cutting a text at its tail.
LEMMA CutTypes ==
  ASSUME Mapping(Known), NEW x \in Steps, NEW e \in Events, NEW name \in Names,
         NEW combined \in Text, NEW tail \in 0..Len(combined)
  PROVE  CutAt(x, e, name, combined, tail) \in Steps
<1> DEFINE line == DataLine([e EXCEPT !.text =
                       Expanded(Known, Start(combined, Len(combined) - tail))])
           held == [e EXCEPT !.text = <<>>]
<1>1. x.r \in Rehydrators /\ x.out \in Seq(AllLines)
  BY DEF Steps
<1>2. End(combined, tail) \in Text /\ Start(combined, Len(combined) - tail) \in Text
  BY TextFacts
<1>3. line \in AllLines /\ held \in Events
  BY <1>2, ExpandedIsText, EventWith, LineTypes, TextFacts
<1> HIDE DEF line, held
<1>4. <<line, Blank>> \in Seq(AllLines)
  BY <1>3, LineTypes
<1>5. x.out \o Named(name, <<line, Blank>>) \in Seq(AllLines)
  BY <1>1, <1>4, NamedTypes, SequencesOf
<1>6. [x.r EXCEPT !.pending = End(combined, tail), !.template = held, !.templateName = name]
        \in Rehydrators
  BY <1>1, <1>2, <1>3 DEF Rehydrators
<1> QED BY <1>5, <1>6 DEF CutAt, Steps, line, held

\* So does whatever is written for an event.
LEMMA EventWrittenTypes ==
  ASSUME Mapping(Known), NEW x \in Steps, NEW e \in Events, NEW name \in Names
  PROVE  EventWritten(x, e, name) \in Steps
<1>1. /\ <<DataLine(e)>> \in Seq(AllLines) /\ <<DataLine(e), Blank>> \in Seq(AllLines)
      /\ x.r \in Rehydrators /\ x.out \in Seq(AllLines)
  BY LineTypes DEF Steps
<1>2. CASE e.type = "block_stop"
  <2>1. Wrote(CloseBlock(x), Named(name, <<DataLine(e)>>)) \in Steps
    BY <1>1, ReleasedTypes, NamedTypes, WroteTypes
  <2> QED BY <1>2, <2>1 DEF EventWritten
<1>3. CASE e.type = "json_delta"
  <2> DEFINE y == FragmentHeld(x, e, name)
             held == [e EXCEPT !.text = <<>>]
             more == x.r.arguments \o e.text
  <2>1. held \in Events /\ more \in Text
    BY <1>1, EventWith, TextFacts DEF Rehydrators, Events
  <2> HIDE DEF held, more
  <2>2. \A ev \in Events, nm \in Names :
          [x.r EXCEPT !.argumentsIn = ev, !.argumentsName = nm, !.arguments = more, !.held = TRUE]
            \in Rehydrators
    BY <1>1, <2>1 DEF Rehydrators
  <2>3. FragmentHeld(x, e, name)
        = [x EXCEPT !.r = [x.r EXCEPT
             !.argumentsIn = IF x.r.argumentsIn = NoEvent THEN held ELSE x.r.argumentsIn,
             !.argumentsName = IF x.r.argumentsIn = NoEvent THEN name ELSE x.r.argumentsName,
             !.arguments = more, !.held = TRUE]]
    BY <1>1 DEF FragmentHeld, held, more, Steps, Rehydrators
  <2>4. x.r.argumentsIn \in Events /\ x.r.argumentsName \in Names
    BY <1>1 DEF Rehydrators
  <2> DEFINE ev == IF x.r.argumentsIn = NoEvent THEN held ELSE x.r.argumentsIn
             nm == IF x.r.argumentsIn = NoEvent THEN name ELSE x.r.argumentsName
             rr == [x.r EXCEPT !.argumentsIn = ev, !.argumentsName = nm, !.arguments = more,
                               !.held = TRUE]
  <2>5. ev \in Events /\ nm \in Names
    BY <2>1, <2>4
  <2>6. FragmentHeld(x, e, name) = [x EXCEPT !.r = rr]
    BY <2>3, Zenon
  <2> HIDE DEF ev, nm
  <2>7. rr \in Rehydrators
    BY <2>2, <2>5
  <2> HIDE DEF rr
  <2>8. FragmentHeld(x, e, name) \in Steps
    BY <2>6, <2>7 DEF Steps
  <2> QED BY <1>3, <2>8 DEF EventWritten
<1>4. CASE e.type = "text_delta"
  <2>1. x.r.pending \o e.text \in Text
    BY <1>1, TextFacts DEF Rehydrators, Events
  <2>2. TextRewritten(x, e, name) \in Steps
    BY <2>1, TailLenIsLength, CutTypes DEF TextRewritten
  <2> QED BY <1>4, <2>2 DEF EventWritten
<1>5. CASE e.type \in {"text_start", "tool_start"}
  <2>1. ToolOf(e) \in Places
    BY DEF ToolOf, Events, Places
  <2>2. [x.r EXCEPT !.toolName = ToolOf(e)] \in Rehydrators
    BY <1>1, <2>1 DEF Rehydrators
  <2>3. [x EXCEPT !.r.toolName = ToolOf(e)] \in Steps
    BY <2>2 DEF Steps
  <2>4. Wrote([x EXCEPT !.r.toolName = ToolOf(e)], Named(name, <<DataLine(e), Blank>>)) \in Steps
    BY <1>1, <2>3, NamedTypes, WroteTypes
  <2> QED BY <1>5, <2>4 DEF EventWritten
<1>6. CASE e.type \notin {"block_stop", "json_delta", "text_delta", "text_start", "tool_start"}
  <2>1. Wrote(x, Named(name, <<DataLine(e), Blank>>)) \in Steps
    BY <1>1, NamedTypes, WroteTypes
  <2> QED BY <1>6, <2>1 DEF EventWritten
<1> QED BY <1>2, <1>3, <1>4, <1>5, <1>6

\* So does an event as a whole, the change of block included.
LEMMA EventRewrittenTypes ==
  ASSUME Mapping(Known), NEW x \in Steps, NEW e \in Events
  PROVE  EventRewritten(x, e) \in Steps
<1> DEFINE noted == [x EXCEPT !.r = NoteUsage(x.r, e)]
           entered == BlockEntered(noted, e)
<1>1. noted \in Steps
  BY NoteUsageTypes DEF Steps
<1> HIDE DEF noted
<1>2. entered \in Steps
  <2>1. CloseBlock(noted) \in Steps
    BY <1>1, ReleasedTypes
  <2>2. [CloseBlock(noted) EXCEPT !.r.block = e.index] \in Steps
    BY <2>1 DEF Steps, Rehydrators, Events
  <2> QED BY <1>1, <2>2 DEF BlockEntered
<1> HIDE DEF entered
<1>3. NameTaken(entered) \in Steps /\ entered.r.name \in Names
  BY <1>2 DEF NameTaken, Steps, Rehydrators, Names
<1>4. EventWritten(NameTaken(entered), e, entered.r.name) \in Steps
  BY <1>3, EventWrittenTypes
<1> QED BY <1>4 DEF EventRewritten, entered, noted

\* So does a line of a session that has something to put back.
LEMMA RewrittenTypes ==
  ASSUME Mapping(Known), NEW x \in Steps, NEW line \in AllLines
  PROVE  Rewritten(x, line) \in Steps
<1>0. x.r \in Rehydrators /\ line.name \in Names /\ line.event \in Events
  BY DEF Steps, AllLines
<1>1. \A y \in Steps : [y EXCEPT !.r.held = FALSE] \in Steps
  BY DEF Steps, Rehydrators
<1>2. <<line>> \in Seq(AllLines)
  OBVIOUS
<1>3. NameWithheld(x, line) \in Steps
  BY <1>0 DEF NameWithheld, Steps, Rehydrators
<1>4. BlankRead(x, line) \in Steps
  BY <1>1, <1>2, WroteTypes DEF BlankRead
<1>5. OtherRead(x, line) \in Steps
  BY <1>1, <1>2, WroteTypes DEF OtherRead
<1>6. UnreadableRead(x, line) \in Steps
  <2> DEFINE closed == CloseBlock([x EXCEPT !.r.held = FALSE])
  <2>1. closed \in Steps
    BY <1>1, ReleasedTypes
  <2> HIDE DEF closed
  <2>2. NameTaken(closed) \in Steps /\ closed.r.name \in Names
    BY <2>1 DEF NameTaken, Steps, Rehydrators, Names
  <2>3. Wrote(NameTaken(closed), Named(closed.r.name, <<line>>)) \in Steps
    BY <1>2, <2>2, NamedTypes, WroteTypes
  <2> QED BY <2>3 DEF UnreadableRead, closed
<1>7. EventRewritten([x EXCEPT !.r.held = FALSE], line.event) \in Steps
  BY <1>0, <1>1, EventRewrittenTypes
<1> QED BY <1>3, <1>4, <1>5, <1>6, <1>7 DEF Rewritten, AllLines

\* And so does a line of one that has nothing.
LEMMA ObservedTypes ==
  ASSUME NEW rr \in Rehydrators, NEW line \in AllLines
  PROVE  Observed(rr, line) \in Rehydrators /\ ArgumentsReported(rr) \in Rehydrators
<1> DEFINE e == line.event
           noted == NoteUsage(rr, e)
           entered == IF e.index = None \/ e.index = noted.block THEN noted
                      ELSE [ArgumentsReported(noted) EXCEPT !.block = e.index]
<1>1. e \in Events
  BY DEF AllLines
<1> HIDE DEF e
<1>2. \A q \in Rehydrators : ArgumentsReported(q) \in Rehydrators
  <2> TAKE q \in Rehydrators
  <2>1. Tell(q, q.arguments, FALSE) \in Rehydrators
    BY TellTypes DEF Rehydrators
  <2> DEFINE told == Tell(q, q.arguments, FALSE)
  <2>2. [told EXCEPT !.observing = FALSE, !.arguments = <<>>] \in Rehydrators
    <3> HIDE DEF told
    <3>1. [told EXCEPT !.observing = FALSE] \in Rehydrators
      BY <2>1 DEF Rehydrators, told
    <3> QED BY <2>1, <3>1, TextFacts DEF Rehydrators, told
  <2> QED BY <2>2 DEF ArgumentsReported
<1>3. noted \in Rehydrators
  BY NoteUsageTypes
<1> HIDE DEF noted
<1>4. entered \in Rehydrators
  <2>1. \A q \in Rehydrators : [q EXCEPT !.block = e.index] \in Rehydrators
    BY <1>1 DEF Rehydrators, Events
  <2> QED BY <1>2, <1>3, <2>1
<1> HIDE DEF entered
<1>5. [entered EXCEPT !.arguments = @ \o e.text, !.observing = TRUE] \in Rehydrators
  <2>1. entered.arguments \o e.text \in Text
    BY <1>1, <1>4, TextFacts DEF Rehydrators, Events
  <2> QED BY <1>4, <2>1 DEF Rehydrators
<1>6. [entered EXCEPT !.toolName = ToolOf(e)] \in Rehydrators
  <2>1. ToolOf(e) \in Places
    BY <1>1 DEF ToolOf, Events, Places
  <2> QED BY <1>4, <2>1 DEF Rehydrators
<1>7. Observed(rr, line) \in {rr, ArgumentsReported(entered), entered,
        [entered EXCEPT !.arguments = @ \o e.text, !.observing = TRUE],
        [entered EXCEPT !.toolName = ToolOf(e)]}
  BY DEF Observed, entered, noted, e
<1> QED BY <1>2, <1>4, <1>5, <1>6, <1>7

\* Reading a line, and the end, keep the type of a step.
LEMMA ReadTypes ==
  ASSUME Mapping(Known), NEW x \in Steps
  PROVE  Flushed(x) \in Steps /\ \A line \in AllLines : Read(x, line) \in Steps
<1>0. x.r \in Rehydrators /\ x.out \in Seq(AllLines)
  BY DEF Steps
<1>1. ASSUME NEW line \in AllLines PROVE Read(x, line) \in Steps
  <2>1. Append(x.out, line) \in Seq(AllLines)
    BY <1>0
  <2>2. Observed(x.r, line) \in Rehydrators
    BY <1>0, ObservedTypes
  <2>3. [r |-> Observed(x.r, line), out |-> Append(x.out, line)] \in Steps
    BY <2>1, <2>2 DEF Steps
  <2> QED BY <2>3, RewrittenTypes DEF Read
<1>2. Flushed(x) \in Steps
  <2>1. ArgumentsReported(x.r) \in Rehydrators
    BY <1>0, ObservedTypes, LineTypes
  <2>2. [x EXCEPT !.r = ArgumentsReported(x.r)] \in Steps
    BY <2>1 DEF Steps
  <2> QED BY <2>2, ReleasedTypes DEF Flushed
<1> QED BY <1>1, <1>2

-----------------------------------------------------------------------------
(* The inductive invariant.                                                *)

Phases == {"head", "blocks", "tail", "sentinel", "over"}
Begun == 0..MaxBlocks
Sources == [phase : Phases, open : Places, kind : {"text", "tool", "whole", "short", "failed"},
            next : Begun, deltas : Nat, n : Nat]
Arrivals == [text : [Indices -> Text], args : [Indices -> Text], tools : SUBSET Indices]
Blocks == [index : Indices, label : {"text", "text_start", "tool_start"}, said : Text]
Traces == [blocks : Seq(Blocks), filed : {0, 1}]

Typed ==
  /\ scenario \in Scenarios /\ source \in Sources /\ feed \in Seq(AllLines)
  /\ arrived \in Arrivals /\ r \in Rehydrators /\ out \in Seq(AllLines)
  /\ client \in Clients /\ trace \in Traces

\* What is held back is held in the event it came in.
KeptIn(rr) ==
  /\ rr.template.type \in {"none", "text_delta"}
  /\ rr.argumentsIn.type \in {"none", "json_delta"}
  /\ rr.pending # <<>> => rr.template.type = "text_delta"

Messages == scenario.shape = "messages"
Chat == scenario.shape = "chat"
Observing == DOMAIN Known = {}
Over == source.phase = "over"
Starts == {"text_start", "tool_start"}

\* The provider's blocks: the one that is open is the last; a chat opens none.
BlocksInOrder ==
  /\ source.next <= scenario.blocks
  /\ source.open # None => source.open = source.next - 1
  /\ Chat => source.open = None /\ source.next = 0
  /\ source.open # None => source.phase \in {"blocks", "over"}
  /\ source.phase = "head" => source.next = 0
  /\ ~Over => source.kind \in {"text", "tool"}

\* The event the provider sent last, and where it has got with it.
Latest(e) ==
  /\ e.n = source.n /\ e.n # 0 /\ e.type # "none"
  /\ e.type \in Starts => /\ ~Chat /\ source.open # None /\ e.index = source.open
                          /\ source.kind = (IF e.type = "tool_start" THEN "tool" ELSE "text")
  /\ e.type = "text_delta" => /\ e.index = source.open
                              /\ Chat \/ (source.open # None /\ source.kind = "text")
  /\ e.type = "json_delta" => /\ ~Chat /\ source.open # None /\ e.index = source.open
                              /\ source.kind = "tool" /\ e.text \in scenario.fragments
  /\ e.type = "block_stop" => /\ ~Chat /\ source.open = None
                              /\ source.next # 0 /\ e.index = source.next - 1
  /\ e.type \in {"message_start", "ping", "message_delta"} => e.index = None

\* What there is of an event behind its data line.
Rest(e) == (IF scenario.ids THEN <<IdLine(e.n)>> ELSE <<>>) \o <<Blank>>

\* What the agent has not read of an event.
Portions(e) == {Lines(e), <<DataLine(e)>> \o Rest(e), Rest(e), <<Blank>>}

FeedInOrder ==
  \/ feed = <<>>
  \/ /\ Streams /\ source.phase \notin {"sentinel", "over"}
     /\ \E e \in Events : Latest(e) /\ feed \in Portions(e)
  \/ Chat /\ source.phase = "sentinel" /\ feed \in {<<DoneLine, Blank>>, <<Blank>>}
  \/ Streams /\ Over /\ source.kind # "whole" /\ \E part \in Parts : feed = <<part>>

\* The events in some lines.
Carried(lines) == {lines[i].event : i \in {j \in DOMAIN lines : lines[j].kind = "data"}}
StartUnread == \E e \in Carried(feed) : e.type \in Starts

\* The blocks of the trace are kept in the order of their indices, each with what has
\* arrived of it; a block that is not read yet has nothing.
Numbered(blocks) == \A i \in DOMAIN blocks : blocks[i].index = i - 1

CopiedRight(blocks, a) ==
  /\ Numbered(blocks)
  /\ \A i \in DOMAIN blocks :
       blocks[i].said = (IF blocks[i].label = "tool_start" THEN a.args[blocks[i].index]
                         ELSE a.text[blocks[i].index])
  /\ \A b \in Indices : b >= Len(blocks) => a.text[b] = <<>> /\ a.args[b] = <<>>

\* The blocks that are there are those whose start has been read.
BlocksRead ==
  /\ Chat => Len(trace.blocks) <= 1 /\ \A i \in DOMAIN trace.blocks : trace.blocks[i].label = "text"
  /\ Messages /\ ~Over =>
       /\ Len(trace.blocks) = (IF StartUnread THEN source.next - 1 ELSE source.next)
       /\ ~StartUnread /\ source.open # None =>
            trace.blocks[source.next].label
              = (IF source.kind = "tool" THEN "tool_start" ELSE "text_start")

TraceInOrder ==
  /\ trace.filed = (IF client.result = "open" THEN 0 ELSE 1)
  /\ Streams => CopiedRight(trace.blocks, arrived) /\ BlocksRead

\* The caller between two events, within one, and when it was cut off.
Clean(c) ==
  /\ c.coherent
  /\ c.done \/ (c.name = Unnamed /\ c.event = NoEvent /\ c.id = 0)

Midway(c) ==
  /\ c.coherent
  /\ c.done \/ /\ c.id \in {0, source.n}
               /\ \/ c.event = NoEvent /\ c.name = Unnamed
                  \/ /\ c.name = (IF Messages THEN NameOf(c.event) ELSE Unnamed)
                     /\ c.event.n <= source.n /\ c.event # NoEvent

Loose(c) ==
  /\ c.coherent
  /\ c.done \/ (c.id \in {0, source.n} /\ (Chat => c.name = Unnamed))

\* What is held goes out under the name it came with, and is not newer than the last
\* event.
NamedAsHeld(e, name) ==
  e # NoEvent => /\ e.type # "none" /\ e.n <= source.n
                 /\ name = (IF Messages THEN NameOf(e) ELSE Unnamed)

HeldInOrder(rr) ==
  /\ NamedAsHeld(rr.template, rr.templateName)
  /\ NamedAsHeld(rr.argumentsIn, rr.argumentsName)

\* What the caller is in the middle of, by what the agent reads next.
ReadNext == IF feed = <<>> THEN "none" ELSE Head(feed).kind

\* Before a data line the name of its event has been read: by the agent, which holds it
\* back, or by the caller of a session that has nothing to put back.
NameHeard(rr, c, e) ==
  LET name == IF Messages THEN NameOf(e) ELSE Unnamed
  IN  IF Observing THEN /\ c.coherent /\ rr.name = Unnamed
                        /\ c.done \/ (c.event = NoEvent /\ c.id = 0 /\ c.name = name)
      ELSE Clean(c) /\ rr.name = name

CallerAt(rr, c, next) ==
  /\ next \in {"none", "name", "done"} => Clean(c) /\ rr.name = Unnamed /\ ~rr.held
  /\ next \in {"id", "blank"} => /\ Midway(c) /\ rr.name = Unnamed
                                 /\ next = "id" => c.done \/ c.id = 0
                                 /\ rr.held => Clean(c) /\ ~Observing

CallerInOrder(rr, c) ==
  /\ Loose(c)
  /\ ~Over => /\ CallerAt(rr, c, ReadNext)
              /\ ReadNext = "data" => ~rr.held /\ NameHeard(rr, c, Head(feed).event)

\* The operator: what is told of, and what is still held to be told of.
Told(rr) == {rr.console[i].tool : i \in DOMAIN rr.console}
Holding(rr) == rr.argumentsIn # NoEvent \/ rr.observing

\* Here a stands for what has arrived and n for the number of blocks read.
ToldRight(rr, a) ==
  /\ Told(rr) \subseteq a.tools
  /\ Len(rr.console) = Cardinality(Told(rr))
  /\ \A i \in DOMAIN rr.console :
       LET raw == a.args[rr.console[i].tool]
       IN  /\ rr.console[i].args = Restored(Known, raw)
           /\ rr.console[i].restored <=> rr.console[i].args # raw

ToldOrHeld(rr, a) ==
  IF Holding(rr) THEN /\ rr.toolName \in a.tools \ Told(rr)
                      /\ a.tools = Told(rr) \union {rr.toolName}
                      /\ rr.arguments = a.args[rr.toolName]
  ELSE a.tools = Told(rr) /\ rr.arguments = <<>>

HeldByReader(rr) ==
  IF Observing THEN rr.pending = <<>> /\ rr.argumentsIn = NoEvent ELSE ~rr.observing

\* The tool of the open block, once its start has been read.
ToolKnown(rr, unread) ==
  Messages /\ ~Over /\ source.open # None /\ ~unread =>
    /\ rr.block = source.open /\ source.open \notin Told(rr)
    /\ rr.toolName = (IF source.kind = "tool" THEN source.open ELSE None)

\* The blocks whose end the caller has, or is in the middle of.
StopsOf(c) == c.stopped \union (IF c.event.type = "block_stop" THEN {Slot(c.event)} ELSE {})

StopsTold(rr, c, a, n) ==
  \A b \in StopsOf(c) :
    /\ b < n
    /\ ~Over => b # source.open
    /\ b \in a.tools => b \in Told(rr)

ToolsArrived(a, n) ==
  /\ \A b \in a.tools : b < n
  /\ \A b \in Indices : b \notin a.tools => a.args[b] = <<>>
  /\ \A b \in Indices : \A i \in DOMAIN a.args[b] : a.args[b][i] # "quote"
  /\ Chat => a.tools = {}

CountsRight ==
  /\ r.model => r.input = 1
  /\ ~r.usageSent => r.usage = <<>> /\ client.result = "open" /\ ~r.done
  /\ r.usageSent => r.done \/ client.result # "open"
  /\ r.usageSent /\ r.model => Len(r.usage) = 1 /\ r.usage[1] \in {<<1, 0>>, <<1, 1>>}

\* What the caller has once the buffer is delivered.
Upcoming == Taken(client, out)

HeardInOrder ==
  /\ client.named = Messages /\ (client.coherent \/ r.joined)
  /\ r.joined => Streams /\ r.done /\ source.kind # "whole"
  /\ client.result = "end" => Over /\ source.kind # "failed"
  /\ IF Streams
     THEN /\ HeldInOrder(r)
          /\ r.done => Over /\ r.readErr = (source.kind = "failed")
          /\ client.result = "open" =>
               /\ Upcoming.coherent \/ r.joined
               /\ ~r.done => CallerInOrder(r, Upcoming)
     ELSE feed = <<>> /\ out = <<>>

\* Where a line leaves the agent.
ReportedAt(rr, a, n, unread) ==
  /\ ToldRight(rr, a) /\ HeldByReader(rr) /\ ToldOrHeld(rr, a) /\ ToolsArrived(a, n)
  /\ ToolKnown(rr, unread)
  /\ rr.block # None => rr.block < n

StreamReported ==
  /\ ReportedAt(r, arrived, Len(trace.blocks), StartUnread) /\ CountsRight
  /\ StopsTold(r, client, arrived, Len(trace.blocks))
  /\ r.done => ~Holding(r)
  /\ client.done => Chat
  /\ client.result \in {"end", "error"} => r.done
  /\ client.result = "open" =>
       (Upcoming.done => Chat) /\ StopsTold(r, Upcoming, arrived, Len(trace.blocks))

DocumentReported ==
  /\ ~client.done /\ client.stopped = {} /\ client.event = NoEvent /\ ~r.model
  /\ client.result = "open" => r.console = <<>>
  /\ client.result \in {"open", "end", "error"}
  /\ client.result = "end" => Told(r) = arrived.tools

ReportedInOrder ==
  /\ ToldRight(r, arrived)
  /\ IF Streams THEN StreamReported ELSE DocumentReported

-----------------------------------------------------------------------------
(* The types of the other parts, and TypeOK. *)

\* What the assumption says of the scenario there is.
LEMMA ScenarioFacts ==
  ASSUME scenario \in Scenarios
  PROVE  /\ Mapping(Known)
         /\ scenario.shape \in {"messages", "chat", "document"}
         /\ scenario.blocks \in 0..MaxBlocks
         /\ scenario.pieces \subseteq Text /\ scenario.fragments \subseteq Text
         /\ \A f \in scenario.fragments : \A i \in DOMAIN f : f[i] # "quote"
<1>1. /\ DOMAIN scenario.known \subseteq Text \ {<<>>}
      /\ \A m \in DOMAIN scenario.known : scenario.known[m] \in Text
  BY ScenariosAssumption
<1>2. scenario.shape \in {"messages", "chat", "document"} /\ scenario.blocks \in 0..MaxBlocks
  BY ScenariosAssumption
<1>3. scenario.pieces \subseteq Text /\ scenario.fragments \subseteq Text
  BY ScenariosAssumption
<1>4. \A f \in scenario.fragments : \A i \in DOMAIN f : f[i] # "quote"
  BY ScenariosAssumption
<1> QED BY <1>1, <1>2, <1>3, <1>4 DEF Mapping, Known

\* What has arrived keeps its type.
LEMMA ArrivingTypes ==
  ASSUME arrived \in Arrivals, NEW e \in Events
  PROVE  Arriving(e) \in Arrivals
<1> DEFINE b == Slot(e)
<1>1. b \in Indices /\ e.text \in Text
  BY LineTypes DEF Events
<1> HIDE DEF b
<1>2. /\ arrived.text \in [Indices -> Text] /\ arrived.args \in [Indices -> Text]
      /\ arrived.tools \in SUBSET Indices
  BY DEF Arrivals
<1>3. arrived.text[b] \o e.text \in Text /\ arrived.args[b] \o e.text \in Text
  BY <1>1, <1>2, TextFacts
<1>4. [arrived EXCEPT !.text[b] = @ \o e.text] \in Arrivals
  <2>1. [arrived.text EXCEPT ![b] = @ \o e.text] \in [Indices -> Text]
    BY <1>2, <1>3
  <2> QED BY <2>1 DEF Arrivals
<1>5. [arrived EXCEPT !.args[b] = @ \o e.text, !.tools = @ \union {b}] \in Arrivals
  <2>1. [arrived.args EXCEPT ![b] = @ \o e.text] \in [Indices -> Text]
    BY <1>2, <1>3
  <2>2. arrived.tools \union {b} \in SUBSET Indices
    BY <1>1, <1>2
  <2> QED BY <2>1, <2>2 DEF Arrivals
<1> QED BY <1>4, <1>5 DEF Arriving, b

\* The lines of an event, and what remains of them, are lines.
LEMMA LinesTypes ==
  ASSUME NEW e \in Events
  PROVE  /\ Lines(e) \in Seq(AllLines) /\ Rest(e) \in Seq(AllLines)
         /\ <<DataLine(e)>> \o Rest(e) \in Seq(AllLines)
         /\ Lines(e) = (IF Messages THEN Named(NameOf(e), <<DataLine(e)>> \o Rest(e))
                         ELSE <<DataLine(e)>> \o Rest(e))
<1> DEFINE id == IF scenario.ids THEN <<IdLine(e.n)>> ELSE <<>>
           data == <<DataLine(e)>>
           blank == <<Blank>>
<1>1. data \in Seq(AllLines) /\ id \in Seq(AllLines) /\ blank \in Seq(AllLines)
  BY LineTypes DEF Events
<1>2. Rest(e) = id \o blank
  BY DEF Rest
<1>3. Lines(e) = IF scenario.shape = "messages" THEN Named(NameOf(e), data \o id \o blank)
                 ELSE data \o id \o blank
  BY DEF Lines
<1> HIDE DEF data, id, blank
<1>4. data \o id \o blank = data \o (id \o blank)
  BY <1>1
<1>5. id \o blank \in Seq(AllLines) /\ data \o (id \o blank) \in Seq(AllLines)
  BY <1>1, SequencesOf
<1>6. Named(NameOf(e), data \o (id \o blank)) \in Seq(AllLines)
  BY <1>5, NamedTypes, LineTypes
<1> QED BY <1>2, <1>3, <1>4, <1>5, <1>6 DEF Messages, data

\* A sequence with other elements.
LEMMA MappedSequence ==
  ASSUME NEW S, NEW s \in Seq(S), NEW f, DOMAIN f = DOMAIN s, f = [i \in DOMAIN s |-> f[i]],
         \A i \in DOMAIN s : f[i] \in S
  PROVE  f \in Seq(S)
<1>1. Len(s) \in Nat /\ DOMAIN s = 1..Len(s)
  OBVIOUS
<1>2. f \in [1..Len(s) -> S]
  BY <1>1
<1> QED BY <1>1, <1>2

\* The blocks of the copy stay blocks.
LEMMA AssembledTypes ==
  ASSUME NEW blocks \in Seq(Blocks), NEW line \in AllLines
  PROVE  Assembled(blocks, line) \in Seq(Blocks)
<1> DEFINE e == line.event
           opened == Opened(blocks, Slot(e))
<1>1. e \in Events
  BY DEF AllLines
<1>2. Slot(e) \in Indices /\ e.text \in Text
  BY <1>1, LineTypes DEF Events
<1> HIDE DEF e
<1>3. opened \in Seq(Blocks)
  <2>1. [index |-> Slot(e), label |-> "text", said |-> <<>>] \in Blocks
    BY <1>2, TextFacts DEF Blocks
  <2> QED BY <2>1 DEF Opened
<1> HIDE DEF opened
<1>4. ASSUME NEW label \in Starts PROVE Labelled(opened, Slot(e), label) \in Seq(Blocks)
  <2>1. \A block \in Blocks : [block EXCEPT !.label = label] \in Blocks
    BY <1>4 DEF Blocks, Starts
  <2> DEFINE f == Labelled(opened, Slot(e), label)
  <2>2. /\ DOMAIN f = DOMAIN opened
        /\ \A i \in DOMAIN opened : f[i] = (IF opened[i].index = Slot(e)
                                            THEN [opened[i] EXCEPT !.label = label] ELSE opened[i])
        /\ f = [i \in DOMAIN opened |-> f[i]]
    BY DEF Labelled
  <2> HIDE DEF f
  <2>3. \A i \in DOMAIN opened : f[i] \in Blocks
    <3>1. \A i \in DOMAIN opened : opened[i] \in Blocks
      BY <1>3
    <3> QED BY <2>1, <2>2, <3>1
  <2> QED BY <1>3, <2>2, <2>3, MappedSequence DEF f
<1>5. Added(opened, Slot(e), e.text) \in Seq(Blocks)
  <2>1. \A block \in Blocks : [block EXCEPT !.said = @ \o e.text] \in Blocks
    BY <1>2, TextFacts DEF Blocks
  <2> DEFINE f == Added(opened, Slot(e), e.text)
  <2>2. /\ DOMAIN f = DOMAIN opened
        /\ \A i \in DOMAIN opened : f[i] = (IF opened[i].index = Slot(e)
                                            THEN [opened[i] EXCEPT !.said = @ \o e.text] ELSE opened[i])
        /\ f = [i \in DOMAIN opened |-> f[i]]
    BY DEF Added
  <2> HIDE DEF f
  <2>3. \A i \in DOMAIN opened : f[i] \in Blocks
    <3>1. \A i \in DOMAIN opened : opened[i] \in Blocks
      BY <1>3
    <3> QED BY <2>1, <2>2, <3>1
  <2> QED BY <1>3, <2>2, <2>3, MappedSequence DEF f
<1>6. Assembled(blocks, line)
      = CASE e.type \in Starts -> Labelled(opened, Slot(e), e.type)
          [] e.type \in {"text_delta", "json_delta"} -> Added(opened, Slot(e), e.text)
          [] OTHER -> blocks
  BY DEF Assembled, opened, e, Starts
<1> QED BY <1>4, <1>5, <1>6 DEF Starts

\* A caller that takes a line is a caller.
LEMMA TookTypes ==
  ASSUME NEW c \in Clients, NEW line \in AllLines
  PROVE  Took(c, line) \in Clients
<1>1. c.event \in Events /\ line.event \in Events /\ line.name \in Names /\ line.n \in Nat
  BY DEF Clients, AllLines
<1>2. Acted(c) \in Clients
  <2> DEFINE e == c.event
             b == Slot(e)
  <2>1. b \in Indices /\ e.text \in Text
    BY <1>1, LineTypes DEF Events
  <2>2. Acted(c) = CASE e.type = "text_delta" -> [c EXCEPT !.text[b] = @ \o e.text]
                     [] e.type = "json_delta" -> [c EXCEPT !.args[b] = @ \o e.text]
                     [] e.type = "block_stop" -> [c EXCEPT !.stopped = @ \union {b}]
                     [] OTHER -> c
    BY DEF Acted
  <2> HIDE DEF e, b
  <2>3. /\ c.text \in [Indices -> Text] /\ c.args \in [Indices -> Text]
        /\ c.stopped \in SUBSET Indices
    BY DEF Clients
  <2>4. c.text[b] \o e.text \in Text /\ c.args[b] \o e.text \in Text
    BY <2>1, <2>3, TextFacts
  <2>5. [c EXCEPT !.text[b] = @ \o e.text] \in Clients
    <3>1. [c.text EXCEPT ![b] = @ \o e.text] \in [Indices -> Text]
      BY <2>3, <2>4
    <3> QED BY <3>1 DEF Clients
  <2>6. [c EXCEPT !.args[b] = @ \o e.text] \in Clients
    <3>1. [c.args EXCEPT ![b] = @ \o e.text] \in [Indices -> Text]
      BY <2>3, <2>4
    <3> QED BY <3>1 DEF Clients
  <2>7. [c EXCEPT !.stopped = @ \union {b}] \in Clients
    <3>1. c.stopped \union {b} \in SUBSET Indices
      BY <2>1, <2>3
    <3> QED BY <3>1 DEF Clients
  <2> QED BY <2>2, <2>5, <2>6, <2>7
<1>3. [Acted(c) EXCEPT !.coherent = c.coherent /\ Sound(c), !.name = Unnamed, !.event = NoEvent, !.id = 0]
        \in Clients
  <2>1. (c.coherent /\ Sound(c)) \in BOOLEAN /\ Unnamed \in Names /\ NoEvent \in Events
    BY LineTypes DEF Names
  <2> QED BY <1>2, <2>1 DEF Clients
<1>4. /\ [c EXCEPT !.name = line.name] \in Clients /\ [c EXCEPT !.event = line.event] \in Clients
      /\ [c EXCEPT !.id = line.n] \in Clients /\ [c EXCEPT !.done = TRUE] \in Clients
  BY <1>1 DEF Clients
<1> QED BY <1>3, <1>4 DEF Took, AllLines, Partial

\* What every line keeps, a portion of lines keeps.
LEMMA TakenKeeps ==
  ASSUME NEW S, NEW G, NEW c \in G, NEW lines \in Seq(S),
         \A d \in G : \A line \in S : Took(d, line) \in G
  PROVE  Taken(c, lines) \in G
<1>1. PICK g : TakesTo(c, lines, g, Len(lines)) /\ Taken(c, lines) = g[Len(lines)]
  BY TakenUnfolds
<1> DEFINE M == {i \in Nat : i <= Len(lines) => g[i] \in G}
<1>2. \A i \in 0..Len(lines) : g[i] = IF i = 0 THEN c ELSE Took(g[i - 1], lines[i])
  BY <1>1 DEF TakesTo
<1>3. 0 \in M
  BY <1>2
<1>4. ASSUME NEW i \in Nat, i \in M PROVE i + 1 \in M
  <2> SUFFICES ASSUME i + 1 <= Len(lines) PROVE g[i + 1] \in G
    OBVIOUS
  <2>1. g[i] \in G /\ lines[i + 1] \in S
    BY <1>4
  <2>2. i + 1 \in 0..Len(lines) /\ i + 1 # 0 /\ (i + 1) - 1 = i
    OBVIOUS
  <2>3. g[i + 1] = Took(g[i], lines[i + 1])
    BY <1>2, <2>2
  <2> QED BY <2>1, <2>3
<1> HIDE DEF M
<1>5. M = Nat
  BY <1>3, <1>4, Induction DEF M
<1> QED BY <1>1, <1>5 DEF M

\* So is one that takes several.
LEMMA TakenTypes ==
  ASSUME NEW c \in Clients, NEW lines \in Seq(AllLines)
  PROVE  Taken(c, lines) \in Clients
BY TookTypes, TakenKeeps

\* Only the end of the body ends the caller's reading.
LEMMA TakenResult ==
  ASSUME NEW c \in Clients, NEW lines \in Seq(AllLines)
  PROVE  Taken(c, lines).result = c.result /\ Taken(c, lines).named = c.named
<1> DEFINE G == {d \in Clients : d.result = c.result /\ d.named = c.named}
<1>1. ASSUME NEW d \in Clients, NEW line \in AllLines 
      PROVE  Took(d, line).result = d.result /\ Took(d, line).named = d.named
  <2>1. Acted(d).result = d.result /\ Acted(d).named = d.named /\ DOMAIN Acted(d) = DOMAIN d
    BY DEF Acted, Clients
  <2>2. \A f, g, h, i :
          LET a == [Acted(d) EXCEPT !.coherent = f, !.name = g, !.event = h, !.id = i]
          IN  a.result = d.result /\ a.named = d.named
    BY <2>1 DEF Clients
  <2>3. \A a \in {[d EXCEPT !.name = line.name], [d EXCEPT !.event = line.event],
                  [d EXCEPT !.id = line.n], [d EXCEPT !.done = TRUE], d} :
          a.result = d.result /\ a.named = d.named
    BY DEF Clients
  <2> QED BY <2>2, <2>3 DEF Took, AllLines, Partial
<1>2. \A d \in G : \A line \in AllLines : Took(d, line) \in G
  BY <1>1, TookTypes
<1>3. c \in G
  OBVIOUS
<1> HIDE DEF G
<1>4. Taken(c, lines) \in G
  BY <1>2, <1>3, TakenKeeps
<1> QED BY <1>4 DEF G

\* What closing a block leaves alone, and what becomes of the rest.
SameReading(p, q) ==
  /\ p.block = q.block /\ p.name = q.name /\ p.held = q.held /\ p.done = q.done
  /\ p.readErr = q.readErr /\ p.observing = q.observing /\ p.joined = q.joined
SameCounts(p, q) ==
  /\ p.model = q.model /\ p.input = q.input /\ p.output = q.output
  /\ p.usageSent = q.usageSent /\ p.usage = q.usage
SameTemplate(p, q) == p.template = q.template /\ p.templateName = q.templateName
SameTelling(p, q) ==
  p.console = q.console /\ p.toolName = q.toolName /\ p.arguments = q.arguments
SameHeld(p, q) ==
  p.pending = q.pending /\ p.argumentsIn = q.argumentsIn /\ p.argumentsName = q.argumentsName

ToldOf(p, q, args, restored) ==
  /\ p.console = Append(q.console, [tool |-> q.toolName, args |-> args, restored |-> restored])
  /\ p.toolName = None /\ p.arguments = <<>>

\* Closing a block lets go of all that is held, and tells of a held call.
LEMMA CloseFields ==
  ASSUME Mapping(Known), NEW x \in Steps
  PROVE  LET y == CloseBlock(x)
             whole == Restored(Known, x.r.arguments)
         IN  /\ y \in Steps
             /\ SameReading(y.r, x.r) /\ SameCounts(y.r, x.r) /\ SameTemplate(y.r, x.r)
             /\ y.r.pending = <<>> /\ y.r.argumentsIn = NoEvent
             /\ x.r.argumentsIn = NoEvent => SameTelling(y.r, x.r)
             /\ x.r.argumentsIn # NoEvent => ToldOf(y.r, x.r, whole, whole # x.r.arguments)
<1> DEFINE y == CloseBlock(x)
           z == ArgumentsReleased(x)
           whole == Restored(Known, x.r.arguments)
<1>1. y \in Steps /\ z \in Steps /\ x.r \in Rehydrators /\ z.r \in Rehydrators /\ y.r \in Rehydrators
  BY ReleasedTypes DEF Steps
<1>2. /\ SameReading(z.r, x.r) /\ SameCounts(z.r, x.r) /\ SameTemplate(z.r, x.r)
      /\ z.r.argumentsIn = NoEvent
      /\ x.r.argumentsIn = NoEvent => SameTelling(z.r, x.r)
      /\ x.r.argumentsIn # NoEvent => ToldOf(z.r, x.r, whole, whole # x.r.arguments)
  <2>1. CASE x.r.argumentsIn = NoEvent
    BY <2>1 DEF ArgumentsReleased, SameReading, SameCounts, SameTemplate, SameTelling
  <2>2. CASE x.r.argumentsIn # NoEvent
    <3> DEFINE q == Tell(x.r, whole, whole # x.r.arguments)
               d == IF IsDocument(x.r.arguments) THEN q.degraded ELSE q.degraded + 1
    <3>1. z.r = [q EXCEPT !.arguments = <<>>, !.argumentsIn = NoEvent, !.argumentsName = Unnamed,
                          !.degraded = d]
      BY <2>2 DEF ArgumentsReleased, HeldWritten
    <3>2. /\ SameReading(q, x.r) /\ SameCounts(q, x.r) /\ SameTemplate(q, x.r)
          /\ q.console = Append(x.r.console, [tool |-> x.r.toolName, args |-> whole,
                                              restored |-> whole # x.r.arguments])
          /\ q.toolName = None
      BY <1>1 DEF Tell, Rehydrators, SameReading, SameCounts, SameTemplate
    <3>3. q \in Rehydrators
      <4>1. whole \in Text /\ x.r.arguments \in Text /\ (whole # x.r.arguments) \in BOOLEAN
        BY <1>1, RestoredIsText DEF Rehydrators
      <4> QED BY <1>1, <4>1, TellTypes
    <3> HIDE DEF q, d
    <3> QED BY <2>2, <3>1, <3>2, <3>3
            DEF Rehydrators, SameReading, SameCounts, SameTemplate, ToldOf
  <2> QED BY <2>1, <2>2
<1>3. /\ SameReading(y.r, z.r) /\ SameCounts(y.r, z.r) /\ SameTemplate(y.r, z.r)
      /\ SameTelling(y.r, z.r) /\ y.r.pending = <<>> /\ y.r.argumentsIn = z.r.argumentsIn
  <2>1. CASE z.r.pending = <<>>
    BY <2>1 DEF CloseBlock, TailReleased, SameReading, SameCounts, SameTemplate, SameTelling
  <2>2. CASE z.r.pending # <<>>
    <3>1. y.r = [z.r EXCEPT !.pending = <<>>]
      BY <2>2 DEF CloseBlock, TailReleased
    <3> HIDE DEF y, z
    <3> QED BY <1>1, <3>1 DEF Rehydrators, SameReading, SameCounts, SameTemplate, SameTelling
  <2> QED BY <2>1, <2>2
<1> HIDE DEF y, z, whole
<1>4. /\ SameReading(y.r, x.r) /\ SameCounts(y.r, x.r) /\ SameTemplate(y.r, x.r)
  BY <1>2, <1>3 DEF SameReading, SameCounts, SameTemplate
<1>5. /\ x.r.argumentsIn = NoEvent => SameTelling(y.r, x.r)
      /\ x.r.argumentsIn # NoEvent => ToldOf(y.r, x.r, whole, whole # x.r.arguments)
  BY <1>2, <1>3 DEF SameTelling, ToldOf
<1> QED BY <1>1, <1>2, <1>3, <1>4, <1>5 DEF y, whole

\* A slice that is held.
FragmentAs(y, x, e, name) ==
  /\ y.out = x.out /\ SameCounts(y.r, x.r) /\ SameTemplate(y.r, x.r)
  /\ y.r.pending = x.r.pending /\ y.r.console = x.r.console
  /\ y.r.toolName = x.r.toolName /\ y.r.block = x.r.block /\ y.r.name = x.r.name
  /\ y.r.held = TRUE /\ y.r.done = x.r.done /\ y.r.observing = x.r.observing
  /\ y.r.arguments = x.r.arguments \o e.text
  /\ y.r.argumentsIn = (IF x.r.argumentsIn = NoEvent THEN [e EXCEPT !.text = <<>>]
                        ELSE x.r.argumentsIn)
  /\ y.r.argumentsName = (IF x.r.argumentsIn = NoEvent THEN name ELSE x.r.argumentsName)
  /\ y.r.readErr = x.r.readErr /\ y.r.joined = x.r.joined

\* Holding a fragment, field by field.
LEMMA FragmentFields ==
  ASSUME NEW x \in Steps, NEW e \in Events, NEW name \in Names
  PROVE  FragmentAs(FragmentHeld(x, e, name), x, e, name)
<1> DEFINE y == FragmentHeld(x, e, name)
           in == IF x.r.argumentsIn = NoEvent THEN [e EXCEPT !.text = <<>>] ELSE x.r.argumentsIn
           inName == IF x.r.argumentsIn = NoEvent THEN name ELSE x.r.argumentsName
           more == x.r.arguments \o e.text
           z == [x EXCEPT !.r.argumentsIn = in, !.r.argumentsName = inName,
                          !.r.arguments = more, !.r.held = TRUE]
<1>1. x.r \in Rehydrators
  BY DEF Steps
<1>2. x = [r |-> x.r, out |-> x.out]
  BY DEF Steps
<1>3. y = z
  BY <1>1, <1>2 DEF FragmentHeld, Rehydrators
<1> HIDE DEF in, inName, more
<1>4. /\ z.out = x.out /\ SameCounts(z.r, x.r) /\ SameTemplate(z.r, x.r)
      /\ z.r.pending = x.r.pending /\ z.r.console = x.r.console
      /\ z.r.toolName = x.r.toolName /\ z.r.block = x.r.block /\ z.r.name = x.r.name
      /\ z.r.held = TRUE /\ z.r.done = x.r.done /\ z.r.observing = x.r.observing
      /\ z.r.arguments = more /\ z.r.argumentsIn = in /\ z.r.argumentsName = inName
      /\ z.r.readErr = x.r.readErr /\ z.r.joined = x.r.joined
  BY <1>1, <1>2 DEF SameCounts, SameTemplate, Rehydrators
<1> HIDE DEF y, z
<1>5. FragmentAs(z, x, e, name)
  BY <1>4 DEF FragmentAs, in, inName, more
<1> QED BY <1>3, <1>5 DEF y

\* A text that is cut: what can go out goes out.
CutAs(y, x, e, name, combined, tail) ==
  /\ y.out = x.out \o Named(name,
       <<DataLine([e EXCEPT !.text = Expanded(Known, Start(combined, Len(combined) - tail))]), Blank>>)
  /\ SameReading(y.r, x.r) /\ SameCounts(y.r, x.r) /\ SameTelling(y.r, x.r)
  /\ y.r.argumentsIn = x.r.argumentsIn /\ y.r.argumentsName = x.r.argumentsName
  /\ y.r.template = [e EXCEPT !.text = <<>>] /\ y.r.templateName = name

\* Cutting a text, field by field.
LEMMA CutFields ==
  ASSUME NEW x \in Steps, NEW e \in Events, NEW name \in Names, NEW combined, NEW tail
  PROVE  CutAs(CutAt(x, e, name, combined, tail), x, e, name, combined, tail)
<1>1. x.r \in Rehydrators
  BY DEF Steps
<1> QED BY <1>1 DEF CutAt, CutAs, Rehydrators, SameReading, SameCounts, SameTelling

\* An event that is written, by its type.
WrittenAs(y, x, e, name) ==
  /\ e.type = "block_stop" =>
       /\ y.r = CloseBlock(x).r
       /\ y.out = CloseBlock(x).out \o Named(name, <<DataLine(e)>>)
  /\ e.type = "json_delta" => y = FragmentHeld(x, e, name)
  /\ e.type = "text_delta" => \E combined \in Text : \E tail \in 0..Len(combined) :
                                y = CutAt(x, e, name, combined, tail)
  /\ e.type \in Starts =>
       /\ y.r = [x.r EXCEPT !.toolName = ToolOf(e)]
       /\ y.out = x.out \o Named(name, <<DataLine(e), Blank>>)
  /\ e.type \in {"none", "message_start", "ping", "message_delta"} =>
       y.r = x.r /\ y.out = x.out \o Named(name, <<DataLine(e), Blank>>)

\* What is written for an event, field by field.
LEMMA WrittenFields ==
  ASSUME Mapping(Known), NEW x \in Steps, NEW e \in Events, NEW name \in Names
  PROVE  WrittenAs(EventWritten(x, e, name), x, e, name)
<1> USE DEF WrittenAs
<1>1. x = [r |-> x.r, out |-> x.out]
  BY DEF Steps
<1>2. CASE e.type = "block_stop"
  <2>1. EventWritten(x, e, name) = Wrote(CloseBlock(x), Named(name, <<DataLine(e)>>))
    BY <1>2 DEF EventWritten
  <2>2. \E p, q : CloseBlock(x) = [r |-> p, out |-> q]
    BY <1>1 DEF CloseBlock, ArgumentsReleased, HeldWritten, TailReleased
  <2> QED BY <1>2, <2>1, <2>2 DEF Wrote, Starts
<1>3. CASE e.type = "json_delta"
  BY <1>3 DEF EventWritten, Starts
<1>4. CASE e.type = "text_delta"
  <2> DEFINE combined == x.r.pending \o e.text
             tail == TailLen(Known, combined)
  <2>1. EventWritten(x, e, name) = CutAt(x, e, name, combined, tail)
    BY <1>4 DEF EventWritten, TextRewritten
  <2>2. combined \in Text
    BY TextFacts DEF Steps, Rehydrators, Events
  <2> HIDE DEF combined
  <2>3. tail \in 0..Len(combined)
    BY <2>2, TailLenIsLength
  <2> QED BY <1>4, <2>1, <2>2, <2>3 DEF Starts
<1>5. CASE e.type \in Starts
  <2>1. EventWritten(x, e, name)
        = Wrote([x EXCEPT !.r.toolName = ToolOf(e)], Named(name, <<DataLine(e), Blank>>))
    BY <1>5 DEF EventWritten, Starts
  <2> DEFINE q == [x.r EXCEPT !.toolName = ToolOf(e)]
             lines == Named(name, <<DataLine(e), Blank>>)
             z == [x EXCEPT !.r.toolName = ToolOf(e)]
  <2>2. z = [r |-> q, out |-> x.out]
    BY <1>1
  <2> HIDE DEF q, lines, z
  <2>3. Wrote(z, lines) = [r |-> q, out |-> x.out \o lines]
    <3>1. \A a, b, c : [[r |-> a, out |-> b] EXCEPT !.out = c] = [r |-> a, out |-> c]
      OBVIOUS
    <3>2. z.out = x.out
      BY <2>2
    <3> QED BY <2>2, <3>1, <3>2, Zenon DEF Wrote
  <2>3a. EventWritten(x, e, name) = [r |-> q, out |-> x.out \o lines]
    BY <2>1, <2>3, Zenon DEF z, lines
  <2>4. EventWritten(x, e, name).r = q /\ EventWritten(x, e, name).out = x.out \o lines
    BY <2>3a
  <2> QED BY <1>5, <2>4 DEF Starts, q, lines
<1>6. CASE e.type \in {"none", "message_start", "ping", "message_delta"}
  <2>1. EventWritten(x, e, name) = Wrote(x, Named(name, <<DataLine(e), Blank>>))
    BY <1>6 DEF EventWritten
  <2> QED BY <1>1, <1>6, <2>1 DEF Wrote, Starts
<1> QED BY <1>2, <1>3, <1>4, <1>5, <1>6 DEF Starts

\* Telling of the observed call, field by field.
LEMMA ReportedFields ==
  ASSUME NEW rr \in Rehydrators
  PROVE  LET p == ArgumentsReported(rr)
         IN  /\ p \in Rehydrators /\ ~p.observing
             /\ SameCounts(p, rr) /\ SameTemplate(p, rr) /\ SameHeld(p, rr)
             /\ p.block = rr.block /\ p.name = rr.name /\ p.held = rr.held /\ p.done = rr.done
             /\ p.readErr = rr.readErr /\ p.joined = rr.joined
             /\ ~rr.observing => SameTelling(p, rr)
             /\ rr.observing => ToldOf(p, rr, rr.arguments, FALSE)
<1>1. ArgumentsReported(rr) \in Rehydrators
  BY ObservedTypes, LineTypes
<1>2. CASE ~rr.observing
  BY <1>1, <1>2 DEF ArgumentsReported, SameCounts, SameTemplate, SameHeld, SameTelling
<1>3. CASE rr.observing
  BY <1>1, <1>3 DEF ArgumentsReported, Tell, Rehydrators, SameCounts, SameTemplate, SameHeld, ToldOf
<1> QED BY <1>2, <1>3

\* Before an event is written: its counts are noted, the block before it is closed,
\* its name is taken.
Noted(x, e) == [x EXCEPT !.r = NoteUsage(x.r, e)]
Entered(x, e) == BlockEntered(Noted(x, e), e)

\* Entering the block of an event, field by field.
LEMMA EnteredFields ==
  ASSUME Mapping(Known), NEW x \in Steps, NEW e \in Events
  PROVE  LET n == Noted(x, e)
             y == Entered(x, e)
             t == NameTaken(y)
         IN  /\ n \in Steps /\ y \in Steps /\ t \in Steps
             /\ n.out = x.out /\ SameReading(n.r, x.r) /\ SameTemplate(n.r, x.r)
             /\ SameTelling(n.r, x.r) /\ SameHeld(n.r, x.r)
             /\ n.r.usageSent = x.r.usageSent /\ n.r.usage = x.r.usage
             /\ IF e.index = None \/ e.index = x.r.block THEN y = n
                ELSE /\ y.out = CloseBlock(n).out
                     /\ y.r = [CloseBlock(n).r EXCEPT !.block = e.index]
             /\ t.out = y.out /\ t.r = [y.r EXCEPT !.name = Unnamed]
             /\ EventRewritten(x, e) = EventWritten(t, e, y.r.name)
<1> DEFINE n == Noted(x, e)
           y == Entered(x, e)
           t == NameTaken(y)
<1>0. x = [r |-> x.r, out |-> x.out] /\ x.r \in Rehydrators
  BY DEF Steps
<1>1. n \in Steps /\ n.out = x.out /\ n.r = NoteUsage(x.r, e)
  BY NoteUsageTypes DEF Steps, Noted
<1>2. /\ SameReading(n.r, x.r) /\ SameTemplate(n.r, x.r)
      /\ SameTelling(n.r, x.r) /\ SameHeld(n.r, x.r)
      /\ n.r.usageSent = x.r.usageSent /\ n.r.usage = x.r.usage
  BY <1>0, <1>1 DEF NoteUsage, Rehydrators, SameReading, SameTemplate, SameTelling, SameHeld
<1>3. EventRewritten(x, e) = EventWritten(t, e, y.r.name)
  BY Zenon DEF EventRewritten, Entered, Noted
<1>4. n.r.block = x.r.block
  BY <1>2 DEF SameReading
<1> HIDE DEF n
<1> DEFINE k == CloseBlock(n)
<1>5. k \in Steps
  BY <1>1, ReleasedTypes
<1>6. k = [r |-> k.r, out |-> k.out] /\ k.r \in Rehydrators
  BY <1>5 DEF Steps
<1>7. y = IF e.index = None \/ e.index = n.r.block THEN n ELSE [k EXCEPT !.r.block = e.index]
  BY DEF BlockEntered, Entered, n
<1> HIDE DEF k, y
<1>8. /\ y \in Steps
      /\ IF e.index = None \/ e.index = x.r.block THEN y = n
         ELSE y.out = k.out /\ y.r = [k.r EXCEPT !.block = e.index]
  <2>1. e.index \in Places
    BY DEF Events
  <2> DEFINE q == [k.r EXCEPT !.block = e.index]
  <2>2. q \in Rehydrators
    BY <1>6, <2>1 DEF Rehydrators
  <2>3. [k EXCEPT !.r.block = e.index] = [r |-> q, out |-> k.out]
    BY <1>6
  <2> HIDE DEF q
  <2>4. [r |-> q, out |-> k.out] \in Steps
    BY <1>5, <2>2 DEF Steps
  <2>5. CASE e.index = None \/ e.index = n.r.block
    BY <1>1, <1>4, <1>7, <2>5
  <2>6. CASE ~(e.index = None \/ e.index = n.r.block)
    <3>1. y = [r |-> q, out |-> k.out]
      BY <1>7, <2>3, <2>6
    <3> QED BY <1>4, <2>4, <2>6, <3>1 DEF q
  <2> QED BY <2>5, <2>6
<1>9. t \in Steps /\ t.out = y.out /\ t.r = [y.r EXCEPT !.name = Unnamed]
  <2>1. y = [r |-> y.r, out |-> y.out] /\ y.r \in Rehydrators /\ Unnamed \in Names
    BY <1>8 DEF Steps, Names
  <2>2. [y.r EXCEPT !.name = Unnamed] \in Rehydrators
    BY <2>1 DEF Rehydrators
  <2> QED BY <1>8, <2>1, <2>2 DEF NameTaken, Steps
<1> QED BY <1>1, <1>2, <1>3, <1>8, <1>9 DEF n, k, y

\* What is held is still held in its event when a block has been closed.
LEMMA KeptClosed ==
  ASSUME Mapping(Known), NEW x \in Steps, KeptIn(x.r)
  PROVE  CloseBlock(x) \in Steps /\ KeptIn(CloseBlock(x).r)
<1>1. NoEvent.type = "none"
  BY DEF NoEvent, Event
<1> QED BY <1>1, CloseFields DEF KeptIn, SameTemplate

\* And when a line, or the end, has been read.
LEMMA KeptRead ==
  ASSUME Mapping(Known), NEW x \in Steps, KeptIn(x.r)
  PROVE  KeptIn(Flushed(x).r) /\ \A line \in AllLines : KeptIn(Read(x, line).r)
<1>0. x.r \in Rehydrators /\ x = [r |-> x.r, out |-> x.out]
  BY DEF Steps
<1>1. KeptIn(Flushed(x).r)
  <2> DEFINE y == [x EXCEPT !.r = ArgumentsReported(x.r)]
  <2>1. y \in Steps /\ y.r = ArgumentsReported(x.r)
    BY <1>0, ReportedFields DEF Steps
  <2>2. KeptIn(y.r)
    BY <1>0, <2>1, ReportedFields DEF KeptIn, SameTemplate, SameHeld
  <2> HIDE DEF y
  <2>3. KeptIn(CloseBlock(y).r)
    BY <2>1, <2>2, KeptClosed
  <2> QED BY <2>3 DEF Flushed, y
<1>2. ASSUME NEW line \in AllLines PROVE KeptIn(Observed(x.r, line))
  <2> DEFINE e == line.event
             n == NoteUsage(x.r, e)
             y == IF e.index = None \/ e.index = n.block THEN n
                  ELSE [ArgumentsReported(n) EXCEPT !.block = e.index]
  <2>1. e \in Events
    BY DEF AllLines
  <2>2. n \in Rehydrators /\ KeptIn(n)
    BY <1>0, NoteUsageTypes DEF NoteUsage, Rehydrators, KeptIn
  <2> HIDE DEF e, n
  <2>3. \A q \in Rehydrators : KeptIn(q) => KeptIn(ArgumentsReported(q)) /\ ArgumentsReported(q) \in Rehydrators
    BY ReportedFields DEF KeptIn, SameTemplate, SameHeld
  <2>4. \A q \in Rehydrators : KeptIn(q) => KeptIn([q EXCEPT !.block = e.index])
    BY DEF KeptIn, Rehydrators
  <2>5. \A q \in Rehydrators : [q EXCEPT !.block = e.index] \in Rehydrators
    BY <2>1 DEF Rehydrators, Events
  <2>6. y \in Rehydrators /\ KeptIn(y)
    BY <2>2, <2>3, <2>4, <2>5
  <2> HIDE DEF y
  <2>7. /\ KeptIn([y EXCEPT !.arguments = @ \o e.text, !.observing = TRUE])
        /\ KeptIn([y EXCEPT !.toolName = ToolOf(e)])
    BY <2>6 DEF KeptIn, Rehydrators
  <2>8. Observed(x.r, line) \in {x.r, ArgumentsReported(y), y,
          [y EXCEPT !.arguments = @ \o e.text, !.observing = TRUE],
          [y EXCEPT !.toolName = ToolOf(e)]}
    BY DEF Observed, y, n, e
  <2> QED BY <2>3, <2>6, <2>7, <2>8
<1>3. ASSUME NEW line \in AllLines PROVE KeptIn(Rewritten(x, line).r)
  <2>0. line.event \in Events
    BY DEF AllLines
  <2>1. \A y \in Steps : \A lines : Wrote(y, lines).r = y.r
    BY DEF Wrote, Steps
  <2>2. [x EXCEPT !.r.held = FALSE] \in Steps /\ KeptIn([x EXCEPT !.r.held = FALSE].r)
    BY <1>0 DEF Steps, Rehydrators, KeptIn
  <2>3. KeptIn(NameWithheld(x, line).r)
    BY <1>0 DEF NameWithheld, Rehydrators, KeptIn
  <2>4. KeptIn(BlankRead(x, line).r) /\ KeptIn(OtherRead(x, line).r)
    BY <2>1, <2>2 DEF BlankRead, OtherRead
  <2>5. KeptIn(UnreadableRead(x, line).r)
    <3> DEFINE k == CloseBlock([x EXCEPT !.r.held = FALSE])
    <3>1. k \in Steps /\ KeptIn(k.r)
      BY <2>2, KeptClosed
    <3> HIDE DEF k
    <3>2. NameTaken(k) \in Steps /\ KeptIn(NameTaken(k).r)
      BY <3>1 DEF NameTaken, Steps, Rehydrators, KeptIn, Names
    <3>3. UnreadableRead(x, line) = Wrote(NameTaken(k), Named(k.r.name, <<line>>))
      BY DEF UnreadableRead, k
    <3> QED BY <2>1, <3>2, <3>3
  <2>6. KeptIn(EventRewritten([x EXCEPT !.r.held = FALSE], line.event).r)
    <3> DEFINE z == [x EXCEPT !.r.held = FALSE]
               e == line.event
               y == Entered(z, e)
               t == NameTaken(y)
    <3>1. z \in Steps /\ KeptIn(z.r) /\ e \in Events
      BY <2>0, <2>2
    <3> HIDE DEF z, e
    <3>2. Noted(z, e) \in Steps /\ KeptIn(Noted(z, e).r)
      BY <3>1, EnteredFields DEF KeptIn, SameTemplate, SameHeld
    <3>3. KeptIn(CloseBlock(Noted(z, e)).r) /\ CloseBlock(Noted(z, e)).r \in Rehydrators
      BY <3>2, KeptClosed DEF Steps
    <3>4. KeptIn(y.r) /\ y \in Steps
      <4>1. KeptIn([CloseBlock(Noted(z, e)).r EXCEPT !.block = e.index])
        BY <3>3 DEF KeptIn, Rehydrators
      <4> QED BY <3>1, <3>2, <4>1, EnteredFields
    <3>5. t \in Steps /\ t.r = [y.r EXCEPT !.name = Unnamed]
          /\ EventRewritten(z, e) = EventWritten(t, e, y.r.name)
      BY <3>1, EnteredFields
    <3> HIDE DEF y, t
    <3>6. KeptIn(t.r) /\ y.r.name \in Names /\ t.r \in Rehydrators
      BY <3>4, <3>5 DEF KeptIn, Steps, Rehydrators
    <3> DEFINE name == y.r.name
               w == EventWritten(t, e, name)
    <3> HIDE DEF name
    <3>7. name \in Names
      BY <3>6 DEF name
    <3>a. WrittenAs(w, t, e, name)
      BY <3>1, <3>5, <3>7, WrittenFields
    <3> HIDE DEF w
    <3>8. ASSUME e.type = "block_stop" PROVE KeptIn(w.r)
      <4>1. w.r = CloseBlock(t).r
        BY <3>a, <3>8 DEF WrittenAs
      <4> QED BY <3>5, <3>6, <4>1, KeptClosed
    <3>9. ASSUME e.type = "json_delta" PROVE KeptIn(w.r)
      <4>1. w = FragmentHeld(t, e, name)
        BY <3>a, <3>9 DEF WrittenAs
      <4>2. /\ SameTemplate(w.r, t.r) /\ w.r.pending = t.r.pending
            /\ w.r.argumentsIn = (IF t.r.argumentsIn = NoEvent THEN [e EXCEPT !.text = <<>>]
                                  ELSE t.r.argumentsIn)
        <5>1. FragmentAs(w, t, e, name)
          BY <3>1, <3>5, <3>7, <4>1, FragmentFields
        <5> QED BY <5>1 DEF FragmentAs
      <4>3. [e EXCEPT !.text = <<>>].type = "json_delta"
        BY <3>1, <3>9 DEF Events
      <4> QED BY <3>6, <4>2, <4>3 DEF KeptIn, SameTemplate
    <3>10. ASSUME e.type = "text_delta" PROVE KeptIn(w.r)
      <4>0. PICK combined \in Text : \E tail \in 0..Len(combined) :
                                     w = CutAt(t, e, name, combined, tail)
        BY <3>a, <3>10 DEF WrittenAs
      <4>1. PICK tail \in 0..Len(combined) : w = CutAt(t, e, name, combined, tail)
        BY <4>0
      <4>2. /\ w.r.template = [e EXCEPT !.text = <<>>] /\ w.r.argumentsIn = t.r.argumentsIn
        <5>1. CutAs(w, t, e, name, combined, tail)
          BY <3>1, <3>5, <3>7, <4>1, CutFields
        <5> QED BY <5>1 DEF CutAs
      <4>3. [e EXCEPT !.text = <<>>].type = "text_delta"
        BY <3>1, <3>10 DEF Events
      <4> QED BY <3>6, <4>2, <4>3 DEF KeptIn
    <3>11. ASSUME e.type \in Starts PROVE KeptIn(w.r)
      <4>1. w.r = [t.r EXCEPT !.toolName = ToolOf(e)]
        BY <3>a, <3>11 DEF WrittenAs
      <4> QED BY <3>6, <4>1 DEF KeptIn, Rehydrators
    <3>12. ASSUME e.type \in {"none", "message_start", "ping", "message_delta"} PROVE KeptIn(w.r)
      <4>1. w.r = t.r
        BY <3>a, <3>12 DEF WrittenAs
      <4> QED BY <3>6, <4>1
    <3>13. KeptIn(w.r)
      BY <3>1, <3>8, <3>9, <3>10, <3>11, <3>12 DEF Events, Kinds, Starts
    <3> QED BY <3>5, <3>13 DEF z, e, name, w
  <2> QED BY <2>3, <2>4, <2>5, <2>6 DEF Rewritten, AllLines
<1>4. ASSUME NEW line \in AllLines PROVE KeptIn(Read(x, line).r)
  BY <1>2, <1>3 DEF Read
<1> QED BY <1>1, <1>4

-----------------------------------------------------------------------------
(* The calls of a document. *)

\* g is the function that CallsReported is defined by, up to m blocks.
Tells(rr, g, m) ==
  g = [b \in 0..m |->
         IF b = 0 THEN rr
         ELSE IF b - 1 \in arrived.tools THEN CallReported(g[b - 1], b - 1) ELSE g[b - 1]]

\* The calls of a document can be told of one after the other.
LEMMA TellsExists ==
  ASSUME NEW rr
  PROVE  \A m \in Nat : \E g : Tells(rr, g, m)
<1> DEFINE M == {m \in Nat : \E g : Tells(rr, g, m)}
           next(p, b) == IF b \in arrived.tools THEN CallReported(p, b) ELSE p
<1>0. \A g, m : Tells(rr, g, m)
        <=> g = [b \in 0..m |-> IF b = 0 THEN rr ELSE next(g[b - 1], b - 1)]
  BY DEF Tells
<1> HIDE DEF next
<1>1. 0 \in M
  <2> DEFINE g == [i \in 0..0 |-> rr]
  <2>1. g = [b \in 0..0 |-> IF b = 0 THEN rr ELSE next(g[b - 1], b - 1)]
    OBVIOUS
  <2>2. Tells(rr, g, 0)
    BY <1>0, <2>1
  <2> QED BY <2>2
<1>2. ASSUME NEW m \in Nat, m \in M PROVE m + 1 \in M
  <2>1. PICK g : Tells(rr, g, m)
    BY <1>2
  <2> DEFINE h == [b \in 0..m+1 |-> IF b = m + 1 THEN next(g[m], m) ELSE g[b]]
  <2>2. \A b \in 0..m : h[b] = g[b]
    OBVIOUS
  <2>3. \A b \in 0..m : g[b] = IF b = 0 THEN rr ELSE next(g[b - 1], b - 1)
    BY <1>0, <2>1
  <2>4. \A b \in 0..m+1 : h[b] = IF b = 0 THEN rr ELSE next(h[b - 1], b - 1)
    BY <2>2, <2>3
  <2>5. Tells(rr, h, m + 1)
    BY <1>0, <2>4
  <2> QED BY <2>5
<1> HIDE DEF M
<1>3. M = Nat
  BY <1>1, <1>2, Induction DEF M
<1> QED BY <1>3 DEF M

\* What every call keeps, from the first block to the last.
LEMMA CallsUnfold ==
  ASSUME NEW rr
  PROVE  \E g : /\ CallsReported(rr) = g[MaxBlocks] /\ g[0] = rr
                /\ \A b \in Indices :
                     g[b + 1] = IF b \in arrived.tools THEN CallReported(g[b], b) ELSE g[b]
<1> DEFINE after == CHOOSE g : g = [b \in 0..MaxBlocks |->
             IF b = 0 THEN rr
             ELSE IF b - 1 \in arrived.tools THEN CallReported(g[b - 1], b - 1) ELSE g[b - 1]]
<1>1. CallsReported(rr) = after[MaxBlocks]
  BY DEF CallsReported
<1>2. PICK g : g = [b \in 0..MaxBlocks |->
             IF b = 0 THEN rr
             ELSE IF b - 1 \in arrived.tools THEN CallReported(g[b - 1], b - 1) ELSE g[b - 1]]
  <2> HIDE DEF after
  <2>1. PICK g : Tells(rr, g, MaxBlocks)
    BY TellsExists, BoundsAssumption
  <2> QED BY <2>1 DEF Tells
<1>3. Tells(rr, after, MaxBlocks)
  BY <1>2 DEF Tells
<1> HIDE DEF after
<1> DEFINE next(p, b) == IF b \in arrived.tools THEN CallReported(p, b) ELSE p
<1>4. \A b \in 0..MaxBlocks : after[b] = IF b = 0 THEN rr ELSE next(after[b - 1], b - 1)
  BY <1>3 DEF Tells
<1> HIDE DEF next
<1>5. after[0] = rr /\ \A b \in Indices : after[b + 1] = next(after[b], b)
  <2>1. \A b \in Indices : b + 1 \in 0..MaxBlocks /\ b + 1 # 0 /\ (b + 1) - 1 = b
    BY BoundsAssumption DEF Indices
  <2>2. 0 \in 0..MaxBlocks
    BY BoundsAssumption
  <2> QED BY <1>4, <2>1, <2>2
<1> QED BY <1>1, <1>5 DEF next

\* Telling of a call of a document, field by field.
LEMMA CallReportedFields ==
  ASSUME Mapping(Known), arrived \in Arrivals, NEW rr \in Rehydrators, NEW b \in Indices
  PROVE  LET p == CallReported(rr, b)
             raw == arrived.args[b]
         IN  /\ p \in Rehydrators /\ SameCounts(p, rr) /\ SameTemplate(p, rr) /\ SameHeld(p, rr)
             /\ p.joined = rr.joined
             /\ p.console = Append(rr.console, [tool |-> b, args |-> Restored(Known, raw),
                                                restored |-> Restored(Known, raw) # raw])
<1> DEFINE raw == arrived.args[b]
           whole == Restored(Known, raw)
           q == [rr EXCEPT !.toolName = b]
<1>1. raw \in Text
  BY DEF Arrivals
<1>2. whole \in Text /\ (whole # raw) \in BOOLEAN
  BY <1>1, RestoredIsText
<1>3. CallReported(rr, b) = Tell(q, whole, whole # raw)
  BY DEF CallReported
<1> HIDE DEF raw, whole
<1>4. /\ q \in Rehydrators /\ q.toolName = b /\ q.console = rr.console
      /\ SameCounts(q, rr) /\ SameTemplate(q, rr) /\ SameHeld(q, rr) /\ q.joined = rr.joined
  BY DEF Rehydrators, Places, SameCounts, SameTemplate, SameHeld
<1> HIDE DEF q
<1>5. Tell(q, whole, whole # raw) \in Rehydrators
  BY <1>2, <1>4, TellTypes
<1>6. LET p == Tell(q, whole, whole # raw)
      IN  /\ SameCounts(p, q) /\ SameTemplate(p, q) /\ SameHeld(p, q) /\ p.joined = q.joined
          /\ p.console = Append(q.console, [tool |-> q.toolName, args |-> whole,
                                            restored |-> whole # raw])
  BY <1>4 DEF Tell, Rehydrators, SameCounts, SameTemplate, SameHeld
<1> QED BY <1>3, <1>4, <1>5, <1>6 DEF SameCounts, SameTemplate, SameHeld, raw, whole

\* There are finitely many blocks.
LEMMA IndicesFinite == IsFiniteSet(Indices)
<1>1. 0 \in Int /\ MaxBlocks - 1 \in Int
  BY BoundsAssumption
<1>2. \A a, b \in Int : IsFiniteSet(a..b)
  BY FS_Interval
<1>3. IsFiniteSet(0..MaxBlocks - 1)
  BY <1>1, <1>2
<1> QED BY <1>3 DEF Indices

\* One call more, told of right.
LEMMA ToldOneMore ==
  ASSUME arrived \in Arrivals, NEW rr, rr.console \in Seq(Calls), ToldRight(rr, arrived),
         NEW p, NEW b \in arrived.tools, b \notin Told(rr), NEW args, NEW restored,
         args = Restored(Known, arrived.args[b]), restored <=> args # arrived.args[b],
         p.console = Append(rr.console, [tool |-> b, args |-> args, restored |-> restored])
  PROVE  ToldRight(p, arrived) /\ Told(p) = Told(rr) \union {b}
<1> DEFINE s == rr.console
           call == [tool |-> b, args |-> args, restored |-> restored]
           t == p.console
           n == Len(s)
<1>0. call.tool = b /\ call.args = args /\ call.restored = restored
  OBVIOUS
<1>1. n \in Nat /\ DOMAIN s = 1..n
  OBVIOUS
<1>2. Len(t) = n + 1 /\ DOMAIN t = 1..(n + 1) /\ t[n + 1] = call /\ \A i \in 1..n : t[i] = s[i]
  <2> HIDE DEF call
  <2> QED BY DEF call
<1> HIDE DEF s, t, n, call
<1>3. Told(p) = Told(rr) \union {b}
  <2>1. Told(rr) = {s[i].tool : i \in 1..n}
    BY <1>1 DEF Told, s
  <2>2. Told(p) = {t[i].tool : i \in 1..(n + 1)}
    BY <1>2 DEF Told, t
  <2>3. 1..(n + 1) = (1..n) \union {n + 1}
    BY <1>1
  <2>4. \A i \in 1..n : t[i].tool = s[i].tool
    BY <1>2
  <2>5. t[n + 1].tool = b
    BY <1>0, <1>2
  <2> QED BY <2>1, <2>2, <2>3, <2>4, <2>5
<1>4. Told(p) \subseteq arrived.tools
  BY <1>3 DEF ToldRight
<1>5. Len(t) = Cardinality(Told(p))
  <2>1. IsFiniteSet(Told(rr))
    <3>1. Told(rr) \subseteq Indices
      BY DEF ToldRight, Arrivals
    <3> QED BY <3>1, IndicesFinite, FS_Subset
  <2>2. Cardinality(Told(rr) \union {b}) = Cardinality(Told(rr)) + 1
    BY <2>1, FS_AddElement
  <2>3. n = Cardinality(Told(rr))
    BY DEF ToldRight, n, s
  <2> QED BY <1>2, <1>3, <2>2, <2>3
<1>6. \A i \in DOMAIN t :
        LET raw == arrived.args[t[i].tool]
        IN  t[i].args = Restored(Known, raw) /\ (t[i].restored <=> t[i].args # raw)
  <2>1. \A i \in 1..n :
          LET raw == arrived.args[s[i].tool]
          IN  s[i].args = Restored(Known, raw) /\ (s[i].restored <=> s[i].args # raw)
    BY <1>1 DEF ToldRight, s
  <2>2. \A i \in DOMAIN t : i \in 1..n \/ i = n + 1
    BY <1>1, <1>2
  <2>3. \A i \in 1..n : t[i] = s[i]
    BY <1>2
  <2>4. LET raw == arrived.args[t[n + 1].tool]
        IN  t[n + 1].args = Restored(Known, raw) /\ (t[n + 1].restored <=> t[n + 1].args # raw)
    BY <1>0, <1>2
  <2> QED BY <2>1, <2>2, <2>3, <2>4
<1> QED BY <1>3, <1>4, <1>5, <1>6 DEF ToldRight, t

\* All the calls of a document are told of, each once and rightly.
LEMMA CallsReportedFields ==
  ASSUME Mapping(Known), arrived \in Arrivals, NEW rr \in Rehydrators, rr.console = <<>>,
         KeptIn(rr)
  PROVE  LET p == CallsReported(rr)
         IN  /\ p \in Rehydrators /\ SameCounts(p, rr) /\ KeptIn(p)
             /\ ToldRight(p, arrived) /\ Told(p) = arrived.tools
<1>1. PICK g : /\ CallsReported(rr) = g[MaxBlocks] /\ g[0] = rr
               /\ \A b \in Indices :
                    g[b + 1] = IF b \in arrived.tools THEN CallReported(g[b], b) ELSE g[b]
  BY CallsUnfold
<1> DEFINE Upto(p, b) == /\ p \in Rehydrators /\ SameCounts(p, rr) /\ KeptIn(p)
                         /\ ToldRight(p, arrived) /\ Told(p) = {c \in arrived.tools : c < b}
           M == {b \in Nat : b <= MaxBlocks => Upto(g[b], b)}
<1>0. arrived.tools \in SUBSET Indices
  BY DEF Arrivals
<1>a. \A c \in arrived.tools : c \in Nat /\ c < MaxBlocks
  BY <1>0, BoundsAssumption DEF Indices
<1>2. 0 \in M
  <2>1. Told(rr) = {}
    BY DEF Told
  <2>2. {c \in arrived.tools : c < 0} = {}
    BY <1>a
  <2>3. ToldRight(rr, arrived)
    BY <2>1, FS_EmptySet DEF ToldRight
  <2>4. SameCounts(rr, rr)
    BY DEF SameCounts
  <2> QED BY <1>1, <2>1, <2>2, <2>3, <2>4
<1>3. ASSUME NEW b \in Nat, b \in M PROVE b + 1 \in M
  <2> SUFFICES ASSUME b + 1 <= MaxBlocks PROVE Upto(g[b + 1], b + 1)
    OBVIOUS
  <2> DEFINE p == g[b]
  <2>1. b \in Indices /\ Upto(p, b)
    BY <1>3, BoundsAssumption DEF Indices
  <2>2. CASE b \notin arrived.tools
    <3>1. {c \in arrived.tools : c < b + 1} = {c \in arrived.tools : c < b}
      <4>1. \A c \in arrived.tools : c < b + 1 <=> c < b
        BY <1>a, <2>2
      <4> QED BY <4>1
    <3>2. g[b + 1] = p
      BY <1>1, <2>1, <2>2
    <3> QED BY <2>1, <3>1, <3>2
  <2>3. CASE b \in arrived.tools
    <3> DEFINE q == CallReported(p, b)
               raw == arrived.args[b]
    <3>1. g[b + 1] = q
      BY <1>1, <2>1, <2>3
    <3> HIDE DEF p
    <3>2. p \in Rehydrators
      BY <2>1
    <3>3. /\ q \in Rehydrators /\ SameCounts(q, p) /\ SameTemplate(q, p) /\ SameHeld(q, p)
          /\ q.console = Append(p.console, [tool |-> b, args |-> Restored(Known, raw),
                                            restored |-> Restored(Known, raw) # raw])
      BY <2>1, <3>2, CallReportedFields
    <3> HIDE DEF q
    <3>4. b \notin Told(p)
      BY <2>1
    <3>5. p.console \in Seq(Calls)
      BY <3>2 DEF Rehydrators
    <3> DEFINE v == Restored(Known, raw) # raw
               w == Restored(Known, raw)
    <3>6. v <=> w # raw
      OBVIOUS
    <3>6a. q.console = Append(p.console, [tool |-> b, args |-> w, restored |-> v])
      BY <3>3
    <3>6b. ToldRight(p, arrived) /\ w = Restored(Known, arrived.args[b]) /\ (v <=> w # arrived.args[b])
      BY <2>1
    <3> HIDE DEF v, w
    <3>7. ToldRight(q, arrived) /\ Told(q) = Told(p) \union {b}
      BY <2>3, <3>4, <3>5, <3>6a, <3>6b, ToldOneMore
    <3>8. {c \in arrived.tools : c < b + 1} = {c \in arrived.tools : c < b} \union {b}
      <4>1. \A c \in arrived.tools : c < b + 1 <=> (c < b \/ c = b)
        BY <1>a
      <4> QED BY <2>3, <4>1
    <3>9. SameCounts(q, rr) /\ KeptIn(q)
      BY <2>1, <3>3 DEF SameCounts, KeptIn, SameTemplate, SameHeld
    <3> QED BY <2>1, <3>1, <3>3, <3>7, <3>8, <3>9
  <2> QED BY <2>2, <2>3
<1> HIDE DEF M, Upto
<1>4. M = Nat
  BY <1>2, <1>3, Induction DEF M
<1>5. Upto(g[MaxBlocks], MaxBlocks)
  BY <1>4, BoundsAssumption DEF M
<1>6. {c \in arrived.tools : c < MaxBlocks} = arrived.tools
  BY <1>0, BoundsAssumption DEF Indices
<1> QED BY <1>1, <1>5, <1>6 DEF Upto

\* Telling of them keeps the type of the rehydrator.
LEMMA CallsReportedTypes ==
  ASSUME Mapping(Known), arrived \in Arrivals, NEW rr \in Rehydrators, KeptIn(rr)
  PROVE  /\ CallsReported(rr) \in Rehydrators /\ KeptIn(CallsReported(rr))
         /\ CallsReported(rr).joined = rr.joined
<1>1. PICK g : /\ CallsReported(rr) = g[MaxBlocks] /\ g[0] = rr
               /\ \A b \in Indices :
                    g[b + 1] = IF b \in arrived.tools THEN CallReported(g[b], b) ELSE g[b]
  BY CallsUnfold
<1> DEFINE M == {b \in Nat : b <= MaxBlocks => g[b] \in Rehydrators /\ KeptIn(g[b])
                                              /\ g[b].joined = rr.joined}
<1>2. 0 \in M
  BY <1>1
<1>3. ASSUME NEW b \in Nat, b \in M PROVE b + 1 \in M
  <2> SUFFICES ASSUME b + 1 <= MaxBlocks PROVE /\ g[b + 1] \in Rehydrators /\ KeptIn(g[b + 1])
                                                   /\ g[b + 1].joined = rr.joined
    OBVIOUS
  <2>1. b \in Indices /\ g[b] \in Rehydrators /\ KeptIn(g[b]) /\ g[b].joined = rr.joined
    BY <1>3, BoundsAssumption DEF Indices
  <2>2. /\ CallReported(g[b], b) \in Rehydrators /\ KeptIn(CallReported(g[b], b))
        /\ CallReported(g[b], b).joined = g[b].joined
    BY <2>1, CallReportedFields DEF KeptIn, SameTemplate, SameHeld
  <2> QED BY <1>1, <2>1, <2>2
<1> HIDE DEF M
<1>4. M = Nat
  BY <1>2, <1>3, Induction DEF M
<1> QED BY <1>1, <1>4, BoundsAssumption DEF M

-----------------------------------------------------------------------------
(* Every step keeps the types. *)

\* The types hold at the beginning.
LEMMA InitTyped == Init => Typed /\ KeptIn(r)
<1> SUFFICES ASSUME Init PROVE Typed /\ KeptIn(r)
  OBVIOUS
<1>1. <<>> \in Text /\ None \in Places /\ Unnamed \in Names /\ NoEvent \in Events
  BY TextFacts, LineTypes DEF Places, Names
<1>2. Nothing \in [Indices -> Text]
  BY <1>1 DEF Nothing
<1>3. \A S : <<>> \in Seq(S)
  OBVIOUS
<1>4. NewRehydrator \in Rehydrators /\ KeptIn(NewRehydrator)
  <2>1. NoEvent.type = "none"
    BY DEF NoEvent, Event
  <2> QED BY <1>1, <1>3, <2>1 DEF NewRehydrator, Rehydrators, KeptIn
<1>5. source \in Sources
  <2>1. 0 \in Begun
    BY BoundsAssumption DEF Begun
  <2> QED BY <1>1, <2>1 DEF Init, Sources, Phases
<1>6. client \in Clients
  BY <1>1, <1>2 DEF Init, Clients
<1>7. arrived \in Arrivals /\ trace \in Traces
  BY <1>2, <1>3 DEF Init, Arrivals, Traces
<1> QED BY <1>3, <1>4, <1>5, <1>6, <1>7 DEF Init, Typed

\* Numbers below a number of blocks.
LEMMA BeforeLast ==
  \A n, m \in 0..MaxBlocks : m < n => m \in 0..MaxBlocks - 1 /\ m + 1 \in 0..MaxBlocks
<1>1. MaxBlocks \in Nat
  BY BoundsAssumption
<1> QED BY <1>1

\* Two lines are lines.
LEMMA TwoLines ==
  ASSUME NEW k \in AllLines, NEW l \in AllLines
  PROVE  <<k, l>> \in Seq(AllLines)
OBVIOUS

\* The types, when an event is sent.
LEMMA SentTypes ==
  ASSUME Typed, NEW e \in Events, NEW after \in Sources, Sends(e, after)
  PROVE  /\ source' \in Sources /\ feed' \in Seq(AllLines) /\ arrived' \in Arrivals
         /\ UNCHANGED <<scenario, r, out, client, trace>>
<1>1. source' \in Sources
  <2>1. source' = [after EXCEPT !.n = @ + 1]
    BY DEF Sends
  <2> QED BY <2>1 DEF Sources
<1>2. feed' \in Seq(AllLines) /\ arrived' \in Arrivals
  BY LinesTypes, ArrivingTypes DEF Sends, Typed
<1> QED BY <1>1, <1>2 DEF Sends

\* The types, in every step of the provider.
LEMMA SendTypes ==
  ASSUME Typed,
         \/ SendHead \/ SendPing \/ SendTail \/ SendDone \/ SendBlockStop
         \/ \E kind \in {"text", "tool"} : SendBlockStart(kind)
         \/ \E piece \in scenario.pieces : SendText(piece)
         \/ \E fragment \in scenario.fragments : SendFragment(fragment)
         \/ \E how \in {"whole", "short", "failed"}, left \in Remains : EndOfAnswer(how, left)
  PROVE  /\ source' \in Sources /\ feed' \in Seq(AllLines) /\ arrived' \in Arrivals
         /\ UNCHANGED <<scenario, r, out, client, trace>>
<1>0. /\ source \in Sources /\ scenario \in Scenarios /\ source.n + 1 \in Nat /\ <<>> \in Text
      /\ None \in Places /\ source.open \in Places /\ source.deltas + 1 \in Nat
  <2>1. None \in Places
    BY DEF Places
  <2>2. source \in Sources /\ scenario \in Scenarios
    BY DEF Typed
  <2>3. source.n \in Nat /\ source.deltas \in Nat /\ source.open \in Places
    BY <2>2 DEF Sources
  <2>4. <<>> \in Text
    BY TextFacts
  <2>5. source.n + 1 \in Nat /\ source.deltas + 1 \in Nat
    BY <2>3
  <2> QED BY <2>1, <2>2, <2>3, <2>4, <2>5
<1>1. \A type \in Kinds, index \in Places, text \in Text : Sent(type, index, text) \in Events
  BY <1>0 DEF Sent, Event, Events
<1>2. CASE SendHead
  <2>1. [source EXCEPT !.phase = "blocks"] \in Sources
    BY <1>0 DEF Sources, Phases
  <2>2. Sent("message_start", None, <<>>) \in Events
    BY <1>0, <1>1 DEF Kinds
  <2> QED BY <1>2, <2>1, <2>2, SentTypes DEF SendHead
<1>3. CASE SendPing
  <2>1. [source EXCEPT !.deltas = @ + 1] \in Sources
    BY <1>0 DEF Sources
  <2>2. Sent("ping", None, <<>>) \in Events
    BY <1>0, <1>1 DEF Kinds
  <2> QED BY <1>3, <2>1, <2>2, SentTypes DEF SendPing
<1>4. CASE SendTail
  <2>1. [source EXCEPT !.phase = "tail"] \in Sources
    BY <1>0 DEF Sources, Phases
  <2>2. Sent("message_delta", None, <<>>) \in Events
    BY <1>0, <1>1 DEF Kinds
  <2> QED BY <1>4, <2>1, <2>2, SentTypes DEF SendTail
<1>5. CASE SendBlockStop
  <2>1. [source EXCEPT !.open = None] \in Sources
    BY <1>0 DEF Sources
  <2>2. Sent("block_stop", source.open, <<>>) \in Events
    BY <1>0, <1>1 DEF Kinds
  <2> QED BY <1>5, <2>1, <2>2, SentTypes DEF SendBlockStop
<1>6. ASSUME NEW kind \in {"text", "tool"}, SendBlockStart(kind)
      PROVE  /\ source' \in Sources /\ feed' \in Seq(AllLines) /\ arrived' \in Arrivals
             /\ UNCHANGED <<scenario, r, out, client, trace>>
  <2> DEFINE b == source.next
  <2>1. b < scenario.blocks /\ scenario.blocks \in 0..MaxBlocks /\ b \in Begun
    BY <1>0, <1>6, ScenarioFacts DEF SendBlockStart, Sources
  <2>2. b \in Indices /\ b + 1 \in Begun /\ b \in Places
    <3> HIDE DEF b
    <3>a. \A n, m \in 0..MaxBlocks : m < n => m \in 0..MaxBlocks - 1 /\ m + 1 \in 0..MaxBlocks
      BY BeforeLast
    <3>1. b \in Indices /\ b + 1 \in Begun
      BY <2>1, <3>a DEF Indices, Begun
    <3> QED BY <3>1 DEF Places
  <2> DEFINE after == [source EXCEPT !.open = b, !.kind = kind, !.next = @ + 1, !.deltas = 0]
             e == Sent(IF kind = "tool" THEN "tool_start" ELSE "text_start", b, <<>>)
  <2>3. after \in Sources
    <3>1. [source EXCEPT !.open = b, !.kind = kind] \in Sources
      BY <1>0, <1>6, <2>2 DEF Sources
    <3>2. after = [[source EXCEPT !.open = b, !.kind = kind] EXCEPT !.next = b + 1, !.deltas = 0]
      BY <1>0 DEF Sources
    <3> QED BY <2>2, <3>1, <3>2 DEF Sources
  <2>4. e \in Events
    BY <1>0, <1>1, <2>2 DEF Kinds
  <2>5. Sends(e, after)
    BY <1>6 DEF SendBlockStart
  <2> HIDE DEF e, after
  <2> QED BY <2>3, <2>4, <2>5, SentTypes
<1>7. ASSUME NEW piece \in scenario.pieces, SendText(piece)
      PROVE  /\ source' \in Sources /\ feed' \in Seq(AllLines) /\ arrived' \in Arrivals
             /\ UNCHANGED <<scenario, r, out, client, trace>>
  <2>1. [source EXCEPT !.deltas = @ + 1] \in Sources
    BY <1>0 DEF Sources
  <2>2. Sent("text_delta", source.open, piece) \in Events
    BY <1>0, <1>1, <1>7, ScenarioFacts DEF Kinds
  <2> QED BY <1>7, <2>1, <2>2, SentTypes DEF SendText
<1>8. ASSUME NEW fragment \in scenario.fragments, SendFragment(fragment)
      PROVE  /\ source' \in Sources /\ feed' \in Seq(AllLines) /\ arrived' \in Arrivals
             /\ UNCHANGED <<scenario, r, out, client, trace>>
  <2>1. [source EXCEPT !.deltas = @ + 1] \in Sources
    BY <1>0 DEF Sources
  <2>2. Sent("json_delta", source.open, fragment) \in Events
    BY <1>0, <1>1, <1>8, ScenarioFacts DEF Kinds
  <2> QED BY <1>8, <2>1, <2>2, SentTypes DEF SendFragment
<1>9. CASE SendDone
  <2>1. [source EXCEPT !.phase = "sentinel"] \in Sources
    BY <1>0 DEF Sources, Phases
  <2>2. <<DoneLine, Blank>> \in Seq(AllLines)
    BY TwoLines, LineTypes
  <2> QED BY <1>9, <2>1, <2>2 DEF SendDone, Typed
<1>10. ASSUME NEW how \in {"whole", "short", "failed"}, NEW left \in Remains, EndOfAnswer(how, left)
       PROVE  /\ source' \in Sources /\ feed' \in Seq(AllLines) /\ arrived' \in Arrivals
              /\ UNCHANGED <<scenario, r, out, client, trace>>
  <2>1. [source EXCEPT !.phase = "over", !.kind = how] \in Sources
    BY <1>0, <1>10 DEF Sources, Phases
  <2>2. left \in Seq(AllLines)
    BY LineTypes, SequencesOf DEF Remains, Parts
  <2>3. /\ feed' = left
        /\ source' = [source EXCEPT !.phase = "over", !.kind = how]
        /\ UNCHANGED <<scenario, arrived, r, out, client, trace>>
    BY <1>10 DEF EndOfAnswer
  <2> QED BY <2>1, <2>2, <2>3 DEF Typed
<1> QED BY <1>2, <1>3, <1>4, <1>5, <1>6, <1>7, <1>8, <1>9, <1>10

\* Telling of the cost changes nothing that is held.
LEMMA KeptReported ==
  ASSUME NEW rr \in Rehydrators, KeptIn(rr)
  PROVE  ReportUsage(rr) \in Rehydrators /\ KeptIn(ReportUsage(rr))
<1> DEFINE more == IF rr.model THEN Append(rr.usage, <<rr.input, rr.output>>) ELSE rr.usage
<1>1. ReportUsage(rr) = IF rr.usageSent THEN rr ELSE [rr EXCEPT !.usageSent = TRUE, !.usage = more]
  BY DEF ReportUsage
<1> HIDE DEF more
<1>2. KeptIn([rr EXCEPT !.usageSent = TRUE, !.usage = more])
  BY DEF Rehydrators, KeptIn
<1> QED BY <1>1, <1>2, ReportUsageTypes

\* Lines joined to one cut short are lines.
LEMMA JoinedTypes ==
  ASSUME NEW lines \in Seq(AllLines)
  PROVE  Joined(lines) \in Seq(AllLines)
<1>1. SubSeq(lines, 3, Len(lines)) \in Seq(AllLines)
  OBVIOUS
<1>2. <<StubLine>> \in Seq(AllLines)
  BY LineTypes, SequencesOf DEF Parts
<1> QED BY <1>1, <1>2, SequencesOf DEF Joined

\* Every step keeps the types.
LEMMA TypedStep ==
  ASSUME Typed, KeptIn(r), [Next]_vars
  PROVE  Typed' /\ KeptIn(r)'
<1>0. /\ scenario \in Scenarios /\ source \in Sources /\ feed \in Seq(AllLines)
      /\ arrived \in Arrivals /\ r \in Rehydrators /\ out \in Seq(AllLines)
      /\ client \in Clients /\ trace \in Traces /\ Mapping(Known)
  BY ScenarioFacts DEF Typed
<1>1. CASE \/ SendHead \/ SendPing \/ SendTail \/ SendDone \/ SendBlockStop
           \/ \E kind \in {"text", "tool"} : SendBlockStart(kind)
           \/ \E piece \in scenario.pieces : SendText(piece)
           \/ \E fragment \in scenario.fragments : SendFragment(fragment)
           \/ \E how \in {"whole", "short", "failed"}, left \in Remains : EndOfAnswer(how, left)
  BY <1>0, <1>1, SendTypes DEF Typed, KeptIn
<1>2. CASE ReadLine
  <2> DEFINE line == Head(feed)
             before == [r |-> r, out |-> <<>>]
  <2>1. line \in AllLines /\ Tail(feed) \in Seq(AllLines)
    BY <1>0, <1>2 DEF ReadLine
  <2>2. before \in Steps /\ KeptIn(before.r)
    BY <1>0 DEF Steps
  <2> HIDE DEF before
  <2> DEFINE x == Read(before, line)
  <2>3. x \in Steps /\ KeptIn(x.r)
    BY <1>0, <2>1, <2>2, ReadTypes, KeptRead
  <2>4. x.r \in Rehydrators /\ x.out \in Seq(AllLines)
    BY <2>3 DEF Steps
  <2>5. r' = x.r /\ out' = x.out
    BY <1>2 DEF ReadLine, before
  <2>6. /\ trace' = [trace EXCEPT !.blocks = Assembled(@, line)]
        /\ arrived' = (IF line.kind = "data" THEN Arriving(line.event) ELSE arrived)
        /\ feed' = Tail(feed) /\ UNCHANGED <<scenario, source, client>>
    BY <1>2 DEF ReadLine
  <2> HIDE DEF x, line
  <2>7. trace' \in Traces
    <3>1. Assembled(trace.blocks, line) \in Seq(Blocks)
      BY <1>0, <2>1, AssembledTypes DEF Traces
    <3> QED BY <1>0, <2>6, <3>1 DEF Traces
  <2>8. arrived' \in Arrivals
    <3>1. line.event \in Events
      BY <2>1 DEF AllLines
    <3> QED BY <1>0, <2>6, <3>1, ArrivingTypes
  <2>9. r' \in Rehydrators /\ out' \in Seq(AllLines) /\ KeptIn(r')
    BY <2>3, <2>4, <2>5
  <2>10. feed' \in Seq(AllLines)
    BY <2>1, <2>6
  <2> QED BY <1>0, <2>6, <2>7, <2>8, <2>9, <2>10 DEF Typed, KeptIn
<1>3. CASE ReadEnd
  <2> DEFINE before == [r |-> r, out |-> <<>>]
             x == IF feed = <<>> THEN before ELSE Read(before, Head(feed))
             y == Flushed(x)
             q == ReportUsage(y.r)
             joined == feed = <<StubLine>> /\ y.out # x.out
  <2>1. feed # <<>> => Head(feed) \in AllLines
    BY <1>0
  <2>2. before \in Steps /\ KeptIn(before.r)
    BY <1>0 DEF Steps
  <2>3. /\ r' = [q EXCEPT !.done = TRUE, !.readErr = Failed, !.joined = joined]
        /\ out' = (IF joined THEN Joined(y.out) ELSE y.out)
        /\ feed' = <<>> /\ UNCHANGED <<scenario, source, arrived, client, trace>>
    BY <1>3 DEF ReadEnd
  <2>a. joined \in BOOLEAN
    OBVIOUS
  <2> HIDE DEF before, joined
  <2>4. x \in Steps /\ KeptIn(x.r)
    BY <1>0, <2>1, <2>2, ReadTypes, KeptRead
  <2> HIDE DEF x
  <2>5. y \in Steps /\ KeptIn(y.r)
    BY <1>0, <2>4, ReadTypes, KeptRead
  <2> HIDE DEF y
  <2>6. q \in Rehydrators /\ KeptIn(q)
    <3>1. y.r \in Rehydrators
      BY <2>5 DEF Steps
    <3> QED BY <2>5, <3>1, KeptReported
  <2> HIDE DEF q
  <2>7. r' \in Rehydrators /\ KeptIn(r')
    BY <2>3, <2>6, <2>a DEF Rehydrators, KeptIn, Failed
  <2>8. out' \in Seq(AllLines) /\ feed' \in Seq(AllLines)
    <3>1. y.out \in Seq(AllLines)
      BY <2>5 DEF Steps
    <3> HIDE DEF y
    <3> QED BY <2>3, <3>1, JoinedTypes
  <2> QED BY <1>0, <2>3, <2>7, <2>8 DEF Typed, KeptIn
<1>4. CASE Deliver
  <2>1. client' \in Clients /\ out' \in Seq(AllLines)
    BY <1>0, <1>4, TakenTypes DEF Deliver
  <2> QED BY <1>0, <1>4, <2>1 DEF Deliver, Typed, KeptIn
<1>5. ASSUME Finish \/ HangUp PROVE Typed' /\ KeptIn(r)'
  <2>1. r' = ReportUsage(r) /\ trace' = Filed(trace)
        /\ UNCHANGED <<scenario, source, feed, arrived, out>>
    BY <1>5 DEF Finish, HangUp
  <2>2. \E result \in {"end", "error", "hung up"} : client' = [client EXCEPT !.result = result]
    BY <1>5 DEF Finish, HangUp
  <2>3. client' \in Clients
    BY <1>0, <2>2 DEF Clients
  <2>4. r' \in Rehydrators /\ KeptIn(r')
    BY <1>0, <2>1, KeptReported
  <2>5. trace' \in Traces
    BY <1>0, <2>1 DEF Filed, Traces
  <2> QED BY <1>0, <2>1, <2>3, <2>4, <2>5 DEF Typed, KeptIn
<1>6. CASE Buffered
  <2>1. trace' \in Traces
    BY <1>0, <1>6 DEF Buffered, Filed, Traces
  <2>2. CASE source.kind # "whole"
    <3>1. client' \in Clients /\ r' = r
      BY <1>0, <1>6, <2>2 DEF Buffered, Clients
    <3> QED BY <1>0, <1>6, <2>1, <3>1 DEF Buffered, Typed, KeptIn
  <2>3. CASE source.kind = "whole"
    <3> DEFINE inPlace == [b \in Indices |-> IF b \in arrived.tools
                                            THEN Restored(Known, arrived.args[b]) ELSE <<>>]
               texts == [b \in Indices |-> Expanded(Known, arrived.text[b])]
               args == [b \in Indices |-> Restored(Known, inPlace[b])]
               q == [r EXCEPT !.usage = <<<<1, 1>>>>]
    <3>1. /\ client' = [client EXCEPT !.result = "end", !.text = texts, !.args = args]
          /\ r' = CallsReported(q)
      BY <1>6, <2>3 DEF Buffered
    <3>2. inPlace \in [Indices -> Text]
      <4>1. \A b \in Indices : arrived.args[b] \in Text
        BY <1>0 DEF Arrivals
      <4> QED BY <1>0, <4>1, RestoredIsText, TextFacts
    <3>3. texts \in [Indices -> Text]
      <4>1. \A b \in Indices : arrived.text[b] \in Text
        BY <1>0 DEF Arrivals
      <4> QED BY <1>0, <4>1, ExpandedIsText
    <3> HIDE DEF inPlace
    <3>4. args \in [Indices -> Text]
      BY <1>0, <3>2, RestoredIsText
    <3> HIDE DEF texts, args
    <3>5. client' \in Clients
      BY <1>0, <3>1, <3>3, <3>4 DEF Clients
    <3>6. q \in Rehydrators /\ KeptIn(q)
      <4>1. <<1, 1>> \in {0, 1} \X {0, 1}
        OBVIOUS
      <4>2. <<<<1, 1>>>> \in Seq({0, 1} \X {0, 1})
        BY <4>1
      <4> QED BY <1>0, <4>2 DEF Rehydrators, KeptIn
    <3> HIDE DEF q
    <3>7. r' \in Rehydrators /\ KeptIn(r')
      BY <1>0, <3>1, <3>6, CallsReportedTypes
    <3> QED BY <1>0, <1>6, <2>1, <3>5, <3>7 DEF Buffered, Typed, KeptIn
  <2> QED BY <2>2, <2>3
<1>7. CASE UNCHANGED vars
  BY <1>7 DEF vars, Typed, KeptIn
<1> QED BY <1>1, <1>2, <1>3, <1>4, <1>5, <1>6, <1>7 DEF Next

\* Every variable keeps its type, and nothing is held back without the event to release
\* it in (TailReleased would drop it).
THEOREM AnswersTyped == Spec => []TypeOK
<1>1. Typed /\ KeptIn(r) => TypeOK
  <2> SUFFICES ASSUME Typed, KeptIn(r) PROVE TypeOK
    OBVIOUS
  <2>1. r \in Rehydrators /\ source \in Sources /\ client \in Clients /\ out \in Seq(AllLines)
    BY DEF Typed
  <2>2. r.pending # <<>> => r.template # NoEvent
    BY DEF KeptIn, NoEvent, Event
  <2>3. \A i \in DOMAIN out : out[i].kind \in {"name", "data", "id", "blank", "done"} \union Partial
    <3>1. \A i \in DOMAIN out : out[i] \in AllLines
      BY <2>1
    <3> QED BY <3>1 DEF AllLines, Partial
  <2>4. source.open \in Indices \union {None} /\ r.block \in Indices \union {None}
    BY <2>1 DEF Sources, Rehydrators, Places
  <2>5. client.event.type \in Kinds /\ client.result \in {"open", "end", "error", "hung up"}
    BY <2>1 DEF Clients, Events
  <2>6. {r.done, r.readErr, r.held, r.observing, r.joined} \subseteq BOOLEAN
    BY <2>1 DEF Rehydrators
  <2>7. source.phase \in {"head", "blocks", "tail", "sentinel", "over"}
    BY <2>1 DEF Sources, Phases
  <2> QED BY <2>2, <2>3, <2>4, <2>5, <2>6, <2>7 DEF TypeOK, Typed, KeptIn
<1>2. (Typed /\ KeptIn(r)) /\ [Next]_vars => (Typed /\ KeptIn(r))'
  BY TypedStep DEF KeptIn
<1> QED BY <1>1, <1>2, InitTyped, PTL DEF Spec

-----------------------------------------------------------------------------
(* The feed. *)

\* The events in a line and in those behind it.
LEMMA CarriedFacts ==
  /\ \A S : \A s \in Seq(S) : \A l :
       Carried(<<l>> \o s) = (IF l.kind = "data" THEN {l.event} ELSE {}) \union Carried(s)
  /\ Carried(<<>>) = {}
<1>1. ASSUME NEW S, NEW s \in Seq(S), NEW l
      PROVE  Carried(<<l>> \o s) = (IF l.kind = "data" THEN {l.event} ELSE {}) \union Carried(s)
  <2> DEFINE t == <<l>> \o s
  <2>1. /\ Len(s) \in Nat /\ DOMAIN s = 1..Len(s) /\ DOMAIN t = 1..Len(s) + 1 /\ t[1] = l
        /\ \A i \in 1..Len(s) : t[i + 1] = s[i]
    OBVIOUS
  <2> HIDE DEF t
  <2>2. \A e \in Carried(t) : e \in (IF l.kind = "data" THEN {l.event} ELSE {}) \union Carried(s)
    <3> TAKE e \in Carried(t)
    <3>1. PICK i \in DOMAIN t : t[i].kind = "data" /\ t[i].event = e
      BY DEF Carried
    <3>2. CASE i = 1
      BY <2>1, <3>1, <3>2
    <3>3. CASE i # 1
      <4>1. i - 1 \in 1..Len(s) /\ (i - 1) + 1 = i
        BY <2>1, <3>3
      <4>2. t[i] = s[i - 1]
        BY <2>1, <4>1
      <4> QED BY <2>1, <3>1, <4>1, <4>2 DEF Carried
    <3> QED BY <3>2, <3>3
  <2>3. \A e \in Carried(s) : e \in Carried(t)
    <3> TAKE e \in Carried(s)
    <3>1. PICK i \in DOMAIN s : s[i].kind = "data" /\ s[i].event = e
      BY DEF Carried
    <3>2. i + 1 \in DOMAIN t /\ t[i + 1] = s[i]
      BY <2>1, <3>1
    <3> QED BY <3>1, <3>2 DEF Carried
  <2>4. l.kind = "data" => l.event \in Carried(t)
    <3>1. 1 \in DOMAIN t
      BY <2>1
    <3> QED BY <2>1, <3>1 DEF Carried
  <2> QED BY <2>2, <2>3, <2>4 DEF t
<1>2. Carried(<<>>) = {}
  BY DEF Carried
<1> QED BY <1>1, <1>2

\* Lines put together one by one.
LEMMA Pairs ==
  \A k, l : <<k>> \o <<l>> = <<k, l>> /\ <<>> \o <<l>> = <<l>>
<1> TAKE k, l
<1> DEFINE S == {k, l}
           s == <<k>>
           t == <<l>>
           u == <<k, l>>
<1>1. /\ s \in Seq(S) /\ t \in Seq(S) /\ u \in Seq(S)
      /\ Len(s) = 1 /\ s[1] = k /\ Len(t) = 1 /\ t[1] = l /\ Len(u) = 2 /\ u[1] = k /\ u[2] = l
  OBVIOUS
<1> HIDE DEF S, s, t, u
<1>2. s \o t \in Seq(S) /\ Len(s \o t) = 2 /\ (s \o t)[1] = k /\ (s \o t)[2] = l /\ <<>> \o t = t
  <2>1. s \in Seq(S) /\ t \in Seq(S)
    BY <1>1
  <2>2. Len(s \o t) = Len(s) + Len(t) /\ s \o t \in Seq(S) /\ <<>> \o t = t
    BY <2>1
  <2>3. \A i \in 1..Len(s) : (s \o t)[i] = s[i]
    BY <2>1
  <2>4. \A i \in 1..Len(t) : (s \o t)[Len(s) + i] = t[i]
    BY <2>1
  <2>5. 1 \in 1..1 /\ 1 + 1 = 2
    OBVIOUS
  <2>6. Len(s \o t) = 2
    BY <1>1, <2>2
  <2>7. (s \o t)[1] = k
    BY <1>1, <2>3, <2>5
  <2>8. (s \o t)[2] = l
    BY <1>1, <2>4, <2>5
  <2> QED BY <2>2, <2>6, <2>7, <2>8
<1>3. \A i \in 1..2 : (s \o t)[i] = u[i]
  <2>1. \A i \in 1..2 : i = 1 \/ i = 2
    OBVIOUS
  <2> QED BY <1>1, <1>2, <2>1
<1> DEFINE v == s \o t
<1>4. v \in Seq(S) /\ Len(v) = Len(u) /\ \A i \in 1..Len(v) : v[i] = u[i]
  BY <1>1, <1>2, <1>3
<1> HIDE DEF v
<1>5. v = u
  BY <1>1, <1>4
<1> QED BY <1>2, <1>5 DEF s, t, u, v

\* The lines of an event carry that event, and what is behind its data none.
LEMMA CarriedByLines ==
  ASSUME NEW e \in Events
  PROVE  /\ Carried(<<Blank>>) = {} /\ Carried(<<DoneLine, Blank>>) = {}
         /\ \A part \in Parts : Carried(<<part>>) = {}
         /\ Carried(Rest(e)) = {} /\ Carried(<<DataLine(e)>> \o Rest(e)) = {e}
         /\ Carried(Lines(e)) = {e}
<1>0. /\ Blank.kind = "blank" /\ DoneLine.kind = "done" /\ \A part \in Parts : part.kind \in Partial
      /\ DataLine(e).kind = "data" /\ DataLine(e).event = e /\ IdLine(e.n).kind = "id"
      /\ NameLine(NameOf(e)).kind = "name"
  BY DEF Blank, DoneLine, Parts, Partial, StubLine, TornLine, CutLine, DataLine, IdLine, NameLine, Line
<1>1. \A l : Carried(<<l>>) = (IF l.kind = "data" THEN {l.event} ELSE {})
  <2> TAKE l
  <2>1. <<>> \in Seq({}) /\ <<l>> \o <<>> = <<l>>
    OBVIOUS
  <2> DEFINE none == <<>>
  <2> HIDE DEF none
  <2>2. none \in Seq({}) /\ <<l>> \o none = <<l>> /\ Carried(none) = {}
    BY <2>1, CarriedFacts DEF none
  <2>3. Carried(<<l>> \o none) = (IF l.kind = "data" THEN {l.event} ELSE {}) \union Carried(none)
    BY <2>2, CarriedFacts
  <2> QED BY <2>2, <2>3
<1>2. Carried(<<Blank>>) = {} /\ \A part \in Parts : Carried(<<part>>) = {}
  BY <1>0, <1>1 DEF Partial
<1> DEFINE blank == <<Blank>>
<1>3. blank \in Seq(AllLines)
  BY LineTypes
<1> HIDE DEF blank
<1>4. Carried(<<DoneLine>> \o blank) = {} /\ Carried(<<IdLine(e.n)>> \o blank) = {}
  BY <1>0, <1>2, <1>3, CarriedFacts DEF blank
<1>5. <<DoneLine>> \o blank = <<DoneLine, Blank>> /\ <<>> \o blank = blank
  BY Pairs DEF blank
<1>6. Carried(Rest(e)) = {}
  BY <1>2, <1>4, <1>5 DEF Rest, blank
<1> DEFINE rest == Rest(e)
<1>7. rest \in Seq(AllLines) /\ <<DataLine(e)>> \o rest \in Seq(AllLines)
  BY LinesTypes
<1>8. Carried(rest) = {}
  BY <1>6
<1> HIDE DEF rest
<1>9. Carried(<<DataLine(e)>> \o rest) = {e}
  BY <1>0, <1>7, <1>8, CarriedFacts
<1> DEFINE data == <<DataLine(e)>> \o rest
<1>10. data \in Seq(AllLines) /\ Carried(data) = {e}
  BY <1>7, <1>9
<1>11. Lines(e) = IF Messages THEN Named(NameOf(e), data) ELSE data
  BY LinesTypes DEF rest
<1> HIDE DEF data
<1>12. Carried(<<NameLine(NameOf(e))>> \o data) = {e}
  BY <1>0, <1>10, CarriedFacts
<1>13. Carried(Lines(e)) = {e}
  BY <1>10, <1>11, <1>12 DEF Named
<1> QED BY <1>2, <1>4, <1>5, <1>6, <1>9, <1>13 DEF rest

\* What the agent reads next, and what is left then.
AtName(e) == /\ Messages /\ Head(feed) = NameLine(NameOf(e))
             /\ Tail(feed) = <<DataLine(e)>> \o Rest(e)
             /\ Carried(feed) = {e} /\ Carried(Tail(feed)) = {e}
AtData(e) == /\ Head(feed) = DataLine(e) /\ Tail(feed) = Rest(e)
             /\ Carried(feed) = {e} /\ Carried(Tail(feed)) = {}
AtId(e) == /\ Head(feed) = IdLine(e.n) /\ Tail(feed) = <<Blank>>
           /\ Carried(feed) = {} /\ Carried(Tail(feed)) = {}
AtBlank == /\ Head(feed) = Blank /\ Tail(feed) = <<>>
           /\ Carried(feed) = {} /\ Carried(Tail(feed)) = {}
AtDone == /\ Head(feed) = DoneLine /\ Tail(feed) = <<Blank>>
          /\ Carried(feed) = {} /\ Carried(Tail(feed)) = {}

\* What the agent reads next, and what is behind it.
LEMMA FeedCases ==
  ASSUME Typed, FeedInOrder, feed # <<>>
  PROVE  /\ Streams
         /\ \/ /\ source.phase \notin {"sentinel", "over"}
               /\ \E e \in Events : Latest(e) /\ (AtName(e) \/ AtData(e) \/ AtId(e) \/ AtBlank)
            \/ Chat /\ source.phase = "sentinel" /\ (AtDone \/ AtBlank)
            \/ /\ Over /\ source.kind # "whole" /\ Head(feed) \in Parts /\ feed = <<Head(feed)>>
               /\ Tail(feed) = <<>> /\ Carried(feed) = {}
<1>1. \A l : \A S : \A s \in Seq(S) :
        Head(<<l>> \o s) = l /\ Tail(<<l>> \o s) = s
  OBVIOUS
<1>2. \A l : <<l>> = <<l>> \o <<>> /\ Head(<<l>>) = l /\ Tail(<<l>>) = <<>>
  OBVIOUS
<1>3. \A l, k : Head(<<l, k>>) = l /\ Tail(<<l, k>>) = <<k>>
  OBVIOUS
<1>4. Carried(<<>>) = {}
  BY CarriedFacts
<1>5. ASSUME NEW e \in Events, Streams, feed \in Portions(e)
      PROVE  AtName(e) \/ AtData(e) \/ AtId(e) \/ AtBlank
  <2> DEFINE rest == Rest(e)
             data == <<DataLine(e)>> \o rest
  <2>1. rest \in Seq(AllLines) /\ data \in Seq(AllLines)
    BY LinesTypes
  <2>2. Lines(e) = IF Messages THEN Named(NameOf(e), data) ELSE data
    BY LinesTypes
  <2>3. Carried(rest) = {} /\ Carried(data) = {e} /\ Carried(Lines(e)) = {e} /\ Carried(<<Blank>>) = {}
    BY CarriedByLines
  <2>4. rest = IF scenario.ids THEN <<IdLine(e.n), Blank>> ELSE <<Blank>>
    BY Pairs DEF Rest
  <2> HIDE DEF rest
  <2>5. Head(data) = DataLine(e) /\ Tail(data) = rest
    BY <1>1, <2>1
  <2> HIDE DEF data
  <2>6. CASE feed = data
    BY <2>3, <2>5, <2>6 DEF AtData, rest
  <2>7. CASE feed = <<Blank>>
    BY <1>2, <1>4, <2>3, <2>7 DEF AtBlank
  <2>8. CASE feed = rest
    BY <1>2, <1>3, <1>4, <2>3, <2>4, <2>8 DEF AtBlank, AtId
  <2>9. CASE feed = Lines(e) /\ Messages
    <3>1. NameOf(e) # Unnamed
      BY DEF NameOf, Events, Kinds, Unnamed
    <3>2. feed = <<NameLine(NameOf(e))>> \o data
      BY <2>2, <2>9, <3>1 DEF Named
    <3>3. Head(feed) = NameLine(NameOf(e)) /\ Tail(feed) = data
      BY <1>1, <2>1, <3>2
    <3> QED BY <2>3, <2>9, <3>3 DEF AtName, data, rest
  <2> QED BY <1>5, <2>2, <2>6, <2>7, <2>8, <2>9 DEF Portions, data, rest
<1>6. ASSUME feed \in {<<DoneLine, Blank>>, <<Blank>>} PROVE AtDone \/ AtBlank
  <2>1. \E e : e \in Events
    BY LineTypes
  <2>2. Carried(<<DoneLine, Blank>>) = {} /\ Carried(<<Blank>>) = {}
    BY <2>1, CarriedByLines
  <2> QED BY <1>2, <1>3, <1>4, <1>6, <2>2 DEF AtDone, AtBlank
<1>7. CASE /\ Streams /\ source.phase \notin {"sentinel", "over"}
           /\ \E e \in Events : Latest(e) /\ feed \in Portions(e)
  BY <1>5, <1>7
<1>8. CASE Chat /\ source.phase = "sentinel" /\ feed \in {<<DoneLine, Blank>>, <<Blank>>}
  BY <1>6, <1>8 DEF Chat, Streams
<1>9. CASE Streams /\ Over /\ source.kind # "whole" /\ \E part \in Parts : feed = <<part>>
  <2>1. \E e : e \in Events
    BY LineTypes
  <2> QED BY <1>2, <1>9, <2>1, CarriedByLines
<1> QED BY <1>7, <1>8, <1>9 DEF FeedInOrder

\* Every send of an event, with the event it sends.
SendsEvent(e) ==
  /\ Alive /\ feed = <<>> /\ e \in Events /\ e.n = source.n + 1 /\ source'.n = source.n + 1
  /\ IF Streams THEN feed' = Lines(e) /\ UNCHANGED arrived
     ELSE arrived' = Arriving(e) /\ UNCHANGED feed
  /\ UNCHANGED <<scenario, r, out, client, trace>>
  /\ \/ /\ e.type \in {"message_start", "ping", "message_delta"} /\ e.index = None
        /\ source'.open = source.open /\ source'.kind = source.kind /\ source'.next = source.next
        /\ e.type = "message_start" => source.phase = "head" /\ source'.phase = "blocks"
        /\ e.type = "ping" => source.phase = "blocks" /\ source'.phase = "blocks"
        /\ e.type = "message_delta" =>
             source.phase = "blocks" /\ source.open = None /\ source'.phase = "tail"
     \/ /\ e.type \in Starts /\ ~Chat /\ source.phase = "blocks" /\ source'.phase = "blocks"
        /\ source.open = None /\ source.next < scenario.blocks
        /\ e.index = source.next /\ source'.open = source.next /\ source'.next = source.next + 1
        /\ source'.kind = (IF e.type = "tool_start" THEN "tool" ELSE "text")
     \/ /\ e.type \in {"text_delta", "json_delta"} /\ e.index = source.open
        /\ source.phase = "blocks" /\ source'.phase = "blocks" /\ source'.open = source.open
        /\ source'.kind = source.kind /\ source'.next = source.next
        /\ e.type = "text_delta" =>
             /\ e.text \in scenario.pieces
             /\ Chat \/ (source.open # None /\ source.kind = "text")
        /\ e.type = "json_delta" =>
             source.open # None /\ source.kind = "tool" /\ e.text \in scenario.fragments
     \/ /\ e.type = "block_stop" /\ e.index = source.open /\ source.open # None
        /\ source.phase = "blocks" /\ source'.phase = "blocks"
        /\ source'.open = None /\ source'.kind = source.kind /\ source'.next = source.next

\* What the provider sends is an event, but for the sentinel and the end.
LEMMA SendIsOfEvent ==
  ASSUME Typed,
         \/ SendHead \/ SendPing \/ SendTail \/ SendBlockStop
         \/ \E kind \in {"text", "tool"} : SendBlockStart(kind)
         \/ \E piece \in scenario.pieces : SendText(piece)
         \/ \E fragment \in scenario.fragments : SendFragment(fragment)
  PROVE  \E e : SendsEvent(e)
<1>0. /\ source \in Sources /\ scenario \in Scenarios /\ source.n + 1 \in Nat /\ <<>> \in Text
      /\ None \in Places /\ source.open \in Places /\ source.deltas + 1 \in Nat
  <2>1. None \in Places
    BY DEF Places
  <2>2. source \in Sources /\ scenario \in Scenarios
    BY DEF Typed
  <2>3. source.n \in Nat /\ source.deltas \in Nat /\ source.open \in Places
    BY <2>2 DEF Sources
  <2>4. <<>> \in Text
    BY TextFacts
  <2>5. source.n + 1 \in Nat /\ source.deltas + 1 \in Nat
    BY <2>3
  <2> QED BY <2>1, <2>2, <2>3, <2>4, <2>5
<1>1. \A type \in Kinds, index \in Places, text \in Text :
        LET e == Sent(type, index, text)
        IN  /\ e \in Events /\ e.type = type /\ e.index = index /\ e.text = text
            /\ e.n = source.n + 1
  BY <1>0 DEF Sent, Event, Events
<1>2. ASSUME NEW e, NEW after, Sends(e, after), Alive, after \in Sources, after.n = source.n
      PROVE  /\ Alive /\ feed = <<>>
             /\ source'.n = source.n + 1 /\ source'.phase = after.phase
             /\ source'.open = after.open /\ source'.kind = after.kind /\ source'.next = after.next
             /\ IF Streams THEN feed' = Lines(e) /\ UNCHANGED arrived
                ELSE arrived' = Arriving(e) /\ UNCHANGED feed
             /\ UNCHANGED <<scenario, r, out, client, trace>>
  BY <1>2 DEF Sends, Sources
<1>3. CASE SendHead
  <2> DEFINE e == Sent("message_start", None, <<>>)
             after == [source EXCEPT !.phase = "blocks"]
  <2>1. e \in Events /\ e.type = "message_start" /\ e.index = None /\ e.n = source.n + 1
    BY <1>0, <1>1 DEF Kinds
  <2>2. /\ after \in Sources /\ after.n = source.n /\ after.phase = "blocks"
        /\ after.open = source.open /\ after.kind = source.kind /\ after.next = source.next
    BY <1>0 DEF Sources, Phases
  <2>3. Sends(e, after) /\ Alive /\ source.phase = "head"
    BY <1>3 DEF SendHead
  <2> HIDE DEF e, after
  <2>4. SendsEvent(e)
    BY <1>2, <2>1, <2>2, <2>3 DEF SendsEvent
  <2> QED BY <2>4
<1>4. CASE SendPing
  <2> DEFINE e == Sent("ping", None, <<>>)
             after == [source EXCEPT !.deltas = @ + 1]
  <2>1. e \in Events /\ e.type = "ping" /\ e.index = None /\ e.n = source.n + 1
    BY <1>0, <1>1 DEF Kinds
  <2>2. /\ after \in Sources /\ after.n = source.n /\ after.phase = source.phase
        /\ after.open = source.open /\ after.kind = source.kind /\ after.next = source.next
    BY <1>0 DEF Sources
  <2>3. Sends(e, after) /\ Alive /\ source.phase = "blocks"
    BY <1>4 DEF SendPing
  <2> HIDE DEF e, after
  <2>4. SendsEvent(e)
    BY <1>2, <2>1, <2>2, <2>3 DEF SendsEvent
  <2> QED BY <2>4
<1>5. CASE SendTail
  <2> DEFINE e == Sent("message_delta", None, <<>>)
             after == [source EXCEPT !.phase = "tail"]
  <2>1. e \in Events /\ e.type = "message_delta" /\ e.index = None /\ e.n = source.n + 1
    BY <1>0, <1>1 DEF Kinds
  <2>2. /\ after \in Sources /\ after.n = source.n /\ after.phase = "tail"
        /\ after.open = source.open /\ after.kind = source.kind /\ after.next = source.next
    BY <1>0 DEF Sources, Phases
  <2>3. Sends(e, after) /\ Alive /\ source.phase = "blocks" /\ source.open = None
    BY <1>5 DEF SendTail
  <2> HIDE DEF e, after
  <2>4. SendsEvent(e)
    BY <1>2, <2>1, <2>2, <2>3 DEF SendsEvent
  <2> QED BY <2>4
<1>6. CASE SendBlockStop
  <2> DEFINE e == Sent("block_stop", source.open, <<>>)
             after == [source EXCEPT !.open = None]
  <2>1. e \in Events /\ e.type = "block_stop" /\ e.index = source.open /\ e.n = source.n + 1
    BY <1>0, <1>1 DEF Kinds
  <2>2. /\ after \in Sources /\ after.n = source.n /\ after.phase = source.phase
        /\ after.open = None /\ after.kind = source.kind /\ after.next = source.next
    BY <1>0 DEF Sources
  <2>3. Sends(e, after) /\ Alive /\ source.phase = "blocks" /\ source.open # None
    BY <1>6 DEF SendBlockStop
  <2> HIDE DEF e, after
  <2>4. SendsEvent(e)
    BY <1>2, <2>1, <2>2, <2>3 DEF SendsEvent
  <2> QED BY <2>4
<1>7. ASSUME NEW kind \in {"text", "tool"}, SendBlockStart(kind)
      PROVE  \E e : SendsEvent(e)
  <2> DEFINE type == IF kind = "tool" THEN "tool_start" ELSE "text_start"
             b == source.next
             e == Sent(type, b, <<>>)
             after == [source EXCEPT !.open = b, !.kind = kind, !.next = @ + 1, !.deltas = 0]
  <2>0. /\ b < scenario.blocks /\ scenario.blocks \in 0..MaxBlocks /\ b \in Begun
        /\ ~Chat /\ source.phase = "blocks" /\ source.open = None /\ Alive
        /\ Sends(e, after)
    BY <1>0, <1>7, ScenarioFacts DEF SendBlockStart, Sources, Chat
  <2>1. b \in Indices /\ b + 1 \in Begun /\ b \in Places
    <3> HIDE DEF b
    <3>a. \A n, m \in 0..MaxBlocks : m < n => m \in 0..MaxBlocks - 1 /\ m + 1 \in 0..MaxBlocks
      BY BeforeLast
    <3>1. b \in Indices /\ b + 1 \in Begun
      BY <2>0, <3>a DEF Indices, Begun
    <3> QED BY <3>1 DEF Places
  <2>2. e \in Events /\ e.type = type /\ e.index = b /\ e.n = source.n + 1
    BY <1>0, <1>1, <2>1 DEF Kinds
  <2>3. /\ after \in Sources /\ after.n = source.n /\ after.phase = source.phase
        /\ after.open = b /\ after.kind = kind /\ after.next = b + 1
    <3>1. [source EXCEPT !.open = b, !.kind = kind] \in Sources
      BY <1>0, <1>7, <2>1 DEF Sources
    <3>2. after = [[source EXCEPT !.open = b, !.kind = kind] EXCEPT !.next = b + 1, !.deltas = 0]
      BY <1>0 DEF Sources
    <3> QED BY <1>0, <2>1, <3>1, <3>2 DEF Sources
  <2>4. type \in Starts /\ kind = (IF type = "tool_start" THEN "tool" ELSE "text")
    BY <1>7 DEF Starts
  <2> HIDE DEF e, after, type
  <2>5. SendsEvent(e)
    BY <1>2, <2>0, <2>2, <2>3, <2>4 DEF SendsEvent
  <2> QED BY <2>5
<1>8. ASSUME NEW piece \in scenario.pieces, SendText(piece)
      PROVE  \E e : SendsEvent(e)
  <2> DEFINE e == Sent("text_delta", source.open, piece)
             after == [source EXCEPT !.deltas = @ + 1]
  <2>1. /\ e \in Events /\ e.type = "text_delta" /\ e.index = source.open /\ e.n = source.n + 1
        /\ e.text = piece
    BY <1>0, <1>1, <1>8, ScenarioFacts DEF Kinds
  <2>2. /\ after \in Sources /\ after.n = source.n /\ after.phase = source.phase
        /\ after.open = source.open /\ after.kind = source.kind /\ after.next = source.next
    BY <1>0 DEF Sources
  <2>3. /\ Sends(e, after) /\ Alive /\ source.phase = "blocks"
        /\ Chat \/ (source.open # None /\ source.kind = "text")
    BY <1>8 DEF SendText, Chat
  <2> HIDE DEF e, after
  <2>4. SendsEvent(e)
    BY <1>2, <1>8, <2>1, <2>2, <2>3 DEF SendsEvent
  <2> QED BY <2>4
<1>9. ASSUME NEW fragment \in scenario.fragments, SendFragment(fragment)
      PROVE  \E e : SendsEvent(e)
  <2> DEFINE e == Sent("json_delta", source.open, fragment)
             after == [source EXCEPT !.deltas = @ + 1]
  <2>1. /\ e \in Events /\ e.type = "json_delta" /\ e.index = source.open /\ e.n = source.n + 1
        /\ e.text = fragment
    BY <1>0, <1>1, <1>9, ScenarioFacts DEF Kinds
  <2>2. /\ after \in Sources /\ after.n = source.n /\ after.phase = source.phase
        /\ after.open = source.open /\ after.kind = source.kind /\ after.next = source.next
    BY <1>0 DEF Sources
  <2>3. /\ Sends(e, after) /\ Alive /\ source.phase = "blocks"
        /\ source.open # None /\ source.kind = "tool"
    BY <1>9 DEF SendFragment
  <2> HIDE DEF e, after
  <2>4. SendsEvent(e)
    BY <1>2, <1>9, <2>1, <2>2, <2>3 DEF SendsEvent
  <2> QED BY <2>4
<1> QED BY <1>3, <1>4, <1>5, <1>6, <1>7, <1>8, <1>9

\* An event that is sent is the last one sent.
LEMMA SentIsLatest ==
  ASSUME Typed, BlocksInOrder, NEW e, SendsEvent(e)
  PROVE  /\ Latest(e)' /\ source'.phase \notin {"sentinel", "over"} /\ BlocksInOrder'
         /\ Streams => feed' = Lines(e)' /\ feed' \in Portions(e)'
         /\ ~Streams => feed' = <<>>
         /\ Streams' = Streams /\ Chat' = Chat /\ Messages' = Messages
<1>0. source \in Sources /\ scenario \in Scenarios /\ source.n \in Nat /\ source.next \in Nat
      /\ source.phase # "over" /\ scenario' = scenario
  <2>1. source \in Sources /\ scenario \in Scenarios
    BY DEF Typed
  <2>2. source.n \in Nat /\ source.next \in Begun
    BY <2>1 DEF Sources
  <2>3. source.next \in Nat
    BY <2>2, BoundsAssumption DEF Begun
  <2>4. source.phase # "over" /\ scenario' = scenario
    BY DEF SendsEvent, Alive
  <2> QED BY <2>1, <2>2, <2>3, <2>4
<1>1. Streams' = Streams /\ Chat' = Chat /\ Messages' = Messages /\ Lines(e)' = Lines(e)
  BY <1>0 DEF Streams, Chat, Messages, Lines
<1>2. source'.phase \notin {"sentinel", "over"}
  BY DEF SendsEvent, Starts
<1>3. Latest(e)'
  BY <1>0, <1>1 DEF SendsEvent, Latest, Starts, BlocksInOrder, None
<1>4. BlocksInOrder'
  <2>1. scenario.blocks \in Nat
    BY <1>0, ScenarioFacts, BoundsAssumption
  <2> QED BY <1>0, <1>1, <1>2, <2>1 DEF SendsEvent, BlocksInOrder, Starts, None, Over
<1>5. Streams => feed' = Lines(e)' /\ feed' \in Portions(e)'
  BY <1>1 DEF SendsEvent, Portions
<1>6. ~Streams => feed' = <<>>
  BY DEF SendsEvent
<1> QED BY <1>1, <1>2, <1>3, <1>4, <1>5, <1>6

\* Every step keeps the order of the provider and of its lines.
LEMMA SourceStep ==
  ASSUME Typed, BlocksInOrder, FeedInOrder, [Next]_vars
  PROVE  BlocksInOrder' /\ FeedInOrder'
<1>0. /\ source \in Sources /\ scenario \in Scenarios /\ feed \in Seq(AllLines)
      /\ scenario.shape \in {"messages", "chat", "document"}
  BY ScenarioFacts DEF Typed
<1>1. CASE \/ SendHead \/ SendPing \/ SendTail \/ SendBlockStop
           \/ \E kind \in {"text", "tool"} : SendBlockStart(kind)
           \/ \E piece \in scenario.pieces : SendText(piece)
           \/ \E fragment \in scenario.fragments : SendFragment(fragment)
  <2>1. PICK e : SendsEvent(e)
    BY <1>1, SendIsOfEvent
  <2>2. /\ Latest(e)' /\ source'.phase \notin {"sentinel", "over"} /\ BlocksInOrder'
        /\ Streams => feed' \in Portions(e)'
        /\ ~Streams => feed' = <<>>
        /\ Streams' = Streams
    BY <2>1, SentIsLatest
  <2>3. e \in Events /\ Events' = Events
    BY <2>1 DEF SendsEvent, Events, Places, Indices
  <2> QED BY <2>2, <2>3 DEF FeedInOrder
<1>2. CASE SendDone
  <2>1. /\ scenario' = scenario /\ Chat /\ feed' = <<DoneLine, Blank>> /\ source.phase = "tail"
        /\ source' = [source EXCEPT !.phase = "sentinel"]
    BY <1>2 DEF SendDone, Chat
  <2>2. source'.phase = "sentinel" /\ source'.open = source.open /\ source'.next = source.next
        /\ source'.kind = source.kind
    BY <1>0, <2>1 DEF Sources
  <2>3. FeedInOrder'
    BY <2>1, <2>2 DEF FeedInOrder, Chat
  <2>4. BlocksInOrder'
    BY <2>1, <2>2 DEF BlocksInOrder, Chat, Over
  <2> QED BY <2>3, <2>4
<1>3. ASSUME NEW how \in {"whole", "short", "failed"}, NEW left \in Remains, EndOfAnswer(how, left)
      PROVE  BlocksInOrder' /\ FeedInOrder'
  <2>1. /\ scenario' = scenario /\ feed' = left
        /\ source' = [source EXCEPT !.phase = "over", !.kind = how]
    BY <1>3 DEF EndOfAnswer
  <2>2. /\ source'.phase = "over" /\ source'.open = source.open /\ source'.next = source.next
        /\ source'.kind = how
    BY <1>0, <2>1 DEF Sources
  <2>3. left # <<>> => feed # <<>> /\ how # "whole" /\ \E part \in Parts : left = <<part>>
    BY <1>3 DEF EndOfAnswer, Remains, Parts
  <2>4. left # <<>> => Streams
    BY <2>3, FeedCases
  <2>5. FeedInOrder'
    BY <2>1, <2>2, <2>3, <2>4 DEF FeedInOrder, Streams, Over, Parts
  <2>6. BlocksInOrder'
    BY <2>1, <2>2 DEF BlocksInOrder, Chat, Over
  <2> QED BY <2>5, <2>6
<1>4. ASSUME feed # <<>>, feed' = Tail(feed), UNCHANGED <<scenario, source>>
      PROVE  BlocksInOrder' /\ FeedInOrder'
  <2>1. BlocksInOrder'
    BY <1>4 DEF BlocksInOrder, Chat, Over
  <2>2. /\ Streams' = Streams /\ Chat' = Chat /\ Over' = Over
        /\ \A e : Latest(e)' = Latest(e) /\ Portions(e)' = Portions(e)
    BY <1>4 DEF Streams, Chat, Over, Latest, Starts, Portions, Lines, Rest
  <2>3. ASSUME NEW e \in Events, Latest(e), source.phase \notin {"sentinel", "over"}, Streams,
               AtName(e) \/ AtData(e) \/ AtId(e) \/ AtBlank
        PROVE  FeedInOrder'
    <3>1. Tail(feed) = <<>> \/ Tail(feed) \in Portions(e)
      BY <2>3 DEF AtName, AtData, AtId, AtBlank, Portions
    <3>2. Events' = Events
      BY DEF Events, Places, Indices
    <3> QED BY <1>4, <2>2, <2>3, <3>1, <3>2 DEF FeedInOrder
  <2>4. ASSUME Chat, source.phase = "sentinel", AtDone \/ AtBlank
        PROVE  FeedInOrder'
    <3>1. Tail(feed) = <<>> \/ Tail(feed) = <<Blank>>
      BY <2>4 DEF AtDone, AtBlank
    <3> QED BY <1>4, <2>2, <2>4, <3>1 DEF FeedInOrder
  <2>5. ASSUME Tail(feed) = <<>> PROVE FeedInOrder'
    BY <1>4, <2>5 DEF FeedInOrder
  <2> QED BY <1>4, <2>1, <2>3, <2>4, <2>5, FeedCases
<1>5. CASE ReadLine
  BY <1>4, <1>5 DEF ReadLine
<1>6. CASE ReadEnd
  <2>1. BlocksInOrder'
    BY <1>6 DEF ReadEnd, BlocksInOrder, Chat, Over
  <2>2. feed' = <<>>
    BY <1>6 DEF ReadEnd
  <2> QED BY <2>1, <2>2 DEF FeedInOrder
<1>7. ASSUME UNCHANGED <<scenario, source, feed>>
      PROVE  BlocksInOrder' /\ FeedInOrder'
  <2>1. BlocksInOrder'
    BY <1>7 DEF BlocksInOrder, Chat, Over
  <2>2. /\ Streams' = Streams /\ Chat' = Chat /\ Over' = Over /\ Events' = Events
        /\ \A e : Latest(e)' = Latest(e) /\ Portions(e)' = Portions(e)
    BY <1>7 DEF Streams, Chat, Over, Latest, Starts, Portions, Lines, Rest, Events, Places, Indices
  <2>3. FeedInOrder'
    BY <1>7, <2>2 DEF FeedInOrder
  <2> QED BY <2>1, <2>3
<1>8. CASE Deliver \/ Finish \/ HangUp \/ Buffered \/ UNCHANGED vars
  BY <1>7, <1>8 DEF Deliver, Finish, HangUp, Buffered, vars
<1> QED BY <1>1, <1>2, <1>3, <1>5, <1>6, <1>8 DEF Next

-----------------------------------------------------------------------------
(* The trace. *)

\* The length and the domain of a sequence.
LEMMA LengthFacts ==
  ASSUME NEW S, NEW s \in Seq(S)
  PROVE  Len(s) \in Nat /\ DOMAIN s = 1..Len(s) /\ \A i \in DOMAIN s : i \in Nat
OBVIOUS

\* An event of the last block, or of the one after it, changes that block alone.
BlockAs(a, blocks, b) ==
  /\ Len(a) = (IF b = Len(blocks) THEN Len(blocks) + 1 ELSE Len(blocks))
  /\ Numbered(a) /\ b + 1 \in DOMAIN a
  /\ \A i \in DOMAIN a : i # b + 1 => i \in DOMAIN blocks /\ a[i] = blocks[i]

\* The block an event finds: the one of its index, or a new one.
FoundAt(blocks, b) ==
  IF b = Len(blocks) THEN [index |-> b, label |-> "text", said |-> <<>>] ELSE blocks[b + 1]

\* The block of an index is there, or opened behind the last.
LEMMA OpenedBlocks ==
  ASSUME NEW blocks \in Seq(Blocks), Numbered(blocks), NEW b \in Indices, b <= Len(blocks)
  PROVE  LET a == Opened(blocks, b)
         IN  a \in Seq(Blocks) /\ BlockAs(a, blocks, b) /\ a[b + 1] = FoundAt(blocks, b)
<1>0. b \in Nat /\ Len(blocks) \in Nat /\ DOMAIN blocks = 1..Len(blocks)
  BY PlacesFacts
<1>1. CASE b = Len(blocks)
  <2> DEFINE new == [index |-> b, label |-> "text", said |-> <<>>]
             a == Append(blocks, new)
  <2>1. ~\E i \in DOMAIN blocks : blocks[i].index = b
    BY <1>0, <1>1 DEF Numbered
  <2>2. Opened(blocks, b) = a
    BY <2>1 DEF Opened
  <2>3. new \in Blocks /\ new.index = b
    BY TextFacts DEF Blocks
  <2> HIDE DEF new
  <2>4. /\ a \in Seq(Blocks) /\ Len(a) = b + 1 /\ a[b + 1] = new /\ DOMAIN a = 1..b + 1
        /\ \A i \in 1..b : a[i] = blocks[i]
    BY <1>1, <2>3
  <2> HIDE DEF a
  <2>5. \A i \in 1..b + 1 : i # b + 1 => i \in 1..b
    BY <1>0
  <2>6. Numbered(a)
    BY <1>0, <1>1, <2>3, <2>4, <2>5 DEF Numbered
  <2>7. BlockAs(a, blocks, b)
    BY <1>0, <1>1, <2>4, <2>5, <2>6 DEF BlockAs
  <2> QED BY <1>1, <2>2, <2>4, <2>7 DEF FoundAt, new
<1>2. CASE b # Len(blocks)
  <2>1. b + 1 \in DOMAIN blocks
    <3>1. \A m, k \in Nat : m <= k /\ m # k => m + 1 \in 1..k
      OBVIOUS
    <3> QED BY <1>0, <1>2, <3>1
  <2>2. blocks[b + 1].index = b
    BY <1>0, <2>1 DEF Numbered
  <2>3. Opened(blocks, b) = blocks
    BY <2>1, <2>2 DEF Opened
  <2> QED BY <1>2, <2>1, <2>3 DEF BlockAs, FoundAt
<1> QED BY <1>1, <1>2

\* What an event adds to its block of the copy.
LEMMA AssembledBlock ==
  ASSUME NEW blocks \in Seq(Blocks), Numbered(blocks), NEW e \in Events, Slot(e) <= Len(blocks),
         e.type \in Starts \union {"text_delta", "json_delta"}
  PROVE  LET a == Assembled(blocks, DataLine(e))
             b == Slot(e)
             found == FoundAt(blocks, b)
         IN  /\ BlockAs(a, blocks, b)
             /\ a[b + 1].label = (IF e.type \in Starts THEN e.type ELSE found.label)
             /\ a[b + 1].said = (IF e.type \in Starts THEN found.said ELSE found.said \o e.text)
<1> DEFINE b == Slot(e)
           o == Opened(blocks, b)
           found == FoundAt(blocks, b)
           g == IF e.type \in Starts THEN [found EXCEPT !.label = e.type]
                ELSE [found EXCEPT !.said = @ \o e.text]
           a == [i \in DOMAIN o |-> IF i = b + 1 THEN g ELSE o[i]]
<1>1. b \in Indices /\ b \in Nat
  BY LineTypes, PlacesFacts
<1>2. DataLine(e).event = e
  BY DEF DataLine, Line
<1> HIDE DEF b
<1>3. o \in Seq(Blocks) /\ BlockAs(o, blocks, b) /\ o[b + 1] = found
  BY <1>1, OpenedBlocks DEF b
<1>4. Assembled(blocks, DataLine(e))
      = IF e.type \in Starts THEN Labelled(o, b, e.type) ELSE Added(o, b, e.text)
  BY <1>2 DEF Assembled, b, Starts
<1> HIDE DEF o, found
<1>5. \A i \in DOMAIN o : o[i].index = b <=> i = b + 1
  <2>1. DOMAIN o = 1..Len(o) /\ Len(o) \in Nat
    BY <1>3
  <2> QED BY <1>1, <1>3, <2>1 DEF BlockAs, Numbered
<1>6. Labelled(o, b, e.type) = [i \in DOMAIN o |-> IF i = b + 1 THEN [found EXCEPT !.label = e.type]
                                                   ELSE o[i]]
  <2>1. \A i \in DOMAIN o : (IF o[i].index = b THEN [o[i] EXCEPT !.label = e.type] ELSE o[i])
                            = (IF i = b + 1 THEN [found EXCEPT !.label = e.type] ELSE o[i])
    BY <1>3, <1>5
  <2> QED BY <2>1, Zenon DEF Labelled
<1>7. Added(o, b, e.text) = [i \in DOMAIN o |-> IF i = b + 1 THEN [found EXCEPT !.said = @ \o e.text]
                                                ELSE o[i]]
  <2>1. \A i \in DOMAIN o : (IF o[i].index = b THEN [o[i] EXCEPT !.said = @ \o e.text] ELSE o[i])
                            = (IF i = b + 1 THEN [found EXCEPT !.said = @ \o e.text] ELSE o[i])
    BY <1>3, <1>5
  <2> QED BY <2>1, Zenon DEF Added
<1>8. Assembled(blocks, DataLine(e)) = a
  BY <1>4, <1>6, <1>7
<1>9. found \in Blocks /\ found.index = b
  <2>1. b + 1 \in DOMAIN o
    BY <1>3 DEF BlockAs
  <2>2. o[b + 1] \in Blocks
    BY <1>3, <2>1
  <2> QED BY <1>1, <1>3, <1>5, <2>1, <2>2
<1>10. /\ g.index = b
       /\ g.label = (IF e.type \in Starts THEN e.type ELSE found.label)
       /\ g.said = (IF e.type \in Starts THEN found.said ELSE found.said \o e.text)
  BY <1>9 DEF Blocks
<1> HIDE DEF g
<1>11. DOMAIN a = DOMAIN o /\ Len(a) = Len(o) /\ \A i \in DOMAIN o : a[i] = IF i = b + 1 THEN g ELSE o[i]
  <2>1. DOMAIN a = 1..Len(o) /\ Len(o) \in Nat
    BY <1>3
  <2>2. a \in Seq({a[i] : i \in 1..Len(o)})
    BY <2>1
  <2> QED BY <2>1, <2>2
<1> HIDE DEF a
<1>12. BlockAs(a, blocks, b)
  <2>1. Numbered(a)
    BY <1>1, <1>3, <1>10, <1>11 DEF BlockAs, Numbered
  <2> QED BY <1>3, <1>11, <2>1 DEF BlockAs
<1>13. a[b + 1] = g
  BY <1>3, <1>11 DEF BlockAs
<1> QED BY <1>8, <1>10, <1>12, <1>13 DEF b, found

\* What an event brings.
BroughtBy(a, e) ==
  LET b == Slot(e)
  IN  /\ \A c \in Indices : c # b => a.text[c] = arrived.text[c] /\ a.args[c] = arrived.args[c]
      /\ a.text[b] = (IF e.type = "text_delta" THEN arrived.text[b] \o e.text ELSE arrived.text[b])
      /\ a.args[b] = (IF e.type = "json_delta" THEN arrived.args[b] \o e.text ELSE arrived.args[b])
      /\ a.tools = (IF e.type = "json_delta" THEN arrived.tools \union {b} ELSE arrived.tools)

\* What an event adds to what has arrived.
LEMMA ArrivingBrings ==
  ASSUME arrived \in Arrivals, NEW e \in Events
  PROVE  BroughtBy(Arriving(e), e)
<1> DEFINE b == Slot(e)
<1>1. b \in Indices /\ e.text \in Text
  BY LineTypes DEF Events
<1>2. Arriving(e) = CASE e.type = "text_delta" -> [arrived EXCEPT !.text[b] = @ \o e.text]
                      [] e.type = "json_delta" -> [arrived EXCEPT !.args[b] = @ \o e.text,
                                                                  !.tools = @ \union {b}]
                      [] OTHER -> arrived
  BY DEF Arriving
<1> HIDE DEF b
<1>3. arrived.text \in [Indices -> Text] /\ arrived.args \in [Indices -> Text]
  BY DEF Arrivals
<1> DEFINE s == arrived.text[b] \o e.text
           t == arrived.args[b] \o e.text
<1>4. CASE e.type = "text_delta"
  <2>1. Arriving(e) = [arrived EXCEPT !.text[b] = s]
    BY <1>2, <1>4
  <2> HIDE DEF s
  <2>2. /\ Arriving(e).text = [arrived.text EXCEPT ![b] = s] /\ Arriving(e).args = arrived.args
        /\ Arriving(e).tools = arrived.tools
    BY <2>1 DEF Arrivals
  <2> QED BY <1>1, <1>3, <1>4, <2>2 DEF BroughtBy, b, s
<1>5. CASE e.type = "json_delta"
  <2>1. Arriving(e) = [arrived EXCEPT !.args[b] = t, !.tools = @ \union {b}]
    BY <1>2, <1>5
  <2> HIDE DEF t
  <2>2. /\ Arriving(e).args = [arrived.args EXCEPT ![b] = t] /\ Arriving(e).text = arrived.text
        /\ Arriving(e).tools = arrived.tools \union {b}
    BY <2>1 DEF Arrivals
  <2> QED BY <1>1, <1>3, <1>5, <2>2 DEF BroughtBy, b, t
<1>6. CASE e.type \notin {"text_delta", "json_delta"}
  <2>1. Arriving(e) = arrived
    BY <1>2, <1>6
  <2> QED BY <1>6, <2>1 DEF BroughtBy
<1> QED BY <1>4, <1>5, <1>6

\* The copy of an event that belongs to a block: a start of the block after the last,
\* or a piece of the last.
LEMMA CopiedEvent ==
  ASSUME NEW blocks \in Seq(Blocks), NEW e \in Events, NEW a,
         arrived \in Arrivals, CopiedRight(blocks, arrived), BroughtBy(a, e),
         Slot(e) <= Len(blocks), e.type \in Starts \union {"text_delta", "json_delta"},
         e.type \in Starts => Slot(e) = Len(blocks),
         e.type = "text_delta" => FoundAt(blocks, Slot(e)).label # "tool_start",
         e.type = "json_delta" => FoundAt(blocks, Slot(e)).label = "tool_start"
  PROVE  CopiedRight(Assembled(blocks, DataLine(e)), a)
<1> DEFINE b == Slot(e)
           found == FoundAt(blocks, b)
           as == Assembled(blocks, DataLine(e))
<1>1. /\ BlockAs(as, blocks, b)
      /\ as[b + 1].label = (IF e.type \in Starts THEN e.type ELSE found.label)
      /\ as[b + 1].said = (IF e.type \in Starts THEN found.said ELSE found.said \o e.text)
  BY AssembledBlock DEF CopiedRight
<1>2. as \in Seq(Blocks)
  BY LineTypes, AssembledTypes
<1>3. b \in Indices /\ b \in Nat /\ Len(blocks) \in Nat
  <2>1. b \in Indices
    BY LineTypes
  <2>2. Len(blocks) \in Nat
    OBVIOUS
  <2> HIDE DEF b
  <2>3. b \in Nat
    BY <2>1, PlacesFacts
  <2> QED BY <2>1, <2>2, <2>3
<1>4. /\ \A c \in Indices : c # b => a.text[c] = arrived.text[c] /\ a.args[c] = arrived.args[c]
      /\ a.text[b] = (IF e.type = "text_delta" THEN arrived.text[b] \o e.text ELSE arrived.text[b])
      /\ a.args[b] = (IF e.type = "json_delta" THEN arrived.args[b] \o e.text ELSE arrived.args[b])
  BY DEF BroughtBy
<1>5. found.said = (IF found.label = "tool_start" THEN arrived.args[b] ELSE arrived.text[b])
  <2>1. CASE b = Len(blocks)
    <3>1. found.said = <<>> /\ found.label = "text"
      BY <2>1 DEF FoundAt
    <3>2. arrived.text[b] = <<>>
      BY <1>3, <2>1 DEF CopiedRight
    <3> QED BY <3>1, <3>2
  <2>2. CASE b # Len(blocks)
    <3>1. \A m, k \in Nat : m <= k /\ m # k => m + 1 \in 1..k
      OBVIOUS
    <3>2. b + 1 \in DOMAIN blocks
      BY <1>3, <2>2, <3>1
    <3>3. found = blocks[b + 1] /\ found.index = b
      BY <1>3, <2>2, <3>2 DEF FoundAt, CopiedRight, Numbered
    <3> QED BY <3>2, <3>3 DEF CopiedRight
  <2> QED BY <2>1, <2>2
<1>6. e.type \in Starts =>
        found.said = <<>> /\ arrived.text[b] = <<>> /\ arrived.args[b] = <<>>
  BY <1>3 DEF FoundAt, CopiedRight
<1> HIDE DEF b, found, as
<1>2a. Len(as) \in Nat /\ DOMAIN as = 1..Len(as) /\ \A i \in DOMAIN as : i \in Nat
  BY <1>2, LengthFacts, Zenon
<1>7. as[b + 1].said = (IF as[b + 1].label = "tool_start" THEN a.args[b] ELSE a.text[b])
  BY <1>1, <1>4, <1>5, <1>6 DEF Starts, b, found
<1>8. ASSUME NEW i \in DOMAIN as
      PROVE  as[i].said = (IF as[i].label = "tool_start" THEN a.args[as[i].index]
                           ELSE a.text[as[i].index])
  <2>1. as[i].index = i - 1 /\ i \in Nat
    BY <1>1, <1>2a DEF BlockAs, Numbered
  <2>2. CASE i = b + 1
    <3>1. as[i].index = b
      BY <1>3, <2>1, <2>2
    <3> QED BY <1>7, <2>2, <3>1
  <2>3. CASE i # b + 1
    <3>1. i \in DOMAIN blocks /\ as[i] = blocks[i]
      BY <1>1, <2>3 DEF BlockAs
    <3>2. as[i].index \in Indices /\ as[i].index # b
      <4>1. blocks[i] \in Blocks
        BY <3>1
      <4> QED BY <1>3, <2>1, <2>3, <3>1, <4>1 DEF Blocks
    <3> QED BY <1>4, <3>1, <3>2 DEF CopiedRight
  <2> QED BY <2>2, <2>3
<1>9. ASSUME NEW c \in Indices, c >= Len(as)
      PROVE  a.text[c] = <<>> /\ a.args[c] = <<>>
  <2>1. c \in Nat /\ Len(as) \in Nat /\ DOMAIN as = 1..Len(as)
    BY <1>2a, PlacesFacts
  <2>2. c # b /\ c >= Len(blocks)
    BY <1>1, <1>3, <1>9, <2>1 DEF BlockAs
  <2> QED BY <1>4, <2>2 DEF CopiedRight
<1> QED BY <1>1, <1>8, <1>9 DEF CopiedRight, BlockAs, as

\* Every line the agent reads leaves the trace in order.
LEMMA ReadIsCopied ==
  ASSUME Typed, BlocksInOrder, FeedInOrder, TraceInOrder, ReadLine
  PROVE  CopiedRight(trace.blocks, arrived)' /\ BlocksRead'
<1> DEFINE line == Head(feed)
<1>0. /\ Streams /\ feed # <<>> /\ line.kind \notin Partial /\ feed' = Tail(feed)
      /\ trace' = [trace EXCEPT !.blocks = Assembled(@, line)]
      /\ arrived' = (IF line.kind = "data" THEN Arriving(line.event) ELSE arrived)
      /\ UNCHANGED <<scenario, source, client>>
  BY DEF ReadLine
<1>1. /\ trace \in Traces /\ arrived \in Arrivals /\ source \in Sources /\ scenario \in Scenarios
      /\ CopiedRight(trace.blocks, arrived) /\ BlocksRead
  BY <1>0 DEF Typed, TraceInOrder
<1>2. /\ trace.blocks \in Seq(Blocks) /\ trace'.blocks = Assembled(trace.blocks, line)
      /\ Len(trace.blocks) \in Nat /\ DOMAIN trace.blocks = 1..Len(trace.blocks)
      /\ source.next \in Nat
  <2>1. trace.blocks \in Seq(Blocks) /\ trace'.blocks = Assembled(trace.blocks, line)
    BY <1>0, <1>1 DEF Traces
  <2>2. source.next \in Nat
    BY <1>1, BoundsAssumption DEF Sources, Begun
  <2> QED BY <2>1, <2>2, LengthFacts
<1>3. /\ Chat' = Chat /\ Messages' = Messages /\ Over' = Over /\ Indices' = Indices
      /\ StartUnread' <=> \E e \in Carried(Tail(feed)) : e.type \in Starts
  BY <1>0 DEF Chat, Messages, Over, Indices, StartUnread, Carried
<1>4. ASSUME line.kind # "data", line.event = NoEvent, Carried(Tail(feed)) = Carried(feed)
      PROVE  CopiedRight(trace.blocks, arrived)' /\ BlocksRead'
  <2>1. trace'.blocks = trace.blocks /\ arrived' = arrived
    BY <1>0, <1>2, <1>4 DEF Assembled, NoEvent, Event
  <2>2. StartUnread' <=> StartUnread
    BY <1>3, <1>4 DEF StartUnread
  <2>3. CopiedRight(trace.blocks, arrived)'
    BY <1>1, <2>1 DEF CopiedRight, Numbered, Indices
  <2>4. BlocksRead'
    BY <1>0, <1>1, <1>3, <2>1, <2>2 DEF BlocksRead
  <2> QED BY <2>3, <2>4
<1>5. ASSUME NEW e \in Events, Latest(e), source.phase \notin {"sentinel", "over"}, AtData(e)
      PROVE  CopiedRight(trace.blocks, arrived)' /\ BlocksRead'
  <2>1. /\ line = DataLine(e) /\ line.kind = "data" /\ line.event = e
        /\ Carried(feed) = {e} /\ ~StartUnread' /\ (StartUnread <=> e.type \in Starts)
    <3>1. DataLine(e).kind = "data" /\ DataLine(e).event = e
      BY DEF DataLine, Line
    <3>2. line = DataLine(e) /\ Carried(feed) = {e} /\ Carried(Tail(feed)) = {}
      BY <1>5 DEF AtData
    <3> HIDE DEF line
    <3> QED BY <1>3, <3>1, <3>2 DEF StartUnread
  <2>2. trace'.blocks = Assembled(trace.blocks, DataLine(e)) /\ BroughtBy(arrived', e)
    BY <1>0, <1>1, <1>2, <2>1, ArrivingBrings
  <2>3. CASE e.type \notin Starts \union {"text_delta", "json_delta"}
    <3>1. trace'.blocks = trace.blocks /\ arrived' = arrived
      BY <1>0, <2>1, <2>2, <2>3 DEF Assembled, Arriving, Starts
    <3>2. CopiedRight(trace.blocks, arrived)'
      BY <1>1, <3>1 DEF CopiedRight, Numbered, Indices
    <3>3. BlocksRead'
      BY <1>0, <1>1, <1>3, <2>1, <2>3, <3>1 DEF BlocksRead
    <3> QED BY <3>2, <3>3
  <2>4. CASE e.type \in Starts \union {"text_delta", "json_delta"}
    <3> DEFINE b == Slot(e)
               found == FoundAt(trace.blocks, b)
    <3>1. ~Over /\ (Chat \/ Messages) /\ ~(Chat /\ Messages)
      BY <1>0, <1>1, <1>5, ScenarioFacts DEF Over, Chat, Messages, Streams
    <3>2. ASSUME Chat
          PROVE  e.type = "text_delta" /\ b = 0 /\ Len(trace.blocks) <= 1 /\ found.label = "text"
      <4>1. e.type = "text_delta" /\ e.index = None
        BY <1>5, <2>4, <3>2 DEF Latest, BlocksInOrder, Starts
      <4>2. b = 0
        BY <4>1 DEF Slot
      <4>3. Len(trace.blocks) <= 1 /\ \A i \in DOMAIN trace.blocks : trace.blocks[i].label = "text"
        BY <1>1, <3>2 DEF BlocksRead
      <4>4. CASE b = Len(trace.blocks)
        BY <4>1, <4>2, <4>3, <4>4 DEF FoundAt
      <4>5. CASE b # Len(trace.blocks)
        <5>1. 1 \in DOMAIN trace.blocks
          BY <1>2, <4>2, <4>5
        <5>2. found = trace.blocks[1]
          BY <4>2, <4>5 DEF FoundAt
        <5> QED BY <4>1, <4>2, <4>3, <5>1, <5>2
      <4> QED BY <4>4, <4>5
    <3>3. ASSUME Messages
          PROVE  /\ source.open # None /\ b = source.next - 1 /\ source.next >= 1
                 /\ IF e.type \in Starts
                    THEN /\ Len(trace.blocks) = b
                         /\ e.type = (IF source.kind = "tool" THEN "tool_start" ELSE "text_start")
                    ELSE /\ Len(trace.blocks) = b + 1 /\ found = trace.blocks[b + 1]
                         /\ found.label = (IF source.kind = "tool" THEN "tool_start" ELSE "text_start")
                         /\ source.kind = (IF e.type = "json_delta" THEN "tool" ELSE "text")
      <4>1. source.open # None /\ e.index = source.open /\ source.open = source.next - 1
        BY <1>5, <2>4, <3>1, <3>3 DEF Latest, BlocksInOrder, Starts
      <4>2. b = source.next - 1 /\ source.open \in Nat
        <5>1. source.open \in Nat
          BY <1>1, <4>1, PlacesFacts DEF Sources, Places
        <5> QED BY <4>1, <5>1 DEF Slot
      <4>3. source.next >= 1
        BY <1>2, <4>1, <4>2
      <4>4. /\ Len(trace.blocks) = (IF StartUnread THEN source.next - 1 ELSE source.next)
            /\ ~StartUnread => trace.blocks[source.next].label
                                 = (IF source.kind = "tool" THEN "tool_start" ELSE "text_start")
        BY <1>1, <3>1, <3>3, <4>1 DEF BlocksRead
      <4>5. CASE e.type \in Starts
        BY <1>5, <2>1, <4>1, <4>2, <4>3, <4>4, <4>5 DEF Latest, Starts
      <4>6. CASE e.type \notin Starts
        <5>1. source.kind = (IF e.type = "json_delta" THEN "tool" ELSE "text")
          BY <1>5, <2>4, <3>1, <3>3, <4>6 DEF Latest
        <5>2. Len(trace.blocks) = b + 1 /\ b + 1 = source.next
          BY <1>2, <2>1, <4>2, <4>4, <4>6
        <5>3. found = trace.blocks[b + 1]
          BY <1>2, <4>2, <4>3, <5>2 DEF FoundAt
        <5> QED BY <2>1, <4>1, <4>2, <4>3, <4>4, <4>6, <5>1, <5>2, <5>3
      <4> QED BY <4>5, <4>6
    <3>4. b \in Nat
      BY LineTypes, PlacesFacts
    <3> HIDE DEF b, found
    <3>5. /\ b <= Len(trace.blocks) /\ (e.type \in Starts => b = Len(trace.blocks))
          /\ e.type = "text_delta" => found.label # "tool_start"
          /\ e.type = "json_delta" => found.label = "tool_start"
      BY <1>2, <2>4, <3>1, <3>2, <3>3, <3>4 DEF Starts
    <3>6. CopiedRight(trace'.blocks, arrived')
      BY <1>1, <1>2, <2>2, <2>4, <3>5, CopiedEvent DEF b, found
    <3>7. CopiedRight(trace.blocks, arrived)'
      BY <3>6 DEF CopiedRight, Numbered, Indices
    <3> DEFINE a == trace'.blocks
    <3>8. /\ BlockAs(a, trace.blocks, b)
          /\ a[b + 1].label = (IF e.type \in Starts THEN e.type ELSE found.label)
      BY <1>1, <1>2, <2>2, <2>4, <3>5, AssembledBlock DEF b, found, CopiedRight
    <3>9. a \in Seq(Blocks)
      BY <1>2, <2>2, LineTypes, AssembledTypes
    <3>10. Len(a) \in Nat /\ DOMAIN a = 1..Len(a)
      BY <3>9, LengthFacts
    <3> HIDE DEF a
    <3>11. Chat => Len(a) <= 1 /\ \A i \in DOMAIN a : a[i].label = "text"
      <4> SUFFICES ASSUME Chat PROVE Len(a) <= 1 /\ \A i \in DOMAIN a : a[i].label = "text"
        OBVIOUS
      <4>1. Len(a) <= 1
        BY <1>2, <3>2, <3>8, <3>10 DEF BlockAs
      <4>2. \A i \in DOMAIN a : i = 1
        BY <3>10, <4>1
      <4>3. a[1].label = "text"
        BY <3>2, <3>8 DEF Starts
      <4> QED BY <4>1, <4>2, <4>3
    <3>12. Messages => /\ Len(a) = source.next
                       /\ a[source.next].label
                            = (IF source.kind = "tool" THEN "tool_start" ELSE "text_start")
      <4> SUFFICES ASSUME Messages
                   PROVE  /\ Len(a) = source.next
                          /\ a[source.next].label
                               = (IF source.kind = "tool" THEN "tool_start" ELSE "text_start")
        OBVIOUS
      <4>1. b + 1 = source.next
        BY <1>2, <3>3
      <4>2. Len(a) = b + 1
        BY <1>2, <3>3, <3>4, <3>8 DEF BlockAs
      <4> QED BY <3>3, <3>8, <4>1, <4>2
    <3>13. BlocksRead'
      BY <1>0, <1>3, <2>1, <3>11, <3>12 DEF BlocksRead, a
    <3> QED BY <3>7, <3>13
  <2> QED BY <2>3, <2>4
<1>6. \A name, n : /\ NameLine(name).kind # "data" /\ NameLine(name).event = NoEvent
                   /\ IdLine(n).kind # "data" /\ IdLine(n).event = NoEvent
                   /\ Blank.kind # "data" /\ Blank.event = NoEvent
                   /\ DoneLine.kind # "data" /\ DoneLine.event = NoEvent
                   /\ \A part \in Parts : part.kind \in Partial
  BY DEF NameLine, IdLine, Blank, DoneLine, Line, Parts, Partial, StubLine, TornLine, CutLine
<1>7. ASSUME NEW e \in Events, AtName(e) \/ AtId(e) \/ AtBlank \/ AtDone
      PROVE  CopiedRight(trace.blocks, arrived)' /\ BlocksRead'
  <2>1. /\ Carried(Tail(feed)) = Carried(feed)
        /\ \/ \E name : line = NameLine(name)
           \/ \E n : line = IdLine(n)
           \/ line = Blank \/ line = DoneLine
    BY <1>7 DEF AtName, AtId, AtBlank, AtDone
  <2>2. line.kind # "data" /\ line.event = NoEvent
    BY <1>6, <2>1
  <2> QED BY <1>4, <2>1, <2>2
<1> QED
  <2>1. \E e : e \in Events
    BY LineTypes
  <2> QED BY <1>0, <1>5, <1>6, <1>7, <2>1, FeedCases

\* Every step keeps the copy in order.
LEMMA TraceStep ==
  ASSUME Typed, BlocksInOrder, FeedInOrder, TraceInOrder, [Next]_vars
  PROVE  TraceInOrder'
<1>0. /\ trace \in Traces /\ client \in Clients /\ out \in Seq(AllLines) /\ source \in Sources
      /\ trace.filed = (IF client.result = "open" THEN 0 ELSE 1)
  BY DEF Typed, TraceInOrder
<1>1. ASSUME UNCHANGED <<scenario, arrived>>, trace'.blocks = trace.blocks,
             trace'.filed = (IF client'.result = "open" THEN 0 ELSE 1),
             Over' \/ (StartUnread' = StartUnread /\ UNCHANGED source)
      PROVE  TraceInOrder'
  <2>1. Streams' = Streams /\ Chat' = Chat /\ Messages' = Messages
    BY <1>1 DEF Streams, Chat, Messages
  <2>2. ASSUME Streams PROVE CopiedRight(trace.blocks, arrived)'
    BY <1>1, <2>2 DEF TraceInOrder, CopiedRight, Numbered, Indices
  <2>3. ASSUME Streams PROVE BlocksRead'
    <3>1. BlocksRead
      BY <2>3 DEF TraceInOrder
    <3>3. CASE Over'
      BY <1>1, <2>1, <3>1, <3>3 DEF BlocksRead
    <3>4. CASE StartUnread' = StartUnread /\ UNCHANGED source
      BY <1>1, <2>1, <3>1, <3>4 DEF BlocksRead, Over
    <3> QED BY <1>1, <3>3, <3>4
  <2> QED BY <1>1, <2>1, <2>2, <2>3 DEF TraceInOrder
<1>2. CASE \/ SendHead \/ SendPing \/ SendTail \/ SendBlockStop
           \/ \E kind \in {"text", "tool"} : SendBlockStart(kind)
           \/ \E piece \in scenario.pieces : SendText(piece)
           \/ \E fragment \in scenario.fragments : SendFragment(fragment)
  <2>1. PICK e : SendsEvent(e)
    BY <1>2, SendIsOfEvent
  <2>2. /\ UNCHANGED <<scenario, r, out, client, trace>> /\ feed = <<>> /\ ~Over /\ e \in Events
        /\ Streams => feed' = Lines(e) /\ arrived' = arrived
    BY <2>1 DEF SendsEvent, Alive, Over
  <2>3. Streams' = Streams /\ Chat' = Chat /\ Messages' = Messages
    BY <2>2 DEF Streams, Chat, Messages
  <2>4. ASSUME Streams PROVE CopiedRight(trace.blocks, arrived)'
    BY <2>2, <2>4 DEF TraceInOrder, CopiedRight, Numbered, Indices
  <2>5. ASSUME Streams PROVE BlocksRead'
    <3>1. BlocksRead
      BY <2>5 DEF TraceInOrder
    <3>2. ~StartUnread /\ (StartUnread' <=> e.type \in Starts)
      <4>1. Carried(feed) = {} /\ Carried(feed') = {e}
        BY <2>2, <2>5, CarriedByLines, CarriedFacts
      <4>2. Carried(feed)' = Carried(feed')
        BY DEF Carried
      <4> QED BY <4>1, <4>2 DEF StartUnread
    <3>3. source.next \in Nat /\ source.next + 1 - 1 = source.next
      BY <1>0, BoundsAssumption DEF Sources, Begun
    <3>4. CASE e.type \in Starts
      <4>1. source'.next = source.next + 1
        BY <2>1, <3>4 DEF SendsEvent, Starts
      <4> QED BY <2>2, <2>3, <3>1, <3>2, <3>3, <3>4, <4>1 DEF BlocksRead
    <3>5. CASE e.type \notin Starts
      <4>1. /\ source'.next = source.next /\ source'.kind = source.kind
            /\ source'.open \in {source.open, None}
        BY <2>1, <3>5 DEF SendsEvent
      <4> QED BY <2>2, <2>3, <3>1, <3>2, <3>5, <4>1 DEF BlocksRead
    <3> QED BY <3>4, <3>5
  <2> QED BY <1>0, <2>2, <2>3, <2>4, <2>5 DEF TraceInOrder
<1>3. CASE SendDone
  <2>1. /\ Chat /\ UNCHANGED <<scenario, arrived, r, out, client, trace>>
    BY <1>3 DEF SendDone, Chat
  <2>2. Streams' = Streams /\ Chat' = Chat /\ ~Messages' /\ Streams
    BY <2>1 DEF Streams, Chat, Messages
  <2>3. CopiedRight(trace.blocks, arrived)'
    BY <2>1, <2>2 DEF TraceInOrder, CopiedRight, Numbered, Indices
  <2>4. BlocksRead'
    BY <2>1, <2>2 DEF TraceInOrder, BlocksRead
  <2> QED BY <1>0, <2>1, <2>3, <2>4 DEF TraceInOrder
<1>4. CASE \E how \in {"whole", "short", "failed"}, left \in Remains : EndOfAnswer(how, left)
  <2>1. UNCHANGED <<scenario, arrived, r, out, client, trace>>
    BY <1>4 DEF EndOfAnswer
  <2>2. Over'
    <3>1. PICK how \in {"whole", "short", "failed"}, left \in Remains : EndOfAnswer(how, left)
      BY <1>4
    <3>2. source' = [source EXCEPT !.phase = "over", !.kind = how]
      BY <3>1 DEF EndOfAnswer
    <3> QED BY <1>0, <3>2 DEF Sources, Over
  <2> QED BY <1>0, <1>1, <2>1, <2>2
<1>5. CASE ReadLine
  <2>1. CopiedRight(trace.blocks, arrived)' /\ BlocksRead'
    BY <1>5, ReadIsCopied
  <2>2. trace'.filed = trace.filed /\ client' = client
    BY <1>0, <1>5 DEF ReadLine, Traces
  <2> QED BY <1>0, <2>1, <2>2 DEF TraceInOrder
<1>6. CASE ReadEnd
  <2>1. UNCHANGED <<scenario, source, arrived, client, trace>> /\ source.phase = "over"
    BY <1>6 DEF ReadEnd
  <2> QED BY <1>0, <1>1, <2>1 DEF Over
<1>7. CASE Deliver
  <2>1. /\ UNCHANGED <<scenario, source, feed, arrived, r, trace>> /\ client' = Taken(client, out)
    BY <1>7 DEF Deliver
  <2>2. client'.result = client.result
    BY <1>0, <2>1, TakenResult
  <2>3. StartUnread' = StartUnread
    BY <2>1 DEF StartUnread, Carried
  <2> QED BY <1>0, <1>1, <2>1, <2>2, <2>3
<1>8. CASE Finish \/ HangUp \/ Buffered
  <2>1. /\ UNCHANGED <<scenario, source, feed, arrived>> /\ trace' = Filed(trace)
        /\ client.result = "open" /\ client'.result # "open"
    <3>1. CASE Finish
      <4>1. client' = [client EXCEPT !.result = IF r.readErr THEN "error" ELSE "end"]
        BY <3>1 DEF Finish
      <4>2. client'.result # "open"
        BY <1>0, <4>1 DEF Clients
      <4> QED BY <3>1, <4>2 DEF Finish
    <3>2. CASE HangUp
      <4>1. client' = [client EXCEPT !.result = "hung up"]
        BY <3>2 DEF HangUp
      <4>2. client'.result # "open"
        BY <1>0, <4>1 DEF Clients
      <4> QED BY <3>2, <4>2 DEF HangUp
    <3>3. CASE Buffered
      <4>1. CASE source.kind # "whole"
        <5>1. client' = [client EXCEPT !.result = "error"]
          BY <3>3, <4>1 DEF Buffered
        <5>2. client'.result # "open"
          BY <1>0, <5>1 DEF Clients
        <5> QED BY <3>3, <5>2 DEF Buffered
      <4>2. CASE source.kind = "whole"
        <5>1. \E s, t : client' = [client EXCEPT !.result = "end", !.text = s, !.args = t]
          BY <3>3, <4>2 DEF Buffered
        <5>2. client'.result # "open"
          BY <1>0, <5>1 DEF Clients
        <5> QED BY <3>3, <5>2 DEF Buffered
      <4> QED BY <4>1, <4>2
    <3> QED BY <1>8, <3>1, <3>2, <3>3
  <2>2. trace'.blocks = trace.blocks /\ trace'.filed = 1
    BY <1>0, <2>1 DEF Filed, Traces
  <2>3. StartUnread' = StartUnread
    BY <2>1 DEF StartUnread, Carried
  <2> QED BY <1>1, <2>1, <2>2, <2>3
<1>9. CASE UNCHANGED vars
  <2>1. UNCHANGED <<scenario, source, feed, arrived, client, trace>>
    BY <1>9 DEF vars
  <2>2. StartUnread' = StartUnread
    BY <2>1 DEF StartUnread, Carried
  <2> QED BY <1>0, <1>1, <2>1, <2>2
<1> QED BY <1>2, <1>3, <1>4, <1>5, <1>6, <1>7, <1>8, <1>9 DEF Next

\* What the provider sends, what of it is unread and what the trace has of it.
Copying == (Typed /\ KeptIn(r)) /\ BlocksInOrder /\ FeedInOrder /\ TraceInOrder

\* The first layer of the invariant holds in every state.
LEMMA CopyingAlways == Spec => []Copying
<1>1. Init => BlocksInOrder /\ FeedInOrder /\ TraceInOrder
  <2> SUFFICES ASSUME Init PROVE BlocksInOrder /\ FeedInOrder /\ TraceInOrder
    OBVIOUS
  <2>1. /\ source.phase = "head" /\ source.open = None /\ source.kind = "text" /\ source.next = 0
        /\ feed = <<>> /\ arrived.text = Nothing /\ arrived.args = Nothing
        /\ client.result = "open" /\ trace.blocks = <<>> /\ trace.filed = 0
    BY DEF Init
  <2>2. 0 <= scenario.blocks
    <3>1. scenario \in Scenarios
      BY DEF Init
    <3>2. scenario.blocks \in 0..MaxBlocks
      BY <3>1, ScenarioFacts
    <3> QED BY <3>2, BoundsAssumption
  <2>3. BlocksInOrder
    BY <2>1, <2>2 DEF BlocksInOrder, Over
  <2>4. FeedInOrder
    BY <2>1 DEF FeedInOrder
  <2>5. CopiedRight(trace.blocks, arrived)
    BY <2>1 DEF CopiedRight, Numbered, Nothing
  <2>6. BlocksRead
    <3>1. Carried(feed) = {}
      BY <2>1, CarriedFacts
    <3>2. Len(trace.blocks) = 0 /\ DOMAIN trace.blocks = {}
      BY <2>1
    <3> QED BY <2>1, <3>1, <3>2 DEF BlocksRead, StartUnread
  <2> QED BY <2>1, <2>3, <2>4, <2>5, <2>6 DEF TraceInOrder
<1>2. Init => Copying
  BY <1>1, InitTyped DEF Copying
<1>3. Copying /\ [Next]_vars => Copying'
  BY TypedStep, SourceStep, TraceStep DEF Copying
<1> QED BY <1>2, <1>3, PTL DEF Spec

\* The trace has the answer as it arrived, every block in its place with nothing
\* restored, whatever is held back of it on the way to the caller, and it is filed
\* once (assembleBlocks, responseRecorder.Close).
THEOREM TraceIsVerbatim == Spec => []TraceVerbatim
<1>1. Copying => TraceVerbatim
  BY DEF Copying, TraceInOrder, TraceVerbatim, CopiedRight, Numbered
<1> QED BY <1>1, CopyingAlways, PTL

-----------------------------------------------------------------------------
(* The caller. *)

\* What each line is and carries.
LEMMA LineKinds ==
  /\ \A name : NameLine(name).kind = "name" /\ NameLine(name).name = name
  /\ \A e : DataLine(e).kind = "data" /\ DataLine(e).event = e
  /\ \A n : IdLine(n).kind = "id" /\ IdLine(n).n = n
  /\ Blank.kind = "blank" /\ DoneLine.kind = "done"
  /\ StubLine.kind = "stub" /\ TornLine.kind = "torn"
  /\ CutLine.kind = "cut" /\ CutLine.name = Unnamed
  /\ \A part \in Parts : part.kind \in Partial
BY DEF NameLine, DataLine, IdLine, Blank, DoneLine, Line, Parts, Partial, StubLine, TornLine, CutLine

\* What a client makes of each line.
LEMMA TookLine ==
  ASSUME NEW c \in Clients
  PROVE  /\ c.done => \A line : Took(c, line) = c
         /\ ~c.done => /\ \A name : Took(c, NameLine(name)) = [c EXCEPT !.name = name]
                       /\ \A e : Took(c, DataLine(e)) = [c EXCEPT !.event = e]
                       /\ \A n : Took(c, IdLine(n)) = [c EXCEPT !.id = n]
                       /\ Took(c, DoneLine) = [c EXCEPT !.done = TRUE]
         /\ \A part \in Parts : Took(c, part) = c
<1>1. c.done => \A line : Took(c, line) = c
  BY DEF Took
<1>2. ASSUME ~c.done PROVE \A name : Took(c, NameLine(name)) = [c EXCEPT !.name = name]
  BY <1>2, LineKinds DEF Took, Partial
<1>3. ASSUME ~c.done PROVE \A e : Took(c, DataLine(e)) = [c EXCEPT !.event = e]
  BY <1>3, LineKinds DEF Took, Partial
<1>4. ASSUME ~c.done PROVE \A n : Took(c, IdLine(n)) = [c EXCEPT !.id = n]
  BY <1>4, LineKinds DEF Took, Partial
<1>5. ASSUME ~c.done PROVE Took(c, DoneLine) = [c EXCEPT !.done = TRUE]
  BY <1>5, LineKinds DEF Took, Partial
<1>6. \A part \in Parts : Took(c, part) = c
  BY LineKinds DEF Took, Partial
<1> QED BY <1>1, <1>2, <1>3, <1>4, <1>5, <1>6

\* A blank line ends the event: it is acted on, and nothing of it is left.
LEMMA TookBlank ==
  ASSUME NEW c \in Clients, ~c.done
  PROVE  LET d == Took(c, Blank)
         IN  /\ d.coherent = (c.coherent /\ Sound(c)) /\ ~d.done
             /\ d.name = Unnamed /\ d.event = NoEvent /\ d.id = 0 /\ d.named = c.named
             /\ d.stopped = StopsOf(c)
<1> DEFINE a == Acted(c)
           ok == c.coherent /\ Sound(c)
           d == [a EXCEPT !.coherent = ok, !.name = Unnamed, !.event = NoEvent, !.id = 0]
<1>1. Took(c, Blank) = d
  BY LineKinds DEF Took
<1>2. a.stopped = StopsOf(c) /\ a.done = c.done /\ a.named = c.named
  BY DEF Acted, StopsOf, Clients
<1>3. {"coherent", "name", "event", "id"} \subseteq DOMAIN a
  BY DEF Acted, Clients
<1> HIDE DEF a, ok
<1>4. d.coherent = ok /\ d.name = Unnamed /\ d.event = NoEvent /\ d.id = 0
  BY <1>3
<1>5. d.done = a.done /\ d.stopped = a.stopped /\ d.named = a.named
  OBVIOUS
<1> QED BY <1>1, <1>2, <1>4, <1>5 DEF ok

\* Two lines are taken one after the other.
LEMMA TakenPair ==
  ASSUME NEW c, NEW k, NEW l
  PROVE  Taken(c, <<k, l>>) = Took(Took(c, k), l)
<1> DEFINE s == <<k>>
           t == <<l>>
<1>1. s \in Seq({k, l}) /\ t \in Seq({k, l})
  OBVIOUS
<1>2. <<k, l>> = s \o t
  BY Pairs
<1>3. Taken(c, s) = Took(c, k) /\ \A d : Taken(d, t) = Took(d, l)
  BY TakenOne
<1> HIDE DEF s, t
<1>4. Taken(c, s \o t) = Taken(Taken(c, s), t)
  BY <1>1, TakenJoined
<1> QED BY <1>2, <1>3, <1>4

\* A data line and a blank, under a name or none.
Naming(c, name) == IF name = Unnamed THEN c ELSE [c EXCEPT !.name = name]

\* What a caller makes of an event behind its name.
LEMMA TakenEvent ==
  ASSUME NEW c \in Clients, ~c.done, NEW e \in Events, NEW name \in Names
  PROVE  LET d == Naming(c, name)
         IN  /\ d \in Clients /\ Taken(c, Named(name, <<DataLine(e)>>)) = [d EXCEPT !.event = e]
             /\ Taken(c, Named(name, <<DataLine(e), Blank>>)) = Took([d EXCEPT !.event = e], Blank)
             /\ Taken(c, Named(name, <<TornLine>>)) = d
             /\ Taken(c, Named(name, <<DoneLine>>)) = [d EXCEPT !.done = TRUE]
<1> DEFINE d == Naming(c, name)
<1> USE DEF Naming
<1>1. d \in Clients /\ ~d.done
  BY DEF Clients
<1>2. ASSUME NEW lines \in Seq(AllLines)
      PROVE  Taken(c, Named(name, lines)) = Taken(d, lines)
  <2>1. CASE name = Unnamed
    BY <2>1 DEF Named
  <2>2. CASE name # Unnamed
    <3> DEFINE first == <<NameLine(name)>>
    <3>1. first \in Seq(AllLines)
      BY LineTypes
    <3>2. Named(name, lines) = first \o lines
      BY <2>2 DEF Named
    <3>3. Taken(c, first) = d
      BY <2>2, TakenOne, TookLine
    <3> HIDE DEF first, d
    <3>4. Taken(c, first \o lines) = Taken(Taken(c, first), lines)
      BY <3>1, TakenJoined
    <3> QED BY <3>2, <3>3, <3>4
  <2> QED BY <2>1, <2>2
<1> DEFINE data == <<DataLine(e)>>
           both == <<DataLine(e), Blank>>
           torn == <<TornLine>>
           end == <<DoneLine>>
<1>3. data \in Seq(AllLines) /\ both \in Seq(AllLines) /\ torn \in Seq(AllLines) /\ end \in Seq(AllLines)
  BY LineTypes, TwoLines DEF Parts
<1> HIDE DEF d, Naming
<1>4. Taken(d, data) = [d EXCEPT !.event = e]
  BY <1>1, TakenOne, TookLine
<1>5. Taken(d, both) = Took([d EXCEPT !.event = e], Blank)
  BY <1>1, TakenPair, TookLine
<1>6. Taken(d, torn) = d
  <2>1. Took(d, TornLine) = d
    BY <1>1, TookLine DEF Parts
  <2> QED BY <2>1, TakenOne
<1>7. Taken(d, end) = [d EXCEPT !.done = TRUE]
  <2>1. Took(d, DoneLine) = [d EXCEPT !.done = TRUE]
    BY <1>1, TookLine
  <2> QED BY <2>1, TakenOne
<1> HIDE DEF data, both, torn, end
<1>8. /\ Taken(c, Named(name, data)) = Taken(d, data) /\ Taken(c, Named(name, both)) = Taken(d, both)
      /\ Taken(c, Named(name, torn)) = Taken(d, torn) /\ Taken(c, Named(name, end)) = Taken(d, end)
  BY <1>2, <1>3
<1> QED BY <1>1, <1>4, <1>5, <1>6, <1>7, <1>8 DEF d, data, both, torn, end

\* Behind the sentinel nothing is taken.
LEMMA TakenWhenDone ==
  ASSUME NEW c \in Clients, c.done, NEW lines \in Seq(AllLines)
  PROVE  Taken(c, lines) = c
<1> DEFINE G == {c}
<1>1. \A d \in G : \A line \in AllLines : Took(d, line) \in G
  BY TookLine
<1>2. c \in G
  OBVIOUS
<1> HIDE DEF G
<1>3. Taken(c, lines) \in G
  BY <1>1, <1>2, TakenKeeps
<1> QED BY <1>3 DEF G

\* A whole event under its name, when the caller is between two events: it is sound, and
\* the caller is between two events again, with the ends it had and the event's.
EventTaken(d, c, e) ==
  /\ d \in Clients /\ d.named = c.named /\ Clean(d) /\ d.done = c.done
  /\ d.stopped = (IF ~c.done /\ e.type = "block_stop" THEN c.stopped \union {Slot(e)} ELSE c.stopped)
  /\ c.done => d = c

\* A whole event under its own name leaves a sound caller sound.
LEMMA WholeEvent ==
  ASSUME scenario \in Scenarios, NEW c \in Clients, Loose(c), c.named = Messages, Streams,
         NEW e \in Events, e # NoEvent, e.n <= source.n, source.n \in Nat,
         NEW name \in Names, name = (IF Messages THEN NameOf(e) ELSE Unnamed)
  PROVE  EventTaken(Taken(c, Named(name, <<DataLine(e), Blank>>)), c, e)
<1> DEFINE lines == Named(name, <<DataLine(e), Blank>>)
           d == Naming(c, name)
           f == [d EXCEPT !.event = e]
<1>1. lines \in Seq(AllLines)
  <2>1. <<DataLine(e), Blank>> \in Seq(AllLines)
    BY LineTypes, TwoLines
  <2> QED BY <2>1, NamedTypes
<1>2. CASE c.done
  <2> HIDE DEF lines
  <2>1. Taken(c, lines) = c
    BY <1>1, <1>2, TakenWhenDone
  <2> QED BY <1>2, <2>1 DEF EventTaken, Clean, Loose, lines
<1>3. CASE ~c.done
  <2>1. Taken(c, lines) = Took(f, Blank) /\ d \in Clients
    BY <1>3, TakenEvent
  <2>2. /\ f \in Clients /\ ~f.done /\ f.event = e /\ f.named = c.named /\ f.coherent = c.coherent
        /\ f.id = c.id /\ f.stopped = c.stopped
    BY <1>3 DEF Clients, Naming
  <2>3. f.name = IF name = Unnamed THEN c.name ELSE name
    BY DEF Clients, Naming
  <2>4. Took(f, Blank) \in Clients
    BY <2>2, LineTypes, TookTypes
  <2>5. NameOf(e) # Unnamed /\ (Chat \/ Messages) /\ ~(Chat /\ Messages)
    <3>1. NameOf(e) # Unnamed
      BY DEF NameOf, Events, Kinds, Unnamed
    <3> QED BY <3>1, ScenarioFacts DEF Chat, Messages, Streams
  <2> HIDE DEF f, d, lines
  <2>6. f.coherent /\ f.id \in {0, source.n} /\ f.name = (IF Messages THEN NameOf(e) ELSE Unnamed)
    BY <1>3, <2>2, <2>3, <2>5 DEF Loose
  <2>7. Sound(f)
    BY <2>2, <2>5, <2>6 DEF Sound
  <2> DEFINE g == Took(f, Blank)
  <2>8. /\ g.coherent = (f.coherent /\ Sound(f)) /\ ~g.done
        /\ g.name = Unnamed /\ g.event = NoEvent /\ g.id = 0 /\ g.named = f.named
        /\ g.stopped = StopsOf(f)
    BY <2>2, TookBlank
  <2> HIDE DEF g
  <2>9. Clean(g) /\ g.done = c.done /\ g.named = c.named
    <3>1. g.done \in BOOLEAN /\ c.done \in BOOLEAN
      BY <2>4 DEF Clients, g
    <3> QED BY <1>3, <2>2, <2>6, <2>7, <2>8, <3>1 DEF Clean
  <2>10. g.stopped = IF e.type = "block_stop" THEN c.stopped \union {Slot(e)} ELSE c.stopped
    BY <2>2, <2>8 DEF StopsOf
  <2>11. EventTaken(g, c, e)
    BY <1>3, <2>4, <2>9, <2>10 DEF EventTaken, g
  <2> QED BY <2>1, <2>11 DEF g, lines
<1> QED BY <1>2, <1>3

\* What closing a block writes: nothing, or a held event in whole.
WholeOr(more, lines) ==
  \/ more = lines
  \/ \E e \in Events :
       /\ e # NoEvent /\ e.n <= source.n /\ e.type # "block_stop"
       /\ more = lines \o Named(IF Messages THEN NameOf(e) ELSE Unnamed, <<DataLine(e), Blank>>)

\* What the caller keeps over it.
Onward(d, c) ==
  /\ d \in Clients /\ d.named = c.named /\ d.done = c.done
  /\ Loose(c) => Loose(d) /\ StopsOf(d) \subseteq StopsOf(c)
  /\ Clean(c) => Clean(d)

\* So does a whole event written behind other lines.
LEMMA WholeOrTaken ==
  ASSUME scenario \in Scenarios, source \in Sources, Streams, NEW c \in Clients, c.named = Messages,
         NEW lines \in Seq(AllLines), NEW more, WholeOr(more, lines)
  PROVE  Onward(Taken(c, more), Taken(c, lines)) \/ ~Loose(Taken(c, lines))
<1> DEFINE d == Taken(c, lines)
<1>1. d \in Clients /\ d.named = Messages
  BY TakenTypes, TakenResult
<1>2. source.n \in Nat
  BY DEF Sources
<1>3. CASE more = lines
  BY <1>1, <1>3 DEF Onward
<1>4. ASSUME Loose(d), NEW e \in Events, e # NoEvent, e.n <= source.n, e.type # "block_stop",
             more = lines \o Named(IF Messages THEN NameOf(e) ELSE Unnamed, <<DataLine(e), Blank>>)
      PROVE  Onward(Taken(c, more), d)
  <2> DEFINE name == IF Messages THEN NameOf(e) ELSE Unnamed
             event == Named(name, <<DataLine(e), Blank>>)
             f == Taken(d, event)
  <2>1. name \in Names
    BY LineTypes DEF Names
  <2>2. event \in Seq(AllLines)
    <3>1. <<DataLine(e), Blank>> \in Seq(AllLines)
      BY LineTypes, TwoLines
    <3> QED BY <2>1, <3>1, NamedTypes
  <2> HIDE DEF d
  <2>3. EventTaken(f, d, e)
    BY <1>1, <1>2, <1>4, <2>1, WholeEvent
  <2> HIDE DEF event
  <2>4. Taken(c, more) = f
    <3>1. more = lines \o event
      BY <1>4 DEF event
    <3> QED BY <2>2, <3>1, TakenJoined DEF d
  <2> HIDE DEF f
  <2>5. f.stopped = d.stopped /\ f.done = d.done /\ f.named = d.named /\ f \in Clients /\ Clean(f)
    BY <1>4, <2>3 DEF EventTaken
  <2>6. Loose(f)
    BY <2>5 DEF Loose, Clean
  <2>7. StopsOf(f) \subseteq StopsOf(d)
    <3>1. CASE d.done
      BY <2>3, <3>1 DEF EventTaken
    <3>2. CASE ~d.done
      <4>1. f.event = NoEvent
        BY <2>5, <3>2 DEF Clean
      <4> QED BY <2>5, <4>1 DEF StopsOf, NoEvent, Event
    <3> QED BY <3>1, <3>2
  <2> QED BY <2>4, <2>5, <2>6, <2>7 DEF Onward
<1> QED BY <1>3, <1>4 DEF WholeOr

\* Closing a block writes whole events.
LEMMA ClosedWhole ==
  ASSUME Mapping(Known), NEW x \in Steps, KeptIn(x.r), HeldInOrder(x.r)
  PROVE  LET y == CloseBlock(x)
         IN  /\ HeldInOrder(y.r)
             /\ \E mid \in Seq(AllLines) : WholeOr(mid, x.out) /\ WholeOr(y.out, mid)
<1> DEFINE z == ArgumentsReleased(x)
           y == CloseBlock(x)
           whole == Restored(Known, x.r.arguments)
<1>0. x.r \in Rehydrators /\ z \in Steps /\ z.r \in Rehydrators /\ y \in Steps
  BY ReleasedTypes DEF Steps
<1>1. /\ x.r.argumentsIn \in Events /\ x.r.template \in Events /\ x.r.arguments \in Text
      /\ z.r.pending \in Text
  BY <1>0 DEF Rehydrators
<1>2. ASSUME NEW e \in Events, NEW name, NEW text \in Text, NamedAsHeld(e, name), e # NoEvent,
             e.type \in {"text_delta", "json_delta"}, NEW lines
      PROVE  WholeOr(lines \o Named(name, <<DataLine([e EXCEPT !.text = text]), Blank>>), lines)
  <2> DEFINE f == [e EXCEPT !.text = text]
  <2>1. f \in Events /\ f.type = e.type /\ f.n = e.n
    BY DEF Events
  <2>2. NameOf(f) = NameOf(e) /\ f # NoEvent /\ f.type # "block_stop"
    BY <1>2, <2>1 DEF NameOf, NoEvent, Event
  <2> HIDE DEF f
  <2>3. name = (IF Messages THEN NameOf(f) ELSE Unnamed) /\ f.n <= source.n
    BY <1>2, <2>1, <2>2 DEF NamedAsHeld
  <2> QED BY <2>1, <2>2, <2>3 DEF WholeOr, f
<1>3. WholeOr(z.out, x.out) /\ z.r.template = x.r.template /\ z.r.templateName = x.r.templateName
      /\ z.r.pending = x.r.pending
  <2>1. CASE x.r.argumentsIn = NoEvent
    BY <2>1 DEF ArgumentsReleased, WholeOr
  <2>2. CASE x.r.argumentsIn # NoEvent
    <3>1. z = HeldWritten(x, x.r.arguments, whole)
      BY <2>2 DEF ArgumentsReleased
    <3>a. \A raw, text : HeldWritten(x, raw, text).out
                         = x.out \o Named(x.r.argumentsName,
                             <<DataLine([x.r.argumentsIn EXCEPT !.text = text]), Blank>>)
      BY DEF HeldWritten
    <3>2. z.out = x.out \o Named(x.r.argumentsName,
                    <<DataLine([x.r.argumentsIn EXCEPT !.text = whole]), Blank>>)
      BY <3>1, <3>a
    <3>3. whole \in Text
      BY <1>1, RestoredIsText
    <3>4. NamedAsHeld(x.r.argumentsIn, x.r.argumentsName) /\ x.r.argumentsIn.type = "json_delta"
      BY <2>2 DEF HeldInOrder, KeptIn, NamedAsHeld
    <3> HIDE DEF whole
    <3>5. WholeOr(z.out, x.out)
      BY <1>1, <1>2, <2>2, <3>2, <3>3, <3>4
    <3> DEFINE q == Tell(x.r, whole, whole # x.r.arguments)
               d == IF IsDocument(x.r.arguments) THEN q.degraded ELSE q.degraded + 1
    <3>6. z.r = [q EXCEPT !.arguments = <<>>, !.argumentsIn = NoEvent, !.argumentsName = Unnamed,
                          !.degraded = d]
      BY <3>1 DEF HeldWritten
    <3>7. /\ q.template = x.r.template /\ q.templateName = x.r.templateName /\ q.pending = x.r.pending
      BY <1>0 DEF Tell, Rehydrators
    <3> HIDE DEF q, d
    <3> QED BY <3>5, <3>6, <3>7
  <2> QED BY <2>1, <2>2
<1>4. WholeOr(y.out, z.out)
  <2>1. CASE z.r.pending = <<>> \/ z.r.template = NoEvent
    BY <2>1 DEF CloseBlock, TailReleased, WholeOr
  <2>2. CASE z.r.pending # <<>> /\ z.r.template # NoEvent
    <3> DEFINE text == Expanded(Known, z.r.pending)
    <3>1. y.out = z.out \o Named(z.r.templateName,
                    <<DataLine([z.r.template EXCEPT !.text = text]), Blank>>)
      BY <2>2 DEF CloseBlock, TailReleased
    <3>2. text \in Text
      BY <1>1, ExpandedIsText
    <3>3. NamedAsHeld(z.r.template, z.r.templateName) /\ z.r.template.type = "text_delta"
      BY <1>3, <2>2 DEF HeldInOrder, KeptIn
    <3> HIDE DEF text
    <3> QED BY <1>1, <1>2, <1>3, <2>2, <3>1, <3>2, <3>3
  <2> QED BY <2>1, <2>2
<1>5. HeldInOrder(y.r)
  BY CloseFields DEF HeldInOrder, NamedAsHeld, SameTemplate
<1>6. z.out \in Seq(AllLines)
  BY <1>0 DEF Steps
<1> QED BY <1>3, <1>4, <1>5, <1>6

\* The lines that closing a block may write: of the events that are held, none the end of
\* a block.
ClosingLines(rr) ==
  {line \in AllLines :
     /\ line.kind \in {"name", "data", "blank"}
     /\ line.kind = "data" =>
          \/ /\ rr.argumentsIn # NoEvent
             /\ line.event.type = "json_delta" /\ line.event.index = rr.argumentsIn.index
          \/ /\ rr.pending # <<>>
             /\ line.event.type = "text_delta" /\ line.event.index = rr.template.index}

\* And it writes no others.
LEMMA ClosingWritten ==
  ASSUME Mapping(Known), NEW x \in Steps, KeptIn(x.r), HeldInOrder(x.r)
  PROVE  \E more \in Seq(ClosingLines(x.r)) : CloseBlock(x).out = x.out \o more
<1> DEFINE L == ClosingLines(x.r)
           z == ArgumentsReleased(x)
           y == CloseBlock(x)
           whole == Restored(Known, x.r.arguments)
<1>0. x.r \in Rehydrators /\ z \in Steps /\ z.r \in Rehydrators /\ y \in Steps
      /\ x.out \in Seq(AllLines)
  BY ReleasedTypes DEF Steps
<1>1. /\ x.r.argumentsIn \in Events /\ x.r.template \in Events /\ x.r.arguments \in Text
      /\ z.r.pending \in Text /\ x.r.argumentsName \in Names /\ x.r.templateName \in Names
  BY <1>0 DEF Rehydrators
<1>2. ASSUME NEW e \in Events, NEW name \in Names, NEW text \in Text,
             \/ x.r.argumentsIn # NoEvent /\ e = x.r.argumentsIn
             \/ x.r.pending # <<>> /\ e = x.r.template
      PROVE  Named(name, <<DataLine([e EXCEPT !.text = text]), Blank>>) \in Seq(L)
  <2> DEFINE f == [e EXCEPT !.text = text]
  <2>1. f \in Events /\ f.type = e.type /\ f.index = e.index
    BY DEF Events
  <2>2. e = x.r.argumentsIn /\ x.r.argumentsIn # NoEvent => e.type = "json_delta"
    BY <1>1 DEF KeptIn, HeldInOrder, NamedAsHeld
  <2>3. e = x.r.template /\ x.r.pending # <<>> => e.type = "text_delta"
    BY <1>1 DEF KeptIn
  <2> HIDE DEF f
  <2>4. DataLine(f) \in AllLines /\ Blank \in AllLines /\ NameLine(name) \in AllLines
    BY <2>1, LineTypes
  <2>5. DataLine(f) \in L
    BY <1>2, <2>1, <2>2, <2>3, <2>4, LineKinds DEF ClosingLines
  <2>6. Blank \in L /\ NameLine(name) \in L
    BY <2>4, LineKinds DEF ClosingLines
  <2> HIDE DEF L
  <2>7. <<DataLine(f), Blank>> \in Seq(L) /\ <<NameLine(name)>> \in Seq(L)
    BY <2>5, <2>6
  <2>8. \A a, b \in Seq(L) : a \o b \in Seq(L)
    OBVIOUS
  <2> QED BY <2>7, <2>8 DEF Named, f
<1> HIDE DEF L
<1>3. (\E a \in Seq(L) : z.out = x.out \o a) /\ z.r.template = x.r.template
      /\ z.r.pending = x.r.pending /\ z.r.templateName = x.r.templateName
  <2>1. CASE x.r.argumentsIn = NoEvent
    <3>1. <<>> \in Seq(L) /\ x.out = x.out \o <<>>
      BY <1>0
    <3> QED BY <2>1, <3>1 DEF ArgumentsReleased
  <2>2. CASE x.r.argumentsIn # NoEvent
    <3>1. z = HeldWritten(x, x.r.arguments, whole)
      BY <2>2 DEF ArgumentsReleased
    <3>a. \A raw, text : HeldWritten(x, raw, text).out
                         = x.out \o Named(x.r.argumentsName,
                             <<DataLine([x.r.argumentsIn EXCEPT !.text = text]), Blank>>)
      BY DEF HeldWritten
    <3>2. z.out = x.out \o Named(x.r.argumentsName,
                    <<DataLine([x.r.argumentsIn EXCEPT !.text = whole]), Blank>>)
      BY <3>1, <3>a
    <3>3. whole \in Text
      BY <1>1, RestoredIsText
    <3> HIDE DEF whole
    <3>4. Named(x.r.argumentsName, <<DataLine([x.r.argumentsIn EXCEPT !.text = whole]), Blank>>)
            \in Seq(L)
      BY <1>1, <1>2, <2>2, <3>3
    <3> DEFINE q == Tell(x.r, whole, whole # x.r.arguments)
               d == IF IsDocument(x.r.arguments) THEN q.degraded ELSE q.degraded + 1
    <3>6. z.r = [q EXCEPT !.arguments = <<>>, !.argumentsIn = NoEvent, !.argumentsName = Unnamed,
                          !.degraded = d]
      BY <3>1 DEF HeldWritten, whole
    <3>7. /\ q.template = x.r.template /\ q.templateName = x.r.templateName /\ q.pending = x.r.pending
      BY <1>0 DEF Tell, Rehydrators
    <3>8. q = [q EXCEPT !.console = q.console] /\ DOMAIN q = DOMAIN x.r
      BY <1>0 DEF Tell, Rehydrators
    <3>9. {"template", "templateName", "pending"} \subseteq DOMAIN q
      BY <1>0, <3>8 DEF Rehydrators
    <3> HIDE DEF q, d, z
    <3>10. z.r.template = q.template /\ z.r.templateName = q.templateName /\ z.r.pending = q.pending
      BY <3>6, <3>9
    <3> QED BY <3>2, <3>4, <3>7, <3>10
  <2> QED BY <2>1, <2>2
<1>4. \E b \in Seq(L) : y.out = z.out \o b
  <2>1. CASE z.r.pending = <<>> \/ z.r.template = NoEvent
    <3>1. y.out = z.out
      BY <2>1 DEF CloseBlock, TailReleased
    <3>2. <<>> \in Seq(L) /\ z.out = z.out \o <<>>
      BY <1>0 DEF Steps
    <3> QED BY <3>1, <3>2
  <2>2. CASE z.r.pending # <<>> /\ z.r.template # NoEvent
    <3> DEFINE text == Expanded(Known, z.r.pending)
    <3>1. y.out = z.out \o Named(z.r.templateName,
                    <<DataLine([z.r.template EXCEPT !.text = text]), Blank>>)
      BY <2>2 DEF CloseBlock, TailReleased
    <3>2. text \in Text
      BY <1>1, ExpandedIsText
    <3> HIDE DEF text, z, y
    <3>3. Named(z.r.templateName, <<DataLine([z.r.template EXCEPT !.text = text]), Blank>>) \in Seq(L)
      BY <1>1, <1>2, <1>3, <2>2, <3>2
    <3> QED BY <3>1, <3>3
  <2> QED BY <2>1, <2>2
<1> HIDE DEF z, y
<1>5. \A o \in Seq(AllLines) : \A a, b \in Seq(L) : (o \o a) \o b = o \o (a \o b) /\ a \o b \in Seq(L)
  <2>1. L \subseteq AllLines
    BY DEF ClosingLines, L
  <2>2. \A a \in Seq(L) : a \in Seq(AllLines)
    BY <2>1
  <2>3. \A S : \A o, a, b \in Seq(S) : (o \o a) \o b = o \o (a \o b)
    OBVIOUS
  <2> QED BY <2>2, <2>3, SequencesOf
<1>6. PICK a \in Seq(L) : z.out = x.out \o a
  BY <1>3
<1>7. PICK b \in Seq(L) : y.out = z.out \o b
  BY <1>4
<1>8. y.out = x.out \o (a \o b) /\ a \o b \in Seq(L)
  <2>1. (x.out \o a) \o b = x.out \o (a \o b) /\ a \o b \in Seq(L)
    BY <1>0, <1>5, Zenon
  <2>2. y.out = (x.out \o a) \o b
    BY <1>6, <1>7, Zenon
  <2> QED BY <2>1, <2>2, Zenon
<1> QED BY <1>8 DEF y, L

\* So a caller goes on soundly when a block is closed.
LEMMA ClosedTaken ==
  ASSUME scenario \in Scenarios, source \in Sources, Streams, Mapping(Known),
         NEW x \in Steps, KeptIn(x.r), HeldInOrder(x.r),
         NEW c \in Clients, c.named = Messages, Loose(Taken(c, x.out))
  PROVE  Onward(Taken(c, CloseBlock(x).out), Taken(c, x.out))
<1>1. PICK mid \in Seq(AllLines) : WholeOr(mid, x.out) /\ WholeOr(CloseBlock(x).out, mid)
  BY ClosedWhole
<1> DEFINE last == CloseBlock(x).out
           d0 == Taken(c, x.out)
           d1 == Taken(c, mid)
           d2 == Taken(c, last)
<1>2. x.out \in Seq(AllLines)
  BY DEF Steps
<1> HIDE DEF last
<1>3. Onward(d1, d0)
  BY <1>1, <1>2, WholeOrTaken
<1>4. Loose(d1)
  BY <1>3 DEF Onward
<1>5. Onward(d2, d1)
  BY <1>1, <1>4, WholeOrTaken DEF last
<1> HIDE DEF d0, d1, d2
<1>6. Loose(d0)
  BY DEF d0
<1>7. Onward(d2, d0)
  BY <1>3, <1>5, <1>6 DEF Onward
<1> QED BY <1>7 DEF d0, d2, last

\* What the caller has after an event, by what becomes of it.
EventHeard(rr, d, c, e) ==
  /\ HeldInOrder(rr) /\ rr.name = Unnamed /\ ~rr.done
  /\ d \in Clients /\ d.named = c.named /\ d.done = c.done
  /\ Midway(d) /\ (d.done \/ d.id = 0) /\ (rr.held => Clean(d))
  /\ StopsOf(d) \subseteq StopsOf(c) \union (IF e.type = "block_stop" THEN {Slot(e)} ELSE {})

\* A caller between two events is one within an event, and that one is sound.
LEMMA CleanIsMidway ==
  ASSUME NEW c
  PROVE  /\ Clean(c) => Midway(c) /\ (c.done \/ c.id = 0)
         /\ Midway(c) => Loose(c)
BY DEF Clean, Midway, Loose, Chat, Messages

\* An event that is read reaches the caller with its name, or is held with it.
LEMMA EventIsHeard ==
  ASSUME scenario \in Scenarios, source \in Sources, Streams, Mapping(Known),
         NEW x \in Steps, KeptIn(x.r), HeldInOrder(x.r), ~x.r.held, ~x.r.done, x.out = <<>>,
         NEW c \in Clients, c.named = Messages, Clean(c),
         NEW e \in Events, e.type # "none", e.n = source.n,
         x.r.name = (IF Messages THEN NameOf(e) ELSE Unnamed)
  PROVE  EventHeard(EventRewritten(x, e).r, Taken(c, EventRewritten(x, e).out), c, e)
<1> DEFINE n == Noted(x, e)
           k == CloseBlock(n)
           y == Entered(x, e)
           t == NameTaken(y)
           name == x.r.name
           w == EventWritten(t, e, y.r.name)
           u == Taken(c, t.out)
           d == Taken(c, w.out)
<1>0. /\ n \in Steps /\ y \in Steps /\ t \in Steps
      /\ n.out = x.out /\ SameReading(n.r, x.r) /\ SameTemplate(n.r, x.r)
      /\ SameHeld(n.r, x.r)
      /\ IF e.index = None \/ e.index = x.r.block THEN y = n
         ELSE y.out = k.out /\ y.r = [k.r EXCEPT !.block = e.index]
      /\ t.out = y.out /\ t.r = [y.r EXCEPT !.name = Unnamed]
      /\ EventRewritten(x, e) = w
  BY EnteredFields
<1> SUFFICES EventHeard(w.r, d, c, e)
  BY <1>0
<1>1. KeptIn(n.r) /\ HeldInOrder(n.r)
  BY <1>0 DEF KeptIn, HeldInOrder, NamedAsHeld, SameTemplate, SameHeld
<1>2. k \in Steps /\ KeptIn(k.r) /\ HeldInOrder(k.r) /\ SameReading(k.r, n.r)
  BY <1>0, <1>1, KeptClosed, ClosedWhole, CloseFields
<1>3. Onward(c, c) /\ Onward(Taken(c, k.out), c)
  <2>1. Taken(c, n.out) = c
    BY <1>0, TakenNone
  <2>2. Loose(Taken(c, n.out))
    BY <2>1, CleanIsMidway
  <2>3. Onward(Taken(c, k.out), Taken(c, n.out))
    BY <1>0, <1>1, <2>2, ClosedTaken
  <2> QED BY <2>1, <2>3 DEF Onward
<1> HIDE DEF n, k, y
<1>4. /\ KeptIn(y.r) /\ HeldInOrder(y.r) /\ y.r.name = name /\ ~y.r.held /\ ~y.r.done
      /\ y.r \in Rehydrators
  <2>1. y.r \in Rehydrators /\ n.r \in Rehydrators /\ k.r \in Rehydrators
    BY <1>0, <1>2 DEF Steps
  <2>2. CASE y = n
    BY <1>0, <1>1, <2>1, <2>2 DEF SameReading
  <2>3. CASE y.r = [k.r EXCEPT !.block = e.index]
    <3>1. /\ y.r.template = k.r.template /\ y.r.templateName = k.r.templateName
          /\ y.r.argumentsIn = k.r.argumentsIn /\ y.r.argumentsName = k.r.argumentsName
          /\ y.r.pending = k.r.pending /\ y.r.name = k.r.name /\ y.r.held = k.r.held
          /\ y.r.done = k.r.done
      BY <2>1, <2>3 DEF Rehydrators
    <3> QED BY <1>0, <1>2, <2>1, <3>1 DEF KeptIn, HeldInOrder, NamedAsHeld, SameReading
  <2> QED BY <1>0, <2>2, <2>3
<1> HIDE DEF t
<1>5. /\ KeptIn(t.r) /\ HeldInOrder(t.r) /\ t.r.name = Unnamed /\ ~t.r.held /\ ~t.r.done
      /\ t.r \in Rehydrators
  <2>1. t.r \in Rehydrators
    BY <1>0 DEF Steps
  <2>2. /\ t.r.template = y.r.template /\ t.r.templateName = y.r.templateName
        /\ t.r.argumentsIn = y.r.argumentsIn /\ t.r.argumentsName = y.r.argumentsName
        /\ t.r.pending = y.r.pending /\ t.r.name = Unnamed /\ t.r.held = y.r.held
        /\ t.r.done = y.r.done
    BY <1>0, <1>4 DEF Rehydrators
  <2> QED BY <1>4, <2>1, <2>2 DEF KeptIn, HeldInOrder, NamedAsHeld
<1>6. Onward(u, c) /\ Clean(u) /\ Loose(u) /\ u \in Clients /\ u.named = Messages
  <2>1. Onward(u, c)
    <3>1. CASE t.out = n.out
      <4>1. u = c
        BY <1>0, <3>1, TakenNone
      <4> QED BY <1>3, <4>1
    <3>2. CASE t.out = k.out
      BY <1>3, <3>2
    <3> QED BY <1>0, <3>1, <3>2
  <2> QED BY <2>1, CleanIsMidway DEF Onward
<1>7. name \in Names /\ t.out \in Seq(AllLines)
  BY <1>0 DEF Steps, Rehydrators
<1>8. WrittenAs(w, t, e, name)
  BY <1>0, <1>4, <1>7, WrittenFields
<1>9. e # NoEvent
  BY DEF NoEvent, Event
<1>10. name = IF Messages THEN NameOf(e) ELSE Unnamed
  OBVIOUS
<1> HIDE DEF w, u, name
<1>11. ASSUME WholeOr(w.out, t.out), HeldInOrder(w.r), w.r.name = Unnamed, ~w.r.done
       PROVE  EventHeard(w.r, d, c, e)
  <2> HIDE DEF d
  <2>1. Onward(d, u)
    BY <1>6, <1>7, <1>11, WholeOrTaken DEF d, u
  <2>2. Clean(d) /\ Midway(d) /\ (d.done \/ d.id = 0)
    BY <1>6, <2>1, CleanIsMidway DEF Onward
  <2>3. Loose(c)
    BY CleanIsMidway
  <2>4. StopsOf(d) \subseteq StopsOf(c) /\ d.done = c.done /\ d.named = c.named /\ d \in Clients
    BY <1>6, <2>1, <2>3 DEF Onward
  <2> QED BY <1>11, <2>2, <2>4 DEF EventHeard
<1>12. ASSUME e.type # "block_stop",
              w.out = t.out \o Named(name, <<DataLine(e), Blank>>)
       PROVE  WholeOr(w.out, t.out)
  <2>1. e.n <= source.n
    BY DEF Sources
  <2> QED BY <1>9, <1>10, <1>12, <2>1 DEF WholeOr
<1>13. CASE e.type = "block_stop"
  <2> DEFINE v == Taken(c, CloseBlock(t).out)
             line == Named(name, <<DataLine(e)>>)
             g == Naming(v, name)
             h == [g EXCEPT !.event = e]
  <2>1. w.r = CloseBlock(t).r /\ w.out = CloseBlock(t).out \o line
    BY <1>8, <1>13 DEF WrittenAs
  <2>2. CloseBlock(t) \in Steps /\ HeldInOrder(w.r) /\ SameReading(w.r, t.r)
    BY <1>0, <1>5, <2>1, ReleasedTypes, ClosedWhole, CloseFields
  <2>3. Onward(v, u)
    BY <1>0, <1>5, <1>6, ClosedTaken DEF u
  <2>4. line \in Seq(AllLines) /\ CloseBlock(t).out \in Seq(AllLines)
    <3>1. <<DataLine(e)>> \in Seq(AllLines)
      BY LineTypes
    <3>2. CloseBlock(t).out \in Seq(AllLines)
      BY <2>2 DEF Steps
    <3> QED BY <1>7, <3>1, <3>2, NamedTypes
  <2> HIDE DEF line
  <2>5. d = Taken(v, line)
    BY <2>1, <2>4, TakenJoined
  <2> HIDE DEF v, d
  <2>6. Clean(v) /\ v \in Clients /\ v.named = c.named /\ v.done = c.done /\ StopsOf(v) \subseteq StopsOf(c)
    <3>1. Loose(c)
      BY CleanIsMidway
    <3> QED BY <1>6, <2>3, <3>1 DEF Onward
  <2>7. w.r.name = Unnamed /\ ~w.r.held /\ ~w.r.done
    BY <1>5, <2>2 DEF SameReading
  <2>8. CASE v.done
    <3>1. d = v
      BY <2>4, <2>5, <2>6, <2>8, TakenWhenDone
    <3> QED BY <2>2, <2>6, <2>7, <3>1, CleanIsMidway DEF EventHeard
  <2>9. CASE ~v.done
    <3>1. g \in Clients /\ d = h
      BY <1>7, <2>5, <2>6, <2>9, TakenEvent DEF line
    <3>2. /\ g.name = (IF name = Unnamed THEN v.name ELSE name) /\ g.id = v.id /\ g.done = v.done
          /\ g.coherent = v.coherent /\ g.named = v.named /\ g.stopped = v.stopped
      BY <2>6 DEF Naming, Clients
    <3> HIDE DEF g
    <3>3. /\ h.name = g.name /\ h.id = g.id /\ h.done = g.done /\ h.coherent = g.coherent
          /\ h.named = g.named /\ h.stopped = g.stopped /\ h.event = e /\ h \in Clients
      BY <3>1 DEF Clients
    <3> HIDE DEF h
    <3>4. NameOf(e) # Unnamed
      BY DEF NameOf, Events, Kinds, Unnamed
    <3>5. h.name = name /\ h.id = 0 /\ h.coherent
      BY <2>6, <2>9, <3>2, <3>3 DEF Clean
    <3>6. e.n <= source.n
      BY DEF Sources
    <3>7. Midway(h)
      BY <1>9, <1>10, <3>3, <3>4, <3>5, <3>6 DEF Midway
    <3>8. StopsOf(h) \subseteq StopsOf(v) \union {Slot(e)}
      BY <3>2, <3>3 DEF StopsOf
    <3> QED BY <1>13, <2>2, <2>6, <2>7, <3>1, <3>2, <3>3, <3>5, <3>7, <3>8 DEF EventHeard
  <2> QED BY <2>8, <2>9
<1>14. CASE e.type = "json_delta"
  <2>1. FragmentAs(w, t, e, name)
    BY <1>0, <1>7, <1>8, <1>14, FragmentFields DEF WrittenAs
  <2> DEFINE f == [e EXCEPT !.text = <<>>]
  <2>2. f.type = e.type /\ f.n = e.n
    BY DEF Events
  <2>3. NameOf(f) = NameOf(e)
    BY <2>2 DEF NameOf
  <2>4. /\ w.r.template = t.r.template /\ w.r.templateName = t.r.templateName /\ w.out = t.out
        /\ w.r.name = Unnamed /\ ~w.r.done
        /\ w.r.argumentsIn = (IF t.r.argumentsIn = NoEvent THEN f ELSE t.r.argumentsIn)
        /\ w.r.argumentsName = (IF t.r.argumentsIn = NoEvent THEN name ELSE t.r.argumentsName)
    BY <1>5, <2>1 DEF FragmentAs, SameTemplate
  <2> HIDE DEF f
  <2>5. f.n <= source.n
    BY <2>2 DEF Sources
  <2>6. HeldInOrder(w.r)
    BY <1>5, <1>10, <1>14, <2>2, <2>3, <2>4, <2>5 DEF HeldInOrder, NamedAsHeld
  <2>7. WholeOr(w.out, t.out)
    BY <2>4 DEF WholeOr
  <2> QED BY <1>11, <2>4, <2>6, <2>7
<1>15. CASE e.type = "text_delta"
  <2>0. PICK combined \in Text : \E tail \in 0..Len(combined) :
                                 w = CutAt(t, e, name, combined, tail)
    BY <1>8, <1>15 DEF WrittenAs
  <2>1. PICK tail \in 0..Len(combined) : w = CutAt(t, e, name, combined, tail)
    BY <2>0
  <2> DEFINE text == Expanded(Known, Start(combined, Len(combined) - tail))
             f == [e EXCEPT !.text = text]
             f0 == [e EXCEPT !.text = <<>>]
  <2>2. text \in Text
    <3>1. Len(combined) - tail \in 0..Len(combined)
      BY TextFacts
    <3>2. Start(combined, Len(combined) - tail) \in Text
      BY <3>1, TextFacts
    <3> QED BY <3>2, ExpandedIsText
  <2>3. CutAs(w, t, e, name, combined, tail)
    BY <1>0, <1>7, <2>1, CutFields
  <2>4. /\ w.out = t.out \o Named(name, <<DataLine(f), Blank>>)
        /\ w.r.argumentsIn = t.r.argumentsIn /\ w.r.argumentsName = t.r.argumentsName
        /\ w.r.template = f0 /\ w.r.templateName = name /\ w.r.name = t.r.name
        /\ w.r.done = t.r.done
    BY <2>3 DEF CutAs, SameReading
  <2> HIDE DEF text
  <2>5. f \in Events /\ f.type = e.type /\ f.n = e.n /\ f0.type = e.type /\ f0.n = e.n
    BY <2>2 DEF Events
  <2> HIDE DEF f, f0
  <2>6. NameOf(f) = NameOf(e) /\ NameOf(f0) = NameOf(e) /\ f # NoEvent
    BY <1>15, <2>5 DEF NameOf, NoEvent, Event
  <2>7. e.n <= source.n
    BY DEF Sources
  <2>8. HeldInOrder(w.r)
    BY <1>5, <1>10, <1>15, <2>4, <2>5, <2>6, <2>7 DEF HeldInOrder, NamedAsHeld
  <2>9. WholeOr(w.out, t.out)
    BY <1>10, <1>15, <2>4, <2>5, <2>6, <2>7 DEF WholeOr
  <2> QED BY <1>5, <1>11, <2>4, <2>8, <2>9
<1>16. CASE e.type \in Starts
  <2>1. w.r = [t.r EXCEPT !.toolName = ToolOf(e)] /\ w.out = t.out \o Named(name, <<DataLine(e), Blank>>)
    BY <1>8, <1>16 DEF WrittenAs
  <2>2. /\ w.r.template = t.r.template /\ w.r.templateName = t.r.templateName
        /\ w.r.argumentsIn = t.r.argumentsIn /\ w.r.argumentsName = t.r.argumentsName
        /\ w.r.name = t.r.name /\ w.r.done = t.r.done
    BY <1>5, <2>1 DEF Rehydrators
  <2>3. HeldInOrder(w.r)
    BY <1>5, <2>2 DEF HeldInOrder, NamedAsHeld
  <2> QED BY <1>5, <1>11, <1>12, <1>16, <2>1, <2>2, <2>3 DEF Starts
<1>17. CASE e.type \in {"message_start", "ping", "message_delta"}
  <2>1. w.r = t.r /\ w.out = t.out \o Named(name, <<DataLine(e), Blank>>)
    BY <1>8, <1>17 DEF WrittenAs
  <2> QED BY <1>5, <1>11, <1>12, <1>17, <2>1
<1>18. e.type \in Kinds
  BY DEF Events
<1> QED BY <1>13, <1>14, <1>15, <1>16, <1>17, <1>18 DEF Kinds, Starts

\* What becomes of a line that carries no event.
LEMMA RewrittenOther ==
  ASSUME Mapping(Known), NEW x \in Steps, x.out = <<>>
  PROVE  /\ \A name : /\ Rewritten(x, NameLine(name)).r = [x.r EXCEPT !.name = name]
                      /\ Rewritten(x, NameLine(name)).out = <<>>
         /\ \A n : /\ Rewritten(x, IdLine(n)).r = [x.r EXCEPT !.held = FALSE]
                   /\ Rewritten(x, IdLine(n)).out = <<IdLine(n)>>
         /\ x.r.held => /\ Rewritten(x, Blank).r = [x.r EXCEPT !.held = FALSE]
                        /\ Rewritten(x, Blank).out = <<>>
         /\ ~x.r.held => Rewritten(x, Blank).r = x.r /\ Rewritten(x, Blank).out = <<Blank>>
         /\ \A e : Rewritten(x, DataLine(e)) = EventRewritten([x EXCEPT !.r.held = FALSE], e)
         /\ Rewritten(x, StubLine).r = [x.r EXCEPT !.held = FALSE]
         /\ Rewritten(x, StubLine).out = <<StubLine>>
         /\ Rewritten(x, CutLine).r = [x.r EXCEPT !.name = Unnamed]
         /\ Rewritten(x, CutLine).out = <<>>
<1>0. x = [r |-> x.r, out |-> x.out] /\ x.r \in Rehydrators
  BY DEF Steps
<1>1. \A line : <<>> \o <<line>> = <<line>>
  BY Pairs
<1>2. \A line : x.out \o <<line>> = <<line>>
  BY <1>1
<1>3. ASSUME NEW line
      PROVE  /\ Wrote(x, <<line>>).r = x.r /\ Wrote(x, <<line>>).out = <<line>>
             /\ OtherRead(x, line).r = [x.r EXCEPT !.held = FALSE] /\ OtherRead(x, line).out = <<line>>
  <2> DEFINE q == [x.r EXCEPT !.held = FALSE]
  <2>0. \A p, o, s : [[r |-> p, out |-> o] EXCEPT !.r = s] = [r |-> s, out |-> o]
    OBVIOUS
  <2>1. [x EXCEPT !.r.held = FALSE] = [r |-> q, out |-> x.out]
    <3>1. [x EXCEPT !.r.held = FALSE] = [x EXCEPT !.r = q]
      BY <1>0
    <3> HIDE DEF q
    <3>2. [[r |-> x.r, out |-> x.out] EXCEPT !.r = q] = [r |-> q, out |-> x.out]
      BY <2>0
    <3> QED BY <1>0, <3>1, <3>2
  <2> HIDE DEF q
  <2>2. \A p : Wrote([r |-> p, out |-> x.out], <<line>>) = [r |-> p, out |-> x.out \o <<line>>]
    BY DEF Wrote
  <2>3. Wrote(x, <<line>>) = [r |-> x.r, out |-> <<line>>]
    BY <1>0, <1>2, <2>2
  <2>4. OtherRead(x, line) = [r |-> q, out |-> <<line>>]
    BY <1>2, <2>1, <2>2 DEF OtherRead
  <2> QED BY <2>3, <2>4 DEF q
<1>4. ASSUME NEW name
      PROVE  /\ Rewritten(x, NameLine(name)).r = [x.r EXCEPT !.name = name]
             /\ Rewritten(x, NameLine(name)).out = <<>>
  <2>1. Rewritten(x, NameLine(name)) = [x EXCEPT !.r.name = name]
    BY LineKinds DEF Rewritten, NameWithheld
  <2> QED BY <1>0, <2>1
<1>5. ASSUME NEW n
      PROVE  /\ Rewritten(x, IdLine(n)).r = [x.r EXCEPT !.held = FALSE]
             /\ Rewritten(x, IdLine(n)).out = <<IdLine(n)>>
  <2>1. Rewritten(x, IdLine(n)) = OtherRead(x, IdLine(n))
    BY LineKinds DEF Rewritten
  <2> QED BY <1>3, <2>1
<1>6. Rewritten(x, Blank) = BlankRead(x, Blank)
  BY LineKinds DEF Rewritten
<1>7. x.r.held => /\ Rewritten(x, Blank).r = [x.r EXCEPT !.held = FALSE]
                  /\ Rewritten(x, Blank).out = <<>>
  BY <1>0, <1>6 DEF BlankRead
<1>8. ~x.r.held => Rewritten(x, Blank).r = x.r /\ Rewritten(x, Blank).out = <<Blank>>
  BY <1>3, <1>6 DEF BlankRead
<1>9. \A e : Rewritten(x, DataLine(e)) = EventRewritten([x EXCEPT !.r.held = FALSE], e)
  BY LineKinds DEF Rewritten
<1>10. /\ Rewritten(x, StubLine).r = [x.r EXCEPT !.held = FALSE]
       /\ Rewritten(x, StubLine).out = <<StubLine>>
  <2>1. Rewritten(x, StubLine) = OtherRead(x, StubLine)
    BY LineKinds DEF Rewritten
  <2> QED BY <1>3, <2>1
<1>11. /\ Rewritten(x, CutLine).r = [x.r EXCEPT !.name = Unnamed]
       /\ Rewritten(x, CutLine).out = <<>>
  <2>1. Rewritten(x, CutLine) = [x EXCEPT !.r.name = Unnamed]
    BY LineKinds DEF Rewritten, NameWithheld
  <2> QED BY <1>0, <2>1
<1> QED BY <1>4, <1>5, <1>7, <1>8, <1>9, <1>10, <1>11

\* The sentinel and a torn line go out behind all that was held.
LEMMA RewrittenUnreadable ==
  ASSUME Mapping(Known), NEW x \in Steps, NEW line \in {DoneLine, TornLine}
  PROVE  LET k == CloseBlock([x EXCEPT !.r.held = FALSE])
         IN  /\ Rewritten(x, line).r = [k.r EXCEPT !.name = Unnamed]
             /\ Rewritten(x, line).out = k.out \o Named(k.r.name, <<line>>)
             /\ [x EXCEPT !.r.held = FALSE] \in Steps
<1> DEFINE z == [x EXCEPT !.r.held = FALSE]
           k == CloseBlock(z)
<1>1. z \in Steps
  BY DEF Steps, Rehydrators
<1> HIDE DEF z
<1>2. k \in Steps
  BY <1>1, ReleasedTypes
<1> HIDE DEF k
<1>3. k = [r |-> k.r, out |-> k.out] /\ k.r \in Rehydrators
  BY <1>2 DEF Steps
<1>4. Rewritten(x, line) = Wrote(NameTaken(k), Named(k.r.name, <<line>>))
  BY LineKinds DEF Rewritten, UnreadableRead, k, z
<1> DEFINE q == [k.r EXCEPT !.name = Unnamed]
           lines == Named(k.r.name, <<line>>)
<1>5. NameTaken(k) = [r |-> q, out |-> k.out]
  BY <1>3 DEF NameTaken
<1> HIDE DEF q, lines
<1>6. \A p, o : Wrote([r |-> p, out |-> o], lines) = [r |-> p, out |-> o \o lines]
  <2>1. \A a, b, c : [[r |-> a, out |-> b] EXCEPT !.out = c] = [r |-> a, out |-> c]
    OBVIOUS
  <2>2. \A p, o : [r |-> p, out |-> o].out = o
    OBVIOUS
  <2> QED BY <2>1, <2>2, Zenon DEF Wrote
<1>7. Rewritten(x, line) = [r |-> q, out |-> k.out \o lines]
  BY <1>4, <1>5, <1>6 DEF lines
<1>8. Rewritten(x, line).r = q /\ Rewritten(x, line).out = k.out \o lines
  BY <1>7
<1> QED BY <1>1, <1>8 DEF q, lines, k, z

\* What the agent reads after a line.
LEMMA NextToRead ==
  ASSUME Typed, FeedInOrder, feed # <<>>
  PROVE  /\ \A e \in Events :
              /\ AtName(e) => Tail(feed) # <<>> /\ Head(Tail(feed)) = DataLine(e)
              /\ AtData(e) => Tail(feed) # <<>> /\ Head(Tail(feed)).kind \in {"id", "blank"}
              /\ AtId(e) => Tail(feed) # <<>> /\ Head(Tail(feed)).kind = "blank"
         /\ AtBlank => Tail(feed) = <<>>
         /\ AtDone => Tail(feed) # <<>> /\ Head(Tail(feed)).kind = "blank"
<1>1. \A l : \A S : \A s \in Seq(S) : Head(<<l>> \o s) = l /\ <<l>> \o s # <<>>
  OBVIOUS
<1>2. \A l : Head(<<l>>) = l /\ <<l>> # <<>>
  OBVIOUS
<1>3. \A k, l : Head(<<k, l>>) = k /\ <<k, l>> # <<>>
  OBVIOUS
<1>4. ASSUME NEW e \in Events, AtName(e) PROVE Tail(feed) # <<>> /\ Head(Tail(feed)) = DataLine(e)
  <2>1. Rest(e) \in Seq(AllLines)
    BY LinesTypes
  <2> QED BY <1>1, <1>4, <2>1 DEF AtName
<1>5. ASSUME NEW e \in Events, AtData(e)
      PROVE  Tail(feed) # <<>> /\ Head(Tail(feed)).kind \in {"id", "blank"}
  <2>1. Tail(feed) = IF scenario.ids THEN <<IdLine(e.n), Blank>> ELSE <<Blank>>
    BY <1>5, Pairs DEF AtData, Rest
  <2> DEFINE rest == Tail(feed)
             id == IdLine(e.n)
  <2>2. id.kind = "id" /\ Blank.kind = "blank"
    BY LineKinds
  <2>3. rest = <<id, Blank>> \/ rest = <<Blank>>
    BY <2>1
  <2> HIDE DEF id, rest
  <2>4. rest # <<>> /\ (Head(rest) = id \/ Head(rest) = Blank)
    BY <1>2, <1>3, <2>3
  <2> QED BY <2>2, <2>4 DEF rest
<1>6. \A e \in Events : AtId(e) => Tail(feed) # <<>> /\ Head(Tail(feed)).kind = "blank"
  BY <1>2, LineKinds DEF AtId
<1>7. AtDone => Tail(feed) # <<>> /\ Head(Tail(feed)).kind = "blank"
  BY <1>2, LineKinds DEF AtDone
<1> QED BY <1>4, <1>5, <1>6, <1>7 DEF AtBlank

\* A session that has nothing to put back reads along and rewrites nothing.
LEMMA ObservedKeeps ==
  ASSUME NEW rr \in Rehydrators, NEW line \in AllLines
  PROVE  LET p == Observed(rr, line)
         IN  /\ p \in Rehydrators /\ SameTemplate(p, rr) /\ SameHeld(p, rr)
             /\ p.name = rr.name /\ p.held = rr.held /\ p.done = rr.done /\ p.joined = rr.joined
<1> DEFINE e == line.event
           n == NoteUsage(rr, e)
           y == IF e.index = None \/ e.index = n.block THEN n
                ELSE [ArgumentsReported(n) EXCEPT !.block = e.index]
           Same(p, q) == /\ p \in Rehydrators /\ SameTemplate(p, q) /\ SameHeld(p, q)
                         /\ p.name = q.name /\ p.held = q.held /\ p.done = q.done
                         /\ p.joined = q.joined
<1>1. e \in Events
  BY DEF AllLines
<1>2. Observed(rr, line) \in {rr, ArgumentsReported(y), y,
        [y EXCEPT !.arguments = @ \o e.text, !.observing = TRUE],
        [y EXCEPT !.toolName = ToolOf(e)]}
  BY DEF Observed, y, n, e
<1> HIDE DEF e
<1>3. n \in Rehydrators /\ Same(n, rr)
  BY <1>1, NoteUsageTypes DEF NoteUsage, Rehydrators, SameTemplate, SameHeld
<1> HIDE DEF n
<1>4. \A q \in Rehydrators : Same(ArgumentsReported(q), q)
  BY ReportedFields
<1>5. \A q \in Rehydrators : Same([q EXCEPT !.block = e.index], q)
  BY <1>1 DEF Rehydrators, Events, SameTemplate, SameHeld
<1>6. Same(rr, rr)
  BY DEF SameTemplate, SameHeld
<1>7. \A p, q : Same(p, q) => p \in Rehydrators
  OBVIOUS
<1>8. \A p, q, s : Same(p, q) /\ Same(q, s) => Same(p, s)
  BY DEF SameTemplate, SameHeld
<1> DEFINE told == ArgumentsReported(n)
<1> HIDE DEF Same, told
<1>9. Same(y, rr)
  <2>1. Same(told, n)
    BY <1>3, <1>4 DEF told
  <2>2. Same([told EXCEPT !.block = e.index], told)
    BY <1>5, <1>7, <2>1
  <2>3. Same([told EXCEPT !.block = e.index], rr)
    BY <1>3, <1>8, <2>1, <2>2
  <2>4. y = n \/ y = [told EXCEPT !.block = e.index]
    BY DEF told
  <2> HIDE DEF y
  <2> QED BY <1>3, <2>3, <2>4
<1> HIDE DEF y
<1>10. y \in Rehydrators
  BY <1>7, <1>9
<1>11. Same(ArgumentsReported(y), rr)
  BY <1>4, <1>8, <1>9, <1>10
<1>12. Same([y EXCEPT !.toolName = ToolOf(e)], rr)
  <2> DEFINE tool == ToolOf(e)
  <2>0. tool \in Places
    BY <1>1 DEF ToolOf, Events, Places
  <2> HIDE DEF tool
  <2>1. [y EXCEPT !.toolName = ToolOf(e)] \in Rehydrators
    BY <1>10, <2>0 DEF Rehydrators, tool
  <2>2. Same([y EXCEPT !.toolName = ToolOf(e)], y)
    BY <1>10, <2>1 DEF Rehydrators, SameTemplate, SameHeld, Same
  <2> QED BY <1>8, <1>9, <2>2
<1>13. Same([y EXCEPT !.arguments = @ \o e.text, !.observing = TRUE], rr)
  <2> DEFINE args == y.arguments \o e.text
             p == [y EXCEPT !.arguments = args, !.observing = TRUE]
  <2>1. args \in Text
    BY <1>1, <1>10, TextFacts DEF Rehydrators, Events
  <2> HIDE DEF args
  <2>2. p \in Rehydrators
    BY <1>10, <2>1 DEF Rehydrators
  <2>3. Same(p, y)
    BY <1>10, <2>2 DEF Rehydrators, SameTemplate, SameHeld, Same
  <2>4. Same(p, rr)
    BY <1>8, <1>9, <2>3
  <2> QED BY <2>4 DEF args
<1> QED BY <1>2, <1>6, <1>9, <1>11, <1>12, <1>13 DEF Same

\* The blank line that ends an event ends it soundly.
LEMMA BlankIsHeard ==
  ASSUME NEW c \in Clients, Midway(c), c.named = Messages
  PROVE  Took(c, Blank) \in Clients /\ Clean(Took(c, Blank))
<1>1. Took(c, Blank) \in Clients
  BY LineTypes, TookTypes
<1>2. CASE c.done
  BY <1>1, <1>2, TookLine DEF Clean, Midway
<1>3. CASE ~c.done
  <2>1. c.coherent /\ Sound(c)
    <3>1. \A e \in Events : NameOf(e) # Unnamed
      BY DEF NameOf, Events, Kinds, Unnamed
    <3>2. c.event \in Events
      BY DEF Clients
    <3> QED BY <1>3, <3>1, <3>2 DEF Midway, Sound
  <2> QED BY <1>1, <1>3, <2>1, TookBlank DEF Clean
<1> QED BY <1>2, <1>3

\* An id is of the event the caller is within.
LEMMA IdIsHeard ==
  ASSUME NEW c \in Clients, Midway(c), c.done \/ c.id = 0, source.n \in Nat
  PROVE  /\ Took(c, IdLine(source.n)) \in Clients /\ Midway(Took(c, IdLine(source.n)))
<1>1. Took(c, IdLine(source.n)) \in Clients
  BY LineTypes, TookTypes
<1>2. CASE c.done
  BY <1>1, <1>2, TookLine DEF Midway
<1>3. CASE ~c.done
  <2> DEFINE d == [c EXCEPT !.id = source.n]
  <2>1. Took(c, IdLine(source.n)) = d
    BY <1>3, TookLine
  <2>2. /\ d.coherent = c.coherent /\ d.done = c.done /\ d.id = source.n /\ d.event = c.event
        /\ d.name = c.name
    BY DEF Clients
  <2> HIDE DEF d
  <2>3. Midway(d)
    BY <1>3, <2>2 DEF Midway
  <2> QED BY <1>1, <2>1, <2>3
<1> QED BY <1>2, <1>3

\* The lines the agent can be at, and what it reads after each.
NextAfter == IF Tail(feed) = <<>> THEN "none" ELSE Head(Tail(feed)).kind

\* Where the agent is when a line is read, and where it is then.
LEMMA ReadingAt ==
  ASSUME Typed, FeedInOrder, feed # <<>>, Head(feed).kind \notin Partial
  PROVE  /\ ~Over /\ ReadNext = Head(feed).kind
         /\ \/ \E e \in Events :
                 /\ Latest(e)
                 /\ \/ AtName(e) /\ ReadNext = "name" /\ NextAfter = "data" /\ Head(Tail(feed)).event = e
                    \/ AtData(e) /\ ReadNext = "data" /\ NextAfter \in {"id", "blank"}
                    \/ AtId(e) /\ ReadNext = "id" /\ NextAfter = "blank"
            \/ AtBlank /\ ReadNext = "blank" /\ NextAfter = "none"
            \/ AtDone /\ ReadNext = "done" /\ NextAfter = "blank"
<1>1. ReadNext = Head(feed).kind
  BY DEF ReadNext
<1>2. Head(feed) \notin Parts
  BY LineKinds
<1>3. ASSUME NEW e \in Events, AtName(e)
      PROVE  ReadNext = "name" /\ NextAfter = "data" /\ Head(Tail(feed)).event = e
  BY <1>1, <1>3, LineKinds, NextToRead DEF AtName, NextAfter
<1>4. ASSUME NEW e \in Events, AtData(e) PROVE ReadNext = "data" /\ NextAfter \in {"id", "blank"}
  BY <1>1, <1>4, LineKinds, NextToRead DEF AtData, NextAfter
<1>5. ASSUME NEW e \in Events, AtId(e) PROVE ReadNext = "id" /\ NextAfter = "blank"
  BY <1>1, <1>5, LineKinds, NextToRead DEF AtId, NextAfter
<1>6. ASSUME AtBlank PROVE ReadNext = "blank" /\ NextAfter = "none"
  BY <1>1, <1>6, LineKinds, NextToRead DEF AtBlank, NextAfter
<1>7. ASSUME AtDone PROVE ReadNext = "done" /\ NextAfter = "blank"
  BY <1>1, <1>7, LineKinds, NextToRead DEF AtDone, NextAfter
<1>8. CASE /\ source.phase \notin {"sentinel", "over"}
           /\ \E e \in Events : Latest(e) /\ (AtName(e) \/ AtData(e) \/ AtId(e) \/ AtBlank)
  <2>1. ~Over
    BY <1>8 DEF Over
  <2>2. PICK e \in Events : Latest(e) /\ (AtName(e) \/ AtData(e) \/ AtId(e) \/ AtBlank)
    BY <1>8
  <2> QED BY <1>1, <1>3, <1>4, <1>5, <1>6, <2>1, <2>2
<1>9. CASE Chat /\ source.phase = "sentinel" /\ (AtDone \/ AtBlank)
  <2>1. ~Over
    BY <1>9 DEF Over
  <2> QED BY <1>1, <1>6, <1>7, <1>9, <2>1
<1> QED BY <1>2, <1>8, <1>9, FeedCases

\* A line ends nothing but the block of its event.
Stopping(line) ==
  IF line.kind = "data" /\ line.event.type = "block_stop" THEN {Slot(line.event)} ELSE {}

\* A line ends at most the block it carries the end of.
LEMMA TookStops ==
  ASSUME NEW c \in Clients, NEW line \in AllLines
  PROVE  LET d == Took(c, line)
         IN  /\ StopsOf(d) \subseteq StopsOf(c) \union Stopping(line)
             /\ d.done => c.done \/ line.kind = "done"
<1> DEFINE d == Took(c, line)
<1>1. CASE c.done
  <2>1. d = c
    BY <1>1 DEF Took
  <2> QED BY <1>1, <2>1
<1>2. CASE ~c.done /\ line.kind = "data"
  <2>1. d = [c EXCEPT !.event = line.event]
    BY <1>2 DEF Took, Partial
  <2>2. d.stopped = c.stopped /\ d.event = line.event /\ d.done = c.done
    BY <2>1 DEF Clients
  <2> HIDE DEF d
  <2>3. StopsOf(d) \subseteq StopsOf(c) \union Stopping(line)
    BY <1>2, <2>2 DEF StopsOf, Stopping
  <2> QED BY <1>2, <2>2, <2>3 DEF d
<1>3. CASE ~c.done /\ line.kind = "blank"
  <2>0. LET a == Acted(c)
        IN  a.stopped = StopsOf(c) /\ a.done = c.done
    BY DEF Acted, StopsOf, Clients
  <2> DEFINE a == Acted(c)
             ok == c.coherent /\ Sound(c)
  <2>1. d = [a EXCEPT !.coherent = ok, !.name = Unnamed, !.event = NoEvent, !.id = 0]
    BY <1>3 DEF Took
  <2>2. {"coherent", "name", "event", "id"} \subseteq DOMAIN a
    BY DEF Acted, Clients
  <2> HIDE DEF a, ok
  <2>3. d.stopped = a.stopped /\ d.event = NoEvent /\ d.done = a.done
    BY <2>1, <2>2
  <2> HIDE DEF d
  <2>4. StopsOf(d) = StopsOf(c) /\ d.done = c.done
    BY <2>0, <2>3 DEF StopsOf, NoEvent, Event, a
  <2> QED BY <1>3, <2>4 DEF d
<1>4. CASE ~c.done /\ line.kind \in {"name", "id", "done"} \union Partial
  <2>1. d.stopped = c.stopped /\ d.event = c.event /\ (d.done => line.kind = "done")
    BY <1>4 DEF Took, Clients, Partial
  <2> HIDE DEF d
  <2>2. StopsOf(d) = StopsOf(c)
    BY <2>1 DEF StopsOf
  <2> QED BY <2>1, <2>2 DEF d
<1> QED BY <1>1, <1>2, <1>3, <1>4 DEF AllLines, Partial

LineStops(d, c) ==
  /\ StopsOf(d) \subseteq StopsOf(c) \union Stopping(Head(feed))
  /\ d.done => c.done \/ ReadNext = "done"

\* What a line leaves behind it, with the agent and with the caller.
LineHeard(q, d) ==
  /\ HeldInOrder(q) /\ ~q.done /\ d \in Clients /\ d.named = Messages /\ Loose(d)
  /\ CallerAt(q, d, NextAfter)
  /\ NextAfter = "data" => ~q.held /\ NameHeard(q, d, Head(Tail(feed)).event)

\* A line that passes unchanged leaves the caller where the agent reads on.
LEMMA LineIsObserved ==
  ASSUME Typed, FeedInOrder, feed # <<>>, Head(feed).kind \notin Partial, Observing,
         HeldInOrder(r), ~r.done, NEW c \in Clients, c.named = Messages, CallerInOrder(r, c)
  PROVE  /\ LineHeard(Observed(r, Head(feed)), Took(c, Head(feed)))
         /\ LineStops(Took(c, Head(feed)), c)
<1> DEFINE q == Observed(r, Head(feed))
           d == Took(c, Head(feed))
<1>0. /\ r \in Rehydrators /\ Head(feed) \in AllLines /\ source.n \in Nat
      /\ ~Over /\ ReadNext = Head(feed).kind
  <2>1. feed \in Seq(AllLines) /\ r \in Rehydrators /\ source \in Sources
    BY DEF Typed
  <2>2. Head(feed) \in AllLines
    BY <2>1
  <2> QED BY <2>1, <2>2, ReadingAt DEF Sources
<1>1. SameTemplate(q, r) /\ SameHeld(q, r) /\ q.name = r.name /\ q.held = r.held /\ q.done = r.done
  BY <1>0, ObservedKeeps
<1>2. HeldInOrder(q) /\ ~q.done
  BY <1>1 DEF HeldInOrder, NamedAsHeld, SameTemplate, SameHeld
<1>3. d \in Clients /\ d.named = Messages
  <2>1. d \in Clients
    BY <1>0, TookTypes
  <2>2. <<Head(feed)>> \in Seq(AllLines)
    BY <1>0
  <2>3. Taken(c, <<Head(feed)>>).named = c.named
    BY <2>2, TakenResult
  <2> QED BY <2>1, <2>3, TakenOne
<1>4. /\ CallerAt(r, c, ReadNext)
      /\ ReadNext = "data" => ~r.held /\ NameHeard(r, c, Head(feed).event)
  BY <1>0 DEF CallerInOrder
<1>a. LineStops(d, c)
  BY <1>0, TookStops DEF LineStops
<1> HIDE DEF q, d
<1> SUFFICES /\ Loose(d) /\ CallerAt(q, d, NextAfter)
             /\ NextAfter = "data" => ~q.held /\ NameHeard(q, d, Head(Tail(feed)).event)
  BY <1>2, <1>3, <1>a DEF LineHeard, q, d
<1>5. ASSUME NEW e \in Events, Latest(e), AtName(e), ReadNext = "name", NextAfter = "data",
             Head(Tail(feed)).event = e
      PROVE  Loose(d) /\ ~q.held /\ NameHeard(q, d, e)
  <2>1. Clean(c) /\ q.name = Unnamed /\ ~q.held /\ Messages
    BY <1>1, <1>4, <1>5 DEF CallerAt, AtName
  <2>2. CASE c.done
    <3>1. d = c
      BY <2>2, TookLine DEF d
    <3> QED BY <2>1, <2>2, <3>1, CleanIsMidway DEF NameHeard, Clean
  <2>3. CASE ~c.done
    <3>1. d = [c EXCEPT !.name = NameOf(e)]
      BY <1>5, <2>3, TookLine DEF d, AtName
    <3>2. /\ d.coherent = c.coherent /\ d.done = c.done /\ d.id = c.id /\ d.event = c.event
          /\ d.name = NameOf(e)
      BY <3>1 DEF Clients
    <3>3. Loose(d)
      BY <2>1, <2>3, <3>2 DEF Loose, Clean, Chat, Messages
    <3> QED BY <2>1, <2>3, <3>2, <3>3 DEF NameHeard, Clean
  <2> QED BY <2>2, <2>3
<1>6. ASSUME NEW e \in Events, Latest(e), AtData(e), ReadNext = "data", NextAfter \in {"id", "blank"}
      PROVE  Loose(d) /\ CallerAt(q, d, NextAfter)
  <2>1. Head(feed) = DataLine(e) /\ Head(feed).event = e
    BY <1>6, LineKinds DEF AtData
  <2>2. NameHeard(r, c, e) /\ q.name = Unnamed /\ ~q.held
    BY <1>1, <1>4, <1>6, <2>1 DEF NameHeard
  <2>3. e.n = source.n /\ e # NoEvent
    BY <1>6 DEF Latest, NoEvent, Event
  <2>4. Midway(d) /\ (d.done \/ d.id = 0)
    <3>1. CASE c.done
      <4>1. d = c
        BY <3>1, TookLine DEF d
      <4> QED BY <2>2, <3>1, <4>1 DEF NameHeard, Midway
    <3>2. CASE ~c.done
      <4>1. d = [c EXCEPT !.event = e]
        BY <2>1, <3>2, TookLine DEF d
      <4>2. /\ d.coherent = c.coherent /\ d.done = c.done /\ d.id = c.id /\ d.event = e
            /\ d.name = c.name
        BY <4>1 DEF Clients
      <4> QED BY <1>0, <2>2, <2>3, <3>2, <4>2 DEF NameHeard, Midway
    <3> QED BY <3>1, <3>2
  <2> QED BY <1>6, <2>2, <2>4, CleanIsMidway DEF CallerAt
<1>7. ASSUME NEW e \in Events, Latest(e), AtId(e), ReadNext = "id", NextAfter = "blank"
      PROVE  Loose(d) /\ CallerAt(q, d, NextAfter)
  <2>1. Head(feed) = IdLine(source.n)
    BY <1>7 DEF AtId, Latest
  <2>2. Midway(c) /\ (c.done \/ c.id = 0) /\ q.name = Unnamed /\ ~q.held
    BY <1>1, <1>4, <1>7 DEF CallerAt
  <2>3. Midway(d)
    BY <1>0, <2>1, <2>2, IdIsHeard DEF d
  <2> QED BY <1>7, <2>2, <2>3, CleanIsMidway DEF CallerAt
<1>8. ASSUME AtBlank, ReadNext = "blank", NextAfter = "none"
      PROVE  Loose(d) /\ CallerAt(q, d, NextAfter)
  <2>1. Midway(c) /\ q.name = Unnamed /\ ~q.held
    BY <1>1, <1>4, <1>8 DEF CallerAt
  <2>2. Clean(d)
    BY <1>8, <2>1, BlankIsHeard DEF d, AtBlank
  <2> QED BY <1>8, <2>1, <2>2, CleanIsMidway DEF CallerAt
<1>9. ASSUME AtDone, ReadNext = "done", NextAfter = "blank"
      PROVE  Loose(d) /\ CallerAt(q, d, NextAfter)
  <2>1. Clean(c) /\ q.name = Unnamed /\ ~q.held
    BY <1>1, <1>4, <1>9 DEF CallerAt
  <2>2. d.coherent /\ d.done
    <3>1. CASE c.done
      BY <2>1, <3>1, TookLine DEF d, Clean
    <3>2. CASE ~c.done
      <4>1. d = [c EXCEPT !.done = TRUE]
        BY <1>9, <3>2, TookLine DEF d, AtDone
      <4> QED BY <2>1, <4>1 DEF Clients, Clean
    <3> QED BY <3>1, <3>2
  <2>3. Midway(d)
    BY <2>2 DEF Midway
  <2> QED BY <1>9, <2>1, <2>3, CleanIsMidway DEF CallerAt
<1>10. NextAfter = "data" => CallerAt(q, d, NextAfter)
  BY DEF CallerAt
<1> QED BY <1>5, <1>6, <1>7, <1>8, <1>9, <1>10, ReadingAt

\* So does a line that is rewritten.
LEMMA LineIsRewritten ==
  ASSUME Typed, KeptIn(r), FeedInOrder, feed # <<>>, Head(feed).kind \notin Partial, ~Observing, Streams,
         HeldInOrder(r), ~r.done, NEW c \in Clients, c.named = Messages, CallerInOrder(r, c)
  PROVE  LET w == Rewritten([r |-> r, out |-> <<>>], Head(feed))
         IN  LineHeard(w.r, Taken(c, w.out)) /\ LineStops(Taken(c, w.out), c)
<1> DEFINE x == [r |-> r, out |-> <<>>]
           line == Head(feed)
           w == Rewritten(x, line)
           d == Taken(c, w.out)
<1>0. /\ r \in Rehydrators /\ line \in AllLines /\ source.n \in Nat /\ ~Over /\ ReadNext = line.kind
      /\ source \in Sources /\ scenario \in Scenarios /\ Mapping(Known)
  <2>1. feed \in Seq(AllLines) /\ r \in Rehydrators /\ source \in Sources /\ scenario \in Scenarios
    BY DEF Typed
  <2>2. line \in AllLines
    BY <2>1
  <2> QED BY <2>1, <2>2, ReadingAt, ScenarioFacts DEF Sources
<1>1. x \in Steps /\ x.r = r /\ x.out = <<>>
  <2>1. <<>> \in Seq(AllLines)
    OBVIOUS
  <2> QED BY <1>0, <2>1 DEF Steps
<1>2. w \in Steps
  <2> HIDE DEF x, line
  <2> QED BY <1>0, <1>1, RewrittenTypes
<1>3. d \in Clients /\ d.named = Messages
  <2>1. w.out \in Seq(AllLines)
    BY <1>2 DEF Steps
  <2> HIDE DEF w
  <2> QED BY <2>1, TakenTypes, TakenResult
<1>4. /\ CallerAt(r, c, ReadNext)
      /\ ReadNext = "data" => ~r.held /\ NameHeard(r, c, line.event)
  BY <1>0 DEF CallerInOrder
<1> HIDE DEF x
<1>5. /\ \A name : /\ Rewritten(x, NameLine(name)).r = [r EXCEPT !.name = name]
                   /\ Rewritten(x, NameLine(name)).out = <<>>
      /\ \A n : /\ Rewritten(x, IdLine(n)).r = [r EXCEPT !.held = FALSE]
                /\ Rewritten(x, IdLine(n)).out = <<IdLine(n)>>
      /\ r.held => /\ Rewritten(x, Blank).r = [r EXCEPT !.held = FALSE]
                   /\ Rewritten(x, Blank).out = <<>>
      /\ ~r.held => Rewritten(x, Blank).r = r /\ Rewritten(x, Blank).out = <<Blank>>
      /\ \A e : Rewritten(x, DataLine(e)) = EventRewritten([x EXCEPT !.r.held = FALSE], e)
  BY <1>0, <1>1, RewrittenOther
<1> SUFFICES /\ HeldInOrder(w.r) /\ ~w.r.done /\ Loose(d) /\ CallerAt(w.r, d, NextAfter)
             /\ LineStops(d, c)
             /\ NextAfter = "data" => ~w.r.held /\ NameHeard(w.r, d, Head(Tail(feed)).event)
  BY <1>3 DEF LineHeard, x
<1>6. ASSUME NEW p, p \in {r, [r EXCEPT !.held = FALSE]}
      PROVE  HeldInOrder(p) /\ ~p.done /\ p.name = r.name /\ p.held = (p = r /\ r.held)
  <2>1. CASE p = r
    BY <2>1, <1>0 DEF Rehydrators
  <2>2. CASE p = [r EXCEPT !.held = FALSE]
    BY <1>0, <2>2 DEF Rehydrators, HeldInOrder, NamedAsHeld
  <2> QED BY <1>6, <2>1, <2>2
<1>7. ASSUME NEW e \in Events, Latest(e), AtName(e), ReadNext = "name", NextAfter = "data",
             Head(Tail(feed)).event = e
      PROVE  /\ HeldInOrder(w.r) /\ ~w.r.done /\ Loose(d) /\ ~w.r.held /\ NameHeard(w.r, d, e)
             /\ LineStops(d, c)
  <2>1. Clean(c) /\ ~r.held /\ Messages
    BY <1>4, <1>7 DEF CallerAt, AtName
  <2>2. w.r = [r EXCEPT !.name = NameOf(e)] /\ w.out = <<>>
    BY <1>5, <1>7 DEF AtName
  <2>3. d = c
    BY <2>2, TakenNone
  <2> HIDE DEF w, d
  <2>4. HeldInOrder(w.r) /\ ~w.r.done /\ w.r.name = NameOf(e) /\ ~w.r.held
    BY <1>0, <2>1, <2>2 DEF Rehydrators, HeldInOrder, NamedAsHeld
  <2> QED BY <2>1, <2>3, <2>4, CleanIsMidway DEF NameHeard, LineStops
<1>8. ASSUME NEW e \in Events, Latest(e), AtData(e), ReadNext = "data", NextAfter \in {"id", "blank"}
      PROVE  HeldInOrder(w.r) /\ ~w.r.done /\ Loose(d) /\ CallerAt(w.r, d, NextAfter) /\ LineStops(d, c)
  <2>1. line = DataLine(e) /\ line.event = e
    BY <1>8, LineKinds DEF AtData
  <2>2. Clean(c) /\ ~r.held /\ r.name = (IF Messages THEN NameOf(e) ELSE Unnamed)
    BY <1>4, <1>8, <2>1 DEF NameHeard
  <2> DEFINE z == [x EXCEPT !.r.held = FALSE]
  <2>3. z = x
    BY <1>0, <1>1, <2>2 DEF Steps, Rehydrators
  <2>4. w = EventRewritten(x, e)
    BY <1>5, <2>1, <2>3
  <2>5. e.type # "none" /\ e.n = source.n
    BY <1>8 DEF Latest
  <2> HIDE DEF z, w, line
  <2>6. EventHeard(w.r, d, c, e)
    BY <1>0, <1>1, <2>2, <2>4, <2>5, EventIsHeard
  <2>7. LineStops(d, c)
    <3>1. Stopping(DataLine(e)) = IF e.type = "block_stop" THEN {Slot(e)} ELSE {}
      <4>1. DataLine(e).kind = "data" /\ DataLine(e).event = e
        BY LineKinds
      <4> QED BY <4>1 DEF Stopping
    <3> HIDE DEF d
    <3> QED BY <2>1, <2>6, <3>1 DEF EventHeard, LineStops, d, line
  <2> QED BY <1>8, <2>6, <2>7, CleanIsMidway DEF EventHeard, CallerAt
<1>9. ASSUME NEW e \in Events, Latest(e), AtId(e), ReadNext = "id", NextAfter = "blank"
      PROVE  HeldInOrder(w.r) /\ ~w.r.done /\ Loose(d) /\ CallerAt(w.r, d, NextAfter) /\ LineStops(d, c)
  <2>1. line = IdLine(source.n)
    BY <1>9 DEF AtId, Latest
  <2>2. Midway(c) /\ (c.done \/ c.id = 0) /\ r.name = Unnamed
    BY <1>4, <1>9 DEF CallerAt
  <2>3. w.r = [r EXCEPT !.held = FALSE] /\ w.out = <<IdLine(source.n)>>
    <3>1. w = Rewritten(x, IdLine(source.n))
      BY <2>1
    <3>2. \A n : /\ Rewritten(x, IdLine(n)).r = [r EXCEPT !.held = FALSE]
                 /\ Rewritten(x, IdLine(n)).out = <<IdLine(n)>>
      BY <1>5
    <3> HIDE DEF w
    <3> QED BY <3>1, <3>2, Zenon
  <2>4. d = Took(c, IdLine(source.n))
    BY <2>3, TakenOne
  <2> HIDE DEF w, d
  <2>a. LineStops(d, c)
    BY <1>0, <2>1, <2>4, TookStops DEF LineStops, line
  <2>5. Midway(d)
    BY <1>0, <2>2, <2>4, IdIsHeard
  <2>6. HeldInOrder(w.r) /\ ~w.r.done /\ w.r.name = Unnamed /\ ~w.r.held
    BY <1>0, <2>2, <2>3 DEF Rehydrators, HeldInOrder, NamedAsHeld
  <2> QED BY <1>9, <2>5, <2>6, <2>a, CleanIsMidway DEF CallerAt
<1>10. ASSUME AtBlank, ReadNext = "blank", NextAfter = "none"
       PROVE  HeldInOrder(w.r) /\ ~w.r.done /\ Loose(d) /\ CallerAt(w.r, d, NextAfter) /\ LineStops(d, c)
  <2>1. Midway(c) /\ r.name = Unnamed /\ (r.held => Clean(c)) /\ line = Blank
    BY <1>4, <1>10 DEF CallerAt, AtBlank
  <2>2. CASE r.held
    <3>1. w.r = [r EXCEPT !.held = FALSE] /\ w.out = <<>>
      BY <1>5, <2>1, <2>2
    <3>2. d = c
      BY <3>1, TakenNone
    <3> HIDE DEF w, d
    <3>3. HeldInOrder(w.r) /\ ~w.r.done /\ w.r.name = Unnamed /\ ~w.r.held
      BY <1>0, <2>1, <3>1 DEF Rehydrators, HeldInOrder, NamedAsHeld
    <3> QED BY <1>10, <2>1, <2>2, <3>2, <3>3, CleanIsMidway DEF CallerAt, LineStops
  <2>3. CASE ~r.held
    <3>1. w.r = r /\ w.out = <<Blank>>
      BY <1>5, <2>1, <2>3
    <3>2. d = Took(c, Blank)
      BY <3>1, TakenOne
    <3> HIDE DEF w, d
    <3>3. Clean(d)
      BY <2>1, <3>2, BlankIsHeard
    <3>4. LineStops(d, c)
      BY <1>0, <2>1, <3>2, TookStops DEF LineStops, line
    <3> QED BY <1>10, <2>1, <2>3, <3>1, <3>3, <3>4, CleanIsMidway DEF CallerAt
  <2> QED BY <2>2, <2>3
<1>11. ASSUME AtDone, ReadNext = "done", NextAfter = "blank"
       PROVE  HeldInOrder(w.r) /\ ~w.r.done /\ Loose(d) /\ CallerAt(w.r, d, NextAfter) /\ LineStops(d, c)
  <2> DEFINE z == [x EXCEPT !.r.held = FALSE]
             k == CloseBlock(z)
  <2>1. Clean(c) /\ r.name = Unnamed /\ ~r.held /\ line = DoneLine
    BY <1>4, <1>11 DEF CallerAt, AtDone
  <2>2. w.r = [k.r EXCEPT !.name = Unnamed] /\ w.out = k.out \o Named(k.r.name, <<DoneLine>>)
    BY <1>0, <1>1, <2>1, RewrittenUnreadable
  <2>3. z = x
    BY <1>0, <1>1, <2>1 DEF Steps, Rehydrators
  <2> HIDE DEF z
  <2>4. /\ k \in Steps /\ HeldInOrder(k.r) /\ SameReading(k.r, r)
    BY <1>0, <1>1, <2>3, CloseFields, ClosedWhole
  <2>5. Taken(c, x.out) = c
    BY <1>1, TakenNone
  <2>6. Onward(Taken(c, k.out), c)
    BY <1>0, <1>1, <2>1, <2>3, <2>5, CleanIsMidway, ClosedTaken
  <2> DEFINE g == Taken(c, k.out)
             end == <<DoneLine>>
  <2>7. k.out \in Seq(AllLines) /\ end \in Seq(AllLines) /\ k.r \in Rehydrators
    BY <2>4, LineTypes DEF Steps
  <2> HIDE DEF k
  <2>8. k.r.name = Unnamed /\ ~k.r.held /\ ~k.r.done
    BY <1>0, <2>1, <2>4 DEF SameReading
  <2>9. w.out = k.out \o end
    BY <2>2, <2>8 DEF Named
  <2> HIDE DEF end
  <2>10. d = Taken(g, end)
    <3>1. Taken(c, k.out \o end) = Taken(Taken(c, k.out), end)
      BY <2>7, TakenJoined
    <3> HIDE DEF w
    <3> QED BY <2>9, <3>1
  <2>11. d = Took(g, DoneLine)
    BY <2>10, TakenOne DEF end
  <2> HIDE DEF g, w, d
  <2>12. g \in Clients /\ Clean(g)
    BY <2>1, <2>6 DEF Onward, g
  <2>a. StopsOf(g) \subseteq StopsOf(c)
    BY <2>1, <2>6, CleanIsMidway DEF Onward, g
  <2>b. LineStops(d, c)
    <3>1. Stopping(DoneLine) = {} /\ DoneLine \in AllLines
      BY LineKinds, LineTypes DEF Stopping
    <3>2. StopsOf(d) \subseteq StopsOf(g) \union Stopping(DoneLine)
      BY <2>11, <2>12, <3>1, TookStops
    <3> QED BY <1>11, <2>a, <3>1, <3>2 DEF LineStops
  <2>13. d.coherent /\ d.done
    <3>1. CASE g.done
      BY <2>11, <2>12, <3>1, TookLine DEF Clean
    <3>2. CASE ~g.done
      <4>1. d = [g EXCEPT !.done = TRUE]
        BY <2>11, <2>12, <3>2, TookLine
      <4> QED BY <2>12, <4>1 DEF Clients, Clean
    <3> QED BY <3>1, <3>2
  <2>14. Midway(d)
    BY <2>13 DEF Midway
  <2>15. HeldInOrder(w.r) /\ ~w.r.done /\ w.r.name = Unnamed /\ ~w.r.held
    BY <2>2, <2>4, <2>7, <2>8 DEF Rehydrators, HeldInOrder, NamedAsHeld
  <2> QED BY <1>11, <2>14, <2>15, <2>b, CleanIsMidway DEF CallerAt
<1>12. NextAfter = "data" => CallerAt(w.r, d, NextAfter)
  BY DEF CallerAt
<1> HIDE DEF w, d
<1> QED BY <1>7, <1>8, <1>9, <1>10, <1>11, <1>12, ReadingAt DEF line

\* The first line of an event.
LEMMA FirstLine ==
  ASSUME NEW e \in Events
  PROVE  Lines(e) # <<>> /\ Head(Lines(e)).kind = (IF Messages THEN "name" ELSE "data")
         /\ (~Messages => Head(Lines(e)).event = e)
<1> DEFINE rest == Rest(e)
           data == <<DataLine(e)>> \o rest
<1>1. \A l : \A S : \A s \in Seq(S) : Head(<<l>> \o s) = l /\ <<l>> \o s # <<>>
  OBVIOUS
<1>2. rest \in Seq(AllLines) /\ data \in Seq(AllLines)
      /\ Lines(e) = IF Messages THEN Named(NameOf(e), data) ELSE data
  BY LinesTypes
<1> HIDE DEF rest
<1>3. Head(data) = DataLine(e) /\ data # <<>>
  BY <1>1, <1>2
<1> HIDE DEF data
<1>4. NameOf(e) # Unnamed
  BY DEF NameOf, Events, Kinds, Unnamed
<1>5. CASE Messages
  <2>1. Lines(e) = <<NameLine(NameOf(e))>> \o data
    BY <1>2, <1>4, <1>5 DEF Named
  <2>2. Head(Lines(e)) = NameLine(NameOf(e)) /\ Lines(e) # <<>>
    BY <1>1, <1>2, <2>1
  <2> QED BY <1>5, <2>2, LineKinds
<1>6. CASE ~Messages
  BY <1>2, <1>3, <1>6, LineKinds
<1> QED BY <1>5, <1>6

\* Telling of the cost, field by field.
LEMMA ReportUsageFields ==
  ASSUME NEW rr \in Rehydrators
  PROVE  LET p == ReportUsage(rr)
         IN  /\ p \in Rehydrators /\ SameReading(p, rr) /\ SameTemplate(p, rr) /\ SameHeld(p, rr)
             /\ SameTelling(p, rr)
             /\ p.model = rr.model /\ p.input = rr.input /\ p.output = rr.output /\ p.usageSent
             /\ p.usage = (IF rr.usageSent \/ ~rr.model THEN rr.usage
                           ELSE Append(rr.usage, <<rr.input, rr.output>>))
<1>1. ReportUsage(rr) \in Rehydrators
  BY ReportUsageTypes
<1>2. CASE rr.usageSent
  BY <1>1, <1>2 DEF ReportUsage, SameReading, SameTemplate, SameHeld, SameTelling
<1>3. CASE ~rr.usageSent
  BY <1>1, <1>3 DEF ReportUsage, Rehydrators, SameReading, SameTemplate, SameHeld, SameTelling
<1> QED BY <1>2, <1>3

\* Nothing that is read joins what is released to it.
LEMMA ReadKeepsJoined ==
  ASSUME Mapping(Known), NEW x \in Steps, x.out = <<>>, NEW line \in AllLines
  PROVE  Read(x, line).r.joined = x.r.joined
<1>0. x.r \in Rehydrators /\ line.event \in Events /\ x = [r |-> x.r, out |-> x.out]
  BY DEF Steps, AllLines
<1> DEFINE z == [x EXCEPT !.r.held = FALSE]
<1>1. z \in Steps /\ z.r.joined = x.r.joined
  BY <1>0 DEF Steps, Rehydrators
<1>2. CASE Observing
  <2>1. Read(x, line).r = Observed(x.r, line)
    BY <1>2 DEF Read, Observing
  <2> QED BY <1>0, <2>1, ObservedKeeps
<1>3. \A o : Wrote(x, o).r = x.r
  BY <1>0 DEF Wrote
<1>4. \A w \in Steps : \A o : Wrote(w, o).r = w.r
  BY DEF Wrote, Steps
<1> HIDE DEF z
<1>5. CASE ~Observing /\ line.kind \in {"name", "cut"}
  <2>1. Read(x, line) = [x EXCEPT !.r.name = line.name]
    BY <1>5 DEF Read, Observing, Rewritten, NameWithheld
  <2> QED BY <1>0, <2>1 DEF Rehydrators
<1>6. CASE ~Observing /\ line.kind = "blank"
  <2>1. Read(x, line) = IF x.r.held THEN z ELSE Wrote(x, <<line>>)
    BY <1>6 DEF Read, Observing, Rewritten, BlankRead, z
  <2> QED BY <1>1, <1>3, <2>1
<1>7. CASE ~Observing /\ line.kind \in {"id", "stub"}
  <2>1. Read(x, line) = Wrote(z, <<line>>)
    BY <1>7 DEF Read, Observing, Rewritten, OtherRead, z
  <2> QED BY <1>1, <1>4, <2>1
<1>8. CASE ~Observing /\ line.kind \in {"done", "torn"}
  <2> DEFINE k == CloseBlock(z)
  <2>1. Read(x, line) = Wrote(NameTaken(k), Named(k.r.name, <<line>>))
    BY <1>8 DEF Read, Observing, Rewritten, UnreadableRead, z
  <2>2. k \in Steps /\ k.r.joined = z.r.joined
    BY <1>1, CloseFields DEF SameReading
  <2> HIDE DEF k
  <2>3. NameTaken(k) \in Steps /\ NameTaken(k).r.joined = k.r.joined
    BY <2>2 DEF NameTaken, Steps, Rehydrators, Names
  <2> QED BY <1>1, <1>4, <2>1, <2>2, <2>3
<1>9. CASE ~Observing /\ line.kind = "data"
  <2> DEFINE e == line.event
             n == Noted(z, e)
             y == Entered(z, e)
             w == NameTaken(y)
             name == y.r.name
  <2>1. Read(x, line) = EventRewritten(z, e)
    BY <1>9 DEF Read, Observing, Rewritten, z
  <2>2. /\ n \in Steps /\ y \in Steps /\ w \in Steps /\ n.r.joined = z.r.joined
        /\ \/ y = n
           \/ y.r = [CloseBlock(n).r EXCEPT !.block = e.index]
        /\ w.r = [y.r EXCEPT !.name = Unnamed]
        /\ EventRewritten(z, e) = EventWritten(w, e, name)
    BY <1>0, <1>1, EnteredFields DEF SameReading
  <2> HIDE DEF n, y, w
  <2>3. CloseBlock(n).r \in Rehydrators /\ CloseBlock(n).r.joined = n.r.joined
    BY <2>2, CloseFields DEF SameReading, Steps
  <2>4. y.r.joined = z.r.joined /\ y.r \in Rehydrators
    BY <2>2, <2>3 DEF Rehydrators, Steps
  <2>5. w.r.joined = z.r.joined /\ w.r \in Rehydrators /\ name \in Names
    BY <2>2, <2>4 DEF Rehydrators, Steps
  <2> HIDE DEF name, e
  <2>6. e \in Events
    BY <1>0 DEF e
  <2> DEFINE v == EventWritten(w, e, name)
  <2>7. WrittenAs(v, w, e, name)
    BY <2>2, <2>5, <2>6, WrittenFields
  <2>8. CloseBlock(w).r.joined = w.r.joined
    BY <2>2, CloseFields DEF SameReading
  <2>9. FragmentHeld(w, e, name).r.joined = w.r.joined
    <3>1. FragmentAs(FragmentHeld(w, e, name), w, e, name)
      BY <2>2, <2>5, <2>6, FragmentFields, Zenon
    <3> QED BY <3>1, Zenon DEF FragmentAs
  <2>10. \A combined, tail : CutAt(w, e, name, combined, tail).r.joined = w.r.joined
    <3>1. \A combined, tail : CutAs(CutAt(w, e, name, combined, tail), w, e, name, combined, tail)
      BY <2>2, <2>5, <2>6, CutFields, Zenon
    <3> QED BY <3>1, Zenon DEF CutAs, SameReading
  <2>11. [w.r EXCEPT !.toolName = ToolOf(e)].joined = w.r.joined
    BY <2>5 DEF Rehydrators
  <2> HIDE DEF v
  <2>12. v.r.joined = w.r.joined
    <3>1. e.type \in Kinds
      BY <2>6 DEF Events
    <3>2. CASE e.type = "block_stop"
      BY <2>7, <2>8, <3>2, Zenon DEF WrittenAs
    <3>3. CASE e.type = "json_delta"
      BY <2>7, <2>9, <3>3, Zenon DEF WrittenAs
    <3>4. CASE e.type = "text_delta"
      <4>1. PICK combined \in Text : \E tail \in 0..Len(combined) : v = CutAt(w, e, name, combined, tail)
        BY <2>7, <3>4, Zenon DEF WrittenAs
      <4>2. PICK tail \in 0..Len(combined) : v = CutAt(w, e, name, combined, tail)
        BY <4>1
      <4> QED BY <2>10, <4>2, Zenon
    <3>5. CASE e.type \in Starts
      BY <2>7, <2>11, <3>5, Zenon DEF WrittenAs
    <3>6. CASE e.type \in {"none", "message_start", "ping", "message_delta"}
      BY <2>7, <3>6, Zenon DEF WrittenAs
    <3> QED BY <3>1, <3>2, <3>3, <3>4, <3>5, <3>6 DEF Kinds, Starts
  <2> QED BY <1>1, <2>1, <2>2, <2>5, <2>12 DEF v, e
<1> QED BY <1>2, <1>5, <1>6, <1>7, <1>8, <1>9 DEF AllLines

\* The lines that end neither a block nor a chat.
Quiet == {line \in AllLines : line.kind # "done" /\ Stopping(line) = {}}

\* They leave what the caller has the end of.
LEMMA QuietTaken ==
  ASSUME NEW c \in Clients, NEW lines \in Seq(Quiet)
  PROVE  LET d == Taken(c, lines)
         IN  d \in Clients /\ StopsOf(d) \subseteq StopsOf(c) /\ d.done = c.done
<1> DEFINE G == {d \in Clients : StopsOf(d) \subseteq StopsOf(c) /\ d.done = c.done}
<1>1. ASSUME NEW d \in G, NEW line \in Quiet PROVE Took(d, line) \in G
  <2>1. line \in AllLines /\ line.kind # "done" /\ Stopping(line) = {} /\ d \in Clients
    BY DEF Quiet
  <2>2. Took(d, line) \in Clients
    BY <2>1, TookTypes
  <2>3. /\ StopsOf(Took(d, line)) \subseteq StopsOf(d)
        /\ Took(d, line).done => d.done
    BY <2>1, TookStops
  <2>4. d.done => Took(d, line).done
    BY <2>1, TookLine
  <2>5. Took(d, line).done \in BOOLEAN /\ d.done \in BOOLEAN
    BY <2>1, <2>2 DEF Clients
  <2>6. Took(d, line).done = d.done
    BY <2>3, <2>4, <2>5
  <2> QED BY <2>2, <2>3, <2>6
<1>2. c \in G
  OBVIOUS
<1> HIDE DEF G
<1>3. Taken(c, lines) \in G
  BY <1>1, <1>2, TakenKeeps
<1> QED BY <1>3 DEF G

\* What joins a line cut short: all but the first of the lines released.
LEMMA JoinedLines ==
  ASSUME NEW S, NEW more \in Seq(S), StubLine \in S
  PROVE  Joined(<<StubLine>> \o more) \in Seq(S)
<1> DEFINE s == StubLine
           all == <<s>> \o more
<1> HIDE DEF s
<1>1. s \in S
  BY DEF s
<1>2. all \in Seq(S)
  BY <1>1
<1> HIDE DEF all
<1>3. SubSeq(all, 3, Len(all)) \in Seq(S)
  BY <1>2
<1>4. <<s>> \o SubSeq(all, 3, Len(all)) \in Seq(S)
  BY <1>1, <1>3
<1> QED BY <1>4 DEF Joined, all, s

\* A caller that is told of an end behind a line cut short takes no end of a block from it.
LEMMA JoinedIsQuiet ==
  ASSUME Mapping(Known), NEW z \in Steps, KeptIn(z.r), HeldInOrder(z.r), z.out = <<StubLine>>,
         NEW c \in Clients
  PROVE  LET d == Taken(c, Joined(CloseBlock(z).out))
         IN  d \in Clients /\ StopsOf(d) \subseteq StopsOf(c) /\ d.done = c.done
<1>1. PICK more \in Seq(ClosingLines(z.r)) : CloseBlock(z).out = z.out \o more
  BY ClosingWritten
<1>2. StubLine \in Quiet
  BY LineTypes, LineKinds DEF Quiet, Stopping, Parts
<1>3. ClosingLines(z.r) \subseteq Quiet
  BY DEF ClosingLines, Quiet, Stopping
<1>4. more \in Seq(Quiet)
  BY <1>3
<1>5. Joined(CloseBlock(z).out) \in Seq(Quiet)
  BY <1>1, <1>2, <1>4, JoinedLines
<1> QED BY <1>5, QuietTaken

\* An event that is sent finds the caller between two events.
LEMMA SentIsHeard ==
  ASSUME Copying, HeardInOrder, [Next]_vars, NEW e, SendsEvent(e)
  PROVE  HeardInOrder'
<1> DEFINE u == Upcoming
<1>0. /\ source \in Sources /\ scenario \in Scenarios /\ source.n \in Nat /\ r \in Rehydrators
      /\ Alive /\ feed = <<>> /\ e \in Events /\ source'.n = source.n + 1
      /\ UNCHANGED <<scenario, r, out, client>>
  BY DEF Copying, Typed, Sources, SendsEvent
<1>1. client.result = "open" /\ ~Over
  BY <1>0 DEF Alive, Over
<1>2. /\ Streams => feed' = Lines(e)'
      /\ ~Streams => feed' = <<>>
      /\ Streams' = Streams /\ Chat' = Chat /\ Messages' = Messages /\ ~Over'
  BY SentIsLatest DEF Copying, Over
<1>3. Observing' = Observing /\ Lines(e)' = Lines(e)
  BY <1>0 DEF Observing, Known, Lines
<1>4. Upcoming' = u
  BY <1>0 DEF Upcoming
<1>5. CASE ~Streams
  BY <1>0, <1>1, <1>2, <1>5 DEF HeardInOrder
<1>6. CASE Streams
  <2>1. /\ HeldInOrder(r) /\ ~r.done /\ u.coherent /\ CallerInOrder(r, u)
        /\ client.named = Messages /\ client.coherent /\ ~r.joined
    BY <1>1, <1>6 DEF HeardInOrder
  <2> HIDE DEF u
  <2>2. Clean(u) /\ r.name = Unnamed /\ ~r.held
    BY <1>0, <1>1, <2>1 DEF CallerInOrder, CallerAt, ReadNext
  <2>3. HeldInOrder(r)'
    <3>1. \A m \in Nat : m <= source.n => m <= source.n + 1
      BY <1>0
    <3>2. r.template.n \in Nat /\ r.argumentsIn.n \in Nat
      BY <1>0 DEF Rehydrators, Events
    <3> QED BY <1>0, <1>2, <2>1, <3>1, <3>2 DEF HeldInOrder, NamedAsHeld
  <2>4. Lines(e) # <<>> /\ Head(Lines(e)).kind = (IF Messages THEN "name" ELSE "data")
        /\ (~Messages => Head(Lines(e)).event = e)
    BY <1>0, FirstLine
  <2>5. ReadNext' = (IF Messages THEN "name" ELSE "data")
    BY <1>2, <1>3, <1>6, <2>4 DEF ReadNext
  <2>6. Loose(Upcoming)'
    BY <1>4, <2>2 DEF Clean, Loose
  <2>7. CallerAt(r, Upcoming, ReadNext)'
    BY <1>0, <1>4, <2>2, <2>5 DEF CallerAt, Clean
  <2>8. ReadNext' = "data" => ~r'.held /\ NameHeard(r, Upcoming, Head(feed).event)'
    BY <1>0, <1>2, <1>3, <1>4, <2>2, <2>5 DEF NameHeard, Clean
  <2>9. CallerInOrder(r, Upcoming)'
    BY <2>6, <2>7, <2>8 DEF CallerInOrder
  <2> QED BY <1>0, <1>1, <1>2, <1>4, <1>6, <2>1, <2>3, <2>9 DEF HeardInOrder
<1> QED BY <1>5, <1>6

\* Reading a line keeps the caller in order.
LEMMA ReadIsHeard ==
  ASSUME Copying, HeardInOrder, ReadLine
  PROVE  HeardInOrder' /\ LineStops(Upcoming', client)
<1> DEFINE line == Head(feed)
           w == Read([r |-> r, out |-> <<>>], line)
           d == Taken(client, w.out)
<1>0. /\ Typed /\ KeptIn(r) /\ FeedInOrder /\ feed # <<>> /\ line.kind \notin Partial /\ Streams
      /\ client.result = "open" /\ out = <<>> /\ ~r.done
      /\ r' = w.r /\ out' = w.out /\ feed' = Tail(feed)
      /\ UNCHANGED <<scenario, source, client>>
  BY DEF Copying, ReadLine
<1>1. client \in Clients /\ line \in AllLines
  <2>1. feed \in Seq(AllLines)
    BY <1>0 DEF Typed
  <2> QED BY <1>0, <2>1 DEF Typed
<1>2. Upcoming = client
  BY <1>0, TakenNone DEF Upcoming
<1>3. /\ HeldInOrder(r) /\ CallerInOrder(r, client) /\ client.named = Messages /\ client.coherent
      /\ ~r.joined
  BY <1>0, <1>2 DEF HeardInOrder
<1>a. w.r.joined = r.joined
  <2> DEFINE x == [r |-> r, out |-> <<>>]
  <2>1. <<>> \in Seq(AllLines) /\ Mapping(Known) /\ r \in Rehydrators
    BY <1>0, ScenarioFacts DEF Typed
  <2>2. x \in Steps /\ x.r = r /\ x.out = <<>>
    BY <2>1 DEF Steps
  <2> HIDE DEF x
  <2>3. Read(x, line).r.joined = x.r.joined
    BY <1>1, <2>1, <2>2, ReadKeepsJoined
  <2> QED BY <2>2, <2>3 DEF x
<1>4. LineHeard(w.r, d) /\ LineStops(d, client)
  <2>1. CASE Observing
    <3>1. Append(<<>>, line) = <<line>>
      OBVIOUS
    <3>2. w = [r |-> Observed(r, line), out |-> <<line>>]
      BY <2>1, <3>1 DEF Read, Observing
    <3>3. w.r = Observed(r, line) /\ w.out = <<line>>
      BY <3>2
    <3>4. d = Took(client, line)
      BY <3>3, TakenOne
    <3> HIDE DEF w, d
    <3> QED BY <1>0, <1>1, <1>3, <2>1, <3>3, <3>4, LineIsObserved
  <2>2. CASE ~Observing
    <3>1. w = Rewritten([r |-> r, out |-> <<>>], line)
      BY <2>2 DEF Read, Observing
    <3> QED BY <1>0, <1>1, <1>3, <2>2, <3>1, LineIsRewritten
  <2> QED BY <2>1, <2>2
<1>5. Upcoming' = d
  BY <1>0 DEF Upcoming
<1> HIDE DEF w, d
<1>6. /\ Streams' = Streams /\ Chat' = Chat /\ Messages' = Messages /\ Over' = Over
      /\ Observing' = Observing
  BY <1>0 DEF Streams, Chat, Messages, Over, Observing, Known
<1>7. ReadNext' = NextAfter
  BY <1>0 DEF ReadNext, NextAfter
<1>8. HeldInOrder(r)' /\ ~r'.done
  BY <1>0, <1>4, <1>6 DEF LineHeard, HeldInOrder, NamedAsHeld
<1>9. Loose(Upcoming)'
  BY <1>0, <1>4, <1>5, <1>6 DEF LineHeard, Loose
<1>10. CallerAt(r, Upcoming, ReadNext)'
  <2>1. Midway(d) => Midway(Upcoming)'
    BY <1>0, <1>5, <1>6 DEF Midway
  <2>2. Clean(d) => Clean(Upcoming)'
    BY <1>5 DEF Clean
  <2>3. CallerAt(w.r, d, NextAfter)
    BY <1>4 DEF LineHeard
  <2> QED BY <1>0, <1>5, <1>6, <1>7, <2>1, <2>2, <2>3 DEF CallerAt
<1>11. ReadNext' = "data" => ~r'.held /\ NameHeard(r, Upcoming, Head(feed).event)'
  BY <1>0, <1>4, <1>5, <1>6, <1>7 DEF LineHeard, NameHeard, Clean
<1>12. CallerInOrder(r, Upcoming)'
  BY <1>9, <1>10, <1>11 DEF CallerInOrder
<1>13. Upcoming'.coherent
  BY <1>4, <1>5 DEF LineHeard, Loose
<1>14. HeardInOrder'
  BY <1>0, <1>3, <1>a, <1>6, <1>8, <1>12, <1>13 DEF HeardInOrder
<1> QED BY <1>4, <1>5, <1>14

\* The end of the stream: what is held goes out and the caller stays sound.
LEMMA EndIsHeard ==
  ASSUME Copying, HeardInOrder, ReadEnd
  PROVE  HeardInOrder' /\ StopsOf(Upcoming') \subseteq StopsOf(client) /\ Upcoming'.done = client.done
<1> DEFINE line == Head(feed)
           before == [r |-> r, out |-> <<>>]
           x == IF feed = <<>> THEN before ELSE Read(before, line)
           z == [x EXCEPT !.r = ArgumentsReported(x.r)]
           y == Flushed(x)
           u == Taken(client, x.out)
           joined == feed = <<StubLine>> /\ y.out # x.out
           d == Taken(client, IF joined THEN Joined(y.out) ELSE y.out)
<1>0. /\ Typed /\ KeptIn(r) /\ FeedInOrder /\ Streams /\ client.result = "open" /\ out = <<>>
      /\ ~r.done /\ Over /\ (feed # <<>> => line.kind \in Partial)
      /\ r' = [ReportUsage(y.r) EXCEPT !.done = TRUE, !.readErr = Failed, !.joined = joined]
      /\ out' = (IF joined THEN Joined(y.out) ELSE y.out) /\ feed' = <<>>
      /\ UNCHANGED <<scenario, source, client>>
  BY DEF Copying, ReadEnd, Over
<1>1. /\ client \in Clients /\ source \in Sources /\ scenario \in Scenarios /\ Mapping(Known)
      /\ r \in Rehydrators /\ feed \in Seq(AllLines)
  BY <1>0, ScenarioFacts DEF Typed
<1>2. Upcoming = client /\ Upcoming' = d
  BY <1>0, TakenNone DEF Upcoming
<1>3. HeldInOrder(r) /\ Loose(client) /\ client.named = Messages /\ client.coherent /\ ~r.joined
  BY <1>0, <1>2 DEF HeardInOrder, CallerInOrder
<1>4. before \in Steps /\ before.r = r /\ before.out = <<>>
  <2>1. <<>> \in Seq(AllLines)
    OBVIOUS
  <2> QED BY <1>1, <2>1 DEF Steps
<1> HIDE DEF before, y
<1>5. feed # <<>> => line \in Parts /\ feed = <<line>> /\ source.kind # "whole" /\ line \in AllLines
  BY <1>0, <1>1, FeedCases, LineKinds, LineTypes DEF AtName, AtData, AtId, AtBlank, AtDone, Partial
\* Either way nothing is held that could come out unsound.
<1>6. /\ x \in Steps /\ KeptIn(x.r) /\ HeldInOrder(x.r)
      /\ Loose(u) \/ (u.coherent /\ x.r.argumentsIn = NoEvent /\ x.r.pending = <<>>)
      /\ StopsOf(u) \subseteq StopsOf(client) /\ u.done = client.done
      /\ feed = <<StubLine>> => x.out = <<StubLine>>
  <2>0. <<StubLine>> # <<>> /\ Head(<<StubLine>>) = StubLine
    OBVIOUS
  <2>1. CASE feed = <<>>
    <3>1. x = before
      BY <2>1
    <3> HIDE DEF x
    <3>2. u = client
      BY <1>4, <3>1, TakenNone
    <3> QED BY <1>0, <1>3, <1>4, <2>0, <2>1, <3>1, <3>2
  <2>2. CASE feed # <<>> /\ Observing
    <3>1. Append(<<>>, line) = <<line>>
      OBVIOUS
    <3>2. x = [r |-> Observed(r, line), out |-> <<line>>]
      BY <1>4, <2>2, <3>1 DEF Read, Observing
    <3>3. x.r = Observed(r, line) /\ x.out = <<line>>
      BY <3>2
    <3>4. x \in Steps /\ KeptIn(x.r)
      BY <1>0, <1>1, <1>4, <1>5, <2>2, KeptRead, ReadTypes
    <3>a. feed = <<StubLine>> => x.out = <<StubLine>>
      BY <2>0, <3>3
    <3> HIDE DEF x, line
    <3>5. u = Took(client, line)
      BY <3>3, TakenOne
    <3> HIDE DEF u
    <3>6. u = client
      BY <1>1, <1>5, <2>2, <3>5, TookLine
    <3>7. HeldInOrder(x.r)
      BY <1>1, <1>3, <1>5, <2>2, <3>3, ObservedKeeps DEF HeldInOrder, NamedAsHeld, SameTemplate, SameHeld
    <3> QED BY <1>3, <3>4, <3>6, <3>7, <3>a
  <2>a. CASE feed # <<>> /\ ~Observing /\ line = StubLine
    <3>1. x = Rewritten(before, StubLine)
      BY <2>a DEF Read, Observing
    <3>2. x \in Steps /\ KeptIn(x.r)
      BY <1>0, <1>1, <1>4, <1>5, <2>a, KeptRead, ReadTypes
    <3> HIDE DEF x
    <3>3. x.r = [r EXCEPT !.held = FALSE] /\ x.out = <<StubLine>>
      BY <1>1, <1>4, <3>1, RewrittenOther
    <3>4. u = Took(client, StubLine)
      BY <3>3, TakenOne
    <3> HIDE DEF u
    <3>5. u = client
      BY <1>1, <3>4, TookLine DEF Parts
    <3>6. HeldInOrder(x.r)
      BY <1>1, <1>3, <3>3 DEF Rehydrators, HeldInOrder, NamedAsHeld
    <3> QED BY <1>3, <3>2, <3>3, <3>5, <3>6
  <2>b. CASE feed # <<>> /\ ~Observing /\ line = CutLine
    <3>1. x = Rewritten(before, CutLine)
      BY <2>b DEF Read, Observing
    <3>2. x \in Steps /\ KeptIn(x.r)
      BY <1>0, <1>1, <1>4, <1>5, <2>b, KeptRead, ReadTypes
    <3> HIDE DEF x
    <3>3. x.r = [r EXCEPT !.name = Unnamed] /\ x.out = <<>>
      BY <1>1, <1>4, <3>1, RewrittenOther
    <3>4. u = client
      BY <3>3, TakenNone
    <3> HIDE DEF u
    <3>5. HeldInOrder(x.r)
      BY <1>1, <1>3, <3>3 DEF Rehydrators, HeldInOrder, NamedAsHeld
    <3>6. feed # <<StubLine>>
      BY <2>0, <2>b, LineKinds
    <3> QED BY <1>3, <3>2, <3>4, <3>5, <3>6
  <2>3. CASE feed # <<>> /\ ~Observing /\ line = TornLine
    <3>0. feed # <<StubLine>>
      BY <2>0, <2>3, LineKinds
    <3> DEFINE b == [before EXCEPT !.r.held = FALSE]
               k == CloseBlock(b)
               g == Taken(client, k.out)
               torn == Named(k.r.name, <<TornLine>>)
    <3>1. x = Rewritten(before, TornLine)
      BY <1>5, <2>3 DEF Read, Observing
    <3>2. x \in Steps /\ KeptIn(x.r)
      BY <1>0, <1>1, <1>4, <1>5, <2>3, KeptRead, ReadTypes
    <3> HIDE DEF x
    <3>3. x.r = [k.r EXCEPT !.name = Unnamed] /\ x.out = k.out \o torn /\ b \in Steps
      BY <1>1, <1>4, <3>1, RewrittenUnreadable
    <3>4. b.r = [r EXCEPT !.held = FALSE] /\ b.out = <<>>
      BY <1>1, <1>4 DEF Steps, Rehydrators
    <3> HIDE DEF b
    <3>5. KeptIn(b.r) /\ HeldInOrder(b.r)
      BY <1>0, <1>1, <1>3, <3>4 DEF Rehydrators, KeptIn, HeldInOrder, NamedAsHeld
    <3>6. k \in Steps /\ HeldInOrder(k.r) /\ k.r.pending = <<>> /\ k.r.argumentsIn = NoEvent
      BY <1>1, <3>3, <3>5, ClosedWhole, CloseFields
    <3>7. Taken(client, b.out) = client
      BY <3>4, TakenNone
    <3>8. Onward(g, client)
      BY <1>0, <1>1, <1>3, <3>3, <3>5, <3>7, ClosedTaken
    <3> HIDE DEF k
    <3>9. k.r \in Rehydrators /\ k.out \in Seq(AllLines) /\ k.r.name \in Names
      BY <3>6 DEF Steps, Rehydrators
    <3>10. torn \in Seq(AllLines)
      <4>1. <<TornLine>> \in Seq(AllLines)
        BY LineTypes DEF Parts
      <4> QED BY <3>9, <4>1, NamedTypes
    <3> HIDE DEF torn
    <3>11. u = Taken(g, torn)
      <4>1. Taken(client, k.out \o torn) = Taken(Taken(client, k.out), torn)
        BY <3>9, <3>10, TakenJoined
      <4> QED BY <3>3, <4>1
    <3> HIDE DEF g, u
    <3>12. g \in Clients /\ g.coherent
      BY <1>3, <3>8 DEF Onward, Loose
    <3>a. StopsOf(g) \subseteq StopsOf(client) /\ g.done = client.done
      BY <1>3, <3>8 DEF Onward
    <3>13. u.coherent /\ u.stopped = g.stopped /\ u.event = g.event /\ u.done = g.done
      <4>1. CASE g.done
        BY <3>10, <3>11, <3>12, <4>1, TakenWhenDone
      <4>2. CASE ~g.done
        <5>1. u = Naming(g, k.r.name)
          BY <3>9, <3>11, <3>12, <4>2, LineTypes, TakenEvent DEF torn
        <5> QED BY <3>12, <5>1 DEF Naming, Clients
      <4> QED BY <4>1, <4>2
    <3>b. StopsOf(u) \subseteq StopsOf(client) /\ u.done = client.done
      BY <3>a, <3>13 DEF StopsOf
    <3>14. HeldInOrder(x.r) /\ x.r.pending = <<>> /\ x.r.argumentsIn = NoEvent
      BY <3>3, <3>6, <3>9 DEF Rehydrators, HeldInOrder, NamedAsHeld
    <3> QED BY <3>0, <3>2, <3>13, <3>14, <3>b
  <2> QED BY <1>5, <2>1, <2>2, <2>a, <2>b, <2>3 DEF Parts
<1> HIDE DEF x
<1>7. /\ z \in Steps /\ z.out = x.out /\ KeptIn(z.r) /\ HeldInOrder(z.r)
      /\ SameHeld(z.r, x.r)
  <2>1. x.r \in Rehydrators /\ x.out \in Seq(AllLines)
    BY <1>6 DEF Steps
  <2>2. z.r = ArgumentsReported(x.r) /\ z.out = x.out /\ z \in Steps
    BY <1>6, <2>1, ReportedFields DEF Steps
  <2> HIDE DEF z
  <2>3. SameTemplate(z.r, x.r) /\ SameHeld(z.r, x.r)
    BY <2>1, <2>2, ReportedFields
  <2> QED BY <1>6, <2>2, <2>3 DEF KeptIn, HeldInOrder, NamedAsHeld, SameTemplate, SameHeld
<1>8. y = CloseBlock(z)
  BY DEF y, Flushed
<1> HIDE DEF z
<1>9. y \in Steps /\ HeldInOrder(y.r) /\ y.r \in Rehydrators
  <2>1. y \in Steps /\ HeldInOrder(y.r)
    BY <1>1, <1>7, <1>8, ClosedWhole, CloseFields
  <2> QED BY <2>1 DEF Steps
<1>a. ASSUME joined
      PROVE  StopsOf(d) \subseteq StopsOf(client) /\ d.done = client.done
  <2>1. z.out = <<StubLine>>
    BY <1>6, <1>7, <1>a
  <2>2. d = Taken(client, Joined(CloseBlock(z).out))
    BY <1>8, <1>a
  <2> HIDE DEF d
  <2> QED BY <1>1, <1>7, <2>1, <2>2, JoinedIsQuiet
<1>10. ASSUME ~joined
       PROVE  d.coherent /\ StopsOf(d) \subseteq StopsOf(client) /\ d.done = client.done
  <2>0. d = Taken(client, y.out)
    BY <1>10
  <2>1. CASE Loose(u)
    <3>1. Loose(Taken(client, z.out))
      BY <1>7, <2>1
    <3>2. Onward(d, Taken(client, z.out))
      <4>1. Onward(Taken(client, CloseBlock(z).out), Taken(client, z.out))
        BY <1>0, <1>1, <1>3, <1>7, <3>1, ClosedTaken
      <4> QED BY <1>8, <2>0, <4>1
    <3>3. Taken(client, z.out) = u
      BY <1>7
    <3> HIDE DEF d, u
    <3> QED BY <1>6, <3>1, <3>2, <3>3 DEF Onward, Loose
  <2>2. CASE u.coherent /\ x.r.argumentsIn = NoEvent /\ x.r.pending = <<>>
    <3>1. z.r.argumentsIn = NoEvent /\ z.r.pending = <<>>
      BY <1>7, <2>2 DEF SameHeld
    <3>2. y = z
      BY <1>8, <3>1 DEF CloseBlock, ArgumentsReleased, TailReleased
    <3>3. d = u
      BY <1>7, <2>0, <3>2
    <3> HIDE DEF d, u
    <3> QED BY <1>6, <2>2, <3>3
  <2> QED BY <1>6, <2>1, <2>2
<1>11. HeldInOrder(r)' /\ r'.done /\ r'.readErr = (source.kind = "failed") /\ r'.joined = joined
  <2> DEFINE p == ReportUsage(y.r)
  <2>1. p \in Rehydrators /\ SameTemplate(p, y.r) /\ SameHeld(p, y.r)
    BY <1>9, ReportUsageFields
  <2>2. r' = [p EXCEPT !.done = TRUE, !.readErr = Failed, !.joined = joined]
    BY <1>0
  <2> HIDE DEF p, joined
  <2>3. /\ r'.template = p.template /\ r'.templateName = p.templateName /\ r'.argumentsIn = p.argumentsIn
        /\ r'.argumentsName = p.argumentsName /\ r'.done /\ r'.readErr = Failed
        /\ r'.joined = joined
    BY <2>1, <2>2 DEF Rehydrators
  <2> QED BY <1>0, <1>9, <2>1, <2>3 DEF HeldInOrder, NamedAsHeld, SameTemplate, SameHeld, Messages, Failed
<1>12. Streams' = Streams /\ Messages' = Messages /\ Over' = Over
  BY <1>0 DEF Streams, Messages, Over
<1>b. joined => source.kind # "whole"
  BY <1>5
<1> HIDE DEF d, joined
<1>13. HeardInOrder'
  BY <1>0, <1>2, <1>3, <1>10, <1>b, <1>11, <1>12 DEF HeardInOrder
<1> QED BY <1>2, <1>a, <1>10, <1>13

\* Every step keeps the caller in order.
LEMMA HeardStep ==
  ASSUME Copying, HeardInOrder, [Next]_vars
  PROVE  HeardInOrder'
<1>0. /\ Typed /\ source \in Sources /\ scenario \in Scenarios /\ client \in Clients /\ r \in Rehydrators
      /\ out \in Seq(AllLines) /\ BlocksInOrder
  BY DEF Copying, Typed
<1>1. CASE \/ SendHead \/ SendPing \/ SendTail \/ SendBlockStop
           \/ \E kind \in {"text", "tool"} : SendBlockStart(kind)
           \/ \E piece \in scenario.pieces : SendText(piece)
           \/ \E fragment \in scenario.fragments : SendFragment(fragment)
  <2>1. PICK e : SendsEvent(e)
    BY <1>0, <1>1, SendIsOfEvent
  <2> QED BY <2>1, SentIsHeard
<1>2. ASSUME UNCHANGED <<scenario, r, out, client>>, source'.n = source.n, client.result = "open", ~Over,
             \/ Over' /\ (~Streams => feed' = <<>>)
             \/ ~Over' /\ Streams /\ feed = <<>> /\ ReadNext' = "done"
      PROVE  HeardInOrder'
  <2>1. Streams' = Streams /\ Chat' = Chat /\ Messages' = Messages
    BY <1>2 DEF Streams, Chat, Messages
  <2>2. Upcoming' = Upcoming
    BY <1>2 DEF Upcoming
  <2>3. CASE ~Streams
    BY <1>2, <2>1, <2>3 DEF HeardInOrder
  <2>4. CASE Streams
    <3>1. /\ HeldInOrder(r) /\ ~r.done /\ Upcoming.coherent /\ CallerInOrder(r, Upcoming)
          /\ client.named = Messages /\ client.coherent /\ ~r.joined
      BY <1>2, <2>4 DEF HeardInOrder
    <3>2. HeldInOrder(r)'
      BY <1>2, <2>1, <3>1 DEF HeldInOrder, NamedAsHeld
    <3>3. Loose(Upcoming)'
      BY <1>2, <2>1, <2>2, <3>1 DEF CallerInOrder, Loose
    <3>4. CASE Over'
      <4>1. CallerInOrder(r, Upcoming)'
        BY <3>3, <3>4 DEF CallerInOrder
      <4> QED BY <1>2, <2>1, <2>2, <2>4, <3>1, <3>2, <4>1 DEF HeardInOrder
    <3>5. CASE feed = <<>> /\ ReadNext' = "done"
      <4>1. Clean(Upcoming) /\ r.name = Unnamed /\ ~r.held
        BY <1>2, <3>1, <3>5 DEF CallerInOrder, CallerAt, ReadNext
      <4>2. CallerAt(r, Upcoming, ReadNext)'
        BY <1>2, <2>2, <3>5, <4>1 DEF CallerAt, Clean
      <4>3. CallerInOrder(r, Upcoming)'
        BY <3>3, <3>5, <4>2 DEF CallerInOrder
      <4> QED BY <1>2, <2>1, <2>2, <2>4, <3>1, <3>2, <4>3 DEF HeardInOrder
    <3> QED BY <1>2, <3>4, <3>5
  <2> QED BY <2>3, <2>4
<1>3. CASE SendDone
  <2>1. /\ UNCHANGED <<scenario, r, out, client>> /\ client.result = "open" /\ ~Over /\ Streams
        /\ feed = <<>> /\ feed' = <<DoneLine, Blank>> /\ source' = [source EXCEPT !.phase = "sentinel"]
    BY <1>3 DEF SendDone, Alive, Over, Streams
  <2>2. source'.n = source.n /\ ~Over'
    BY <1>0, <2>1 DEF Sources, Over
  <2>3. <<DoneLine, Blank>> # <<>> /\ Head(<<DoneLine, Blank>>) = DoneLine
    OBVIOUS
  <2>4. ReadNext' = "done"
    BY <2>1, <2>3, LineKinds DEF ReadNext
  <2> QED BY <1>2, <2>1, <2>2, <2>4
<1>4. ASSUME NEW how \in {"whole", "short", "failed"}, NEW left \in Remains, EndOfAnswer(how, left)
      PROVE  HeardInOrder'
  <2>1. /\ UNCHANGED <<scenario, r, out, client>> /\ client.result = "open" /\ ~Over
        /\ left # <<>> => feed # <<>>
        /\ feed' = left
        /\ source' = [source EXCEPT !.phase = "over", !.kind = how]
    BY <1>4 DEF EndOfAnswer, Alive, Over
  <2>2. source'.n = source.n /\ Over'
    BY <1>0, <2>1 DEF Sources, Over
  <2>3. ~Streams => feed' = <<>>
    BY <2>1 DEF HeardInOrder
  <2> QED BY <1>2, <2>1, <2>2, <2>3
<1>5. CASE ReadLine
  BY <1>5, ReadIsHeard
<1>6. CASE ReadEnd
  BY <1>6, EndIsHeard
<1>7. CASE Deliver
  <2>1. /\ client.result = "open" /\ out # <<>> /\ client' = Taken(client, out) /\ out' = <<>>
        /\ UNCHANGED <<scenario, source, feed, r>>
    BY <1>7 DEF Deliver
  <2>2. Streams /\ (Upcoming.coherent \/ r.joined) /\ (r.joined => r.done /\ source.kind # "whole")
    BY <2>1 DEF HeardInOrder
  <2>3. client' = Upcoming /\ client'.result = "open" /\ client'.named = client.named
    BY <1>0, <2>1, TakenResult DEF Upcoming
  <2>4. Upcoming' = Upcoming
    <3>1. Upcoming' = Taken(client', <<>>)
      BY <2>1 DEF Upcoming
    <3> QED BY <2>3, <3>1, TakenNone
  <2>5. /\ Streams' = Streams /\ Chat' = Chat /\ Messages' = Messages /\ Over' = Over
        /\ Observing' = Observing /\ ReadNext' = ReadNext
    BY <2>1 DEF Streams, Chat, Messages, Over, Observing, Known, ReadNext
  <2>6. /\ HeldInOrder(r) /\ (r.done => Over /\ r.readErr = (source.kind = "failed"))
        /\ client.named = Messages /\ (~r.done => CallerInOrder(r, Upcoming))
    BY <2>1, <2>2 DEF HeardInOrder
  <2>7. HeldInOrder(r)'
    BY <2>1, <2>5, <2>6 DEF HeldInOrder, NamedAsHeld
  <2>8. CallerInOrder(r, Upcoming) => CallerInOrder(r, Upcoming)'
    <3>1. (Loose(Upcoming) => Loose(Upcoming)') /\ (Clean(Upcoming) => Clean(Upcoming)')
          /\ (Midway(Upcoming) => Midway(Upcoming)')
      BY <2>1, <2>4, <2>5 DEF Loose, Clean, Midway
    <3>2. CallerAt(r, Upcoming, ReadNext) => CallerAt(r, Upcoming, ReadNext)'
      BY <2>1, <2>4, <2>5, <3>1 DEF CallerAt
    <3>3. ASSUME NameHeard(r, Upcoming, Head(feed).event)
          PROVE  NameHeard(r, Upcoming, Head(feed).event)'
      BY <2>1, <2>4, <2>5, <3>1, <3>3 DEF NameHeard
    <3> QED BY <2>1, <2>5, <3>1, <3>2, <3>3 DEF CallerInOrder
  <2> QED BY <2>1, <2>2, <2>3, <2>4, <2>5, <2>6, <2>7, <2>8 DEF HeardInOrder
<1>8. ASSUME Streams, UNCHANGED <<scenario, source, feed, out>>, r' = ReportUsage(r),
             NEW end \in {"end", "error", "hung up"}, client' = [client EXCEPT !.result = end],
             end = "end" => r.done /\ ~r.readErr
      PROVE  HeardInOrder'
  <2>1. SameReading(r', r) /\ SameTemplate(r', r) /\ SameHeld(r', r)
    BY <1>0, <1>8, ReportUsageFields
  <2>2. client'.result = end /\ client'.named = client.named /\ client'.coherent = client.coherent
    BY <1>0, <1>8 DEF Clients
  <2>3. Streams' = Streams /\ Messages' = Messages /\ Over' = Over
    BY <1>8 DEF Streams, Messages, Over
  <2>4. /\ HeldInOrder(r) /\ (r.done => Over /\ r.readErr = (source.kind = "failed"))
        /\ client.named = Messages /\ (client.coherent \/ r.joined)
        /\ r.joined => r.done /\ source.kind # "whole"
    BY <1>8 DEF HeardInOrder
  <2>5. HeldInOrder(r)'
    BY <1>8, <2>1, <2>3, <2>4 DEF HeldInOrder, NamedAsHeld, SameTemplate, SameHeld
  <2> QED BY <1>8, <2>1, <2>2, <2>3, <2>4, <2>5 DEF HeardInOrder, SameReading
<1>9. CASE Finish
  <2> DEFINE end == IF r.readErr THEN "error" ELSE "end"
  <2>1. /\ Streams /\ r.done /\ UNCHANGED <<scenario, source, feed, out>> /\ r' = ReportUsage(r)
        /\ client' = [client EXCEPT !.result = end]
    BY <1>9 DEF Finish
  <2>2. end \in {"end", "error", "hung up"} /\ (end = "end" => ~r.readErr)
    OBVIOUS
  <2> HIDE DEF end
  <2> QED BY <1>8, <2>1, <2>2
<1>10. CASE HangUp
  BY <1>8, <1>10 DEF HangUp
<1>11. CASE Buffered
  <2>1. /\ ~Streams /\ Over /\ UNCHANGED <<scenario, source, feed, out>>
        /\ IF source.kind # "whole" THEN client' = [client EXCEPT !.result = "error"]
           ELSE \E text, args : client' = [client EXCEPT !.result = "end", !.text = text, !.args = args]
    BY <1>11 DEF Buffered, Over
  <2>2. client'.named = client.named /\ client'.coherent = client.coherent
    BY <1>0, <2>1 DEF Clients
  <2>3. client'.result = "end" => source.kind = "whole"
    BY <1>0, <2>1 DEF Clients
  <2>4. Streams' = Streams /\ Messages' = Messages /\ Over' = Over
    BY <2>1 DEF Streams, Messages, Over
  <2>5. ~r.joined /\ ~r'.joined
    <3>1. ~r.joined
      BY <2>1 DEF HeardInOrder
    <3> DEFINE q == [r EXCEPT !.usage = <<<<1, 1>>>>]
    <3>2. r' = r \/ r' = CallsReported(q)
      BY <1>11 DEF Buffered
    <3>3. q \in Rehydrators /\ q.joined = r.joined /\ KeptIn(q)
      <4>1. <<<<1, 1>>>> \in Seq({0, 1} \X {0, 1})
        OBVIOUS
      <4>2. KeptIn(r)
        BY DEF Copying
      <4> QED BY <1>0, <4>1, <4>2 DEF Rehydrators, KeptIn
    <3> HIDE DEF q
    <3>4. CallsReported(q).joined = q.joined
      BY <1>0, <3>3, ScenarioFacts, CallsReportedTypes DEF Typed
    <3> QED BY <3>1, <3>2, <3>3, <3>4
  <2> QED BY <2>1, <2>2, <2>3, <2>4, <2>5 DEF HeardInOrder
<1>12. CASE UNCHANGED vars
  <2>1. UNCHANGED <<scenario, source, feed, r, out, client>>
    BY <1>12 DEF vars
  <2>2. /\ Streams' = Streams /\ Chat' = Chat /\ Messages' = Messages /\ Over' = Over
        /\ Observing' = Observing /\ ReadNext' = ReadNext /\ Upcoming' = Upcoming
    BY <2>1 DEF Streams, Chat, Messages, Over, Observing, Known, ReadNext, Upcoming
  <2> QED BY <2>1, <2>2 DEF HeardInOrder, HeldInOrder, NamedAsHeld, CallerInOrder, CallerAt, NameHeard,
                            Loose, Clean, Midway
<1> QED BY <1>1, <1>3, <1>4, <1>5, <1>6, <1>7, <1>9, <1>10, <1>11, <1>12 DEF Next

\* The second layer of the invariant holds in every state.
LEMMA HearingAlways == Spec => []HeardInOrder
<1>1. Init => HeardInOrder
  <2> SUFFICES ASSUME Init PROVE HeardInOrder
    OBVIOUS
  <2>1. /\ client.named = Messages /\ client.coherent /\ client.result = "open" /\ client.name = Unnamed
        /\ client.event = NoEvent /\ client.id = 0 /\ feed = <<>> /\ out = <<>>
    BY DEF Init, Messages
  <2>2. /\ r.template = NoEvent /\ r.argumentsIn = NoEvent /\ ~r.done /\ ~r.held /\ r.name = Unnamed
        /\ ~r.joined
    BY DEF Init, NewRehydrator
  <2>3. Upcoming = client
    BY <2>1, TakenNone DEF Upcoming
  <2>4. ReadNext = "none"
    BY <2>1 DEF ReadNext
  <2>5. CallerInOrder(r, Upcoming)
    BY <2>1, <2>2, <2>3, <2>4 DEF CallerInOrder, CallerAt, Clean, Loose
  <2>6. HeldInOrder(r)
    BY <2>2 DEF HeldInOrder, NamedAsHeld
  <2> QED BY <2>1, <2>2, <2>3, <2>5, <2>6 DEF HeardInOrder
<1>2. Copying /\ HeardInOrder /\ [Next]_vars => HeardInOrder'
  BY HeardStep
<1> QED BY <1>1, <1>2, CopyingAlways, PTL DEF Spec

\* Whatever is held back, released or rewritten on the way, every event the caller acts on
\* has its data, under the name it was sent with and with no id of an earlier event, unless
\* what flush released joined a line the connection had cut short, which no whole answer
\* has; and an answer that ended in an error does not end for the caller like a complete
\* one (streamRehydrator.rewrite, takeName, Read and flush).
THEOREM AnswersSound == Spec => []SoundEvents
<1>1. HeardInOrder => SoundEvents
  BY DEF HeardInOrder, SoundEvents, Over
<1> QED BY <1>1, HearingAlways, PTL

-----------------------------------------------------------------------------
(* The operator. *)

\* What is held is told of and let go of; or the telling stays as it is.
Released(p, q) ==
  LET whole == Restored(Known, q.arguments)
  IN  /\ ~Holding(p)
      /\ IF Holding(q) THEN ToldOf(p, q, whole, whole # q.arguments) ELSE SameTelling(p, q)

Undisturbed(p, q) == SameTelling(p, q) /\ Holding(p) = Holding(q)

Counted(p, q) ==
  /\ p.usageSent = q.usageSent /\ p.usage = q.usage
  /\ (q.model => q.input = 1) => (p.model => p.input = 1)

\* What an event does to the telling: on entering its block, and by its type.
EnteredTold(p, q, e) ==
  IF e.index = None \/ e.index = q.block THEN Undisturbed(p, q) /\ p.block = q.block
  ELSE Released(p, q) /\ p.block = e.index

WrittenTold(p, q, e) ==
  /\ p.block = q.block
  /\ e.type = "block_stop" => Released(p, q)
  /\ e.type = "json_delta" => /\ p.console = q.console /\ p.toolName = q.toolName
                              /\ p.arguments = q.arguments \o e.text /\ Holding(p)
  /\ e.type \in Starts => /\ p.console = q.console /\ p.toolName = ToolOf(e)
                          /\ p.arguments = q.arguments /\ Holding(p) = Holding(q)
  /\ e.type \notin Starts \union {"block_stop", "json_delta"} => Undisturbed(p, q)

EventTold(p, q, e) ==
  /\ Counted(p, q) /\ HeldByReader(p)
  /\ \E y \in Rehydrators : EnteredTold(y, q, e) /\ WrittenTold(p, y, e)

\* When a held call is let go of, all calls that arrived are told of.
LEMMA ReleasedIsTold ==
  ASSUME arrived \in Arrivals, NEW q \in Rehydrators, ToldRight(q, arrived), ToldOrHeld(q, arrived),
         NEW p, Released(p, q)
  PROVE  /\ ToldRight(p, arrived) /\ ToldOrHeld(p, arrived) /\ ~Holding(p)
         /\ Told(p) = arrived.tools /\ p.arguments = <<>> /\ Told(q) \subseteq Told(p)
<1>1. ~Holding(p) /\ q.console \in Seq(Calls)
  BY DEF Released, Rehydrators
<1>2. CASE ~Holding(q)
  <2>1. p.console = q.console /\ p.arguments = q.arguments
    BY <1>2 DEF Released, SameTelling
  <2>2. Told(p) = Told(q)
    BY <2>1 DEF Told
  <2> QED BY <1>1, <1>2, <2>1, <2>2 DEF ToldRight, ToldOrHeld
<1>3. CASE Holding(q)
  <2> DEFINE b == q.toolName
             whole == Restored(Known, q.arguments)
             differs == whole # q.arguments
  <2>1. /\ b \in arrived.tools /\ b \notin Told(q) /\ arrived.tools = Told(q) \union {b}
        /\ q.arguments = arrived.args[b]
    BY <1>3 DEF ToldOrHeld
  <2>2. /\ p.console = Append(q.console, [tool |-> b, args |-> whole, restored |-> differs])
        /\ p.arguments = <<>>
    BY <1>3 DEF Released, ToldOf
  <2>3. whole = Restored(Known, arrived.args[b]) /\ (differs <=> whole # arrived.args[b])
    BY <2>1
  <2> HIDE DEF b, whole, differs
  <2>4. ToldRight(p, arrived) /\ Told(p) = Told(q) \union {b}
    BY <1>1, <2>1, <2>2, <2>3, ToldOneMore
  <2> QED BY <1>1, <2>1, <2>2, <2>4 DEF ToldOrHeld
<1> QED BY <1>2, <1>3

\* When the telling stays as it is, so does what is told of.
LEMMA UndisturbedIsTold ==
  ASSUME NEW q, NEW p, Undisturbed(p, q)
  PROVE  /\ Told(p) = Told(q) /\ p.arguments = q.arguments /\ p.toolName = q.toolName
         /\ Holding(p) = Holding(q)
         /\ \A a : /\ ToldRight(q, a) => ToldRight(p, a)
                   /\ ToldOrHeld(q, a) => ToldOrHeld(p, a)
<1>1. p.console = q.console /\ p.arguments = q.arguments /\ p.toolName = q.toolName
      /\ Holding(p) = Holding(q)
  BY DEF Undisturbed, SameTelling
<1>2. Told(p) = Told(q)
  BY <1>1 DEF Told
<1> QED BY <1>1, <1>2 DEF ToldRight, ToldOrHeld

\* Noting a count leaves the telling as it is.
LEMMA NoteUsageCounts ==
  ASSUME NEW rr \in Rehydrators, NEW e \in Events
  PROVE  LET n == NoteUsage(rr, e)
         IN  n \in Rehydrators /\ Counted(n, rr) /\ Undisturbed(n, rr) /\ n.block = rr.block
             /\ n.argumentsIn = rr.argumentsIn /\ n.observing = rr.observing
<1>1. NoteUsage(rr, e) \in Rehydrators
  BY NoteUsageTypes
<1> QED BY <1>1 DEF NoteUsage, Rehydrators, Counted, Undisturbed, SameTelling, Holding

\* Closing a block tells of what was held, whoever reads.
LEMMA ClosingTells ==
  ASSUME Mapping(Known), NEW x \in Steps, ~x.r.observing
  PROVE  LET k == CloseBlock(x)
         IN  /\ k \in Steps /\ k.r \in Rehydrators /\ Released(k.r, x.r) /\ ~k.r.observing
             /\ k.r.block = x.r.block /\ SameCounts(k.r, x.r) /\ SameReading(k.r, x.r)
             /\ k.r.argumentsIn = NoEvent
<1> DEFINE k == CloseBlock(x)
           whole == Restored(Known, x.r.arguments)
<1>1. /\ k \in Steps
      /\ SameReading(k.r, x.r) /\ SameCounts(k.r, x.r)
      /\ k.r.argumentsIn = NoEvent
      /\ x.r.argumentsIn = NoEvent => SameTelling(k.r, x.r)
      /\ x.r.argumentsIn # NoEvent => ToldOf(k.r, x.r, whole, whole # x.r.arguments)
  BY CloseFields
<1>2. k.r \in Rehydrators
  BY <1>1 DEF Steps
<1> HIDE DEF k
<1>3. k.r.observing = x.r.observing /\ k.r.block = x.r.block
  BY <1>1 DEF SameReading
<1>4. Released(k.r, x.r)
  BY <1>1, <1>3 DEF Released, Holding
<1> QED BY <1>1, <1>2, <1>3, <1>4 DEF k

\* A session with nothing to put back tells of what it observed as it arrived.
LEMMA ReportingTells ==
  ASSUME NEW rr \in Rehydrators, DOMAIN Known = {}, rr.argumentsIn = NoEvent,
         \A i \in DOMAIN rr.arguments : rr.arguments[i] # "quote"
  PROVE  LET p == ArgumentsReported(rr)
         IN  p \in Rehydrators /\ Released(p, rr) /\ p.block = rr.block /\ SameCounts(p, rr)
             /\ p.argumentsIn = NoEvent /\ ~p.observing
<1>1. Restored(Known, rr.arguments) = rr.arguments
  BY RestoredOfNothing DEF Rehydrators
<1> DEFINE p == ArgumentsReported(rr)
<1>2. /\ p \in Rehydrators /\ ~p.observing
      /\ SameCounts(p, rr) /\ SameHeld(p, rr) /\ p.block = rr.block
      /\ ~rr.observing => SameTelling(p, rr)
      /\ rr.observing => ToldOf(p, rr, rr.arguments, FALSE)
  BY ReportedFields
<1> HIDE DEF p
<1>3. p.argumentsIn = NoEvent /\ ~Holding(p) /\ (Holding(rr) <=> rr.observing)
  BY <1>2 DEF SameHeld, Holding
<1>4. (rr.arguments # rr.arguments) = FALSE
  OBVIOUS
<1>5. Released(p, rr)
  BY <1>1, <1>2, <1>3, <1>4 DEF Released
<1> QED BY <1>2, <1>3, <1>5 DEF p

\* Telling of an event that is entered and then written.
LEMMA RewrittenTold ==
  ASSUME Mapping(Known), ~Observing, NEW x \in Steps, ~x.r.observing, NEW e \in Events
  PROVE  EventTold(EventRewritten(x, e).r, x.r, e)
<1> DEFINE n == Noted(x, e)
           k == CloseBlock(n)
           y == Entered(x, e)
           t == NameTaken(y)
           w == EventWritten(t, e, y.r.name)
<1>1. /\ n \in Steps /\ y \in Steps /\ t \in Steps /\ n.r = NoteUsage(x.r, e)
      /\ IF e.index = None \/ e.index = x.r.block THEN y = n
         ELSE y.r = [k.r EXCEPT !.block = e.index]
      /\ t.r = [y.r EXCEPT !.name = Unnamed]
      /\ EventRewritten(x, e) = w
  <2>1. n.r = NoteUsage(x.r, e)
    BY DEF Noted, Steps
  <2> QED BY <2>1, EnteredFields
<1>2. x.r \in Rehydrators /\ n.r \in Rehydrators /\ y.r \in Rehydrators /\ t.r \in Rehydrators
  BY <1>1 DEF Steps
<1> HIDE DEF n
<1>3. /\ Counted(n.r, x.r) /\ Undisturbed(n.r, x.r) /\ n.r.block = x.r.block /\ ~n.r.observing
  BY <1>1, <1>2, NoteUsageCounts
<1>4. /\ k \in Steps /\ k.r \in Rehydrators /\ Released(k.r, n.r) /\ ~k.r.observing
      /\ SameCounts(k.r, n.r)
  BY <1>1, <1>3, ClosingTells
<1> HIDE DEF k, y
\* Entered: t.r is the witness of EventTold.
<1>5. EnteredTold(t.r, x.r, e) /\ Counted(t.r, x.r) /\ ~t.r.observing
  <2>1. CASE e.index = None \/ e.index = x.r.block
    <3>1. t.r = [n.r EXCEPT !.name = Unnamed]
      BY <1>1, <2>1
    <3>2. /\ SameTelling(t.r, n.r) /\ SameCounts(t.r, n.r) /\ t.r.block = n.r.block
          /\ t.r.argumentsIn = n.r.argumentsIn /\ t.r.observing = n.r.observing
      BY <1>2, <3>1 DEF Rehydrators, SameTelling, SameCounts
    <3> HIDE DEF t
    <3>3. Undisturbed(t.r, x.r) /\ Counted(t.r, x.r)
      BY <1>3, <3>2 DEF Undisturbed, Holding, Counted, SameTelling, SameCounts
    <3> QED BY <1>3, <2>1, <3>2, <3>3 DEF EnteredTold
  <2>2. CASE ~(e.index = None \/ e.index = x.r.block)
    <3> DEFINE q == y.r
    <3>1. q = [k.r EXCEPT !.block = e.index]
      BY <1>1, <2>2
    <3>2. /\ SameTelling(q, k.r) /\ SameCounts(q, k.r) /\ q.block = e.index
          /\ q.argumentsIn = k.r.argumentsIn /\ q.observing = k.r.observing
      BY <1>4, <3>1 DEF Rehydrators, SameTelling, SameCounts
    <3>3. t.r = [q EXCEPT !.name = Unnamed] /\ q \in Rehydrators
      BY <1>1, <1>2
    <3> HIDE DEF q, t
    <3>4. /\ SameTelling(t.r, q) /\ SameCounts(t.r, q) /\ t.r.block = q.block
          /\ t.r.argumentsIn = q.argumentsIn /\ t.r.observing = q.observing
      BY <3>3 DEF Rehydrators, SameTelling, SameCounts
    <3>5. /\ SameTelling(t.r, k.r) /\ (Holding(t.r) <=> Holding(k.r)) /\ Counted(t.r, x.r)
      BY <1>3, <1>4, <3>2, <3>4 DEF SameTelling, Holding, SameCounts, Counted
    <3>6. Released(t.r, x.r)
      BY <1>3, <1>4, <3>5 DEF Released, Undisturbed, SameTelling, ToldOf
    <3> QED BY <1>4, <2>2, <3>2, <3>4, <3>5, <3>6 DEF EnteredTold
  <2> QED BY <2>1, <2>2
<1> HIDE DEF t, w
<1>6. WrittenAs(w, t, e, y.r.name) /\ y.r.name \in Names
  BY <1>1, <1>2, WrittenFields DEF w, Rehydrators
<1>7. WrittenTold(w.r, t.r, e) /\ SameCounts(w.r, t.r) /\ ~w.r.observing
  <2>1. CASE e.type = "block_stop"
    <3> DEFINE c == CloseBlock(t)
    <3>1. Released(c.r, t.r) /\ ~c.r.observing /\ c.r.block = t.r.block /\ SameCounts(c.r, t.r)
      BY <1>1, <1>5, ClosingTells
    <3>2. w.r = c.r
      BY <1>6, <2>1 DEF WrittenAs
    <3> HIDE DEF c
    <3> QED BY <2>1, <3>1, <3>2 DEF WrittenTold, Starts
  <2>2. CASE e.type = "json_delta"
    <3>1. FragmentAs(w, t, e, y.r.name)
      BY <1>1, <1>6, <2>2, FragmentFields DEF WrittenAs
    <3>2. w.r.argumentsIn # NoEvent
      BY <2>2, <3>1 DEF FragmentAs, Events, NoEvent, Event
    <3> QED BY <1>5, <2>2, <3>1, <3>2 DEF WrittenTold, FragmentAs, Holding, Starts
  <2>3. CASE e.type = "text_delta"
    <3>1. PICK combined \in Text : \E tail \in 0..Len(combined) : w = CutAt(t, e, y.r.name, combined, tail)
      BY <1>6, <2>3 DEF WrittenAs
    <3>2. PICK tail \in 0..Len(combined) : w = CutAt(t, e, y.r.name, combined, tail)
      BY <3>1
    <3>3. CutAs(w, t, e, y.r.name, combined, tail)
      BY <1>1, <1>6, <3>2, CutFields
    <3>4. SameReading(w.r, t.r) /\ SameCounts(w.r, t.r) /\ SameTelling(w.r, t.r)
          /\ w.r.argumentsIn = t.r.argumentsIn
      BY <3>3 DEF CutAs
    <3>5. Undisturbed(w.r, t.r)
      BY <3>4 DEF Undisturbed, Holding, SameReading
    <3> QED BY <1>5, <2>3, <3>4, <3>5 DEF WrittenTold, SameReading, Starts
  <2>4. CASE e.type \in Starts
    <3> DEFINE tool == ToolOf(e)
    <3>1. w.r = [t.r EXCEPT !.toolName = tool]
      BY <1>6, <2>4 DEF WrittenAs
    <3> HIDE DEF tool
    <3>2. /\ w.r.toolName = tool /\ w.r.console = t.r.console /\ w.r.arguments = t.r.arguments
          /\ w.r.block = t.r.block /\ w.r.observing = t.r.observing
          /\ w.r.argumentsIn = t.r.argumentsIn /\ SameCounts(w.r, t.r)
      BY <1>2, <3>1 DEF Rehydrators, SameCounts
    <3> QED BY <1>5, <2>4, <3>2 DEF WrittenTold, Holding, Starts, tool
  <2>5. CASE e.type \in {"none", "message_start", "ping", "message_delta"}
    <3>1. w.r = t.r
      BY <1>6, <2>5 DEF WrittenAs
    <3> QED BY <1>5, <2>5, <3>1 DEF WrittenTold, Undisturbed, SameTelling, SameCounts, Starts
  <2>6. e.type \in Kinds
    BY DEF Events
  <2> QED BY <2>1, <2>2, <2>3, <2>4, <2>5, <2>6 DEF Kinds, Starts
<1>8. Counted(w.r, x.r)
  BY <1>5, <1>7 DEF Counted, SameCounts
<1>9. HeldByReader(w.r)
  BY <1>7 DEF HeldByReader
<1> QED BY <1>1, <1>2, <1>5, <1>7, <1>8, <1>9 DEF EventTold

\* What an event that is only observed does to the telling.
LEMMA ObservedTold ==
  ASSUME Observing, NEW rr \in Rehydrators, HeldByReader(rr),
         \A i \in DOMAIN rr.arguments : rr.arguments[i] # "quote",
         NEW e \in Events
  PROVE  EventTold(Observed(rr, DataLine(e)), rr, e)
<1> DEFINE n == NoteUsage(rr, e)
           told == ArgumentsReported(n)
           y == IF e.index = None \/ e.index = n.block THEN n ELSE [told EXCEPT !.block = e.index]
           w == Observed(rr, DataLine(e))
           Quoteless(p) == \A i \in DOMAIN p.arguments : p.arguments[i] # "quote"
<1>0. rr.pending = <<>> /\ rr.argumentsIn = NoEvent /\ DOMAIN Known = {}
  BY DEF HeldByReader, Observing
<1>1. /\ n \in Rehydrators /\ Counted(n, rr) /\ Undisturbed(n, rr) /\ n.block = rr.block
      /\ n.argumentsIn = NoEvent /\ n.observing = rr.observing
  BY <1>0, NoteUsageCounts
<1>2. w = CASE e.type = "block_stop" -> ArgumentsReported(y)
            [] e.type = "json_delta" -> [y EXCEPT !.arguments = @ \o e.text, !.observing = TRUE]
            [] e.type \in {"text_start", "tool_start"} -> [y EXCEPT !.toolName = ToolOf(e)]
            [] OTHER -> y
  <2>1. DataLine(e).event = e /\ DataLine(e).kind = "data"
    BY DEF DataLine, Line
  <2> HIDE DEF n, told
  <2> QED BY <2>1 DEF Observed, n, told
<1> HIDE DEF n, w
<1>3. Quoteless(n)
  BY <1>1 DEF Undisturbed, SameTelling
<1>4. /\ told \in Rehydrators /\ Released(told, n) /\ told.block = n.block /\ SameCounts(told, n)
      /\ told.argumentsIn = NoEvent /\ ~told.observing
  BY <1>0, <1>1, <1>3, ReportingTells
<1>5. Quoteless(told)
  BY <1>3, <1>4 DEF Released, ToldOf, SameTelling
<1> HIDE DEF told
<1>6. y \in Rehydrators /\ EnteredTold(y, rr, e) /\ Counted(y, rr) /\ y.argumentsIn = NoEvent /\ Quoteless(y)
  <2>1. CASE e.index = None \/ e.index = rr.block
    <3>1. y = n
      BY <1>1, <2>1
    <3> HIDE DEF y
    <3> QED BY <1>1, <1>3, <2>1, <3>1 DEF EnteredTold
  <2>2. CASE ~(e.index = None \/ e.index = rr.block)
    <3>1. y = [told EXCEPT !.block = e.index]
      BY <1>1, <2>2
    <3> HIDE DEF y
    <3>0. e.index \in Places
      BY DEF Events
    <3>2. y \in Rehydrators /\ y.block = e.index
      BY <1>4, <3>0, <3>1 DEF Rehydrators
    <3>3. /\ SameTelling(y, told) /\ SameCounts(y, told)
          /\ y.argumentsIn = told.argumentsIn /\ y.observing = told.observing
      BY <1>4, <3>1 DEF Rehydrators, SameTelling, SameCounts
    <3>4. Released(y, rr) /\ Counted(y, rr) /\ Quoteless(y)
      <4>1. Released(y, rr)
        BY <1>1, <1>4, <3>3 DEF Released, Undisturbed, SameTelling, ToldOf, Holding
      <4>2. Counted(y, rr)
        BY <1>1, <1>4, <3>3 DEF SameCounts, Counted
      <4>3. Quoteless(y)
        BY <1>5, <3>3 DEF SameTelling
      <4> QED BY <4>1, <4>2, <4>3
    <3> QED BY <1>4, <2>2, <3>2, <3>3, <3>4 DEF EnteredTold
  <2> QED BY <2>1, <2>2
<1> HIDE DEF y
<1>7. WrittenTold(w, y, e) /\ SameCounts(w, y)
  <2>1. CASE e.type = "block_stop"
    <3>1. w = ArgumentsReported(y)
      BY <1>2, <2>1
    <3>2. Released(w, y) /\ w.block = y.block /\ SameCounts(w, y)
      BY <1>0, <1>6, <3>1, ReportingTells
    <3> QED BY <2>1, <3>2 DEF WrittenTold, Starts
  <2>2. CASE e.type = "json_delta"
    <3> DEFINE args == y.arguments \o e.text
    <3>1. w = [y EXCEPT !.arguments = args, !.observing = TRUE]
      BY <1>2, <2>2
    <3> HIDE DEF args
    <3>2. /\ w.arguments = args /\ w.observing /\ w.console = y.console /\ w.toolName = y.toolName
          /\ w.block = y.block /\ SameCounts(w, y)
      BY <1>6, <3>1 DEF Rehydrators, SameCounts
    <3> QED BY <2>2, <3>2 DEF WrittenTold, Holding, Starts, args
  <2>3. CASE e.type \in Starts
    <3> DEFINE tool == ToolOf(e)
    <3>1. w = [y EXCEPT !.toolName = tool]
      BY <1>2, <2>3 DEF Starts
    <3> HIDE DEF tool
    <3>2. /\ w.toolName = tool /\ w.console = y.console /\ w.arguments = y.arguments
          /\ w.block = y.block /\ w.observing = y.observing
          /\ w.argumentsIn = y.argumentsIn /\ SameCounts(w, y)
      BY <1>6, <3>1 DEF Rehydrators, SameCounts
    <3> QED BY <2>3, <3>2 DEF WrittenTold, Holding, Starts, tool
  <2>4. CASE e.type \notin Starts \union {"block_stop", "json_delta"}
    <3>1. w = y
      BY <1>2, <2>4 DEF Starts
    <3> QED BY <2>4, <3>1 DEF WrittenTold, Undisturbed, SameTelling, SameCounts, Starts
  <2> QED BY <2>1, <2>2, <2>3, <2>4
<1>8. Counted(w, rr)
  BY <1>6, <1>7 DEF Counted, SameCounts
<1>9. HeldByReader(w)
  <2>1. DataLine(e) \in AllLines
    BY LineTypes
  <2>2. SameHeld(w, rr)
    BY <2>1, ObservedKeeps DEF w
  <2> QED BY <1>0, <2>2 DEF HeldByReader, SameHeld, Observing
<1>10. EventTold(w, rr, e)
  BY <1>6, <1>7, <1>8, <1>9 DEF EventTold
<1> QED BY <1>10 DEF w

\* What was told of stays right when more arrives for other blocks.
LEMMA ToldElsewhere ==
  ASSUME NEW p, NEW a, NEW b, ToldRight(p, a), a.tools \subseteq b.tools,
         \A c \in Told(p) : b.args[c] = a.args[c]
  PROVE  ToldRight(p, b)
<1>1. \A i \in DOMAIN p.console : p.console[i].tool \in Told(p)
  BY DEF Told
<1>2. \A i \in DOMAIN p.console : b.args[p.console[i].tool] = a.args[p.console[i].tool]
  BY <1>1
<1> QED BY <1>2 DEF ToldRight

\* An event leaves the telling in order, with what it brings.
LEMMA EventIsTold ==
  ASSUME scenario \in Scenarios, source \in Sources, arrived \in Arrivals, BlocksInOrder, ~Over,
         Chat \/ Messages, NEW e \in Events, Latest(e), NEW n \in Nat, NEW m \in Nat, n <= m,
         Messages => n = (IF e.type \in Starts THEN source.next - 1 ELSE source.next),
         Messages => m = source.next,
         NEW q \in Rehydrators, ReportedAt(q, arrived, n, e.type \in Starts),
         NEW w \in Rehydrators, EventTold(w, q, e), NEW a, BroughtBy(a, e)
  PROVE  /\ ReportedAt(w, a, m, FALSE) /\ Told(q) \subseteq Told(w)
         /\ e.type = "json_delta" => a.tools = arrived.tools \union {source.open}
         /\ e.type # "json_delta" => a.tools = arrived.tools
         /\ e.type = "block_stop" => Slot(e) < m /\ source.open = None /\ a.tools \subseteq Told(w)
<1> DEFINE Right(p, b) == ToldRight(p, b) /\ ToldOrHeld(p, b)
           start == e.type \in Starts
<1>1. PICK y \in Rehydrators : EnteredTold(y, q, e) /\ WrittenTold(w, y, e)
  BY DEF EventTold
<1>2. /\ Right(q, arrived) /\ ToolsArrived(arrived, n) /\ ToolKnown(q, start)
      /\ q.block # None => q.block < n
      /\ HeldByReader(w)
  BY DEF ReportedAt, EventTold
<1>3. /\ source.open \in Places /\ source.next \in Nat /\ q.block \in Places /\ e.index \in Places
      /\ arrived.tools \in SUBSET Indices
  BY BoundsAssumption DEF Sources, Begun, Rehydrators, Events, Arrivals
<1>4. Indices \in SUBSET Nat /\ None \notin Nat /\ ~(Chat /\ Messages)
  BY PlacesFacts DEF None, Chat, Messages
<1>5. source.open # None => source.open \in Nat /\ source.open = source.next - 1
  BY <1>3, <1>4 DEF BlocksInOrder, Places
<1>a. \A c \in Places : c # None /\ c < n => c < m
  <2>1. \A i \in Nat : i < n => i < m
    OBVIOUS
  <2> QED BY <1>4, <2>1 DEF Places
<1>6. \A c \in Indices : c # Slot(e) => a.args[c] = arrived.args[c]
  BY DEF BroughtBy
<1>7. ASSUME e.type # "json_delta"
      PROVE  /\ a.tools = arrived.tools /\ \A c \in Indices : a.args[c] = arrived.args[c]
             /\ ToolsArrived(a, m)
             /\ \A p : Right(p, arrived) => Right(p, a)
  <2>1. a.tools = arrived.tools /\ \A c \in Indices : a.args[c] = arrived.args[c]
    BY <1>6, <1>7 DEF BroughtBy
  <2>2. ToolsArrived(a, m)
    <3>1. \A c \in arrived.tools : c < m
      <4>1. \A c \in arrived.tools : c \in Places /\ c # None
        BY <1>3, PlacesFacts DEF Places
      <4> QED BY <1>2, <1>a, <4>1 DEF ToolsArrived
    <3> QED BY <1>2, <2>1, <3>1 DEF ToolsArrived
  <2>3. ASSUME NEW p, Right(p, arrived) PROVE Right(p, a)
    <3>1. Told(p) \subseteq Indices
      BY <1>3, <2>3 DEF ToldRight
    <3>2. ToldRight(p, a)
      BY <2>1, <2>3, <3>1, ToldElsewhere
    <3>3. ToldOrHeld(p, a)
      BY <1>3, <2>1, <2>3 DEF ToldOrHeld
    <3> QED BY <3>2, <3>3
  <2> QED BY <2>1, <2>2, <2>3
<1> HIDE DEF Right
<1>8. ASSUME NEW p, NEW s \in Rehydrators, Right(s, arrived), Released(p, s)
      PROVE  /\ Right(p, arrived) /\ ~Holding(p) /\ Told(p) = arrived.tools /\ p.arguments = <<>>
             /\ Told(s) \subseteq Told(p)
  BY <1>8, ReleasedIsTold DEF Right
<1>9. ASSUME NEW p, NEW s, Right(s, arrived), Undisturbed(p, s)
      PROVE  Right(p, arrived) /\ Told(p) = Told(s) /\ p.toolName = s.toolName
  BY <1>9, UndisturbedIsTold DEF Right
<1>10. CASE start
  <2>1. Messages /\ source.open # None /\ e.index = source.open
        /\ source.kind = (IF e.type = "tool_start" THEN "tool" ELSE "text")
    BY <1>10 DEF Latest, Starts
  <2>2. e.index \in Nat /\ e.index = n /\ n < m
    BY <1>5, <1>10, <2>1
  <2>3. e.index # None /\ e.index # q.block
    BY <1>2, <1>4, <2>2
  <2>4. Released(y, q) /\ y.block = e.index
    BY <1>1, <2>3 DEF EnteredTold
  <2>5. /\ w.console = y.console /\ w.toolName = ToolOf(e) /\ w.arguments = y.arguments
        /\ Holding(w) = Holding(y) /\ w.block = y.block
    BY <1>1, <1>10 DEF WrittenTold
  <2>6. /\ Right(y, arrived) /\ ~Holding(y) /\ Told(y) = arrived.tools /\ Told(q) \subseteq Told(y)
    BY <1>2, <1>8, <2>4
  <2>7. Right(w, arrived) /\ Told(w) = Told(y)
    <3>1. Told(w) = Told(y)
      BY <2>5 DEF Told
    <3>2. ToldRight(w, arrived)
      BY <2>5, <2>6, <3>1 DEF Right, ToldRight
    <3>3. ToldOrHeld(w, arrived)
      BY <2>5, <2>6, <3>1 DEF Right, ToldOrHeld
    <3> QED BY <3>1, <3>2, <3>3 DEF Right
  <2>8. ToolKnown(w, FALSE)
    <3>1. source.open \notin Told(w)
      BY <1>2, <2>1, <2>2, <2>6, <2>7 DEF ToolsArrived
    <3>2. w.toolName = (IF source.kind = "tool" THEN source.open ELSE None)
      BY <2>1, <2>5 DEF ToolOf
    <3> QED BY <2>1, <2>4, <2>5, <3>1, <3>2 DEF ToolKnown
  <2>9. e.type \notin {"json_delta", "block_stop"}
    BY <1>10 DEF Starts
  <2> QED BY <1>2, <1>7, <2>2, <2>4, <2>5, <2>6, <2>7, <2>8, <2>9 DEF ReportedAt, Right
<1>11. CASE e.type = "block_stop"
  <2>1. Messages /\ source.open = None /\ source.next # 0 /\ e.index = source.next - 1 /\ ~start
    BY <1>11 DEF Latest, Starts
  <2>2. e.index \in Nat /\ e.index < m /\ e.index # None /\ Slot(e) = e.index
    BY <1>3, <1>4, <2>1 DEF Slot
  <2>3. Right(y, arrived) /\ Told(q) \subseteq Told(y) /\ y.block \in {q.block, e.index}
    BY <1>1, <1>2, <1>8, <1>9 DEF EnteredTold
  <2>4. Released(w, y) /\ w.block = y.block
    BY <1>1, <1>11 DEF WrittenTold
  <2>5. Right(w, arrived) /\ Told(w) = arrived.tools /\ Told(y) \subseteq Told(w)
    BY <1>8, <2>3, <2>4
  <2>6. ToolKnown(w, FALSE)
    BY <2>1 DEF ToolKnown
  <2>7. w.block # None => w.block < m
    BY <1>2, <1>3, <1>a, <2>2, <2>3, <2>4
  <2> QED BY <1>2, <1>7, <1>11, <2>1, <2>2, <2>3, <2>5, <2>6, <2>7 DEF ReportedAt, Right
<1>12. CASE e.type = "json_delta"
  <2> DEFINE b == source.open
  <2>1. Messages /\ b # None /\ e.index = b /\ source.kind = "tool" /\ ~start
        /\ e.text \in scenario.fragments
    BY <1>12 DEF Latest, Starts
  <2>2. b \in Indices /\ b < n /\ Slot(e) = b /\ n = m
    <3>1. b \in Indices
      BY <1>3, <2>1 DEF Places
    <3>2. b < n /\ n = m
      BY <1>3, <1>5, <2>1
    <3> QED BY <2>1, <3>1, <3>2 DEF Slot
  <2>3. q.block = b /\ b \notin Told(q) /\ q.toolName = b
    BY <1>2, <2>1 DEF ToolKnown
  <2>4. Undisturbed(y, q) /\ y.block = q.block
    BY <1>1, <2>1, <2>3 DEF EnteredTold
  <2>5. Right(y, arrived) /\ Told(y) = Told(q) /\ y.toolName = b
    BY <1>2, <1>9, <2>3, <2>4
  <2>6. /\ w.console = y.console /\ w.toolName = y.toolName /\ Holding(w) /\ w.block = b
        /\ w.arguments = y.arguments \o e.text
    BY <1>1, <1>12, <2>3, <2>4 DEF WrittenTold
  <2>7. Told(w) = Told(q)
    BY <2>5, <2>6 DEF Told
  <2>8. /\ a.tools = arrived.tools \union {b} /\ a.args[b] = arrived.args[b] \o e.text
        /\ \A c \in Indices : c # b => a.args[c] = arrived.args[c]
    BY <1>12, <2>2 DEF BroughtBy
  <2> HIDE DEF b
  <2>9. arrived.tools \subseteq Told(q) \union {b} /\ y.arguments = arrived.args[b]
    <3>1. CASE Holding(y)
      BY <2>5, <3>1 DEF Right, ToldOrHeld
    <3>2. CASE ~Holding(y)
      <4>1. arrived.tools = Told(q) /\ y.arguments = <<>>
        BY <2>5, <3>2 DEF Right, ToldOrHeld
      <4>2. arrived.args[b] = <<>>
        BY <1>2, <2>2, <2>3, <4>1 DEF ToolsArrived
      <4> QED BY <4>1, <4>2
    <3> QED BY <3>1, <3>2
  <2>10. Told(q) \subseteq arrived.tools
    BY <1>2 DEF Right, ToldRight
  <2>11. ToldOrHeld(w, a)
    <3>1. a.tools = Told(w) \union {b} /\ b \in a.tools \ Told(w)
      BY <2>3, <2>7, <2>8, <2>9, <2>10
    <3>2. w.arguments = a.args[b] /\ w.toolName = b
      BY <2>5, <2>6, <2>8, <2>9
    <3> QED BY <2>6, <3>1, <3>2 DEF ToldOrHeld
  <2>12. ToldRight(w, a)
    <3>1. ToldRight(w, arrived)
      BY <2>5, <2>6, <2>7 DEF Right, ToldRight
    <3>2. \A c \in Told(w) : a.args[c] = arrived.args[c]
      BY <1>3, <2>3, <2>7, <2>8, <2>10
    <3>3. arrived.tools \subseteq a.tools
      BY <2>8
    <3> QED BY <3>1, <3>2, <3>3, ToldElsewhere
  <2>13. ToolsArrived(a, m)
    <3>1. \A c \in a.tools : c < m
      BY <1>2, <2>2, <2>8 DEF ToolsArrived
    <3>2. \A c \in Indices : c \notin a.tools => a.args[c] = <<>>
      BY <1>2, <2>8 DEF ToolsArrived
    <3>3. ~Chat
      BY <1>4, <2>1
    <3>4. \A i \in DOMAIN a.args[b] : a.args[b][i] # "quote"
      <4> DEFINE s == arrived.args[b]
                 f == e.text
      <4>1. s \in Text /\ f \in Text
        BY <2>2 DEF Arrivals, Events
      <4>2. \A i \in DOMAIN s : s[i] # "quote"
        BY <1>2, <2>2 DEF ToolsArrived
      <4>3. \A i \in DOMAIN f : f[i] # "quote"
        BY <2>1, ScenarioFacts
      <4> HIDE DEF s, f
      <4>4. \A i \in DOMAIN (s \o f) : (s \o f)[i] # "quote"
        <5>1. /\ Len(s) \in Nat /\ Len(f) \in Nat /\ DOMAIN s = 1..Len(s) /\ DOMAIN f = 1..Len(f)
              /\ DOMAIN (s \o f) = 1..(Len(s) + Len(f))
              /\ \A i \in 1..(Len(s) + Len(f)) :
                   (s \o f)[i] = IF i <= Len(s) THEN s[i] ELSE f[i - Len(s)]
          BY <4>1 DEF Text
        <5> DEFINE t == s \o f
        <5> HIDE DEF t
        <5>2. ASSUME NEW i \in 1..(Len(s) + Len(f)) PROVE t[i] # "quote"
          <6>1. CASE i <= Len(s)
            BY <4>2, <5>1, <6>1 DEF t
          <6>2. CASE ~(i <= Len(s))
            <7>1. i - Len(s) \in 1..Len(f)
              BY <5>1, <6>2
            <7> QED BY <4>3, <5>1, <6>2, <7>1 DEF t
          <6> QED BY <6>1, <6>2
        <5> QED BY <5>1, <5>2 DEF t
      <4> QED BY <2>8, <4>4 DEF s, f
    <3>5. \A c \in Indices : \A i \in DOMAIN a.args[c] : a.args[c][i] # "quote"
      BY <1>2, <2>8, <3>4 DEF ToolsArrived
    <3> QED BY <3>1, <3>2, <3>3, <3>5 DEF ToolsArrived
  <2>14. ToolKnown(w, FALSE)
    BY <2>1, <2>3, <2>5, <2>6, <2>7 DEF ToolKnown, b
  <2>15. w.block # None => w.block < m
    BY <2>2, <2>6
  <2> QED BY <1>2, <1>12, <2>7, <2>8, <2>11, <2>12, <2>13, <2>14, <2>15 DEF ReportedAt, b
<1>13. CASE e.type \notin Starts \union {"block_stop", "json_delta"}
  <2>1. e.index = None \/ e.index = q.block
    <3>1. CASE e.type = "text_delta"
      <4>1. e.index = source.open
        BY <3>1 DEF Latest
      <4>2. CASE source.open = None
        BY <4>1, <4>2
      <4>3. CASE source.open # None
        <5>1. Messages
          BY <4>3 DEF BlocksInOrder
        <5> QED BY <1>2, <1>13, <4>1, <4>3, <5>1 DEF ToolKnown
      <4> QED BY <4>2, <4>3
    <3>2. CASE e.type # "text_delta"
      <4>1. e.type \in {"message_start", "ping", "message_delta"}
        BY <1>13, <3>2 DEF Latest, Events, Kinds, Starts
      <4> QED BY <4>1 DEF Latest
    <3> QED BY <3>1, <3>2
  <2>2. Undisturbed(y, q) /\ y.block = q.block
    BY <1>1, <2>1 DEF EnteredTold
  <2>3. Undisturbed(w, y) /\ w.block = y.block
    BY <1>1, <1>13 DEF WrittenTold
  <2>4. Right(y, arrived) /\ Told(y) = Told(q) /\ y.toolName = q.toolName
    BY <1>2, <1>9, <2>2
  <2>5. Right(w, arrived) /\ Told(w) = Told(q) /\ w.toolName = q.toolName /\ w.block = q.block
    BY <1>9, <2>2, <2>3, <2>4
  <2>6. ToolKnown(w, FALSE)
    BY <1>2, <1>13, <2>5 DEF ToolKnown
  <2>7. w.block # None => w.block < m
    BY <1>2, <1>3, <1>a, <2>5
  <2> QED BY <1>2, <1>7, <1>13, <2>5, <2>6, <2>7 DEF ReportedAt, Right
<1> QED BY <1>10, <1>11, <1>12, <1>13

\* What is told of, whoever reads, when nothing may be held any longer.
LEMMA FlushingTells ==
  ASSUME Mapping(Known), NEW x \in Steps, HeldByReader(x.r),
         \A i \in DOMAIN x.r.arguments : x.r.arguments[i] # "quote"
  PROVE  LET y == Flushed(x)
         IN  y \in Steps /\ Released(y.r, x.r) /\ SameCounts(y.r, x.r) /\ HeldByReader(y.r)
             /\ y.r.block = x.r.block
<1> DEFINE p == ArgumentsReported(x.r)
           z == [x EXCEPT !.r = p]
           y == CloseBlock(z)
<1>0. x.r \in Rehydrators /\ x.out \in Seq(AllLines) /\ x = [r |-> x.r, out |-> x.out]
  BY DEF Steps
<1>1. p \in Rehydrators /\ ~p.observing /\ SameCounts(p, x.r) /\ p.block = x.r.block
      /\ p.pending = x.r.pending /\ p.argumentsIn = x.r.argumentsIn
  BY <1>0, ReportedFields DEF SameHeld
<1>2. CASE Observing
  <2>1. DOMAIN Known = {} /\ x.r.argumentsIn = NoEvent /\ x.r.pending = <<>>
    BY <1>2 DEF HeldByReader, Observing
  <2>2. Released(p, x.r)
    BY <1>0, <2>1, ReportingTells
  <2> HIDE DEF p
  <2>3. z \in Steps /\ z.r = p
    BY <1>0, <1>1 DEF Steps
  <2> HIDE DEF z
  <2>4. /\ y \in Steps /\ Released(y.r, p) /\ y.r.block = p.block /\ SameCounts(y.r, p)
        /\ y.r.argumentsIn = NoEvent
    BY <1>1, <2>3, ClosingTells
  <2>5. y.r.pending = <<>>
    BY <2>3, CloseFields
  <2> HIDE DEF y
  <2>6. Released(y.r, x.r)
    BY <2>2, <2>4 DEF Released, SameTelling, ToldOf
  <2>7. SameCounts(y.r, x.r) /\ HeldByReader(y.r)
    BY <1>1, <1>2, <2>4, <2>5 DEF SameCounts, HeldByReader
  <2> QED BY <1>1, <2>4, <2>6, <2>7 DEF y, z, p, Flushed
<1>3. CASE ~Observing
  <2>1. ~x.r.observing
    BY <1>3 DEF HeldByReader
  <2>2. p = x.r
    BY <2>1 DEF ArgumentsReported
  <2>3. z = x
    BY <1>0, <2>2
  <2>4. Flushed(x) = CloseBlock(x)
    BY <2>3 DEF Flushed
  <2> HIDE DEF p, z, y
  <2> DEFINE k == CloseBlock(x)
  <2>5. /\ k \in Steps /\ Released(k.r, x.r) /\ ~k.r.observing /\ k.r.block = x.r.block
        /\ SameCounts(k.r, x.r)
    BY <2>1, ClosingTells
  <2> HIDE DEF k
  <2>6. HeldByReader(k.r)
    BY <1>3, <2>5 DEF HeldByReader
  <2> QED BY <2>4, <2>5, <2>6 DEF k
<1> QED BY <1>2, <1>3

\* A line that carries no event tells of nothing, or of what is held.
QuietlyRead(p, q, line) ==
  /\ p.block = q.block /\ Counted(p, q) /\ HeldByReader(p)
  /\ Undisturbed(p, q) \/ (Released(p, q) /\ line.kind \in {"done", "torn"})

\* A line without an event tells of nothing new, or of all that is held.
LEMMA OtherTold ==
  ASSUME Mapping(Known), NEW rr \in Rehydrators, HeldByReader(rr), NEW line,
         line \in {Blank, DoneLine} \union Parts
           \/ (\E n : line = IdLine(n)) \/ (\E name : line = NameLine(name))
  PROVE  QuietlyRead(Read([r |-> rr, out |-> <<>>], line).r, rr, line)
<1> DEFINE x == [r |-> rr, out |-> <<>>]
           w == Read(x, line)
<1>0. x \in Steps /\ x.r = rr /\ x.out = <<>>
  <2>1. <<>> \in Seq(AllLines)
    OBVIOUS
  <2> QED BY <2>1 DEF Steps
<1>1. QuietlyRead(rr, rr, line)
  BY DEF QuietlyRead, Counted, Undisturbed, SameTelling
<1>2. CASE Observing
  <2>1. line.kind # "data" /\ line.event.type = "none"
    BY LineKinds DEF Blank, DoneLine, Parts, StubLine, TornLine, CutLine, IdLine, NameLine, Line,
       NoEvent, Event
  <2>2. Observed(rr, line) = rr
    <3>1. line.event.type \notin {"block_stop", "json_delta", "text_start", "tool_start"}
      BY <2>1
    <3> QED BY <2>1, <3>1 DEF Observed
  <2>3. w = [r |-> rr, out |-> Append(<<>>, line)]
    BY <1>2, <2>2 DEF Read, Observing
  <2>4. w.r = rr
    BY <2>3
  <2> QED BY <1>1, <2>4
<1>3. CASE ~Observing
  <2>1. w = Rewritten(x, line)
    BY <1>3 DEF Read, Observing
  <2> HIDE DEF w, x
  <2>2. ~rr.observing
    BY <1>3 DEF HeldByReader
  <2>3. ASSUME NEW p, SameTelling(p, rr), SameCounts(p, rr), p.block = rr.block,
               p.observing = rr.observing, p.argumentsIn = rr.argumentsIn
        PROVE  QuietlyRead(p, rr, line)
    BY <1>3, <2>2, <2>3 DEF QuietlyRead, Counted, Undisturbed, SameCounts, Holding, HeldByReader
  <2>4. CASE line = CutLine \/ \E name : line = NameLine(name)
    <3>1. PICK name : line = NameLine(name) \/ (line = CutLine /\ name = Unnamed)
      BY <2>4
    <3>2. w.r = [rr EXCEPT !.name = name]
      <4>1. CASE line = NameLine(name)
        BY <1>0, <2>1, <4>1, RewrittenOther
      <4>2. CASE line = CutLine /\ name = Unnamed
        BY <1>0, <2>1, <4>2, RewrittenOther
      <4> QED BY <3>1, <4>1, <4>2
    <3>3. QuietlyRead([rr EXCEPT !.name = name], rr, line)
      BY <2>3 DEF Rehydrators, SameTelling, SameCounts
    <3> QED BY <3>2, <3>3 DEF w, x
  <2>5. CASE line \in {Blank, StubLine} \/ \E n : line = IdLine(n)
    <3>1. w.r = rr \/ w.r = [rr EXCEPT !.held = FALSE]
      <4>1. CASE line = Blank
        BY <1>0, <2>1, <4>1, RewrittenOther
      <4>2. ASSUME NEW n, line = IdLine(n) PROVE w.r = [rr EXCEPT !.held = FALSE]
        BY <1>0, <2>1, <4>2, RewrittenOther
      <4>3. CASE line = StubLine
        BY <1>0, <2>1, <4>3, RewrittenOther
      <4> QED BY <2>5, <4>1, <4>2, <4>3
    <3>2. QuietlyRead([rr EXCEPT !.held = FALSE], rr, line)
      BY <2>3 DEF Rehydrators, SameTelling, SameCounts
    <3> QED BY <1>1, <3>1, <3>2 DEF w, x
  <2>6. CASE line \in {DoneLine, TornLine}
    <3> DEFINE z == [x EXCEPT !.r.held = FALSE]
               k == CloseBlock(z)
    <3>1. w.r = [k.r EXCEPT !.name = Unnamed] /\ z \in Steps
      BY <1>0, <2>1, <2>6, RewrittenUnreadable
    <3>2. z.r = [rr EXCEPT !.held = FALSE]
      BY <1>0 DEF Steps
    <3> HIDE DEF z
    <3>3. /\ SameTelling(z.r, rr) /\ SameCounts(z.r, rr) /\ z.r.block = rr.block
          /\ z.r.observing = rr.observing /\ z.r.argumentsIn = rr.argumentsIn
      BY <3>2 DEF Rehydrators, SameTelling, SameCounts
    <3>4. /\ k.r \in Rehydrators /\ Released(k.r, z.r) /\ ~k.r.observing
          /\ k.r.block = z.r.block /\ SameCounts(k.r, z.r)
      BY <2>2, <3>1, <3>3, ClosingTells
    <3> HIDE DEF k
    <3>5. /\ SameTelling(w.r, k.r) /\ SameCounts(w.r, k.r) /\ w.r.block = k.r.block
          /\ w.r.observing = k.r.observing /\ w.r.argumentsIn = k.r.argumentsIn
      BY <3>1, <3>4 DEF Rehydrators, SameTelling, SameCounts
    <3>6. Released(w.r, rr)
      BY <3>3, <3>4, <3>5 DEF Released, SameTelling, ToldOf, Holding
    <3>7. Counted(w.r, rr)
      BY <3>3, <3>4, <3>5 DEF SameCounts, Counted
    <3>8. line.kind \in {"done", "torn"}
      BY <2>6, LineKinds
    <3> QED BY <1>3, <3>3, <3>4, <3>5, <3>6, <3>7, <3>8 DEF QuietlyRead, HeldByReader, w, x
  <2> QED BY <2>4, <2>5, <2>6 DEF Parts
<1> QED BY <1>2, <1>3 DEF w, x

\* The trace loses no block.
LEMMA AssembledGrows ==
  ASSUME NEW blocks \in Seq(Blocks), NEW line \in AllLines
  PROVE  Len(blocks) \in Nat /\ Len(Assembled(blocks, line)) \in Nat
         /\ Len(blocks) <= Len(Assembled(blocks, line))
<1> DEFINE e == line.event
           b == Slot(e)
           o == Opened(blocks, b)
           new == [index |-> b, label |-> "text", said |-> <<>>]
<1>0. b \in Indices /\ Len(blocks) \in Nat
  BY LineTypes DEF AllLines
<1>1. o = blocks \/ o = Append(blocks, new)
  BY DEF Opened
<1>2. new \in Blocks
  BY <1>0, TextFacts DEF Blocks
<1> HIDE DEF new, b
<1>3. o \in Seq(Blocks) /\ Len(o) \in Nat /\ Len(blocks) <= Len(o) /\ DOMAIN o = 1..Len(o)
  <2>1. Append(blocks, new) \in Seq(Blocks) /\ Len(Append(blocks, new)) = Len(blocks) + 1
    BY <1>2
  <2>2. o \in Seq(Blocks) /\ (Len(o) = Len(blocks) \/ Len(o) = Len(blocks) + 1)
    BY <1>1, <2>1
  <2>3. Len(o) \in Nat /\ DOMAIN o = 1..Len(o)
    BY <2>2, LengthFacts, Zenon
  <2>4. \A i \in Nat : i <= i /\ i <= i + 1
    OBVIOUS
  <2>5. Len(blocks) <= Len(o)
    BY <1>0, <2>2, <2>4
  <2> QED BY <2>2, <2>3, <2>5
<1> HIDE DEF o
<1>4. \A f : [i \in DOMAIN o |-> f[i]] \in Seq({f[i] : i \in DOMAIN o})
             /\ Len([i \in DOMAIN o |-> f[i]]) = Len(o)
  BY <1>3
<1>5. Assembled(blocks, line) \in {blocks, Labelled(o, b, e.type), Added(o, b, e.text)}
  BY DEF Assembled, o, b
<1>6. Len(Labelled(o, b, e.type)) = Len(o)
  <2> DEFINE f == [i \in DOMAIN o |-> IF o[i].index = b THEN [o[i] EXCEPT !.label = e.type] ELSE o[i]]
  <2>1. Labelled(o, b, e.type) = f
    BY DEF Labelled
  <2>2. f = [i \in DOMAIN o |-> f[i]]
    OBVIOUS
  <2> HIDE DEF f
  <2> QED BY <1>4, <2>1, <2>2
<1>7. Len(Added(o, b, e.text)) = Len(o)
  <2> DEFINE f == [i \in DOMAIN o |-> IF o[i].index = b THEN [o[i] EXCEPT !.said = @ \o e.text] ELSE o[i]]
  <2>1. Added(o, b, e.text) = f
    BY DEF Added
  <2>2. f = [i \in DOMAIN o |-> f[i]]
    OBVIOUS
  <2> HIDE DEF f
  <2> QED BY <1>4, <2>1, <2>2
<1> HIDE DEF e
<1> QED BY <1>0, <1>3, <1>5, <1>6, <1>7 DEF e

\* The telling depends on what has arrived, on the mapping and on the provider alone.
LEMMA ReportedAtNext ==
  ASSUME UNCHANGED <<scenario, source>>, NEW p, NEW a, NEW n, NEW unread \in BOOLEAN,
         ReportedAt(p, a, n, unread),
         r' = p, arrived' = a, Len(trace.blocks)' = n, unread => StartUnread'
  PROVE  ReportedAt(r, arrived, Len(trace.blocks), StartUnread)'
<1>1. /\ Known' = Known /\ Observing' = Observing /\ Messages' = Messages /\ Chat' = Chat
      /\ Over' = Over /\ Indices' = Indices
  BY DEF Known, Observing, Messages, Chat, Over, Indices
<1>2. Told(r)' = Told(p) /\ Holding(r)' = Holding(p)
  BY DEF Told, Holding
<1>3. ToldRight(r, arrived)'
  BY <1>1, <1>2 DEF ReportedAt, ToldRight
<1>4. ToldOrHeld(r, arrived)'
  BY <1>2 DEF ReportedAt, ToldOrHeld
<1>5. HeldByReader(r)'
  BY <1>1 DEF ReportedAt, HeldByReader
<1>6. ToolsArrived(arrived, Len(trace.blocks))'
  BY <1>1 DEF ReportedAt, ToolsArrived
<1>7. ToolKnown(r, StartUnread)'
  BY <1>1, <1>2 DEF ReportedAt, ToolKnown
<1> QED BY <1>3, <1>4, <1>5, <1>6, <1>7 DEF ReportedAt

\* The ends a caller has are told of in the next state, when they are of what it becomes.
LEMMA StopsToldNext ==
  ASSUME UNCHANGED source, NEW p, NEW c, NEW a, NEW n, StopsTold(p, c, a, n),
         r' = p, arrived' = a, Len(trace.blocks)' = n
  PROVE  /\ client' = c => StopsTold(r, client, arrived, Len(trace.blocks))'
         /\ Upcoming' = c => StopsTold(r, Upcoming, arrived, Len(trace.blocks))'
<1>1. Told(r)' = Told(p) /\ Over' = Over
  BY DEF Told, Over
<1> QED BY <1>1 DEF StopsTold, StopsOf

\* What is held of a call's arguments is what has arrived of them, so no quote is in it.
LEMMA HeldIsQuoteless ==
  ASSUME arrived \in Arrivals, NEW q, NEW n, NEW unread, ReportedAt(q, arrived, n, unread)
  PROVE  \A i \in DOMAIN q.arguments : q.arguments[i] # "quote"
<1>1. ToldOrHeld(q, arrived) /\ ToolsArrived(arrived, n)
  BY DEF ReportedAt
<1>2. CASE Holding(q)
  <2>1. q.toolName \in Indices /\ q.arguments = arrived.args[q.toolName]
    BY <1>1, <1>2 DEF ToldOrHeld, Arrivals
  <2> QED BY <1>1, <2>1 DEF ToolsArrived
<1>3. CASE ~Holding(q)
  BY <1>1, <1>3 DEF ToldOrHeld
<1> QED BY <1>2, <1>3

\* The ends a caller has are of blocks.
LEMMA StopsTypes ==
  ASSUME NEW c \in Clients
  PROVE  StopsOf(c) \subseteq Indices
<1>1. c.stopped \subseteq Indices /\ c.event \in Events
  BY DEF Clients
<1>2. Slot(c.event) \in Indices
  BY <1>1, LineTypes
<1> QED BY <1>1, <1>2 DEF StopsOf

\* What a line leaves behind it: the telling, and what the caller has had the end of.
LineReported(p, a, n, d) ==
  /\ ReportedAt(p, a, n, FALSE) \/ (ReportedAt(p, a, n, StartUnread) /\ (StartUnread' <=> StartUnread))
  /\ Counted(p, r) /\ StopsTold(p, client, a, n) /\ StopsTold(p, d, a, n)
  /\ d.done => Chat

\* A data line keeps the operator in order.
LEMMA EventIsReported ==
  ASSUME Copying, ReadLine, StreamReported, NEW d \in Clients, LineStops(d, client),
         NEW e \in Events, Latest(e), AtData(e), ~Over, ReadNext = "data", BlocksRead'
  PROVE  LineReported(r', arrived', Len(trace'.blocks), d) /\ ~StartUnread'
<1> DEFINE line == Head(feed)
           x == [r |-> r, out |-> <<>>]
           q == IF Observing THEN r ELSE [r EXCEPT !.held = FALSE]
           n == Len(trace.blocks)
           m == Len(trace'.blocks)
<1>0. /\ Typed /\ scenario \in Scenarios /\ source \in Sources /\ arrived \in Arrivals
      /\ r \in Rehydrators /\ client \in Clients /\ BlocksInOrder /\ Streams /\ Mapping(Known)
      /\ trace \in Traces /\ line \in AllLines /\ feed # <<>> /\ client.result = "open"
  <2>1. feed \in Seq(AllLines) /\ feed # <<>>
    BY DEF Copying, Typed, ReadLine
  <2>2. line \in AllLines
    BY <2>1
  <2> QED BY <2>1, <2>2, ScenarioFacts DEF Copying, Typed, ReadLine
<1>1. /\ line = DataLine(e) /\ line.kind = "data" /\ line.event = e
      /\ (StartUnread <=> e.type \in Starts) /\ ~StartUnread'
  <2>1. line = DataLine(e) /\ Carried(feed) = {e} /\ Carried(Tail(feed)) = {}
    BY DEF AtData
  <2>2. feed' = Tail(feed)
    BY DEF ReadLine
  <2>3. Carried(feed)' = {}
    BY <2>1, <2>2 DEF Carried
  <2> QED BY <2>1, <2>3, LineKinds DEF StartUnread
<1>2. /\ UNCHANGED <<scenario, source, client>> /\ BroughtBy(arrived', e)
      /\ r' = Read(x, line).r /\ trace'.blocks = Assembled(trace.blocks, line)
  <2>1. arrived' = Arriving(e) /\ UNCHANGED <<scenario, source, client>> /\ r' = Read(x, line).r
    BY <1>1 DEF ReadLine
  <2>2. trace'.blocks = Assembled(trace.blocks, line)
    BY <1>0 DEF ReadLine, Traces
  <2> QED BY <1>0, <2>1, <2>2, ArrivingBrings
<1>3. n \in Nat /\ m \in Nat /\ n <= m
  <2>1. trace.blocks \in Seq(Blocks)
    BY <1>0 DEF Traces
  <2> QED BY <1>0, <1>2, <2>1, AssembledGrows
<1>4. /\ Messages => n = (IF e.type \in Starts THEN source.next - 1 ELSE source.next)
      /\ Messages => m = source.next
      /\ Chat \/ Messages
  <2>1. BlocksRead
    BY <1>0 DEF Copying, TraceInOrder
  <2>2. Messages => n = (IF e.type \in Starts THEN source.next - 1 ELSE source.next)
    BY <1>1, <2>1 DEF BlocksRead
  <2>3. Messages' = Messages /\ Over' = Over
    BY <1>2 DEF Messages, Over
  <2>4. Messages => m = source.next
    BY <1>1, <1>2, <2>3 DEF BlocksRead
  <2>5. Chat \/ Messages
    BY <1>0, ScenarioFacts DEF Chat, Messages, Streams
  <2> QED BY <2>2, <2>4, <2>5
<1>5. ReportedAt(r, arrived, n, StartUnread)
  BY DEF StreamReported
<1>6. /\ q \in Rehydrators /\ SameTelling(q, r) /\ SameCounts(q, r) /\ q.block = r.block
      /\ q.observing = r.observing /\ q.argumentsIn = r.argumentsIn /\ q.pending = r.pending
  BY <1>0 DEF Rehydrators, SameTelling, SameCounts
<1>7. EventTold(r', q, e)
  <2>1. CASE Observing
    <3>1. Read(x, line) = [r |-> Observed(r, line), out |-> Append(<<>>, line)]
      BY <2>1 DEF Read, Observing
    <3>2. r' = Observed(r, DataLine(e))
      BY <1>1, <1>2, <3>1
    <3>3. \A i \in DOMAIN r.arguments : r.arguments[i] # "quote"
      BY <1>0, <1>5, HeldIsQuoteless
    <3>4. HeldByReader(r)
      BY <1>5 DEF ReportedAt
    <3> QED BY <1>0, <2>1, <3>2, <3>3, <3>4, ObservedTold
  <2>2. CASE ~Observing
    <3> DEFINE z == [x EXCEPT !.r.held = FALSE]
    <3>1. x \in Steps /\ x.out = <<>> /\ x.r = r
      <4>1. <<>> \in Seq(AllLines)
        OBVIOUS
      <4> QED BY <1>0, <4>1 DEF Steps
    <3>2. Read(x, line) = Rewritten(x, DataLine(e))
      BY <1>1, <2>2 DEF Read, Observing
    <3>3. r' = EventRewritten(z, e).r
      BY <1>0, <1>2, <3>1, <3>2, RewrittenOther
    <3>4. z.r = q /\ z \in Steps
      <4> HIDE DEF x
      <4>1. z \in Steps /\ z.r = [x.r EXCEPT !.held = FALSE]
        BY <3>1 DEF Steps, Rehydrators
      <4> QED BY <2>2, <3>1, <4>1
    <3>5. ~q.observing
      BY <1>5, <1>6, <2>2 DEF ReportedAt, HeldByReader
    <3> HIDE DEF z, q
    <3> QED BY <1>0, <2>2, <3>3, <3>4, <3>5, RewrittenTold
  <2> QED BY <2>1, <2>2
<1> HIDE DEF q
<1>8. ReportedAt(q, arrived, n, e.type \in Starts) /\ Told(q) = Told(r) /\ Counted(r', r)
  <2>1. Told(q) = Told(r) /\ Holding(q) = Holding(r)
    BY <1>6 DEF Told, Holding, SameTelling
  <2>2. ReportedAt(q, arrived, n, e.type \in Starts)
    BY <1>1, <1>5, <1>6, <2>1 DEF ReportedAt, ToldRight, HeldByReader, ToldOrHeld, ToolKnown, SameTelling
  <2>3. Counted(r', r)
    BY <1>6, <1>7 DEF EventTold, Counted, SameCounts
  <2> QED BY <2>1, <2>2, <2>3
<1>9. r' \in Rehydrators
  <2>1. x \in Steps
    <3>1. <<>> \in Seq(AllLines)
      OBVIOUS
    <3> QED BY <1>0, <3>1 DEF Steps
  <2>2. Read(x, line) \in Steps
    BY <1>0, <2>1, ReadTypes
  <2> QED BY <1>2, <2>2 DEF Steps
<1> HIDE DEF n, m
<1>10. /\ ReportedAt(r', arrived', m, FALSE) /\ Told(q) \subseteq Told(r')
       /\ e.type = "json_delta" => arrived'.tools = arrived.tools \union {source.open}
       /\ e.type # "json_delta" => arrived'.tools = arrived.tools
       /\ e.type = "block_stop" => Slot(e) < m /\ source.open = None /\ arrived'.tools \subseteq Told(r')
  <2> DEFINE w == r'
             a == arrived'
             start == e.type \in Starts
  <2>1. w \in Rehydrators /\ EventTold(w, q, e) /\ BroughtBy(a, e)
    BY <1>2, <1>7, <1>9
  <2>2. q \in Rehydrators /\ ReportedAt(q, arrived, n, start)
    BY <1>6, <1>8
  <2>3. Messages => n = (IF start THEN source.next - 1 ELSE source.next)
    BY <1>4
  <2> HIDE DEF w, a
  <2>4. /\ ReportedAt(w, a, m, FALSE) /\ Told(q) \subseteq Told(w)
        /\ e.type = "json_delta" => a.tools = arrived.tools \union {source.open}
        /\ e.type # "json_delta" => a.tools = arrived.tools
        /\ e.type = "block_stop" => Slot(e) < m /\ source.open = None /\ a.tools \subseteq Told(w)
    BY <1>0, <1>3, <1>4, <2>1, <2>2, <2>3, EventIsTold
  <2> QED BY <2>4 DEF w, a
<1>11. \A b \in StopsOf(client) : b < m /\ b # source.open /\ (b \in arrived'.tools => b \in Told(r'))
  <2> TAKE b \in StopsOf(client)
  <2>1. b < n /\ b # source.open /\ (b \in arrived.tools => b \in Told(r))
    BY DEF StreamReported, StopsTold, n
  <2>2. b \in Indices /\ b \in Nat
    BY <1>0, StopsTypes, PlacesFacts
  <2>3. b < m
    BY <1>3, <2>1, <2>2
  <2> QED BY <1>8, <1>10, <2>1, <2>3
<1>12. \A b \in Stopping(line) : b < m /\ b # source.open /\ (b \in arrived'.tools => b \in Told(r'))
  <2> TAKE b \in Stopping(line)
  <2>1. e.type = "block_stop" /\ b = Slot(e)
    BY <1>1 DEF Stopping
  <2>2. b \in Indices
    BY <2>1, LineTypes
  <2> QED BY <1>10, <2>1, <2>2, PlacesFacts
<1>13. StopsTold(r', client, arrived', m)
  BY <1>11 DEF StopsTold
<1>14. StopsTold(r', d, arrived', m)
  BY <1>11, <1>12 DEF StopsTold, LineStops
<1>15. d.done => Chat
  BY DEF LineStops, StreamReported
<1> QED BY <1>1, <1>8, <1>10, <1>13, <1>14, <1>15 DEF LineReported, m

\* A release, where no tool is awaited, and a line without an event keep the telling.
LEMMA ReleasedReported ==
  ASSUME arrived \in Arrivals, NEW q \in Rehydrators, NEW n, NEW unread,
         ReportedAt(q, arrived, n, unread), Over \/ Chat,
         NEW p, Released(p, q), HeldByReader(p), p.block = q.block
  PROVE  ReportedAt(p, arrived, n, unread) /\ ~Holding(p) /\ Told(q) \subseteq Told(p)
         /\ Told(p) = arrived.tools /\ p.arguments = <<>>
<1>1. ToldRight(q, arrived) /\ ToldOrHeld(q, arrived)
  BY DEF ReportedAt
<1>2. /\ ToldRight(p, arrived) /\ ToldOrHeld(p, arrived) /\ ~Holding(p) /\ p.arguments = <<>>
      /\ Told(q) \subseteq Told(p) /\ Told(p) = arrived.tools
  BY <1>1, ReleasedIsTold
<1>3. ToolKnown(p, unread)
  BY DEF ToolKnown, Messages, Chat
<1> QED BY <1>2, <1>3 DEF ReportedAt

\* A line that is read quietly keeps the telling right.
LEMMA QuietReported ==
  ASSUME arrived \in Arrivals, NEW q \in Rehydrators, NEW n, NEW unread,
         ReportedAt(q, arrived, n, unread), NEW line,
         line.kind \in {"done", "torn"} => Over \/ Chat,
         NEW p, QuietlyRead(p, q, line)
  PROVE  ReportedAt(p, arrived, n, unread) /\ Told(q) \subseteq Told(p)
<1>1. CASE Undisturbed(p, q)
  <2>1. Told(p) = Told(q) /\ p.toolName = q.toolName
        /\ ToldRight(p, arrived) /\ ToldOrHeld(p, arrived)
    BY <1>1, UndisturbedIsTold DEF ReportedAt
  <2>2. ToolKnown(p, unread)
    BY <2>1 DEF QuietlyRead, ReportedAt, ToolKnown
  <2> QED BY <2>1, <2>2 DEF QuietlyRead, ReportedAt
<1>2. CASE Released(p, q) /\ line.kind \in {"done", "torn"}
  BY <1>2, ReleasedReported DEF QuietlyRead
<1> QED BY <1>1, <1>2 DEF QuietlyRead

\* A line without an event keeps the operator in order.
LEMMA OtherIsReported ==
  ASSUME Copying, ReadLine, StreamReported, NEW d \in Clients, LineStops(d, client),
         ReadNext = Head(feed).kind, ReadNext = "done" => Chat,
         Carried(Tail(feed)) = Carried(feed), Head(feed).kind \notin Partial,
         Head(feed) \in {Blank, DoneLine} \union Parts
           \/ (\E n : Head(feed) = IdLine(n)) \/ (\E name : Head(feed) = NameLine(name))
  PROVE  LineReported(r', arrived', Len(trace'.blocks), d)
<1> DEFINE line == Head(feed)
           n == Len(trace.blocks)
<1>1. line.kind # "data" /\ line.event.type = "none"
  BY LineKinds DEF Blank, DoneLine, Parts, StubLine, TornLine, CutLine, IdLine, NameLine, Line,
     NoEvent, Event
<1>2. /\ r \in Rehydrators /\ arrived \in Arrivals /\ Mapping(Known) /\ trace \in Traces
      /\ ReportedAt(r, arrived, n, StartUnread) /\ StopsTold(r, client, arrived, n)
  BY ScenarioFacts DEF Copying, Typed, StreamReported
<1>3. /\ arrived' = arrived /\ r' = Read([r |-> r, out |-> <<>>], line).r
      /\ trace' = [trace EXCEPT !.blocks = Assembled(@, line)] /\ feed' = Tail(feed)
  BY <1>1 DEF ReadLine
<1>4. trace'.blocks = trace.blocks
  <2>1. trace'.blocks = Assembled(trace.blocks, line)
    BY <1>2, <1>3 DEF Traces
  <2> QED BY <1>1, <2>1 DEF Assembled
<1>5. StartUnread' <=> StartUnread
  <2>1. Carried(feed)' = Carried(feed)
    BY <1>3 DEF Carried
  <2> QED BY <2>1 DEF StartUnread
<1>6. QuietlyRead(r', r, line)
  BY <1>2, <1>3, OtherTold DEF ReportedAt
<1>7. ReportedAt(r', arrived, n, StartUnread) /\ Told(r) \subseteq Told(r')
  BY <1>2, <1>6, QuietReported DEF Partial
<1>8. StopsTold(r', client, arrived, n)
  BY <1>2, <1>7 DEF StopsTold
<1>9. StopsOf(d) \subseteq StopsOf(client)
  BY <1>1 DEF LineStops, Stopping
<1>10. StopsTold(r', d, arrived, n)
  BY <1>8, <1>9 DEF StopsTold
<1>11. d.done => Chat
  BY DEF LineStops, StreamReported
<1> QED BY <1>3, <1>4, <1>5, <1>6, <1>7, <1>8, <1>10, <1>11 DEF LineReported, QuietlyRead

\* A line that is read.
LEMMA ReadIsReported ==
  ASSUME Copying, HeardInOrder, ReportedInOrder, ReadLine
  PROVE  ReportedInOrder'
<1> DEFINE line == Head(feed)
           n == Len(trace.blocks)'
           d == Upcoming'
<1>0. /\ Typed /\ FeedInOrder /\ feed # <<>> /\ line.kind \notin Partial /\ Streams
      /\ client.result = "open" /\ ~r.done /\ out = <<>>
      /\ UNCHANGED <<scenario, source, client>>
      /\ StreamReported /\ BlocksRead'
  BY ReadIsCopied DEF Copying, ReadLine, ReportedInOrder
<1>1. HeardInOrder' /\ LineStops(d, client)
  BY ReadIsHeard
<1>2. /\ ~Over /\ ReadNext = line.kind
  BY <1>0, ReadingAt
<1>3. Streams' = Streams /\ Chat' = Chat /\ Over' = Over
  BY <1>0 DEF Streams, Chat, Over
<1>4. d \in Clients
  <2>1. r \in Rehydrators /\ client \in Clients /\ feed \in Seq(AllLines) /\ scenario \in Scenarios
    BY <1>0 DEF Typed
  <2>2. [r |-> r, out |-> <<>>] \in Steps /\ line \in AllLines
    <3>1. <<>> \in Seq(AllLines)
      OBVIOUS
    <3> QED BY <1>0, <2>1, <3>1 DEF Steps
  <2> DEFINE x == [r |-> r, out |-> <<>>]
  <2>3. out' = Read(x, line).out
    BY DEF ReadLine
  <2> HIDE DEF x
  <2>4. Read(x, line) \in Steps
    BY <2>1, <2>2, ScenarioFacts, ReadTypes DEF x
  <2>5. out' \in Seq(AllLines)
    BY <2>3, <2>4 DEF Steps
  <2>6. d = Taken(client, out')
    BY <1>0 DEF Upcoming
  <2> QED BY <2>1, <2>5, <2>6, TakenTypes
<1> HIDE DEF d
<1>5. LineReported(r', arrived', n, d)
  <2>1. ASSUME NEW e \in Events, Latest(e), AtData(e), ReadNext = "data"
        PROVE  LineReported(r', arrived', n, d)
    BY <1>0, <1>1, <1>2, <1>4, <2>1, EventIsReported
  <2>2. ASSUME NEW e, AtName(e) \/ AtId(e) \/ AtBlank \/ AtDone
        PROVE  LineReported(r', arrived', n, d)
    <3>1. ReadNext = "done" => Chat
      <4> SUFFICES ASSUME ReadNext = "done" PROVE Chat
        OBVIOUS
      <4>1. /\ \A a : ~AtName(a) /\ ~AtData(a) /\ ~AtId(a)
            /\ ~AtBlank
        BY <1>2, LineKinds DEF AtName, AtData, AtId, AtBlank
      <4> QED BY <1>0, <1>2, <4>1, FeedCases
    <3>2. Carried(Tail(feed)) = Carried(feed)
      BY <2>2 DEF AtName, AtId, AtBlank, AtDone
    <3>3. line \in {Blank, DoneLine} \union Parts
            \/ (\E m : line = IdLine(m)) \/ (\E name : line = NameLine(name))
      BY <2>2 DEF AtName, AtId, AtBlank, AtDone
    <3> QED BY <1>0, <1>1, <1>2, <1>4, <3>1, <3>2, <3>3, OtherIsReported
  <2>3. \E e : e \in Events
    BY LineTypes
  <2> QED BY <1>0, <2>1, <2>2, <2>3, ReadingAt
<1>6. ReportedAt(r, arrived, Len(trace.blocks), StartUnread)'
  <2>1. CASE ReportedAt(r', arrived', n, FALSE)
    <3> DEFINE p == r'
               a == arrived'
    <3>1. ReportedAt(p, a, n, FALSE) /\ r' = p /\ arrived' = a
      BY <2>1
    <3> HIDE DEF p, a
    <3> QED BY <1>0, <3>1, ReportedAtNext
  <2>2. CASE ReportedAt(r', arrived', n, StartUnread) /\ (StartUnread' <=> StartUnread)
    <3> DEFINE p == r'
               a == arrived'
    <3>1. ReportedAt(p, a, n, StartUnread) /\ r' = p /\ arrived' = a /\ StartUnread \in BOOLEAN
      BY <2>2 DEF StartUnread
    <3> HIDE DEF p, a
    <3> QED BY <1>0, <2>2, <3>1, ReportedAtNext
  <2> QED BY <1>5, <2>1, <2>2 DEF LineReported
<1>7. /\ StopsTold(r, client, arrived, Len(trace.blocks))'
      /\ StopsTold(r, Upcoming, arrived, Len(trace.blocks))'
  <2> DEFINE p == r'
             a == arrived'
  <2>1. /\ r' = p /\ arrived' = a /\ StopsTold(p, client, a, n) /\ StopsTold(p, d, a, n)
    BY <1>5 DEF LineReported
  <2> HIDE DEF p, a
  <2>2. client' = client /\ Upcoming' = d
    BY <1>0 DEF d
  <2> QED BY <1>0, <2>1, <2>2, StopsToldNext
<1>8. CountsRight' /\ ~r'.done
  <2>1. ~r'.done
    BY <1>0, <1>1, <1>2, <1>3 DEF HeardInOrder
  <2>2. Counted(r', r) /\ CountsRight
    BY <1>0, <1>5 DEF LineReported, StreamReported
  <2> QED BY <1>0, <2>1, <2>2 DEF Counted, CountsRight
<1>9. ToldRight(r, arrived)'
  BY <1>6 DEF ReportedAt
<1>10. StreamReported'
  BY <1>0, <1>3, <1>5, <1>6, <1>7, <1>8 DEF StreamReported, LineReported, d
<1> QED BY <1>0, <1>3, <1>9, <1>10 DEF ReportedInOrder

\* What is appended to nothing stands alone.
LEMMA AppendedOne == \A v : Append(<<>>, v) = <<v>> /\ Len(<<v>>) = 1 /\ <<v>>[1] = v
  OBVIOUS

\* The end of the stream: what is held is told of, and what the answer cost.
LEMMA EndIsReported ==
  ASSUME Copying, HeardInOrder, ReportedInOrder, ReadEnd
  PROVE  ReportedInOrder'
<1> DEFINE line == Head(feed)
           n == Len(trace.blocks)
           before == [r |-> r, out |-> <<>>]
           x == IF feed = <<>> THEN before ELSE Read(before, line)
           y == Flushed(x)
           p == ReportUsage(y.r)
           d == Upcoming'
           joined == feed = <<StubLine>> /\ y.out # x.out
<1>0. /\ Typed /\ KeptIn(r) /\ FeedInOrder /\ Streams /\ client.result = "open" /\ out = <<>>
      /\ ~r.done /\ Over /\ (feed # <<>> => line.kind \in Partial)
      /\ r' = [p EXCEPT !.done = TRUE, !.readErr = Failed, !.joined = joined]
      /\ UNCHANGED <<scenario, source, arrived, client, trace>>
      /\ StreamReported
  BY DEF Copying, ReadEnd, Over, ReportedInOrder
<1>1. /\ r \in Rehydrators /\ arrived \in Arrivals /\ Mapping(Known)
      /\ ReportedAt(r, arrived, n, StartUnread) /\ StopsTold(r, client, arrived, n)
      /\ CountsRight /\ ~r.usageSent /\ r.usage = <<>>
  BY <1>0, ScenarioFacts DEF Typed, StreamReported, CountsRight
<1>2. StopsOf(d) \subseteq StopsOf(client) /\ d.done = client.done
  BY EndIsHeard
<1>3. before \in Steps /\ before.r = r
  <2>1. <<>> \in Seq(AllLines)
    OBVIOUS
  <2> QED BY <1>1, <2>1 DEF Steps
<1> HIDE DEF before, d, n, joined
<1>4. /\ x \in Steps /\ ReportedAt(x.r, arrived, n, StartUnread) /\ Told(r) \subseteq Told(x.r)
      /\ Counted(x.r, r) /\ x.r.block = r.block
  <2>1. CASE feed = <<>>
    <3>1. x = before
      BY <2>1
    <3> HIDE DEF x
    <3> QED BY <1>1, <1>3, <3>1 DEF Counted
  <2>2. CASE feed # <<>>
    <3>1. line \in Parts /\ line \in AllLines
      BY <1>0, <2>2, FeedCases, LineKinds, LineTypes DEF AtName, AtData, AtId, AtBlank, AtDone, Partial
    <3>2. x = Read(before, line)
      BY <2>2
    <3>3. x \in Steps
      BY <1>1, <1>3, <3>1, <3>2, ReadTypes
    <3>4. QuietlyRead(x.r, r, line)
      BY <1>1, <3>1, <3>2, OtherTold DEF ReportedAt, before
    <3> HIDE DEF x, line
    <3>5. ReportedAt(x.r, arrived, n, StartUnread) /\ Told(r) \subseteq Told(x.r)
      BY <1>0, <1>1, <3>4, QuietReported
    <3> QED BY <3>3, <3>4, <3>5 DEF QuietlyRead
  <2> QED BY <2>1, <2>2
<1> HIDE DEF x
<1>5. x.r \in Rehydrators /\ HeldByReader(x.r)
  BY <1>4 DEF Steps, ReportedAt
<1>6. \A i \in DOMAIN x.r.arguments : x.r.arguments[i] # "quote"
  BY <1>1, <1>4, HeldIsQuoteless
<1>7. /\ y \in Steps /\ Released(y.r, x.r) /\ SameCounts(y.r, x.r) /\ HeldByReader(y.r)
      /\ y.r.block = x.r.block
  BY <1>1, <1>4, <1>5, <1>6, FlushingTells
<1> HIDE DEF y
<1>8. /\ ReportedAt(y.r, arrived, n, StartUnread) /\ ~Holding(y.r) /\ Told(x.r) \subseteq Told(y.r)
  BY <1>0, <1>1, <1>4, <1>5, <1>7, ReleasedReported
<1>9. /\ p \in Rehydrators /\ SameReading(p, y.r) /\ SameHeld(p, y.r) /\ SameTelling(p, y.r)
      /\ p.model = y.r.model /\ p.input = y.r.input /\ p.output = y.r.output /\ p.usageSent
      /\ p.usage = (IF y.r.usageSent \/ ~y.r.model THEN y.r.usage
                    ELSE Append(y.r.usage, <<y.r.input, y.r.output>>))
      /\ y.r \in Rehydrators
  <2>1. y.r \in Rehydrators
    BY <1>7 DEF Steps
  <2> QED BY <2>1, ReportUsageFields
<1> HIDE DEF p
<1>10. /\ r'.done /\ r'.model = p.model /\ r'.input = p.input /\ r'.usageSent /\ r'.usage = p.usage
       /\ r'.console = p.console /\ r'.toolName = p.toolName /\ r'.arguments = p.arguments
       /\ r'.argumentsIn = p.argumentsIn /\ r'.observing = p.observing /\ r'.pending = p.pending
       /\ r'.block = p.block
  BY <1>0, <1>9 DEF Rehydrators
<1>11. CountsRight'
  <2>1. y.r.usage = <<>> /\ ~y.r.usageSent /\ (y.r.model => y.r.input = 1)
    BY <1>1, <1>4, <1>7 DEF Counted, SameCounts, CountsRight
  <2>2. y.r.output \in {0, 1}
    BY <1>9 DEF Rehydrators
  <2>3. r'.model => r'.input = 1 /\ r'.usage = Append(<<>>, <<1, y.r.output>>)
    BY <1>9, <1>10, <2>1
  <2>4. \A v : Append(<<>>, v) = <<v>> /\ Len(<<v>>) = 1 /\ <<v>>[1] = v
    BY AppendedOne
  <2> DEFINE v == <<1, y.r.output>>
  <2>5. v \in {<<1, 0>>, <<1, 1>>}
    BY <2>2
  <2> HIDE DEF v
  <2>6. r'.model => r'.input = 1 /\ Len(r'.usage) = 1 /\ r'.usage[1] = v
    BY <2>3, <2>4 DEF v
  <2> QED BY <1>10, <2>5, <2>6 DEF CountsRight
<1>12. ReportedAt(r, arrived, Len(trace.blocks), StartUnread)' /\ ~Holding(r)' /\ Told(y.r) \subseteq Told(r)'
  <2> DEFINE q == r'
  <2>1. /\ q.console = y.r.console /\ q.toolName = y.r.toolName /\ q.arguments = y.r.arguments
        /\ q.argumentsIn = y.r.argumentsIn /\ q.observing = y.r.observing
        /\ q.pending = y.r.pending /\ q.block = y.r.block
    BY <1>9, <1>10 DEF SameReading, SameHeld, SameTelling
  <2> HIDE DEF q
  <2>2. Told(q) = Told(y.r) /\ (Holding(q) <=> Holding(y.r))
    BY <2>1 DEF Told, Holding
  <2>3. ReportedAt(q, arrived, n, FALSE)
    <3>1. ToldRight(q, arrived)
      BY <1>8, <2>1, <2>2 DEF ReportedAt, ToldRight
    <3>2. ToldOrHeld(q, arrived)
      BY <1>8, <2>1, <2>2 DEF ReportedAt, ToldOrHeld
    <3>3. HeldByReader(q) /\ ToolsArrived(arrived, n) /\ (q.block # None => q.block < n)
      BY <1>8, <2>1 DEF ReportedAt, HeldByReader
    <3>4. ToolKnown(q, FALSE)
      BY <1>0 DEF ToolKnown
    <3> QED BY <3>1, <3>2, <3>3, <3>4 DEF ReportedAt
  <2>4. r' = q /\ arrived' = arrived /\ Len(trace.blocks)' = n
    BY <1>0 DEF q, n
  <2>5. ReportedAt(r, arrived, Len(trace.blocks), StartUnread)'
    BY <1>0, <2>3, <2>4, ReportedAtNext
  <2>6. ~Holding(r)' /\ Told(r)' = Told(q)
    BY <1>8, <2>2, <2>4 DEF Holding, Told
  <2> QED BY <2>2, <2>5, <2>6
<1>13. /\ StopsTold(r, client, arrived, Len(trace.blocks))'
       /\ StopsTold(r, Upcoming, arrived, Len(trace.blocks))'
  <2> DEFINE q == r'
  <2>1. Told(r) \subseteq Told(q)
    <3>1. Told(q) = Told(r)'
      BY DEF Told
    <3> QED BY <1>4, <1>8, <1>12, <3>1
  <2> HIDE DEF q
  <2>2. StopsTold(q, client, arrived, n) /\ StopsTold(q, d, arrived, n)
    BY <1>1, <1>2, <2>1 DEF StopsTold
  <2>3. r' = q /\ arrived' = arrived /\ Len(trace.blocks)' = n /\ client' = client /\ Upcoming' = d
    BY <1>0 DEF q, n, d
  <2> QED BY <1>0, <2>2, <2>3, StopsToldNext
<1>14. Streams' /\ (Chat' <=> Chat) /\ client' = client
  BY <1>0 DEF Streams, Chat
<1>15. StreamReported'
  <2>1. Upcoming'.done => Chat'
    BY <1>0, <1>2, <1>14 DEF StreamReported, d
  <2> QED BY <1>0, <1>10, <1>11, <1>12, <1>13, <1>14, <2>1 DEF StreamReported
<1> QED BY <1>12, <1>14, <1>15 DEF ReportedInOrder, ReportedAt

\* The provider goes on.
LEMMA SourceMoves ==
  ASSUME Typed, StreamReported, UNCHANGED <<scenario, arrived, r, out, client, trace>>,
         ToolKnown(r, StartUnread)',
         ~Over' => ~Over /\ \A b \in Indices : b < Len(trace.blocks) /\ b # source.open
                                              => b # source'.open
  PROVE  StreamReported'
<1>1. /\ Known' = Known /\ Observing' = Observing /\ Chat' = Chat
      /\ Told(r)' = Told(r) /\ Holding(r)' = Holding(r) /\ Upcoming' = Upcoming
      /\ Len(trace.blocks)' = Len(trace.blocks) /\ Indices' = Indices
  BY DEF Known, Observing, Chat, Told, Holding, Upcoming, Indices
<1>2. ReportedAt(r, arrived, Len(trace.blocks), StartUnread)'
  <2>1. ReportedAt(r, arrived, Len(trace.blocks), StartUnread)
    BY DEF StreamReported
  <2>2. (ToldRight(r, arrived) /\ HeldByReader(r))'
    BY <1>1, <2>1 DEF ReportedAt, ToldRight, HeldByReader
  <2>3. (ToldOrHeld(r, arrived) /\ ToolsArrived(arrived, Len(trace.blocks)))'
    BY <1>1, <2>1 DEF ReportedAt, ToldOrHeld, ToolsArrived
  <2>4. (r.block # None => r.block < Len(trace.blocks))'
    BY <1>1, <2>1 DEF ReportedAt
  <2> QED BY <2>2, <2>3, <2>4 DEF ReportedAt
<1>3. ASSUME NEW c \in Clients, StopsTold(r, c, arrived, Len(trace.blocks)), NEW d, d = c
      PROVE  \A b \in StopsOf(d) : /\ b < Len(trace.blocks) /\ (~Over' => b # source'.open)
                                   /\ b \in arrived.tools => b \in Told(r)
  <2>1. StopsOf(c) \subseteq Indices
    BY StopsTypes
  <2> QED BY <1>3, <2>1 DEF StopsTold
<1>4. client \in Clients /\ Upcoming \in Clients
  BY TakenTypes DEF Typed, Upcoming
<1>5. StopsTold(r, client, arrived, Len(trace.blocks))'
  BY <1>1, <1>3, <1>4 DEF StreamReported, StopsTold
<1>6. client.result = "open" => StopsTold(r, Upcoming, arrived, Len(trace.blocks))'
  <2> SUFFICES ASSUME client.result = "open"
               PROVE  StopsTold(r, Upcoming, arrived, Len(trace.blocks))'
    OBVIOUS
  <2>1. StopsTold(r, Upcoming, arrived, Len(trace.blocks))
    BY DEF StreamReported
  <2> QED BY <1>1, <1>3, <1>4, <2>1 DEF StopsTold
<1>7. CountsRight'
  BY DEF StreamReported, CountsRight
<1> QED BY <1>1, <1>2, <1>5, <1>6, <1>7 DEF StreamReported

\* Sending an event tells the operator nothing.
LEMMA SentIsReported ==
  ASSUME Copying, HeardInOrder, ReportedInOrder, NEW e, SendsEvent(e)
  PROVE  ReportedInOrder'
<1>0. /\ Typed /\ source \in Sources /\ arrived \in Arrivals /\ scenario \in Scenarios
      /\ feed = <<>> /\ ~Over /\ e \in Events
      /\ client.result = "open" /\ UNCHANGED <<scenario, r, out, client, trace>>
  BY DEF Copying, Typed, SendsEvent, Alive, Over
<1>1. Streams' = Streams /\ Chat' = Chat /\ Messages' = Messages
  BY <1>0 DEF Streams, Chat, Messages
<1>2. CASE Streams
  <2>1. feed' = Lines(e) /\ arrived' = arrived /\ StreamReported /\ BlocksRead
    BY <1>2 DEF SendsEvent, ReportedInOrder, Copying, TraceInOrder
  <2>2. ~StartUnread /\ (StartUnread' <=> e.type \in Starts)
    <3>1. Carried(feed) = {} /\ Carried(feed') = {e}
      BY <1>0, <2>1, CarriedByLines, CarriedFacts
    <3>2. Carried(feed)' = Carried(feed')
      BY DEF Carried
    <3> QED BY <3>1, <3>2 DEF StartUnread
  <2>3. /\ source.next \in Nat /\ None \notin Indices
        /\ source.open # None => source.open = source.next - 1
        /\ Messages => Len(trace.blocks) = source.next
    BY <1>0, <2>1, <2>2, BoundsAssumption, PlacesFacts
       DEF Sources, Begun, Copying, BlocksInOrder, BlocksRead
  <2>4. ToolKnown(r, StartUnread)
    BY <2>1 DEF StreamReported, ReportedAt
  <2>5. CASE e.type \in Starts
    <3>1. ~Chat /\ source'.open = source.next
      BY <2>5 DEF SendsEvent, Starts
    <3>2. Messages
      BY <1>0, <1>2, <3>1, ScenarioFacts DEF Chat, Messages, Streams
    <3>3. ToolKnown(r, StartUnread)'
      BY <2>2, <2>5 DEF ToolKnown
    <3>4. \A b \in Indices : b < Len(trace.blocks) => b # source'.open
      BY <2>3, <3>1, <3>2
    <3>5. StreamReported'
      BY <1>0, <2>1, <3>3, <3>4, SourceMoves
    <3> QED BY <1>1, <1>2, <3>5 DEF ReportedInOrder, StreamReported, ReportedAt
  <2>6. CASE e.type \notin Starts
    <3>1. source'.open \in {source.open, None} /\ source'.kind = source.kind
      BY <2>6 DEF SendsEvent
    <3>2. Told(r)' = Told(r)
      BY <1>0 DEF Told
    <3>3. ToolKnown(r, StartUnread)'
      BY <1>0, <1>1, <2>2, <2>4, <3>1, <3>2 DEF ToolKnown
    <3>4. \A b \in Indices : b # source.open => b # source'.open
      BY <2>3, <3>1
    <3>5. StreamReported'
      BY <1>0, <2>1, <3>3, <3>4, SourceMoves
    <3> QED BY <1>1, <1>2, <3>5 DEF ReportedInOrder, StreamReported, ReportedAt
  <2> QED BY <2>5, <2>6
<1>3. CASE ~Streams
  <2>1. DocumentReported /\ r.console = <<>>
    BY <1>0, <1>3 DEF ReportedInOrder, DocumentReported
  <2>2. r'.console = <<>> /\ Told(r)' = {}
    BY <1>0, <2>1 DEF Told
  <2>3. ToldRight(r, arrived)'
    BY <2>2, FS_EmptySet DEF ToldRight
  <2>4. DocumentReported'
    BY <1>0, <2>1 DEF DocumentReported
  <2> QED BY <1>1, <1>3, <2>3, <2>4 DEF ReportedInOrder
<1> QED BY <1>2, <1>3

\* Every step keeps the operator in order.
LEMMA ReportedStep ==
  ASSUME Copying, HeardInOrder, ReportedInOrder, [Next]_vars
  PROVE  ReportedInOrder'
<1>0. /\ Typed /\ KeptIn(r) /\ source \in Sources /\ scenario \in Scenarios /\ client \in Clients
      /\ r \in Rehydrators /\ arrived \in Arrivals /\ out \in Seq(AllLines) /\ BlocksInOrder
  BY DEF Copying, Typed
<1>1. CASE \/ SendHead \/ SendPing \/ SendTail \/ SendBlockStop
           \/ \E kind \in {"text", "tool"} : SendBlockStart(kind)
           \/ \E piece \in scenario.pieces : SendText(piece)
           \/ \E fragment \in scenario.fragments : SendFragment(fragment)
  <2>1. PICK e : SendsEvent(e)
    BY <1>0, <1>1, SendIsOfEvent
  <2> QED BY <2>1, SentIsReported
<1>2. ASSUME UNCHANGED <<scenario, arrived, r, out, client, trace>>,
             ~Over' => ~Over /\ Chat /\ source'.open = source.open
      PROVE  ReportedInOrder'
  <2>1. Streams' = Streams /\ Chat' = Chat /\ Messages' = Messages
    BY <1>2 DEF Streams, Chat, Messages
  <2>2. CASE Streams
    <3>1. ToolKnown(r, StartUnread)'
      BY <1>2, <2>1 DEF ToolKnown, Chat, Messages
    <3>2. StreamReported'
      BY <1>0, <1>2, <2>2, <3>1, SourceMoves DEF ReportedInOrder
    <3> QED BY <2>1, <2>2, <3>2 DEF ReportedInOrder, StreamReported, ReportedAt
  <2>3. CASE ~Streams
    <3>1. ToldRight(r, arrived) => ToldRight(r, arrived)'
      BY <1>2 DEF ToldRight, Told, Known
    <3>2. Told(r)' = Told(r)
      BY <1>2 DEF Told
    <3> QED BY <1>2, <2>1, <2>3, <3>1, <3>2 DEF ReportedInOrder, DocumentReported
  <2> QED BY <2>2, <2>3
<1>3. CASE SendDone
  <2>1. /\ UNCHANGED <<scenario, arrived, r, out, client, trace>> /\ ~Over /\ Chat
        /\ source' = [source EXCEPT !.phase = "sentinel"]
    BY <1>3 DEF SendDone, Alive, Over, Chat
  <2>2. source'.open = source.open
    BY <1>0, <2>1 DEF Sources
  <2> QED BY <1>2, <2>1, <2>2
<1>4. ASSUME NEW how \in {"whole", "short", "failed"}, NEW left \in Remains, EndOfAnswer(how, left)
      PROVE  ReportedInOrder'
  <2>1. /\ UNCHANGED <<scenario, arrived, r, out, client, trace>>
        /\ source' = [source EXCEPT !.phase = "over", !.kind = how]
    BY <1>4 DEF EndOfAnswer
  <2>2. Over'
    BY <1>0, <2>1 DEF Sources, Over
  <2> QED BY <1>2, <2>1, <2>2
<1>5. CASE ReadLine
  BY <1>5, ReadIsReported
<1>6. CASE ReadEnd
  BY <1>6, EndIsReported
\* The telling and the feed stay, the caller goes on.
<1>7. ASSUME Streams, UNCHANGED <<scenario, source, feed, arrived>>, trace'.blocks = trace.blocks,
             SameTelling(r', r), SameReading(r', r), SameHeld(r', r)
      PROVE  /\ ToldRight(r, arrived)'
             /\ ReportedAt(r, arrived, Len(trace.blocks), StartUnread)'
             /\ Told(r') = Told(r) /\ (Holding(r)' <=> Holding(r)) /\ r'.done = r.done
  <2> DEFINE q == r'
             n == Len(trace.blocks)
  <2>1. Told(q) = Told(r) /\ (Holding(q) <=> Holding(r)) /\ q.done = r.done
    BY <1>7 DEF Told, Holding, SameTelling, SameReading, SameHeld
  <2>2. ReportedAt(r, arrived, n, StartUnread)
    BY <1>7 DEF ReportedInOrder, StreamReported
  <2>3. ReportedAt(q, arrived, n, StartUnread)
    <3>1. SameTelling(q, r) /\ SameReading(q, r) /\ SameHeld(q, r)
      BY <1>7
    <3> HIDE DEF q
    <3>2. ToldRight(q, arrived) /\ ToldOrHeld(q, arrived)
      BY <2>1, <2>2, <3>1 DEF ReportedAt, ToldRight, ToldOrHeld, SameTelling
    <3>3. HeldByReader(q) /\ (q.block # None => q.block < n)
      BY <2>2, <3>1 DEF ReportedAt, HeldByReader, SameReading, SameHeld
    <3>4. ToolKnown(q, StartUnread)
      BY <2>1, <2>2, <3>1 DEF ReportedAt, ToolKnown, SameReading, SameTelling
    <3> QED BY <2>2, <3>2, <3>3, <3>4 DEF ReportedAt
  <2>4. r' = q /\ arrived' = arrived /\ Len(trace.blocks)' = n
        /\ (StartUnread' <=> StartUnread) /\ StartUnread \in BOOLEAN
    BY <1>7 DEF StartUnread, Carried
  <2>5. Holding(r)' <=> Holding(q)
    BY DEF Holding
  <2> HIDE DEF q, n
  <2>6. ReportedAt(r, arrived, Len(trace.blocks), StartUnread)'
    BY <1>7, <2>3, <2>4, ReportedAtNext
  <2> QED BY <2>1, <2>4, <2>5, <2>6 DEF ReportedAt
<1>8. CASE Deliver
  <2>1. /\ client.result = "open" /\ out # <<>> /\ client' = Upcoming /\ out' = <<>>
        /\ UNCHANGED <<scenario, source, feed, arrived, r, trace>>
    BY <1>8 DEF Deliver, Upcoming
  <2>2. Streams /\ StreamReported
    BY <2>1 DEF HeardInOrder, ReportedInOrder
  <2>3. client'.result = "open"
    BY <1>0, <2>1, TakenResult DEF Upcoming
  <2>4. Upcoming' = Upcoming
    <3>1. Upcoming' = Taken(client', <<>>)
      BY <2>1 DEF Upcoming
    <3> QED BY <2>1, <3>1, TakenNone
  <2>5. Streams' = Streams /\ Chat' = Chat
    BY <2>1 DEF Streams, Chat
  <2>6. SameTelling(r', r) /\ SameReading(r', r) /\ SameHeld(r', r)
    BY <2>1 DEF SameTelling, SameReading, SameHeld
  <2>7. /\ ToldRight(r, arrived)' /\ ReportedAt(r, arrived, Len(trace.blocks), StartUnread)'
        /\ (Holding(r)' <=> Holding(r))
    BY <1>7, <2>1, <2>2, <2>6
  <2>8. /\ StopsTold(r, client, arrived, Len(trace.blocks))'
        /\ StopsTold(r, Upcoming, arrived, Len(trace.blocks))'
    <3> DEFINE c == Upcoming
               n == Len(trace.blocks)
    <3>1. StopsTold(r, c, arrived, n) /\ client' = c /\ Upcoming' = c /\ Len(trace.blocks)' = n
      BY <2>1, <2>2, <2>4 DEF StreamReported
    <3> HIDE DEF c, n
    <3> QED BY <2>1, <3>1, StopsToldNext
  <2>9. CountsRight'
    BY <2>1, <2>2, <2>3 DEF StreamReported, CountsRight
  <2> QED BY <2>1, <2>2, <2>3, <2>4, <2>5, <2>7, <2>8, <2>9 DEF ReportedInOrder, StreamReported
<1>9. ASSUME Streams, client.result = "open", UNCHANGED <<scenario, source, feed, arrived, out>>,
             trace' = Filed(trace), r' = ReportUsage(r), NEW end \in {"end", "error", "hung up"},
             client' = [client EXCEPT !.result = end], end # "hung up" => r.done
      PROVE  ReportedInOrder'
  <2> DEFINE p == r'
  <2>1. /\ p \in Rehydrators /\ SameReading(p, r) /\ SameHeld(p, r) /\ SameTelling(p, r)
        /\ p.model = r.model /\ p.input = r.input /\ p.usageSent
        /\ p.usage = (IF r.usageSent \/ ~r.model THEN r.usage
                      ELSE Append(r.usage, <<r.input, r.output>>))
    BY <1>0, <1>9, ReportUsageFields
  <2>2. /\ client'.result = end /\ client'.done = client.done /\ client'.stopped = client.stopped
        /\ client'.event = client.event
    BY <1>0, <1>9 DEF Clients
  <2>3. trace'.blocks = trace.blocks
    BY <1>9 DEF Filed, Copying, Typed, Traces
  <2>4. Streams' = Streams /\ Chat' = Chat /\ StreamReported
    BY <1>9 DEF Streams, Chat, ReportedInOrder
  <2>5. /\ ToldRight(r, arrived)' /\ ReportedAt(r, arrived, Len(trace.blocks), StartUnread)'
        /\ (Holding(r)' <=> Holding(r)) /\ Told(p) = Told(r) /\ p.done = r.done
    BY <1>7, <1>9, <2>1, <2>3
  <2>6. StopsTold(r, client, arrived, Len(trace.blocks))'
    <3> DEFINE c == client'
               n == Len(trace.blocks)
    <3>1. StopsOf(c) = StopsOf(client)
      BY <2>2 DEF StopsOf
    <3>2. StopsTold(p, c, arrived, n)
      BY <2>4, <2>5, <3>1 DEF StreamReported, StopsTold
    <3>3. r' = p /\ arrived' = arrived /\ client' = c /\ Len(trace.blocks)' = n
      BY <1>9, <2>3
    <3> HIDE DEF c, n, p
    <3> QED BY <1>9, <3>2, <3>3, StopsToldNext
  <2>7. CountsRight'
    <3>1. CountsRight
      BY <2>4 DEF StreamReported
    <3>2. CASE r.usageSent
      BY <2>1, <2>2, <3>1, <3>2 DEF CountsRight
    <3>3. CASE ~r.usageSent
      <4>1. r.usage = <<>> /\ (r.model => r.input = 1) /\ r.output \in {0, 1}
        BY <1>0, <3>1, <3>3 DEF CountsRight, Rehydrators
      <4>2. p.model => p.input = 1 /\ p.usage = Append(<<>>, <<1, r.output>>)
        BY <2>1, <3>3, <4>1
      <4>3. \A v : Append(<<>>, v) = <<v>> /\ Len(<<v>>) = 1 /\ <<v>>[1] = v
        BY AppendedOne
      <4> DEFINE v == <<1, r.output>>
      <4>4. v \in {<<1, 0>>, <<1, 1>>}
        BY <4>1
      <4> HIDE DEF v
      <4>5. p.model => p.input = 1 /\ Len(p.usage) = 1 /\ p.usage[1] = v
        BY <4>2, <4>3 DEF v
      <4> QED BY <2>1, <2>2, <4>4, <4>5 DEF CountsRight
    <3> QED BY <3>2, <3>3
  <2> QED BY <1>9, <2>2, <2>4, <2>5, <2>6, <2>7 DEF ReportedInOrder, StreamReported
<1>10. CASE Finish
  <2> DEFINE end == IF r.readErr THEN "error" ELSE "end"
  <2>1. /\ Streams /\ client.result = "open" /\ r.done
        /\ UNCHANGED <<scenario, source, feed, arrived, out>> /\ r' = ReportUsage(r)
        /\ client' = [client EXCEPT !.result = end] /\ trace' = Filed(trace)
    BY <1>10 DEF Finish
  <2>2. end \in {"end", "error", "hung up"}
    OBVIOUS
  <2> HIDE DEF end
  <2> QED BY <1>9, <2>1, <2>2
<1>11. CASE HangUp
  BY <1>9, <1>11 DEF HangUp
<1>12. CASE Buffered
  <2>1. /\ ~Streams /\ client.result = "open" /\ UNCHANGED <<scenario, arrived>>
        /\ DocumentReported /\ r.console = <<>> /\ ToldRight(r, arrived) /\ ~r.model
    BY <1>12 DEF Buffered, ReportedInOrder, DocumentReported
  <2>2. Streams' = Streams
    BY <2>1 DEF Streams
  <2>3. CASE source.kind # "whole"
    <3>1. client' = [client EXCEPT !.result = "error"] /\ r' = r
      BY <1>12, <2>3 DEF Buffered
    <3>2. client'.result = "error" /\ client'.done = client.done /\ client'.stopped = client.stopped
          /\ client'.event = client.event
      BY <1>0, <3>1 DEF Clients
    <3>3. ToldRight(r, arrived)'
      BY <2>1, <3>1 DEF ToldRight, Told, Known
    <3> QED BY <2>1, <2>2, <3>1, <3>2, <3>3 DEF ReportedInOrder, DocumentReported
  <2>4. CASE source.kind = "whole"
    <3> DEFINE rr == [r EXCEPT !.usage = <<<<1, 1>>>>]
               p == CallsReported(rr)
    <3>1. r' = p /\ \E s, t : client' = [client EXCEPT !.result = "end", !.text = s, !.args = t]
      BY <1>12, <2>4 DEF Buffered
    <3>2. client'.result = "end" /\ client'.done = client.done /\ client'.stopped = client.stopped
          /\ client'.event = client.event
      BY <1>0, <3>1 DEF Clients
    <3>3. rr \in Rehydrators /\ rr.console = <<>> /\ KeptIn(rr) /\ rr.model = r.model
      <4>1. <<1, 1>> \in {0, 1} \X {0, 1}
        OBVIOUS
      <4> DEFINE once == <<<<1, 1>>>>
      <4>2. once \in Seq({0, 1} \X {0, 1})
        BY <4>1
      <4> HIDE DEF once
      <4>3. [r EXCEPT !.usage = once] \in Rehydrators
        BY <1>0, <4>2 DEF Rehydrators
      <4>4. LET v == [r EXCEPT !.usage = once]
            IN  v.console = r.console /\ v.model = r.model /\ KeptIn(v)
        BY <1>0 DEF Rehydrators, KeptIn
      <4> QED BY <2>1, <4>3, <4>4 DEF once
    <3> HIDE DEF rr
    <3>4. SameCounts(p, rr) /\ ToldRight(p, arrived) /\ Told(p) = arrived.tools
      BY <1>0, <3>3, ScenarioFacts, CallsReportedFields
    <3> HIDE DEF p
    <3>5. ToldRight(r, arrived)' /\ Told(r)' = arrived.tools
      BY <2>1, <3>1, <3>4 DEF ToldRight, Told, Known
    <3>6. ~r'.model
      BY <2>1, <3>1, <3>3, <3>4 DEF SameCounts
    <3> QED BY <2>1, <2>2, <3>2, <3>5, <3>6 DEF ReportedInOrder, DocumentReported
  <2> QED BY <2>3, <2>4
<1>13. CASE UNCHANGED vars
  <2>1. UNCHANGED <<scenario, source, feed, arrived, r, out, client, trace>>
    BY <1>13 DEF vars
  <2>2. StartUnread' = StartUnread /\ Upcoming' = Upcoming /\ Streams' = Streams /\ Chat' = Chat
    BY <2>1 DEF StartUnread, Carried, Upcoming, Streams, Chat
  <2>3. CASE ~Streams
    <3>1. ToldRight(r, arrived) => ToldRight(r, arrived)'
      BY <2>1 DEF ToldRight, Told, Known
    <3>2. Told(r)' = Told(r)
      BY <2>1 DEF Told
    <3> QED BY <2>1, <2>2, <2>3, <3>1, <3>2 DEF ReportedInOrder, DocumentReported
  <2>4. CASE Streams
    <3>1. StreamReported
      BY <2>4 DEF ReportedInOrder
    <3>2. ToolKnown(r, StartUnread)'
      <4>1. Told(r)' = Told(r) /\ Messages' = Messages /\ Over' = Over
        BY <2>1 DEF Told, Messages, Over
      <4> QED BY <2>1, <2>2, <3>1, <4>1 DEF StreamReported, ReportedAt, ToolKnown
    <3>3. Over' = Over
      BY <2>1 DEF Over
    <3>4. StreamReported'
      BY <1>0, <2>1, <3>1, <3>2, <3>3, SourceMoves
    <3> QED BY <2>2, <2>4, <3>4 DEF ReportedInOrder, StreamReported, ReportedAt
  <2> QED BY <2>3, <2>4
<1> QED BY <1>1, <1>3, <1>4, <1>5, <1>6, <1>8, <1>10, <1>11, <1>12, <1>13 DEF Next

\* The third layer of the invariant holds in every state.
LEMMA ReportingAlways == Spec => []ReportedInOrder
<1>1. Init => ReportedInOrder
  <2> SUFFICES ASSUME Init PROVE ReportedInOrder
    OBVIOUS
  <2>1. /\ r.console = <<>> /\ r.argumentsIn = NoEvent /\ ~r.observing /\ r.arguments = <<>>
        /\ r.pending = <<>> /\ r.block = None /\ ~r.done /\ ~r.model /\ ~r.usageSent /\ r.usage = <<>>
    BY DEF Init, NewRehydrator
  <2>2. /\ client.result = "open" /\ ~client.done /\ client.stopped = {} /\ client.event = NoEvent
        /\ out = <<>> /\ feed = <<>> /\ source.open = None
        /\ trace.blocks = <<>> /\ arrived.tools = {} /\ arrived.args = Nothing
    BY DEF Init
  <2>3. Told(r) = {}
    BY <2>1 DEF Told
  <2>4. ToldRight(r, arrived)
    <3>1. Len(r.console) = Cardinality({}) /\ DOMAIN r.console = {}
      BY <2>1, FS_EmptySet
    <3> QED BY <2>3, <3>1 DEF ToldRight
  <2>5. ASSUME Streams PROVE StreamReported
    <3>1. Upcoming = client
      BY <2>2, TakenNone DEF Upcoming
    <3>2. StopsOf(client) = {}
      BY <2>2 DEF StopsOf, NoEvent, Event
    <3>3. ToolsArrived(arrived, Len(trace.blocks))
      BY <2>2 DEF ToolsArrived, Nothing
    <3>4. HeldByReader(r) /\ ToldOrHeld(r, arrived) /\ ToolKnown(r, StartUnread) /\ ~Holding(r)
      BY <2>1, <2>2, <2>3 DEF HeldByReader, ToldOrHeld, ToolKnown, Holding
    <3>5. CountsRight
      BY <2>1, <2>2 DEF CountsRight
    <3> QED BY <2>1, <2>2, <2>4, <3>1, <3>2, <3>3, <3>4, <3>5 DEF StreamReported, ReportedAt, StopsTold
  <2> QED BY <2>1, <2>2, <2>4, <2>5 DEF ReportedInOrder, DocumentReported
<1>2. Copying /\ HeardInOrder /\ ReportedInOrder /\ [Next]_vars => ReportedInOrder'
  BY ReportedStep
<1> QED BY <1>1, <1>2, CopyingAlways, HearingAlways, PTL DEF Spec

\* The operator hears of the answer once: of its cost, also when the caller goes away,
\* and of every tool call whose arguments arrived, under its own tool and with what the
\* caller gets, no later than the caller has the call whole (ReportUsage, reportArguments
\* and flush of the streamRehydrator, reportToolCalls).
THEOREM AnswersReported == Spec => []ReportedOnce
<1>1. ReportedInOrder => ReportedOnce
  <2> SUFFICES ASSUME ReportedInOrder PROVE ReportedOnce
    OBVIOUS
  <2>1. ToldRight(r, arrived)
    BY DEF ReportedInOrder
  <2>2. client.result # "open" /\ r.model => Len(r.usage) = 1 /\ r.usage[1] \in {<<1, 0>>, <<1, 1>>}
    <3>1. CASE Streams
      BY <3>1 DEF ReportedInOrder, StreamReported, CountsRight
    <3> QED BY <3>1 DEF ReportedInOrder, DocumentReported
  <2>3. ASSUME NEW b \in arrived.tools, Complete(b) PROVE b \in Told(r)
    <3>1. CASE ~Streams
      BY <2>3, <3>1 DEF ReportedInOrder, DocumentReported, Complete
    <3>2. CASE Streams
      <4>1. StreamReported
        BY <3>2 DEF ReportedInOrder
      <4>2. CASE b \in client.stopped
        BY <4>1, <4>2 DEF StreamReported, StopsTold, StopsOf
      <4>3. CASE client.done
        BY <4>1, <4>3 DEF StreamReported, ReportedAt, ToolsArrived
      <4>4. CASE client.result \in {"end", "error"}
        BY <4>1, <4>4 DEF StreamReported, ReportedAt, ToldOrHeld
      <4> QED BY <2>3, <3>2, <4>2, <4>3, <4>4 DEF Complete
    <3> QED BY <3>1, <3>2
  <2> QED BY <2>1, <2>2, <2>3 DEF ReportedOnce, ToldRight, Told
<1> QED BY <1>1, ReportingAlways, PTL
=============================================================================
