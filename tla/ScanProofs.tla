----------------------------- MODULE ScanProofs -----------------------------
(***************************************************************************)
(* Theorems about Scan for every catalogue and every text: each value      *)
(* between boundaries is claimed, and the matches kept are disjoint and    *)
(* have beaten all the others.                                             *)
(*                                                                         *)
(* The argument for the spans: what a grouped pattern has claimed are the  *)
(* values before its cursor, and no value is at the cursor itself unless   *)
(* the scan (re)begins at the first piece.  For the survivors: whatever is *)
(* kept ends before anything still to come begins, what is picked from a   *)
(* cluster comes before what is left of it, and each match dropped has a   *)
(* winner.                                                                 *)
(***************************************************************************)
EXTENDS Scan, TLAPS

Spans == {m \in [pattern: Patterns, start: Nat, end: Nat] : 1 <= m.start /\ m.start < m.end}

Typed ==
  /\ text \in Seq(Pieces) /\ hits \in [Patterns -> HitSets] /\ inCode \in BOOLEAN
  /\ pattern \in Nat \ {0} /\ from \in Nat \ {0} /\ cursor \in Nat \ {0}
  /\ claimed \subseteq Spans
  /\ phase \in {"scan", "cluster", "pick", "done"}
  /\ reach \in Nat

-----------------------------------------------------------------------------
(* The spans. *)

\* No value begins at the cursor, or none that was not looked for there.
Boundary ==
  /\ from <= cursor
  /\ from = 1 \/ from > Len(text) \/ text[from] = "end"
  /\ cursor # from => cursor \notin Values

ValuesBefore == {i \in Values : i < cursor}

GroupedSoFar ==
  /\ ClaimedBy(pattern) = {Match(pattern, i, i + 1) : i \in ValuesBefore}
  /\ Boundary

RefinedSoFar ==
  /\ \A i \in Accounts : i < from => \E m \in ClaimedBy(pattern) : m.start <= i /\ i < m.end
  /\ \A m \in ClaimedBy(pattern) : text[m.start] = "value" => m.end = m.start + 1

SoFar ==
  /\ \A m \in claimed : m.pattern <= pattern
  /\ pattern \in Patterns /\ Catalogue[pattern].kind = "grouped" => GroupedSoFar
  /\ pattern \in Patterns /\ Catalogue[pattern].kind = "refined" => RefinedSoFar

-----------------------------------------------------------------------------
(* The survivors. *)

InPlay == waiting \union cluster \union picked

Resolved ==
  /\ InPlay \union kept \subseteq Candidates
  /\ phase = "scan" => InPlay = {} /\ kept = {}
  /\ phase = "cluster" => picked = {}
  /\ phase = "done" => InPlay = {}
  /\ \A a, b \in picked : Overlap(a, b) => a = b
  /\ \A a, b \in kept : Overlap(a, b) => a = b
  /\ \A k \in kept : \A m \in InPlay : k.end <= m.start
  /\ \A m \in cluster \union picked : m.end <= reach
  /\ phase = "pick" => \A w \in waiting : reach <= w.start
  /\ \A o \in picked : \A c \in cluster : Before(o, c)
  /\ phase # "scan" => \A m \in Candidates \ (InPlay \union kept) :
       \E k \in picked \union kept : Overlap(k, m) /\ Before(k, m)

SInv == Typed /\ EveryValueClaimed /\ SoFar /\ Resolved

-----------------------------------------------------------------------------
LEMMA CatalogueFacts ==
  /\ Patterns = 1..Len(Catalogue) /\ Len(Catalogue) \in Nat
  /\ \A p \in Patterns : Catalogue[p] \in Entries
BY CatalogueAssumption DEF Patterns

LEMMA TextFacts ==
  ASSUME Typed
  PROVE  /\ Len(text) \in Nat
         /\ \A i \in 1..Len(text) : text[i] \in Pieces
BY DEF Typed

LEMMA SInvInit == Init => SInv
<1> SUFFICES ASSUME Init PROVE SInv
  OBVIOUS
<1>1. Typed
  BY TextsAssumption DEF Init, Typed
<1>2. EveryValueClaimed
  BY CatalogueFacts DEF Init, EveryValueClaimed
<1>3. SoFar
  <2>1. \A i \in 1..Len(text) : ~(i < 1)
    BY <1>1, TextFacts
  <2>2. ValuesBefore = {} /\ Boundary /\ \A i \in Accounts : ~(i < from)
    BY <2>1 DEF Init, ValuesBefore, Values, Accounts, Boundary
  <2>3. claimed = {} /\ \A p : ClaimedBy(p) = {}
    BY DEF Init, ClaimedBy
  <2> QED BY <2>2, <2>3 DEF SoFar, GroupedSoFar, RefinedSoFar
<1>4. Resolved
  BY DEF Init, Resolved, InPlay
<1> QED BY <1>1, <1>2, <1>3, <1>4 DEF SInv

-----------------------------------------------------------------------------
(* Spans, step by step. *)

\* A value found by a grouped pattern stands between boundaries.
LEMMA FoundIsValue ==
  ASSUME Typed, NEW b \in Nat \ {0}, NEW c \in Nat, b <= c,
         b = 1 \/ b > Len(text) \/ text[b] = "end",
         NEW i \in FoundFrom(b, c)
  PROVE  i \in Values /\ i >= c /\ i \in 1..Len(text)
<1>1. i \in 1..Len(text) /\ text[i] \in Shaped /\ Ends(i + 1)
  BY DEF FoundFrom
<1>2. CASE i = b /\ c = b
  <2>1. i = 1
    BY <1>1, <1>2, TextFacts DEF Shaped
  <2> QED BY <1>1, <1>2, <2>1 DEF Values
<1>3. CASE i > c /\ text[i - 1] = "end"
  BY <1>1, <1>3 DEF Values
<1> QED BY <1>2, <1>3 DEF FoundFrom

\* The first value found is the next one.
LEMMA NextValue ==
  ASSUME Typed, Boundary, NEW k \in Values, cursor <= k
  PROVE  k \in FoundFrom(from, cursor)
<1>1. k \in 1..Len(text) /\ text[k] \in Shaped /\ Ends(k + 1)
  BY DEF Values
<1>2. CASE k = cursor
  BY <1>1, <1>2 DEF Boundary, FoundFrom
<1>3. CASE k # cursor
  <2>1. k > cursor /\ k # 1
    BY <1>1, <1>3 DEF Typed
  <2> QED BY <1>1, <2>1 DEF Values, FoundFrom
<1> QED BY <1>2, <1>3

\* A value hidden behind another is the one after the boundary they share.
LEMMA HiddenIsNext ==
  ASSUME Typed, NEW i \in Values
  PROVE  /\ \A j \in Hidden(i) : j = i + 2 /\ j \in Values
         /\ i + 2 \in Values => Hidden(i) = {i + 2}
         /\ i + 1 \notin Values
<1>1. i \in 1..Len(text) /\ Ends(i + 1) /\ Len(text) \in Nat
  BY TextFacts DEF Values
<1>2. i + 1 > Len(text) \/ text[i + 1] = "end"
  BY <1>1 DEF Ends
<1>3. ASSUME NEW j \in FoundFrom(i + 1, i + 1)
      PROVE  j \in Values /\ j >= i + 1 /\ j # i + 1 /\ j \in 1..Len(text)
  <2>1. j \in Values /\ j >= i + 1 /\ j \in 1..Len(text)
    BY <1>1, <1>2, <1>3, FoundIsValue
  <2>2. j # i + 1
    BY <1>2, <1>3, <2>1 DEF FoundFrom, Shaped
  <2> QED BY <2>1, <2>2
<1>4. i + 1 \notin Values
  BY <1>1, <1>2 DEF Values, Shaped
<1>5. ASSUME NEW j \in Hidden(i)
      PROVE  j = i + 2 /\ j \in Values
  <2>1. j \in FoundFrom(i + 1, i + 1) /\ j - 1 < MatchEnd(i)
    BY <1>5 DEF Hidden, First
  <2>2. j \in Values /\ j >= i + 1 /\ j # i + 1 /\ j \in 1..Len(text)
    BY <1>3, <2>1
  <2>3. MatchEnd(i) <= i + 2
    BY <1>1 DEF MatchEnd
  <2> QED BY <1>1, <2>1, <2>2, <2>3 DEF MatchEnd
<1>6. ASSUME i + 2 \in Values
      PROVE  Hidden(i) = {i + 2}
  <2>1. i + 2 \in 1..Len(text) /\ text[i + 2] \in Shaped /\ Ends(i + 2 + 1) /\ text[i + 1] = "end"
    BY <1>1, <1>2, <1>6 DEF Values
  <2>2. i + 2 \in FoundFrom(i + 1, i + 1)
    <3>1. i + 2 > i + 1 /\ (i + 2) - 1 = i + 1
      BY <1>1
    <3> QED BY <2>1, <3>1 DEF FoundFrom
  <2>3. i + 2 \in First(FoundFrom(i + 1, i + 1))
    <3>1. \A j \in FoundFrom(i + 1, i + 1) : i + 2 <= j
      BY <1>1, <1>3
    <3> QED BY <2>2, <3>1 DEF First
  <2>4. MatchEnd(i) = i + 2
    BY <1>1, <2>1 DEF MatchEnd
  <2>5. i + 2 \in Hidden(i)
    BY <1>1, <2>3, <2>4 DEF Hidden
  <2> QED BY <1>5, <2>5
<1> QED BY <1>4, <1>5, <1>6

\* One match of a grouped pattern takes the cursor past the values it claims.
LEMMA GroupedAdvances ==
  ASSUME Typed, Typed', Boundary, NEW i \in First(FoundFrom(from, cursor)),
         UNCHANGED text,
         IF Hidden(i) = {}
         THEN cursor' = MatchEnd(i) /\ from' = from
         ELSE \E j \in Hidden(i) : cursor' = j + 1 /\ from' = j + 1
  PROVE  /\ ValuesBefore' = ValuesBefore \union {i} \union Hidden(i)
         /\ Boundary'
<1>1. i \in Values /\ i >= cursor /\ i \in 1..Len(text) /\ Len(text) \in Nat
  BY FoundIsValue, TextFacts DEF First, Boundary, Typed
<1>2. Values' = Values
  BY DEF Values, Ends, Shaped
<1>3. \A k \in Values : k < i => k < cursor
  <2> SUFFICES ASSUME NEW k \in Values, k < i, ~(k < cursor) PROVE FALSE
    OBVIOUS
  <2>1. k \in 1..Len(text) /\ cursor <= k
    BY DEF Values, Typed
  <2>2. k \in FoundFrom(from, cursor)
    BY <2>1, NextValue
  <2> QED BY <1>1, <2>1, <2>2 DEF First
<1>4. \A k \in Values : k \in Nat
  BY DEF Values
<1>5. CASE Hidden(i) = {}
  <2>1. i + 2 \notin Values /\ i + 1 \notin Values
    BY <1>1, <1>5, HiddenIsNext
  <2>2. cursor' = MatchEnd(i) /\ from' = from
    BY <1>5
  <2>3. /\ \A k \in Values : k < cursor' => k < cursor \/ k = i
        /\ i < cursor' /\ cursor' \notin Values /\ cursor <= cursor'
    BY <1>1, <1>3, <1>4, <2>1, <2>2 DEF MatchEnd, Typed
  <2>3a. \A k \in Values : k < cursor' <=> k < cursor \/ k = i
    BY <1>4, <2>3 DEF Typed
  <2>4. ValuesBefore' = ValuesBefore \union {i}
    BY <1>1, <1>2, <2>3a DEF ValuesBefore
  <2>5. Boundary'
    BY <1>2, <2>2, <2>3 DEF Boundary, Typed
  <2> QED BY <1>5, <2>4, <2>5
<1>6. CASE Hidden(i) # {}
  <2>1. PICK j \in Hidden(i) : cursor' = j + 1 /\ from' = j + 1
    BY <1>6
  <2>2. j = i + 2 /\ j \in Values /\ Hidden(i) = {j} /\ i + 1 \notin Values
    BY <1>1, <2>1, HiddenIsNext
  <2>3. \A k \in Values : k < cursor' => k < cursor \/ k = i \/ k = j
    BY <1>1, <1>3, <1>4, <2>1, <2>2 DEF Typed
  <2>3a. \A k \in Values : k < cursor' <=> k < cursor \/ k = i \/ k = j
    BY <1>1, <1>4, <2>1, <2>2, <2>3 DEF Typed
  <2>4. ValuesBefore' = ValuesBefore \union {i} \union {j}
    BY <1>1, <1>2, <2>2, <2>3a DEF ValuesBefore
  <2>5. from' > Len(text) \/ text[from'] = "end"
    BY <2>1, <2>2 DEF Values, Ends
  <2>6. Boundary'
    BY <2>1, <2>2, <2>5 DEF Boundary, Typed
  <2> QED BY <2>2, <2>4, <2>6
<1> QED BY <1>5, <1>6

\* When nothing more is found, every value is before the cursor.
LEMMA GroupedComplete ==
  ASSUME Typed, Boundary, FoundFrom(from, cursor) = {}
  PROVE  ValuesBefore = Values
<1>1. \A k \in Values : k < cursor
  <2> SUFFICES ASSUME NEW k \in Values, ~(k < cursor) PROVE FALSE
    OBVIOUS
  <2>1. cursor <= k
    BY DEF Values, Typed
  <2> QED BY <2>1, NextValue
<1> QED BY <1>1 DEF ValuesBefore

\* A pattern is done: what holds of the patterns before it holds of it too.
LEMMA PatternDone ==
  ASSUME Typed, Typed', EveryValueClaimed, NextPattern, NEW n \in Patterns, n = pattern,
         \A m \in claimed' : m.pattern <= n,
         \A q \in Patterns : q # n => ClaimedBy(q)' = ClaimedBy(q),
         Catalogue[n].kind = "grouped" =>
           ClaimedBy(n)' = {Match(n, i, i + 1) : i \in Values},
         Catalogue[n].kind = "refined" =>
           /\ \A i \in Accounts : \E m \in ClaimedBy(n)' : m.start <= i /\ i < m.end
           /\ \A m \in ClaimedBy(n)' : text[m.start] = "value" => m.end = m.start + 1
  PROVE  EveryValueClaimed' /\ SoFar'
<1>1. pattern' = pattern + 1 /\ from' = 1 /\ cursor' = 1 /\ text' = text
  BY DEF NextPattern, inputs
<1>2. Values' = Values /\ Accounts' = Accounts
  BY <1>1 DEF Values, Accounts, Ends
<1>3. EveryValueClaimed'
  <2> SUFFICES ASSUME NEW p \in Patterns, p < pattern'
               PROVE  /\ Catalogue[p].kind = "grouped" =>
                           ClaimedBy(p)' = {Match(p, i, i + 1) : i \in Values}
                      /\ Catalogue[p].kind = "refined" =>
                           /\ \A i \in Accounts : \E m \in ClaimedBy(p)' : m.start <= i /\ i < m.end
                           /\ \A m \in ClaimedBy(p)' : text[m.start] = "value" => m.end = m.start + 1
    BY <1>1, <1>2 DEF EveryValueClaimed, Match
  <2>1. CASE p = n
    BY <2>1
  <2>2. CASE p # n
    <3>1. p < pattern /\ ClaimedBy(p)' = ClaimedBy(p)
      BY <1>1, <2>2, CatalogueFacts DEF Typed
    <3> QED BY <3>1 DEF EveryValueClaimed
  <2> QED BY <2>1, <2>2
<1>4. SoFar'
  <2>1. \A m \in claimed' : m.pattern \in Nat /\ m.pattern <= pattern' /\ m.pattern # pattern'
    BY <1>1, CatalogueFacts DEF Typed, Spans
  <2>2. ClaimedBy(pattern)' = {m \in claimed' : m.pattern = pattern'}
    BY DEF ClaimedBy
  <2>3. ClaimedBy(pattern)' = {}
    BY <2>1, <2>2
  <2>4. \A i \in 1..Len(text) : ~(i < 1)
    BY TextFacts
  <2>5. ValuesBefore' = {} /\ Boundary' /\ \A i \in Accounts' : ~(i < from')
    BY <1>1, <2>4 DEF ValuesBefore, Values, Accounts, Boundary
  <2> QED BY <2>1, <2>3, <2>5 DEF SoFar, GroupedSoFar, RefinedSoFar
<1> QED BY <1>3, <1>4

\* A stretch begins before it ends, whatever claims it.
LEMMA SpanTyped ==
  ASSUME NEW p \in Patterns, NEW a \in Nat \ {0}, NEW b \in Nat, a < b
  PROVE  Match(p, a, b) \in Spans
BY DEF Match, Spans

LEMMA GroupedTyped ==
  ASSUME Typed, Boundary, Grouped
  PROVE  Typed' /\ pattern \in Patterns
<1>1. pattern \in Patterns /\ Catalogue[pattern].kind = "grouped"
  BY DEF Grouped, Scanning
<1>2. PICK i \in First(FoundFrom(from, cursor)) :
        /\ claimed' = claimed \union {Match(pattern, k, k + 1) : k \in {i} \union Hidden(i)}
        /\ IF Hidden(i) = {}
           THEN cursor' = MatchEnd(i) /\ UNCHANGED from
           ELSE \E j \in Hidden(i) : cursor' = j + 1 /\ from' = j + 1
  BY DEF Grouped
<1>3. i \in Values /\ i \in 1..Len(text) /\ Len(text) \in Nat
  BY FoundIsValue, TextFacts DEF First, Boundary, Typed
<1>4. \A j \in Hidden(i) : j = i + 2
  BY <1>3, HiddenIsNext
<1>5. \A k \in {i} \union Hidden(i) : Match(pattern, k, k + 1) \in Spans
  <2> SUFFICES ASSUME NEW k \in {i} \union Hidden(i) PROVE Match(pattern, k, k + 1) \in Spans
    OBVIOUS
  <2>1. k \in Nat \ {0} /\ k + 1 \in Nat /\ k < k + 1
    BY <1>3, <1>4
  <2> QED BY <1>1, <2>1, SpanTyped
<1>6. claimed' \subseteq Spans
  BY <1>2, <1>5 DEF Typed
<1>7. cursor' \in Nat \ {0} /\ from' \in Nat \ {0}
  BY <1>2, <1>3, <1>4 DEF MatchEnd, Typed
<1> QED BY <1>1, <1>6, <1>7 DEF Grouped, Typed, inputs, pickVars

LEMMA RefineTyped ==
  ASSUME Typed, Refine
  PROVE  /\ Typed' /\ pattern \in Patterns
         /\ \E i \in First(AccountsFrom(from)) : \E e \in GreedyEnds(i) :
              /\ claimed' = claimed \union {Match(pattern, i, Refined(i, e))}
              /\ from' = Refined(i, e)
              /\ i \in 1..Len(text) /\ i < from' /\ from' \in Nat /\ i >= from
<1>1. pattern \in Patterns
  BY DEF Refine, Scanning
<1>2a. PICK i \in First(AccountsFrom(from)) : \E e \in GreedyEnds(i) :
        /\ claimed' = claimed \union {Match(pattern, i, Refined(i, e))}
        /\ from' = Refined(i, e)
  BY DEF Refine
<1>2. PICK e \in GreedyEnds(i) :
        /\ claimed' = claimed \union {Match(pattern, i, Refined(i, e))}
        /\ from' = Refined(i, e)
  BY <1>2a
<1>3. i \in 1..Len(text) /\ i >= from /\ Len(text) \in Nat
  BY TextFacts DEF First, AccountsFrom, Typed
<1>4. Refined(i, e) \in Nat \ {0} /\ i < Refined(i, e)
  BY <1>3 DEF Refined, GreedyEnds
<1>5. claimed' \subseteq Spans
  BY <1>1, <1>2, <1>3, <1>4, SpanTyped DEF Typed
<1>6. Typed'
  BY <1>2, <1>4, <1>5 DEF Refine, Typed, inputs, pickVars
<1> QED BY <1>1, <1>2, <1>3, <1>4, <1>6

LEMMA TypedNext == SInv /\ [Next]_vars => Typed'
<1> SUFFICES ASSUME SInv, [Next]_vars PROVE Typed'
  OBVIOUS
<1> USE DEF SInv
<1>1. CASE Plain
  <2>1. pattern \in Patterns
    BY <1>1 DEF Plain, Scanning
  <2>2. \A s \in hits[pattern] : s \in Stretches
    BY <2>1, HitsAssumption DEF Typed
  <2>3. \A s \in hits[pattern] : Match(pattern, s[1], s[2]) \in Spans
    BY <2>1, <2>2, SpanTyped DEF Stretches
  <2>4. claimed' \subseteq Spans
    BY <1>1, <2>3 DEF Plain, Typed
  <2> QED BY <1>1, <2>4 DEF Plain, NextPattern, Typed, inputs, pickVars
<1>2. CASE Grouped
  <2>1. Boundary
    BY <1>2 DEF Grouped, Scanning, SoFar, GroupedSoFar
  <2> QED BY <1>2, <2>1, GroupedTyped
<1>3. CASE GroupedEnds \/ RefineEnds
  BY <1>3 DEF GroupedEnds, RefineEnds, NextPattern, Typed, inputs, pickVars
<1>4. CASE Refine
  BY <1>4, RefineTyped
<1>5. CASE Resolve \/ Close \/ Pick \/ Keep \/ Finish
  BY <1>5 DEF Resolve, Close, Pick, Keep, Finish, Typed, inputs, scanVars, pickVars
<1>6. ASSUME Resolved, Open \/ Extend PROVE Typed'
  <2>1. waiting \subseteq Spans
    BY <1>6 DEF Resolved, InPlay, Candidates, Typed
  <2>2. reach' \in Nat
    BY <1>6, <2>1 DEF Open, Extend, Further, Spans, Typed
  <2> QED BY <1>6, <2>2 DEF Open, Extend, Typed, inputs, scanVars
<1>7. CASE UNCHANGED vars
  BY <1>7 DEF vars, Typed, inputs, scanVars, pickVars
<1> QED BY <1>1, <1>2, <1>3, <1>4, <1>5, <1>6, <1>7 DEF Next

-----------------------------------------------------------------------------
(* What is claimed, step by step. *)

\* Claims of the pattern at hand leave those of the patterns before it alone.
LEMMA ClaimsAdded ==
  ASSUME Typed, EveryValueClaimed, SoFar, UNCHANGED <<pattern, text>>,
         NEW S, \A m \in S : m.pattern = pattern, claimed' = claimed \union S
  PROVE  /\ EveryValueClaimed' /\ \A m \in claimed' : m.pattern <= pattern'
         /\ ClaimedBy(pattern)' = ClaimedBy(pattern) \union S
<1>1. \A p \in Patterns : p < pattern => p # pattern
  BY CatalogueFacts DEF Typed
<1>2. \A p \in Patterns : p < pattern => ClaimedBy(p)' = ClaimedBy(p)
  BY <1>1 DEF ClaimedBy
<1>3. Values' = Values /\ Accounts' = Accounts
  BY DEF Values, Accounts, Ends
<1>4. EveryValueClaimed'
  BY <1>2, <1>3 DEF EveryValueClaimed, Match
<1>5. \A m \in claimed' : m.pattern <= pattern'
  BY DEF SoFar, Typed
<1>6. ClaimedBy(pattern)' = ClaimedBy(pattern) \union S
  BY DEF ClaimedBy
<1> QED BY <1>4, <1>5, <1>6

LEMMA PlainClaims == SInv /\ Typed' /\ Plain => EveryValueClaimed' /\ SoFar'
<1> SUFFICES ASSUME SInv, Typed', Plain PROVE EveryValueClaimed' /\ SoFar'
  OBVIOUS
<1>1. pattern \in Patterns /\ Catalogue[pattern].kind = "plain"
  BY DEF Plain, Scanning
<1>2. PICK n \in Patterns : n = pattern
  BY <1>1
<1>3. \A m \in claimed' : m \in claimed \/ m.pattern = pattern
  BY DEF Plain, Match
<1>4. \A m \in claimed' : m.pattern <= n
  BY <1>2, <1>3, CatalogueFacts DEF SInv, SoFar
<1>5. \A q \in Patterns : q # n => ClaimedBy(q)' = ClaimedBy(q)
  BY <1>2, <1>3 DEF ClaimedBy, Plain
<1> QED BY <1>1, <1>2, <1>4, <1>5, PatternDone DEF SInv, Plain

LEMMA GroupedClaims == SInv /\ Typed' /\ Grouped => EveryValueClaimed' /\ SoFar'
<1> SUFFICES ASSUME SInv, Typed', Grouped PROVE EveryValueClaimed' /\ SoFar'
  OBVIOUS
<1>1. pattern \in Patterns /\ Catalogue[pattern].kind = "grouped" /\ UNCHANGED <<pattern, text>>
  BY DEF Grouped, Scanning, inputs
<1>2. Typed /\ GroupedSoFar /\ Boundary
  BY <1>1 DEF SInv, SoFar, GroupedSoFar
<1>3. PICK i \in First(FoundFrom(from, cursor)) :
        /\ claimed' = claimed \union {Match(pattern, k, k + 1) : k \in {i} \union Hidden(i)}
        /\ IF Hidden(i) = {}
           THEN cursor' = MatchEnd(i) /\ from' = from
           ELSE \E j \in Hidden(i) : cursor' = j + 1 /\ from' = j + 1
  BY DEF Grouped
<1>4. ValuesBefore' = ValuesBefore \union {i} \union Hidden(i) /\ Boundary'
  BY <1>1, <1>2, <1>3, GroupedAdvances
<1> DEFINE new == {Match(pattern, k, k + 1) : k \in {i} \union Hidden(i)}
<1>5. \A m \in new : m.pattern = pattern
  BY DEF Match
<1> HIDE DEF new
<1>6. claimed' = claimed \union new
  BY <1>3 DEF new
<1>7. /\ EveryValueClaimed' /\ \A m \in claimed' : m.pattern <= pattern'
      /\ ClaimedBy(pattern)' = ClaimedBy(pattern) \union new
  BY <1>1, <1>5, <1>6, ClaimsAdded DEF SInv
<1>8. ClaimedBy(pattern)' = {Match(pattern, k, k + 1) : k \in ValuesBefore'}
  BY <1>2, <1>4, <1>7 DEF GroupedSoFar, new
<1>9. GroupedSoFar'
  BY <1>1, <1>4, <1>8 DEF GroupedSoFar, Match
<1> QED BY <1>1, <1>7, <1>9 DEF SoFar

LEMMA GroupedEndsClaims == SInv /\ Typed' /\ GroupedEnds => EveryValueClaimed' /\ SoFar'
<1> SUFFICES ASSUME SInv, Typed', GroupedEnds PROVE EveryValueClaimed' /\ SoFar'
  OBVIOUS
<1>1. /\ pattern \in Patterns /\ Catalogue[pattern].kind = "grouped"
      /\ claimed' = claimed /\ NextPattern /\ FoundFrom(from, cursor) = {}
  BY DEF GroupedEnds, Scanning
<1>2. PICK n \in Patterns : n = pattern
  BY <1>1
<1>3. ClaimedBy(pattern) = {Match(pattern, i, i + 1) : i \in Values}
  BY <1>1, GroupedComplete DEF SInv, SoFar, GroupedSoFar
<1>4. \A q \in Patterns : ClaimedBy(q)' = ClaimedBy(q)
  BY <1>1 DEF ClaimedBy
<1>5. ClaimedBy(n)' = {Match(n, i, i + 1) : i \in Values}
  BY <1>2, <1>3, <1>4
<1>6. \A m \in claimed' : m.pattern <= n
  BY <1>1, <1>2 DEF SInv, SoFar
<1>7. Catalogue[n].kind # "refined"
  BY <1>1, <1>2
<1> QED BY <1>1, <1>2, <1>4, <1>5, <1>6, <1>7, PatternDone DEF SInv

LEMMA RefineClaims == SInv /\ Typed' /\ Refine => EveryValueClaimed' /\ SoFar'
<1> SUFFICES ASSUME SInv, Typed', Refine PROVE EveryValueClaimed' /\ SoFar'
  OBVIOUS
<1>1. pattern \in Patterns /\ Catalogue[pattern].kind = "refined" /\ UNCHANGED <<pattern, text>>
  BY DEF Refine, Scanning, inputs
<1>2. Typed /\ RefinedSoFar
  BY <1>1 DEF SInv, SoFar
<1>3. PICK i \in First(AccountsFrom(from)) : \E e \in GreedyEnds(i) :
        /\ claimed' = claimed \union {Match(pattern, i, Refined(i, e))}
        /\ from' = Refined(i, e)
        /\ i \in 1..Len(text) /\ i < from' /\ from' \in Nat /\ i >= from
  BY <1>2, RefineTyped
<1> DEFINE m0 == Match(pattern, i, from')
<1>4. /\ claimed' = claimed \union {m0}
      /\ m0.pattern = pattern /\ m0.start = i /\ m0.end = from'
      /\ text[i] = "value" => from' = i + 1
  BY <1>3 DEF Match, Refined
<1> HIDE DEF m0
<1>5. /\ EveryValueClaimed' /\ \A m \in claimed' : m.pattern <= pattern'
      /\ ClaimedBy(pattern)' = ClaimedBy(pattern) \union {m0}
  BY <1>1, <1>4, ClaimsAdded DEF SInv
<1>6. \A k \in Accounts : k < from' => k < from \/ (i <= k /\ k < from')
  <2> SUFFICES ASSUME NEW k \in Accounts, ~(k < from), ~(i <= k) PROVE FALSE
    BY DEF Accounts, Typed
  <2>1. k \in 1..Len(text) /\ text[k] \in Shaped /\ (k = 1 \/ text[k - 1] = "end")
    BY DEF Accounts
  <2>2. k = from \/ k > from
    BY <1>2, <2>1, TextFacts DEF Typed
  <2>3. k \in AccountsFrom(from)
    BY <1>2, <2>1, <2>2 DEF AccountsFrom, Typed
  <2> QED BY <2>3 DEF First
<1>7. \A k \in Accounts : k < from' => \E m \in ClaimedBy(pattern)' : m.start <= k /\ k < m.end
  <2> SUFFICES ASSUME NEW k \in Accounts, k < from'
               PROVE  \E m \in ClaimedBy(pattern)' : m.start <= k /\ k < m.end
    OBVIOUS
  <2>1. CASE k < from
    BY <1>2, <1>5, <2>1 DEF RefinedSoFar
  <2>2. CASE i <= k
    BY <1>4, <1>5, <2>2
  <2> QED BY <1>6, <2>1, <2>2
<1>8. \A m \in ClaimedBy(pattern)' : text[m.start] = "value" => m.end = m.start + 1
  BY <1>2, <1>4, <1>5 DEF RefinedSoFar
<1>9. Accounts' = Accounts
  BY <1>1 DEF Accounts
<1>10. RefinedSoFar'
  BY <1>1, <1>7, <1>8, <1>9 DEF RefinedSoFar
<1> QED BY <1>1, <1>5, <1>10 DEF SoFar

LEMMA RefineEndsClaims == SInv /\ Typed' /\ RefineEnds => EveryValueClaimed' /\ SoFar'
<1> SUFFICES ASSUME SInv, Typed', RefineEnds PROVE EveryValueClaimed' /\ SoFar'
  OBVIOUS
<1>1. /\ pattern \in Patterns /\ Catalogue[pattern].kind = "refined"
      /\ claimed' = claimed /\ NextPattern /\ AccountsFrom(from) = {} /\ text' = text
  BY DEF RefineEnds, Scanning, NextPattern, inputs
<1>2. PICK n \in Patterns : n = pattern
  BY <1>1
<1>3. \A k \in Accounts : k < from
  <2> SUFFICES ASSUME NEW k \in Accounts, ~(k < from) PROVE FALSE
    OBVIOUS
  <2>1. k \in 1..Len(text) /\ text[k] \in Shaped /\ (k = 1 \/ text[k - 1] = "end")
    BY DEF Accounts
  <2>2. k = from \/ k > from
    BY <2>1, TextFacts DEF SInv, Typed
  <2> QED BY <1>1, <2>1, <2>2 DEF AccountsFrom, SInv, Typed
<1>4. \A q \in Patterns : ClaimedBy(q)' = ClaimedBy(q)
  BY <1>1 DEF ClaimedBy
<1>5. RefinedSoFar
  BY <1>1 DEF SInv, SoFar
<1>6. /\ \A i \in Accounts : \E m \in ClaimedBy(n)' : m.start <= i /\ i < m.end
      /\ \A m \in ClaimedBy(n)' : text[m.start] = "value" => m.end = m.start + 1
  BY <1>2, <1>3, <1>4, <1>5 DEF RefinedSoFar
<1>7. \A m \in claimed' : m.pattern <= n
  BY <1>1, <1>2 DEF SInv, SoFar
<1>8. Catalogue[n].kind # "grouped"
  BY <1>1, <1>2
<1> QED BY <1>1, <1>2, <1>4, <1>6, <1>7, <1>8, PatternDone DEF SInv

LEMMA ClaimsNext == SInv /\ Typed' /\ [Next]_vars => EveryValueClaimed' /\ SoFar'
<1> SUFFICES ASSUME SInv, Typed', [Next]_vars PROVE EveryValueClaimed' /\ SoFar'
  OBVIOUS
<1>1. ASSUME UNCHANGED <<inputs, scanVars>> PROVE EveryValueClaimed' /\ SoFar'
  <2>1. /\ text' = text /\ pattern' = pattern /\ from' = from
        /\ cursor' = cursor /\ claimed' = claimed
    BY <1>1 DEF inputs, scanVars
  <2>2. Values' = Values /\ Accounts' = Accounts
    BY <2>1 DEF Values, Accounts, Ends
  <2>3. ValuesBefore' = ValuesBefore
    BY <2>1, <2>2 DEF ValuesBefore
  <2>4. EveryValueClaimed'
    BY <2>1, <2>2 DEF SInv, EveryValueClaimed, ClaimedBy, Match
  <2>5. SoFar'
    BY <2>1, <2>2, <2>3
    DEF SInv, SoFar, GroupedSoFar, RefinedSoFar, Boundary, ClaimedBy, Match
  <2> QED BY <2>4, <2>5
<1>2. CASE Resolve \/ Open \/ Extend \/ Close \/ Pick \/ Keep \/ Finish \/ UNCHANGED vars
  BY <1>1, <1>2 DEF Resolve, Open, Extend, Close, Pick, Keep, Finish, vars, inputs, scanVars
<1> QED BY <1>2, PlainClaims, GroupedClaims, GroupedEndsClaims, RefineClaims, RefineEndsClaims DEF Next

-----------------------------------------------------------------------------
(* The survivors, step by step. *)

LEMMA CandidatesKept ==
  ASSUME UNCHANGED <<inputs, scanVars>>
  PROVE  Candidates' = Candidates
BY DEF Candidates, Reportable, inputs, scanVars

LEMMA CandidateFacts ==
  ASSUME Typed, NEW m \in Candidates
  PROVE  /\ m.start \in Nat /\ m.end \in Nat /\ m.start < m.end
         /\ m.pattern \in Patterns /\ Secret(m) \in BOOLEAN
BY CatalogueFacts DEF Typed, Candidates, Spans, Secret, Entries

\* While the scan goes on there is nothing to resolve.
LEMMA ScanningKeeps ==
  ASSUME SInv, phase = "scan", UNCHANGED <<phase, pickVars>>
  PROVE  Resolved'
BY DEF SInv, Resolved, InPlay, pickVars

LEMMA OpenKeeps == SInv /\ Open => Resolved'
<1> SUFFICES ASSUME SInv, Open PROVE Resolved'
  OBVIOUS
<1>1. Candidates' = Candidates
  BY CandidatesKept DEF Open
<1>2. PICK m \in waiting :
        /\ \A w \in waiting : m.start <= w.start
        /\ waiting' = waiting \ {m} /\ cluster' = {m} /\ reach' = m.end
  BY DEF Open
<1>3. /\ phase = "cluster" /\ cluster = {} /\ picked = {}
      /\ UNCHANGED <<phase, picked, kept>>
  BY DEF Open, SInv, Resolved
<1>4. InPlay' = InPlay /\ m \in InPlay
  BY <1>2, <1>3 DEF InPlay
<1>5. m.end <= m.end
  BY <1>4, CandidateFacts DEF SInv, Resolved
<1> QED BY <1>1, <1>2, <1>3, <1>4, <1>5 DEF SInv, Resolved

LEMMA ExtendKeeps == SInv /\ Extend => Resolved'
<1> SUFFICES ASSUME SInv, Extend PROVE Resolved'
  OBVIOUS
<1>1. Candidates' = Candidates
  BY CandidatesKept DEF Extend
<1>2. PICK m \in waiting :
        waiting' = waiting \ {m} /\ cluster' = cluster \union {m} /\ reach' = Further(m)
  BY DEF Extend
<1>3. phase = "cluster" /\ picked = {} /\ UNCHANGED <<phase, picked, kept>>
  BY DEF Extend, SInv, Resolved
<1>4. InPlay' = InPlay
  BY <1>2, <1>3 DEF InPlay
<1>5. \A c \in cluster : c.end \in Nat /\ c.end <= reach
  BY CandidateFacts DEF SInv, Resolved, InPlay
<1>6. m.end \in Nat
  BY CandidateFacts DEF SInv, Resolved, InPlay
<1>7. \A c \in cluster' : c.end <= reach'
  BY <1>2, <1>5, <1>6 DEF Further, SInv, Typed
<1> QED BY <1>1, <1>2, <1>3, <1>4, <1>7 DEF SInv, Resolved

LEMMA CloseKeeps == SInv /\ Close => Resolved'
<1> SUFFICES ASSUME SInv, Close PROVE Resolved'
  OBVIOUS
<1>1. Candidates' = Candidates /\ InPlay' = InPlay
  BY CandidatesKept DEF Close, InPlay, pickVars
<1>2. \A w \in waiting : w.start \in Nat /\ reach <= w.start
  BY CandidateFacts DEF Close, SInv, Resolved, InPlay, Typed
<1> QED BY <1>1, <1>2 DEF Close, pickVars, SInv, Resolved

LEMMA PickKeeps == SInv /\ Pick => Resolved'
<1> SUFFICES ASSUME SInv, Pick PROVE Resolved'
  OBVIOUS
<1>1. Candidates' = Candidates
  BY CandidatesKept DEF Pick
<1>2. PICK m \in cluster :
        /\ \A c \in cluster \ {m} : Before(m, c)
        /\ cluster' = cluster \ {m}
        /\ picked' = IF \E o \in picked : Overlap(m, o) THEN picked ELSE picked \union {m}
  BY DEF Pick
<1>3. phase = "pick" /\ UNCHANGED <<phase, waiting, reach, kept>>
  BY DEF Pick
<1>4. InPlay' \subseteq InPlay /\ picked \subseteq picked'
  BY <1>2, <1>3 DEF InPlay
<1>5. \A a, b : Overlap(a, b) => Overlap(b, a)
  BY DEF Overlap
<1>6. \A a, b \in picked' : Overlap(a, b) => a = b
  BY <1>2, <1>5 DEF SInv, Resolved
<1>7. \A c \in cluster' \union picked' : c.end <= reach'
  BY <1>2, <1>3 DEF SInv, Resolved
<1>8. \A o \in picked' : \A c \in cluster' : Before(o, c)
  BY <1>2 DEF SInv, Resolved
<1>9. \A c \in Candidates \ (InPlay' \union kept') :
        \E k \in picked' \union kept' : Overlap(k, c) /\ Before(k, c)
  <2> SUFFICES ASSUME NEW c \in Candidates \ (InPlay' \union kept')
               PROVE  \E k \in picked' \union kept' : Overlap(k, c) /\ Before(k, c)
    OBVIOUS
  <2>1. CASE c = m
    <3>1. \E o \in picked : Overlap(m, o)
      BY <1>2, <2>1 DEF InPlay
    <3>2. PICK o \in picked : Overlap(o, m)
      BY <1>5, <3>1
    <3>3. Before(o, m)
      BY <3>2 DEF SInv, Resolved
    <3> QED BY <1>4, <2>1, <3>2, <3>3
  <2>2. CASE c # m
    <3>1. c \notin InPlay \union kept
      BY <1>2, <1>3, <1>4, <2>2 DEF InPlay
    <3> QED BY <1>3, <1>4, <3>1 DEF SInv, Resolved
  <2> QED BY <2>1, <2>2
<1> QED BY <1>1, <1>3, <1>4, <1>6, <1>7, <1>8, <1>9 DEF SInv, Resolved

LEMMA KeepKeeps == SInv /\ Keep => Resolved'
<1> SUFFICES ASSUME SInv, Keep PROVE Resolved'
  OBVIOUS
<1>1. Candidates' = Candidates
  BY CandidatesKept DEF Keep
<1>2. /\ phase = "pick" /\ cluster = {} /\ kept' = kept \union picked /\ picked' = {}
      /\ phase' = "cluster" /\ UNCHANGED <<waiting, cluster, reach>>
  BY DEF Keep
<1>3. InPlay' = waiting /\ InPlay = waiting \union picked
  BY <1>2 DEF InPlay
<1>4. \A m \in InPlay \union kept : m.start \in Nat /\ m.end \in Nat
  BY CandidateFacts DEF SInv, Resolved
<1>5. \A k \in picked : \A w \in waiting : k.end <= w.start
  <2> SUFFICES ASSUME NEW k \in picked, NEW w \in waiting PROVE k.end <= w.start
    OBVIOUS
  <2>1. k.end <= reach /\ reach <= w.start
    BY <1>2 DEF SInv, Resolved
  <2>2. k.end \in Nat /\ w.start \in Nat /\ reach \in Nat
    BY <1>3, <1>4 DEF SInv, Typed
  <2> QED BY <2>1, <2>2
<1>6. \A k \in kept' : \A w \in InPlay' : k.end <= w.start
  BY <1>2, <1>3, <1>5 DEF SInv, Resolved
<1>7. \A a, b \in kept' : Overlap(a, b) => a = b
  <2> SUFFICES ASSUME NEW a \in kept', NEW b \in kept', Overlap(a, b), a # b PROVE FALSE
    OBVIOUS
  <2>1. (a \in kept /\ b \in picked) \/ (a \in picked /\ b \in kept)
    BY <1>2 DEF SInv, Resolved
  <2>2. a.end <= b.start \/ b.end <= a.start
    BY <1>3, <2>1 DEF SInv, Resolved
  <2>3. a.start \in Nat /\ a.end \in Nat /\ b.start \in Nat /\ b.end \in Nat
    BY <1>3, <1>4, <2>1
  <2> QED BY <2>2, <2>3 DEF Overlap
<1>8. InPlay' \union kept' = InPlay \union kept /\ picked' \union kept' = picked \union kept
  BY <1>2, <1>3
<1>9. \A m \in Candidates \ (InPlay' \union kept') :
        \E k \in picked' \union kept' : Overlap(k, m) /\ Before(k, m)
  BY <1>2, <1>8 DEF SInv, Resolved
<1> QED BY <1>1, <1>2, <1>6, <1>7, <1>8, <1>9 DEF SInv, Resolved

LEMMA ResolvedNext == SInv /\ [Next]_vars => Resolved'
<1> SUFFICES ASSUME SInv, [Next]_vars PROVE Resolved'
  OBVIOUS
<1>1. CASE Plain \/ Grouped \/ GroupedEnds \/ Refine \/ RefineEnds
  <2>1. phase = "scan" /\ UNCHANGED <<phase, pickVars>>
    BY <1>1 DEF Plain, Grouped, GroupedEnds, Refine, RefineEnds, Scanning, NextPattern
  <2> QED BY <2>1, ScanningKeeps
<1>2. CASE Resolve
  <2>1. /\ phase = "scan" /\ phase' = "cluster" /\ waiting' = Candidates
        /\ UNCHANGED <<inputs, scanVars, cluster, reach, picked, kept>>
    BY <1>2 DEF Resolve
  <2>2. Candidates' = Candidates
    BY <2>1, CandidatesKept
  <2>3. InPlay' = Candidates /\ kept' = {} /\ picked' = {} /\ cluster' = {}
    BY <2>1 DEF InPlay, SInv, Resolved
  <2> QED BY <2>1, <2>2, <2>3 DEF Resolved
<1>3. CASE Finish
  <2>1. Candidates' = Candidates /\ InPlay' = InPlay
    BY <1>3, CandidatesKept DEF Finish, InPlay, pickVars
  <2> QED BY <1>3, <2>1 DEF Finish, pickVars, SInv, Resolved, InPlay
<1>4. CASE UNCHANGED vars
  <2>1. Candidates' = Candidates /\ InPlay' = InPlay
    BY <1>4, CandidatesKept DEF vars, InPlay, pickVars
  <2> QED BY <1>4, <2>1 DEF vars, pickVars, SInv, Resolved
<1> QED BY <1>1, <1>2, <1>3, <1>4, OpenKeeps, ExtendKeeps, CloseKeeps, PickKeeps, KeepKeeps DEF Next

LEMMA SInvHolds == Spec => []SInv
<1>1. SInv /\ [Next]_vars => SInv'
  BY TypedNext, ClaimsNext, ResolvedNext DEF SInv
<1> QED BY <1>1, SInvInit, PTL DEF Spec

-----------------------------------------------------------------------------
(* Theorems. *)

\* Whatever the text and the catalogue, a grouped pattern claims exactly the values
\* between boundaries, and no account at the beginning of a word goes unclaimed
\* (patternSpans, refinedSpans).
THEOREM EveryValueIsClaimed == Spec => []EveryValueClaimed
BY SInvHolds, PTL DEF SInv

LEMMA ResolvedIsSettled == SInv => Settled
<1> SUFFICES ASSUME SInv PROVE Settled
  OBVIOUS
<1>1. kept \subseteq Candidates /\ \A a, b \in kept : Overlap(a, b) => a = b
  BY DEF SInv, Resolved
<1>2. ASSUME phase = "done", NEW m \in Candidates \ kept
      PROVE  \E k \in kept : Overlap(k, m) /\ Before(k, m) /\ (Secret(m) => Secret(k))
  <2>1. picked = {} /\ m \notin InPlay
    BY <1>2 DEF SInv, Resolved, InPlay
  <2>2. PICK k \in kept : Overlap(k, m) /\ Before(k, m)
    BY <1>2, <2>1 DEF SInv, Resolved
  <2>3. Secret(m) \in BOOLEAN /\ Secret(k) \in BOOLEAN
    BY <1>1, CandidateFacts DEF SInv
  <2>4. Secret(m) => Secret(k)
    <3>1. (Secret(k) /\ ~Secret(m)) \/ Secret(k) = Secret(m)
      BY <2>2 DEF Before
    <3> QED BY <2>3, <3>1
  <2> QED BY <2>2, <2>4
<1> QED BY <1>1, <1>2 DEF Settled

\* The matches kept are candidates and disjoint, and each one dropped lost to one
\* that was kept and outranks it, a credential only to a credential
\* (resolveOverlaps, pickFromCluster).
THEOREM OverlapsSettled == Spec => []Settled
BY SInvHolds, ResolvedIsSettled, PTL
=============================================================================
