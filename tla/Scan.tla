-------------------------------- MODULE Scan --------------------------------
(***************************************************************************)
(* Detector.Scan (internal/detector/detector.go, overlap.go): the patterns *)
(* of the catalogue claim stretches of a text one after the other, what is *)
(* reportable of them competes, and one match is kept per stretch.         *)
(*                                                                         *)
(* A text is a sequence of pieces: a value the grouped and the refined     *)
(* patterns look for, one that has its shape only, an end of a word, and   *)
(* anything else.  A stretch <<start, end>> does not contain its end.      *)
(* What an expression that means all it matches finds is the input hits.   *)
(***************************************************************************)
EXTENDS Integers, Sequences, FiniteSets

CONSTANTS
  Catalogue,   \* the patterns, in load order
  Texts,       \* what is scanned
  HitSets      \* what one plain pattern may find in a text

Kinds == {"plain", "grouped", "refined"}
Patterns == DOMAIN Catalogue
Pieces == {"value", "shape", "end", "other"}
Shaped == {"value", "shape"}
Stretches == {s \in Nat \X Nat : 1 <= s[1] /\ s[1] < s[2]}

Entries == [kind: Kinds, on: BOOLEAN, secret: BOOLEAN, score: Nat, noisy: BOOLEAN]

ASSUME CatalogueAssumption == Catalogue \in Seq(Entries)
ASSUME TextsAssumption == Texts \subseteq Seq(Pieces)
ASSUME HitsAssumption == HitSets \subseteq SUBSET Stretches

VARIABLES
  text,     \* the text
  hits,     \* what each plain pattern finds in it
  inCode,   \* looksLikeCode
  pattern,  \* the pattern being scanned for
  from,     \* where the scanned rest of the text begins: ^ matches there
  cursor,   \* where FindAll goes on in it
  claimed,  \* the spans of all patterns so far
  phase,    \* "scan", then "cluster" and "pick" in turns, then "done"
  waiting,  \* candidates of no cluster yet
  cluster,  \* the cluster being formed, then what is left of it to pick from
  reach,    \* how far it reaches
  picked,   \* the strongest of it
  kept      \* the survivors

scanVars == <<pattern, from, cursor, claimed>>
pickVars == <<waiting, cluster, reach, picked, kept>>
inputs == <<text, hits, inCode>>
vars == <<inputs, scanVars, phase, pickVars>>

-----------------------------------------------------------------------------
(* Spans. *)

Match(p, start, end) == [pattern |-> p, start |-> start, end |-> end]
ClaimedBy(p) == {m \in claimed : m.pattern = p}

First(S) == {i \in S : \A j \in S : i <= j}

Ends(i) == i > Len(text) \/ text[i] = "end"

\* (?:^|\W)(value)(?:\W|$), searched at i in the text from b on, at c or later:
\* whatever stands on either side is consumed.
FoundFrom(b, c) ==
  {i \in 1..Len(text) :
     /\ (i = b /\ c = b) \/ (i > c /\ text[i - 1] = "end")
     /\ text[i] \in Shaped
     /\ Ends(i + 1)}

\* Where the match of a value at i ends.
MatchEnd(i) == IF i = Len(text) THEN i + 1 ELSE i + 2

\* Mutant: the boundary a value consumed is not looked behind.
HiddenNever(i) == {}

\* A value inside what the match of the value at i consumed.
Hidden(i) == {j \in First(FoundFrom(i + 1, i + 1)) : j - 1 < MatchEnd(i)}

\* \b, then the shape of an account: at the beginning of what is scanned, or of a word.
AccountsFrom(b) ==
  {i \in 1..Len(text) : /\ text[i] \in Shaped
                        /\ i = b \/ (i > b /\ text[i - 1] = "end")}

\* Where the greedy expression may end, and where Refine says the account does.
GreedyEnds(i) == {e \in (i + 1)..(Len(text) + 1) : Ends(e)}
Refined(i, e) == IF text[i] = "value" THEN i + 1 ELSE e

-----------------------------------------------------------------------------
(* Candidates. *)

\* Switched on, not noise in source code, and neither listed nor refused by its
\* check, its strength or its placement.
Reportable(m) ==
  /\ Catalogue[m.pattern].on
  /\ ~(inCode /\ Catalogue[m.pattern].noisy)
  /\ text[m.start] # "shape"

Candidates == {m \in claimed : Reportable(m)}

Secret(m) == Catalogue[m.pattern].secret
Score(m) == Catalogue[m.pattern].score
Length(m) == m.end - m.start

Overlap(a, b) == a.start < b.end /\ b.start < a.end

\* The order of pickFromCluster; the sorts are stable.
Before(a, b) ==
  \/ Secret(a) /\ ~Secret(b)
  \/ /\ Secret(a) = Secret(b)
     /\ \/ Score(a) > Score(b)
        \/ /\ Score(a) = Score(b)
           /\ \/ Length(a) > Length(b)
              \/ Length(a) = Length(b) /\ a.start < b.start
              \/ Length(a) = Length(b) /\ a.start = b.start /\ a.pattern < b.pattern

-----------------------------------------------------------------------------
Init ==
  /\ text \in Texts /\ inCode \in BOOLEAN
  /\ hits \in [Patterns -> HitSets]
  /\ \A p \in Patterns : \A s \in hits[p] : s[2] <= Len(text) + 1
  /\ \A p \in Patterns : Catalogue[p].kind # "plain" => hits[p] = {}
  /\ pattern = 1 /\ from = 1 /\ cursor = 1 /\ claimed = {}
  /\ phase = "scan"
  /\ waiting = {} /\ cluster = {} /\ reach = 1 /\ picked = {} /\ kept = {}

Scanning(kind) == phase = "scan" /\ pattern \in Patterns /\ Catalogue[pattern].kind = kind

NextPattern ==
  /\ pattern' = pattern + 1 /\ from' = 1 /\ cursor' = 1
  /\ UNCHANGED <<inputs, phase, pickVars>>

\* FindAllStringIndex.
Plain ==
  /\ Scanning("plain")
  /\ claimed' = claimed \union {Match(pattern, s[1], s[2]) : s \in hits[pattern]}
  /\ NextPattern

\* One match of FindAll, and the value its boundary hid, if any: then the scan
\* begins again behind that one.
Grouped ==
  /\ Scanning("grouped")
  /\ \E i \in First(FoundFrom(from, cursor)) :
       /\ claimed' = claimed \union {Match(pattern, k, k + 1) : k \in {i} \union Hidden(i)}
       /\ IF Hidden(i) = {}
          THEN cursor' = MatchEnd(i) /\ UNCHANGED from
          ELSE \E j \in Hidden(i) : cursor' = j + 1 /\ from' = j + 1
  /\ UNCHANGED <<inputs, pattern, phase, pickVars>>

GroupedEnds ==
  /\ Scanning("grouped") /\ FoundFrom(from, cursor) = {}
  /\ NextPattern /\ UNCHANGED claimed

\* refinedSpans: one hit at a time, on from its refined end.
Refine ==
  /\ Scanning("refined")
  /\ \E i \in First(AccountsFrom(from)) : \E e \in GreedyEnds(i) :
       /\ claimed' = claimed \union {Match(pattern, i, Refined(i, e))}
       /\ from' = Refined(i, e)
  /\ UNCHANGED <<inputs, pattern, cursor, phase, pickVars>>

RefineEnds ==
  /\ Scanning("refined") /\ AccountsFrom(from) = {}
  /\ NextPattern /\ UNCHANGED claimed

Resolve ==
  /\ phase = "scan" /\ pattern \notin Patterns
  /\ phase' = "cluster"
  /\ waiting' = Candidates
  /\ UNCHANGED <<inputs, scanVars, cluster, reach, picked, kept>>

\* The first candidate by start opens a cluster.
Open ==
  /\ phase = "cluster" /\ cluster = {}
  /\ \E m \in waiting :
       /\ \A w \in waiting : m.start <= w.start
       /\ waiting' = waiting \ {m} /\ cluster' = {m} /\ reach' = m.end
  /\ UNCHANGED <<inputs, scanVars, phase, picked, kept>>

\* Mutant: the reach of a cluster is that of its last match.
FurtherLast(m) == m.end

Further(m) == IF m.end > reach THEN m.end ELSE reach

\* A match that begins before the cluster ends belongs to it.
Extend ==
  /\ phase = "cluster" /\ cluster # {}
  /\ \E m \in waiting :
       /\ \A w \in waiting : m.start <= w.start
       /\ m.start < reach
       /\ waiting' = waiting \ {m} /\ cluster' = cluster \union {m} /\ reach' = Further(m)
  /\ UNCHANGED <<inputs, scanVars, phase, picked, kept>>

Close ==
  /\ phase = "cluster" /\ cluster # {} /\ \A w \in waiting : w.start >= reach
  /\ phase' = "pick"
  /\ UNCHANGED <<inputs, scanVars, pickVars>>

\* The strongest left is kept unless one kept already overlaps it.
Pick ==
  /\ phase = "pick"
  /\ \E m \in cluster :
       /\ \A c \in cluster \ {m} : Before(m, c)
       /\ cluster' = cluster \ {m}
       /\ picked' = IF \E o \in picked : Overlap(m, o) THEN picked ELSE picked \union {m}
  /\ UNCHANGED <<inputs, scanVars, phase, waiting, reach, kept>>

Keep ==
  /\ phase = "pick" /\ cluster = {}
  /\ kept' = kept \union picked
  /\ picked' = {}
  /\ phase' = "cluster"
  /\ UNCHANGED <<inputs, scanVars, waiting, cluster, reach>>

Finish ==
  /\ phase = "cluster" /\ cluster = {} /\ waiting = {}
  /\ phase' = "done"
  /\ UNCHANGED <<inputs, scanVars, pickVars>>

Next ==
  \/ Plain \/ Grouped \/ GroupedEnds \/ Refine \/ RefineEnds
  \/ Resolve \/ Open \/ Extend \/ Close \/ Pick \/ Keep \/ Finish

Spec == Init /\ [][Next]_vars

-----------------------------------------------------------------------------
(* Properties. *)

\* The values that stand between boundaries, and the accounts at the beginning of
\* a word.
Values == {i \in 1..Len(text) : /\ i = 1 \/ text[i - 1] = "end"
                                /\ text[i] \in Shaped /\ Ends(i + 1)}
Accounts == {i \in 1..Len(text) : text[i] \in Shaped /\ (i = 1 \/ text[i - 1] = "end")}

\* Every value between boundaries is claimed and nothing else, also where two
\* share the boundary; and every account is claimed to its end, unless it lies in
\* something account-shaped that begins before it (patternSpans, refinedSpans).
EveryValueClaimed ==
  \A p \in Patterns : p < pattern =>
    /\ Catalogue[p].kind = "grouped" => ClaimedBy(p) = {Match(p, i, i + 1) : i \in Values}
    /\ Catalogue[p].kind = "refined" =>
         /\ \A i \in Accounts : \E m \in ClaimedBy(p) : m.start <= i /\ i < m.end
         /\ \A m \in ClaimedBy(p) : text[m.start] = "value" => m.end = m.start + 1

\* No stretch is kept twice, and whatever was dropped lost it to a match that was
\* kept and comes before it, a credential only to a credential, although clusters
\* are resolved apart from one another.
Settled ==
  /\ kept \subseteq Candidates
  /\ \A a, b \in kept : Overlap(a, b) => a = b
  /\ phase = "done" => \A m \in Candidates \ kept : \E k \in kept :
       Overlap(k, m) /\ Before(k, m) /\ (Secret(m) => Secret(k))
=============================================================================
