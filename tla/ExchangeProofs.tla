--------------------------- MODULE ExchangeProofs ---------------------------
(***************************************************************************)
(* Theorems about Exchange for every value of its constants: the types,    *)
(* that a replacement never stands for two values, and that the exchange   *)
(* implements Pseudonyms; then those that follow a request from its body   *)
(* to its answer: nothing recognised leaves in clear, a value keeps one    *)
(* identity, an answer is expanded to what was sent and to nothing else,   *)
(* and a change of mode takes hold.                                        *)
(*                                                                         *)
(* The argument for the first: a replacement is rendered from one index of *)
(* one prefix, an index is handed out once, and two indices never render   *)
(* alike.  The inductive invariant therefore ties every entry anybody      *)
(* holds to an index that has been handed out.                             *)
(***************************************************************************)
EXTENDS Exchange, TLAPS

\* All that an index of a prefix can be rendered as, in any mode and catalogue.
Renderings(p, i) ==
  {t \in Tokens : t.prefix = p /\ t.index = i}
  \union
  {[kind |-> "standin", text |-> StandInText(g[1], g[2], i)] :
      g \in {h \in Generators : Prefix[h[1]] = p /\ i \in 1..Capacity[h]}}

\* Every entry minted was rendered from an index already handed out.
Indexed ==
  \A e \in Coined : \E p \in Prefixes : \E i \in 1..counter[p] : e.masked \in Renderings(p, i)

\* No two entries minted share a replacement.
OneValue == \A e, f \in Coined : e.masked = f.masked => e = f

\* What a session remembers, and what a pass works with, was minted.
Accounted ==
  /\ \A s \in Sessions : vault[s] \subseteq Coined
  /\ \A r \in Requests : view[r] \subseteq Coined

IInv == TypeOK /\ Indexed /\ OneValue /\ Accounted

-----------------------------------------------------------------------------
(* Renderings. *)

\* Two indices never render to one replacement: what pkg/pii/generators.go
\* means by "the mapping is still one-to-one".
LEMMA RenderingsDisjoint ==
  ASSUME NEW p \in Prefixes, NEW q \in Prefixes, NEW i \in Indexes, NEW j \in Indexes,
         NEW m, m \in Renderings(p, i), m \in Renderings(q, j)
  PROVE  p = q /\ i = j
<1>1. CASE m \in Tokens
  <2>1. m.kind = "token"
    BY <1>1 DEF Tokens
  <2>2. m.prefix = p /\ m.index = i /\ m.prefix = q /\ m.index = j
    BY <2>1 DEF Renderings
  <2> QED BY <2>2
<1>2. CASE m \notin Tokens
  <2>1. PICK g \in Generators : /\ Prefix[g[1]] = p /\ i \in 1..Capacity[g]
                                /\ m = [kind |-> "standin", text |-> StandInText(g[1], g[2], i)]
    BY <1>2 DEF Renderings
  <2>2. PICK h \in Generators : /\ Prefix[h[1]] = q /\ j \in 1..Capacity[h]
                                /\ m = [kind |-> "standin", text |-> StandInText(h[1], h[2], j)]
    BY <1>2 DEF Renderings
  <2>3. StandInText(g[1], g[2], i) = StandInText(h[1], h[2], j)
    BY <2>1, <2>2
  <2> QED BY <2>1, <2>2, <2>3, GeneratorsAssumption
<1> QED BY <1>1, <1>2

\* Whatever the mode and the catalogue, an index is rendered as one of its own
\* renderings (mask.go, render).
LEMMA RenderIsRendering ==
  ASSUME TypeOK, NEW o \in Occurrences, NEW i \in Indexes
  PROVE  /\ Render(o.cat, o.locale, i) \in Renderings(Prefix[o.cat], i)
         /\ Render(o.cat, o.locale, i) \in Replacements
<1> USE CatalogueAssumption
<1>1. o.cat \in Categories /\ o.locale \in Locales \union {Shared}
  BY DEF Occurrences
<1>2. Prefix[o.cat] \in Prefixes
  BY <1>1
<1>3. Token(o.cat, i) \in Renderings(Prefix[o.cat], i) /\ Token(o.cat, i) \in Replacements
  BY <1>2 DEF Token, Renderings, Replacements, Tokens
<1>4. CASE mode = "fake" /\ o.cat \notin Secret /\ HasStandIn(o.cat, o.locale, i)
  <2> DEFINE table == GeneratorTable(o.cat, o.locale)
             g == <<o.cat, table>>
  <2>1. g \in Generators /\ i \in 1..Capacity[g] /\ g[1] = o.cat /\ g[2] = table
    BY <1>4 DEF HasStandIn
  <2>2. StandInText(g[1], g[2], i) \in Texts
    BY <2>1, GeneratorsAssumption
  <2>3. Render(o.cat, o.locale, i)
          = [kind |-> "standin", text |-> StandInText(g[1], g[2], i)]
    BY <1>4, <2>1 DEF Render, StandIn
  <2>4. Render(o.cat, o.locale, i) \in Renderings(Prefix[o.cat], i)
    BY <2>1, <2>3 DEF Renderings
  <2>5. Render(o.cat, o.locale, i) \in Replacements
    BY <2>2, <2>3 DEF Replacements, StandIns
  <2> QED BY <2>4, <2>5
<1>5. CASE ~(mode = "fake" /\ o.cat \notin Secret /\ HasStandIn(o.cat, o.locale, i))
  BY <1>3, <1>5 DEF Render
<1> QED BY <1>4, <1>5

-----------------------------------------------------------------------------
(* Types. *)

LEMMA BodyParts ==
  ASSUME NEW b \in Bodies
  PROVE  /\ b.session \in Sessions
         /\ b.strings \in Seq(SUBSET Occurrences)
  BY BodiesAssumption DEF BodyType

LEMMA LoadType ==
  ASSUME TypeOK, NEW s \in Sessions
  PROVE  Load(s) \subseteq vault[s] /\ Load(s) \subseteq Entries
  BY DEF TypeOK, Load

LEMMA DropType ==
  ASSUME TypeOK, NEW S, DropSessions(S)
  PROVE  vault' \in [Sessions -> SUBSET Entries] /\ age' \in [Sessions -> 0..(TTL + 1)]
  BY BoundsAssumption DEF TypeOK, DropSessions

LEMMA NoteType ==
  ASSUME TypeOK, NEW kind \in EventKinds, NEW R, NEW phases \in SUBSET {"masking", "sent"},
         Note(kind, R, phases)
  PROVE  seen' \in [Requests -> SUBSET (EventKinds \X {"masking", "sent"})]
<1>1. \A r \in Requests : phase[r] \in phases => <<kind, phase[r]>> \in EventKinds \X {"masking", "sent"}
  OBVIOUS
<1> QED BY <1>1 DEF TypeOK, Note

LEMMA InitType == Init => TypeOK
<1> SUFFICES ASSUME Init PROVE TypeOK
  OBVIOUS
<1>1. /\ todo \in [Requests -> Seq(SUBSET Occurrences)]
      /\ age \in [Sessions -> 0..(TTL + 1)]
      /\ events \in 0..MaxEvents /\ restarts \in 0..MaxRestarts
  BY BoundsAssumption DEF Init
<1>2. /\ phase \in [Requests -> Phases]
      /\ body \in [Requests -> Bodies \union {NoBody}]
      /\ counter \in [Prefixes -> Nat]
      /\ vault \in [Sessions -> SUBSET Entries]
  BY DEF Init, Phases
<1>3. /\ found \in [Requests -> SUBSET Occurrences]
      /\ view \in [Requests -> SUBSET Entries]
      /\ minted \in [Requests -> SUBSET Entries]
  BY DEF Init
<1>4. /\ wire \in [Requests -> SUBSET [of: Occurrences, out: Replacements \union Clear]]
      /\ seen \in [Requests -> SUBSET (EventKinds \X {"masking", "sent"})]
  BY DEF Init
<1> QED BY <1>1, <1>2, <1>3, <1>4 DEF Init, TypeOK

LEMMA ArriveType ==
  ASSUME TypeOK, NEW r \in Requests, NEW b \in Bodies, Arrive(r, b)
  PROVE  TypeOK'
<1>1. b.session \in Sessions /\ b.strings \in Seq(SUBSET Occurrences)
  BY BodyParts
<1>2. PICK v \in Views(Load(b.session)) : view' = [view EXCEPT ![r] = v]
  BY DEF Arrive
<1>3. v \in SUBSET Entries
  BY <1>1, <1>2, LoadType DEF Views
<1>4. view' \in [Requests -> SUBSET Entries]
  BY <1>2, <1>3 DEF TypeOK
<1>5. vault' \in [Sessions -> SUBSET Entries] /\ age' \in [Sessions -> 0..(TTL + 1)]
  BY DropType DEF Arrive, DropOnLoad
<1> QED BY <1>1, <1>4, <1>5 DEF TypeOK, Arrive, Phases, policyVars, bounds

LEMMA ArriveEmptyType ==
  ASSUME TypeOK, NEW r \in Requests, NEW b \in Bodies, ArriveEmpty(r, b)
  PROVE  TypeOK'
  BY DEF TypeOK, ArriveEmpty, Phases, policyVars, vaultVars, bounds

LEMMA RefuseUnreadableType ==
  ASSUME TypeOK, NEW r \in Requests, RefuseUnreadable(r)
  PROVE  TypeOK'
  BY DEF TypeOK, RefuseUnreadable, Phases, policyVars, vaultVars, passVars, bounds

LEMMA ScanStringType ==
  ASSUME TypeOK, NEW r \in Requests, ScanString(r)
  PROVE  TypeOK'
<1> DEFINE string == Head(todo[r])
           hits == {o \in string : Recognised(o)}
           left == {[of |-> o, out |-> InClear(o.value)] : o \in string \ hits}
<1>1. string \in SUBSET Occurrences /\ Tail(todo[r]) \in Seq(SUBSET Occurrences)
  BY DEF TypeOK, ScanString
<1>2. left \subseteq [of: Occurrences, out: Replacements \union Clear]
  BY <1>1 DEF Occurrences, InClear, Clear
<1>3. /\ found' = [found EXCEPT ![r] = hits]
      /\ wire' = [wire EXCEPT ![r] = @ \union left]
      /\ todo' = [todo EXCEPT ![r] = Tail(@)]
  BY DEF ScanString
<1>4. found' \in [Requests -> SUBSET Occurrences]
  BY <1>1, <1>3 DEF TypeOK
<1>5. wire' \in [Requests -> SUBSET [of: Occurrences, out: Replacements \union Clear]]
  BY <1>2, <1>3 DEF TypeOK
<1>6. todo' \in [Requests -> Seq(SUBSET Occurrences)]
  BY <1>1, <1>3 DEF TypeOK
<1> HIDE DEF string, hits, left
<1> QED BY <1>4, <1>5, <1>6 DEF TypeOK, ScanString, policyVars, vaultVars, bounds

LEMMA WriteType ==
  ASSUME TypeOK, NEW r \in Requests, NEW o \in Occurrences,
         NEW out \in Replacements \union Clear, Write(r, o, out)
  PROVE  /\ found' \in [Requests -> SUBSET Occurrences]
         /\ wire' \in [Requests -> SUBSET [of: Occurrences, out: Replacements \union Clear]]
<1>1. [of |-> o, out |-> out] \in [of: Occurrences, out: Replacements \union Clear]
  OBVIOUS
<1> QED BY <1>1 DEF TypeOK, Write

\* The entry Mint makes, and the index it takes for it.
LEMMA MintEntry ==
  ASSUME TypeOK, NEW o \in Occurrences
  PROVE  /\ Prefix[o.cat] \in Prefixes
         /\ NextIndex(o.cat) \in Indexes
         /\ NextIndex(o.cat) = counter[Prefix[o.cat]] + 1
         /\ Render(o.cat, o.locale, NextIndex(o.cat)) \in Replacements
         /\ Render(o.cat, o.locale, NextIndex(o.cat)) \in Renderings(Prefix[o.cat], NextIndex(o.cat))
         /\ [masked |-> Render(o.cat, o.locale, NextIndex(o.cat)), original |-> o.value] \in Entries
<1>1. Prefix[o.cat] \in Prefixes /\ o.value \in Values
  BY CatalogueAssumption DEF Occurrences
<1>2. NextIndex(o.cat) \in Indexes /\ NextIndex(o.cat) = counter[Prefix[o.cat]] + 1
  BY <1>1 DEF TypeOK, NextIndex, Indexes
<1>3. Render(o.cat, o.locale, NextIndex(o.cat)) \in Replacements
      /\ Render(o.cat, o.locale, NextIndex(o.cat)) \in Renderings(Prefix[o.cat], NextIndex(o.cat))
  BY <1>2, RenderIsRendering
<1> QED BY <1>1, <1>2, <1>3 DEF Entries

LEMMA MaskMatchType ==
  ASSUME TypeOK, NEW r \in Requests, MaskMatch(r)
  PROVE  TypeOK'
<1>1. PICK o \in found[r] : WriteBackExempt(r, o) \/ ReuseKnown(r, o) \/ Mint(r, o)
  BY DEF MaskMatch
<1>2. o \in Occurrences /\ o.value \in Values
  BY DEF TypeOK, Occurrences
<1>3. ASSUME counter' \in [Prefixes -> Nat],
             view' \in [Requests -> SUBSET Entries],
             minted' \in [Requests -> SUBSET Entries],
             NEW out \in Replacements \union Clear, Write(r, o, out)
      PROVE  TypeOK'
  BY <1>2, <1>3, WriteType DEF TypeOK, MaskMatch, policyVars, vaultVars, bounds
<1>4. CASE WriteBackExempt(r, o)
  <2>1. InClear(o.value) \in Clear
    BY <1>2 DEF InClear, Clear
  <2> QED BY <1>3, <1>4, <2>1 DEF WriteBackExempt, TypeOK
<1>5. CASE ReuseKnown(r, o)
  <2>1. PICK e \in view[r] : Write(r, o, e.masked)
    BY <1>5 DEF ReuseKnown
  <2>2. e.masked \in Replacements
    BY DEF TypeOK, Entries
  <2> QED BY <1>3, <1>5, <2>1, <2>2 DEF ReuseKnown, TypeOK
<1>6. CASE Mint(r, o)
  <2> DEFINE i == NextIndex(o.cat)
             e == [masked |-> Render(o.cat, o.locale, i), original |-> o.value]
  <2>1. e \in Entries /\ e.masked \in Replacements /\ i \in Nat /\ Prefix[o.cat] \in Prefixes
    BY <1>2, MintEntry DEF Indexes
  <2>2. /\ counter' = [counter EXCEPT ![Prefix[o.cat]] = i]
        /\ view' = [view EXCEPT ![r] = @ \union {e}]
        /\ minted' = [minted EXCEPT ![r] = Overlay(@, {e})]
        /\ Write(r, o, e.masked)
    BY <1>6 DEF Mint
  <2> HIDE DEF e, i
  <2>3. counter' \in [Prefixes -> Nat]
    BY <2>1, <2>2 DEF TypeOK
  <2>4. view' \in [Requests -> SUBSET Entries] /\ minted' \in [Requests -> SUBSET Entries]
    BY <2>1, <2>2 DEF TypeOK, Overlay
  <2> QED BY <1>3, <2>1, <2>2, <2>3, <2>4
<1> QED BY <1>1, <1>4, <1>5, <1>6

LEMMA MergeType ==
  ASSUME TypeOK, NEW s, NEW entries \in SUBSET Entries, Merge(s, entries)
  PROVE  vault' \in [Sessions -> SUBSET Entries] /\ age' \in [Sessions -> 0..(TTL + 1)]
<1> DEFINE kept == [t \in Sessions |-> IF Expired(t) THEN {} ELSE vault[t]]
<1>1. vault' = [kept EXCEPT ![s] = Overlay(@, entries)]
  BY DEF Merge
<1>2. kept \in [Sessions -> SUBSET Entries]
  BY DEF TypeOK
<1> HIDE DEF kept
<1>3. vault' \in [Sessions -> SUBSET Entries]
  BY <1>1, <1>2 DEF Overlay
<1>4. age' \in [Sessions -> 0..(TTL + 1)]
  BY BoundsAssumption DEF Merge, TypeOK
<1> QED BY <1>3, <1>4

LEMMA SaveAndForwardType ==
  ASSUME TypeOK, NEW r \in Requests, SaveAndForward(r)
  PROVE  TypeOK'
<1>1. vault' \in [Sessions -> SUBSET Entries] /\ age' \in [Sessions -> 0..(TTL + 1)]
  BY MergeType DEF SaveAndForward, TypeOK
<1>2. phase' \in [Requests -> Phases] /\ view' \in [Requests -> SUBSET Entries]
  BY DEF SaveAndForward, TypeOK, Phases
<1> QED BY <1>1, <1>2 DEF TypeOK, SaveAndForward, policyVars, bounds

LEMMA SaveFailsType ==
  ASSUME TypeOK, NEW r \in Requests, SaveFails(r)
  PROVE  TypeOK'
  BY DEF TypeOK, SaveFails, Phases, policyVars, vaultVars, bounds

LEMMA RespondType ==
  ASSUME TypeOK, NEW r \in Requests, Respond(r)
  PROVE  TypeOK'
<1>1. vault' \in [Sessions -> SUBSET Entries] /\ age' \in [Sessions -> 0..(TTL + 1)]
  BY DropType DEF Respond, DropOnLoad
<1> QED BY <1>1 DEF TypeOK, Respond, Phases, policyVars, passVars, bounds

LEMMA ChangePolicyType == TypeOK /\ ChangePolicy => TypeOK'
<1> SUFFICES ASSUME TypeOK, ChangePolicy PROVE TypeOK'
  OBVIOUS
<1> USE BoundsAssumption
<1>1. CASE \E L \in SUBSET Locales : SetLocales(L)
  <2>1. PICK L \in SUBSET Locales : SetLocales(L)
    BY <1>1
  <2>2. seen' \in [Requests -> SUBSET (EventKinds \X {"masking", "sent"})]
    BY <2>1, NoteType DEF SetLocales, EventKinds
  <2> QED BY <2>1, <2>2 DEF TypeOK, SetLocales, Disturb, vaultVars, passVars
<1>2. CASE \E C \in SUBSET Switchable : Disable(C)
  <2>1. PICK C \in SUBSET Switchable : Disable(C)
    BY <1>2
  <2>2. seen' \in [Requests -> SUBSET (EventKinds \X {"masking", "sent"})]
    BY <2>1, NoteType DEF Disable, EventKinds
  <2> QED BY <2>1, <2>2 DEF TypeOK, Disable, Disturb, vaultVars, passVars
<1>3. CASE \E m \in {"token", "fake"} : SetSubstitution(m)
  <2>1. PICK m \in {"token", "fake"} : SetSubstitution(m)
    BY <1>3
  <2>2. seen' \in [Requests -> SUBSET (EventKinds \X {"masking", "sent"})]
    BY <2>1, NoteType DEF SetSubstitution, EventKinds
  <2> QED BY <2>1, <2>2 DEF TypeOK, SetSubstitution, Disturb, vaultVars, passVars
<1>4. CASE Forget
  <2>1. seen' \in [Requests -> SUBSET (EventKinds \X {"masking", "sent"})]
    BY <1>4, NoteType DEF Forget, EventKinds
  <2>2. vault' \in [Sessions -> SUBSET Entries] /\ age' \in [Sessions -> 0..(TTL + 1)]
    BY <1>4, DropType DEF Forget
  <2> QED BY <1>4, <2>1, <2>2 DEF TypeOK, Forget, passVars, bounds
<1> QED BY <1>1, <1>2, <1>3, <1>4 DEF ChangePolicy

LEMMA TickType == TypeOK /\ Tick => TypeOK'
<1> SUFFICES ASSUME TypeOK, Tick PROVE TypeOK'
  OBVIOUS
<1>1. age' \in [Sessions -> 0..(TTL + 1)]
  BY BoundsAssumption DEF TypeOK, Tick, Expired
<1>2. seen' \in [Requests -> SUBSET (EventKinds \X {"masking", "sent"})]
  BY NoteType DEF Tick, EventKinds
<1>3. events' \in 0..MaxEvents
  BY BoundsAssumption DEF TypeOK, Tick, Disturb
<1> QED BY <1>1, <1>2, <1>3 DEF TypeOK, Tick, policyVars, passVars

LEMMA RestartType == TypeOK /\ Restart => TypeOK'
<1> SUFFICES ASSUME TypeOK, Restart PROVE TypeOK'
  OBVIOUS
<1>1. vault' \in [Sessions -> SUBSET Entries] /\ age' \in [Sessions -> 0..(TTL + 1)]
  BY DropType DEF Restart
<1>2. phase' \in [Requests -> Phases]
  BY DEF Restart, TypeOK, Phases
<1>3. todo' \in [Requests -> Seq(SUBSET Occurrences)]
  BY DEF Restart
<1>4. restarts' \in 0..MaxRestarts
  BY BoundsAssumption DEF TypeOK, Restart
<1>5. /\ view' \in [Requests -> SUBSET Entries] /\ minted' \in [Requests -> SUBSET Entries]
      /\ found' \in [Requests -> SUBSET Occurrences] /\ counter' \in [Prefixes -> Nat]
  BY DEF Restart
<1> QED BY <1>1, <1>2, <1>3, <1>4, <1>5 DEF TypeOK, Restart

LEMMA TypeStep == TypeOK /\ [Next]_vars => TypeOK'
<1> SUFFICES ASSUME TypeOK, [Next]_vars PROVE TypeOK'
  OBVIOUS
<1>1. ASSUME NEW r \in Requests, Step(r) PROVE TypeOK'
  BY <1>1, ArriveType, ArriveEmptyType, RefuseUnreadableType, ScanStringType, MaskMatchType,
     SaveAndForwardType, SaveFailsType, RespondType DEF Step
<1>2. CASE UNCHANGED vars
  BY <1>2 DEF TypeOK, vars, policyVars, vaultVars, passVars, bounds
<1> QED BY <1>1, <1>2, ChangePolicyType, TickType, RestartType DEF Next

\* The types of the state hold in every behaviour of the exchange.
THEOREM TypeCorrect == Spec => []TypeOK
  BY InitType, TypeStep, PTL DEF Spec

-----------------------------------------------------------------------------
(* The inductive invariant. *)

LEMMA IInvImpliesOneOriginal == IInv => OneOriginal
<1> SUFFICES ASSUME IInv, NEW e \in Claims, NEW f \in Claims, e.masked = f.masked
             PROVE  e.original = f.original
  BY DEF OneOriginal
<1>1. \A r \in Requests : minted[r] \subseteq Coined
  BY DEF Coined
<1>2. Claims \subseteq Coined
  BY <1>1 DEF Claims, IInv, Accounted
<1> QED BY <1>2 DEF IInv, OneValue

LEMMA InitIInv == Init => IInv
<1> SUFFICES ASSUME Init PROVE IInv
  OBVIOUS
<1>1. Coined = {}
  BY DEF Init, Coined
<1> QED BY <1>1, InitType DEF Init, IInv, Indexed, OneValue, Accounted

\* An action that mints nothing keeps the invariant when the sessions and the
\* passes still only hold what was minted.
LEMMA NothingMinted ==
  ASSUME IInv, TypeOK', minted' = minted, counter' = counter,
         \A s \in Sessions : vault'[s] \subseteq Coined,
         \A r \in Requests : view'[r] \subseteq Coined
  PROVE  IInv'
<1>1. Coined' = Coined
  BY DEF Coined
<1>2. Accounted'
  BY <1>1 DEF Accounted
<1>3. Indexed' /\ OneValue'
  BY <1>1 DEF IInv, Indexed, OneValue
<1> QED BY <1>2, <1>3 DEF IInv

\* Deleting sessions leaves the others as they were.
LEMMA DropKeeps ==
  ASSUME NEW S, DropSessions(S)
  PROVE  \A s \in Sessions : vault'[s] = IF s \in S THEN {} ELSE vault[s]
  BY DEF DropSessions

\* What a merge leaves in a session was there before or is merged.
LEMMA MergeKeeps ==
  ASSUME NEW s, NEW entries, Merge(s, entries)
  PROVE  \A t \in Sessions :
           vault'[t] = IF t = s THEN Overlay(IF Expired(t) THEN {} ELSE vault[t], entries)
                       ELSE IF Expired(t) THEN {} ELSE vault[t]
  BY DEF Merge

LEMMA ArriveIInv ==
  ASSUME IInv, TypeOK', NEW r \in Requests, NEW b \in Bodies, Arrive(r, b)
  PROVE  IInv'
<1>1. PICK v \in Views(Load(b.session)) : view' = [view EXCEPT ![r] = v]
  BY DEF Arrive
<1>2. v \subseteq Coined
  BY <1>1, BodyParts DEF Views, Load, IInv, Accounted
<1>3. \A q \in Requests : view'[q] \subseteq Coined
  BY <1>1, <1>2 DEF IInv, Accounted, TypeOK
<1>4. \A s \in Sessions : vault'[s] \subseteq Coined
  BY DropKeeps DEF Arrive, DropOnLoad, IInv, Accounted
<1> QED BY <1>3, <1>4, NothingMinted DEF Arrive

LEMMA SaveAndForwardIInv ==
  ASSUME IInv, TypeOK', NEW r \in Requests, SaveAndForward(r)
  PROVE  IInv'
<1>1. minted[r] \subseteq Coined
  BY DEF Coined
<1>2. \A s \in Sessions : vault'[s] \subseteq Coined
  <2>1. \A s \in Sessions : vault'[s] \subseteq vault[s] \union minted[r]
    BY MergeKeeps DEF SaveAndForward, Overlay
  <2> QED BY <1>1, <2>1 DEF IInv, Accounted
<1>3. \A q \in Requests : view'[q] \subseteq Coined
  BY DEF SaveAndForward, IInv, Accounted, TypeOK
<1> QED BY <1>2, <1>3, NothingMinted DEF SaveAndForward

LEMMA RespondIInv ==
  ASSUME IInv, TypeOK', NEW r \in Requests, Respond(r)
  PROVE  IInv'
<1>1. \A s \in Sessions : vault'[s] \subseteq Coined
  BY DropKeeps DEF Respond, DropOnLoad, IInv, Accounted
<1> QED BY <1>1, NothingMinted DEF Respond, passVars, IInv, Accounted

LEMMA ForgetIInv ==
  ASSUME IInv, TypeOK', Forget
  PROVE  IInv'
<1>1. \A s \in Sessions : vault'[s] \subseteq Coined
  BY DropKeeps DEF Forget
<1> QED BY <1>1, NothingMinted DEF Forget, passVars, IInv, Accounted

LEMMA RestartIInv ==
  ASSUME IInv, TypeOK', Restart
  PROVE  IInv'
<1>1. Coined' = {}
  BY DEF Restart, Coined
<1>2. Accounted'
  BY DropKeeps DEF Restart, Accounted
<1> QED BY <1>1, <1>2 DEF IInv, Indexed, OneValue

\* The entry a mint adds has a replacement no other entry has, because its
\* index is one no other entry was rendered from.
LEMMA MintIsFresh ==
  ASSUME IInv, NEW o \in Occurrences
  PROVE  \A c \in Coined : c.masked # Render(o.cat, o.locale, NextIndex(o.cat))
<1> DEFINE p == Prefix[o.cat]
           i == NextIndex(o.cat)
           m == Render(o.cat, o.locale, i)
<1>1. p \in Prefixes /\ i \in Indexes /\ i = counter[p] + 1 /\ m \in Renderings(p, i)
  BY MintEntry DEF IInv
<1> HIDE DEF p, i, m
<1> SUFFICES ASSUME NEW c \in Coined, c.masked = m PROVE FALSE
  BY DEF m, i
<1>2. PICK q \in Prefixes : \E j \in 1..counter[q] : c.masked \in Renderings(q, j)
  BY DEF IInv, Indexed
<1>3. PICK j \in 1..counter[q] : c.masked \in Renderings(q, j)
  BY <1>2
<1>4. counter[q] \in Nat
  BY DEF IInv, TypeOK
<1>5. j \in Indexes
  BY <1>4 DEF Indexes
<1>6. p = q /\ i = j
  BY <1>1, <1>3, <1>5, RenderingsDisjoint
<1> QED BY <1>1, <1>4, <1>6

\* A mint adds exactly one entry to what was coined.
LEMMA MintCoins ==
  ASSUME IInv, NEW r \in Requests, NEW o \in Occurrences, Mint(r, o)
  PROVE  Coined' = Coined \union
           {[masked |-> Render(o.cat, o.locale, NextIndex(o.cat)), original |-> o.value]}
<1> DEFINE e == [masked |-> Render(o.cat, o.locale, NextIndex(o.cat)), original |-> o.value]
<1>1. minted' = [minted EXCEPT ![r] = Overlay(@, {e})]
  BY DEF Mint
<1>2. \A c \in Coined : c.masked # e.masked
  BY MintIsFresh
<1> HIDE DEF e
<1>3. minted[r] \subseteq Coined
  BY DEF Coined
<1>4. Overlay(minted[r], {e}) = minted[r] \union {e}
  BY <1>2, <1>3 DEF Overlay
<1>5. minted' = [minted EXCEPT ![r] = minted[r] \union {e}]
  BY <1>1, <1>4
<1>6. Coined' = Coined \union {e}
  BY <1>5 DEF Coined, IInv, TypeOK
<1> QED BY <1>6 DEF e

LEMMA MintIInv ==
  ASSUME IInv, TypeOK', NEW r \in Requests, NEW o \in Occurrences, Mint(r, o), vault' = vault
  PROVE  IInv'
<1> DEFINE p == Prefix[o.cat]
           i == NextIndex(o.cat)
           e == [masked |-> Render(o.cat, o.locale, i), original |-> o.value]
<1>1. p \in Prefixes /\ i = counter[p] + 1 /\ i \in Indexes /\ e.masked \in Renderings(p, i)
  BY MintEntry DEF IInv
<1>2. Coined' = Coined \union {e}
  BY MintCoins
<1>3. \A c \in Coined : c.masked # e.masked
  BY MintIsFresh
<1>4. counter' = [counter EXCEPT ![p] = i] /\ view' = [view EXCEPT ![r] = @ \union {e}]
  BY DEF Mint
<1> HIDE DEF p, i, e
<1>5. OneValue'
  BY <1>2, <1>3 DEF OneValue, IInv
<1>6. Accounted'
  BY <1>2, <1>4 DEF Accounted, IInv, TypeOK
<1>7. Indexed'
  <2> SUFFICES ASSUME NEW c \in Coined'
               PROVE  \E q \in Prefixes : \E j \in 1..counter'[q] : c.masked \in Renderings(q, j)
    BY DEF Indexed, Renderings
  <2>1. CASE c = e
    <3>1. counter'[p] = i /\ i \in 1..i
      BY <1>1, <1>4 DEF IInv, TypeOK, Indexes
    <3> QED BY <1>1, <2>1, <3>1
  <2>2. CASE c \in Coined
    <3>1. PICK q \in Prefixes : \E j \in 1..counter[q] : c.masked \in Renderings(q, j)
      BY <2>2 DEF IInv, Indexed
    <3>2. counter[q] \in Nat /\ counter'[q] \in Nat /\ counter[q] <= counter'[q]
      BY <1>1, <1>4 DEF IInv, TypeOK
    <3> QED BY <3>1, <3>2
  <2> QED BY <1>2, <2>1, <2>2
<1> QED BY <1>5, <1>6, <1>7 DEF IInv

LEMMA MaskMatchIInv ==
  ASSUME IInv, TypeOK', NEW r \in Requests, MaskMatch(r)
  PROVE  IInv'
<1>1. PICK o \in found[r] : WriteBackExempt(r, o) \/ ReuseKnown(r, o) \/ Mint(r, o)
  BY DEF MaskMatch
<1>2. o \in Occurrences
  BY DEF IInv, TypeOK
<1>3. vault' = vault
  BY DEF MaskMatch, vaultVars
<1>4. CASE WriteBackExempt(r, o) \/ ReuseKnown(r, o)
  BY <1>3, <1>4, NothingMinted DEF WriteBackExempt, ReuseKnown, IInv, Accounted
<1>5. CASE Mint(r, o)
  BY <1>2, <1>3, <1>5, MintIInv
<1> QED BY <1>1, <1>4, <1>5

LEMMA IInvStep == IInv /\ [Next]_vars => IInv'
<1> SUFFICES ASSUME IInv, [Next]_vars PROVE IInv'
  OBVIOUS
<1>1. TypeOK'
  BY TypeStep DEF IInv
<1>2. ASSUME NEW r \in Requests, Step(r) PROVE IInv'
  <2>1. CASE \E b \in Bodies : ArriveEmpty(r, b)
    BY <1>1, <2>1, NothingMinted DEF ArriveEmpty, vaultVars, IInv, Accounted
  <2>2. CASE RefuseUnreadable(r)
    BY <1>1, <2>2, NothingMinted DEF RefuseUnreadable, vaultVars, passVars, IInv, Accounted
  <2>3. CASE ScanString(r)
    BY <1>1, <2>3, NothingMinted DEF ScanString, vaultVars, IInv, Accounted
  <2>4. CASE SaveFails(r)
    <3>1. \A q \in Requests : view'[q] \subseteq Coined
      BY <2>4 DEF SaveFails, IInv, Accounted, TypeOK
    <3> QED BY <1>1, <2>4, <3>1, NothingMinted DEF SaveFails, vaultVars, IInv, Accounted
  <2> QED BY <1>1, <1>2, <2>1, <2>2, <2>3, <2>4,
             ArriveIInv, MaskMatchIInv, SaveAndForwardIInv, RespondIInv DEF Step
<1>3. CASE ChangePolicy
  <2>1. CASE ~Forget
    <3>1. minted' = minted /\ counter' = counter /\ vault' = vault /\ view' = view
      BY <1>3, <2>1 DEF ChangePolicy, SetLocales, Disable, SetSubstitution, vaultVars, passVars
    <3> QED BY <1>1, <3>1, NothingMinted DEF IInv, Accounted
  <2> QED BY <1>1, <2>1, ForgetIInv
<1>4. CASE Tick
  BY <1>1, <1>4, NothingMinted DEF Tick, passVars, IInv, Accounted
<1>5. CASE UNCHANGED vars
  BY <1>1, <1>5, NothingMinted DEF vars, passVars, vaultVars, IInv, Accounted
<1> QED BY <1>1, <1>2, <1>3, <1>4, <1>5, RestartIInv DEF Next

LEMMA IInvHolds == Spec => []IInv
  BY InitIInv, IInvStep, PTL DEF Spec

\* In one life of the process a replacement never stands for two values, for
\* any number of sessions, requests and values (mask.go, nextIndex and render).
THEOREM OneOriginalHolds == Spec => []OneOriginal
  BY IInvHolds, IInvImpliesOneOriginal, PTL

-----------------------------------------------------------------------------
(* The exchange implements Pseudonyms. *)

LEMMA BooksInit == Init => Books!Init
  BY DEF Init, Books!Init, Coined

\* Deleting sessions is the abstract Drop.
LEMMA DropIsDrop ==
  ASSUME NEW D, DropSessions(D), Coined' = Coined
  PROVE  Books!Next
<1>1. vault' = [t \in Sessions |-> IF t \in D \intersect Sessions THEN {} ELSE vault[t]]
  BY DEF DropSessions
<1>2. Books!Drop(D \intersect Sessions)
  BY <1>1 DEF Books!Drop
<1> QED BY <1>2 DEF Books!Next

\* Entries being unique, overwriting by key and adding are the same thing.
LEMMA OverlayIsUnion ==
  ASSUME IInv, NEW old \in SUBSET Coined, NEW new \in SUBSET Coined
  PROVE  Overlay(old, new) = old \union new
  BY DEF Overlay, IInv, OneValue

LEMMA SaveIsRemember ==
  ASSUME IInv, NEW r \in Requests, SaveAndForward(r)
  PROVE  Books!Next
<1> DEFINE s == sess(r)
           D == {t \in Sessions : Expired(t)}
<1>1. minted[r] \subseteq Coined /\ Coined' = Coined
  BY DEF Coined, SaveAndForward
<1>2. \A t \in Sessions :
        vault'[t] = (IF t \in D THEN {} ELSE vault[t]) \union (IF t = s THEN minted[r] ELSE {})
  <2> SUFFICES ASSUME NEW t \in Sessions
               PROVE  vault'[t] = (IF t \in D THEN {} ELSE vault[t])
                                    \union (IF t = s THEN minted[r] ELSE {})
    OBVIOUS
  <2> DEFINE kept == IF Expired(t) THEN {} ELSE vault[t]
  <2>1. kept \in SUBSET Coined
    BY DEF IInv, Accounted
  <2>2. Overlay(kept, minted[r]) = kept \union minted[r]
    BY <1>1, <2>1, OverlayIsUnion
  <2>3. vault'[t] = IF t = s THEN Overlay(kept, minted[r]) ELSE kept
    BY MergeKeeps DEF SaveAndForward
  <2> QED BY <2>2, <2>3
<1>3. DOMAIN vault' = Sessions /\ vault' = [t \in DOMAIN vault' |-> vault'[t]]
  BY DEF SaveAndForward, Merge
<1> HIDE DEF D
<1>4. CASE s \in Sessions
  <2>1. Books!Remember(s, minted[r], D)
    BY <1>1, <1>2, <1>3 DEF Books!Remember
  <2>2. D \in SUBSET Sessions
    BY DEF D
  <2> QED BY <1>1, <1>4, <2>1, <2>2 DEF Books!Next
<1>5. CASE s \notin Sessions
  <2>1. \A t \in Sessions : vault'[t] = IF t \in D THEN {} ELSE vault[t]
    <3>1. \A t \in Sessions : t # s
      BY <1>5
    <3> QED BY <1>2, <3>1
  <2>2. Books!Drop(D)
    BY <1>1, <1>3, <2>1 DEF Books!Drop
  <2>3. D \in SUBSET Sessions
    BY DEF D
  <2> QED BY <2>2, <2>3 DEF Books!Next
<1> QED BY <1>4, <1>5

LEMMA MintIsCoin ==
  ASSUME IInv, NEW r \in Requests, NEW o \in Occurrences, Mint(r, o), vault' = vault
  PROVE  Books!Next
<1> DEFINE e == [masked |-> Render(o.cat, o.locale, NextIndex(o.cat)), original |-> o.value]
<1>1. e \in Entries
  BY MintEntry DEF IInv
<1>2. \A c \in Coined : c.masked # e.masked
  BY MintIsFresh
<1>3. Coined' = Coined \union {e}
  BY MintCoins
<1> HIDE DEF e
<1>4. Books!Coin(e) /\ e \in Coined'
  BY <1>1, <1>2, <1>3 DEF Books!Coin, Books!Names, Entries
<1> QED BY <1>4 DEF Books!Next

LEMMA BooksStep == IInv /\ [Next]_vars => [Books!Next]_<<Coined, vault>>
<1> SUFFICES ASSUME IInv, [Next]_vars PROVE [Books!Next]_<<Coined, vault>>
  OBVIOUS
<1>1. ASSUME minted' = minted, vault' = vault PROVE UNCHANGED <<Coined, vault>>
  BY <1>1 DEF Coined
<1>2. ASSUME NEW r \in Requests, Step(r) PROVE [Books!Next]_<<Coined, vault>>
  <2>1. CASE \E b \in Bodies : Arrive(r, b)
    <3>1. PICK b \in Bodies : Arrive(r, b)
      BY <2>1
    <3>2. Coined' = Coined
      BY <3>1 DEF Arrive, Coined
    <3> QED BY <3>1, <3>2, DropIsDrop DEF Arrive, DropOnLoad
  <2>2. CASE MaskMatch(r)
    <3>1. PICK o \in found[r] : WriteBackExempt(r, o) \/ ReuseKnown(r, o) \/ Mint(r, o)
      BY <2>2 DEF MaskMatch
    <3>2. o \in Occurrences /\ vault' = vault
      BY <2>2 DEF IInv, TypeOK, MaskMatch, vaultVars
    <3>3. CASE WriteBackExempt(r, o) \/ ReuseKnown(r, o)
      BY <1>1, <3>2, <3>3 DEF WriteBackExempt, ReuseKnown
    <3>4. CASE Mint(r, o)
      BY <3>2, <3>4, MintIsCoin
    <3> QED BY <3>1, <3>3, <3>4
  <2>3. CASE Respond(r)
    <3>1. Coined' = Coined
      BY <2>3 DEF Respond, passVars, Coined
    <3> QED BY <2>3, <3>1, DropIsDrop DEF Respond, DropOnLoad
  <2>4. CASE \/ \E b \in Bodies : ArriveEmpty(r, b)
             \/ RefuseUnreadable(r)
             \/ ScanString(r)
             \/ SaveFails(r)
    BY <1>1, <2>4 DEF ArriveEmpty, RefuseUnreadable, ScanString, SaveFails, vaultVars, passVars
  <2> QED BY <1>2, <2>1, <2>2, <2>3, <2>4, SaveIsRemember DEF Step
<1>3. CASE ChangePolicy
  <2>1. CASE Forget
    <3>1. Coined' = Coined
      BY <2>1 DEF Forget, passVars, Coined
    <3> QED BY <2>1, <3>1, DropIsDrop DEF Forget
  <2>2. CASE ~Forget
    BY <1>1, <1>3, <2>2
       DEF ChangePolicy, SetLocales, Disable, SetSubstitution, vaultVars, passVars
  <2> QED BY <2>1, <2>2
<1>4. CASE Tick
  BY <1>1, <1>4 DEF Tick, passVars
<1>5. CASE Restart
  <2>1. Coined' = {} /\ vault' = [s \in Sessions |-> {}]
    BY <1>5 DEF Restart, Coined, DropSessions
  <2>2. Books!StartOver
    BY <2>1 DEF Books!StartOver
  <2> QED BY <2>2 DEF Books!Next
<1>6. CASE UNCHANGED vars
  BY <1>1, <1>6 DEF vars, vaultVars, passVars
<1> QED BY <1>2, <1>3, <1>4, <1>5, <1>6 DEF Next

\* Every behaviour of the exchange is one of Pseudonyms, with the entries the
\* process has minted for coined and the vault for remembered.
THEOREM ExchangeImplementsPseudonyms == Spec => ImplementsPseudonyms
<1>1. Init => Books!Init
  BY BooksInit
<1>2. IInv /\ [Next]_vars => [Books!Next]_<<Coined, vault>>
  BY BooksStep
<1> QED BY <1>1, <1>2, IInvHolds, PTL DEF Spec, ImplementsPseudonyms, Books!Spec

-----------------------------------------------------------------------------
(* A request from its body to its answer.                                    *)
(*                                                                         *)
(* What a masked body carries is an entry of the pass it was masked with;  *)
(* an entry of the pass is minted by the request or still in the mapping   *)
(* it was loaded from, unless a purge or an expiry since took it; and the  *)
(* mapping only ever receives what its own conversation sent.              *)

\* The entry a written replacement stands for.
Entry(w) == [masked |-> w.out, original |-> w.of.value]

Gone == {"sent", "answered", "lost"}

\* A request that has not arrived has written and minted nothing.
Untouched ==
  \A r \in Requests : phase[r] = "idle" => wire[r] = {} /\ minted[r] = {}

Bodied == \A r \in Requests : phase[r] \in {"masking", "sent"} => body[r] \in Bodies

\* A pass knows one replacement of a value.
Functional ==
  \A r \in Requests : \A e, f \in view[r] : e.original = f.original => e = f

\* While a request is masked, what it wrote is what its pass knows.
Written ==
  \A r \in Requests : phase[r] = "masking" =>
    \A w \in wire[r] : w.out \in Replacements => Entry(w) \in view[r]

\* What a request mints it writes.
MintedIsWritten ==
  \A r \in Requests : phase[r] \in {"masking", "sent"} =>
    \A e \in minted[r] : \E w \in wire[r] : Entry(w) = e

BaseInv == IInv /\ Untouched /\ Bodied /\ Functional /\ Written /\ MintedIsWritten

-----------------------------------------------------------------------------
(* What a step leaves alone. *)

\* A request touches no other request and no setting.
LEMMA StepIsLocal ==
  ASSUME TypeOK, NEW r \in Requests, Step(r)
  PROVE  /\ \A p \in Requests \ {r} :
              /\ phase'[p] = phase[p] /\ body'[p] = body[p] /\ wire'[p] = wire[p]
              /\ minted'[p] = minted[p] /\ view'[p] = view[p]
         /\ UNCHANGED <<mode, off, locales, purging, seen>>
<1> USE DEF TypeOK, policyVars, passVars
<1>1. CASE \E b \in Bodies : Arrive(r, b) \/ ArriveEmpty(r, b)
  BY <1>1 DEF Arrive, ArriveEmpty
<1>2. CASE RefuseUnreadable(r) \/ ScanString(r) \/ SaveAndForward(r) \/ SaveFails(r) \/ Respond(r)
  BY <1>2 DEF RefuseUnreadable, ScanString, SaveAndForward, SaveFails, Respond
<1>3. CASE MaskMatch(r)
  BY <1>3 DEF MaskMatch, WriteBackExempt, ReuseKnown, Mint, Write
<1> QED BY <1>1, <1>2, <1>3 DEF Step

\* The policy and the clock touch no request, but for what it takes note of.
LEMMA PolicyIsLocal ==
  ASSUME TypeOK, ChangePolicy \/ Tick
  PROVE  /\ UNCHANGED <<phase, body, wire, minted, view>>
         /\ \A r \in Requests : seen[r] \subseteq seen'[r]
<1>1. ASSUME NEW kind, NEW R, NEW phases, Note(kind, R, phases)
      PROVE  \A r \in Requests : seen[r] \subseteq seen'[r]
  BY <1>1 DEF Note
<1>2. CASE Tick
  BY <1>1, <1>2 DEF Tick, passVars
<1>3. CASE ChangePolicy
  BY <1>1, <1>3 DEF ChangePolicy, SetLocales, Disable, SetSubstitution, Forget, passVars
<1> QED BY <1>2, <1>3

LEMMA RestartForgets ==
  ASSUME TypeOK, Restart
  PROVE  /\ UNCHANGED <<mode, off, locales, body, wire, seen>>
         /\ \A r \in Requests :
              /\ minted'[r] = {} /\ view'[r] = {}
              /\ phase'[r] \notin {"masking", "sent"}
              /\ phase'[r] = "idle" => phase[r] = "idle"
              /\ phase'[r] \in Gone <=> phase[r] \in Gone
         /\ \A s \in Sessions : vault'[s] = {}
<1>1. \A r \in Requests : phase'[r] = CASE phase[r] = "masking" -> "refused"
                                       [] phase[r] = "sent"    -> "lost"
                                       [] OTHER                -> phase[r]
  BY DEF Restart
<1>2. \A r \in Requests :
        /\ phase'[r] \notin {"masking", "sent"}
        /\ phase'[r] = "idle" => phase[r] = "idle"
        /\ phase'[r] \in Gone <=> phase[r] \in Gone
  <2> SUFFICES ASSUME NEW r \in Requests
               PROVE  /\ phase'[r] \notin {"masking", "sent"}
                      /\ phase'[r] = "idle" => phase[r] = "idle"
                      /\ phase'[r] \in Gone <=> phase[r] \in Gone
    OBVIOUS
  <2>1. CASE phase[r] = "masking"
    BY <1>1, <2>1 DEF Gone
  <2>2. CASE phase[r] = "sent"
    BY <1>1, <2>2 DEF Gone
  <2>3. CASE phase[r] # "masking" /\ phase[r] # "sent"
    BY <1>1, <2>3
  <2> QED BY <2>1, <2>2, <2>3
<1> QED BY <1>2, DropKeeps DEF Restart

-----------------------------------------------------------------------------
(* The pass and the body it writes. *)

\* What masking one match does: which entry it writes, and what it adds.
LEMMA MatchWrites ==
  ASSUME IInv, NEW r \in Requests, MaskMatch(r)
  PROVE  \E w \in [of: Occurrences, out: Replacements \union Clear] :
           /\ wire'[r] = wire[r] \union {w}
           /\ phase[r] = "masking" /\ phase' = phase /\ body' = body
           /\ \/ /\ w.out \notin Replacements
                 /\ body[r].issuer /\ w.of.value \in body[r].declared
                 /\ view'[r] = view[r] /\ minted'[r] = minted[r]
              \/ /\ w.out \in Replacements /\ Entry(w) \in view[r]
                 /\ view'[r] = view[r] /\ minted'[r] = minted[r]
              \/ /\ w.out \in Replacements /\ ~Known(r, w.of.value)
                 /\ w.out = Render(w.of.cat, w.of.locale, NextIndex(w.of.cat))
                 /\ view'[r] = view[r] \union {Entry(w)}
                 /\ minted'[r] = minted[r] \union {Entry(w)}
<1>1. PICK o \in found[r] : WriteBackExempt(r, o) \/ ReuseKnown(r, o) \/ Mint(r, o)
  BY DEF MaskMatch
<1>2. /\ o \in Occurrences /\ o.value \in Values
      /\ wire \in [Requests -> SUBSET [of: Occurrences, out: Replacements \union Clear]]
      /\ view \in [Requests -> SUBSET Entries] /\ minted \in [Requests -> SUBSET Entries]
      /\ phase[r] = "masking" /\ phase' = phase /\ body' = body
  BY DEF IInv, TypeOK, Occurrences, MaskMatch
<1>3. ASSUME NEW out \in Replacements \union Clear, Write(r, o, out)
      PROVE  /\ wire'[r] = wire[r] \union {[of |-> o, out |-> out]}
             /\ [of |-> o, out |-> out] \in [of: Occurrences, out: Replacements \union Clear]
  BY <1>2, <1>3 DEF Write
<1>4. CASE WriteBackExempt(r, o)
  <2>1. InClear(o.value) \in Clear /\ InClear(o.value) \notin Replacements
    BY <1>2 DEF InClear, Clear, Replacements, Tokens, StandIns
  <2>2. body[r].issuer /\ o.value \in body[r].declared
    BY <1>4 DEF WriteBackExempt, Exempt
  <2> DEFINE w == [of |-> o, out |-> InClear(o.value)]
  <2>3. wire'[r] = wire[r] \union {w} /\ w \in [of: Occurrences, out: Replacements \union Clear]
    BY <1>3, <1>4, <2>1 DEF WriteBackExempt
  <2>4. view'[r] = view[r] /\ minted'[r] = minted[r]
    BY <1>4 DEF WriteBackExempt
  <2> USE <2>3
  <2> WITNESS w \in [of: Occurrences, out: Replacements \union Clear]
  <2> QED BY <1>2, <2>1, <2>2, <2>3, <2>4
<1>5. CASE ReuseKnown(r, o)
  <2>1. PICK e \in view[r] : e.original = o.value /\ Write(r, o, e.masked)
    BY <1>5 DEF ReuseKnown
  <2>2. e \in Entries /\ e.masked \in Replacements
    BY <1>2 DEF Entries
  <2> DEFINE w == [of |-> o, out |-> e.masked]
  <2>3. wire'[r] = wire[r] \union {w} /\ w \in [of: Occurrences, out: Replacements \union Clear]
    BY <1>3, <2>1, <2>2
  <2>4. Entry(w) = e
    BY <2>1, <2>2 DEF Entry, Entries
  <2>5. view'[r] = view[r] /\ minted'[r] = minted[r]
    BY <1>5 DEF ReuseKnown
  <2> USE <2>3
  <2> WITNESS w \in [of: Occurrences, out: Replacements \union Clear]
  <2> QED BY <1>2, <2>2, <2>3, <2>4, <2>5
<1>6. CASE Mint(r, o)
  <2> DEFINE m == Render(o.cat, o.locale, NextIndex(o.cat))
             e == [masked |-> m, original |-> o.value]
             w == [of |-> o, out |-> m]
  <2>1. m \in Replacements /\ Entry(w) = e /\ w.of = o /\ w.out = m
    BY <1>2, MintEntry DEF Entry, IInv
  <2>2. /\ view' = [view EXCEPT ![r] = @ \union {e}]
        /\ minted' = [minted EXCEPT ![r] = Overlay(@, {e})]
        /\ Write(r, o, m) /\ ~Known(r, o.value)
    BY <1>6 DEF Mint
  <2>3. \A c \in Coined : c.masked # e.masked
    BY <1>2, MintIsFresh
  <2> HIDE DEF m
  <2>4. Overlay(minted[r], {e}) = minted[r] \union {e}
    BY <2>3 DEF Overlay, Coined
  <2>5. wire'[r] = wire[r] \union {w} /\ w \in [of: Occurrences, out: Replacements \union Clear]
    BY <1>3, <2>1, <2>2
  <2>6. view'[r] = view[r] \union {Entry(w)} /\ minted'[r] = minted[r] \union {Entry(w)}
    BY <1>2, <2>1, <2>2, <2>4
  <2>7. w.out = Render(w.of.cat, w.of.locale, NextIndex(w.of.cat))
    BY <2>1 DEF m
  <2> USE <2>5
  <2> WITNESS w \in [of: Occurrences, out: Replacements \union Clear]
  <2> QED BY <1>2, <2>1, <2>2, <2>5, <2>6, <2>7
<1> QED BY <1>1, <1>4, <1>5, <1>6

\* What scanning a string writes is in clear and was not recognised.
LEMMA ScanWrites ==
  ASSUME TypeOK, NEW r \in Requests, ScanString(r)
  PROVE  \A w \in wire'[r] :
           w \in wire[r] \/ (w.out \notin Replacements /\ ~Recognised(w.of))
<1> DEFINE string == Head(todo[r])
           hits == {o \in string : Recognised(o)}
           left == {[of |-> o, out |-> InClear(o.value)] : o \in string \ hits}
<1>1. wire' = [wire EXCEPT ![r] = @ \union left]
  BY DEF ScanString
<1>2. \A w \in left : w.out \notin Replacements /\ ~Recognised(w.of)
  BY DEF InClear, Replacements, Tokens, StandIns
<1> HIDE DEF left
<1> QED BY <1>1, <1>2 DEF TypeOK

LEMMA BaseStep == BaseInv /\ [Next]_vars => BaseInv'
<1> SUFFICES ASSUME BaseInv, [Next]_vars PROVE BaseInv'
  OBVIOUS
<1>1. IInv' /\ TypeOK /\ IInv
  BY IInvStep DEF BaseInv, IInv
<1>2. ASSUME UNCHANGED <<phase, body, wire, minted, view>> PROVE BaseInv'
  BY <1>1, <1>2 DEF BaseInv, Untouched, Bodied, Functional, Written, MintedIsWritten
<1>3. CASE Restart
  <2>1. Untouched' /\ Bodied' /\ Functional' /\ Written' /\ MintedIsWritten'
    BY <1>1, <1>3, RestartForgets
       DEF BaseInv, Untouched, Bodied, Functional, Written, MintedIsWritten
  <2> QED BY <1>1, <2>1 DEF BaseInv
<1>4. ASSUME NEW r \in Requests, Step(r) PROVE BaseInv'
  <2> DEFINE Good(p) ==
        /\ phase[p] = "idle" => wire[p] = {} /\ minted[p] = {}
        /\ phase[p] \in {"masking", "sent"} => body[p] \in Bodies
        /\ \A e, f \in view[p] : e.original = f.original => e = f
        /\ phase[p] = "masking" =>
             \A w \in wire[p] : w.out \in Replacements => Entry(w) \in view[p]
        /\ phase[p] \in {"masking", "sent"} =>
             \A e \in minted[p] : \E w \in wire[p] : Entry(w) = e
  <2>1. Good(r) /\ \A p \in Requests : Good(p)
    BY DEF BaseInv, Untouched, Bodied, Functional, Written, MintedIsWritten
  <2>2. \A p \in Requests \ {r} : Good(p)'
    BY <1>1, <1>4, <2>1, StepIsLocal
  <2>3. Good(r)'
    <3> USE DEF passVars
    <3>1. CASE \E b \in Bodies : Arrive(r, b)
      <4>1. PICK b \in Bodies : Arrive(r, b)
        BY <3>1
      <4>2. PICK v \in Views(Load(b.session)) : view' = [view EXCEPT ![r] = v]
        BY <4>1 DEF Arrive
      <4>3. /\ phase[r] = "idle" /\ phase'[r] = "masking" /\ body'[r] = b
            /\ wire' = wire /\ minted' = minted /\ view'[r] = v
        BY <1>1, <4>1, <4>2 DEF Arrive, TypeOK
      <4>4. \A e, f \in v : e.original = f.original => e = f
        BY DEF Views
      <4> QED BY <2>1, <4>3, <4>4
    <3>2. CASE \E b \in Bodies : ArriveEmpty(r, b)
      BY <1>1, <2>1, <3>2 DEF ArriveEmpty, TypeOK
    <3>3. CASE RefuseUnreadable(r)
      BY <1>1, <2>1, <3>3 DEF RefuseUnreadable, TypeOK
    <3>4. CASE ScanString(r)
      <4>1. UNCHANGED <<phase, body, view, minted>> /\ phase[r] = "masking"
        BY <3>4 DEF ScanString
      <4>2. wire[r] \subseteq wire'[r]
        BY <1>1, <3>4 DEF ScanString, TypeOK
      <4> QED BY <1>1, <2>1, <3>4, <4>1, <4>2, ScanWrites
    <3>5. CASE MaskMatch(r)
      <4>1. PICK w \in [of: Occurrences, out: Replacements \union Clear] :
              /\ wire'[r] = wire[r] \union {w}
              /\ phase[r] = "masking" /\ phase' = phase /\ body' = body
              /\ \/ /\ w.out \notin Replacements
                    /\ view'[r] = view[r] /\ minted'[r] = minted[r]
                 \/ /\ w.out \in Replacements /\ Entry(w) \in view[r]
                    /\ view'[r] = view[r] /\ minted'[r] = minted[r]
                 \/ /\ w.out \in Replacements /\ ~Known(r, w.of.value)
                    /\ view'[r] = view[r] \union {Entry(w)}
                    /\ minted'[r] = minted[r] \union {Entry(w)}
        BY <1>1, <3>5, MatchWrites
      <4>2. ~Known(r, w.of.value) => \A e \in view[r] : e.original # Entry(w).original
        BY DEF Known, Entry
      <4> HIDE DEF Entry
      <4> QED BY <2>1, <4>1, <4>2
    <3>6. CASE SaveAndForward(r)
      BY <1>1, <2>1, <3>6 DEF SaveAndForward, Masked, TypeOK
    <3>7. CASE SaveFails(r)
      BY <1>1, <2>1, <3>7 DEF SaveFails, TypeOK
    <3>8. CASE Respond(r)
      BY <1>1, <2>1, <3>8 DEF Respond, TypeOK
    <3> QED BY <1>4, <3>1, <3>2, <3>3, <3>4, <3>5, <3>6, <3>7, <3>8 DEF Step
  <2>4. \A p \in Requests : Good(p)'
    BY <2>2, <2>3
  <2> QED BY <1>1, <2>4 DEF BaseInv, Untouched, Bodied, Functional, Written, MintedIsWritten
<1>5. CASE ChangePolicy \/ Tick
  BY <1>1, <1>2, <1>5, PolicyIsLocal
<1>6. CASE UNCHANGED vars
  BY <1>2, <1>6 DEF vars, passVars
<1> QED BY <1>3, <1>4, <1>5, <1>6 DEF Next

LEMMA BaseHolds == Spec => []BaseInv
<1>1. Init => BaseInv
  BY InitIInv DEF Init, BaseInv, Untouched, Bodied, Functional, Written, MintedIsWritten
<1> QED BY <1>1, BaseStep, PTL DEF Spec

-----------------------------------------------------------------------------
(* In clear, and one identity. *)

LEMMA ClearStep == BaseInv /\ NothingInClear /\ [Next]_vars => NothingInClear'
<1> SUFFICES ASSUME BaseInv, NothingInClear, [Next]_vars PROVE NothingInClear'
  OBVIOUS
<1> DEFINE Good(p) ==
      phase[p] = "masking" /\ <<"policy", "masking">> \notin seen[p]
      => \A w \in wire[p] :
           w.out \notin Replacements /\ Recognised(w.of)
           => body[p].issuer /\ w.of.value \in body[p].declared
<1>1. TypeOK /\ IInv /\ Untouched /\ \A p \in Requests : Good(p)
  BY DEF BaseInv, IInv, NothingInClear
<1>2. ASSUME UNCHANGED <<off, locales, phase, body, wire>>,
             \A p \in Requests : seen[p] \subseteq seen'[p]
      PROVE  NothingInClear'
  BY <1>1, <1>2 DEF NothingInClear, Recognised
<1>3. ASSUME NEW r \in Requests, Step(r) PROVE NothingInClear'
  <2>1. /\ UNCHANGED <<off, locales, seen>>
        /\ \A p \in Requests \ {r} :
             phase'[p] = phase[p] /\ body'[p] = body[p] /\ wire'[p] = wire[p]
    BY <1>1, <1>3, StepIsLocal
  <2>2. CASE phase'[r] # "masking"
    BY <1>1, <2>1, <2>2 DEF NothingInClear, Recognised
  <2>3. CASE \E b \in Bodies : Arrive(r, b)
    <3>1. wire'[r] = {}
      BY <1>1, <2>3 DEF Arrive, Untouched
    <3> QED BY <1>1, <2>1, <3>1 DEF NothingInClear, Recognised
  <2>4. CASE ScanString(r)
    <3>1. phase[r] = "masking" /\ body' = body
      BY <2>4 DEF ScanString
    <3>2. Good(r)'
      BY <1>1, <2>1, <2>4, <3>1, ScanWrites DEF Recognised
    <3> QED BY <1>1, <2>1, <3>2 DEF NothingInClear, Recognised
  <2>5. CASE MaskMatch(r)
    <3>1. PICK w \in [of: Occurrences, out: Replacements \union Clear] :
            /\ wire'[r] = wire[r] \union {w}
            /\ phase[r] = "masking" /\ body' = body
            /\ w.out \in Replacements \/ (body[r].issuer /\ w.of.value \in body[r].declared)
      BY <1>1, <2>5, MatchWrites
    <3>2. Good(r)'
      BY <1>1, <2>1, <3>1 DEF Recognised
    <3> QED BY <1>1, <2>1, <3>2 DEF NothingInClear, Recognised
  <2>6. CASE \/ \E b \in Bodies : ArriveEmpty(r, b)
             \/ RefuseUnreadable(r) \/ SaveAndForward(r) \/ SaveFails(r) \/ Respond(r)
    <3>1. phase'[r] # "masking"
      BY <1>1, <2>6 DEF ArriveEmpty, RefuseUnreadable, SaveAndForward, SaveFails, Respond, TypeOK
    <3> QED BY <2>2, <3>1
  <2> QED BY <1>3, <2>3, <2>4, <2>5, <2>6 DEF Step
<1>4. CASE ChangePolicy \/ Tick
  <2>1. /\ UNCHANGED <<phase, body, wire>>
        /\ \A p \in Requests : seen[p] \subseteq seen'[p]
    BY <1>1, <1>4, PolicyIsLocal
  <2>2. CASE UNCHANGED <<off, locales>>
    BY <1>2, <2>1, <2>2
  <2>3. CASE ~UNCHANGED <<off, locales>>
    <3>1. Note("policy", Requests, {"masking"})
      BY <1>4, <2>3 DEF ChangePolicy, SetLocales, Disable, SetSubstitution, Forget, Tick, policyVars
    <3>2. \A p \in Requests : phase[p] = "masking" => <<"policy", "masking">> \in seen'[p]
      BY <3>1 DEF Note
    <3> QED BY <2>1, <3>2 DEF NothingInClear
  <2> QED BY <2>2, <2>3
<1>5. CASE Restart
  BY <1>1, <1>5, RestartForgets DEF NothingInClear
<1>6. CASE UNCHANGED vars
  BY <1>2, <1>6 DEF vars, policyVars, passVars
<1> QED BY <1>3, <1>4, <1>5, <1>6 DEF Next

\* With the policy left alone while a request is masked, whatever a pattern
\* recognises leaves as a replacement, but for an identifier declared to its own
\* issuer (maskRequest, exemptIdentifiers).
THEOREM RecognisedIsReplaced == Spec => []NothingInClear
<1>1. Init => NothingInClear
  BY DEF Init, NothingInClear
<1> QED BY <1>1, ClearStep, BaseHolds, PTL DEF Spec

LEMMA IdentityStep == BaseInv /\ BaseInv' /\ OneIdentity /\ [Next]_vars => OneIdentity'
<1> SUFFICES ASSUME BaseInv, BaseInv', OneIdentity, [Next]_vars,
                    NEW r \in Requests, NEW w \in wire'[r], NEW x \in wire'[r],
                    w.of.value = x.of.value, w.out \in Replacements, x.out \in Replacements
             PROVE  w.out = x.out
  BY DEF OneIdentity, Replacements, Tokens, StandIns, Indexes
<1>1. TypeOK
  BY DEF BaseInv, IInv
<1>2. CASE phase'[r] = "masking"
  <2>1. Entry(w) \in view'[r] /\ Entry(x) \in view'[r]
    BY <1>2 DEF BaseInv, Written, Replacements, Tokens, StandIns, Indexes
  <2>2. Entry(w) = Entry(x)
    <3>1. Entry(w).original = Entry(x).original
      BY DEF Entry
    <3> QED BY <2>1, <3>1 DEF BaseInv, Functional
  <2> QED BY <2>2 DEF Entry
<1>3. CASE phase'[r] # "masking"
  <2>1. wire'[r] \subseteq wire[r]
    <3>1. ASSUME NEW q \in Requests, Step(q) PROVE wire'[r] \subseteq wire[r]
      <4>1. CASE q # r
        BY <1>1, <3>1, <4>1, StepIsLocal
      <4>2. CASE q = r
        BY <1>1, <1>3, <3>1, <4>2 DEF Step, Arrive, ArriveEmpty, RefuseUnreadable, ScanString,
           MaskMatch, SaveAndForward, SaveFails, Respond, passVars, TypeOK
      <4> QED BY <4>1, <4>2
    <3>2. CASE ChangePolicy \/ Tick
      BY <1>1, <3>2, PolicyIsLocal
    <3>3. CASE Restart
      BY <1>1, <3>3, RestartForgets
    <3>4. CASE UNCHANGED vars
      BY <3>4 DEF vars, passVars
    <3> QED BY <3>1, <3>2, <3>3, <3>4 DEF Next
  <2> QED BY <2>1 DEF OneIdentity
<1> QED BY <1>2, <1>3

\* In one request a value keeps one replacement, whatever was switched while it
\* was being masked (Pass.byValue).
THEOREM OneValueOneReplacement == Spec => []OneIdentity
<1>1. Init => OneIdentity
  BY DEF Init, OneIdentity
<1> QED BY <1>1, IdentityStep, BaseHolds, PTL DEF Spec

-----------------------------------------------------------------------------
(* The answer. *)

\* What a session's mapping receives, a request of that session has sent.
Sourced ==
  \A s \in Sessions : \A e \in vault[s] :
    \E q \in Requests : \E w \in wire[q] :
      phase[q] \in Gone /\ sess(q) = s /\ Entry(w) = e

\* What any step leaves in a mapping was there, or a request of the session saved it.
LEMMA VaultGrows ==
  ASSUME TypeOK, [Next]_vars, NEW s \in Sessions, NEW e \in vault'[s]
  PROVE  \/ e \in vault[s]
         \/ \E r \in Requests : SaveAndForward(r) /\ sess(r) = s /\ e \in minted[r]
<1>1. ASSUME NEW S, DropSessions(S) PROVE e \in vault[s]
  BY <1>1, DropKeeps
<1>2. CASE vault' = vault
  BY <1>2
<1>3. ASSUME NEW r \in Requests, SaveAndForward(r)
      PROVE  e \in vault[s] \/ (sess(r) = s /\ e \in minted[r])
  <2> DEFINE kept == IF Expired(s) THEN {} ELSE vault[s]
  <2>1. Merge(sess(r), minted[r])
    BY <1>3 DEF SaveAndForward
  <2>2. vault'[s] = IF s = sess(r) THEN Overlay(kept, minted[r]) ELSE kept
    BY <2>1, MergeKeeps
  <2>3. Overlay(kept, minted[r]) \subseteq kept \union minted[r] /\ kept \subseteq vault[s]
    BY DEF Overlay
  <2> HIDE DEF kept
  <2> QED BY <2>2, <2>3
<1>4. ASSUME NEW r \in Requests, Step(r), ~SaveAndForward(r) PROVE e \in vault[s]
  BY <1>1, <1>2, <1>4 DEF Step, Arrive, ArriveEmpty, RefuseUnreadable, ScanString, MaskMatch,
     SaveFails, Respond, DropOnLoad, vaultVars
<1>5. CASE ChangePolicy \/ Tick \/ Restart \/ UNCHANGED vars
  BY <1>1, <1>2, <1>5 DEF ChangePolicy, SetLocales, Disable, SetSubstitution, Forget, Tick,
     Restart, vars, vaultVars
<1> QED BY <1>3, <1>4, <1>5 DEF Next

\* What has been sent stays sent.
LEMMA GoneStays ==
  ASSUME BaseInv, [Next]_vars, NEW q \in Requests, phase[q] \in Gone
  PROVE  phase'[q] \in Gone /\ wire'[q] = wire[q] /\ body'[q] = body[q]
<1>1. TypeOK
  BY DEF BaseInv, IInv
<1>2. ASSUME NEW r \in Requests, Step(r)
      PROVE  phase'[q] \in Gone /\ wire'[q] = wire[q] /\ body'[q] = body[q]
  <2>1. CASE r # q
    BY <1>1, <1>2, <2>1, StepIsLocal
  <2>2. CASE r = q
    BY <1>1, <1>2, <2>2 DEF Gone, Step, Arrive, ArriveEmpty, RefuseUnreadable, ScanString,
       MaskMatch, SaveAndForward, SaveFails, Masked, Respond, passVars, TypeOK
  <2> QED BY <2>1, <2>2
<1>3. CASE ChangePolicy \/ Tick
  BY <1>1, <1>3, PolicyIsLocal
<1>4. CASE Restart
  BY <1>1, <1>4, RestartForgets
<1>5. CASE UNCHANGED vars
  BY <1>5 DEF vars, passVars
<1> QED BY <1>2, <1>3, <1>4, <1>5 DEF Next

LEMMA SourcedStep == BaseInv /\ Sourced /\ [Next]_vars => Sourced'
<1> SUFFICES ASSUME BaseInv, Sourced, [Next]_vars, NEW s \in Sessions, NEW e \in vault'[s]
             PROVE  \E q \in Requests : \E w \in wire'[q] :
                      phase'[q] \in Gone /\ sess(q)' = s /\ Entry(w) = e
  BY DEF Sourced, Entry
<1>1. TypeOK
  BY DEF BaseInv, IInv
<1>2. CASE e \in vault[s]
  <2>1. PICK q \in Requests : \E w \in wire[q] :
          phase[q] \in Gone /\ sess(q) = s /\ Entry(w) = e
    BY <1>2 DEF Sourced
  <2>2. phase'[q] \in Gone /\ wire'[q] = wire[q] /\ body'[q] = body[q]
    BY <2>1, GoneStays
  <2> QED BY <2>1, <2>2 DEF sess
<1>3. ASSUME NEW r \in Requests, SaveAndForward(r), sess(r) = s, e \in minted[r]
      PROVE  \E q \in Requests : \E w \in wire'[q] :
               phase'[q] \in Gone /\ sess(q)' = s /\ Entry(w) = e
  <2>1. phase'[r] = "sent" /\ wire' = wire /\ body' = body /\ phase[r] = "masking"
    BY <1>1, <1>3 DEF SaveAndForward, Masked, TypeOK
  <2>2. PICK w \in wire[r] : Entry(w) = e
    BY <1>3, <2>1 DEF BaseInv, MintedIsWritten
  <2> QED BY <1>3, <2>1, <2>2 DEF Gone, sess
<1> QED BY <1>1, <1>2, <1>3, VaultGrows

\* An answer is never expanded to anything its own conversation did not send under
\* that very replacement (vault.Load by session, Expander.Unmask).
THEOREM NobodyElsesAnswer == Spec => []NeverMisread
<1>1. Init => Sourced
  BY DEF Init, Sourced
<1>2. BaseInv /\ Sourced => NeverMisread
  <2> SUFFICES ASSUME BaseInv, Sourced, NEW r \in Requests, NEW m \in Disclosed,
                      phase[r] = "sent", Shown(sess(r), m) # m
               PROVE  \E q \in Requests : \E w \in wire[q] :
                        /\ phase[q] \in {"sent", "answered", "lost"}
                        /\ sess(q) = sess(r) /\ w.out = m
                        /\ Shown(sess(r), m) = InClear(w.of.value)
    BY DEF NeverMisread
  <2> DEFINE s == sess(r)
             e == CHOOSE x \in Load(s) : x.masked = m
  <2>1. \E x \in Load(s) : x.masked = m
    BY DEF Shown
  <2>2. e \in Load(s) /\ e.masked = m
    BY <2>1
  <2>3. Shown(s, m) = InClear(e.original)
    BY <2>1 DEF Shown
  <2>4. s \in Sessions
    BY BodyParts DEF BaseInv, Bodied, sess
  <2> HIDE DEF e, s
  <2>5. e \in vault[s]
    BY <2>2 DEF Load
  <2>6. PICK q \in Requests : \E w \in wire[q] :
          phase[q] \in Gone /\ sess(q) = s /\ Entry(w) = e
    BY <2>4, <2>5 DEF Sourced
  <2>7. PICK w \in wire[q] : phase[q] \in Gone /\ sess(q) = s /\ Entry(w) = e
    BY <2>6
  <2>8. w.out = m /\ w.of.value = e.original
    BY <2>2, <2>7 DEF Entry
  <2> QED BY <2>3, <2>7, <2>8 DEF Gone, s
<1> QED BY <1>1, <1>2, SourcedStep, BaseHolds, PTL DEF Spec

\* An entry a session holds and will give.
Held(s, e) == e \in vault[s] /\ ~Expired(s)

\* What a pass loaded is still there, unless a purge or an expiry took it, and so
\* is what a request sent.
Kept ==
  \A r \in Requests :
    /\ phase[r] = "masking" =>
         \A e \in view[r] : e \in minted[r] \/ Lost(r, "masking") \/ Held(sess(r), e)
    /\ phase[r] = "sent" =>
         \A w \in wire[r] : w.out \in Replacements =>
           /\ Entry(w) \in Coined
           /\ ~Lost(r, "sent") /\ (Entry(w) \in minted[r] \/ ~Lost(r, "masking"))
                => Held(sess(r), Entry(w))

\* No request takes from a mapping what has not expired.
LEMMA StepKeepsHeld ==
  ASSUME IInv, NEW r \in Requests, Step(r), NEW s \in Sessions, NEW e, Held(s, e)
  PROVE  Held(s, e)'
<1>1. /\ vault \in [Sessions -> SUBSET Entries] /\ age \in [Sessions -> 0..(TTL + 1)]
      /\ vault[s] \in SUBSET Coined /\ TTL \in Nat
  BY BoundsAssumption DEF IInv, TypeOK, Accounted
<1>2. ASSUME NEW t, DropOnLoad(t) PROVE Held(s, e)'
  BY <1>1, <1>2 DEF DropOnLoad, DropSessions, Held, Expired
<1>3. CASE SaveAndForward(r)
  <2>1. minted[r] \in SUBSET Coined
    BY DEF Coined
  <2>2. Overlay(vault[s], minted[r]) = vault[s] \union minted[r]
    BY <1>1, <2>1, OverlayIsUnion
  <2>3. vault'[s] = vault[s] \union minted[r] \/ vault'[s] = vault[s]
    BY <1>3, <2>2, MergeKeeps DEF SaveAndForward, Held
  <2>4. age'[s] = 0 \/ age'[s] = age[s]
    BY <1>3 DEF SaveAndForward, Merge
  <2> QED BY <1>1, <2>3, <2>4 DEF Held, Expired
<1>4. CASE ~SaveAndForward(r)
  <2>1. (\E t : DropOnLoad(t)) \/ UNCHANGED <<vault, age>>
    BY <1>4 DEF Step, Arrive, ArriveEmpty, RefuseUnreadable, ScanString, MaskMatch,
       SaveFails, Respond, vaultVars
  <2> QED BY <1>2, <2>1 DEF Held, Expired
<1> QED BY <1>3, <1>4

\* A purge or an expiry that takes an entry is noted by every request it concerns.
LEMMA TakenIsNoted ==
  ASSUME BaseInv, ChangePolicy \/ Tick, NEW r \in Requests, phase[r] \in {"masking", "sent"},
         NEW e, Held(sess(r), e)
  PROVE  Held(sess(r), e)' \/ Lost(r, phase[r])'
<1>1. TypeOK /\ sess(r) \in Sessions
  BY BodyParts DEF BaseInv, IInv, Bodied, sess
<1>2. phase' = phase /\ body' = body
  BY <1>1, PolicyIsLocal
<1>3. CASE Forget
  <2>1. <<"purge", phase[r]>> \in seen'[r]
    BY <1>3 DEF Forget, Note
  <2> QED BY <1>2, <2>1 DEF Lost
<1>4. CASE Tick
  <2>1. CASE age'[sess(r)] > TTL
    <3>1. r \in Bereft({s \in Sessions : age'[s] > TTL})
      BY <1>1, <2>1 DEF Bereft, InFlight, Held
    <3>2. <<"expiry", phase[r]>> \in seen'[r]
      BY <1>4, <3>1 DEF Tick, Note
    <3> QED BY <1>2, <3>2 DEF Lost
  <2>2. CASE ~(age'[sess(r)] > TTL)
    BY <1>2, <1>4, <2>2 DEF Tick, Held, Expired, sess
  <2> QED BY <2>1, <2>2
<1>5. CASE ChangePolicy /\ ~Forget
  BY <1>2, <1>5 DEF ChangePolicy, SetLocales, Disable, SetSubstitution, vaultVars, Held,
     Expired, sess
<1> QED BY <1>3, <1>4, <1>5

\* A process that goes on forgets nothing it minted.
LEMMA CoinedGrows ==
  ASSUME BaseInv, NEW r \in Requests, Step(r)
  PROVE  Coined \subseteq Coined' /\ minted[r] \subseteq minted'[r]
<1>1. TypeOK /\ IInv
  BY DEF BaseInv, IInv
<1>2. minted[r] \subseteq minted'[r]
  <2>1. CASE MaskMatch(r)
    BY <1>1, <2>1, MatchWrites
  <2>2. CASE ~MaskMatch(r)
    BY <2>2 DEF Step, Arrive, ArriveEmpty, RefuseUnreadable, ScanString, SaveAndForward,
       SaveFails, Respond, passVars
  <2> QED BY <2>1, <2>2
<1>3. \A p \in Requests : minted[p] \subseteq minted'[p]
  BY <1>1, <1>2, StepIsLocal
<1> QED BY <1>2, <1>3 DEF Coined

LEMMA KeptByStep ==
  ASSUME BaseInv, BaseInv', Kept, NEW r \in Requests, Step(r)
  PROVE  Kept'
<1> DEFINE Masking(p) ==
      phase[p] = "masking" =>
        \A e \in view[p] : e \in minted[p] \/ Lost(p, "masking") \/ Held(sess(p), e)
    Sent(p) ==
      phase[p] = "sent" =>
        \A w \in wire[p] : w.out \in Replacements =>
          /\ Entry(w) \in Coined
          /\ ~Lost(p, "sent") /\ (Entry(w) \in minted[p] \/ ~Lost(p, "masking"))
               => Held(sess(p), Entry(w))
<1>1. /\ TypeOK /\ IInv /\ IInv' /\ seen' = seen
      /\ \A p \in Requests : Masking(p) /\ Sent(p)
  BY StepIsLocal DEF BaseInv, IInv, Kept
<1>2. ASSUME NEW p \in Requests, phase[p] \in {"masking", "sent"}, NEW e, Held(sess(p), e)
      PROVE  Held(sess(p), e)'
  <2>1. sess(p) \in Sessions
    BY <1>2, BodyParts DEF BaseInv, Bodied, sess
  <2>2. body'[p] = body[p]
    <3>1. CASE p # r
      BY <1>1, <3>1, StepIsLocal
    <3>2. CASE p = r
      BY <1>2, <3>2 DEF Step, Arrive, ArriveEmpty, RefuseUnreadable, ScanString, MaskMatch,
         SaveAndForward, SaveFails, Respond, passVars
    <3> QED BY <3>1, <3>2
  <2>3. Held(sess(p), e)' = (e \in vault'[sess(p)] /\ ~Expired(sess(p))')
    BY <2>2 DEF Held, Expired, sess
  <2>4. e \in vault'[sess(p)] /\ ~Expired(sess(p))'
    <3> DEFINE s == sess(p)
    <3>1. s \in Sessions /\ Held(s, e)
      BY <1>2, <2>1
    <3>2. sess(p)' = sess(p)
      BY <2>2 DEF sess
    <3> HIDE DEF s
    <3>3. e \in vault'[s] /\ ~(age'[s] > TTL)
      BY <1>1, <3>1, StepKeepsHeld DEF Held, Expired
    <3> QED BY <3>2, <3>3 DEF s, Expired
  <2> QED BY <2>3, <2>4
<1>3. ASSUME NEW p \in Requests, p # r PROVE Masking(p)' /\ Sent(p)'
  <2>1. /\ phase'[p] = phase[p] /\ body'[p] = body[p] /\ wire'[p] = wire[p]
        /\ minted'[p] = minted[p] /\ view'[p] = view[p]
    BY <1>1, <1>3, StepIsLocal
  <2>2. Coined \subseteq Coined'
    BY CoinedGrows
  <2>3. Masking(p)'
    BY <1>1, <1>2, <2>1 DEF Lost
  <2>4. Sent(p)'
    BY <1>1, <1>2, <2>1, <2>2 DEF Lost, Entry
  <2> QED BY <2>3, <2>4
<1>4. Masking(r)'
  <2>1. CASE \E b \in Bodies : Arrive(r, b)
    <3>1. PICK b \in Bodies : Arrive(r, b)
      BY <2>1
    <3>2. PICK v \in Views(Load(b.session)) : view' = [view EXCEPT ![r] = v]
      BY <3>1 DEF Arrive
    <3>3. view'[r] \subseteq Load(b.session) /\ body'[r] = b /\ DropOnLoad(b.session)
      BY <1>1, <3>1, <3>2 DEF Arrive, Views, TypeOK
    <3>4. b.session \in Sessions
      BY BodyParts
    <3>5. \A e \in Load(b.session) : e \in vault'[b.session] /\ ~(age'[b.session] > TTL)
      BY <1>1, <3>3, <3>4 DEF Load, DropOnLoad, DropSessions, Expired
    <3> QED BY <3>3, <3>5 DEF Held, Expired, sess
  <2>2. CASE ScanString(r)
    <3>1. UNCHANGED <<phase, view, minted>> /\ phase[r] = "masking"
      BY <2>2 DEF ScanString
    <3> QED BY <1>1, <1>2, <3>1 DEF Lost
  <2>3. CASE MaskMatch(r)
    <3>1. /\ phase[r] = "masking"
          /\ \A e \in view'[r] : e \in view[r] \/ e \in minted'[r]
      BY <1>1, <2>3, MatchWrites
    <3>2. minted[r] \subseteq minted'[r]
      BY CoinedGrows
    <3> QED BY <1>1, <1>2, <3>1, <3>2 DEF Lost
  <2>4. CASE \/ \E b \in Bodies : ArriveEmpty(r, b)
             \/ RefuseUnreadable(r) \/ SaveAndForward(r) \/ SaveFails(r) \/ Respond(r)
    <3>1. phase'[r] # "masking"
      BY <1>1, <2>4 DEF ArriveEmpty, RefuseUnreadable, SaveAndForward, SaveFails, Respond, TypeOK
    <3> QED BY <3>1
  <2> QED BY <2>1, <2>2, <2>3, <2>4 DEF Step
<1>5. Sent(r)'
  <2>1. CASE SaveAndForward(r)
    <3>1. /\ phase[r] = "masking" /\ UNCHANGED <<body, wire, minted, seen>>
          /\ sess(r) \in Sessions
      BY <2>1, BodyParts DEF SaveAndForward, Masked, BaseInv, Bodied, sess
    <3> SUFFICES ASSUME NEW w \in wire[r], w.out \in Replacements
                 PROVE  /\ Entry(w) \in Coined'
                        /\ Entry(w) \in minted[r] \/ ~Lost(r, "masking")
                             => Held(sess(r), Entry(w))'
      BY <3>1 DEF Lost, Entry, Replacements, Tokens, StandIns, Indexes
    <3>2. Entry(w) \in view[r]
      BY <3>1 DEF BaseInv, Written
    <3>3. Entry(w) \in Coined'
      BY <1>1, <3>2, CoinedGrows DEF IInv, Accounted
    <3>4. ASSUME Entry(w) \in minted[r] PROVE Held(sess(r), Entry(w))'
      <4>1. Merge(sess(r), minted[r])
        BY <2>1 DEF SaveAndForward
      <4>2. Entry(w) \in vault'[sess(r)]
        <5> DEFINE kept == IF Expired(sess(r)) THEN {} ELSE vault[sess(r)]
        <5>1. vault'[sess(r)] = Overlay(kept, minted[r])
          BY <3>1, <4>1, MergeKeeps
        <5>2. minted[r] \subseteq Overlay(kept, minted[r])
          BY DEF Overlay
        <5> QED BY <3>4, <5>1, <5>2
      <4>3. age'[sess(r)] = 0 /\ TTL \in Nat
        BY <3>1, <4>1, BoundsAssumption DEF Merge
      <4>4. sess(r)' = sess(r) /\ Entry(w)' = Entry(w)
        BY <3>1 DEF sess, Entry
      <4> QED BY <4>2, <4>3, <4>4 DEF Held, Expired
    <3>5. ASSUME Entry(w) \notin minted[r], ~Lost(r, "masking") PROVE Held(sess(r), Entry(w))'
      <4>1. Held(sess(r), Entry(w))
        BY <1>1, <3>1, <3>2, <3>5
      <4>2. Entry(w)' = Entry(w)
        BY DEF Entry
      <4> HIDE DEF Masking, Sent
      <4> QED BY <1>2, <3>1, <4>1, <4>2
    <3> QED BY <3>3, <3>4, <3>5
  <2>2. CASE \E b \in Bodies : ArriveEmpty(r, b)
    <3>1. wire'[r] = {}
      BY <2>2 DEF ArriveEmpty, BaseInv, Untouched
    <3> QED BY <3>1
  <2>3. CASE ~(SaveAndForward(r) \/ \E b \in Bodies : ArriveEmpty(r, b))
    <3>1. phase'[r] # "sent"
      BY <1>1, <2>3 DEF Step, Arrive, RefuseUnreadable, ScanString, MaskMatch, SaveFails,
         Respond, TypeOK
    <3> QED BY <3>1
  <2> QED BY <2>1, <2>2, <2>3
<1>6. \A p \in Requests : Masking(p)' /\ Sent(p)'
  BY <1>3, <1>4, <1>5
<1> QED BY <1>6 DEF Kept

LEMMA KeptStep == BaseInv /\ BaseInv' /\ Kept /\ [Next]_vars => Kept'
<1> SUFFICES ASSUME BaseInv, BaseInv', Kept, [Next]_vars PROVE Kept'
  OBVIOUS
<1>1. TypeOK
  BY DEF BaseInv, IInv
<1>2. CASE ChangePolicy \/ Tick
  <2>1. /\ UNCHANGED <<phase, body, wire, minted, view>>
        /\ \A p \in Requests : seen[p] \subseteq seen'[p]
    BY <1>1, <1>2, PolicyIsLocal
  <2>2. Coined' = Coined
    BY <2>1 DEF Coined
  <2>3. \A p \in Requests, where \in {"masking", "sent"} : Lost(p, where) => Lost(p, where)'
    BY <2>1 DEF Lost
  <2>4. \A p \in Requests : phase[p] \in {"masking", "sent"} =>
          \A e : Held(sess(p), e) => Held(sess(p), e)' \/ Lost(p, phase[p])'
    BY <1>2, TakenIsNoted
  <2>5. ASSUME NEW p \in Requests, phase'[p] = "masking", NEW e \in view'[p]
        PROVE  e \in minted'[p] \/ Lost(p, "masking")' \/ Held(sess(p), e)'
    <3>1. e \in minted[p] \/ Lost(p, "masking") \/ Held(sess(p), e)
      BY <2>1, <2>5 DEF Kept
    <3>2. Held(sess(p), e) => Held(sess(p), e)' \/ Lost(p, "masking")'
      BY <2>1, <2>4, <2>5
    <3> QED BY <2>1, <2>3, <3>1, <3>2
  <2>6. ASSUME NEW p \in Requests, phase'[p] = "sent", NEW w \in wire'[p], w.out \in Replacements
        PROVE  /\ Entry(w) \in Coined'
               /\ ~Lost(p, "sent")' /\ (Entry(w) \in minted'[p] \/ ~Lost(p, "masking")')
                    => Held(sess(p), Entry(w))'
    <3>1. /\ Entry(w) \in Coined
          /\ ~Lost(p, "sent") /\ (Entry(w) \in minted[p] \/ ~Lost(p, "masking"))
               => Held(sess(p), Entry(w))
      BY <2>1, <2>6 DEF Kept
    <3> DEFINE e == Entry(w)
    <3>2. Held(sess(p), e) => Held(sess(p), e)' \/ Lost(p, "sent")'
      <4> HIDE DEF e
      <4> QED BY <2>1, <2>4, <2>6
    <3>3. Held(sess(p), Entry(w)) => Held(sess(p), Entry(w))' \/ Lost(p, "sent")'
      BY <3>2 DEF Entry
    <3> QED BY <2>1, <2>2, <2>3, <3>1, <3>3
  <2> QED BY <2>5, <2>6 DEF Kept, Entry, Replacements, Tokens, StandIns, Indexes
<1>3. CASE Restart
  BY <1>1, <1>3, RestartForgets DEF Kept
<1>4. CASE UNCHANGED vars
  <2>1. UNCHANGED <<phase, body, wire, minted, view, seen, vault, age>>
    BY <1>4 DEF vars, passVars, vaultVars
  <2> QED BY <2>1 DEF Kept, Held, Expired, Lost, sess, Entry, Coined
<1> QED BY <1>2, <1>3, <1>4, KeptByStep DEF Next

\* An answer that echoes what its request sent shows the value it stood for, for
\* any number of requests of any conversations around it (Server.unmask).
THEOREM OwnAnswerExpands == Spec => []OwnEchoExpands
<1>1. Init => Kept
  BY DEF Init, Kept
<1>2. BaseInv /\ Kept => OwnEchoExpands
  <2> SUFFICES ASSUME BaseInv, Kept, NEW r \in Requests, NEW w \in wire[r],
                      phase[r] = "sent", w.out \in Replacements, ~Lost(r, "sent"),
                      (\E e \in minted[r] : e.masked = w.out) \/ ~Lost(r, "masking")
               PROVE  Shown(sess(r), w.out) = InClear(w.of.value)
    BY DEF OwnEchoExpands
  <2>1. Entry(w) \in Coined /\ sess(r) \in Sessions
    BY BodyParts DEF Kept, BaseInv, Bodied, sess
  <2>2. \A e \in Coined : e.masked = w.out => e = Entry(w)
    <3>1. Entry(w).masked = w.out
      BY DEF Entry
    <3> QED BY <2>1, <3>1 DEF BaseInv, IInv, OneValue
  <2>3. (\E e \in minted[r] : e.masked = w.out) => Entry(w) \in minted[r]
    BY <2>2 DEF Coined
  <2>4. Held(sess(r), Entry(w))
    BY <2>3 DEF Kept
  <2> DEFINE s == sess(r)
             e == CHOOSE x \in Load(s) : x.masked = w.out
  <2>5. Entry(w) \in Load(s) /\ Entry(w).masked = w.out
    BY <2>4 DEF Held, Load, Entry
  <2>6. e \in Load(s) /\ e.masked = w.out
    BY <2>5
  <2>7. Shown(s, w.out) = InClear(e.original)
    BY <2>5 DEF Shown
  <2>8. Load(s) \subseteq Coined
    BY <2>1 DEF Load, BaseInv, IInv, Accounted
  <2> HIDE DEF e, s
  <2>9. e = Entry(w)
    BY <2>2, <2>6, <2>8
  <2> QED BY <2>7, <2>9 DEF Entry, s
<1> QED BY <1>1, <1>2, KeptStep, BaseStep, BaseHolds, PTL DEF Spec

-----------------------------------------------------------------------------
(* The mode. *)

\* While a request is masked, what it mints is in the shape of the mode unless the
\* mode changed under it.
Shaped ==
  \A r \in Requests : phase[r] = "masking" =>
    \A e \in minted[r] : InShape(e) \/ <<"mode", "masking">> \in seen[r]

\* render gives every index the shape of the mode it reads (mask.go, render).
LEMMA RenderInShape ==
  ASSUME TypeOK, NEW o \in Occurrences, NEW i \in Indexes, NEW e,
         e.masked = Render(o.cat, o.locale, i)
  PROVE  InShape(e)
<1> DEFINE table == GeneratorTable(o.cat, o.locale)
           g == <<o.cat, table>>
           fake == mode = "fake" /\ o.cat \notin Secret /\ HasStandIn(o.cat, o.locale, i)
<1>1. /\ o.cat \in Categories /\ Prefix[o.cat] \in Prefixes
      /\ Token(o.cat, i) \in Tokens
  BY CatalogueAssumption DEF Occurrences, Token, Tokens
<1>2. CASE fake
  <2>1. e.masked = [kind |-> "standin", text |-> StandInText(o.cat, table, i)]
    BY <1>2 DEF Render, StandIn
  <2>2. e.masked \notin Tokens
    BY <2>1 DEF Tokens
  <2> QED BY <1>2, <2>2 DEF InShape
<1>3. CASE ~fake /\ mode = "token"
  BY <1>1, <1>3 DEF Render, InShape
<1>4. CASE ~fake /\ mode # "token"
  <2>1. e.masked = [kind |-> "token", prefix |-> Prefix[o.cat], index |-> i]
    BY <1>4 DEF Render, Token
  <2>2. mode = "fake"
    BY <1>4 DEF TypeOK
  <2>3. \/ o.cat \in Secret
        \/ <<o.cat, Shared>> \notin Generators
        \/ \E h \in Generators : h[1] = o.cat /\ i > Capacity[h]
    <3>1. CASE g \notin Generators
      <4>1. table = Shared
        BY <3>1 DEF GeneratorTable
      <4> QED BY <3>1, <4>1
    <3>2. CASE g \in Generators /\ o.cat \notin Secret
      <4>1. i \notin 1..Capacity[g]
        BY <1>4, <2>2, <3>2 DEF HasStandIn
      <4>2. Capacity[g] \in Nat
        BY <3>2, CatalogueAssumption
      <4>3. i > Capacity[g]
        BY <4>1, <4>2 DEF Indexes
      <4>4. g[1] = o.cat
        OBVIOUS
      <4> HIDE DEF g
      <4> QED BY <3>2, <4>3, <4>4
    <3> QED BY <3>1, <3>2
  <2> QED BY <1>1, <1>4, <2>1, <2>3 DEF InShape
<1> QED BY <1>2, <1>3, <1>4

LEMMA ShapedStep ==
  BaseInv /\ Shaped /\ ModeTakesHold /\ [Next]_vars => Shaped' /\ ModeTakesHold'
<1> SUFFICES ASSUME BaseInv, Shaped, ModeTakesHold, [Next]_vars
             PROVE  Shaped' /\ ModeTakesHold'
  OBVIOUS
<1>1. TypeOK /\ IInv
  BY DEF BaseInv, IInv
<1>2. ASSUME UNCHANGED <<mode, phase, minted>>, \A p \in Requests : seen[p] \subseteq seen'[p]
      PROVE  Shaped'
  BY <1>2 DEF Shaped, InShape
<1>3. ASSUME UNCHANGED <<mode, purging, minted>>,
             \A s \in Sessions : vault'[s] \subseteq vault[s],
             \A p \in Requests : seen[p] \subseteq seen'[p]
      PROVE  ModeTakesHold'
  BY <1>3 DEF ModeTakesHold, InShape
<1>4. ASSUME NEW r \in Requests, Step(r) PROVE Shaped' /\ ModeTakesHold'
  <2>1. /\ UNCHANGED <<mode, purging, seen>>
        /\ \A p \in Requests \ {r} : phase'[p] = phase[p] /\ minted'[p] = minted[p]
    BY <1>1, <1>4, StepIsLocal
  <2>2. \A p \in Requests : minted[p] \subseteq minted'[p]
    BY <1>4, <2>1, CoinedGrows
  <2>3. ModeTakesHold'
    <3> SUFFICES ASSUME ~purging', NEW s \in Sessions, NEW e \in vault'[s]
                 PROVE  InShape(e)' \/ \E p \in Requests :
                          e \in minted'[p] /\ <<"mode", "masking">> \in seen'[p]
      BY DEF ModeTakesHold, InShape
    <3>1. InShape(e) \/ \E p \in Requests :
            e \in minted[p] /\ <<"mode", "masking">> \in seen[p]
      <4>1. CASE e \in vault[s]
        BY <2>1, <4>1 DEF ModeTakesHold
      <4>2. ASSUME NEW q \in Requests, SaveAndForward(q), e \in minted[q]
            PROVE  InShape(e) \/ <<"mode", "masking">> \in seen[q]
        BY <4>2 DEF Shaped, SaveAndForward, Masked
      <4> QED BY <1>1, <4>1, <4>2, VaultGrows
    <3> QED BY <2>1, <2>2, <3>1 DEF InShape
  <2>4. Shaped'
    <3>1. ASSUME phase'[r] = "masking", NEW e \in minted'[r]
          PROVE  InShape(e) \/ <<"mode", "masking">> \in seen[r]
      <4>1. CASE MaskMatch(r)
        <5>1. PICK w \in [of: Occurrences, out: Replacements \union Clear] :
                /\ phase[r] = "masking"
                /\ \/ minted'[r] = minted[r]
                   \/ /\ w.out = Render(w.of.cat, w.of.locale, NextIndex(w.of.cat))
                      /\ minted'[r] = minted[r] \union {Entry(w)}
          BY <1>1, <4>1, MatchWrites
        <5>2. CASE e \in minted[r]
          BY <5>1, <5>2 DEF Shaped
        <5>3. CASE e = Entry(w) /\ w.out = Render(w.of.cat, w.of.locale, NextIndex(w.of.cat))
          <6>1. w.of \in Occurrences
            OBVIOUS
          <6>2. NextIndex(w.of.cat) \in Indexes
            BY <1>1, <6>1, MintEntry
          <6>3. e.masked = Render(w.of.cat, w.of.locale, NextIndex(w.of.cat))
            BY <5>3 DEF Entry
          <6> QED BY <1>1, <6>1, <6>2, <6>3, RenderInShape
        <5> QED BY <3>1, <5>1, <5>2, <5>3
      <4>2. CASE ~MaskMatch(r)
        <5>1. minted' = minted /\ (phase[r] = "masking" \/ minted[r] = {})
          BY <1>1, <1>4, <3>1, <4>2 DEF Step, Arrive, ArriveEmpty, RefuseUnreadable, ScanString,
             SaveAndForward, SaveFails, Respond, passVars, TypeOK, BaseInv, Untouched
        <5> QED BY <3>1, <5>1 DEF Shaped
      <4> QED BY <4>1, <4>2
    <3>2. ASSUME NEW p \in Requests, phase'[p] = "masking", NEW e \in minted'[p]
          PROVE  InShape(e) \/ <<"mode", "masking">> \in seen[p]
      <4>1. CASE p = r
        BY <3>1, <3>2, <4>1
      <4>2. CASE p # r
        BY <2>1, <3>2, <4>2 DEF Shaped
      <4> QED BY <4>1, <4>2
    <3> QED BY <2>1, <3>2 DEF Shaped, InShape
  <2> QED BY <2>3, <2>4
<1>5. CASE ChangePolicy \/ Tick
  <2>1. /\ UNCHANGED <<phase, body, wire, minted, view>>
        /\ \A p \in Requests : seen[p] \subseteq seen'[p]
    BY <1>1, <1>5, PolicyIsLocal
  <2>2. CASE \E m \in {"token", "fake"} : SetSubstitution(m)
    <3>1. purging' /\ Note("mode", Requests, {"masking"})
      BY <2>2 DEF SetSubstitution
    <3>2. \A p \in Requests : phase[p] = "masking" => <<"mode", "masking">> \in seen'[p]
      BY <3>1 DEF Note
    <3> QED BY <2>1, <3>1, <3>2 DEF Shaped, ModeTakesHold
  <2>3. CASE Forget
    <3>1. mode' = mode /\ \A s \in Sessions : vault'[s] = {}
      BY <2>3, DropKeeps DEF Forget
    <3> QED BY <1>2, <2>1, <3>1 DEF ModeTakesHold
  <2>4. CASE (\E L \in SUBSET Locales : SetLocales(L)) \/ (\E C \in SUBSET Switchable : Disable(C)) \/ Tick
    <3>1. UNCHANGED <<mode, purging, vault>>
      BY <2>4 DEF SetLocales, Disable, Tick, policyVars, vaultVars
    <3> QED BY <1>2, <1>3, <2>1, <3>1
  <2> QED BY <1>5, <2>2, <2>3, <2>4 DEF ChangePolicy
<1>6. CASE Restart
  BY <1>1, <1>6, RestartForgets DEF Shaped, ModeTakesHold
<1>7. CASE UNCHANGED vars
  BY <1>2, <1>3, <1>7 DEF vars, policyVars, vaultVars, passVars
<1> QED BY <1>4, <1>5, <1>6, <1>7 DEF Next

\* Once a change of mode has dropped the mapping, only requests it caught in the
\* middle bring entries of the mode before (handlePolicy, Pass.Minted).
THEOREM ModeChangeTakesHold == Spec => []ModeTakesHold
<1>1. Init => Shaped /\ ModeTakesHold
  BY DEF Init, Shaped, ModeTakesHold
<1> QED BY <1>1, ShapedStep, BaseHolds, PTL DEF Spec
=============================================================================
