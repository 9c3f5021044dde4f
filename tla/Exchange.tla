------------------------------ MODULE Exchange ------------------------------
(***************************************************************************)
(* The masking exchange: a request reaches the local proxy, the values in  *)
(* its body are replaced (internal/detector/mask.go), the mapping is kept  *)
(* per session (internal/vault/vault.go), the masked body goes to the      *)
(* provider and the answer is expanded again (internal/proxy/proxy.go).    *)
(*                                                                         *)
(* Requests run concurrently, one goroutine each.  They share the vault,   *)
(* the index counters and the live policy; each of those is read and       *)
(* written under its own lock or atomic, so an action below is one such    *)
(* access together with the request-local work around it.                  *)
(*                                                                         *)
(* A body is a sequence of strings (the strings of its JSON document), a   *)
(* string is the set of the values a pattern could claim in it.  They are  *)
(* masked in any order: the code's reading order is one of them.           *)
(***************************************************************************)
EXTENDS Integers, FiniteSets, Sequences

CONSTANTS
  Sessions,               \* names the caller gives a conversation
  Requests,               \* identities of exchanges, each used once
  Values,                 \* the sensitive values
  Categories,             \* what a pattern recognises a value as
  Secret,                 \* the categories that hold a credential
  Switchable,             \* the categories an operator may switch off
  Prefixes,               \* token prefixes
  Prefix,                 \* the prefix of each category
  Locales,                \* countries a deployment can load
  Shared,                 \* the locale-independent pattern set, always loaded
  Generators,             \* <<category, locale>> pairs with a stand-in generator
  Capacity,               \* how many stand-ins each generator can make
  Texts,                  \* the texts generators make
  StandInText(_, _, _),   \* Generator.Make, by category, table and index
  Bodies,                 \* the requests callers send
  TTL,                    \* ticks a mapping outlives its last use
  MaxEvents,              \* bound: policy changes and ticks
  MaxRestarts             \* bound: how often the process may die

Occurrences == [value: Values, cat: Categories, locale: Locales \union {Shared}]

(***************************************************************************)
(* issuer: the route's host is the one that issued the identifiers the     *)
(* body declares (identifiers.go), which are then not masked.              *)
(* strings = <<>> is a request with no body at all.                        *)
(***************************************************************************)
BodyType == [session: Sessions, issuer: BOOLEAN, declared: SUBSET Values,
             strings: Seq(SUBSET Occurrences)]

ASSUME CatalogueAssumption ==
  /\ Secret \subseteq Categories
  /\ Switchable \subseteq Categories
  /\ Prefix \in [Categories -> Prefixes]
  /\ Generators \subseteq Categories \X (Locales \union {Shared})
  /\ Shared \notin Locales
  /\ Capacity \in [Generators -> Nat]

ASSUME BodiesAssumption == Bodies \subseteq BodyType

ASSUME BoundsAssumption == TTL \in Nat /\ MaxEvents \in Nat /\ MaxRestarts \in Nat

\* What pkg/pii/generators.go requires of its generators: within their
\* capacity, two stand-ins are the same text only for one index of one prefix.
\* Its date generators keep to it unless "us" is loaded with "fr" or "gb": StandIns.
ASSUME GeneratorsAssumption ==
  \A g, h \in Generators : \A i \in 1..Capacity[g], j \in 1..Capacity[h] :
    /\ StandInText(g[1], g[2], i) \in Texts
    /\ StandInText(g[1], g[2], i) = StandInText(h[1], h[2], j)
         => Prefix[g[1]] = Prefix[h[1]] /\ i = j

-----------------------------------------------------------------------------
(* What a value is replaced by. *)

Indexes == Nat \ {0}
Tokens == [kind: {"token"}, prefix: Prefixes, index: Indexes]
StandIns == [kind: {"standin"}, text: Texts]
Replacements == Tokens \union StandIns
Clear == [kind: {"clear"}, text: Values]

Token(cat, i) == [kind |-> "token", prefix |-> Prefix[cat], index |-> i]
StandIn(cat, table, i) == [kind |-> "standin", text |-> StandInText(cat, table, i)]
InClear(v) == [kind |-> "clear", text |-> v]

\* One entry of a session's mapping, masked -> original.
Entries == [masked: Replacements, original: Values]

\* maps.Copy(old, new): new entries win over old ones of the same key.
Overlay(old, new) ==
  new \union {e \in old : \A f \in new : f.masked # e.masked}

-----------------------------------------------------------------------------
VARIABLES
  mode,      \* the substitution mode, "token" or "fake"
  off,       \* categories switched off
  locales,   \* countries loaded
  purging,   \* a policy change has set the mode and still owes the Forget
  counter,   \* highest index handed out, per prefix
  vault,     \* the mapping of each session
  age,       \* ticks since a session's mapping was last saved to
  phase,     \* where each request is
  body,      \* the body of each request
  todo,      \* the strings it has yet to scan
  found,     \* the matches of the string it is masking
  view,      \* Pass.byValue: what each value is to be replaced by
  minted,    \* Pass.minted: the entries it adds to the mapping (kept as history)
  wire,      \* what its masked body carries so far: what stands for which value
  seen,      \* history: what happened around the request, and in which phase
  events,    \* policy changes and ticks so far
  restarts   \* how often the process has died

policyVars == <<mode, off, locales, purging>>
vaultVars == <<vault, age>>
passVars == <<body, todo, found, view, minted, wire>>
bounds == <<events, restarts>>
vars == <<policyVars, counter, vaultVars, phase, passVars, seen, bounds>>

Phases == {"idle", "masking", "sent", "answered", "refused", "lost"}
InFlight == {r \in Requests : phase[r] \in {"masking", "sent"}}
EventKinds == {"policy", "mode", "purge", "expiry"}

NoBody == [strings |-> <<>>]

sess(r) == body[r].session

TypeOK ==
  /\ mode \in {"token", "fake"}
  /\ off \subseteq Switchable
  /\ locales \subseteq Locales
  /\ purging \in BOOLEAN
  /\ counter \in [Prefixes -> Nat]
  /\ vault \in [Sessions -> SUBSET Entries]
  /\ age \in [Sessions -> 0..(TTL + 1)]
  /\ phase \in [Requests -> Phases]
  /\ body \in [Requests -> Bodies \union {NoBody}]
  /\ todo \in [Requests -> Seq(SUBSET Occurrences)]
  /\ found \in [Requests -> SUBSET Occurrences]
  /\ view \in [Requests -> SUBSET Entries]
  /\ minted \in [Requests -> SUBSET Entries]
  /\ wire \in [Requests -> SUBSET [of: Occurrences, out: Replacements \union Clear]]
  /\ seen \in [Requests -> SUBSET (EventKinds \X {"masking", "sent"})]
  /\ events \in 0..MaxEvents
  /\ restarts \in 0..MaxRestarts

Init ==
  /\ mode \in {"token", "fake"}
  /\ off \in SUBSET Switchable
  /\ locales \in SUBSET Locales
  /\ purging = FALSE
  /\ counter = [p \in Prefixes |-> 0]
  /\ vault = [s \in Sessions |-> {}]
  /\ age = [s \in Sessions |-> 0]
  /\ phase = [r \in Requests |-> "idle"]
  /\ body = [r \in Requests |-> NoBody]
  /\ todo = [r \in Requests |-> <<>>]
  /\ found = [r \in Requests |-> {}]
  /\ view = [r \in Requests |-> {}]
  /\ minted = [r \in Requests |-> {}]
  /\ wire = [r \in Requests |-> {}]
  /\ seen = [r \in Requests |-> {}]
  /\ events = 0
  /\ restarts = 0

-----------------------------------------------------------------------------
(* The vault. *)

\* Mutant: one tick too generous.
ExpiredLate(s) == age[s] > TTL + 1

Expired(s) == age[s] > TTL

\* Mutant: the mapping is not looked up by session.
LoadAnyones(s) == UNION {vault[t] : t \in Sessions}

\* Memory.Load: an expired session is deleted and answers nothing.
Load(s) == IF Expired(s) THEN {} ELSE vault[s]

\* Mutant: nothing is deleted.
DropNothing(S) == UNCHANGED <<vault, age>>

\* The vault with the sessions of S deleted.
DropSessions(S) ==
  /\ vault' = [s \in Sessions |-> IF s \in S THEN {} ELSE vault[s]]
  /\ age' = [s \in Sessions |-> IF s \in S THEN 0 ELSE age[s]]

\* A Load deletes its session when it finds it expired.
DropOnLoad(s) == DropSessions({s} \intersect {t \in Sessions : Expired(t)})

\* Mutant: a save replaces the session's mapping.
Replace(s, entries) ==
  /\ vault' = [vault EXCEPT ![s] = entries]
  /\ age' = [age EXCEPT ![s] = 0]

\* Memory.Merge: sweep what has expired, then add; nothing to add to a session
\* that does not exist creates none; the lifetime starts again.
Merge(s, entries) ==
  LET kept == [t \in Sessions |-> IF Expired(t) THEN {} ELSE vault[t]]
  IN  /\ vault' = [kept EXCEPT ![s] = Overlay(@, entries)]
      /\ age' = [t \in Sessions |-> IF t = s \/ Expired(t) THEN 0 ELSE age[t]]

\* History: the requests of R in one of the given phases take note of an event.
Note(kind, R, phases) ==
  seen' = [r \in Requests |->
             IF r \in R /\ phase[r] \in phases
             THEN seen[r] \union {<<kind, phase[r]>>} ELSE seen[r]]

\* The environment's moves are bounded, so that there are finitely many.
Disturb == events < MaxEvents /\ events' = events + 1

\* The in-flight requests whose session an expiry in S takes away.
Bereft(S) == {r \in InFlight : sess(r) \in S /\ vault[sess(r)] # {}}

\* A tick of the clock, for the sessions that hold anything.
Tick ==
  /\ age' = [s \in Sessions |->
               IF vault[s] # {} /\ ~Expired(s) THEN age[s] + 1 ELSE age[s]]
  /\ age' # age
  /\ Disturb
  /\ Note("expiry", Bereft({s \in Sessions : age'[s] > TTL}), {"masking", "sent"})
  /\ UNCHANGED <<policyVars, counter, vault, phase, passVars, restarts>>

-----------------------------------------------------------------------------
(* The request path: Server.maskRequest and Server.forward. *)

\* NewPass(known): the mapping turned round.  Go ranges over a map in no
\* particular order, so of two replacements of one value either may win.
Views(known) ==
  {v \in SUBSET known :
     /\ {e.original : e \in v} = {e.original : e \in known}
     /\ \A e, f \in v : e.original = f.original => e = f}

\* The body is read and the session's mapping loaded.
Arrive(r, b) ==
  /\ phase[r] = "idle"
  /\ b.strings # <<>>
  /\ \E v \in Views(Load(b.session)) : view' = [view EXCEPT ![r] = v]
  /\ DropOnLoad(b.session)
  /\ phase' = [phase EXCEPT ![r] = "masking"]
  /\ body' = [body EXCEPT ![r] = b]
  /\ todo' = [todo EXCEPT ![r] = b.strings]
  /\ UNCHANGED <<policyVars, counter, found, minted, wire, seen, bounds>>

\* A request without a body is forwarded without touching the vault.
ArriveEmpty(r, b) ==
  /\ phase[r] = "idle"
  /\ b.strings = <<>>
  /\ phase' = [phase EXCEPT ![r] = "sent"]
  /\ body' = [body EXCEPT ![r] = b]
  /\ UNCHANGED <<policyVars, counter, vaultVars, todo, found, view, minted, wire,
                 seen, bounds>>

\* A body in an encoding readBody cannot read: refused, never forwarded.
RefuseUnreadable(r) ==
  /\ phase[r] = "idle"
  /\ phase' = [phase EXCEPT ![r] = "refused"]
  /\ UNCHANGED <<policyVars, counter, vaultVars, passVars, seen, bounds>>

\* Detector.Scan reports a value when its pattern is loaded and its category on.
Recognised(o) == o.cat \notin off /\ o.locale \in locales \union {Shared}

\* One string is scanned whole; what no pattern claims stays as it is.
ScanString(r) ==
  /\ phase[r] = "masking"
  /\ found[r] = {}
  /\ todo[r] # <<>>
  /\ LET hits == {o \in Head(todo[r]) : Recognised(o)}
     IN  /\ found' = [found EXCEPT ![r] = hits]
         /\ wire' = [wire EXCEPT ![r] = @ \union
                {[of |-> o, out |-> InClear(o.value)] : o \in Head(todo[r]) \ hits}]
  /\ todo' = [todo EXCEPT ![r] = Tail(@)]
  /\ UNCHANGED <<policyVars, counter, vaultVars, phase, body, view, minted,
                 seen, bounds>>

\* The match o is written to the masked body as out.
Write(r, o, out) ==
  /\ wire' = [wire EXCEPT ![r] = @ \union {[of |-> o, out |-> out]}]
  /\ found' = [found EXCEPT ![r] = @ \ {o}]

\* Mutant: a declared identifier is exempt on every route.
ExemptAnywhere(r) == body[r].declared

\* Pass.Exempt: identifiers the body declares, on a route to their issuer.
Exempt(r) == IF body[r].issuer THEN body[r].declared ELSE {}

\* Mutant: what the request has already replaced is forgotten.
KnownNever(r, v) == FALSE

Known(r, v) == \E e \in view[r] : e.original = v

WriteBackExempt(r, o) ==
  /\ o.value \in Exempt(r)
  /\ Write(r, o, InClear(o.value))
  /\ UNCHANGED <<counter, view, minted>>

\* Pass.mask, the value already has a replacement in this session.
ReuseKnown(r, o) ==
  /\ o.value \notin Exempt(r)
  /\ \E e \in view[r] : e.original = o.value /\ Write(r, o, e.masked)
  /\ UNCHANGED <<counter, view, minted>>

\* FakeSet.Value: the locale's own generator, else the shared one; none, or an
\* index past what it can make, is no stand-in.
GeneratorTable(cat, locale) ==
  IF locale \in locales /\ <<cat, locale>> \in Generators THEN locale ELSE Shared

HasStandIn(cat, locale, i) ==
  LET g == <<cat, GeneratorTable(cat, locale)>>
  IN  g \in Generators /\ i \in 1..Capacity[g]

\* Detector.render, under the mode and the catalogue of the moment.
Render(cat, locale, i) ==
  IF mode = "fake" /\ cat \notin Secret /\ HasStandIn(cat, locale, i)
  THEN StandIn(cat, GeneratorTable(cat, locale), i)
  ELSE Token(cat, i)

\* Mutant: the highest index handed out is handed out again.
NextIndexStale(cat) ==
  IF counter[Prefix[cat]] = 0 THEN 1 ELSE counter[Prefix[cat]]

\* Detector.nextIndex: one past the highest index of the category's prefix.
NextIndex(cat) == counter[Prefix[cat]] + 1

\* Pass.mask, first sight of a value: it takes the next index of its prefix.
Mint(r, o) ==
  LET e == [masked |-> Render(o.cat, o.locale, NextIndex(o.cat)), original |-> o.value]
  IN  /\ o.value \notin Exempt(r)
      /\ ~Known(r, o.value)
      /\ counter' = [counter EXCEPT ![Prefix[o.cat]] = NextIndex(o.cat)]
      /\ view' = [view EXCEPT ![r] = @ \union {e}]
      /\ minted' = [minted EXCEPT ![r] = Overlay(@, {e})]
      /\ Write(r, o, e.masked)

MaskMatch(r) ==
  /\ phase[r] = "masking"
  /\ \E o \in found[r] : WriteBackExempt(r, o) \/ ReuseKnown(r, o) \/ Mint(r, o)
  /\ UNCHANGED <<policyVars, vaultVars, phase, body, todo, seen, bounds>>

Masked(r) == phase[r] = "masking" /\ todo[r] = <<>> /\ found[r] = {}

\* The mapping is saved, then the masked body goes to the provider.
SaveAndForward(r) ==
  /\ Masked(r)
  /\ Merge(sess(r), minted[r])
  /\ phase' = [phase EXCEPT ![r] = "sent"]
  /\ view' = [view EXCEPT ![r] = {}]
  /\ UNCHANGED <<policyVars, counter, body, todo, found, minted, wire, seen, bounds>>

\* A value that cannot be sealed: nothing is merged, the request is refused.
SaveFails(r) ==
  /\ Masked(r)
  /\ minted[r] # {}
  /\ phase' = [phase EXCEPT ![r] = "refused"]
  /\ view' = [view EXCEPT ![r] = {}]
  /\ wire' = [wire EXCEPT ![r] = {}]
  /\ UNCHANGED <<policyVars, counter, vaultVars, body, todo, found, minted, seen, bounds>>

\* Everything a masked body ever carried to the provider in place of a value.
Disclosed ==
  Replacements \intersect
    {w.out : w \in UNION {wire[r] : r \in {q \in Requests :
                                         phase[q] \in {"sent", "answered", "lost"}}}}

\* Expander.Unmask: what a caller of session s reads where an answer says m.
Shown(s, m) ==
  IF \E e \in Load(s) : e.masked = m
  THEN InClear((CHOOSE e \in Load(s) : e.masked = m).original)
  ELSE m

\* Server.unmask: the provider answers, the mapping is loaded and the answer is
\* expanded under it; it may echo anything in Disclosed.
Respond(r) ==
  /\ phase[r] = "sent"
  /\ DropOnLoad(sess(r))
  /\ phase' = [phase EXCEPT ![r] = "answered"]
  /\ UNCHANGED <<policyVars, counter, passVars, seen, bounds>>

-----------------------------------------------------------------------------
(* The live policy: the parts of handlePolicy the exchange can observe.    *)
(* They are separate stores, so a request sees any number of them; the     *)
(* handler holds policyMu until it has dropped the mapping.                *)

SetLocales(L) ==
  /\ ~purging
  /\ L # locales
  /\ Disturb
  /\ locales' = L
  /\ Note("policy", Requests, {"masking"})
  /\ UNCHANGED <<mode, off, purging, counter, vaultVars, phase, passVars, restarts>>

Disable(C) ==
  /\ ~purging
  /\ C # off
  /\ Disturb
  /\ off' = C
  /\ Note("policy", Requests, {"masking"})
  /\ UNCHANGED <<mode, locales, purging, counter, vaultVars, phase, passVars, restarts>>

SetSubstitution(m) ==
  /\ ~purging
  /\ m # mode
  /\ Disturb
  /\ mode' = m
  /\ purging' = TRUE
  /\ Note("mode", Requests, {"masking"})
  /\ UNCHANGED <<off, locales, counter, vaultVars, phase, passVars, restarts>>

\* Vault.Forget: the mode is the one setting that drops every mapping.
Forget ==
  /\ purging
  /\ purging' = FALSE
  /\ DropSessions(Sessions)
  /\ Note("purge", Requests, {"masking", "sent"})
  /\ UNCHANGED <<mode, off, locales, counter, phase, passVars, bounds>>

-----------------------------------------------------------------------------
\* The process dies and starts again: the vault and the counters live in memory.
\* wire is what the provider keeps.
Restart ==
  /\ restarts < MaxRestarts
  /\ restarts' = restarts + 1
  /\ purging' = FALSE
  /\ counter' = [p \in Prefixes |-> 0]
  /\ DropSessions(Sessions)
  /\ phase' = [r \in Requests |->
                 CASE phase[r] = "masking" -> "refused"
                   [] phase[r] = "sent"    -> "lost"
                   [] OTHER                -> phase[r]]
  /\ todo' = [r \in Requests |-> <<>>]
  /\ found' = [r \in Requests |-> {}]
  /\ view' = [r \in Requests |-> {}]
  /\ minted' = [r \in Requests |-> {}]
  /\ UNCHANGED <<mode, off, locales, body, wire, seen, events>>

Step(r) ==
  \/ \E b \in Bodies : Arrive(r, b) \/ ArriveEmpty(r, b)
  \/ RefuseUnreadable(r)
  \/ ScanString(r)
  \/ MaskMatch(r)
  \/ SaveAndForward(r)
  \/ SaveFails(r)
  \/ Respond(r)

ChangePolicy ==
  \/ \E L \in SUBSET Locales : SetLocales(L)
  \/ \E C \in SUBSET Switchable : Disable(C)
  \/ \E m \in {"token", "fake"} : SetSubstitution(m)
  \/ Forget

Next == (\E r \in Requests : Step(r)) \/ ChangePolicy \/ Tick \/ Restart

Spec == Init /\ [][Next]_vars

-----------------------------------------------------------------------------
(* What the exchange promises. *)

\* Every entry anybody in this process holds: saved, loaded, or not yet saved.
Claims == UNION ({vault[s] : s \in Sessions}
                 \union {view[r] : r \in Requests} \union {minted[r] : r \in Requests})

\* In one life of the process no replacement ever stands for two values, in
\* whichever sessions, modes and requests they were minted (mask.go, nextIndex
\* and render).
OneOriginal ==
  \A e, f \in Claims : e.masked = f.masked => e.original = f.original

\* Within a request a value keeps one replacement, in every field and whatever
\* category, mode or catalogue each occurrence was read under (Pass.byValue).
OneIdentity ==
  \A r \in Requests : \A w, x \in wire[r] :
    /\ w.of.value = x.of.value
    /\ w.out \in Replacements
    /\ x.out \in Replacements
    => w.out = x.out

\* With the policy left alone while a request is masked, nothing recognised
\* leaves in clear but an identifier declared to its own issuer.
NothingInClear ==
  \A r \in Requests :
    phase[r] = "masking" /\ <<"policy", "masking">> \notin seen[r]
    => \A w \in wire[r] :
         w.out \notin Replacements /\ Recognised(w.of)
         => body[r].issuer /\ w.of.value \in body[r].declared

\* What the mapping lost between two points of an exchange.
Lost(r, where) == \E kind \in {"purge", "expiry"} : <<kind, where>> \in seen[r]

\* An answer that echoes what its own request sent is expanded to the value it
\* stood for, unless a purge or an expiry took the entry: after the save for an
\* entry the request minted, at any time since the load for one it reused.
OwnEchoExpands ==
  \A r \in Requests : \A w \in wire[r] :
    /\ phase[r] = "sent"
    /\ w.out \in Replacements
    /\ ~Lost(r, "sent")
    /\ (\E e \in minted[r] : e.masked = w.out) \/ ~Lost(r, "masking")
    => Shown(sess(r), w.out) = InClear(w.of.value)

\* An answer never shows a value its own session did not send under that very
\* replacement: neither another session's value nor another value of its own.
NeverMisread ==
  \A r \in Requests : \A m \in Disclosed :
    phase[r] = "sent" /\ Shown(sess(r), m) # m
    => \E q \in Requests : \E w \in wire[q] :
         /\ phase[q] \in {"sent", "answered", "lost"}
         /\ sess(q) = sess(r)
         /\ w.out = m
         /\ Shown(sess(r), m) = InClear(w.of.value)

\* Could the present mode have given an entry its replacement?  In fake mode a
\* token is what a credential, a category without a generator and an index past
\* its capacity get.
InShape(e) ==
  IF mode = "token" THEN e.masked \in Tokens
  ELSE e.masked \in Tokens =>
         \E cat \in Categories :
           /\ Prefix[cat] = e.masked.prefix
           /\ \/ cat \in Secret
              \/ <<cat, Shared>> \notin Generators
              \/ \E g \in Generators : g[1] = cat /\ e.masked.index > Capacity[g]

\* Once the mapping is dropped, the only entries in the shape of another mode
\* are those of requests that were being masked while the mode changed.
ModeTakesHold ==
  ~purging =>
    \A s \in Sessions : \A e \in vault[s] :
      InShape(e) \/ \E r \in Requests : e \in minted[r] /\ <<"mode", "masking">> \in seen[r]

\* Every entry a request of this process has minted.
Coined == UNION {minted[r] : r \in Requests}

\* The exchange keeps the books of Pseudonyms: what was coined is never coined
\* again for another value, and a session only ever holds coined entries.
Books == INSTANCE Pseudonyms WITH coined <- Coined, remembered <- vault

\* Refinement of the abstract specification.
ImplementsPseudonyms == Books!Spec
=============================================================================
