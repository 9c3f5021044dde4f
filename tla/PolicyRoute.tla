---------------------------- MODULE PolicyRoute ----------------------------
(***************************************************************************)
(* PUT /policy: how a surface - the settings page, the menu bar, the       *)
(* command line - changes what a running agent masks                       *)
(* (internal/proxy/policy.go), and how the change is stored and read back  *)
(* (internal/proxy/policyfile.go, DetectorFromEnv in agent.go).            *)
(*                                                                         *)
(* A surface reads the state from /healthz, changes one part of it and     *)
(* sends the whole back.  The route serves one writer at a time, under     *)
(* policyMu, but the detector's settings are separate atomics that         *)
(* /healthz reads without it, so each store and each read is a step.       *)
(***************************************************************************)
EXTENDS Naturals, Sequences

CONSTANTS
  Surfaces,       \* the surfaces open on the agent
  Requests,       \* identities of PUT requests, each used once
  Switchable,     \* the categories an operator may switch off
  CategoryNames,  \* what a request may list: those, locked ones, unknown ones
  Locales,        \* countries this build has
  LocaleNames,    \* what a request may list
  Levels,         \* named secret levels
  Environments,   \* what NEVERSEEN_* variables may configure
  HandMade,       \* the documents a person may leave in the policy file
  MaxRestarts,    \* bound: how often the process may die
  MaxEdits        \* bound: how often somebody edits the file by hand

Modes == {"token", "fake"}

\* A whole state, as the agent can be in it.
Policies == [off: SUBSET CategoryNames, locales: SUBSET Locales,
             substitution: Modes, level: Levels]

\* policyRequest: what a request or a file may say.  An absent list is an
\* empty one; an absent mode or level is not a state.
Documents == [off: SUBSET CategoryNames, locales: SUBSET LocaleNames,
              substitution: Modes \union {"absent", "misspelt"},
              level: Levels \union {"absent", "misspelt"}]

\* What the policy file can be.
NoFile == [kind |-> "none"]
Unreadable == [kind |-> "unreadable"]
File(d) == [kind |-> "document", doc |-> d]
Files == [kind: {"document"}, doc: Documents] \union {NoFile, Unreadable}

Nobody == "nobody"

ASSUME PolicyAssumption ==
  /\ Switchable \subseteq CategoryNames
  /\ Locales \subseteq LocaleNames
  /\ Levels \intersect {"absent", "misspelt"} = {}
  /\ Environments \subseteq {p \in Policies : p.off = {}}
  /\ HandMade \subseteq Documents
  /\ Nobody \notin Requests
  /\ Surfaces \intersect Requests = {}
  /\ MaxRestarts \in Nat /\ MaxEdits \in Nat

-----------------------------------------------------------------------------
VARIABLES
  env,       \* what the environment configures
  live,      \* what the agent applies
  file,      \* the stored policy
  shape,     \* the modes in which the entries of the mapping were minted
  view,      \* what each surface last read
  reading,   \* how many fields of /healthz a surface has yet to read
  want,      \* the state each request carries
  holder,    \* the request that holds policyMu, or Nobody
  at,        \* where each request is: the store its handler does next
  applied,   \* applyPolicy: the locales it stored differ from those before
  refused,   \* applyPolicy: an error
  changed,   \* applyPolicy: the mode is another one
  before,    \* history: the live policy when the handler took policyMu
  edited,    \* history: the surface and the part of its view a request changed
  stale,     \* history: surfaces and requests whose view is not of the present
  told,      \* history: a request has changed the live policy
  byHand,    \* history: the file is what a person made it, not the agent
  unstored,  \* history: the last attempt to store failed
  restarts, edits

handlerVars == <<holder, at, applied, refused, changed, before>>
surfaceVars == <<view, reading, want, edited>>
fileVars == <<file, byHand, unstored>>
bounds == <<restarts, edits>>
vars == <<env, live, fileVars, shape, surfaceVars, handlerVars, stale, told, bounds>>

Stores == {"locales", "off", "substitution", "level", "persist", "rename", "reply"}
Answers == {"accepted", "refused", "lost"}

\* healthNow reads the parts of the state in this order.
Parts == <<"off", "level", "substitution", "locales">>

TypeOK ==
  /\ env \in Environments
  /\ live \in Policies
  /\ file \in Files
  /\ shape \subseteq Modes
  /\ view \in [Surfaces -> Policies]
  /\ reading \in [Surfaces -> 0..4]
  /\ want \in [Requests -> Documents]
  /\ holder \in Requests \union {Nobody}
  /\ at \in [Requests -> Stores \union Answers \union {"unsent", "waiting"}]
  /\ applied \in [Requests -> BOOLEAN]
  /\ refused \in [Requests -> BOOLEAN]
  /\ changed \in [Requests -> BOOLEAN]
  /\ before \in [Requests -> Policies]
  /\ edited \in [Requests -> (Surfaces \X {Parts[i] : i \in 1..4}) \union {<<>>}]
  /\ stale \subseteq Surfaces \union Requests
  /\ told \in BOOLEAN
  /\ byHand \in BOOLEAN
  /\ unstored \in BOOLEAN
  /\ restarts \in 0..MaxRestarts
  /\ edits \in 0..MaxEdits

-----------------------------------------------------------------------------
(* applyPolicy. *)

Partial(d) == d.substitution = "absent" \/ d.level = "absent"
Misspelt(d) == d.substitution = "misspelt" \/ d.level = "misspelt"

\* Both spellings are read before anything is applied.
Unparsed(d) == Partial(d) \/ Misspelt(d)

\* Mutant: an unknown locale is loaded as if it were one.
EveryLocaleKnown(d) == FALSE

UnknownLocale(d) == ~ (d.locales \subseteq Locales)

\* Detector.Disable refuses a locked or unknown category, and the whole list.
RefusedCategories(d) == ~ (d.off \subseteq Switchable)

\* Mutant: the stored file is trusted about what may be switched off.
AppliedUnchecked(p, d) == IF Unparsed(d) \/ UnknownLocale(d) THEN p ELSE d

\* applyPolicy put on a detector nobody else sees: the start.
Applied(p, d) ==
  CASE Unparsed(d) \/ UnknownLocale(d) -> p
    [] ~Unparsed(d) /\ ~UnknownLocale(d) /\ RefusedCategories(d)
         -> [p EXCEPT !.locales = d.locales]
    [] OTHER -> d

\* DetectorFromEnv: the environment, then the stored policy, which wins.
Started(f) == IF f.kind = "document" THEN Applied(env, f.doc) ELSE env

-----------------------------------------------------------------------------
Init ==
  /\ env \in Environments
  /\ file = NoFile
  /\ live = env
  /\ shape = {}
  /\ view = [s \in Surfaces |-> env]
  /\ reading = [s \in Surfaces |-> 0]
  /\ want = [q \in Requests |-> env]
  /\ holder = Nobody
  /\ at = [q \in Requests |-> "unsent"]
  /\ applied = [q \in Requests |-> FALSE]
  /\ refused = [q \in Requests |-> FALSE]
  /\ changed = [q \in Requests |-> FALSE]
  /\ before = [q \in Requests |-> env]
  /\ edited = [q \in Requests |-> <<>>]
  /\ stale = {}
  /\ told = FALSE
  /\ byHand = FALSE
  /\ unstored = FALSE
  /\ restarts = 0
  /\ edits = 0

-----------------------------------------------------------------------------
(* A surface. *)

\* It asks /healthz: the menu bar every few seconds, the page when it opens.
Poll(s) ==
  /\ reading[s] = 0
  /\ reading' = [reading EXCEPT ![s] = 4]
  /\ stale' = stale \ {s}
  /\ UNCHANGED <<env, live, fileVars, shape, view, want, edited, handlerVars, told,
                 bounds>>

\* Mutant: the switched-off set is rebuilt from what the loaded locales can find.
ReportedReachable(p, part) ==
  IF part = "off" /\ p.locales = {} THEN {} ELSE p[part]

\* What /healthz says of a part.  off is the whole switched-off set, with the
\* categories no loaded locale can find.
Reported(p, part) == p[part]

ReadPart(s) ==
  /\ reading[s] > 0
  /\ LET part == Parts[reading[s]]
     IN  view' = [view EXCEPT ![s] = [@ EXCEPT ![part] = Reported(live, part)]]
  /\ reading' = [reading EXCEPT ![s] = @ - 1]
  /\ UNCHANGED <<env, live, fileVars, shape, want, edited, handlerVars, stale, told,
                 bounds>>

\* toggledSet, newSet and maskEverything: one category switched, or all masked.
Switched(off) ==
  {off \union {c} : c \in CategoryNames} \union {off \ {c} : c \in off} \union {{}}

Choices(p, part) ==
  CASE part = "off"          -> Switched(p.off)
    [] part = "locales"      -> SUBSET LocaleNames
    [] part = "substitution" -> Modes \union {"absent", "misspelt"}
    [] part = "level"        -> Levels \union {"absent", "misspelt"}

\* policyFrom, PolicyOf: the state the surface has, with one part replaced.
Ask(s, q, part) ==
  /\ reading[s] = 0
  /\ at[q] = "unsent"
  /\ \E x \in Choices(view[s], part) : want' = [want EXCEPT ![q] = [view[s] EXCEPT ![part] = x]]
  /\ at' = [at EXCEPT ![q] = "waiting"]
  /\ edited' = [edited EXCEPT ![q] = <<s, part>>]
  /\ stale' = IF s \in stale THEN stale \union {q} ELSE stale \ {q}
  /\ UNCHANGED <<env, live, fileVars, shape, view, reading, holder, applied, refused,
                 changed, before, told, bounds>>

-----------------------------------------------------------------------------
(* handlePolicy, under policyMu.  A handler that returns gives the lock back. *)

\* Mutant: the handler takes no lock.
NoMutex == TRUE

MutexFree == holder = Nobody

Goto(q, where) == at' = [at EXCEPT ![q] = where]

\* Mutant: a refusal returns without unlocking.
ReturnLocked(q, answer) ==
  /\ Goto(q, answer)
  /\ holder' = IF answer = "refused" THEN holder ELSE Nobody

Return(q, answer) ==
  /\ Goto(q, answer)
  /\ holder' = Nobody

Take(q) ==
  /\ at[q] = "waiting"
  /\ MutexFree
  /\ holder' = q
  /\ Goto(q, "locales")
  /\ before' = [before EXCEPT ![q] = live]
  /\ UNCHANGED <<env, live, fileVars, shape, surfaceVars, applied, refused, changed,
                 stale, told, bounds>>

\* A store to the detector: every other view of it is old now.
Store(q, part, x) ==
  /\ live' = [live EXCEPT ![part] = x]
  /\ told' = (told \/ live' # live)
  /\ stale' = IF live' = live THEN stale
              ELSE stale \union Surfaces \union (Requests \ {q})

\* Refused before the first change: nothing is stored, in memory or on disk.
RefuseUntouched(q) ==
  /\ at[q] = "locales"
  /\ Unparsed(want[q]) \/ UnknownLocale(want[q])
  /\ Return(q, "refused")
  /\ UNCHANGED <<env, live, fileVars, shape, surfaceVars, applied, refused,
                 changed, before, stale, told, bounds>>

\* applied = !slices.Equal(before, det.Locales())
Touched(old, new) == old # new

StoreLocales(q) ==
  /\ at[q] = "locales"
  /\ ~Unparsed(want[q])
  /\ ~UnknownLocale(want[q])
  /\ Store(q, "locales", want[q].locales)
  /\ applied' = [applied EXCEPT ![q] = Touched(live.locales, want[q].locales)]
  /\ Goto(q, "off")
  /\ UNCHANGED <<env, fileVars, shape, surfaceVars, holder, refused, changed, before,
                 bounds>>

\* Mutant: a refused request stores nothing, though its locales landed.
AfterApplyUnlessRefused(touched, failed) ==
  IF touched /\ ~failed THEN "persist" ELSE "reply"

\* What handlePolicy does of an applyPolicy that returned.
AfterApply(touched, failed) == IF touched THEN "persist" ELSE "reply"

\* Mutant: a locked category is dropped from the list instead of refusing it.
StoreOffDropping(q) ==
  /\ at[q] = "off"
  /\ Store(q, "off", want[q].off \intersect Switchable)
  /\ Goto(q, "substitution")
  /\ UNCHANGED <<env, fileVars, shape, surfaceVars, holder, applied, refused, changed,
                 before, bounds>>

StoreOff(q) ==
  /\ at[q] = "off"
  /\ ~RefusedCategories(want[q])
  /\ Store(q, "off", want[q].off)
  /\ Goto(q, "substitution")
  /\ UNCHANGED <<env, fileVars, shape, surfaceVars, holder, applied, refused, changed,
                 before, bounds>>

\* A locked or unknown category: what the locales became stays and is stored.
RefuseOff(q) ==
  /\ at[q] = "off"
  /\ RefusedCategories(want[q])
  /\ refused' = [refused EXCEPT ![q] = TRUE]
  /\ Goto(q, AfterApply(applied[q], TRUE))
  /\ UNCHANGED <<env, live, fileVars, shape, surfaceVars, holder, applied, changed,
                 before, stale, told, bounds>>

\* Mutant: the modes are compared once the new one is stored.
ModeChangesTooLate(old, new) == FALSE

\* Read before the mode is stored.
ModeChanges(old, new) == old # new

StoreMode(q) ==
  /\ at[q] = "substitution"
  /\ changed' = [changed EXCEPT ![q] = ModeChanges(live.substitution, want[q].substitution)]
  /\ Store(q, "substitution", want[q].substitution)
  /\ Goto(q, "level")
  /\ UNCHANGED <<env, fileVars, shape, surfaceVars, holder, applied, refused, before,
                 bounds>>

StoreLevel(q) ==
  /\ at[q] = "level"
  /\ Store(q, "level", want[q].level)
  /\ Goto(q, AfterApply(applied[q], FALSE))
  /\ UNCHANGED <<env, fileVars, shape, surfaceVars, holder, applied, refused, changed,
                 before, bounds>>

\* Mutant: the file is truncated and filled in place.
WrittenInPlace == Unreadable

\* The policy file while the new one is written beside it.
WhileWriting == file

\* persistPolicy: the live state, whole, goes to a temporary file...
WriteTemp(q) ==
  /\ at[q] = "persist"
  /\ file' = WhileWriting
  /\ Goto(q, "rename")
  /\ UNCHANGED <<env, live, byHand, unstored, shape, surfaceVars, holder, applied,
                 refused, changed, before, stale, told, bounds>>

\* What is stored is what the agent is, not what it was asked for.
ToStore(q) == live

\* ... which is renamed into place.  live has not moved since: the lock is held.
Rename(q) ==
  /\ at[q] = "rename"
  /\ file' = File(ToStore(q))
  /\ byHand' = FALSE
  /\ unstored' = FALSE
  /\ Goto(q, "reply")
  /\ UNCHANGED <<env, live, shape, surfaceVars, holder, applied, refused, changed,
                 before, stale, told, bounds>>

\* A failure to store is logged and nothing else.
StoreFails(q) ==
  /\ at[q] \in {"persist", "rename"}
  /\ unstored' = TRUE
  /\ Goto(q, "reply")
  /\ UNCHANGED <<env, live, file, byHand, shape, surfaceVars, holder, applied, refused,
                 changed, before, stale, told, bounds>>

ReplyRefused(q) ==
  /\ at[q] = "reply"
  /\ refused[q]
  /\ Return(q, "refused")
  /\ UNCHANGED <<env, live, fileVars, shape, surfaceVars, applied, refused, changed,
                 before, stale, told, bounds>>

\* Mutant: every accepted request forgets.
MappingDropped(modeChanged) == {}

\* The mapping is read against the mode, so a change of mode drops it.
MappingLeft(modeChanged) == IF modeChanged THEN {} ELSE shape

\* The reply is the state the agent is in, and the surface draws itself from it
\* unless it has stopped waiting for it.
ReplyAccepted(q) ==
  /\ at[q] = "reply"
  /\ ~refused[q]
  /\ shape' = MappingLeft(changed[q])
  /\ LET s == edited[q][1]
     IN  \/ /\ view' = [view EXCEPT ![s] = live]
            /\ reading' = [reading EXCEPT ![s] = 0]
            /\ stale' = stale \ {s}
         \/ UNCHANGED <<view, reading, stale>>
  /\ Return(q, "accepted")
  /\ UNCHANGED <<env, live, fileVars, want, edited, applied, refused, changed, before,
                 told, bounds>>

-----------------------------------------------------------------------------
(* Around the route. *)

\* An exchange adds to the mapping under the mode of the moment (module Exchange
\* has the exchanges that straddle a change of it).
Mint ==
  /\ shape' = shape \union {live.substitution}
  /\ shape' # shape
  /\ UNCHANGED <<env, live, fileVars, surfaceVars, handlerVars, stale, told, bounds>>

\* Somebody edits, breaks or deletes the file.
HandEdit ==
  /\ edits < MaxEdits
  /\ edits' = edits + 1
  /\ file' \in {File(d) : d \in HandMade} \union {NoFile, Unreadable}
  /\ byHand' = TRUE
  /\ UNCHANGED <<env, live, unstored, shape, surfaceVars, handlerVars, stale, told,
                 restarts>>

\* The process dies, at any step, and starts again; requests are lost with it.
Restart ==
  /\ restarts < MaxRestarts
  /\ restarts' = restarts + 1
  /\ live' = Started(file)
  /\ shape' = {}
  /\ reading' = [s \in Surfaces |-> IF reading[s] > 0 THEN 4 ELSE 0]
  /\ at' = [q \in Requests |->
              IF at[q] \in Answers \union {"unsent"} THEN at[q] ELSE "lost"]
  /\ holder' = Nobody
  /\ stale' = Surfaces \union Requests
  /\ told' = (file # NoFile)
  /\ unstored' = FALSE
  /\ UNCHANGED <<env, file, byHand, view, want, edited, applied, refused, changed,
                 before, edits>>

Handle(q) ==
  \/ RefuseUntouched(q) \/ StoreLocales(q) \/ StoreOff(q) \/ RefuseOff(q)
  \/ StoreMode(q) \/ StoreLevel(q) \/ WriteTemp(q) \/ Rename(q) \/ StoreFails(q)
  \/ ReplyRefused(q) \/ ReplyAccepted(q)

Surface(s) ==
  \/ Poll(s)
  \/ ReadPart(s)
  \/ \E q \in Requests, i \in 1..4 : Ask(s, q, Parts[i])

Next ==
  \/ \E s \in Surfaces : Surface(s)
  \/ \E q \in Requests : Take(q) \/ Handle(q)
  \/ Mint
  \/ HandEdit
  \/ Restart

Spec == Init /\ [][Next]_vars

\* Go's mutex hands itself over in the order of waiting once a waiter starves, and
\* a handler that runs goes on running.
Fairness == \A q \in Requests : WF_vars(Handle(q)) /\ SF_vars(Take(q))

FairSpec == Spec /\ Fairness

-----------------------------------------------------------------------------
(* What the route promises. *)

\* An accepted request leaves the agent in exactly the state it carried, whatever
\* the other surfaces were doing: no mixture of two (handlePolicy, policyMu).
ReplyIsWhatWasAsked ==
  \A q \in Requests : at[q] = "reply" /\ ~refused[q] => live = want[q]

\* The state as the requests leave it, without the stores of one being handled.
Settled == IF holder = Nobody THEN live ELSE before[holder]

\* Seen between requests, the policy moves only to what one request makes of the
\* state before it - all of it, or its locales under a list that is refused - or
\* to what a start reads.
OneRequestAtATime ==
  [][Settled' # Settled =>
       \/ restarts' # restarts /\ Settled' = Started(file)
       \/ \E q \in Requests : Settled' = Applied(Settled, want[q])]_vars

\* A click on one part, from a view of the present, moves no other part - not the
\* categories no loaded locale can find either (Health.Off, policyFrom).
OnlyTheClickedPart ==
  \A q \in Requests :
    at[q] = "reply" /\ ~refused[q] /\ q \notin stale
    => \A i \in 1..4 :
         Parts[i] # edited[q][2] => live[Parts[i]] = before[q][Parts[i]]

\* What the agent stores is whole, and a start takes all of it: no torn file, no
\* half of a request and no category a start would refuse (persistPolicy).
StoredIsWhole ==
  ~byHand /\ file # NoFile => \E p \in Policies : file = File(p) /\ Started(file) = p

\* A change of locales is in the file when its handler returns, even when the rest
\* of the request was refused, unless the disk refused it.  And "the file's absence
\* has to keep meaning nobody has": until a request changes the agent, refused
\* requests leave the environment in charge (applyPolicy, applied).
StoredLocalesCurrent ==
  ~byHand =>
    /\ file # NoFile => told
    /\ holder = Nobody /\ ~unstored =>
         IF file = NoFile THEN live.locales = env.locales ELSE live.locales = file.doc.locales

\* No request, stored or hand-made file, restart or refusal between two stores ever
\* leaves a locked category in clear.
LockedStaysMasked == live.off \subseteq Switchable

\* Between policy changes the mapping holds what the present mode minted.
MappingFollowsMode == holder = Nobody => shape \subseteq {live.substitution}

\* The mapping survives every request that resends the mode the agent is in.
OnlyAModeChangeForgets ==
  [][shape \subseteq shape' \/ restarts' # restarts
       \/ before[holder].substitution # live.substitution]_vars

\* Every request that reaches the agent is answered, or lost with the process:
\* no return of the handler keeps the lock.
EveryRequestAnswered ==
  \A q \in Requests :
    at[q] = "waiting" ~> at[q] \in Answers

-----------------------------------------------------------------------------
(* What a comment in the code says and the code does not keep to. *)

\* "What a surface changed survives the restart, and the file is the state"
\* (internal/proxy/policyfile.go:18).
ChangeSurvivesRestart ==
  holder = Nobody /\ told /\ ~byHand /\ ~unstored => Started(file) = live
=============================================================================
