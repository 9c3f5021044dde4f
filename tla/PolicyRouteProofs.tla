------------------------- MODULE PolicyRouteProofs -------------------------
(***************************************************************************)
(* Theorems about PolicyRoute for every number of surfaces, requests,      *)
(* restarts and hand edits.  The first half is about single states: the    *)
(* types, that a locked category is never switched off, and that a request *)
(* accepted is the state reached.  The second relates a state to an        *)
(* earlier one: that the requests take effect one at a time, that the      *)
(* mapping follows the mode and is dropped for nothing else, and that the  *)
(* countries of the file are the countries of the agent.                   *)
(*                                                                         *)
(* The argument: only the holder of policyMu is between two stores, so     *)
(* what it has stored so far is what it was asked for; and it passes the   *)
(* store of the categories only with a list that may be switched off.      *)
(* Between two stores the live policy is what the holder found, with the   *)
(* parts it has stored so far, so that what it noted on the way - the      *)
(* locales differ, the mode differs - is still true of the state it found  *)
(* when it acts on it.                                                     *)
(***************************************************************************)
EXTENDS PolicyRoute, TLAPS

\* Only the holder of the lock is inside the handler.
OneHandler ==
  /\ \A q \in Requests : at[q] \in Stores => holder = q
  /\ holder \in Requests => at[holder] \in Stores

\* The categories are stored, the whole request is being applied.
Whole(q) ==
  \/ at[q] \in {"substitution", "level"}
  \/ at[q] \in {"persist", "rename", "reply"} /\ ~refused[q]

\* What the holder's handler has stored is what its request asked for.
Landed ==
  \A q \in Requests :
    /\ at[q] \in Stores \ {"locales"} =>
         /\ ~Unparsed(want[q])
         /\ ~UnknownLocale(want[q])
         /\ live.locales = want[q].locales
    /\ at[q] \in {"locales", "off"} => ~refused[q]
    /\ Whole(q) => ~refused[q] /\ live.off = want[q].off
    /\ Whole(q) /\ at[q] # "substitution" => live.substitution = want[q].substitution
    /\ Whole(q) /\ at[q] \notin {"substitution", "level"} => live.level = want[q].level
    /\ at[q] \in {"unsent", "waiting"} => ~refused[q]

\* The file as the agent wrote it is a state it was in.
StoredWasLive ==
  ~byHand /\ file # NoFile =>
    file.kind = "document" /\ file.doc \in Policies /\ file.doc.off \subseteq Switchable

RInv == TypeOK /\ OneHandler /\ Landed /\ LockedStaysMasked /\ StoredWasLive

-----------------------------------------------------------------------------
(* Types. *)

LEMMA PartsFacts ==
  /\ Parts[1] = "off" /\ Parts[2] = "level"
  /\ Parts[3] = "substitution" /\ Parts[4] = "locales"
BY DEF Parts

\* Replacing one part of a state, or of a request, by a value of its kind.
LEMMA PolicyUpdate ==
  ASSUME NEW p \in Policies
  PROVE  /\ \A x \in SUBSET CategoryNames : [p EXCEPT !["off"] = x] \in Policies
         /\ \A x \in SUBSET Locales : [p EXCEPT !["locales"] = x] \in Policies
         /\ \A x \in Modes : [p EXCEPT !["substitution"] = x] \in Policies
         /\ \A x \in Levels : [p EXCEPT !["level"] = x] \in Policies
BY DEF Policies

LEMMA PoliciesAreDocuments == Policies \subseteq Documents
BY PolicyAssumption DEF Policies, Documents

\* What a request may carry and the parser accept is a state.
LEMMA ParsedIsPolicy ==
  ASSUME NEW d \in Documents, ~Unparsed(d), ~UnknownLocale(d)
  PROVE  d \in Policies
BY DEF Documents, Policies, Unparsed, Partial, Misspelt, UnknownLocale

LEMMA AppliedIsPolicy ==
  ASSUME NEW p \in Policies, NEW d \in Documents
  PROVE  /\ Applied(p, d) \in Policies
         /\ p.off \subseteq Switchable => Applied(p, d).off \subseteq Switchable
<1>1. CASE Unparsed(d) \/ UnknownLocale(d)
  BY <1>1 DEF Applied
<1>2. CASE ~Unparsed(d) /\ ~UnknownLocale(d) /\ RefusedCategories(d)
  <2>1. Applied(p, d) = [p EXCEPT !.locales = d.locales]
    BY <1>2 DEF Applied
  <2>2. d.locales \subseteq Locales
    BY <1>2 DEF UnknownLocale
  <2> QED BY <2>1, <2>2 DEF Policies
<1>3. CASE ~Unparsed(d) /\ ~UnknownLocale(d) /\ ~RefusedCategories(d)
  <2>1. Applied(p, d) = d
    BY <1>3 DEF Applied
  <2> QED BY <1>3, <2>1, ParsedIsPolicy DEF RefusedCategories
<1> QED BY <1>1, <1>2, <1>3

LEMMA StartedIsPolicy ==
  ASSUME TypeOK
  PROVE  Started(file) \in Policies /\ Started(file).off \subseteq Switchable
<1>1. env \in Policies /\ env.off \subseteq Switchable
  BY PolicyAssumption DEF TypeOK
<1>2. CASE file.kind = "document"
  <2>1. file.doc \in Documents
    BY <1>2 DEF TypeOK, Files, NoFile, Unreadable
  <2> QED BY <1>1, <1>2, <2>1, AppliedIsPolicy DEF Started
<1>3. CASE file.kind # "document"
  BY <1>1, <1>3 DEF Started
<1> QED BY <1>2, <1>3

LEMMA RInvInit == Init => RInv
<1> SUFFICES ASSUME Init PROVE RInv
  OBVIOUS
<1>1. env \in Policies /\ env.off = {}
  BY PolicyAssumption DEF Init
<1>2. env \in Documents
  BY <1>1, PoliciesAreDocuments
<1>3. TypeOK
  <2>1. file \in Files /\ holder \in Requests \union {Nobody} /\ shape \subseteq Modes
    BY DEF Init, Files
  <2>2. /\ env \in Environments /\ live \in Policies
        /\ view \in [Surfaces -> Policies] /\ reading \in [Surfaces -> 0..4]
        /\ want \in [Requests -> Documents] /\ before \in [Requests -> Policies]
    BY <1>1, <1>2 DEF Init
  <2>3. /\ at \in [Requests -> Stores \union Answers \union {"unsent", "waiting"}]
        /\ applied \in [Requests -> BOOLEAN]
        /\ refused \in [Requests -> BOOLEAN]
        /\ changed \in [Requests -> BOOLEAN]
    BY DEF Init
  <2>4. edited \in [Requests -> (Surfaces \X {Parts[i] : i \in 1..4}) \union {<<>>}]
    BY DEF Init
  <2>5. restarts \in 0..MaxRestarts /\ edits \in 0..MaxEdits
    BY PolicyAssumption DEF Init
  <2> QED BY <2>1, <2>2, <2>3, <2>4, <2>5 DEF Init, TypeOK
<1>4. OneHandler
  BY PolicyAssumption DEF Init, OneHandler, Stores
<1>5. Landed
  BY DEF Init, Landed, Whole, Stores
<1>6. LockedStaysMasked /\ StoredWasLive
  BY <1>1 DEF Init, LockedStaysMasked, StoredWasLive
<1> QED BY <1>3, <1>4, <1>5, <1>6 DEF RInv

-----------------------------------------------------------------------------
(* Types, step by step. *)

\* A part of /healthz copied into a view.
LEMMA ReadTyped ==
  ASSUME NEW p \in Policies, NEW v \in Policies, NEW i \in 1..4
  PROVE  [v EXCEPT ![Parts[i]] = Reported(p, Parts[i])] \in Policies
<1>1. i = 1 \/ i = 2 \/ i = 3 \/ i = 4
  OBVIOUS
<1>2. /\ p["off"] \in SUBSET CategoryNames /\ p["level"] \in Levels
      /\ p["substitution"] \in Modes /\ p["locales"] \in SUBSET Locales
  BY DEF Policies
<1> QED BY <1>1, <1>2, PartsFacts, PolicyUpdate DEF Reported

\* One part of a view replaced by what a surface may choose for it.
LEMMA AskTyped ==
  ASSUME NEW v \in Policies, NEW i \in 1..4, NEW x \in Choices(v, Parts[i])
  PROVE  [v EXCEPT ![Parts[i]] = x] \in Documents
<1>1. v \in Documents
  BY PoliciesAreDocuments
<1>2. CASE i = 1
  <2>1. x \in SUBSET CategoryNames
    BY <1>2, PartsFacts DEF Choices, Switched, Policies
  <2> QED BY <1>1, <1>2, <2>1, PartsFacts DEF Documents
<1>3. CASE i = 2
  <2>1. x \in Levels \union {"absent", "misspelt"}
    BY <1>3, PartsFacts DEF Choices
  <2> QED BY <1>1, <1>3, <2>1, PartsFacts DEF Documents
<1>4. CASE i = 3
  <2>1. x \in Modes \union {"absent", "misspelt"}
    BY <1>4, PartsFacts DEF Choices
  <2> QED BY <1>1, <1>4, <2>1, PartsFacts DEF Documents
<1>5. CASE i = 4
  <2>1. x \in SUBSET LocaleNames
    BY <1>5, PartsFacts DEF Choices
  <2> QED BY <1>1, <1>5, <2>1, PartsFacts DEF Documents
<1> QED BY <1>2, <1>3, <1>4, <1>5

LEMMA SurfaceTyped ==
  ASSUME TypeOK, NEW s \in Surfaces, Surface(s)
  PROVE  TypeOK'
<1>1. CASE Poll(s)
  BY <1>1 DEF Poll, TypeOK, fileVars, handlerVars, bounds
<1>2. CASE ReadPart(s)
  <2>1. reading[s] \in 1..4 /\ live \in Policies /\ view[s] \in Policies
    BY <1>2 DEF ReadPart, TypeOK
  <2>2. [view[s] EXCEPT ![Parts[reading[s]]] = Reported(live, Parts[reading[s]])] \in Policies
    BY <2>1, ReadTyped
  <2>3. view' = [view EXCEPT ![s] =
                   [view[s] EXCEPT ![Parts[reading[s]]] = Reported(live, Parts[reading[s]])]]
    BY <1>2 DEF ReadPart
  <2>4. view' \in [Surfaces -> Policies]
    BY <2>2, <2>3 DEF TypeOK
  <2>5. reading' \in [Surfaces -> 0..4]
    BY <1>2, <2>1 DEF ReadPart, TypeOK
  <2> QED BY <1>2, <2>4, <2>5 DEF ReadPart, TypeOK, fileVars, handlerVars, bounds
<1>3. CASE \E q \in Requests, i \in 1..4 : Ask(s, q, Parts[i])
  <2>1. PICK q \in Requests, i \in 1..4 : Ask(s, q, Parts[i])
    BY <1>3
  <2>2. PICK x \in Choices(view[s], Parts[i]) :
          want' = [want EXCEPT ![q] = [view[s] EXCEPT ![Parts[i]] = x]]
    BY <2>1 DEF Ask
  <2>3. want' \in [Requests -> Documents]
    BY <2>2, AskTyped DEF TypeOK
  <2>4. edited' \in [Requests -> (Surfaces \X {Parts[j] : j \in 1..4}) \union {<<>>}]
    BY <2>1 DEF Ask, TypeOK
  <2>5. at' \in [Requests -> Stores \union Answers \union {"unsent", "waiting"}]
    BY <2>1 DEF Ask, TypeOK
  <2>6. stale' \subseteq Surfaces \union Requests
    BY <2>1 DEF Ask, TypeOK
  <2> QED BY <2>1, <2>3, <2>4, <2>5, <2>6 DEF Ask, TypeOK, fileVars, bounds
<1> QED BY <1>1, <1>2, <1>3 DEF Surface

LEMMA GotoTyped ==
  ASSUME TypeOK, NEW q \in Requests, NEW where \in Stores \union Answers, Goto(q, where)
  PROVE  at' \in [Requests -> Stores \union Answers \union {"unsent", "waiting"}]
BY DEF Goto, TypeOK

LEMMA StoreTyped ==
  ASSUME TypeOK, NEW q \in Requests, NEW part, NEW x, Store(q, part, x)
  PROVE  told' \in BOOLEAN /\ stale' \subseteq Surfaces \union Requests
BY DEF Store, TypeOK

LEMMA HandleTyped ==
  ASSUME TypeOK, Landed, NEW q \in Requests, Handle(q)
  PROVE  TypeOK'
<1> USE DEF handlerVars, surfaceVars, fileVars, bounds
<1>0. /\ want[q] \in Documents /\ live \in Policies
      /\ {"off", "substitution", "level", "persist", "rename", "reply"} \subseteq Stores
      /\ {"refused", "accepted"} \subseteq Answers
  BY DEF TypeOK, Stores, Answers
<1>1. CASE RefuseUntouched(q)
  <2>1. Goto(q, "refused") /\ holder' = Nobody
    BY <1>1 DEF RefuseUntouched, Return
  <2> QED BY <1>0, <1>1, <2>1, GotoTyped DEF RefuseUntouched, TypeOK
<1>2. CASE StoreLocales(q)
  <2>1. live' \in Policies
    BY <1>0, <1>2, PolicyUpdate DEF StoreLocales, Store, UnknownLocale
  <2>2. applied' \in [Requests -> BOOLEAN]
    BY <1>2 DEF StoreLocales, Touched, TypeOK
  <2> QED BY <1>0, <1>2, <2>1, <2>2, GotoTyped, StoreTyped DEF StoreLocales, TypeOK
<1>3. CASE StoreOff(q)
  <2>1. want[q].off \in SUBSET CategoryNames
    BY <1>0 DEF Documents
  <2>2. live' \in Policies
    BY <1>0, <1>3, <2>1, PolicyUpdate DEF StoreOff, Store
  <2> QED BY <1>0, <1>3, <2>2, GotoTyped, StoreTyped DEF StoreOff, TypeOK
<1>4. CASE RefuseOff(q)
  <2>1. AfterApply(applied[q], TRUE) \in Stores
    BY <1>0 DEF AfterApply
  <2>2. refused' \in [Requests -> BOOLEAN]
    BY <1>4 DEF RefuseOff, TypeOK
  <2> QED BY <1>0, <1>4, <2>1, <2>2, GotoTyped DEF RefuseOff, TypeOK
<1>5. CASE StoreMode(q)
  <2>1. at[q] \in Stores \ {"locales"}
    BY <1>5 DEF StoreMode, Stores
  <2>2. want[q].substitution \in Modes
    BY <1>0, <2>1 DEF Landed, Documents, Unparsed, Partial, Misspelt
  <2>3. live' \in Policies
    BY <1>0, <1>5, <2>2, PolicyUpdate DEF StoreMode, Store
  <2>4. changed' \in [Requests -> BOOLEAN]
    BY <1>5 DEF StoreMode, ModeChanges, TypeOK
  <2> QED BY <1>0, <1>5, <2>3, <2>4, GotoTyped, StoreTyped DEF StoreMode, TypeOK
<1>6. CASE StoreLevel(q)
  <2>1. at[q] \in Stores \ {"locales"}
    BY <1>6 DEF StoreLevel, Stores
  <2>2. want[q].level \in Levels
    BY <1>0, <2>1 DEF Landed, Documents, Unparsed, Partial, Misspelt
  <2>3. live' \in Policies
    BY <1>0, <1>6, <2>2, PolicyUpdate DEF StoreLevel, Store
  <2>4. AfterApply(applied[q], FALSE) \in Stores
    BY <1>0 DEF AfterApply
  <2> QED BY <1>0, <1>6, <2>3, <2>4, GotoTyped, StoreTyped DEF StoreLevel, TypeOK
<1>7. CASE WriteTemp(q)
  BY <1>0, <1>7, GotoTyped DEF WriteTemp, WhileWriting, TypeOK
<1>8. CASE Rename(q)
  <2>1. file' \in Files
    BY <1>0, <1>8, PoliciesAreDocuments DEF Rename, ToStore, File, Files
  <2> QED BY <1>0, <1>8, <2>1, GotoTyped DEF Rename, TypeOK
<1>9. CASE StoreFails(q)
  BY <1>0, <1>9, GotoTyped DEF StoreFails, TypeOK
<1>10. CASE ReplyRefused(q)
  <2>1. Goto(q, "refused") /\ holder' = Nobody
    BY <1>10 DEF ReplyRefused, Return
  <2> QED BY <1>0, <1>10, <2>1, GotoTyped DEF ReplyRefused, TypeOK
<1>11. CASE ReplyAccepted(q)
  <2>1. Goto(q, "accepted") /\ holder' = Nobody
    BY <1>11 DEF ReplyAccepted, Return
  <2>2. shape' \subseteq Modes
    BY <1>11 DEF ReplyAccepted, MappingLeft, TypeOK
  <2>3. /\ view' \in [Surfaces -> Policies]
        /\ reading' \in [Surfaces -> 0..4]
        /\ stale' \subseteq Surfaces \union Requests
    BY <1>0, <1>11 DEF ReplyAccepted, TypeOK
  <2> QED BY <1>0, <1>11, <2>1, <2>2, <2>3, GotoTyped DEF ReplyAccepted, TypeOK
<1> QED BY <1>1, <1>2, <1>3, <1>4, <1>5, <1>6, <1>7, <1>8, <1>9, <1>10, <1>11 DEF Handle

LEMMA TypeStep ==
  ASSUME TypeOK, Landed, [Next]_vars
  PROVE  TypeOK'
<1> USE DEF handlerVars, surfaceVars, fileVars, bounds
<1>1. ASSUME NEW q \in Requests, Take(q) PROVE TypeOK'
  <2>1. Goto(q, "locales") /\ "locales" \in Stores
    BY <1>1 DEF Take, Stores
  <2>2. before' \in [Requests -> Policies]
    BY <1>1 DEF Take, TypeOK
  <2> QED BY <1>1, <2>1, <2>2, GotoTyped DEF Take, TypeOK
<1>2. CASE Mint
  BY <1>2 DEF Mint, TypeOK, Policies
<1>3. CASE HandEdit
  <2>1. file' \in Files
    BY <1>3, PolicyAssumption DEF HandEdit, Files, File
  <2>2. edits' \in 0..MaxEdits
    BY <1>3, PolicyAssumption DEF HandEdit, TypeOK
  <2> QED BY <1>3, <2>1, <2>2 DEF HandEdit, TypeOK
<1>4. CASE Restart
  <2>1. live' \in Policies
    BY <1>4, StartedIsPolicy DEF Restart
  <2>2. at' \in [Requests -> Stores \union Answers \union {"unsent", "waiting"}]
    BY <1>4 DEF Restart, Answers
  <2>3. restarts' \in 0..MaxRestarts
    BY <1>4, PolicyAssumption DEF Restart, TypeOK
  <2>4. reading' \in [Surfaces -> 0..4]
    BY <1>4 DEF Restart
  <2> QED BY <1>4, <2>1, <2>2, <2>3, <2>4 DEF Restart, TypeOK
<1>5. CASE UNCHANGED vars
  BY <1>5 DEF vars, TypeOK
<1> QED BY <1>1, <1>2, <1>3, <1>4, <1>5, SurfaceTyped, HandleTyped DEF Next

-----------------------------------------------------------------------------
(* The lock. *)

LEMMA OneHandlerStep ==
  ASSUME TypeOK, OneHandler, [Next]_vars
  PROVE  OneHandler'
<1> USE PolicyAssumption DEF handlerVars
<1>1. CASE UNCHANGED handlerVars
  BY <1>1 DEF OneHandler
<1>2. ASSUME NEW s \in Surfaces, NEW q \in Requests, NEW i \in 1..4, Ask(s, q, Parts[i])
      PROVE  OneHandler'
  BY <1>2 DEF Ask, OneHandler, TypeOK, Stores
<1>3. ASSUME NEW q \in Requests, Take(q) PROVE OneHandler'
  BY <1>3 DEF Take, MutexFree, Goto, OneHandler, TypeOK, Stores
<1>4. ASSUME NEW q \in Requests, Handle(q) PROVE OneHandler'
  <2>1. at[q] \in Stores
    BY <1>4 DEF Handle, RefuseUntouched, StoreLocales, StoreOff, RefuseOff, StoreMode,
       StoreLevel, WriteTemp, Rename, StoreFails, ReplyRefused, ReplyAccepted, Stores
  <2>2. holder = q
    BY <2>1 DEF OneHandler
  <2>3. ASSUME NEW answer \in Answers, Return(q, answer) PROVE OneHandler'
    BY <2>2, <2>3 DEF Return, Goto, OneHandler, TypeOK, Stores, Answers
  <2>4. ASSUME NEW where \in Stores, Goto(q, where), holder' = holder PROVE OneHandler'
    BY <2>2, <2>4 DEF Goto, OneHandler, TypeOK
  <2>5. CASE RefuseUntouched(q) \/ ReplyRefused(q) \/ ReplyAccepted(q)
    BY <2>3, <2>5 DEF RefuseUntouched, ReplyRefused, ReplyAccepted, Answers
  <2>6. CASE StoreLocales(q) \/ StoreOff(q) \/ StoreMode(q) \/ WriteTemp(q)
    BY <2>4, <2>6 DEF StoreLocales, StoreOff, StoreMode, WriteTemp, Stores
  <2>7. CASE RefuseOff(q) \/ StoreLevel(q)
    BY <2>4, <2>7 DEF RefuseOff, StoreLevel, AfterApply, Stores
  <2>8. CASE Rename(q) \/ StoreFails(q)
    BY <2>4, <2>8 DEF Rename, StoreFails, Stores
  <2> QED BY <1>4, <2>5, <2>6, <2>7, <2>8 DEF Handle
<1>5. CASE Restart
  BY <1>5 DEF Restart, OneHandler, Stores, Answers
<1>6. CASE UNCHANGED vars
  BY <1>1, <1>6 DEF vars
<1>7. CASE Mint \/ HandEdit \/ \E s \in Surfaces : Poll(s) \/ ReadPart(s)
  BY <1>1, <1>7 DEF Mint, HandEdit, Poll, ReadPart
<1> QED BY <1>2, <1>3, <1>4, <1>5, <1>6, <1>7 DEF Next, Surface

-----------------------------------------------------------------------------
(* What has been stored is what was asked for. *)

\* A step of q's handler that takes it to another store leaves every other
\* request outside the handler: only q's part of Landed is at stake.
LEMMA OthersOutside ==
  ASSUME TypeOK, OneHandler, Landed, NEW q \in Requests, at[q] \in Stores,
         NEW p \in Requests, p # q, at'[p] = at[p], refused'[p] = refused[p]
  PROVE  /\ at'[p] \notin Stores
         /\ at'[p] \in {"unsent", "waiting"} => ~refused'[p]
<1>1. holder = q
  BY DEF OneHandler
<1>2. at[p] \notin Stores
  BY <1>1 DEF OneHandler
<1> QED BY <1>2 DEF Landed

LEMMA LandedHandle ==
  ASSUME TypeOK, OneHandler, Landed, NEW q \in Requests, Handle(q)
  PROVE  Landed'
<1> DEFINE Part(p) ==
      /\ at[p] \in Stores \ {"locales"} =>
           /\ ~Unparsed(want[p])
           /\ ~UnknownLocale(want[p])
           /\ live.locales = want[p].locales
      /\ at[p] \in {"locales", "off"} => ~refused[p]
      /\ Whole(p) => ~refused[p] /\ live.off = want[p].off
      /\ Whole(p) /\ at[p] # "substitution" => live.substitution = want[p].substitution
      /\ Whole(p) /\ at[p] \notin {"substitution", "level"} => live.level = want[p].level
      /\ at[p] \in {"unsent", "waiting"} => ~refused[p]
<1> USE DEF surfaceVars
<1>0. at[q] \in Stores
  BY DEF Handle, RefuseUntouched, StoreLocales, StoreOff, RefuseOff, StoreMode,
     StoreLevel, WriteTemp, Rename, StoreFails, ReplyRefused, ReplyAccepted, Stores
<1>1. /\ want' = want
      /\ \A p \in Requests \ {q} : at'[p] = at[p] /\ refused'[p] = refused[p]
  BY DEF Handle, RefuseUntouched, StoreLocales, StoreOff, RefuseOff, StoreMode,
     StoreLevel, WriteTemp, Rename, StoreFails, ReplyRefused, ReplyAccepted,
     Goto, Return, TypeOK
<1>2. \A p \in Requests \ {q} : Part(p)'
  BY <1>0, <1>1, OthersOutside DEF Whole, Stores
<1>3. Part(q)
  BY DEF Landed
<1>4. /\ live \in Policies /\ at \in [Requests -> Stores \union Answers \union {"unsent", "waiting"}]
      /\ refused \in [Requests -> BOOLEAN]
  BY DEF TypeOK
<1>5. Part(q)'
  <2>1. CASE RefuseUntouched(q) \/ ReplyRefused(q) \/ ReplyAccepted(q)
    <3>1. at'[q] \in {"refused", "accepted"}
      BY <1>4, <2>1 DEF RefuseUntouched, ReplyRefused, ReplyAccepted, Return, Goto
    <3> QED BY <3>1 DEF Whole, Stores
  <2>2. CASE StoreLocales(q)
    <3>1. at'[q] = "off" /\ at[q] = "locales" /\ refused' = refused
      BY <1>4, <2>2 DEF StoreLocales, Goto
    <3>2. live'.locales = want[q].locales
      BY <1>4, <2>2 DEF StoreLocales, Store, Policies
    <3>3. ~Unparsed(want'[q]) /\ ~UnknownLocale(want'[q])
      BY <1>1, <2>2 DEF StoreLocales
    <3> QED BY <1>1, <1>3, <3>1, <3>2, <3>3 DEF Whole
  <2>3. CASE StoreOff(q)
    <3>1. at'[q] = "substitution" /\ at[q] = "off" /\ refused' = refused
      BY <1>4, <2>3 DEF StoreOff, Goto
    <3>2. live'.off = want[q].off /\ live'.locales = live.locales
      BY <1>4, <2>3 DEF StoreOff, Store, Policies
    <3> QED BY <1>1, <1>3, <3>1, <3>2 DEF Whole, Stores, Unparsed, Partial, Misspelt, UnknownLocale
  <2>4. CASE RefuseOff(q)
    <3>1. at'[q] \in {"persist", "reply"} /\ at[q] = "off" /\ refused'[q]
      BY <1>4, <2>4 DEF RefuseOff, Goto, AfterApply
    <3>2. live' = live
      BY <2>4 DEF RefuseOff
    <3> QED BY <1>1, <1>3, <3>1, <3>2 DEF Whole, Stores, Unparsed, Partial, Misspelt, UnknownLocale
  <2>5. CASE StoreMode(q)
    <3>1. at'[q] = "level" /\ at[q] = "substitution" /\ refused' = refused
      BY <1>4, <2>5 DEF StoreMode, Goto
    <3>2. /\ live'.substitution = want[q].substitution
          /\ live'.locales = live.locales /\ live'.off = live.off
      BY <1>4, <2>5 DEF StoreMode, Store, Policies
    <3> QED BY <1>1, <1>3, <3>1, <3>2 DEF Whole, Stores, Unparsed, Partial, Misspelt, UnknownLocale
  <2>6. CASE StoreLevel(q)
    <3>1. at'[q] \in {"persist", "reply"} /\ at[q] = "level" /\ refused' = refused
      BY <1>4, <2>6 DEF StoreLevel, Goto, AfterApply
    <3>2. /\ live'.level = want[q].level /\ live'.substitution = live.substitution
          /\ live'.locales = live.locales /\ live'.off = live.off
      BY <1>4, <2>6 DEF StoreLevel, Store, Policies
    <3> QED BY <1>1, <1>3, <3>1, <3>2 DEF Whole, Stores, Unparsed, Partial, Misspelt, UnknownLocale
  <2>7. CASE WriteTemp(q) \/ Rename(q) \/ StoreFails(q)
    <3>1. /\ at[q] \in {"persist", "rename"} /\ at'[q] \in {"rename", "reply"}
          /\ refused' = refused /\ live' = live
      BY <1>4, <2>7 DEF WriteTemp, Rename, StoreFails, Goto
    <3> QED BY <1>1, <1>3, <3>1 DEF Whole, Stores, Unparsed, Partial, Misspelt, UnknownLocale
  <2> QED BY <2>1, <2>2, <2>3, <2>4, <2>5, <2>6, <2>7 DEF Handle
<1>6. \A p \in Requests : Part(p)'
  BY <1>2, <1>5
<1> QED BY <1>6 DEF Landed

LEMMA LandedStep ==
  ASSUME TypeOK, OneHandler, Landed, [Next]_vars
  PROVE  Landed'
<1> USE DEF handlerVars, surfaceVars
<1>1. ASSUME UNCHANGED <<live, want, at, refused>> PROVE Landed'
  BY <1>1 DEF Landed, Whole, Unparsed, Partial, Misspelt, UnknownLocale
<1>2. ASSUME NEW s \in Surfaces, NEW q \in Requests, NEW i \in 1..4, Ask(s, q, Parts[i])
      PROVE  Landed'
  <2>1. /\ live' = live /\ refused' = refused /\ at[q] = "unsent" /\ at'[q] = "waiting"
        /\ \A p \in Requests \ {q} : at'[p] = at[p] /\ want'[p] = want[p]
    BY <1>2 DEF Ask, TypeOK
  <2> QED BY <2>1 DEF Landed, Whole, Stores, Unparsed, Partial, Misspelt, UnknownLocale
<1>3. ASSUME NEW q \in Requests, Take(q) PROVE Landed'
  <2>1. /\ UNCHANGED <<live, want, refused>> /\ at[q] = "waiting" /\ at'[q] = "locales"
        /\ \A p \in Requests \ {q} : at'[p] = at[p]
    BY <1>3 DEF Take, Goto, TypeOK
  <2> QED BY <2>1 DEF Landed, Whole, Stores, Unparsed, Partial, Misspelt, UnknownLocale
<1>4. CASE Restart
  <2>1. refused' = refused
    BY <1>4 DEF Restart
  <2>2. \A q \in Requests :
          at'[q] = IF at[q] \in Answers \union {"unsent"} THEN at[q] ELSE "lost"
    BY <1>4 DEF Restart
  <2> QED BY <2>1, <2>2 DEF Landed, Whole, Stores, Answers
<1>5. CASE UNCHANGED vars \/ Mint \/ HandEdit \/ \E s \in Surfaces : Poll(s) \/ ReadPart(s)
  BY <1>1, <1>5 DEF vars, Mint, HandEdit, Poll, ReadPart
<1> QED BY <1>2, <1>3, <1>4, <1>5, LandedHandle DEF Next, Surface

-----------------------------------------------------------------------------
(* The invariant. *)

\* No store switches a locked category off, and no start reads one.
LEMMA LockedStep ==
  ASSUME TypeOK, LockedStaysMasked, [Next]_vars
  PROVE  LockedStaysMasked'
<1>1. CASE live' = live
  BY <1>1 DEF LockedStaysMasked
<1>2. CASE Restart
  BY <1>2, StartedIsPolicy DEF Restart, LockedStaysMasked
<1>3. ASSUME NEW q \in Requests, Handle(q) PROVE LockedStaysMasked'
  <2>1. CASE StoreOff(q)
    BY <2>1 DEF StoreOff, Store, RefusedCategories, LockedStaysMasked, TypeOK, Policies
  <2>2. CASE StoreLocales(q) \/ StoreMode(q) \/ StoreLevel(q)
    BY <2>2 DEF StoreLocales, StoreMode, StoreLevel, Store, LockedStaysMasked, TypeOK, Policies
  <2> QED BY <1>1, <1>3, <2>1, <2>2 DEF Handle, RefuseUntouched, RefuseOff, WriteTemp,
          Rename, StoreFails, ReplyRefused, ReplyAccepted
<1>4. CASE UNCHANGED vars \/ Mint \/ HandEdit \/ (\E s \in Surfaces : Surface(s))
           \/ (\E q \in Requests : Take(q))
  BY <1>1, <1>4 DEF vars, Mint, HandEdit, Surface, Poll, ReadPart, Ask, Take
<1> QED BY <1>2, <1>3, <1>4 DEF Next

LEMMA StoredStep ==
  ASSUME TypeOK, LockedStaysMasked, StoredWasLive, [Next]_vars
  PROVE  StoredWasLive'
<1> USE DEF fileVars
<1>1. CASE file' = file /\ byHand' = byHand
  BY <1>1 DEF StoredWasLive
<1>2. CASE HandEdit
  BY <1>2 DEF HandEdit, StoredWasLive
<1>3. ASSUME NEW q \in Requests, Rename(q) PROVE StoredWasLive'
  BY <1>3 DEF Rename, ToStore, File, StoredWasLive, LockedStaysMasked, TypeOK
<1>4. ASSUME NEW q \in Requests, Handle(q), ~Rename(q) PROVE StoredWasLive'
  BY <1>1, <1>4 DEF Handle, RefuseUntouched, StoreLocales, StoreOff, RefuseOff, StoreMode,
     StoreLevel, WriteTemp, WhileWriting, StoreFails, ReplyRefused, ReplyAccepted
<1>5. CASE UNCHANGED vars \/ Mint \/ Restart \/ (\E s \in Surfaces : Surface(s))
           \/ (\E q \in Requests : Take(q))
  BY <1>1, <1>5 DEF vars, Mint, Restart, Surface, Poll, ReadPart, Ask, Take
<1> QED BY <1>2, <1>3, <1>4, <1>5 DEF Next

LEMMA RInvHolds == Spec => []RInv
<1>1. Init => RInv
  BY RInvInit
<1>2. RInv /\ [Next]_vars => RInv'
  BY TypeStep, OneHandlerStep, LandedStep, LockedStep, StoredStep DEF RInv
<1> QED BY <1>1, <1>2, PTL DEF Spec

-----------------------------------------------------------------------------
(* Theorems. *)

\* The variables stay within their types.
THEOREM RouteTypeCorrect == Spec => []TypeOK
BY RInvHolds, PTL DEF RInv

\* No request, refusal, hand-made file or restart leaves a locked category in
\* clear (Detector.Disable under applyPolicy, and the start that reuses it).
THEOREM LockedNeverOff == Spec => []LockedStaysMasked
BY RInvHolds, PTL DEF RInv

\* However many surfaces write at once, the handler that accepts a request has
\* left the agent in the state the request carried (policyMu in handlePolicy).
THEOREM AcceptedIsApplied == Spec => []ReplyIsWhatWasAsked
<1>1. RInv => ReplyIsWhatWasAsked
  <2> SUFFICES ASSUME RInv, NEW q \in Requests, at[q] = "reply", ~refused[q]
               PROVE  live = want[q]
    BY DEF ReplyIsWhatWasAsked
  <2>1. /\ live.off = want[q].off /\ live.locales = want[q].locales
        /\ live.substitution = want[q].substitution /\ live.level = want[q].level
    BY DEF RInv, Landed, Whole, Stores
  <2>2. live \in Policies /\ want[q] \in Documents
    BY DEF RInv, TypeOK
  <2>3. live = [off |-> live.off, locales |-> live.locales,
                substitution |-> live.substitution, level |-> live.level]
    BY <2>2 DEF Policies
  <2>4. want[q] = [off |-> want[q].off, locales |-> want[q].locales,
                   substitution |-> want[q].substitution, level |-> want[q].level]
    BY <2>2 DEF Documents
  <2> QED BY <2>1, <2>3, <2>4
<1> QED BY <1>1, RInvHolds, PTL

\* A file the agent wrote is a whole state that the next start takes as it is
\* (persistPolicy writes livePolicy and renames it into place).
THEOREM StoredIsAccepted == Spec => []StoredIsWhole
<1>1. RInv => StoredIsWhole
  <2> SUFFICES ASSUME RInv, ~byHand, file # NoFile
               PROVE  \E p \in Policies : file = File(p) /\ Started(file) = p
    BY DEF StoredIsWhole
  <2> DEFINE p == file.doc
  <2>1. file.kind = "document" /\ p \in Policies /\ p.off \subseteq Switchable
    BY DEF RInv, StoredWasLive
  <2>2. file = File(p)
    BY <2>1 DEF RInv, TypeOK, Files, NoFile, Unreadable, File
  <2>3. ~Unparsed(p) /\ ~UnknownLocale(p) /\ ~RefusedCategories(p)
    BY <2>1, PolicyAssumption
       DEF Policies, Modes, Unparsed, Partial, Misspelt, UnknownLocale, RefusedCategories
  <2>4. Started(file) = p
    BY <2>1, <2>3 DEF Started, Applied
  <2> QED BY <2>1, <2>2, <2>4
<1> QED BY <1>1, RInvHolds, PTL

-----------------------------------------------------------------------------
(* A state and an earlier one. *)

\* The stores of the mode and before it.
UpToMode == {"locales", "off", "substitution"}

\* What handlers do once applyPolicy has returned.
Afterwards == {"persist", "rename", "reply"}

\* The holder's handler has put what it stored over the state it found.
FromBefore ==
  \A q \in Requests :
    /\ at[q] = "locales" => live = before[q]
    /\ at[q] = "off" \/ (at[q] \in Afterwards /\ refused[q])
         => live = [before[q] EXCEPT !.locales = want[q].locales]
    /\ at[q] \in Afterwards /\ refused[q] => RefusedCategories(want[q])
    /\ Whole(q) => ~RefusedCategories(want[q])
    /\ at[q] \in UpToMode \/ (at[q] \in Afterwards /\ refused[q])
         => live.substitution = before[q].substitution
    /\ Whole(q) /\ at[q] # "substitution" /\ changed[q]
         => live.substitution # before[q].substitution

\* The handler has noted a change of mode and has yet to drop the mapping.
AboutToForget ==
  /\ holder # Nobody
  /\ at[holder] \notin UpToMode
  /\ ~refused[holder]
  /\ changed[holder]

\* Otherwise the mapping holds what the present mode minted.
MappingInv == ~AboutToForget => shape \subseteq {live.substitution}

\* A handler that found other locales has changed the agent.
NotedIsTold ==
  \A q \in Requests :
    /\ at[q] \in {"off", "substitution", "level"} /\ applied[q] => told
    /\ at[q] \in {"persist", "rename"} => told

\* The locales the file, or its absence, stands for.
StoredLocales == IF file = NoFile THEN env.locales ELSE file.doc.locales

\* The handler has changed the locales and has yet to store them.
AboutToStore ==
  /\ holder # Nobody
  /\ \/ at[holder] \in {"off", "substitution", "level"} /\ applied[holder]
     \/ at[holder] \in {"persist", "rename"}

StoredInv ==
  ~byHand =>
    /\ file # NoFile => told
    /\ ~AboutToStore /\ ~unstored => live.locales = StoredLocales

HInv == RInv /\ FromBefore /\ MappingInv /\ NotedIsTold /\ StoredInv

-----------------------------------------------------------------------------
(* Steps that are not of the handler. *)

LEMMA HInvInit == Init => HInv
<1> SUFFICES ASSUME Init PROVE HInv
  OBVIOUS
<1>1. RInv
  BY RInvInit
<1>2. FromBefore
  BY DEF Init, FromBefore, Whole, UpToMode, Afterwards
<1>3. MappingInv /\ NotedIsTold
  BY DEF Init, MappingInv, NotedIsTold
<1>4. StoredInv
  BY DEF Init, StoredInv, StoredLocales
<1> QED BY <1>1, <1>2, <1>3, <1>4 DEF HInv

\* A step that moves neither the agent, the handlers nor the file.
LEMMA QuietStep ==
  ASSUME HInv, RInv', UNCHANGED <<env, live, file, byHand, unstored, shape, want,
                                  handlerVars, told>>
  PROVE  HInv'
<1> USE DEF handlerVars
<1>1. FromBefore'
  BY DEF HInv, FromBefore, Whole, RefusedCategories
<1>2. MappingInv'
  BY DEF HInv, MappingInv, AboutToForget
<1>3. NotedIsTold' /\ StoredInv'
  BY DEF HInv, NotedIsTold, StoredInv, AboutToStore, StoredLocales
<1> QED BY <1>1, <1>2, <1>3 DEF HInv

LEMMA AskStep ==
  ASSUME HInv, RInv', NEW s \in Surfaces, NEW q \in Requests, NEW i \in 1..4,
         Ask(s, q, Parts[i])
  PROVE  HInv'
<1>1. /\ at[q] = "unsent" /\ at'[q] = "waiting"
      /\ \A p \in Requests \ {q} : at'[p] = at[p] /\ want'[p] = want[p]
      /\ UNCHANGED <<env, live, file, byHand, unstored, shape, holder, applied,
                     refused, changed, before, told>>
  BY DEF Ask, HInv, RInv, TypeOK, fileVars
<1>2. holder # q /\ holder \in Requests \union {Nobody}
  BY <1>1 DEF HInv, RInv, OneHandler, TypeOK, Stores
<1>3. FromBefore'
  BY <1>1 DEF HInv, FromBefore, Whole, RefusedCategories, UpToMode, Afterwards
<1>4. MappingInv'
  BY <1>1, <1>2 DEF HInv, MappingInv, AboutToForget
<1>5. NotedIsTold'
  BY <1>1 DEF HInv, NotedIsTold
<1>6. StoredInv'
  BY <1>1, <1>2 DEF HInv, StoredInv, AboutToStore, StoredLocales
<1> QED BY <1>3, <1>4, <1>5, <1>6 DEF HInv

LEMMA TakeStep ==
  ASSUME HInv, RInv', NEW q \in Requests, Take(q)
  PROVE  HInv'
<1>1. /\ at[q] = "waiting" /\ at'[q] = "locales"
      /\ \A p \in Requests \ {q} : at'[p] = at[p] /\ before'[p] = before[p]
      /\ before'[q] = live /\ holder = Nobody /\ holder' = q
      /\ UNCHANGED <<env, live, file, byHand, unstored, shape, want, applied,
                     refused, changed, told>>
  BY DEF Take, Goto, MutexFree, HInv, RInv, TypeOK, fileVars, surfaceVars
<1>2. FromBefore'
  BY <1>1 DEF HInv, FromBefore, Whole, RefusedCategories, UpToMode, Afterwards
<1>3. MappingInv'
  BY <1>1 DEF HInv, MappingInv, AboutToForget, UpToMode
<1>4. NotedIsTold'
  BY <1>1 DEF HInv, NotedIsTold
<1>5. StoredInv'
  BY <1>1 DEF HInv, StoredInv, AboutToStore, StoredLocales
<1> QED BY <1>2, <1>3, <1>4, <1>5 DEF HInv

LEMMA MintStep ==
  ASSUME HInv, RInv', Mint
  PROVE  HInv'
<1>1. UNCHANGED <<env, live, file, byHand, unstored, want, handlerVars, told>>
  BY DEF Mint, fileVars, surfaceVars
<1>2. shape' = shape \union {live.substitution}
  BY DEF Mint
<1>3. FromBefore'
  BY <1>1 DEF HInv, FromBefore, Whole, RefusedCategories, handlerVars
<1>4. MappingInv'
  BY <1>1, <1>2 DEF HInv, MappingInv, AboutToForget, handlerVars
<1>5. NotedIsTold' /\ StoredInv'
  BY <1>1 DEF HInv, NotedIsTold, StoredInv, AboutToStore, StoredLocales, handlerVars
<1> QED BY <1>3, <1>4, <1>5 DEF HInv

LEMMA HandEditStep ==
  ASSUME HInv, RInv', HandEdit
  PROVE  HInv'
<1>1. /\ UNCHANGED <<live, want, shape, handlerVars, told>>
      /\ byHand' = TRUE
  BY DEF HandEdit, surfaceVars
<1>2. FromBefore'
  BY <1>1 DEF HInv, FromBefore, Whole, RefusedCategories, handlerVars
<1>3. MappingInv'
  BY <1>1 DEF HInv, MappingInv, AboutToForget, handlerVars
<1>4. NotedIsTold' /\ StoredInv'
  BY <1>1 DEF HInv, NotedIsTold, StoredInv, handlerVars
<1> QED BY <1>2, <1>3, <1>4 DEF HInv

\* What a file the agent wrote starts.
LEMMA StartedAsStored ==
  ASSUME RInv, ~byHand, file # NoFile
  PROVE  Started(file) = file.doc
<1>1. file.kind = "document" /\ file.doc \in Policies /\ file.doc.off \subseteq Switchable
  BY DEF RInv, StoredWasLive
<1>2. ~Unparsed(file.doc) /\ ~UnknownLocale(file.doc) /\ ~RefusedCategories(file.doc)
  BY <1>1, PolicyAssumption
     DEF Policies, Modes, Unparsed, Partial, Misspelt, UnknownLocale, RefusedCategories
<1> QED BY <1>1, <1>2 DEF Started, Applied

LEMMA RestartStep ==
  ASSUME HInv, RInv', Restart
  PROVE  HInv'
<1>1. /\ shape' = {} /\ holder' = Nobody /\ live' = Started(file)
      /\ told' = (file # NoFile)
      /\ UNCHANGED <<env, file, byHand>>
      /\ \A q \in Requests : at'[q] \notin Stores
  BY DEF Restart, Answers, Stores
<1>2. FromBefore' /\ NotedIsTold'
  BY <1>1 DEF FromBefore, NotedIsTold, Whole, Stores, UpToMode, Afterwards
<1>3. MappingInv'
  BY <1>1 DEF MappingInv
<1>4. StoredInv'
  <2>1. CASE file = NoFile
    <3>1. Started(file) = env
      BY <2>1 DEF Started, NoFile
    <3> QED BY <1>1, <2>1, <3>1 DEF StoredInv, StoredLocales
  <2>2. CASE file # NoFile
    BY <1>1, <2>2, StartedAsStored DEF StoredInv, StoredLocales, HInv
  <2> QED BY <2>1, <2>2
<1> QED BY <1>2, <1>3, <1>4 DEF HInv

-----------------------------------------------------------------------------
(* The handler, store by store. *)

\* Where the handler of the holder is, nobody else is.
LEMMA HandlerAlone ==
  ASSUME RInv, NEW q \in Requests, Handle(q)
  PROVE  /\ at[q] \in Stores /\ holder = q /\ q # Nobody
         /\ \A p \in Requests \ {q} : at[p] \notin Stores
         /\ \A p \in Requests \ {q} : at'[p] = at[p]
         /\ want' = want /\ before' = before /\ env' = env
<1>1. at[q] \in Stores
  BY DEF Handle, RefuseUntouched, StoreLocales, StoreOff, RefuseOff, StoreMode,
     StoreLevel, WriteTemp, Rename, StoreFails, ReplyRefused, ReplyAccepted, Stores
<1>2. holder = q /\ \A p \in Requests \ {q} : at[p] \notin Stores
  BY <1>1 DEF RInv, OneHandler
<1>3. \A p \in Requests \ {q} : at'[p] = at[p]
  BY DEF Handle, RefuseUntouched, StoreLocales, StoreOff, RefuseOff, StoreMode,
     StoreLevel, WriteTemp, Rename, StoreFails, ReplyRefused, ReplyAccepted, Goto, Return,
     RInv, TypeOK
<1>4. want' = want /\ before' = before /\ env' = env
  BY DEF Handle, RefuseUntouched, StoreLocales, StoreOff, RefuseOff, StoreMode,
     StoreLevel, WriteTemp, Rename, StoreFails, ReplyRefused, ReplyAccepted, surfaceVars
<1> QED BY <1>1, <1>2, <1>3, <1>4, PolicyAssumption

\* What one step of q's handler does to where it is and to what it noted.
LEMMA HandlerMoves ==
  ASSUME RInv, NEW q \in Requests, Handle(q)
  PROVE  \/ RefuseUntouched(q) /\ at[q] = "locales" /\ at'[q] = "refused"
            /\ UNCHANGED <<refused, changed, applied>>
         \/ StoreLocales(q) /\ at[q] = "locales" /\ at'[q] = "off"
            /\ UNCHANGED <<refused, changed>>
         \/ StoreOff(q) /\ at[q] = "off" /\ at'[q] = "substitution"
            /\ UNCHANGED <<refused, changed, applied>>
         \/ RefuseOff(q) /\ at[q] = "off" /\ refused'[q]
            /\ at'[q] = (IF applied[q] THEN "persist" ELSE "reply")
            /\ UNCHANGED <<changed, applied>>
         \/ StoreMode(q) /\ at[q] = "substitution" /\ at'[q] = "level"
            /\ UNCHANGED <<refused, applied>>
         \/ StoreLevel(q) /\ at[q] = "level"
            /\ at'[q] = (IF applied[q] THEN "persist" ELSE "reply")
            /\ UNCHANGED <<refused, changed, applied>>
         \/ WriteTemp(q) /\ at[q] = "persist" /\ at'[q] = "rename"
            /\ UNCHANGED <<refused, changed, applied>>
         \/ Rename(q) /\ at[q] = "rename" /\ at'[q] = "reply"
            /\ UNCHANGED <<refused, changed, applied>>
         \/ StoreFails(q) /\ at[q] \in {"persist", "rename"} /\ at'[q] = "reply"
            /\ UNCHANGED <<refused, changed, applied>>
         \/ ReplyRefused(q) /\ at[q] = "reply" /\ at'[q] = "refused"
            /\ UNCHANGED <<refused, changed, applied>>
         \/ ReplyAccepted(q) /\ at[q] = "reply" /\ at'[q] = "accepted"
            /\ UNCHANGED <<refused, changed, applied>>
<1>1. /\ at \in [Requests -> Stores \union Answers \union {"unsent", "waiting"}]
      /\ refused \in [Requests -> BOOLEAN]
  BY DEF RInv, TypeOK
<1> USE <1>1
<1>2. CASE RefuseUntouched(q) \/ ReplyRefused(q) \/ ReplyAccepted(q)
  BY <1>2 DEF RefuseUntouched, ReplyRefused, ReplyAccepted, Return, Goto
<1>3. CASE StoreLocales(q) \/ StoreOff(q) \/ StoreMode(q)
  BY <1>3 DEF StoreLocales, StoreOff, StoreMode, Goto
<1>4. CASE RefuseOff(q) \/ StoreLevel(q)
  BY <1>4 DEF RefuseOff, StoreLevel, AfterApply, Goto
<1>5. CASE WriteTemp(q) \/ Rename(q) \/ StoreFails(q)
  BY <1>5 DEF WriteTemp, Rename, StoreFails, Goto
<1> QED BY <1>2, <1>3, <1>4, <1>5 DEF Handle

LEMMA FromBeforeHandle ==
  ASSUME HInv, NEW q \in Requests, Handle(q)
  PROVE  FromBefore'
<1> DEFINE Part(p) ==
      /\ at[p] = "locales" => live = before[p]
      /\ at[p] = "off" \/ (at[p] \in Afterwards /\ refused[p])
           => live = [before[p] EXCEPT !.locales = want[p].locales]
      /\ at[p] \in Afterwards /\ refused[p] => RefusedCategories(want[p])
      /\ Whole(p) => ~RefusedCategories(want[p])
      /\ at[p] \in UpToMode \/ (at[p] \in Afterwards /\ refused[p])
           => live.substitution = before[p].substitution
      /\ Whole(p) /\ at[p] # "substitution" /\ changed[p]
           => live.substitution # before[p].substitution
<1>1. /\ \A p \in Requests \ {q} : at'[p] = at[p] /\ at[p] \notin Stores
      /\ want' = want /\ before' = before
  BY HandlerAlone DEF HInv
<1>2. \A p \in Requests \ {q} : Part(p)'
  BY <1>1 DEF Whole, Stores, UpToMode, Afterwards
<1>3. Part(q)
  BY DEF HInv, FromBefore
<1>4. /\ live \in Policies /\ before[q] \in Policies
      /\ at[q] \in {"locales", "off"} => ~refused[q]
      /\ Whole(q) => ~refused[q]
      /\ changed \in [Requests -> BOOLEAN]
  BY DEF HInv, RInv, TypeOK, Landed
<1>5. Part(q)'
  <2>1. CASE RefuseUntouched(q) \/ ReplyRefused(q) \/ ReplyAccepted(q)
    <3>1. at'[q] \in {"refused", "accepted"}
      BY <2>1, HandlerMoves DEF HInv, RefuseUntouched, ReplyRefused, ReplyAccepted,
         Return, Goto, RInv, TypeOK
    <3> QED BY <3>1 DEF Whole, UpToMode, Afterwards
  <2>2. CASE StoreLocales(q)
    <3>1. at'[q] = "off" /\ at[q] = "locales" /\ refused' = refused
      BY <2>2 DEF HInv, RInv, TypeOK, StoreLocales, Goto
    <3>2. live' = [before[q] EXCEPT !.locales = want[q].locales]
      BY <1>3, <2>2, <3>1 DEF StoreLocales, Store
    <3>3. live'.substitution = before[q].substitution
      BY <1>4, <3>2 DEF Policies
    <3> QED BY <1>1, <1>4, <3>1, <3>2, <3>3 DEF Whole, UpToMode, Afterwards
  <2>3. CASE StoreOff(q)
    <3>1. /\ at'[q] = "substitution" /\ at[q] = "off" /\ refused' = refused
          /\ ~RefusedCategories(want[q]) /\ live' = [live EXCEPT !["off"] = want[q].off]
      BY <2>3 DEF HInv, RInv, TypeOK, StoreOff, Store, Goto
    <3>2. live'.substitution = before[q].substitution
      BY <1>3, <1>4, <3>1 DEF Policies, UpToMode
    <3> QED BY <1>1, <1>4, <3>1, <3>2 DEF Whole, UpToMode, Afterwards, RefusedCategories
  <2>4. CASE RefuseOff(q)
    <3>1. /\ at'[q] \in {"persist", "reply"} /\ at[q] = "off" /\ refused'[q]
          /\ live' = live /\ RefusedCategories(want[q])
      BY <2>4 DEF HInv, RInv, TypeOK, RefuseOff, AfterApply, Goto
    <3> QED BY <1>1, <1>3, <3>1 DEF Whole, UpToMode, Afterwards, RefusedCategories
  <2>5. CASE StoreMode(q)
    <3>1. /\ at'[q] = "level" /\ at[q] = "substitution" /\ refused' = refused
          /\ changed'[q] = (live.substitution # want[q].substitution)
          /\ live' = [live EXCEPT !["substitution"] = want[q].substitution]
      BY <2>5 DEF HInv, RInv, TypeOK, StoreMode, ModeChanges, Store, Goto
    <3>2. live'.substitution = want[q].substitution
      BY <1>4, <3>1 DEF Policies
    <3> QED BY <1>1, <1>3, <1>4, <3>1, <3>2 DEF Whole, UpToMode, Afterwards, RefusedCategories
  <2>6. CASE StoreLevel(q)
    <3>1. /\ at'[q] \in {"persist", "reply"} /\ at[q] = "level" /\ refused' = refused
          /\ changed' = changed /\ live' = [live EXCEPT !["level"] = want[q].level]
      BY <2>6 DEF HInv, RInv, TypeOK, StoreLevel, AfterApply, Store, Goto
    <3>2. live'.substitution = live.substitution
      BY <1>4, <3>1 DEF Policies
    <3>3. ~refused[q]
      BY <1>4, <3>1 DEF Whole
    <3> QED BY <1>1, <1>3, <3>1, <3>2, <3>3 DEF Whole, UpToMode, Afterwards, RefusedCategories
  <2>7. CASE WriteTemp(q) \/ Rename(q) \/ StoreFails(q)
    <3>1. /\ at[q] \in {"persist", "rename"} /\ at'[q] \in {"rename", "reply"}
          /\ refused' = refused /\ live' = live /\ changed' = changed
      BY <2>7 DEF HInv, RInv, TypeOK, WriteTemp, Rename, StoreFails, Goto
    <3> QED BY <1>1, <1>3, <3>1 DEF Whole, UpToMode, Afterwards, RefusedCategories
  <2> QED BY <2>1, <2>2, <2>3, <2>4, <2>5, <2>6, <2>7 DEF Handle
<1>6. \A p \in Requests : Part(p)'
  BY <1>2, <1>5
<1> QED BY <1>6 DEF FromBefore

LEMMA MappingHandle ==
  ASSUME HInv, NEW q \in Requests, Handle(q)
  PROVE  MappingInv'
<1>1. holder = q /\ q # Nobody
  BY HandlerAlone DEF HInv
<1>2. /\ live \in Policies
      /\ at \in [Requests -> Stores \union Answers \union {"unsent", "waiting"}]
      /\ refused \in [Requests -> BOOLEAN] /\ changed \in [Requests -> BOOLEAN]
      /\ at[q] \in {"locales", "off"} => ~refused[q]
      /\ Whole(q) => ~refused[q]
  BY DEF HInv, RInv, TypeOK, Landed
<1>3. at[q] \in UpToMode \/ refused[q] \/ ~changed[q] => shape \subseteq {live.substitution}
  BY <1>1 DEF HInv, MappingInv, AboutToForget
<1>4. CASE RefuseUntouched(q) \/ ReplyRefused(q)
  <2>1. shape' = shape /\ live' = live /\ (at[q] \in UpToMode \/ refused[q])
    BY <1>4 DEF RefuseUntouched, ReplyRefused, UpToMode
  <2> QED BY <1>3, <2>1 DEF MappingInv
<1>5. CASE ReplyAccepted(q)
  <2>1. live' = live /\ shape' = IF changed[q] THEN {} ELSE shape
    BY <1>5 DEF ReplyAccepted, MappingLeft
  <2> QED BY <1>3, <2>1 DEF MappingInv
<1>6. CASE StoreLocales(q) \/ StoreOff(q)
  <2>1. shape' = shape /\ at[q] \in UpToMode
    BY <1>6 DEF StoreLocales, StoreOff, UpToMode
  <2>2. live'.substitution = live.substitution
    BY <1>2, <1>6 DEF StoreLocales, StoreOff, Store, Policies
  <2> QED BY <1>3, <2>1, <2>2 DEF MappingInv
<1>7. CASE RefuseOff(q)
  <2>1. shape' = shape /\ live' = live /\ at[q] \in UpToMode
    BY <1>7 DEF RefuseOff, UpToMode
  <2> QED BY <1>3, <2>1 DEF MappingInv
<1>8. CASE StoreMode(q)
  <2>1. /\ shape' = shape /\ at[q] \in UpToMode /\ holder' = q /\ at'[q] = "level"
        /\ changed'[q] = (live.substitution # want[q].substitution)
        /\ refused' = refused /\ ~refused[q]
        /\ live'.substitution = want[q].substitution
    BY <1>1, <1>2, <1>8 DEF StoreMode, ModeChanges, Store, Goto, UpToMode, Whole, Policies
  <2> QED BY <1>1, <1>3, <2>1 DEF MappingInv, AboutToForget, UpToMode
<1>9. CASE StoreLevel(q) \/ WriteTemp(q) \/ Rename(q) \/ StoreFails(q)
  <2>1. /\ shape' = shape /\ holder' = q /\ at[q] \notin UpToMode
        /\ at'[q] \notin UpToMode /\ refused' = refused /\ changed' = changed
    BY <1>1, <1>2, <1>9 DEF StoreLevel, WriteTemp, Rename, StoreFails, AfterApply, Goto,
       UpToMode
  <2>2. live'.substitution = live.substitution
    BY <1>2, <1>9 DEF StoreLevel, WriteTemp, Rename, StoreFails, Store, Policies
  <2> QED BY <1>1, <1>3, <2>1, <2>2 DEF MappingInv, AboutToForget
<1> QED BY <1>4, <1>5, <1>6, <1>7, <1>8, <1>9 DEF Handle

\* Only a start forgets that the agent was changed.
LEMMA ToldStays ==
  ASSUME RInv, NEW q \in Requests, Handle(q)
  PROVE  told => told'
<1>1. CASE StoreLocales(q) \/ StoreOff(q) \/ StoreMode(q) \/ StoreLevel(q)
  <2>1. told' = (told \/ live' # live)
    BY <1>1 DEF StoreLocales, StoreOff, StoreMode, StoreLevel, Store
  <2> QED BY <2>1
<1>2. CASE ~(StoreLocales(q) \/ StoreOff(q) \/ StoreMode(q) \/ StoreLevel(q))
  <2>1. told' = told
    BY <1>2 DEF Handle, RefuseUntouched, RefuseOff, WriteTemp, Rename, StoreFails,
       ReplyRefused, ReplyAccepted
  <2> QED BY <2>1
<1> QED BY <1>1, <1>2

LEMMA ToldHandle ==
  ASSUME HInv, NEW q \in Requests, Handle(q)
  PROVE  NotedIsTold'
<1>1. \A p \in Requests \ {q} : at'[p] = at[p] /\ at[p] \notin Stores
  BY HandlerAlone DEF HInv
<1>2. /\ at[q] \in {"off", "substitution", "level"} /\ applied[q] => told
      /\ at[q] \in {"persist", "rename"} => told
  BY DEF HInv, NotedIsTold
<1>3. told => told'
  BY ToldStays DEF HInv
<1>4. CASE StoreLocales(q)
  <2>1. /\ at'[q] = "off" /\ live \in Policies
        /\ applied'[q] = (live.locales # want[q].locales)
        /\ live' = [live EXCEPT !["locales"] = want[q].locales]
        /\ told' = (told \/ live' # live)
    BY <1>4 DEF HInv, RInv, TypeOK, StoreLocales, Store, Touched, Goto
  <2>2. applied'[q] => live' # live
    BY <2>1 DEF Policies
  <2> QED BY <1>1, <2>1, <2>2 DEF NotedIsTold, Stores
<1>5. CASE ~StoreLocales(q)
  <2>1. applied' = applied
    BY <1>5 DEF Handle, RefuseUntouched, StoreOff, RefuseOff, StoreMode,
     StoreLevel, WriteTemp, Rename, StoreFails, ReplyRefused, ReplyAccepted
  <2>2. /\ at'[q] \in {"off", "substitution", "level"} => at[q] \in {"off", "substitution"}
        /\ at'[q] \in {"persist", "rename"} =>
             \/ at[q] = "persist"
             \/ at[q] \in {"off", "level"} /\ applied[q]
    BY <1>5, HandlerMoves DEF HInv
  <2> QED BY <1>1, <1>2, <1>3, <2>1, <2>2 DEF NotedIsTold, Stores
<1> QED BY <1>4, <1>5

LEMMA StoredHandle ==
  ASSUME HInv, NEW q \in Requests, Handle(q)
  PROVE  StoredInv'
<1>1. holder = q /\ q # Nobody /\ env' = env
  BY HandlerAlone DEF HInv
<1>2. /\ live \in Policies
      /\ at \in [Requests -> Stores \union Answers \union {"unsent", "waiting"}]
  BY DEF HInv, RInv, TypeOK
<1>3. ~byHand =>
        /\ file # NoFile => told
        /\ ~(\/ at[q] \in {"off", "substitution", "level"} /\ applied[q]
             \/ at[q] \in {"persist", "rename"}) /\ ~unstored
             => live.locales = StoredLocales
  BY <1>1 DEF HInv, StoredInv, AboutToStore
<1>4. told => told'
  BY ToldStays DEF HInv
<1>5. CASE Rename(q)
  <2>1. /\ file' = [kind |-> "document", doc |-> live] /\ live' = live /\ told' = told
        /\ at[q] = "rename"
    BY <1>5 DEF Rename, ToStore, File
  <2>2. told
    BY <2>1 DEF HInv, NotedIsTold
  <2>3. file' # NoFile
    BY <2>1 DEF NoFile
  <2> QED BY <2>1, <2>2, <2>3 DEF StoredInv, StoredLocales
<1>6. CASE StoreFails(q)
  BY <1>3, <1>4, <1>6 DEF StoreFails, StoredInv
<1>7. CASE StoreLocales(q)
  <2>1. /\ at[q] = "locales" /\ at'[q] = "off" /\ holder' = q
        /\ applied'[q] = (live.locales # want[q].locales)
        /\ live'.locales = want[q].locales
        /\ UNCHANGED <<file, byHand, unstored>>
    BY <1>1, <1>2, <1>7 DEF HInv, RInv, TypeOK, StoreLocales, Store, Touched, Goto, Policies,
       fileVars
  <2> QED BY <1>1, <1>3, <1>4, <2>1 DEF StoredInv, AboutToStore, StoredLocales
<1>8. CASE RefuseUntouched(q) \/ ReplyRefused(q) \/ ReplyAccepted(q)
  <2>1. /\ at[q] \in {"locales", "reply"} /\ live' = live
        /\ UNCHANGED <<file, byHand, unstored>>
    BY <1>8 DEF RefuseUntouched, ReplyRefused, ReplyAccepted, fileVars
  <2> QED BY <1>1, <1>3, <1>4, <2>1 DEF StoredInv, StoredLocales
<1>9. CASE StoreOff(q) \/ RefuseOff(q) \/ StoreMode(q) \/ StoreLevel(q) \/ WriteTemp(q)
  <2>1. /\ holder' = q /\ live'.locales = live.locales /\ applied' = applied
        /\ UNCHANGED <<file, byHand, unstored>>
    BY <1>1, <1>2, <1>9 DEF StoreOff, RefuseOff, StoreMode, StoreLevel, WriteTemp, WhileWriting,
       Store, Policies, fileVars
  <2>2. (\/ at[q] \in {"off", "substitution", "level"} /\ applied[q]
         \/ at[q] \in {"persist", "rename"})
        => (\/ at'[q] \in {"off", "substitution", "level"} /\ applied[q]
            \/ at'[q] \in {"persist", "rename"})
    BY <1>2, <1>9 DEF StoreOff, RefuseOff, StoreMode, StoreLevel, WriteTemp, Goto, AfterApply
  <2> QED BY <1>1, <1>3, <1>4, <2>1, <2>2 DEF StoredInv, AboutToStore, StoredLocales
<1> QED BY <1>5, <1>6, <1>7, <1>8, <1>9 DEF Handle

-----------------------------------------------------------------------------
(* The invariant. *)

LEMMA HInvStep == HInv /\ [Next]_vars => HInv'
<1> SUFFICES ASSUME HInv, [Next]_vars PROVE HInv'
  OBVIOUS
<1>1. RInv'
  BY TypeStep, OneHandlerStep, LandedStep, LockedStep, StoredStep DEF HInv, RInv
<1>2. ASSUME NEW q \in Requests, Handle(q) PROVE HInv'
  BY <1>1, <1>2, FromBeforeHandle, MappingHandle, ToldHandle, StoredHandle DEF HInv
<1>3. CASE UNCHANGED vars \/ \E s \in Surfaces : Poll(s) \/ ReadPart(s)
  BY <1>1, <1>3, QuietStep DEF vars, Poll, ReadPart, fileVars, surfaceVars
<1> QED BY <1>1, <1>2, <1>3, AskStep, TakeStep, MintStep, HandEditStep, RestartStep
     DEF Next, Surface

LEMMA HInvHolds == Spec => []HInv
BY HInvInit, HInvStep, PTL DEF Spec

-----------------------------------------------------------------------------
(* Theorems. *)

\* Between requests the mapping holds nothing of the mode before: a change of
\* mode drops it before the lock is given back (handlePolicy, vault.Forget).
THEOREM MappingIsOfTheMode == Spec => []MappingFollowsMode
<1>1. HInv => MappingFollowsMode
  BY DEF HInv, MappingInv, AboutToForget, MappingFollowsMode
<1> QED BY <1>1, HInvHolds, PTL

\* The countries in the file are those of the agent, and there is no file before
\* there is a change to store (applyPolicy's applied, persistPolicy).
THEOREM LocalesAreStored == Spec => []StoredLocalesCurrent
<1>1. HInv => StoredLocalesCurrent
  BY DEF HInv, StoredInv, AboutToStore, StoredLocales, StoredLocalesCurrent
<1> QED BY <1>1, HInvHolds, PTL

\* What one step of a handler makes of the state between requests.
LEMMA SettledHandle ==
  ASSUME HInv, NEW q \in Requests, Handle(q), Settled' # Settled
  PROVE  Settled' = Applied(Settled, want[q])
<1>1. holder = q /\ q # Nobody /\ before' = before
  BY HandlerAlone DEF HInv
<1>2. Settled = before[q]
  BY <1>1 DEF Settled
<1>3. /\ live \in Policies /\ want[q] \in Documents /\ before[q] \in Policies
  BY DEF HInv, RInv, TypeOK
<1>4. CASE RefuseUntouched(q)
  <2>1. Settled' = live /\ at[q] = "locales"
    BY <1>4 DEF RefuseUntouched, Return, Settled
  <2> QED BY <1>2, <2>1 DEF HInv, FromBefore
<1>5. CASE ReplyRefused(q) \/ ReplyAccepted(q)
  <2>1. Settled' = live /\ at[q] = "reply"
    BY <1>5 DEF ReplyRefused, ReplyAccepted, Return, Settled
  <2>2. ~Unparsed(want[q]) /\ ~UnknownLocale(want[q])
    BY <2>1 DEF HInv, RInv, Landed, Stores
  <2>3. CASE refused[q]
    <3>1. /\ live = [before[q] EXCEPT !.locales = want[q].locales]
          /\ RefusedCategories(want[q])
      BY <2>1, <2>3 DEF HInv, FromBefore, Afterwards
    <3>2. Applied(before[q], want[q]) = [before[q] EXCEPT !.locales = want[q].locales]
      BY <2>2, <3>1 DEF Applied
    <3> QED BY <1>2, <2>1, <3>1, <3>2
  <2>4. CASE ~refused[q]
    <3>1. Whole(q)
      BY <2>1, <2>4 DEF Whole
    <3>2. ~RefusedCategories(want[q])
      BY <3>1 DEF HInv, FromBefore
    <3>3. Applied(before[q], want[q]) = want[q]
      BY <2>2, <3>2 DEF Applied
    <3>4. /\ live.off = want[q].off /\ live.locales = want[q].locales
          /\ live.substitution = want[q].substitution /\ live.level = want[q].level
      BY <2>1, <3>1 DEF HInv, RInv, Landed, Stores
    <3>5. live = [off |-> live.off, locales |-> live.locales,
                  substitution |-> live.substitution, level |-> live.level]
      BY <1>3 DEF Policies
    <3>6. want[q] = [off |-> want[q].off, locales |-> want[q].locales,
                     substitution |-> want[q].substitution, level |-> want[q].level]
      BY <1>3 DEF Documents
    <3> QED BY <1>2, <2>1, <3>3, <3>4, <3>5, <3>6
  <2> QED BY <2>3, <2>4
<1>6. CASE ~(RefuseUntouched(q) \/ ReplyRefused(q) \/ ReplyAccepted(q))
  <2>1. holder' = holder
    BY <1>6 DEF Handle, StoreLocales, StoreOff, RefuseOff, StoreMode, StoreLevel,
       WriteTemp, Rename, StoreFails
  <2> QED BY <1>1, <2>1 DEF Settled
<1> QED BY <1>4, <1>5, <1>6

\* Seen between requests, the policy moves to what one request makes of it or to
\* what a start reads: no interleaving of two handlers is ever left behind.
THEOREM RequestsTakeEffectInTurn == Spec => OneRequestAtATime
<1>1. HInv /\ [Next]_vars =>
        (Settled' # Settled =>
           \/ restarts' # restarts /\ Settled' = Started(file)
           \/ \E q \in Requests : Settled' = Applied(Settled, want[q]))
  <2> SUFFICES ASSUME HInv, [Next]_vars, Settled' # Settled
               PROVE  \/ restarts' # restarts /\ Settled' = Started(file)
                      \/ \E q \in Requests : Settled' = Applied(Settled, want[q])
    OBVIOUS
  <2>1. CASE Restart
    <3>1. Settled' = Started(file)
      BY <2>1 DEF Restart, Settled
    <3>2. restarts' # restarts
      BY <2>1 DEF Restart, HInv, RInv, TypeOK
    <3> QED BY <3>1, <3>2
  <2>2. ASSUME NEW q \in Requests, Take(q) PROVE FALSE
    <3>1. before'[q] = live /\ holder' = q /\ holder = Nobody
      BY <2>2 DEF Take, MutexFree, HInv, RInv, TypeOK
    <3> QED BY <3>1, PolicyAssumption DEF Settled
  <2>3. CASE UNCHANGED vars \/ Mint \/ HandEdit \/ \E s \in Surfaces : Surface(s)
    BY <2>3 DEF vars, handlerVars, Mint, HandEdit, Surface, Poll, ReadPart, Ask, Settled
  <2>4. ASSUME NEW q \in Requests, Handle(q)
        PROVE  Settled' = Applied(Settled, want[q])
    BY <2>4, SettledHandle
  <2> QED BY <2>1, <2>2, <2>3, <2>4 DEF Next
<1> QED BY <1>1, HInvHolds, PTL DEF Spec, OneRequestAtATime

\* A request that resends the mode the agent is in forgets nothing: only a handler
\* that found another mode drops the mapping (policy.go, modeChanged).
THEOREM NothingElseForgets == Spec => OnlyAModeChangeForgets
<1>1. HInv /\ [Next]_vars =>
        (\/ shape \subseteq shape'
         \/ restarts' # restarts
         \/ before[holder].substitution # live.substitution)
  <2> SUFFICES ASSUME HInv, [Next]_vars, ~(shape \subseteq shape'), restarts' = restarts
               PROVE  before[holder].substitution # live.substitution
    OBVIOUS
  <2>1. PICK q \in Requests : ReplyAccepted(q)
    <3>1. ~Restart
      BY DEF Restart, HInv, RInv, TypeOK
    <3> QED BY <3>1 DEF Next, vars, Mint, HandEdit, Surface, Poll, ReadPart, Ask, Take, Handle,
            RefuseUntouched, StoreLocales, StoreOff, RefuseOff, StoreMode, StoreLevel,
            WriteTemp, Rename, StoreFails, ReplyRefused
  <2>2. holder = q /\ at[q] = "reply" /\ ~refused[q] /\ changed[q]
    BY <2>1 DEF HInv, RInv, OneHandler, Stores, ReplyAccepted, MappingLeft
  <2> QED BY <2>2 DEF HInv, FromBefore, Whole
<1> QED BY <1>1, HInvHolds, PTL DEF Spec, OnlyAModeChangeForgets

-----------------------------------------------------------------------------
(* A click on one part. *)

\* What a surface that is not stale has read is what the agent is, and a request
\* made from such a view asks for the state its handler finds, but for one part.
Current ==
  /\ \A s \in Surfaces \ stale : \A i \in 1..4 :
       i > reading[s] => view[s][Parts[i]] = live[Parts[i]]
  /\ \A q \in Requests : at[q] \in Stores \union {"waiting"} => edited[q][1] \in Surfaces
  /\ \A q \in Requests \ stale : \A i \in 1..4 : Parts[i] # edited[q][2] =>
       /\ at[q] = "waiting" => want[q][Parts[i]] = live[Parts[i]]
       /\ at[q] \in Stores => want[q][Parts[i]] = before[q][Parts[i]]

CInv == RInv /\ Current

LEMMA CurrentSurface ==
  ASSUME CInv, NEW s \in Surfaces, Surface(s)
  PROVE  Current'
<1> USE PolicyAssumption
<1>1. /\ reading \in [Surfaces -> 0..4] /\ view \in [Surfaces -> Policies]
      /\ want \in [Requests -> Documents] /\ live \in Policies
      /\ at \in [Requests -> Stores \union Answers \union {"unsent", "waiting"}]
      /\ edited \in [Requests -> (Surfaces \X {Parts[j] : j \in 1..4}) \union {<<>>}]
  BY DEF CInv, RInv, TypeOK
<1>2. CASE Poll(s)
  <2>1. /\ UNCHANGED <<live, view, want, edited, at, before>>
        /\ reading' = [reading EXCEPT ![s] = 4] /\ stale' = stale \ {s}
    BY <1>2 DEF Poll, handlerVars
  <2>2. \A r \in Surfaces \ stale' : \A i \in 1..4 :
          i > reading'[r] => view'[r][Parts[i]] = live'[Parts[i]]
    BY <1>1, <2>1 DEF CInv, Current
  <2>3. \A q \in Requests \ stale' : q \in Requests \ stale
    BY <2>1
  <2> QED BY <2>1, <2>2, <2>3 DEF CInv, Current
<1>3. CASE ReadPart(s)
  <2> DEFINE n == reading[s]
  <2>1. /\ UNCHANGED <<live, stale, want, edited, at, before>>
        /\ n \in 1..4 /\ reading' = [reading EXCEPT ![s] = n - 1]
        /\ view' = [view EXCEPT ![s] = [view[s] EXCEPT ![Parts[n]] = live[Parts[n]]]]
    BY <1>1, <1>3 DEF ReadPart, Reported, handlerVars
  <2>2. ASSUME NEW i \in 1..4, i > n - 1, s \notin stale
        PROVE  view'[s][Parts[i]] = live[Parts[i]]
    <3>1. CASE i = n
      <4>1. Parts[n] \in DOMAIN view[s]
        BY <1>1, <2>1, PartsFacts DEF Policies
      <4> QED BY <1>1, <2>1, <3>1, <4>1
    <3>2. CASE i # n
      <4>1. Parts[i] # Parts[n] /\ i > n
        BY <2>1, <2>2, <3>2, PartsFacts
      <4>2. Parts[i] \in DOMAIN view[s]
        BY <1>1, PartsFacts DEF Policies
      <4>3. view[s][Parts[i]] = live[Parts[i]]
        BY <2>2, <4>1 DEF CInv, Current
      <4> QED BY <1>1, <2>1, <4>1, <4>2, <4>3
    <3> QED BY <3>1, <3>2
  <2>3. \A r \in Surfaces \ stale' : \A i \in 1..4 :
          i > reading'[r] => view'[r][Parts[i]] = live'[Parts[i]]
    BY <1>1, <2>1, <2>2 DEF CInv, Current
  <2> QED BY <2>1, <2>3 DEF CInv, Current
<1>4. ASSUME NEW q \in Requests, NEW j \in 1..4, Ask(s, q, Parts[j])
      PROVE  Current'
  <2>1. PICK x : want' = [want EXCEPT ![q] = [view[s] EXCEPT ![Parts[j]] = x]]
    BY <1>4 DEF Ask
  <2>2. /\ UNCHANGED <<live, view, reading, before>> /\ reading[s] = 0
        /\ at[q] = "unsent" /\ at' = [at EXCEPT ![q] = "waiting"]
        /\ edited' = [edited EXCEPT ![q] = <<s, Parts[j]>>]
        /\ stale' = IF s \in stale THEN stale \union {q} ELSE stale \ {q}
    BY <1>4 DEF Ask
  <2>3. \A r \in Surfaces : r \in stale' <=> r \in stale
    BY <2>2
  <2>4. \A p \in Requests \ {q} :
          /\ p \in stale' <=> p \in stale
          /\ at'[p] = at[p] /\ want'[p] = want[p] /\ edited'[p] = edited[p]
    BY <1>1, <2>1, <2>2
  <2>5. /\ edited'[q][1] = s /\ edited'[q][2] = Parts[j] /\ at'[q] = "waiting"
        /\ want'[q] = [view[s] EXCEPT ![Parts[j]] = x]
    BY <1>1, <2>1, <2>2
  <2>6. ASSUME q \notin stale', NEW i \in 1..4, Parts[i] # Parts[j]
        PROVE  want'[q][Parts[i]] = live[Parts[i]]
    <3>1. s \notin stale
      BY <2>2, <2>6
    <3>2. view[s][Parts[i]] = live[Parts[i]]
      BY <2>2, <3>1 DEF CInv, Current
    <3>3. Parts[i] \in DOMAIN view[s]
      BY <1>1, PartsFacts DEF Policies
    <3> QED BY <2>5, <2>6, <3>2, <3>3
  <2>7. \A r \in Surfaces \ stale' : \A i \in 1..4 :
          i > reading'[r] => view'[r][Parts[i]] = live'[Parts[i]]
    BY <2>2, <2>3 DEF CInv, Current
  <2>8. \A p \in Requests : at'[p] \in Stores \union {"waiting"} => edited'[p][1] \in Surfaces
    BY <2>4, <2>5 DEF CInv, Current
  <2>9. ASSUME NEW p \in Requests \ stale', NEW i \in 1..4, Parts[i] # edited'[p][2]
        PROVE  /\ at'[p] = "waiting" => want'[p][Parts[i]] = live'[Parts[i]]
               /\ at'[p] \in Stores => want'[p][Parts[i]] = before'[p][Parts[i]]
    <3>1. CASE p = q
      BY <2>2, <2>5, <2>6, <2>9, <3>1 DEF Stores
    <3>2. CASE p # q
      BY <2>2, <2>4, <2>9, <3>2 DEF CInv, Current
    <3> QED BY <3>1, <3>2
  <2> QED BY <2>7, <2>8, <2>9 DEF Current
<1> QED BY <1>2, <1>3, <1>4 DEF Surface

LEMMA CurrentHandle ==
  ASSUME CInv, NEW q \in Requests, Handle(q)
  PROVE  Current'
<1> USE PolicyAssumption
<1>1. /\ \A p \in Requests \ {q} : at'[p] = at[p] /\ at[p] \notin Stores
      /\ want' = want /\ before' = before /\ at[q] \in Stores
  BY HandlerAlone DEF CInv
<1>2. edited' = edited /\ at'[q] \in Stores \union Answers
  BY HandlerMoves DEF CInv, Handle, RefuseUntouched, StoreLocales, StoreOff, RefuseOff,
     StoreMode, StoreLevel, WriteTemp, Rename, StoreFails, ReplyRefused, ReplyAccepted,
     surfaceVars, Stores, Answers
<1>3. at'[q] # "waiting"
  BY <1>2 DEF Stores, Answers
<1>4. CASE ReplyAccepted(q)
  <2> DEFINE s == edited[q][1]
  <2>1. s \in Surfaces
    BY <1>1 DEF CInv, Current
  <2>2. live' = live
    BY <1>4 DEF ReplyAccepted
  <2>3. \/ /\ view' = [view EXCEPT ![s] = live] /\ reading' = [reading EXCEPT ![s] = 0]
           /\ stale' = stale \ {s}
        \/ UNCHANGED <<view, reading, stale>>
    BY <1>4 DEF ReplyAccepted
  <2>4. \A p \in Requests : p \in stale' <=> p \in stale
    BY <2>1, <2>3
  <2>5. view \in [Surfaces -> Policies] /\ reading \in [Surfaces -> 0..4]
    BY DEF CInv, RInv, TypeOK
  <2>6. \A r \in Surfaces \ stale' : \A i \in 1..4 :
          i > reading'[r] => view'[r][Parts[i]] = live'[Parts[i]]
    BY <2>1, <2>2, <2>3, <2>5 DEF CInv, Current
  <2> QED BY <1>1, <1>2, <1>3, <2>2, <2>4, <2>6 DEF CInv, Current
<1>5. CASE ~ReplyAccepted(q)
  <2>1. /\ view' = view /\ reading' = reading
        /\ \/ live' = live /\ stale' = stale
           \/ stale' = stale \union Surfaces \union (Requests \ {q})
    BY <1>5 DEF Handle, RefuseUntouched, StoreLocales, StoreOff, RefuseOff,
       StoreMode, StoreLevel, WriteTemp, Rename, StoreFails, ReplyRefused, Store, surfaceVars
  <2> QED BY <1>1, <1>2, <1>3, <2>1 DEF CInv, Current
<1> QED BY <1>4, <1>5

LEMMA CInvHolds == Spec => []CInv
<1>1. Init => CInv
  BY RInvInit DEF CInv, Current, Init, Stores
<1>2. CInv /\ [Next]_vars => CInv'
  <2> SUFFICES ASSUME CInv, [Next]_vars PROVE CInv'
    OBVIOUS
  <2>1. RInv'
    BY TypeStep, OneHandlerStep, LandedStep, LockedStep, StoredStep DEF CInv, RInv
  <2>2. ASSUME NEW q \in Requests, Take(q) PROVE Current'
    <3>1. /\ UNCHANGED <<live, view, reading, want, edited, stale>>
          /\ at[q] = "waiting" /\ at'[q] = "locales" /\ before'[q] = live
          /\ \A p \in Requests \ {q} : at'[p] = at[p] /\ before'[p] = before[p]
      BY <2>2 DEF Take, Goto, surfaceVars, CInv, RInv, TypeOK
    <3> QED BY <3>1 DEF CInv, Current, Stores
  <2>3. CASE Restart
    <3>1. stale' = Surfaces \union Requests /\ \A q \in Requests : at'[q] \notin Stores \union {"waiting"}
      BY <2>3 DEF Restart, Stores, Answers
    <3> QED BY <2>1, <3>1 DEF CInv, Current
  <2>4. CASE UNCHANGED vars \/ Mint \/ HandEdit
    <3>1. UNCHANGED <<live, view, reading, want, edited, stale, at, before>>
      BY <2>4 DEF vars, Mint, HandEdit, surfaceVars, handlerVars
    <3> QED BY <2>1, <3>1 DEF CInv, Current
  <2> QED BY <2>1, <2>2, <2>3, <2>4, CurrentSurface, CurrentHandle DEF Next, CInv
<1> QED BY <1>1, <1>2, PTL DEF Spec

\* A click on one part, made from a view of the present, changes that part alone,
\* however the view was put together (healthNow, policyFrom).
THEOREM OneClickOnePart == Spec => []OnlyTheClickedPart
<1>1. CInv => OnlyTheClickedPart
  <2> SUFFICES ASSUME CInv, NEW q \in Requests, at[q] = "reply", ~refused[q], q \notin stale,
                      NEW i \in 1..4, Parts[i] # edited[q][2]
               PROVE  live[Parts[i]] = before[q][Parts[i]]
    BY DEF OnlyTheClickedPart
  <2>1. want[q][Parts[i]] = before[q][Parts[i]]
    BY DEF CInv, Current, Stores
  <2>2. /\ live.off = want[q].off /\ live.locales = want[q].locales
        /\ live.substitution = want[q].substitution /\ live.level = want[q].level
    BY DEF CInv, RInv, Landed, Whole, Stores
  <2>3. i = 1 \/ i = 2 \/ i = 3 \/ i = 4
    OBVIOUS
  <2>4. live[Parts[i]] = want[q][Parts[i]]
    BY <2>2, <2>3, PartsFacts
  <2> QED BY <2>1, <2>4
<1> QED BY <1>1, CInvHolds, PTL
=============================================================================
