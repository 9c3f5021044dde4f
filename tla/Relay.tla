-------------------------------- MODULE Relay --------------------------------
(***************************************************************************)
(* The browser extension (extension/src) and the two routes of the agent   *)
(* it uses (internal/proxy/extension.go).  A page wraps its fetch: what is *)
(* typed is sent to the agent to be masked, and the events of a streamed   *)
(* answer are sent to it one by one to be restored.  Each such ask goes    *)
(* from the page to a relay, which names the session from the address bar, *)
(* to a worker, to the agent and all the way back, and any of them may     *)
(* fail or never answer: the page waits for a bounded time.                *)
(*                                                                         *)
(* A text is a sequence of pieces.  The token of index n is two pieces,    *)
(* Open and Close(n), so that an answer can cut it; an original put back   *)
(* is one piece that says which index it was put back for.                 *)
(***************************************************************************)
EXTENDS Integers, SequencesExt

CONSTANTS
  MaxCalls,    \* bound: the calls of fetch in one life of the page, by number
  Typeable,    \* what each call may carry: one sensitive value
  Convs,       \* the conversations the site has or will give an id
  Shapes,      \* what the answer of each call may look like: see Echo
  MaxMoves,    \* bound: how often the address bar changes
  MaxLate      \* bound: the asks given up that are still under way

None == "none"
New == "new"      \* the address of a chat that has no id yet
Page == "page"    \* the session of this page load, for such a chat

Calls == 1..MaxCalls

ASSUME NamesAssumption == {New, Page, None} \cap Convs = {}
ASSUME CallsAssumption == DOMAIN Typeable = Calls /\ \A c \in Calls : None \notin Typeable[c]
ASSUME MovesAssumption == MaxMoves \in Nat

Addresses == Convs \union {New}
Sessions == Convs \union {Page}

Piece(kind, index, value) == [kind |-> kind, index |-> index, value |-> value]
Word == Piece("word", 0, None)
Open == Piece("open", 0, None)
Close(n) == Piece("close", n, None)
Stop == Piece("stop", 0, None)
Ping == Piece("ping", 0, None)
Original(n, v) == Piece("value", n, v)

\* An event of an answer: generated text, a keep-alive (or one without a data line),
\* or one with neither (or with a payload that cannot be read).
Delta(text) == [kind |-> "delta", text |-> text]
PingEvent == [kind |-> "ping", text |-> <<Ping>>]
StopEvent == [kind |-> "stop", text |-> <<Stop>>]

\* What a site generates: text and tokens, none of which is an original.
Generated == [kind : {"word", "open", "close"}, index : Nat, value : {None}]
Event == [kind : {"delta"}, text : Seq(Generated)] \union {PingEvent, StopEvent}

\* An answer, the last event of it perhaps without the blank line that ends it.
Shape == [events : Seq(Event), unended : BOOLEAN]

ASSUME ShapesAssumption == \A c \in Calls : Shapes[c] \subseteq Shape

Raw(events) == FlattenSeq([i \in DOMAIN events |-> events[i].text])

-----------------------------------------------------------------------------
VARIABLES
  addr,      \* the address bar
  moves,     \* how often it changed
  calls,     \* the calls of fetch and the streams they return
  nextId,    \* the id of the next ask
  waiting,   \* the asks the page waits for, with the call each belongs to
  asks,      \* the asks between the page and the agent, and the replies
  known,     \* the agent's mapping of every session
  counter,   \* the agent's index counter
  said       \* the indexes the site has in each conversation

vars == <<addr, moves, calls, nextId, waiting, asks, known, counter, said>>
agent == <<known, counter>>
tab == <<addr, moves>>

\* What every index stands for, in whichever session.
Minted == [n \in UNION {DOMAIN known[s] : s \in Sessions} |->
             known[CHOOSE s \in Sessions : n \in DOMAIN known[s]][n]]

Init ==
  /\ addr = New
  /\ moves = 0
  /\ calls = [c \in Calls |->
       [stage |-> "idle", conv |-> None, typed |-> None, ask |-> 0, sent |-> <<>>,
        answer |-> <<>>, rest |-> <<>>, unended |-> FALSE, tail |-> <<>>, shown |-> <<>>,
        joined |-> FALSE, under |-> {}]]
  /\ nextId = 1
  /\ waiting = <<>>
  /\ asks = {}
  /\ known = [s \in Sessions |-> <<>>]
  /\ counter = 0
  /\ said = [k \in Convs |-> {}]

-----------------------------------------------------------------------------
(* The page: asking, and being answered. *)

Put(f, x, y) == [z \in DOMAIN f \union {x} |-> IF z = x THEN y ELSE f[z]]
Without(f, x) == [z \in DOMAIN f \ {x} |-> f[z]]

\* send: the ask is given an id and waited for.
Asked(c, update, masking, body, final) ==
  /\ calls' = [calls EXCEPT ![c] = [update EXCEPT !.ask = nextId]]
  /\ waiting' = Put(waiting, nextId, c)
  /\ nextId' = nextId + 1
  /\ asks' = asks \union
       {[id |-> nextId, masking |-> masking, body |-> body, final |-> final,
         session |-> None, stage |-> "posted", ok |-> FALSE,
         back |-> <<>>, tail |-> <<>>]}

\* The next call of fetch.
Idle(c) == calls[c].stage = "idle" /\ \A d \in 1..c - 1 : calls[d].stage # "idle"

\* Ids the site has not given yet.
FreshIds == {k \in Convs : said[k] = {} /\ \A c \in Calls : calls[c].conv # k}

\* neverseenFetch on a completion: what is typed is sent to be masked.
Send(c, v) ==
  /\ Idle(c)
  /\ addr = New => FreshIds # {}
  /\ Asked(c, [calls[c] EXCEPT !.stage = "masking", !.typed = v,
                               !.conv = IF addr = New THEN CHOOSE k \in FreshIds : TRUE
                                        ELSE addr],
           TRUE, <<Original(0, v)>>, FALSE)
  /\ UNCHANGED <<tab, agent, said>>

\* neverseenFetch on a retry_completion: nothing typed, so nothing to mask.
Retry(c) ==
  /\ Idle(c) /\ addr # New /\ said[addr] # {}
  /\ calls' = [calls EXCEPT ![c].stage = "sent", ![c].conv = addr]
  /\ UNCHANGED <<tab, agent, said, nextId, waiting, asks>>

\* A body that cannot be read or has no known field, or a transport that cannot
\* be masked.
Refuse(c) ==
  /\ Idle(c)
  /\ calls' = [calls EXCEPT ![c].stage = "blocked"]
  /\ UNCHANGED <<tab, agent, said, nextId, waiting, asks>>

\* restore, when an ask fails: the text passes as it arrived, nothing is held.
PassedThrough(ask) == [expanded |-> ask.body, tail |-> <<>>]

\* rewrite and release: the chunk that was asked about is handed to the page.
\* Behind what was held back comes the event that made it go out.  What flush releases
\* behind an event that never ended is written onto that event: the page can read
\* neither.
Shown(call, ask, ok) ==
  LET got == IF ok THEN [expanded |-> ask.back, tail |-> ask.tail] ELSE PassedThrough(ask)
      released == ask.final /\ call.rest # <<>>
      joined == ask.final /\ call.rest = <<>> /\ call.unended /\ got.expanded # <<>>
  IN  [call EXCEPT
         !.ask = 0,
         !.joined = joined,
         !.shown = @ \o (IF joined THEN <<>> ELSE got.expanded) \o (IF released THEN Head(call.rest).text ELSE <<>>),
         !.tail = IF ask.final THEN <<>> ELSE got.tail,
         !.rest = IF @ = <<>> THEN @ ELSE Tail(@),
         !.under = @ \union {IF ok THEN ask.session ELSE None}]

\* The ask resolves in the call that made it: the send goes out masked or is
\* refused, or the stream goes on.
Resolved(c, ask, ok) ==
  IF ~ask.masking
  THEN calls' = [calls EXCEPT ![c] = Shown(@, ask, ok)] /\ said' = said
  ELSE IF ok
  THEN /\ calls' = [calls EXCEPT ![c].stage = "sent", ![c].ask = 0, ![c].sent = ask.back]
       /\ said' = [said EXCEPT ![calls[c].conv] = @ \union {ask.back[2].index}]
  ELSE calls' = [calls EXCEPT ![c].stage = "blocked", ![c].ask = 0] /\ said' = said

\* Mutant: a reply settles whichever ask has waited longest.
WaiterOldest(ask) == {id \in DOMAIN waiting : \A other \in DOMAIN waiting : id <= other}

\* The listener's waiting.get: the ask the reply carries the id of, if it still waits.
Waiter(ask) == {ask.id} \cap DOMAIN waiting

\* A reply reaches the page.
Settle(ask) ==
  /\ ask.stage = "answered"
  /\ asks' = asks \ {ask}
  /\ \/ /\ Waiter(ask) = {}
        /\ UNCHANGED <<calls, waiting, said>>
     \/ \E id \in Waiter(ask) :
          /\ Resolved(waiting[id], ask, ask.ok)
          /\ waiting' = Without(waiting, id)
  /\ UNCHANGED <<tab, agent, nextId>>

\* Mutant: the entry of an ask that was given up stays.
GivenUpKept(id) == waiting

\* What waits when the page has given an ask up.
GivenUp(id) == Without(waiting, id)

\* Mutant: the time-out only clears the entry.
ResolveNothing(c, ask) == UNCHANGED <<calls, said>>

\* What a call is told at the time-out.
ResolveUnreachable(c, ask) == Resolved(c, ask, FALSE)

\* ASK_TIMEOUT_MS passed.  The ask itself goes on and its reply comes late, or
\* never.
Timeout(id) ==
  /\ id \in DOMAIN waiting
  /\ \E ask \in asks :
       /\ ask.id = id
       /\ ResolveUnreachable(waiting[id], ask)
       /\ asks' = IF Cardinality(asks) - Cardinality(DOMAIN waiting) < MaxLate
                   THEN asks ELSE asks \ {ask}
  /\ waiting' = GivenUp(id)
  /\ UNCHANGED <<tab, agent, nextId>>

-----------------------------------------------------------------------------
(* The page: a streamed answer. *)

\* An answer echoes a token of the conversation where its shape says so.
Echo(events, n) ==
  LET written(p) == IF p.kind = "close" THEN Close(n) ELSE p
      text(i) == [j \in DOMAIN events[i].text |-> written(events[i].text[j])]
  IN  [i \in DOMAIN events |-> [kind |-> events[i].kind, text |-> text(i)]]

\* The site answers with a stream of events, or with something else that is
\* returned as it is.
Respond(c) ==
  /\ calls[c].stage = "sent"
  /\ \/ \E shape \in Shapes[c], n \in said[calls[c].conv] :
          calls' = [calls EXCEPT ![c].stage = "streaming", ![c].unended = shape.unended,
                                 ![c].answer = Echo(shape.events, n),
                                 ![c].rest = Echo(shape.events, n)]
     \/ calls' = [calls EXCEPT ![c].stage = "done"]
  /\ UNCHANGED <<tab, agent, said, nextId, waiting, asks>>

\* Mutant: a keep-alive is an event like another.
NoKeepAlive(event) == FALSE

IsKeepAlive(event) == event.kind = "ping"

\* rewrite: text is sent to be expanded behind what is held; any other event but a
\* keep-alive releases what is held first.
Rewrite(c) ==
  LET call == calls[c]
      event == Head(call.rest)
  IN  IF event.kind = "delta"
      THEN Asked(c, call, FALSE, call.tail \o event.text, FALSE)
      ELSE IF call.tail = <<>> \/ IsKeepAlive(event)
      THEN /\ calls' = [calls EXCEPT ![c].shown = @ \o event.text, ![c].rest = Tail(@)]
           /\ UNCHANGED <<nextId, waiting, asks>>
      ELSE Asked(c, call, FALSE, call.tail, TRUE)

\* The stream goes on once the event before is done with.
Streaming(c) == calls[c].stage = "streaming" /\ calls[c].ask = 0

\* What is left in the buffer when the stream ends: an event that did not.
Buffered(c) == calls[c].unended /\ Len(calls[c].rest) = 1

\* transform: the next event.
NextEvent(c) ==
  /\ Streaming(c) /\ calls[c].rest # <<>> /\ ~Buffered(c)
  /\ Rewrite(c)
  /\ UNCHANGED <<tab, agent, said>>

\* flush: the stream has ended.  The event in the buffer is rewritten like any other,
\* then what is held goes out.
Flush(c) ==
  LET call == calls[c]
  IN  /\ Streaming(c)
      /\ \/ Buffered(c) /\ Rewrite(c)
         \/ /\ call.rest = <<>>
            /\ IF call.tail = <<>>
               THEN /\ calls' = [calls EXCEPT ![c].stage = "done"]
                    /\ UNCHANGED <<nextId, waiting, asks>>
               ELSE Asked(c, call, FALSE, call.tail, TRUE)
      /\ UNCHANGED <<tab, agent, said>>

\* The site changes the address without loading the page again.
Navigate ==
  /\ moves < MaxMoves
  /\ moves' = moves + 1
  /\ addr' \in Addresses \ {addr}
  /\ UNCHANGED <<calls, nextId, waiting, asks, agent, said>>

-----------------------------------------------------------------------------
(* The relay, the worker and the agent. *)

Replied(ask, ok, back, tail) ==
  asks' = (asks \ {ask}) \union
    {[ask EXCEPT !.stage = "answered", !.ok = ok, !.back = back, !.tail = tail]}

\* pageSession: the conversation the address names, or the one of this page load.
PageSession == IF addr = New THEN Page ELSE addr

\* The relay takes an ask, names the session and hands it to the worker.
Stamp(ask) ==
  /\ ask.stage = "posted"
  /\ asks' = (asks \ {ask}) \union {[ask EXCEPT !.stage = "stamped", !.session = PageSession]}
  /\ UNCHANGED <<tab, calls, nextId, waiting, agent, said>>

\* sendMessage throws, the worker is torn down, the agent cannot be reached or
\* refuses the key or the ask.
Fail(ask) ==
  /\ ask.stage = "stamped"
  /\ Replied(ask, FALSE, <<>>, <<>>)
  /\ UNCHANGED <<tab, calls, nextId, waiting, agent, said>>

\* Mutant: every session counts for itself.
NextIndexOfSession(session) == Cardinality(DOMAIN known[session]) + 1

\* One counter for all sessions.
NextIndex(session) == counter + 1

\* handleMask: the value keeps the token it has in the session, or is given one.
\* The worker may be torn down before it passes the answer on.
HandleMask(ask) ==
  LET v == ask.body[1].value
      had == {n \in DOMAIN known[ask.session] : known[ask.session][n] = v}
      n == IF had = {} THEN NextIndex(ask.session) ELSE CHOOSE i \in had : TRUE
  IN  /\ ask.masking /\ ask.stage = "stamped"
      /\ counter' = IF had = {} THEN counter + 1 ELSE counter
      /\ known' = [known EXCEPT ![ask.session] = Put(@, n, v)]
      /\ \E delivered \in BOOLEAN : Replied(ask, delivered, <<Open, Close(n)>>, <<>>)
      /\ UNCHANGED <<tab, calls, nextId, waiting, said>>

\* A token that is complete and known becomes its original.
PutBack(session, done, p) ==
  IF p.kind = "close" /\ p.index \in DOMAIN known[session] /\ done # <<>> /\ Last(done) = Open
  THEN Append(Front(done), Original(p.index, known[session][p.index]))
  ELSE Append(done, p)

\* Expander.Unmask.
Expand(session, body) ==
  LET done[n \in 0..Len(body)] ==
        IF n = 0 THEN <<>> ELSE PutBack(session, done[n - 1], body[n])
  IN  done[Len(body)]

\* Expander.TailLen: a token that is not complete.
TailLen(body) == IF body # <<>> /\ Last(body) = Open THEN 1 ELSE 0

\* handleUnmask: the tail is cut off first, unless nothing follows.
HandleUnmask(ask) ==
  LET n == IF ask.final THEN 0 ELSE TailLen(ask.body)
      body == SubSeq(ask.body, 1, Len(ask.body) - n)
  IN  /\ ~ask.masking /\ ask.stage = "stamped"
      /\ Replied(ask, TRUE, Expand(ask.session, body),
                 SubSeq(ask.body, Len(body) + 1, Len(ask.body)))
      /\ UNCHANGED <<tab, calls, nextId, waiting, agent, said>>

-----------------------------------------------------------------------------
Next ==
  \/ \E c \in Calls : \/ \E v \in Typeable[c] : Send(c, v)
                      \/ Retry(c) \/ Refuse(c) \/ Respond(c) \/ NextEvent(c) \/ Flush(c)
  \/ \E ask \in asks : \/ Stamp(ask) \/ Fail(ask) \/ HandleMask(ask) \/ HandleUnmask(ask)
                       \/ Settle(ask)
  \/ \E id \in DOMAIN waiting : Timeout(id)
  \/ Navigate

Spec == Init /\ [][Next]_vars

\* The browser's timers fire and a stream that arrived is read; nothing is
\* assumed of the relay, the worker and the agent.
Fairness ==
  /\ WF_vars(\E id \in DOMAIN waiting : Timeout(id))
  /\ WF_vars(\E c \in Calls : NextEvent(c) \/ Flush(c))

FairSpec == Spec /\ Fairness

-----------------------------------------------------------------------------
(* Properties. *)

Stages == {"idle", "masking", "sent", "streaming", "done", "blocked"}

\* Every variable keeps its type, and every entry of waiting belongs to a call
\* that awaits it: a tab whose relay is gone collects no dead entries.
TypeOK ==
  /\ addr \in Addresses /\ moves \in 0..MaxMoves
  /\ \A c \in Calls : /\ calls[c].stage \in Stages
                      /\ calls[c].conv \in Convs \union {None}
                      /\ calls[c].typed \in Typeable[c] \union {None}
                      /\ calls[c].under \subseteq Sessions \union {None}
  /\ nextId \in Nat \ {0}
  /\ \A id \in DOMAIN waiting : calls[waiting[id]].ask = id
  /\ \A ask \in asks : /\ ask.session \in Sessions \union {None}
                       /\ ask.stage \in {"posted", "stamped", "answered"}
  /\ DOMAIN Minted \subseteq 1..counter
  /\ \A k \in Convs : said[k] \subseteq 1..counter

\* What leaves the page is a replacement of what this very call had typed, however
\* many asks were given up before, however late their replies come, and whatever
\* became of the agent in between.
SentIsItsOwnMasked ==
  \A c \in Calls :
    calls[c].typed # None /\ calls[c].stage \in {"sent", "streaming", "done"} =>
      \E n \in DOMAIN Minted : /\ calls[c].sent = <<Open, Close(n)>>
                               /\ Minted[n] = calls[c].typed

\* A piece as the site wrote it: an original as the replacement it was put in for, if
\* it is the right one.  Keep-alives are left out.
WrittenBack(p) ==
  IF p = Ping THEN <<>>
  ELSE IF p.kind = "value" /\ p.index \in DOMAIN Minted /\ Minted[p.index] = p.value
  THEN <<Open, Close(p.index)>> ELSE <<p>>

Back(text) == FlattenSeq([i \in DOMAIN text |-> WrittenBack(text[i])])

\* What the page has of an answer, with every original written back, and what is
\* held back and still to come are together the answer, in its order: whatever
\* asks failed or timed out and wherever the address went, nothing is lost,
\* doubled, or restored to a value it did not stand for.  The one exception is an
\* answer whose last event never ended while the beginning of a token was held: it
\* loses that beginning.
ScreenIsTheAnswer ==
  \A c \in Calls : calls[c].stage \in {"streaming", "done"} =>
    /\ calls[c].joined => calls[c].unended
    /\ ~calls[c].joined =>
         Back(calls[c].shown) \o calls[c].tail \o Back(Raw(calls[c].rest)) = Back(Raw(calls[c].answer))

\* A token of the session in a text, whole or with keep-alives in it.
ShowsToken(text, session) ==
  \E i, j \in DOMAIN text :
    /\ i < j /\ text[i] = Open
    /\ text[j].kind = "close" /\ text[j].index \in DOMAIN known[session]
    /\ \A k \in i + 1..j - 1 : text[k] = Ping

\* An answer restored under one session without a failure shows no token of that
\* session, wherever its events cut it and whatever keep-alive came between.
RestoredWhole ==
  \A c \in Calls, s \in Sessions :
    calls[c].stage = "done" /\ calls[c].under = {s} => ~ShowsToken(calls[c].shown, s)

\* A send is masked or refused, never left pending, and an answer that arrived is
\* shown to its end, though the relay, the worker or the agent may never answer.
EveryCallSettles ==
  \A c \in Calls : calls[c].stage \in {"masking", "streaming"}
                     ~> calls[c].stage \in {"sent", "blocked", "done"}
=============================================================================
