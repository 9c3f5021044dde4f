----------------------------- MODULE RelayProofs -----------------------------
(***************************************************************************)
(* Theorems about Relay for every number of calls, conversations, values   *)
(* and shapes of an answer: what leaves the page is a replacement of what  *)
(* that very call had typed; what the page has of an answer, what it holds *)
(* and what is to come are that answer; an answer restored under one       *)
(* session without a failure shows no token of it; and every variable      *)
(* keeps its type.                                                         *)
(*                                                                         *)
(* The argument: ids are never given twice, so the call an id waits for is *)
(* the one the ask was made by; the agent answers an ask with an index it  *)
(* keeps for the value asked about; and an index, once it stands for a     *)
(* value in a session, stands for it in that session and in no other.      *)
(*                                                                         *)
(* Of a screen: an ask a stream waits for carries what the stream holds    *)
(* and the text of its next event, so its answer, which says the same,     *)
(* or the text itself when the ask fails, takes the place of both.  The    *)
(* invariant must also say that no text ends in the first half of a token  *)
(* unless that half is held, or the next text could finish a token on the  *)
(* screen, and that an index given later is in no text already shown.      *)
(***************************************************************************)
EXTENDS Relay, SequenceTheorems, WellFoundedInduction, TLAPS

-----------------------------------------------------------------------------
(* Induction.  The library's theorems of it take an operator as a parameter,   *)
(* which no prover here can instantiate; a set of numbers that has no least    *)
(* number outside it does as well, and that < well-founds the numbers is a     *)
(* fact that can be cited.                                                     *)

\* A set of numbers with 0 in it, and with each its successor, is all of them.
LEMMA Induction ==
  ASSUME NEW T \in SUBSET Nat, 0 \in T, \A n \in Nat : n \in T => n + 1 \in T
  PROVE  T = Nat
<1> SUFFICES ASSUME Nat \ T # {} PROVE FALSE
  OBVIOUS
<1>1. PICK n \in Nat \ T : \A m \in Nat \ T : ~(<<m, n>> \in OpToRel(<, Nat))
  BY NatLessThanWellFounded, WFMin
<1>2. \A m \in Nat \ T : ~(m < n)
  BY <1>1 DEF OpToRel
<1>3. n # 0 /\ n - 1 \in Nat /\ n - 1 < n
  OBVIOUS
<1> QED BY <1>2, <1>3

-----------------------------------------------------------------------------
(* FlattenSeq, the sequences of a sequence one after another. *)

\* g is the function that FlattenSeq is defined by, up to m.
JoinedTo(s, g, m) == g = [i \in 1..m |-> IF i = 1 THEN s[i] ELSE g[i - 1] \o s[i]]

LEMMA JoinedExists ==
  ASSUME NEW s
  PROVE  \A m \in Nat : \E g : JoinedTo(s, g, m)
<1> DEFINE M == {m \in Nat : \E g : JoinedTo(s, g, m)}
<1>1. 0 \in M
  <2>1. JoinedTo(s, [i \in 1..0 |-> <<>>], 0)
    BY DEF JoinedTo
  <2> QED BY <2>1
<1>2. ASSUME NEW m \in Nat, m \in M PROVE m + 1 \in M
  <2>1. PICK g : JoinedTo(s, g, m)
    BY <1>2
  <2> DEFINE h == [i \in 1..m+1 |-> IF i = m + 1
                     THEN IF i = 1 THEN s[i] ELSE g[m] \o s[i] ELSE g[i]]
  <2>2. \A i \in 1..m : h[i] = g[i]
    OBVIOUS
  <2>3. \A i \in 1..m : g[i] = IF i = 1 THEN s[i] ELSE g[i - 1] \o s[i]
    BY <2>1 DEF JoinedTo
  <2>4. \A i \in 1..m+1 : h[i] = IF i = 1 THEN s[i] ELSE h[i - 1] \o s[i]
    BY <2>2, <2>3
  <2>5. JoinedTo(s, h, m + 1)
    BY <2>4 DEF JoinedTo
  <2> QED BY <2>5
<1> HIDE DEF M
<1>3. M = Nat
  BY <1>1, <1>2, Induction DEF M
<1> QED BY <1>3 DEF M

LEMMA FlattenUnfolds ==
  ASSUME NEW s, Len(s) \in Nat, Len(s) # 0
  PROVE  \E g : JoinedTo(s, g, Len(s)) /\ FlattenSeq(s) = g[Len(s)]
<1> DEFINE joined == CHOOSE g : g = [i \in 1..Len(s) |->
                       IF i = 1 THEN s[i] ELSE g[i - 1] \o s[i]]
<1>1. FlattenSeq(s) = joined[Len(s)]
  BY DEF FlattenSeq
<1>2. PICK g : g = [i \in 1..Len(s) |-> IF i = 1 THEN s[i] ELSE g[i - 1] \o s[i]]
  <2> HIDE DEF joined
  <2>1. PICK g : JoinedTo(s, g, Len(s))
    BY JoinedExists
  <2> QED BY <2>1 DEF JoinedTo
<1>3. joined = [i \in 1..Len(s) |-> IF i = 1 THEN s[i] ELSE joined[i - 1] \o s[i]]
  BY <1>2
<1> HIDE DEF joined
<1> QED BY <1>1, <1>3 DEF JoinedTo

LEMMA FlattenEmpty == FlattenSeq(<<>>) = <<>>
BY DEF FlattenSeq

LEMMA FlattenOne ==
  ASSUME NEW x
  PROVE  FlattenSeq(<<x>>) = x
<1>1. Len(<<x>>) = 1 /\ <<x>>[1] = x
  OBVIOUS
<1> PICK s : s = <<x>>
  OBVIOUS
<1>2. Len(s) \in Nat /\ Len(s) # 0
  BY <1>1
<1>3. PICK g : JoinedTo(s, g, Len(s)) /\ FlattenSeq(s) = g[Len(s)]
  BY <1>2, FlattenUnfolds, Zenon
<1>4. g[1] = x
  BY <1>1, <1>3 DEF JoinedTo
<1> QED BY <1>1, <1>3, <1>4

\* Texts may be put together in either order.
InTurn(p, q, r) == (p \o q) \o r = p \o (q \o r)

LEMMA TextsInTurn ==
  ASSUME NEW S, NEW p \in Seq(S), NEW q \in Seq(S), NEW r \in Seq(S)
  PROVE  InTurn(p, q, r)
BY DEF InTurn

\* What is appended to the second of two texts is appended to both.
LEMMA AppendAcross ==
  ASSUME NEW S, NEW s \in Seq(S), NEW q \in Seq(S), NEW x \in S
  PROVE  s \o Append(q, x) = Append(s \o q, x) /\ s \o q \in Seq(S)
OBVIOUS

LEMMA FlattenAppend ==
  ASSUME NEW S, NEW s \in Seq(Seq(S)), NEW x \in Seq(S)
  PROVE  FlattenSeq(Append(s, x)) = FlattenSeq(s) \o x
<1>a. PICK t : t = Append(s, x)
  OBVIOUS
<1>1. /\ t \in Seq(Seq(S)) /\ Len(s) \in Nat /\ Len(t) = Len(s) + 1 /\ t[Len(s) + 1] = x
      /\ \A i \in 1..Len(s) : t[i] = s[i]
  BY <1>a
<1>2. PICK g : JoinedTo(t, g, Len(t)) /\ FlattenSeq(t) = g[Len(t)]
  <2>1. Len(t) \in Nat /\ Len(t) # 0
    BY <1>1
  <2> QED BY <2>1, FlattenUnfolds, Zenon
<1>3. \A i \in 1..Len(t) : g[i] = IF i = 1 THEN t[i] ELSE g[i - 1] \o t[i]
  BY <1>2 DEF JoinedTo
<1>4. CASE Len(s) = 0
  <2>1. s = <<>>
    BY <1>4
  <2>2. g[1] = x
    BY <1>1, <1>3, <1>4
  <2>3. x = <<>> \o x
    OBVIOUS
  <2> QED BY <1>a, <1>1, <1>2, <1>4, <2>1, <2>2, <2>3, FlattenEmpty
<1>5. CASE Len(s) # 0
  <2>1. PICK h : JoinedTo(s, h, Len(s)) /\ FlattenSeq(s) = h[Len(s)]
    BY <1>1, <1>5, FlattenUnfolds
  <2>2. \A i \in 1..Len(s) : h[i] = IF i = 1 THEN s[i] ELSE h[i - 1] \o s[i]
    BY <2>1 DEF JoinedTo
  <2> DEFINE M == {m \in Nat : m + 1 \in 1..Len(s) => g[m + 1] = h[m + 1]}
  <2>3. 0 \in M
    BY <1>1, <1>3, <2>2
  <2>4. \A m \in Nat : m \in M => m + 1 \in M
    <3> SUFFICES ASSUME NEW m \in Nat, m \in M, m + 2 \in 1..Len(s) PROVE g[m + 2] = h[m + 2]
      <4>1. \A m \in Nat : (m + 1) + 1 = m + 2 /\ m + 1 \in Nat
        OBVIOUS
      <4> QED BY <4>1 DEF M
    <3>1. g[m + 1] = h[m + 1]
      <4>1. m + 1 \in 1..Len(s)
        BY <1>1
      <4> QED BY <4>1 DEF M
    <3>2. m + 2 \in 1..Len(t) /\ m + 2 # 1 /\ (m + 2) - 1 = m + 1
      BY <1>1
    <3> QED BY <1>1, <1>3, <2>2, <3>1, <3>2
  <2> HIDE DEF M
  <2>5. M = Nat
    BY <2>3, <2>4, Induction DEF M
  <2>6. g[Len(s)] = h[Len(s)]
    <3>1. Len(s) - 1 \in Nat /\ (Len(s) - 1) + 1 = Len(s) /\ Len(s) \in 1..Len(s)
      BY <1>1, <1>5
    <3> QED BY <2>5, <3>1 DEF M
  <2>7. g[Len(t)] = g[Len(s)] \o x
    <3>1. Len(t) \in 1..Len(t) /\ Len(t) # 1 /\ Len(t) - 1 = Len(s)
      BY <1>1, <1>5
    <3>2. g[Len(t)] = g[Len(t) - 1] \o t[Len(t)]
      BY <1>3, <3>1
    <3>3. t[Len(t)] = x
      BY <1>1
    <3> QED BY <3>1, <3>2, <3>3
  <2> QED BY <1>a, <1>2, <2>1, <2>6, <2>7
<1> QED BY <1>4, <1>5

LEMMA PrefixFacts ==
  ASSUME NEW S, NEW s \in Seq(S)
  PROVE  /\ SubSeq(s, 1, 0) = <<>> /\ SubSeq(s, 1, Len(s)) = s /\ Len(s) \in Nat
         /\ \A m \in Nat : m + 1 <= Len(s) =>
              /\ SubSeq(s, 1, m) \in Seq(S) /\ s[m + 1] \in S
              /\ SubSeq(s, 1, m + 1) = Append(SubSeq(s, 1, m), s[m + 1])
OBVIOUS

LEMMA FlattenTyped ==
  ASSUME NEW S, NEW s \in Seq(Seq(S))
  PROVE  FlattenSeq(s) \in Seq(S)
<1> DEFINE M == {m \in Nat : m <= Len(s) => FlattenSeq(SubSeq(s, 1, m)) \in Seq(S)}
<1>1. 0 \in M
  <2>1. FlattenSeq(SubSeq(s, 1, 0)) = <<>>
    BY PrefixFacts, FlattenEmpty
  <2>2. <<>> \in Seq(S)
    OBVIOUS
  <2> QED BY <2>1, <2>2
<1>2. ASSUME NEW m \in Nat, m \in M, m + 1 <= Len(s)
      PROVE  FlattenSeq(SubSeq(s, 1, m + 1)) \in Seq(S)
  <2>1. FlattenSeq(SubSeq(s, 1, m)) \in Seq(S)
    BY <1>2, PrefixFacts
  <2> PICK q, x : q = SubSeq(s, 1, m) /\ x = s[m + 1]
    OBVIOUS
  <2>2. q \in Seq(Seq(S)) /\ x \in Seq(S) /\ SubSeq(s, 1, m + 1) = Append(q, x)
    BY <1>2, PrefixFacts
  <2>3. FlattenSeq(Append(q, x)) = FlattenSeq(q) \o x
    BY <2>2, FlattenAppend
  <2> PICK f : f = FlattenSeq(q)
    OBVIOUS
  <2>4. f \o x \in Seq(S)
    BY <2>1, <2>2
  <2> QED BY <2>2, <2>3, <2>4
<1>3. \A m \in Nat : m \in M => m + 1 \in M
  BY <1>2
<1> HIDE DEF M
<1>4. M = Nat
  BY <1>1, <1>3, Induction DEF M
<1>5. Len(s) \in M /\ Len(s) <= Len(s) /\ SubSeq(s, 1, Len(s)) = s
  BY <1>4, PrefixFacts
<1> QED BY <1>5 DEF M

\* What is flattened is a sequence, and flattening takes one sequence after another
\* to what each of them gives.
THEOREM FlattenFacts ==
  ASSUME NEW S, NEW s \in Seq(Seq(S)), NEW t \in Seq(Seq(S))
  PROVE  /\ FlattenSeq(s) \in Seq(S)
         /\ FlattenSeq(s \o t) = FlattenSeq(s) \o FlattenSeq(t)
<1> PICK f : f = FlattenSeq(s)
  OBVIOUS
<1>0. f \in Seq(S)
  BY FlattenTyped
<1> DEFINE M == {m \in Nat : m <= Len(t) =>
                   FlattenSeq(s \o SubSeq(t, 1, m)) = f \o FlattenSeq(SubSeq(t, 1, m))}
<1>2. 0 \in M
  <2>1. SubSeq(t, 1, 0) = <<>> /\ s \o <<>> = s /\ f \o <<>> = f
    BY <1>0
  <2> QED BY <2>1, FlattenEmpty
<1>3. ASSUME NEW m \in Nat, m \in M, m + 1 <= Len(t)
      PROVE  FlattenSeq(s \o SubSeq(t, 1, m + 1)) = f \o FlattenSeq(SubSeq(t, 1, m + 1))
  <2>a. PICK q, x : q = SubSeq(t, 1, m) /\ x = t[m + 1]
    OBVIOUS
  <2>1. q \in Seq(Seq(S)) /\ x \in Seq(S) /\ SubSeq(t, 1, m + 1) = Append(q, x)
    BY <1>3, <2>a, PrefixFacts
  <2>2. FlattenSeq(s \o q) = f \o FlattenSeq(q)
    BY <1>3, <2>a
  <2>b. q \in Seq(Seq(S)) /\ x \in Seq(S)
    BY <2>1
  <2>3. s \o Append(q, x) = Append(s \o q, x) /\ s \o q \in Seq(Seq(S))
    BY <2>b, AppendAcross
  <2>4. FlattenSeq(Append(s \o q, x)) = FlattenSeq(s \o q) \o x
    BY <2>1, <2>3, FlattenAppend
  <2>5. FlattenSeq(Append(q, x)) = FlattenSeq(q) \o x
    BY <2>1, FlattenAppend
  <2>6. FlattenSeq(q) \in Seq(S)
    BY <2>1, FlattenTyped
  <2>7. InTurn(f, FlattenSeq(q), x)
    BY <1>0, <2>b, <2>6, TextsInTurn
  <2>8. (f \o FlattenSeq(q)) \o x = f \o (FlattenSeq(q) \o x)
    BY <2>7 DEF InTurn
  <2> QED BY <2>1, <2>2, <2>3, <2>4, <2>5, <2>8
<1>4. ASSUME NEW m \in Nat, m \in M PROVE m + 1 \in M
  <2>1. m + 1 \in Nat
    OBVIOUS
  <2> QED BY <1>3, <1>4, <2>1, Zenon
<1> HIDE DEF M
<1>5. M = Nat
  BY <1>2, <1>4, Induction DEF M
<1>6. Len(t) \in M /\ Len(t) <= Len(t) /\ SubSeq(t, 1, Len(t)) = t
  BY <1>5, PrefixFacts
<1> QED BY <1>0, <1>6 DEF M
-----------------------------------------------------------------------------
\* Where b then u say what t then x say, they may stand for them in a longer text.
MayStandFor(b, u, t, x, a, r) ==
  b \o u = t \o x => ((a \o b) \o u) \o r = (a \o t) \o (x \o r)

LEMMA SameInTurn ==
  ASSUME NEW S, NEW a \in Seq(S), NEW b \in Seq(S), NEW u \in Seq(S),
         NEW t \in Seq(S), NEW x \in Seq(S), NEW r \in Seq(S)
  PROVE  MayStandFor(b, u, t, x, a, r)
<1>1. a \o t \in Seq(S)
  OBVIOUS
<1>2. InTurn(a, b, u) /\ InTurn(a, t, x) /\ InTurn(a \o t, x, r)
  BY <1>1, TextsInTurn
<1>3. /\ (a \o b) \o u = a \o (b \o u) /\ (a \o t) \o x = a \o (t \o x)
      /\ ((a \o t) \o x) \o r = (a \o t) \o (x \o r)
  BY <1>2 DEF InTurn
<1> QED BY <1>3, Zenon DEF MayStandFor

\* Nothing between two texts is nothing.
EmptyBetween(a, y, r) == ((a \o y) \o <<>>) \o r = a \o (y \o r)

LEMMA NothingBetween ==
  ASSUME NEW S, NEW a \in Seq(S), NEW y \in Seq(S), NEW r \in Seq(S)
  PROVE  EmptyBetween(a, y, r)
<1>1. a \o y \in Seq(S) /\ (a \o y) \o <<>> = a \o y
  OBVIOUS
<1>2. InTurn(a, y, r)
  BY TextsInTurn
<1> QED BY <1>1, <1>2 DEF EmptyBetween, InTurn

-----------------------------------------------------------------------------
\* Calls and asks have the fields they are made with.
CallRecord(call) ==
  [stage |-> call.stage, conv |-> call.conv, typed |-> call.typed, ask |-> call.ask,
   sent |-> call.sent, answer |-> call.answer, rest |-> call.rest,
   unended |-> call.unended, tail |-> call.tail, shown |-> call.shown, joined |-> call.joined,
   under |-> call.under]

AskRecord(ask) ==
  [id |-> ask.id, masking |-> ask.masking, body |-> ask.body, final |-> ask.final,
   session |-> ask.session, stage |-> ask.stage, ok |-> ask.ok, back |-> ask.back,
   tail |-> ask.tail]

Records ==
  /\ calls = [c \in Calls |-> calls[c]]
  /\ \A c \in Calls : calls[c] = CallRecord(calls[c])
  /\ \A ask \in asks : ask = AskRecord(ask)

\* The agent's books: an index belongs to one session, and was counted.
Counted ==
  /\ addr \in Addresses
  /\ counter \in Nat
  /\ known = [s \in Sessions |-> known[s]]
  /\ \A s \in Sessions : \A n \in DOMAIN known[s] : n \in 1..counter
  /\ \A s, t \in Sessions : \A n \in DOMAIN known[s] \cap DOMAIN known[t] : s = t

StandsFor(n, v) == \E s \in Sessions : n \in DOMAIN known[s] /\ known[s][n] = v

\* A text that is the token of v, and nothing else.
TokenOf(v, text) == \E n : StandsFor(n, v) /\ text = <<Open, Close(n)>>

AskedFor(ask) == ask.body[1].value

\* An ask is answered with a token of what it asked about.
AsksRight ==
  \A ask \in asks :
    /\ ask.id \in Nat \ {0} /\ ask.id < nextId
    /\ ask.stage = "stamped" => ask.session \in Sessions
    /\ ask.masking /\ ask.stage = "answered" /\ ask.ok => TokenOf(AskedFor(ask), ask.back)

\* An id waits for the call that asked, about what that call had typed.
WaitsRight ==
  /\ nextId \in Nat \ {0}
  /\ \A id \in DOMAIN waiting :
       /\ id \in Nat \ {0} /\ id < nextId
       /\ waiting[id] \in Calls
       /\ calls[waiting[id]].ask = id
       /\ calls[waiting[id]].stage \in {"masking", "streaming"}
       /\ \A ask \in asks : ask.id = id =>
            IF ask.masking
            THEN /\ calls[waiting[id]].stage = "masking"
                 /\ calls[waiting[id]].typed = AskedFor(ask)
            ELSE calls[waiting[id]].stage = "streaming"

\* What a call that sent something typed sent is a token of it.
SendsRight ==
  \A c \in Calls :
    /\ calls[c].stage = "idle" => calls[c].typed = None
    /\ calls[c].typed # None /\ calls[c].stage \in {"sent", "streaming", "done"}
         => TokenOf(calls[c].typed, calls[c].sent)

EInv == Records /\ Counted /\ AsksRight /\ WaitsRight /\ SendsRight

-----------------------------------------------------------------------------
LEMMA EInvInit == Init => EInv
<1> SUFFICES ASSUME Init PROVE EInv
  OBVIOUS
<1>1. \A c \in Calls : calls[c] =
        [stage |-> "idle", conv |-> None, typed |-> None, ask |-> 0, sent |-> <<>>,
         answer |-> <<>>, rest |-> <<>>, unended |-> FALSE, tail |-> <<>>, shown |-> <<>>,
         joined |-> FALSE, under |-> {}]
  BY DEF Init
<1>2. Records
  BY <1>1 DEF Init, Records, CallRecord
<1>3. Counted
  BY DEF Init, Counted, Addresses
<1>4. AsksRight /\ WaitsRight /\ SendsRight
  BY <1>1 DEF Init, AsksRight, WaitsRight, SendsRight
<1> QED BY <1>2, <1>3, <1>4 DEF EInv

\* A new ask of a call that waits for nothing.
LEMMA AskedKeeps ==
  ASSUME EInv, NEW c \in Calls, NEW update, update = CallRecord(update),
         NEW masking, NEW body, NEW final,
         Asked(c, update, masking, body, final),
         UNCHANGED <<addr, known, counter>>,
         calls[c].ask = 0 \/ calls[c].stage = "idle",
         update.stage \in {"masking", "streaming"},
         IF masking THEN update.stage = "masking" /\ update.typed = body[1].value
                    ELSE update.stage = "streaming",
         update.stage = "streaming" /\ update.typed # None
           => TokenOf(update.typed, update.sent)
  PROVE  EInv'
<1> DEFINE call == [update EXCEPT !.ask = nextId]
           ask == [id |-> nextId, masking |-> masking, body |-> body, final |-> final,
                   session |-> None, stage |-> "posted", ok |-> FALSE,
                   back |-> <<>>, tail |-> <<>>]
<1>1. /\ calls' = [calls EXCEPT ![c] = call] /\ asks' = asks \union {ask}
      /\ waiting' = Put(waiting, nextId, c) /\ nextId' = nextId + 1
  BY DEF Asked
<1>2. /\ call = CallRecord(call) /\ call.ask = nextId /\ call.stage = update.stage
      /\ call.typed = update.typed /\ call.sent = update.sent
  BY DEF CallRecord
<1>3. ask = AskRecord(ask) /\ ask.id = nextId /\ ask.stage = "posted" /\ AskedFor(ask) = body[1].value
  BY DEF AskRecord, AskedFor
<1>4. ask.masking = masking
  OBVIOUS
<1> HIDE DEF call, ask
<1>5. calls'[c] = call /\ \A d \in Calls \ {c} : calls'[d] = calls[d]
  BY <1>1 DEF EInv, Records
<1>6. Records'
  <2>1. calls' = [d \in Calls |-> calls'[d]]
    BY <1>1 DEF EInv, Records
  <2>2. \A d \in Calls : calls'[d] = CallRecord(calls'[d])
    BY <1>2, <1>5 DEF EInv, Records
  <2>3. \A a \in asks' : a = AskRecord(a)
    BY <1>1, <1>3 DEF EInv, Records
  <2> QED BY <2>1, <2>2, <2>3 DEF Records, CallRecord, AskRecord
<1>7. Counted'
  BY DEF EInv, Counted
<1>8. AsksRight'
  <2>1. nextId \in Nat \ {0}
    BY DEF EInv, WaitsRight
  <2>2. \A a \in asks' :
          /\ a.id \in Nat \ {0} /\ a.id < nextId'
          /\ a.stage = "stamped" => a.session \in Sessions
          /\ a.masking /\ a.stage = "answered" /\ a.ok => TokenOf(AskedFor(a), a.back)
    BY <1>1, <1>3, <2>1 DEF EInv, AsksRight
  <2> QED BY <2>2 DEF AsksRight, TokenOf, StandsFor, AskedFor
<1>9. WaitsRight'
  <2>1. nextId \in Nat \ {0} /\ nextId' = nextId + 1
    BY <1>1 DEF EInv, WaitsRight
  <2>2. nextId \notin DOMAIN waiting
    BY <2>1 DEF EInv, WaitsRight
  <2>3. /\ DOMAIN waiting' = DOMAIN waiting \union {nextId}
        /\ \A id \in DOMAIN waiting : waiting'[id] = waiting[id]
        /\ waiting'[nextId] = c
    BY <1>1, <2>2 DEF Put
  <2>4. \A id \in DOMAIN waiting : waiting[id] # c
    BY DEF EInv, WaitsRight
  <2> SUFFICES ASSUME NEW id \in DOMAIN waiting'
               PROVE  /\ id \in Nat \ {0} /\ id < nextId'
                      /\ waiting'[id] \in Calls
                      /\ calls'[waiting'[id]].ask = id
                      /\ calls'[waiting'[id]].stage \in {"masking", "streaming"}
                      /\ \A a \in asks' : a.id = id =>
                           IF a.masking
                           THEN /\ calls'[waiting'[id]].stage = "masking"
                                /\ calls'[waiting'[id]].typed = AskedFor(a)
                           ELSE calls'[waiting'[id]].stage = "streaming"
    BY <2>1 DEF WaitsRight, AskedFor
  <2>5. CASE id = nextId
    <3>1. \A a \in asks : a.id # id
      BY <2>1, <2>5 DEF EInv, AsksRight
    <3>2. waiting'[id] = c
      BY <2>3, <2>5
    <3> QED BY <1>1, <1>2, <1>3, <1>4, <1>5, <2>1, <2>5, <3>1, <3>2
  <2>6. CASE id # nextId
    <3>1. id \in DOMAIN waiting /\ waiting'[id] = waiting[id] /\ waiting[id] # c
      BY <2>3, <2>4, <2>6
    <3>2. waiting[id] \in Calls /\ calls'[waiting[id]] = calls[waiting[id]]
      BY <1>5, <3>1 DEF EInv, WaitsRight
    <3> QED BY <1>1, <1>3, <2>1, <2>6, <3>1, <3>2 DEF EInv, WaitsRight
  <2> QED BY <2>5, <2>6
<1>10. SendsRight'
  <2>1. \A d \in Calls :
          /\ calls'[d].stage = "idle" => calls'[d].typed = None
          /\ calls'[d].typed # None /\ calls'[d].stage \in {"sent", "streaming", "done"}
               => TokenOf(calls'[d].typed, calls'[d].sent)
    BY <1>2, <1>5 DEF EInv, SendsRight
  <2> QED BY <2>1 DEF SendsRight, TokenOf, StandsFor
<1> QED BY <1>6, <1>7, <1>8, <1>9, <1>10 DEF EInv

\* A step of one call that asks nothing, waits for nothing and keeps what it sent.
LEMMA CallKeeps ==
  ASSUME EInv, NEW c \in Calls, NEW call, call = CallRecord(call),
         calls' = [calls EXCEPT ![c] = call],
         UNCHANGED <<addr, known, counter, nextId, waiting, asks>>,
         calls[c].ask = 0 \/ calls[c].stage \notin {"masking", "streaming"},
         call.stage # "idle",
         call.typed = calls[c].typed,
         call.typed # None /\ call.stage \in {"sent", "streaming", "done"}
           => /\ calls[c].stage \in {"sent", "streaming", "done"}
              /\ call.sent = calls[c].sent
  PROVE  EInv'
<1>1. calls'[c] = call /\ \A d \in Calls \ {c} : calls'[d] = calls[d]
  BY DEF EInv, Records
<1>2. \A id \in DOMAIN waiting : waiting[id] \in Calls \ {c}
  BY DEF EInv, WaitsRight
<1>3. Records'
  <2>1. calls' = [d \in Calls |-> calls'[d]]
    BY DEF EInv, Records
  <2>2. \A d \in Calls : calls'[d] = CallRecord(calls'[d])
    BY <1>1 DEF EInv, Records
  <2> QED BY <2>1, <2>2 DEF EInv, Records, CallRecord, AskRecord
<1>4. Counted' /\ AsksRight'
  BY DEF EInv, Counted, AsksRight, TokenOf, StandsFor, AskedFor
<1>5. WaitsRight'
  BY <1>1, <1>2 DEF EInv, WaitsRight, AskedFor
<1>6. SendsRight'
  BY <1>1 DEF EInv, SendsRight, TokenOf, StandsFor
<1> QED BY <1>3, <1>4, <1>5, <1>6 DEF EInv

\* A step of one ask that keeps what it asked and, answered, has a token of it,
\* while the agent's books only grow.
LEMMA AskKeeps ==
  ASSUME EInv, NEW ask \in asks, NEW new, new = AskRecord(new),
         asks' = (asks \ {ask}) \union {new},
         new.id = ask.id, new.masking = ask.masking, new.body = ask.body,
         new.stage = "stamped" => new.session \in Sessions,
         new.masking /\ new.stage = "answered" /\ new.ok
           => TokenOf(AskedFor(new), new.back)',
         Counted', \A n, v : StandsFor(n, v) => StandsFor(n, v)',
         UNCHANGED <<calls, nextId, waiting>>
  PROVE  EInv'
<1>1. \A v, text : TokenOf(v, text) => TokenOf(v, text)'
  BY DEF TokenOf
<1>2. AskedFor(new) = AskedFor(ask)
  BY DEF AskedFor
<1>3. Records'
  BY DEF EInv, Records, CallRecord, AskRecord
<1>4. AsksRight'
  <2>1. \A a \in asks' :
          /\ a.id \in Nat \ {0} /\ a.id < nextId'
          /\ a.stage = "stamped" => a.session \in Sessions
          /\ a.masking /\ a.stage = "answered" /\ a.ok => TokenOf(AskedFor(a), a.back)'
    <3> SUFFICES ASSUME NEW a \in asks'
                 PROVE  /\ a.id \in Nat \ {0} /\ a.id < nextId'
                        /\ a.stage = "stamped" => a.session \in Sessions
                        /\ a.masking /\ a.stage = "answered" /\ a.ok
                             => TokenOf(AskedFor(a), a.back)'
      OBVIOUS
    <3>1. CASE a = new
      BY <3>1 DEF EInv, AsksRight, AskedFor
    <3>2. CASE a \in asks
      BY <1>1, <3>2 DEF EInv, AsksRight
    <3> QED BY <3>1, <3>2
  <2> QED BY <2>1 DEF AsksRight, AskedFor
<1>5. WaitsRight'
  <2>1. \A id \in DOMAIN waiting : \A a \in asks' : a.id = id =>
          IF a.masking
          THEN /\ calls[waiting[id]].stage = "masking"
               /\ calls[waiting[id]].typed = AskedFor(a)
          ELSE calls[waiting[id]].stage = "streaming"
    BY <1>2 DEF EInv, WaitsRight
  <2> QED BY <2>1 DEF EInv, WaitsRight, AskedFor
<1>6. SendsRight'
  BY <1>1 DEF EInv, SendsRight
<1> QED BY <1>3, <1>4, <1>5, <1>6 DEF EInv

\* A call that an ask of its own is over for.
Goes(old, joined, shown, tail, rest, under) ==
  [old EXCEPT !.ask = 0, !.joined = joined, !.shown = shown, !.tail = tail,
              !.rest = rest, !.under = under]

\* What an ask that is over changes of the call that made it.
LEMMA ShownFields ==
  ASSUME NEW old, NEW ask, NEW ok
  PROVE  \E joined, shown, tail, rest, under :
           /\ Shown(old, ask, ok) = Goes(old, joined, shown, tail, rest, under)
           /\ under = old.under \union {IF ok THEN ask.session ELSE None}
<1>1. PICK got, released, joined :
        /\ got = (IF ok THEN [expanded |-> ask.back, tail |-> ask.tail] ELSE PassedThrough(ask))
        /\ released = (ask.final /\ old.rest # <<>>)
        /\ joined = (ask.final /\ old.rest = <<>> /\ old.unended /\ got.expanded # <<>>)
  OBVIOUS
<1>2. PICK shown, tail, rest, under :
        /\ shown = (old.shown \o (IF joined THEN <<>> ELSE got.expanded))
                     \o (IF released THEN Head(old.rest).text ELSE <<>>)
        /\ tail = IF ask.final THEN <<>> ELSE got.tail
        /\ rest = IF old.rest = <<>> THEN old.rest ELSE Tail(old.rest)
        /\ under = old.under \union {IF ok THEN ask.session ELSE None}
  OBVIOUS
<1>3. Shown(old, ask, ok) = Goes(old, joined, shown, tail, rest, under)
  BY <1>1, <1>2 DEF Shown, Goes
<1> QED BY Zenon, <1>2, <1>3

\* A settled ask leaves the call that made it with a token of what it had typed,
\* and no other call with anything.
LEMMA ResolvedKeeps ==
  ASSUME EInv, NEW id \in DOMAIN waiting, NEW ask \in asks, ask.id = id, NEW ok,
         ok => ask.stage = "answered" /\ ask.ok,
         Resolved(waiting[id], ask, ok),
         waiting' = Without(waiting, id), asks' \subseteq asks,
         UNCHANGED <<addr, known, counter, nextId>>
  PROVE  EInv'
<1> DEFINE c == waiting[id]
<1>1. /\ c \in Calls /\ calls[c].ask = id /\ calls[c] = CallRecord(calls[c])
      /\ IF ask.masking
         THEN calls[c].stage = "masking" /\ calls[c].typed = AskedFor(ask)
         ELSE calls[c].stage = "streaming"
  BY DEF EInv, WaitsRight, Records
<1>2. PICK call : /\ calls' = [calls EXCEPT ![c] = call] /\ call = CallRecord(call)
                  /\ call.typed = calls[c].typed /\ call.stage # "idle"
                  /\ call.typed # None /\ call.stage \in {"sent", "streaming", "done"}
                       => TokenOf(call.typed, call.sent)
  <2>0. PICK old : old = calls[c] /\ old = CallRecord(old)
    BY <1>1
  <2>1. CASE ~ask.masking
    <3>a. PICK joined, shown, tail, rest, under :
            Shown(old, ask, ok) = Goes(old, joined, shown, tail, rest, under)
      BY ShownFields
    <3>b. PICK call : call = Shown(old, ask, ok)
      OBVIOUS
    <3>1. /\ call = Shown(old, ask, ok)
          /\ call = [old EXCEPT !.ask = 0, !.joined = joined, !.shown = shown, !.tail = tail,
                                !.rest = rest, !.under = under]
      BY <3>a, <3>b DEF Goes
    <3>2. calls' = [calls EXCEPT ![c] = call]
      BY <2>0, <2>1, <3>1 DEF Resolved
    <3>3. call = CallRecord(call)
      BY <2>0, <3>1 DEF CallRecord
    <3>4. call.stage = old.stage /\ call.typed = old.typed /\ call.sent = old.sent
      BY <2>0, <3>1 DEF CallRecord
    <3>5. calls[c].typed # None => TokenOf(calls[c].typed, calls[c].sent)
      BY <1>1, <2>1 DEF EInv, SendsRight
    <3> QED BY <1>1, <2>0, <2>1, <3>2, <3>3, <3>4, <3>5
  <2>2. CASE ask.masking /\ ok
    <3>1. PICK call : call = [old EXCEPT !.stage = "sent", !.ask = 0, !.sent = ask.back]
      OBVIOUS
    <3>2. calls' = [calls EXCEPT ![c] = call]
      BY <1>1, <2>0, <2>2, <3>1 DEF Resolved, EInv, Records
    <3>3. /\ call = CallRecord(call) /\ call.typed = old.typed
          /\ call.stage = "sent" /\ call.sent = ask.back
      BY <2>0, <3>1 DEF CallRecord
    <3>4. TokenOf(AskedFor(ask), ask.back)
      BY <2>2 DEF EInv, AsksRight
    <3> QED BY <1>1, <2>0, <2>2, <3>2, <3>3, <3>4
  <2>3. CASE ask.masking /\ ~ok
    <3>1. PICK call : call = [old EXCEPT !.stage = "blocked", !.ask = 0]
      OBVIOUS
    <3>2. calls' = [calls EXCEPT ![c] = call]
      BY <1>1, <2>0, <2>3, <3>1 DEF Resolved, EInv, Records
    <3>3. call = CallRecord(call) /\ call.typed = old.typed /\ call.stage = "blocked"
      BY <2>0, <3>1 DEF CallRecord
    <3> QED BY <2>0, <3>2, <3>3
  <2> QED BY <2>1, <2>2, <2>3
<1>3. calls'[c] = call /\ \A d \in Calls \ {c} : calls'[d] = calls[d]
  BY <1>1, <1>2 DEF EInv, Records
<1>4. /\ DOMAIN waiting' = DOMAIN waiting \ {id}
      /\ \A i \in DOMAIN waiting' : waiting'[i] = waiting[i] /\ waiting[i] \in Calls \ {c}
  BY <1>1 DEF Without, EInv, WaitsRight
<1>5. Records'
  <2>1. calls' = [d \in Calls |-> calls'[d]]
    BY <1>2 DEF EInv, Records
  <2>2. \A d \in Calls : calls'[d] = CallRecord(calls'[d])
    BY <1>2, <1>3 DEF EInv, Records
  <2> QED BY <2>1, <2>2 DEF EInv, Records, CallRecord, AskRecord
<1>6. Counted' /\ AsksRight'
  BY DEF EInv, Counted, AsksRight, TokenOf, StandsFor, AskedFor
<1>7. WaitsRight'
  BY <1>3, <1>4 DEF EInv, WaitsRight, AskedFor
<1>8. SendsRight'
  BY <1>2, <1>3 DEF EInv, SendsRight, TokenOf, StandsFor
<1> QED BY <1>5, <1>6, <1>7, <1>8 DEF EInv

\* A step that only moves the address or drops a reply.
LEMMA QuietKeeps ==
  ASSUME EInv, UNCHANGED <<calls, nextId, waiting, known, counter>>,
         addr' \in Addresses, asks' \subseteq asks
  PROVE  EInv'
<1>1. \A n, v : StandsFor(n, v)' <=> StandsFor(n, v)
  BY DEF StandsFor
<1>2. \A v, text : TokenOf(v, text)' <=> TokenOf(v, text)
  BY <1>1 DEF TokenOf
<1>3. Records'
  BY DEF EInv, Records, CallRecord, AskRecord
<1>4. Counted'
  BY DEF EInv, Counted
<1>5. AsksRight'
  BY <1>2 DEF EInv, AsksRight, AskedFor
<1>6. WaitsRight'
  BY DEF EInv, WaitsRight, AskedFor
<1>7. SendsRight'
  BY <1>2 DEF EInv, SendsRight
<1> QED BY <1>3, <1>4, <1>5, <1>6, <1>7 DEF EInv

-----------------------------------------------------------------------------
(* The steps of the page. *)

\* The steps of the page.
LEMMA SendKeeps ==
  ASSUME EInv, NEW c \in Calls, NEW v, Send(c, v)
  PROVE  EInv'
<1>1. PICK old : old = calls[c] /\ old = CallRecord(old) /\ old.stage = "idle"
  BY DEF Send, Idle, EInv, Records
<1>2. PICK conv, update :
        /\ update = [old EXCEPT !.stage = "masking", !.typed = v, !.conv = conv]
        /\ Asked(c, update, TRUE, <<Original(0, v)>>, FALSE)
  BY <1>1 DEF Send
<1>3. update = CallRecord(update) /\ update.stage = "masking" /\ update.typed = v
  BY <1>1, <1>2 DEF CallRecord
<1>4. <<Original(0, v)>>[1].value = v
  BY DEF Original, Piece
<1>5. UNCHANGED <<addr, known, counter>>
  BY DEF Send, tab, agent
<1> QED BY <1>1, <1>2, <1>3, <1>4, <1>5, AskedKeeps

LEMMA RetryOrRefuseKeeps ==
  ASSUME EInv, NEW c \in Calls, Retry(c) \/ Refuse(c)
  PROVE  EInv'
<1>1. PICK old : old = calls[c] /\ old = CallRecord(old)
                 /\ old.stage = "idle" /\ old.typed = None
  BY DEF Retry, Refuse, Idle, EInv, Records, SendsRight
<1>2. UNCHANGED <<addr, known, counter, nextId, waiting, asks>>
  BY DEF Retry, Refuse, tab, agent
<1>3. CASE Retry(c)
  <2>1. PICK call : call = [old EXCEPT !.stage = "sent", !.conv = addr]
    OBVIOUS
  <2>2. calls' = [calls EXCEPT ![c] = call]
    BY <1>1, <1>3, <2>1 DEF Retry, EInv, Records
  <2>3. call = CallRecord(call) /\ call.stage = "sent" /\ call.typed = None
    BY <1>1, <2>1 DEF CallRecord
  <2> QED BY <1>1, <1>2, <2>2, <2>3, CallKeeps
<1>4. CASE Refuse(c)
  <2>1. PICK call : call = [old EXCEPT !.stage = "blocked"]
    OBVIOUS
  <2>2. calls' = [calls EXCEPT ![c] = call]
    BY <1>1, <1>4, <2>1 DEF Refuse, EInv, Records
  <2>3. call = CallRecord(call) /\ call.stage = "blocked" /\ call.typed = None
    BY <1>1, <2>1 DEF CallRecord
  <2> QED BY <1>1, <1>2, <2>2, <2>3, CallKeeps
<1> QED BY <1>3, <1>4

LEMMA RespondKeeps ==
  ASSUME EInv, NEW c \in Calls, Respond(c)
  PROVE  EInv'
<1>1. PICK old : old = calls[c] /\ old = CallRecord(old) /\ old.stage = "sent"
  BY DEF Respond, EInv, Records
<1>2. UNCHANGED <<addr, known, counter, nextId, waiting, asks>>
  BY DEF Respond, tab, agent
<1>3. CASE \E unended, echo :
             calls' = [calls EXCEPT ![c].stage = "streaming", ![c].unended = unended,
                                    ![c].answer = echo, ![c].rest = echo]
  <2>1. PICK unended, echo :
             calls' = [calls EXCEPT ![c].stage = "streaming", ![c].unended = unended,
                                    ![c].answer = echo, ![c].rest = echo]
    BY <1>3
  <2>2. PICK call : call = [old EXCEPT !.stage = "streaming", !.unended = unended,
                                       !.answer = echo, !.rest = echo]
    OBVIOUS
  <2>3. calls' = [calls EXCEPT ![c] = call]
    BY <1>1, <2>1, <2>2 DEF EInv, Records
  <2>4. call = CallRecord(call) /\ call.stage = "streaming"
        /\ call.typed = old.typed /\ call.sent = old.sent
    BY <1>1, <2>2 DEF CallRecord
  <2> QED BY <1>1, <1>2, <2>3, <2>4, CallKeeps
<1>4. CASE calls' = [calls EXCEPT ![c].stage = "done"]
  <2>1. PICK call : call = [old EXCEPT !.stage = "done"]
    OBVIOUS
  <2>2. calls' = [calls EXCEPT ![c] = call]
    BY <1>1, <1>4, <2>1 DEF EInv, Records
  <2>3. call = CallRecord(call) /\ call.stage = "done"
        /\ call.typed = old.typed /\ call.sent = old.sent
    BY <1>1, <2>1 DEF CallRecord
  <2> QED BY <1>1, <1>2, <2>2, <2>3, CallKeeps
<1> QED BY <1>3, <1>4 DEF Respond

\* A stream that reads on rewrites its next event, in transform or in flush, or releases
\* what it holds in the end.
Rewrites(c) ==
  /\ calls[c].stage = "streaming" /\ calls[c].ask = 0 /\ calls[c].rest # <<>>
  /\ Rewrite(c)
  /\ UNCHANGED <<tab, agent, said>>

Releases(c) ==
  LET call == calls[c]
  IN  /\ call.stage = "streaming" /\ call.ask = 0 /\ call.rest = <<>>
      /\ IF call.tail = <<>>
         THEN /\ calls' = [calls EXCEPT ![c].stage = "done"]
              /\ UNCHANGED <<nextId, waiting, asks>>
         ELSE Asked(c, call, FALSE, call.tail, TRUE)
      /\ UNCHANGED <<tab, agent, said>>

LEMMA ReadsOn ==
  ASSUME NEW c, NextEvent(c) \/ Flush(c)
  PROVE  Rewrites(c) \/ Releases(c)
<1>1. Buffered(c) => calls[c].rest # <<>>
  <2>1. Len(<<>>) # 1
    OBVIOUS
  <2> QED BY <2>1 DEF Buffered
<1>2. CASE NextEvent(c)
  BY <1>2 DEF NextEvent, Streaming, Rewrites
<1>3. CASE Flush(c)
  BY <1>1, <1>3 DEF Flush, Streaming, Rewrites, Releases
<1> QED BY <1>2, <1>3

LEMMA ReadKeeps ==
  ASSUME EInv, NEW c \in Calls, NextEvent(c) \/ Flush(c)
  PROVE  EInv'
<1>1. PICK old : old = calls[c] /\ old = CallRecord(old)
                 /\ old.stage = "streaming" /\ old.ask = 0
  BY ReadsOn DEF Rewrites, Releases, EInv, Records
<1>2. UNCHANGED <<addr, known, counter>>
  BY ReadsOn DEF Rewrites, Releases, tab, agent
<1>3. old.typed # None => TokenOf(old.typed, old.sent)
  BY <1>1 DEF EInv, SendsRight
<1>4. CASE \E body, final : Asked(c, old, FALSE, body, final)
  <2>1. PICK body, final : Asked(c, old, FALSE, body, final)
    BY <1>4
  <2> QED BY <1>1, <1>2, <1>3, <2>1, AskedKeeps
<1>5. CASE \E shown, rest :
             /\ calls' = [calls EXCEPT ![c].shown = shown, ![c].rest = rest]
             /\ UNCHANGED <<nextId, waiting, asks>>
  <2>1. PICK shown, rest :
             /\ calls' = [calls EXCEPT ![c].shown = shown, ![c].rest = rest]
             /\ UNCHANGED <<nextId, waiting, asks>>
    BY <1>5
  <2>2. PICK call : call = [old EXCEPT !.shown = shown, !.rest = rest]
    OBVIOUS
  <2>3. calls' = [calls EXCEPT ![c] = call]
    BY <1>1, <2>1, <2>2 DEF EInv, Records
  <2>4. call = CallRecord(call) /\ call.stage = old.stage
        /\ call.typed = old.typed /\ call.sent = old.sent
    BY <1>1, <2>2 DEF CallRecord
  <2> QED BY <1>1, <1>2, <2>1, <2>3, <2>4, CallKeeps
<1>6. CASE /\ calls' = [calls EXCEPT ![c].stage = "done"]
           /\ UNCHANGED <<nextId, waiting, asks>>
  <2>1. PICK call : call = [old EXCEPT !.stage = "done"]
    OBVIOUS
  <2>2. calls' = [calls EXCEPT ![c] = call]
    BY <1>1, <1>6, <2>1 DEF EInv, Records
  <2>3. call = CallRecord(call) /\ call.stage = "done"
        /\ call.typed = old.typed /\ call.sent = old.sent
    BY <1>1, <2>1 DEF CallRecord
  <2> QED BY <1>1, <1>2, <1>6, <2>2, <2>3, CallKeeps
<1>7. CASE Rewrites(c)
  <2> DEFINE event == Head(old.rest)
  <2>1. CASE event.kind = "delta"
    <3>1. Asked(c, old, FALSE, old.tail \o event.text, FALSE)
      BY <1>1, <1>7, <2>1 DEF Rewrites, Rewrite
    <3> QED BY <1>4, <3>1
  <2>2. CASE event.kind # "delta" /\ (old.tail = <<>> \/ IsKeepAlive(event))
    <3>1. /\ calls' = [calls EXCEPT ![c].shown = @ \o event.text, ![c].rest = Tail(@)]
          /\ UNCHANGED <<nextId, waiting, asks>>
      BY <1>1, <1>7, <2>2 DEF Rewrites, Rewrite
    <3> QED BY <1>5, <3>1
  <2>3. CASE event.kind # "delta" /\ ~(old.tail = <<>> \/ IsKeepAlive(event))
    <3>1. Asked(c, old, FALSE, old.tail, TRUE)
      BY <1>1, <1>7, <2>3 DEF Rewrites, Rewrite
    <3> QED BY <1>4, <3>1
  <2> QED BY <2>1, <2>2, <2>3
<1>8. CASE Releases(c)
  <2> QED BY <1>1, <1>4, <1>6, <1>8 DEF Releases
<1> QED BY <1>7, <1>8, ReadsOn

LEMMA SettleKeeps ==
  ASSUME EInv, NEW ask \in asks, Settle(ask)
  PROVE  EInv'
<1>1. UNCHANGED <<addr, known, counter, nextId>> /\ asks' \subseteq asks
  BY DEF Settle, tab, agent
<1>2. CASE UNCHANGED <<calls, waiting>>
  BY <1>1, <1>2, QuietKeeps DEF EInv, Counted
<1>3. CASE \E id \in Waiter(ask) :
             Resolved(waiting[id], ask, ask.ok) /\ waiting' = Without(waiting, id)
  <2>1. PICK id \in Waiter(ask) :
          Resolved(waiting[id], ask, ask.ok) /\ waiting' = Without(waiting, id)
    BY <1>3
  <2>2. id \in DOMAIN waiting /\ ask.id = id /\ ask.stage = "answered"
    BY DEF Waiter, Settle
  <2> QED BY <1>1, <2>1, <2>2, ResolvedKeeps
<1> QED BY <1>2, <1>3 DEF Settle

LEMMA TimeoutKeeps ==
  ASSUME EInv, NEW id \in DOMAIN waiting, Timeout(id)
  PROVE  EInv'
<1>1. PICK ask \in asks : ask.id = id /\ Resolved(waiting[id], ask, FALSE) /\ asks' \subseteq asks
  BY DEF Timeout, ResolveUnreachable
<1>2. waiting' = Without(waiting, id) /\ UNCHANGED <<addr, known, counter, nextId>>
  BY DEF Timeout, GivenUp, tab, agent
<1> QED BY <1>1, <1>2, ResolvedKeeps

LEMMA NavigateKeeps ==
  ASSUME EInv, Navigate
  PROVE  EInv'
<1>1. addr' \in Addresses /\ UNCHANGED <<calls, nextId, waiting, asks, known, counter>>
  BY DEF Navigate, agent
<1> QED BY <1>1, QuietKeeps

-----------------------------------------------------------------------------
(* The steps of the relay, the worker and the agent. *)

LEMMA BooksStay ==
  ASSUME EInv, UNCHANGED <<addr, known, counter>>
  PROVE  Counted' /\ \A n, v : StandsFor(n, v) => StandsFor(n, v)'
BY DEF EInv, Counted, StandsFor

\* The steps of the relay, the worker and the agent.
LEMMA StampKeeps ==
  ASSUME EInv, NEW ask \in asks, Stamp(ask)
  PROVE  EInv'
<1>1. PageSession \in Sessions
  BY DEF EInv, Counted, Addresses, PageSession, Sessions
<1>2. ask = AskRecord(ask)
  BY DEF EInv, Records
<1>3. PICK new : new = [ask EXCEPT !.stage = "stamped", !.session = PageSession]
  OBVIOUS
<1>4. /\ new = AskRecord(new) /\ new.id = ask.id /\ new.masking = ask.masking
      /\ new.body = ask.body /\ new.stage = "stamped" /\ new.session = PageSession
  BY <1>2, <1>3 DEF AskRecord
<1>5. /\ asks' = (asks \ {ask}) \union {new}
      /\ UNCHANGED <<addr, known, counter, calls, nextId, waiting>>
  BY <1>3 DEF Stamp, tab, agent
<1> QED BY <1>1, <1>4, <1>5, AskKeeps, BooksStay

\* The reply to an ask to be masked carries a token of it, or nothing.
LEMMA RepliedKeeps ==
  ASSUME EInv, NEW ask \in asks, NEW ok, NEW back, NEW tail, Replied(ask, ok, back, tail),
         ask.masking /\ ok => TokenOf(AskedFor(ask), back)',
         Counted', \A n, v : StandsFor(n, v) => StandsFor(n, v)',
         UNCHANGED <<calls, nextId, waiting>>
  PROVE  EInv'
<1>1. ask = AskRecord(ask)
  BY DEF EInv, Records
<1>2. PICK new : new = [ask EXCEPT !.stage = "answered", !.ok = ok, !.back = back, !.tail = tail]
  OBVIOUS
<1>3. /\ new = AskRecord(new) /\ new.id = ask.id /\ new.masking = ask.masking
      /\ new.body = ask.body /\ new.stage = "answered" /\ new.ok = ok /\ new.back = back
  BY <1>1, <1>2 DEF AskRecord
<1>4. asks' = (asks \ {ask}) \union {new}
  BY <1>2 DEF Replied
<1>5. AskedFor(new) = AskedFor(ask)
  BY <1>3 DEF AskedFor
<1>6. new.masking /\ new.stage = "answered" /\ new.ok => TokenOf(AskedFor(new), new.back)'
  BY <1>3, <1>5
<1> QED BY <1>3, <1>4, <1>6, AskKeeps

LEMMA HandleMaskKeeps ==
  ASSUME EInv, NEW ask \in asks, HandleMask(ask)
  PROVE  EInv'
<1> DEFINE s == ask.session
           v == ask.body[1].value
           had == {n \in DOMAIN known[s] : known[s][n] = v}
<1>1. s \in Sessions /\ v = AskedFor(ask)
  BY DEF HandleMask, EInv, AsksRight, AskedFor
<1>0. PICK n : n = IF had = {} THEN NextIndex(s) ELSE CHOOSE i \in had : TRUE
  OBVIOUS
<1>2. /\ counter' = IF had = {} THEN counter + 1 ELSE counter
      /\ known' = [known EXCEPT ![s] = Put(known[s], n, v)]
      /\ \E delivered \in BOOLEAN : Replied(ask, delivered, <<Open, Close(n)>>, <<>>)
      /\ UNCHANGED <<addr, calls, nextId, waiting>>
  BY <1>0 DEF HandleMask, tab
<1>3. /\ had = {} => n = counter + 1
      /\ had # {} => n \in DOMAIN known[s] /\ known[s][n] = v
  BY <1>0 DEF NextIndex
<1> HIDE DEF v, had
<1>4. /\ known'[s] = Put(known[s], n, v)
      /\ \A t \in Sessions \ {s} : known'[t] = known[t]
      /\ known' = [t \in Sessions |-> known'[t]]
  BY <1>1, <1>2 DEF EInv, Counted
<1>5. /\ DOMAIN known'[s] = DOMAIN known[s] \union {n}
      /\ known'[s][n] = v
      /\ \A m \in DOMAIN known[s] : m # n => known'[s][m] = known[s][m]
  BY <1>4 DEF Put
<1>6. /\ counter \in Nat /\ counter' \in Nat /\ counter <= counter' /\ n \in 1..counter'
      /\ \A t \in Sessions : \A m \in DOMAIN known[t] : m \in 1..counter
      /\ \A t \in Sessions : n \in DOMAIN known[t] => t = s /\ known[s][n] = v
  BY <1>1, <1>2, <1>3 DEF EInv, Counted
<1>7. Counted'
  <2>1. \A t \in Sessions : \A m \in DOMAIN known'[t] : m \in 1..counter'
    <3> SUFFICES ASSUME NEW t \in Sessions, NEW m \in DOMAIN known'[t] PROVE m \in 1..counter'
      OBVIOUS
    <3>1. m \in DOMAIN known[t] \/ m = n
      BY <1>4, <1>5
    <3> QED BY <1>6, <3>1
  <2>2. \A t, u \in Sessions : \A m \in DOMAIN known'[t] \cap DOMAIN known'[u] : t = u
    <3> SUFFICES ASSUME NEW t \in Sessions, NEW u \in Sessions,
                        NEW m \in DOMAIN known'[t] \cap DOMAIN known'[u]
                 PROVE  t = u
      OBVIOUS
    <3>1. CASE m = n
      BY <1>4, <1>5, <1>6, <3>1
    <3>2. CASE m # n
      <4>1. m \in DOMAIN known[t] /\ m \in DOMAIN known[u]
        BY <1>4, <1>5, <3>2
      <4> QED BY <4>1 DEF EInv, Counted
    <3> QED BY <3>1, <3>2
  <2> QED BY <1>2, <1>4, <1>6, <2>1, <2>2 DEF EInv, Counted
<1>8. \A m, w : StandsFor(m, w) => StandsFor(m, w)'
  <2> SUFFICES ASSUME NEW m, NEW w, NEW t \in Sessions, m \in DOMAIN known[t], known[t][m] = w
               PROVE  m \in DOMAIN known'[t] /\ known'[t][m] = w
    BY DEF StandsFor
  <2>1. CASE t # s
    BY <1>4, <2>1
  <2>2. CASE t = s
    BY <1>5, <1>6, <2>2
  <2> QED BY <2>1, <2>2
<1>9. TokenOf(AskedFor(ask), <<Open, Close(n)>>)'
  <2>1. n \in DOMAIN known'[s] /\ known'[s][n] = AskedFor(ask)
    BY <1>1, <1>5
  <2>2. \E m : (\E t \in Sessions : m \in DOMAIN known'[t] /\ known'[t][m] = AskedFor(ask))
               /\ <<Open, Close(n)>> = <<Open, Close(m)>>
    BY <1>1, <2>1
  <2> QED BY <2>2 DEF TokenOf, StandsFor, AskedFor
<1> QED BY <1>2, <1>7, <1>8, <1>9, RepliedKeeps

LEMMA FailOrUnmaskKeeps ==
  ASSUME EInv, NEW ask \in asks, Fail(ask) \/ HandleUnmask(ask)
  PROVE  EInv'
<1>1. PICK ok, back, tail : Replied(ask, ok, back, tail) /\ ~(ask.masking /\ ok)
  BY DEF Fail, HandleUnmask
<1>2. UNCHANGED <<addr, known, counter, calls, nextId, waiting>>
  BY DEF Fail, HandleUnmask, tab, agent
<1> QED BY <1>1, <1>2, BooksStay, RepliedKeeps

-----------------------------------------------------------------------------
LEMMA EInvNext == EInv /\ [Next]_vars => EInv'
<1> SUFFICES ASSUME EInv, [Next]_vars PROVE EInv'
  OBVIOUS
<1>1. ASSUME NEW c \in Calls, NEW v \in Typeable[c], Send(c, v) PROVE EInv'
  BY <1>1, SendKeeps
<1>2. ASSUME NEW c \in Calls, Retry(c) \/ Refuse(c) PROVE EInv'
  BY <1>2, RetryOrRefuseKeeps
<1>3. ASSUME NEW c \in Calls, Respond(c) PROVE EInv'
  BY <1>3, RespondKeeps
<1>4. ASSUME NEW c \in Calls, NextEvent(c) \/ Flush(c) PROVE EInv'
  BY <1>4, ReadKeeps
<1>5. ASSUME NEW ask \in asks, Stamp(ask) PROVE EInv'
  BY <1>5, StampKeeps
<1>6. ASSUME NEW ask \in asks, Fail(ask) \/ HandleUnmask(ask) PROVE EInv'
  BY <1>6, FailOrUnmaskKeeps
<1>7. ASSUME NEW ask \in asks, HandleMask(ask) PROVE EInv'
  BY <1>7, HandleMaskKeeps
<1>8. ASSUME NEW ask \in asks, Settle(ask) PROVE EInv'
  BY <1>8, SettleKeeps
<1>9. ASSUME NEW id \in DOMAIN waiting, Timeout(id) PROVE EInv'
  BY <1>9, TimeoutKeeps
<1>10. CASE Navigate
  BY <1>10, NavigateKeeps
<1>11. CASE UNCHANGED vars
  BY <1>11, QuietKeeps DEF vars, EInv, Counted
<1> QED BY <1>1, <1>2, <1>3, <1>4, <1>5, <1>6, <1>7, <1>8, <1>9, <1>10, <1>11 DEF Next

\* What stands for a value in a session is what the index was given for.
LEMMA MintedIsOfItsSession ==
  ASSUME EInv, NEW n, NEW v, StandsFor(n, v)
  PROVE  n \in DOMAIN Minted /\ Minted[n] = v
<1>1. PICK s \in Sessions : n \in DOMAIN known[s] /\ known[s][n] = v
  BY DEF StandsFor
<1>2. (CHOOSE t \in Sessions : n \in DOMAIN known[t]) = s
  BY <1>1 DEF EInv, Counted
<1> QED BY <1>1, <1>2 DEF Minted

\* What leaves the page is a replacement of what this very call had typed, for any
\* number of calls, conversations and values, whatever was given up, came late or
\* failed.
THEOREM SendsItsOwn == Spec => []SentIsItsOwnMasked
<1>1. EInv => SentIsItsOwnMasked
  BY MintedIsOfItsSession DEF EInv, SendsRight, TokenOf, SentIsItsOwnMasked
<1> QED BY EInvInit, EInvNext, <1>1, PTL DEF Spec

-----------------------------------------------------------------------------
(* Types. *)

CallTyped(c, call) ==
  /\ call.stage \in Stages
  /\ call.conv \in Convs \union {None}
  /\ call.stage \notin {"idle", "blocked"} => call.conv \in Convs
  /\ call.typed \in Typeable[c] \union {None}
  /\ call.under \subseteq Sessions \union {None}

AskTyped(ask) ==
  /\ ask.session \in Sessions \union {None}
  /\ ask.stage \in {"posted", "stamped", "answered"}

SaidCounted(heard, n) ==
  heard = [k \in Convs |-> heard[k]] /\ \A k \in Convs : heard[k] \subseteq 1..n

Typed ==
  /\ moves \in 0..MaxMoves
  /\ \A c \in Calls : CallTyped(c, calls[c])
  /\ \A ask \in asks : AskTyped(ask)
  /\ SaidCounted(said, counter)

LEMMA TypedInit == Init => Typed
<1> SUFFICES ASSUME Init PROVE Typed
  OBVIOUS
<1>1. \A c \in Calls : calls[c] =
        [stage |-> "idle", conv |-> None, typed |-> None, ask |-> 0, sent |-> <<>>,
         answer |-> <<>>, rest |-> <<>>, unended |-> FALSE, tail |-> <<>>, shown |-> <<>>,
         joined |-> FALSE, under |-> {}]
  BY DEF Init
<1>2. \A c \in Calls : CallTyped(c, calls[c])
  BY <1>1 DEF CallTyped, Stages
<1>3. moves \in 0..MaxMoves
  BY MovesAssumption DEF Init
<1>4. SaidCounted(said, counter)
  BY DEF Init, SaidCounted
<1>5. \A ask \in asks : AskTyped(ask)
  BY DEF Init
<1> QED BY <1>2, <1>3, <1>4, <1>5 DEF Typed

\* A step of one call, with an ask of its own or without.
LEMMA CallTypes ==
  ASSUME EInv, Typed, NEW c \in Calls, NEW call, CallTyped(c, call),
         calls' = [calls EXCEPT ![c] = call],
         \A ask \in asks' : AskTyped(ask),
         SaidCounted(said', counter),
         UNCHANGED <<moves, counter>>
  PROVE  Typed'
<1>1. calls'[c] = call /\ \A d \in Calls \ {c} : calls'[d] = calls[d]
  BY DEF EInv, Records
<1>2. \A d \in Calls : CallTyped(d, calls'[d])
  BY <1>1 DEF Typed
<1> QED BY <1>2 DEF Typed, CallTyped, AskTyped, SaidCounted

LEMMA AskedTypes ==
  ASSUME EInv, Typed, NEW c \in Calls, NEW update, update = CallRecord(update),
         CallTyped(c, update), NEW masking, NEW body, NEW final,
         Asked(c, update, masking, body, final),
         UNCHANGED <<moves, said, counter>>
  PROVE  Typed'
<1>1. PICK call : call = [update EXCEPT !.ask = nextId]
  OBVIOUS
<1>2. CallTyped(c, call)
  BY <1>1 DEF CallTyped, CallRecord
<1>3. calls' = [calls EXCEPT ![c] = call]
  BY <1>1 DEF Asked
<1>4. \A ask \in asks' : AskTyped(ask)
  BY DEF Asked, AskTyped, Typed
<1> QED BY <1>2, <1>3, <1>4, CallTypes DEF Typed

\* A step of one ask.
LEMMA AskTypes ==
  ASSUME EInv, Typed, NEW ask \in asks, NEW new, AskTyped(new),
         asks' = (asks \ {ask}) \union {new},
         counter' \in Nat, counter <= counter',
         UNCHANGED <<moves, calls, said>>
  PROVE  Typed'
<1>1. SaidCounted(said', counter')
  BY DEF Typed, SaidCounted, EInv, Counted
<1> QED BY <1>1 DEF Typed, CallTyped, AskTyped, SaidCounted

LEMMA SendTypes ==
  ASSUME EInv, Typed, NEW c \in Calls, NEW v \in Typeable[c], Send(c, v)
  PROVE  Typed'
<1>1. PICK old : old = calls[c] /\ old = CallRecord(old) /\ CallTyped(c, old)
  BY DEF EInv, Records, Typed
<1>2. PICK conv : conv = IF addr = New THEN CHOOSE k \in FreshIds : TRUE ELSE addr
  OBVIOUS
<1>3. conv \in Convs
  BY <1>2 DEF Send, FreshIds, EInv, Counted, Addresses
<1>4. PICK update : update = [old EXCEPT !.stage = "masking", !.typed = v, !.conv = conv]
  OBVIOUS
<1>5. update = CallRecord(update) /\ CallTyped(c, update)
  BY <1>1, <1>3, <1>4 DEF CallRecord, CallTyped, Stages
<1>6. Asked(c, update, TRUE, <<Original(0, v)>>, FALSE)
  BY <1>1, <1>2, <1>4 DEF Send
<1> QED BY <1>5, <1>6, AskedTypes DEF Send, tab, agent

LEMMA RetryOrRefuseTypes ==
  ASSUME EInv, Typed, NEW c \in Calls, Retry(c) \/ Refuse(c)
  PROVE  Typed'
<1>1. PICK old : old = calls[c] /\ old = CallRecord(old) /\ CallTyped(c, old)
  BY DEF EInv, Records, Typed
<1>2. UNCHANGED <<moves, said, counter, asks>>
  BY DEF Retry, Refuse, tab, agent
<1>3. CASE Retry(c)
  <2>1. PICK call : call = [old EXCEPT !.stage = "sent", !.conv = addr]
    OBVIOUS
  <2>2. CallTyped(c, call)
    BY <1>1, <1>3, <2>1 DEF Retry, CallRecord, CallTyped, Stages, EInv, Counted, Addresses
  <2>3. calls' = [calls EXCEPT ![c] = call]
    BY <1>1, <1>3, <2>1 DEF Retry, EInv, Records
  <2> QED BY <1>2, <2>2, <2>3, CallTypes DEF Typed
<1>4. CASE Refuse(c)
  <2>1. PICK call : call = [old EXCEPT !.stage = "blocked"]
    OBVIOUS
  <2>2. CallTyped(c, call)
    BY <1>1, <2>1 DEF CallRecord, CallTyped, Stages
  <2>3. calls' = [calls EXCEPT ![c] = call]
    BY <1>1, <1>4, <2>1 DEF Refuse, EInv, Records
  <2> QED BY <1>2, <2>2, <2>3, CallTypes DEF Typed
<1> QED BY <1>3, <1>4

LEMMA RespondTypes ==
  ASSUME EInv, Typed, NEW c \in Calls, Respond(c)
  PROVE  Typed'
<1>1. PICK old : old = calls[c] /\ old = CallRecord(old) /\ CallTyped(c, old)
                 /\ old.stage = "sent"
  BY DEF EInv, Records, Typed, Respond
<1>2. UNCHANGED <<moves, said, counter, asks>>
  BY DEF Respond, tab, agent
<1>3. CASE \E unended, echo :
             calls' = [calls EXCEPT ![c].stage = "streaming", ![c].unended = unended,
                                    ![c].answer = echo, ![c].rest = echo]
  <2>1. PICK unended, echo :
             calls' = [calls EXCEPT ![c].stage = "streaming", ![c].unended = unended,
                                    ![c].answer = echo, ![c].rest = echo]
    BY <1>3
  <2>2. PICK call : call = [old EXCEPT !.stage = "streaming", !.unended = unended,
                                       !.answer = echo, !.rest = echo]
    OBVIOUS
  <2>3. CallTyped(c, call)
    BY <1>1, <2>2 DEF CallRecord, CallTyped, Stages
  <2>4. calls' = [calls EXCEPT ![c] = call]
    BY <1>1, <2>1, <2>2 DEF EInv, Records
  <2> QED BY <1>2, <2>3, <2>4, CallTypes DEF Typed
<1>4. CASE calls' = [calls EXCEPT ![c].stage = "done"]
  <2>1. PICK call : call = [old EXCEPT !.stage = "done"]
    OBVIOUS
  <2>2. CallTyped(c, call)
    BY <1>1, <2>1 DEF CallRecord, CallTyped, Stages
  <2>3. calls' = [calls EXCEPT ![c] = call]
    BY <1>1, <1>4, <2>1 DEF EInv, Records
  <2> QED BY <1>2, <2>2, <2>3, CallTypes DEF Typed
<1> QED BY <1>3, <1>4 DEF Respond

LEMMA ReadTypes ==
  ASSUME EInv, Typed, NEW c \in Calls, NextEvent(c) \/ Flush(c)
  PROVE  Typed'
<1>1. PICK old : old = calls[c] /\ old = CallRecord(old) /\ CallTyped(c, old)
                 /\ old.stage = "streaming"
  BY ReadsOn DEF EInv, Records, Typed, Rewrites, Releases
<1>2. UNCHANGED <<moves, said, counter>>
  BY ReadsOn DEF Rewrites, Releases, tab, agent
<1>3. CASE \E body, final : Asked(c, old, FALSE, body, final)
  BY <1>1, <1>2, <1>3, AskedTypes
<1>4. CASE \E shown, rest :
             /\ calls' = [calls EXCEPT ![c].shown = shown, ![c].rest = rest]
             /\ UNCHANGED asks
  <2>1. PICK shown, rest :
             /\ calls' = [calls EXCEPT ![c].shown = shown, ![c].rest = rest]
             /\ UNCHANGED asks
    BY <1>4
  <2>2. PICK call : call = [old EXCEPT !.shown = shown, !.rest = rest]
    OBVIOUS
  <2>3. CallTyped(c, call)
    BY <1>1, <2>2 DEF CallRecord, CallTyped
  <2>4. calls' = [calls EXCEPT ![c] = call]
    BY <1>1, <2>1, <2>2 DEF EInv, Records
  <2> QED BY <1>2, <2>1, <2>3, <2>4, CallTypes DEF Typed
<1>5. CASE calls' = [calls EXCEPT ![c].stage = "done"] /\ UNCHANGED asks
  <2>1. PICK call : call = [old EXCEPT !.stage = "done"]
    OBVIOUS
  <2>2. CallTyped(c, call)
    BY <1>1, <2>1 DEF CallRecord, CallTyped, Stages
  <2>3. calls' = [calls EXCEPT ![c] = call]
    BY <1>1, <1>5, <2>1 DEF EInv, Records
  <2> QED BY <1>2, <1>5, <2>2, <2>3, CallTypes DEF Typed
<1>6. CASE Rewrites(c)
  <2> DEFINE event == Head(old.rest)
  <2>1. CASE event.kind = "delta"
    <3>1. Asked(c, old, FALSE, old.tail \o event.text, FALSE)
      BY <1>1, <1>6, <2>1 DEF Rewrites, Rewrite
    <3> QED BY <1>3, <3>1
  <2>2. CASE event.kind # "delta" /\ (old.tail = <<>> \/ IsKeepAlive(event))
    <3>1. /\ calls' = [calls EXCEPT ![c].shown = @ \o event.text, ![c].rest = Tail(@)]
          /\ UNCHANGED asks
      BY <1>1, <1>6, <2>2 DEF Rewrites, Rewrite
    <3> QED BY <1>4, <3>1
  <2>3. CASE event.kind # "delta" /\ ~(old.tail = <<>> \/ IsKeepAlive(event))
    <3>1. Asked(c, old, FALSE, old.tail, TRUE)
      BY <1>1, <1>6, <2>3 DEF Rewrites, Rewrite
    <3> QED BY <1>3, <3>1
  <2> QED BY <2>1, <2>2, <2>3
<1>7. CASE Releases(c)
  BY <1>1, <1>3, <1>5, <1>7 DEF Releases
<1> QED BY <1>6, <1>7, ReadsOn

\* The index a masked text carries was counted.
LEMMA TokenIsCounted ==
  ASSUME EInv, NEW v, NEW text, TokenOf(v, text)
  PROVE  text[2].index \in 1..counter
<1>1. PICK n : StandsFor(n, v) /\ text = <<Open, Close(n)>>
  BY DEF TokenOf
<1>2. text[2].index = n
  BY <1>1 DEF Close, Piece
<1> QED BY <1>1, <1>2 DEF StandsFor, EInv, Counted

LEMMA ResolvedTypes ==
  ASSUME EInv, Typed, NEW id \in DOMAIN waiting, NEW ask \in asks, NEW ok,
         ok => ask.stage = "answered" /\ ask.ok,
         Resolved(waiting[id], ask, ok), asks' \subseteq asks,
         UNCHANGED <<moves, counter>>
  PROVE  Typed'
<1>1. PICK c \in Calls : c = waiting[id]
  BY DEF EInv, WaitsRight
<1>2. PICK old : old = calls[c] /\ old = CallRecord(old) /\ CallTyped(c, old)
                 /\ old.stage \in {"masking", "streaming"}
  BY <1>1 DEF EInv, Records, Typed, WaitsRight
<1>3. \A a \in asks' : AskTyped(a)
  BY DEF Typed
<1>4. CASE ~ask.masking
  <2>a. PICK joined, shown, tail, rest, under :
          /\ Shown(old, ask, ok) = Goes(old, joined, shown, tail, rest, under)
          /\ under = old.under \union {IF ok THEN ask.session ELSE None}
    BY ShownFields
  <2>1. Shown(old, ask, ok) =
          [old EXCEPT !.ask = 0, !.joined = joined, !.shown = shown, !.tail = tail, !.rest = rest,
                      !.under = old.under \union {IF ok THEN ask.session ELSE None}]
    BY <2>a DEF Goes
  <2>2. PICK call : call =
          [old EXCEPT !.ask = 0, !.joined = joined, !.shown = shown, !.tail = tail, !.rest = rest,
                      !.under = old.under \union {IF ok THEN ask.session ELSE None}]
    OBVIOUS
  <2>3. ask.session \in Sessions \union {None}
    BY DEF Typed, AskTyped
  <2>4. CallTyped(c, call)
    BY <1>2, <2>2, <2>3 DEF CallRecord, CallTyped
  <2>5. calls' = [calls EXCEPT ![c] = call] /\ said' = said
    BY <1>1, <1>2, <1>4, <2>1, <2>2 DEF Resolved
  <2> QED BY <1>3, <2>4, <2>5, CallTypes DEF Typed
<1>5. CASE ask.masking /\ ok
  <2>1. PICK call : call = [old EXCEPT !.stage = "sent", !.ask = 0, !.sent = ask.back]
    OBVIOUS
  <2>2. CallTyped(c, call)
    BY <1>2, <2>1 DEF CallRecord, CallTyped, Stages
  <2>3. calls' = [calls EXCEPT ![c] = call]
    BY <1>1, <1>2, <1>5, <2>1 DEF Resolved, EInv, Records
  <2>4. said' = [said EXCEPT ![old.conv] = said[old.conv] \union {ask.back[2].index}]
    BY <1>1, <1>2, <1>5 DEF Resolved
  <2>5. ask.back[2].index \in 1..counter
    BY <1>5, TokenIsCounted DEF EInv, AsksRight
  <2>6. SaidCounted(said', counter)
    BY <2>4, <2>5 DEF Typed, SaidCounted
  <2> QED BY <1>3, <2>2, <2>3, <2>6, CallTypes
<1>6. CASE ask.masking /\ ~ok
  <2>1. PICK call : call = [old EXCEPT !.stage = "blocked", !.ask = 0]
    OBVIOUS
  <2>2. CallTyped(c, call)
    BY <1>2, <2>1 DEF CallRecord, CallTyped, Stages
  <2>3. calls' = [calls EXCEPT ![c] = call] /\ said' = said
    BY <1>1, <1>2, <1>6, <2>1 DEF Resolved, EInv, Records
  <2> QED BY <1>3, <2>2, <2>3, CallTypes DEF Typed
<1> QED BY <1>4, <1>5, <1>6

LEMMA SettleOrTimeoutTypes ==
  ASSUME EInv, Typed,
         (\E ask \in asks : Settle(ask)) \/ (\E id \in DOMAIN waiting : Timeout(id))
  PROVE  Typed'
<1>1. UNCHANGED <<moves, counter>> /\ asks' \subseteq asks
  BY DEF Settle, Timeout, tab, agent
<1>2. CASE UNCHANGED <<calls, said>>
  BY <1>1, <1>2 DEF Typed, CallTyped, AskTyped, SaidCounted
<1>3. CASE \E ask \in asks : Settle(ask) /\ ~UNCHANGED <<calls, said>>
  <2>1. PICK ask \in asks : Settle(ask) /\ ~UNCHANGED <<calls, said>>
    BY <1>3
  <2>2. PICK id \in Waiter(ask) : Resolved(waiting[id], ask, ask.ok)
    BY <2>1 DEF Settle
  <2>3. id \in DOMAIN waiting /\ ask.stage = "answered"
    BY <2>1 DEF Waiter, Settle
  <2> QED BY <1>1, <2>2, <2>3, ResolvedTypes
<1>4. CASE \E id \in DOMAIN waiting : Timeout(id)
  <2>1. PICK id \in DOMAIN waiting, ask \in asks : Resolved(waiting[id], ask, FALSE)
    BY <1>4 DEF Timeout, ResolveUnreachable
  <2> QED BY <1>1, <2>1, ResolvedTypes
<1> QED BY <1>2, <1>3, <1>4

LEMMA StampTypes ==
  ASSUME EInv, Typed, NEW ask \in asks, Stamp(ask)
  PROVE  Typed'
<1>1. PageSession \in Sessions
  BY DEF EInv, Counted, Addresses, PageSession, Sessions
<1>2. PICK new : new = [ask EXCEPT !.stage = "stamped", !.session = PageSession]
  OBVIOUS
<1>3. AskTyped(new)
  BY <1>1, <1>2 DEF EInv, Records, AskRecord, AskTyped
<1>4. asks' = (asks \ {ask}) \union {new} /\ UNCHANGED <<moves, counter, calls, said>>
  BY <1>2 DEF Stamp, tab, agent
<1> QED BY <1>3, <1>4, AskTypes DEF EInv, Counted

LEMMA ReplyTypes ==
  ASSUME EInv, Typed, NEW ask \in asks, Fail(ask) \/ HandleMask(ask) \/ HandleUnmask(ask)
  PROVE  Typed'
<1>1. PICK ok, back, tail : Replied(ask, ok, back, tail)
  BY DEF Fail, HandleMask, HandleUnmask
<1>2. PICK new : new = [ask EXCEPT !.stage = "answered", !.ok = ok, !.back = back, !.tail = tail]
  OBVIOUS
<1>3. AskTyped(new)
  BY <1>2 DEF EInv, Records, AskRecord, AskTyped, Typed
<1>4. asks' = (asks \ {ask}) \union {new}
  BY <1>1, <1>2 DEF Replied
<1>5. counter' = counter \/ counter' = counter + 1
  BY DEF Fail, HandleMask, HandleUnmask, agent
<1>6. counter' \in Nat /\ counter <= counter'
  BY <1>5 DEF EInv, Counted
<1>7. UNCHANGED <<moves, calls, said>>
  BY DEF Fail, HandleMask, HandleUnmask, tab
<1> QED BY <1>3, <1>4, <1>6, <1>7, AskTypes

LEMMA TypedNext == EInv /\ Typed /\ [Next]_vars => Typed'
<1> SUFFICES ASSUME EInv, Typed, [Next]_vars PROVE Typed'
  OBVIOUS
<1>1. ASSUME NEW c \in Calls, NEW v \in Typeable[c], Send(c, v) PROVE Typed'
  BY <1>1, SendTypes
<1>2. ASSUME NEW c \in Calls, Retry(c) \/ Refuse(c) PROVE Typed'
  BY <1>2, RetryOrRefuseTypes
<1>3. ASSUME NEW c \in Calls, Respond(c) PROVE Typed'
  BY <1>3, RespondTypes
<1>4. ASSUME NEW c \in Calls, NextEvent(c) \/ Flush(c) PROVE Typed'
  BY <1>4, ReadTypes
<1>5. ASSUME NEW ask \in asks, Stamp(ask) PROVE Typed'
  BY <1>5, StampTypes
<1>6. ASSUME NEW ask \in asks, Fail(ask) \/ HandleMask(ask) \/ HandleUnmask(ask) PROVE Typed'
  BY <1>6, ReplyTypes
<1>7. CASE (\E ask \in asks : Settle(ask)) \/ (\E id \in DOMAIN waiting : Timeout(id))
  BY <1>7, SettleOrTimeoutTypes
<1>8. CASE Navigate
  <2>1. moves' \in 0..MaxMoves
    BY <1>8, MovesAssumption DEF Navigate, Typed
  <2> QED BY <1>8, <2>1 DEF Navigate, agent, Typed, CallTyped, AskTyped, SaidCounted
<1>9. CASE UNCHANGED vars
  BY <1>9 DEF vars, Typed, CallTyped, AskTyped, SaidCounted
<1> QED BY <1>1, <1>2, <1>3, <1>4, <1>5, <1>6, <1>7, <1>8, <1>9 DEF Next

\* Every variable keeps its type and an id waits for the call that asked with it,
\* for any number of calls, conversations, values and moves.
THEOREM TypesKept == Spec => []TypeOK
<1>1. EInv /\ Typed => TypeOK
  <2> SUFFICES ASSUME EInv, Typed PROVE TypeOK
    OBVIOUS
  <2>1. DOMAIN Minted \subseteq 1..counter
    BY DEF Minted, EInv, Counted
  <2> QED BY <2>1 DEF EInv, Counted, WaitsRight, Typed, CallTyped, AskTyped, SaidCounted, TypeOK
<1> QED BY EInvInit, EInvNext, TypedInit, TypedNext, <1>1, PTL DEF Spec

-----------------------------------------------------------------------------
(* Texts. *)

\* A piece as the site wrote it, an original as the token it was put in for.
Letters(p) ==
  IF p = Ping THEN <<>> ELSE IF p.kind = "value" THEN <<Open, Close(p.index)>> ELSE <<p>>

\* A text as the site wrote it, without keep-alives.
AsWritten(text) == FlattenSeq([i \in DOMAIN text |-> Letters(text[i])])

\* Where the elements of a concatenation are.
LEMMA ConcatAt ==
  ASSUME NEW S, NEW s \in Seq(S), NEW t \in Seq(S)
  PROVE  /\ s \o t \in Seq(S) /\ Len(s) \in Nat /\ Len(t) \in Nat
         /\ Len(s \o t) = Len(s) + Len(t)
         /\ DOMAIN s = 1..Len(s) /\ DOMAIN t = 1..Len(t)
         /\ DOMAIN (s \o t) = 1..Len(s) + Len(t)
         /\ \A i \in 1..Len(s) + Len(t) : (s \o t)[i] = IF i <= Len(s) THEN s[i] ELSE t[i - Len(s)]
OBVIOUS

\* A function with the elements of a concatenation is one.
LEMMA ConcatIs ==
  ASSUME NEW S, NEW s \in Seq(S), NEW t \in Seq(S), NEW u,
         DOMAIN u = 1..Len(s) + Len(t), u = [i \in DOMAIN u |-> u[i]],
         \A i \in 1..Len(s) + Len(t) : u[i] = IF i <= Len(s) THEN s[i] ELSE t[i - Len(s)]
  PROVE  u = s \o t
<1>1. PICK v : v = s \o t
  OBVIOUS
<1>2. /\ DOMAIN v = DOMAIN u /\ v \in Seq(S)
      /\ \A i \in 1..Len(s) + Len(t) : v[i] = IF i <= Len(s) THEN s[i] ELSE t[i - Len(s)]
  BY <1>1, ConcatAt
<1>3. v = [i \in DOMAIN v |-> v[i]]
  BY <1>2
<1>4. v = u
  BY <1>2, <1>3
<1> QED BY <1>1, <1>4

\* The written form of nothing, and of one piece.
LEMMA AsWrittenFew ==
  /\ AsWritten(<<>>) = <<>>
  /\ \A p : AsWritten(<<p>>) = Letters(p)
<1>1. AsWritten(<<>>) = <<>>
  <2>1. [i \in DOMAIN <<>> |-> Letters(<<>>[i])] = <<>>
    OBVIOUS
  <2> QED BY <2>1, FlattenEmpty DEF AsWritten
<1>2. ASSUME NEW p PROVE AsWritten(<<p>>) = Letters(p)
  <2>1. [i \in DOMAIN <<p>> |-> Letters(<<p>>[i])] = <<Letters(p)>>
    OBVIOUS
  <2> QED BY <2>1, FlattenOne DEF AsWritten
<1> QED BY <1>1, <1>2

\* The text of a stream is that of its first event, and then the rest's.
LEMMA RawInTurn ==
  ASSUME NEW S, NEW E, \A e \in E : e.text \in Seq(S), NEW r \in Seq(E)
  PROVE  /\ Raw(r) \in Seq(S)
         /\ r # <<>> => Raw(r) = Head(r).text \o Raw(Tail(r))
         /\ Raw(<<>>) = <<>>
<1>1. PICK a, b : /\ a = [i \in DOMAIN r |-> r[i].text]
                  /\ b = [i \in DOMAIN Tail(r) |-> Tail(r)[i].text]
  OBVIOUS
<1>2. a \in Seq(Seq(S))
  BY <1>1
<1>3. FlattenSeq(a) \in Seq(S)
  BY <1>2, FlattenTyped
<1>4. ASSUME r # <<>> PROVE FlattenSeq(a) = Head(r).text \o FlattenSeq(b)
  <2>1. /\ <<Head(r).text>> \in Seq(Seq(S)) /\ b \in Seq(Seq(S))
        /\ a = <<Head(r).text>> \o b
    BY <1>1, <1>4
  <2>2. FlattenSeq(<<Head(r).text>> \o b) = FlattenSeq(<<Head(r).text>>) \o FlattenSeq(b)
    BY <2>1, FlattenFacts, Zenon
  <2> QED BY <2>1, <2>2, FlattenOne
<1>5. Raw(<<>>) = <<>>
  <2>1. [i \in DOMAIN <<>> |-> <<>>[i].text] = <<>>
    OBVIOUS
  <2> QED BY <2>1, FlattenEmpty DEF Raw
<1> QED BY <1>1, <1>3, <1>4, <1>5 DEF Raw

-----------------------------------------------------------------------------
(* Tokens in a text. *)

\* A token of one of the indexes, whole or with keep-alives in it.
TokenIn(text, indexes) ==
  \E i, j \in DOMAIN text :
    /\ i < j /\ text[i] = Open
    /\ text[j].kind = "close" /\ text[j].index \in indexes
    /\ \A k \in i + 1..j - 1 : text[k] = Ping

\* What follows a text may finish a token that it begins.
EndsOpen(text) ==
  \E i \in DOMAIN text : text[i] = Open /\ \A k \in i + 1..Len(text) : text[k] = Ping

\* A text may finish a token that began before it.
StartsClosed(text, indexes) ==
  \E j \in DOMAIN text :
    /\ text[j].kind = "close" /\ text[j].index \in indexes
    /\ \A k \in 1..j - 1 : text[k] = Ping

\* Two texts without a token make one only where the second finishes what the first
\* began.
LEMMA TokenAcross ==
  ASSUME NEW S, NEW a \in Seq(S), NEW b \in Seq(S), NEW indexes,
         ~TokenIn(a, indexes), ~TokenIn(b, indexes), EndsOpen(a) => ~StartsClosed(b, indexes)
  PROVE  ~TokenIn(a \o b, indexes)
<1> PICK t : t = a \o b
  OBVIOUS
<1>1. /\ DOMAIN t = 1..Len(a) + Len(b) /\ DOMAIN a = 1..Len(a) /\ DOMAIN b = 1..Len(b)
      /\ Len(a) \in Nat /\ Len(b) \in Nat
      /\ \A i \in 1..Len(a) + Len(b) : t[i] = IF i <= Len(a) THEN a[i] ELSE b[i - Len(a)]
  BY ConcatAt
<1>2. /\ \A i \in 1..Len(a) : t[i] = a[i]
      /\ \A i \in 1..Len(b) : t[Len(a) + i] = b[i]
  BY <1>1
<1> SUFFICES ASSUME NEW i \in DOMAIN t, NEW j \in DOMAIN t, i < j, t[i] = Open,
                    t[j].kind = "close", t[j].index \in indexes,
                    \A k \in i + 1..j - 1 : t[k] = Ping
             PROVE  FALSE
  BY Zenon DEF TokenIn
<1>3. i \in Nat /\ j \in Nat /\ i >= 1 /\ j >= 1
  BY <1>1
<1>4. CASE j <= Len(a)
  <2>1. i \in DOMAIN a /\ j \in DOMAIN a /\ a[i] = Open /\ a[j] = t[j]
    BY <1>1, <1>2, <1>3, <1>4
  <2>2. \A k \in i + 1..j - 1 : a[k] = Ping
    BY <1>1, <1>2, <1>3, <1>4
  <2> QED BY <2>1, <2>2 DEF TokenIn
<1>5. CASE i > Len(a)
  <2> DEFINE m == i - Len(a)
             n == j - Len(a)
  <2>1. m \in DOMAIN b /\ n \in DOMAIN b /\ m < n /\ b[m] = Open /\ b[n] = t[j]
    BY <1>1, <1>2, <1>3, <1>5
  <2>2. ASSUME NEW k \in m + 1..n - 1 PROVE b[k] = Ping
    <3>1. Len(a) + k \in i + 1..j - 1 /\ k \in 1..Len(b)
      BY <1>1, <1>3, <1>5
    <3> QED BY <1>2, <3>1
  <2> HIDE DEF m, n
  <2> QED BY <2>1, <2>2 DEF TokenIn
<1>6. CASE i <= Len(a) /\ j > Len(a)
  <2>1. EndsOpen(a)
    <3>1. i \in DOMAIN a /\ a[i] = Open
      BY <1>1, <1>2, <1>3, <1>6
    <3>2. \A k \in i + 1..Len(a) : a[k] = Ping
      BY <1>1, <1>2, <1>3, <1>6
    <3> QED BY <3>1, <3>2 DEF EndsOpen
  <2>2. StartsClosed(b, indexes)
    <3> DEFINE n == j - Len(a)
    <3>1. n \in DOMAIN b /\ b[n] = t[j]
      BY <1>1, <1>2, <1>3, <1>6
    <3>2. ASSUME NEW k \in 1..n - 1 PROVE b[k] = Ping
      <4>1. Len(a) + k \in i + 1..j - 1 /\ k \in 1..Len(b)
        BY <1>1, <1>3, <1>6
      <4> QED BY <1>2, <4>1
    <3> HIDE DEF n
    <3> QED BY <3>1, <3>2 DEF StartsClosed
  <2> QED BY <2>1, <2>2
<1> QED BY <1>1, <1>3, <1>4, <1>5, <1>6

\* What a longer text may leave to be finished, its end does, or is only keep-alives.
LEMMA EndsOpenAcross ==
  ASSUME NEW S, NEW a \in Seq(S), NEW b \in Seq(S), EndsOpen(a \o b)
  PROVE  EndsOpen(b) \/ (EndsOpen(a) /\ \A k \in DOMAIN b : b[k] = Ping)
<1> PICK t : t = a \o b
  OBVIOUS
<1>1. /\ DOMAIN t = 1..Len(a) + Len(b) /\ DOMAIN a = 1..Len(a) /\ DOMAIN b = 1..Len(b)
      /\ Len(a) \in Nat /\ Len(b) \in Nat /\ Len(t) = Len(a) + Len(b)
      /\ \A i \in 1..Len(a) + Len(b) : t[i] = IF i <= Len(a) THEN a[i] ELSE b[i - Len(a)]
  BY ConcatAt
<1>2. /\ \A i \in 1..Len(a) : t[i] = a[i]
      /\ \A i \in 1..Len(b) : t[Len(a) + i] = b[i]
  BY <1>1
<1>3. PICK i \in DOMAIN t : t[i] = Open /\ \A k \in i + 1..Len(t) : t[k] = Ping
  BY Zenon DEF EndsOpen
<1>4. CASE i <= Len(a)
  <2>1. i \in DOMAIN a /\ a[i] = Open /\ \A k \in i + 1..Len(a) : a[k] = Ping
    BY <1>1, <1>2, <1>3, <1>4
  <2>2. \A k \in DOMAIN b : b[k] = Ping
    <3> TAKE k \in DOMAIN b
    <3>1. Len(a) + k \in i + 1..Len(t) /\ k \in 1..Len(b)
      BY <1>1, <1>4
    <3> QED BY <1>2, <1>3, <3>1
  <2> QED BY <2>1, <2>2 DEF EndsOpen
<1>5. CASE i > Len(a)
  <2> DEFINE m == i - Len(a)
  <2>1. m \in DOMAIN b /\ b[m] = Open
    BY <1>1, <1>2, <1>3, <1>5
  <2>2. ASSUME NEW k \in m + 1..Len(b) PROVE b[k] = Ping
    <3>1. Len(a) + k \in i + 1..Len(t) /\ k \in 1..Len(b)
      BY <1>1, <1>5
    <3> QED BY <1>2, <1>3, <3>1
  <2> HIDE DEF m
  <2> QED BY <2>1, <2>2 DEF EndsOpen
<1> QED BY <1>1, <1>4, <1>5

-----------------------------------------------------------------------------
(* Expanding a text. *)

\* Pieces the agent has put back.
Restored == UNION {{Original(n, known[s][n]) : n \in DOMAIN known[s]} : s \in Sessions}

\* Pieces of an answer, which echo indexes that were given.
Heard ==
  [kind : {"word", "open"}, index : Nat, value : {None}] \union {Close(n) : n \in 1..counter}

\* Every piece a page can have or be sent.
Pieces == Heard \union Restored \union {Ping, Stop}

\* What a site writes.
Letter == Generated \union {Stop}

\* g is the function that Expand is defined by, up to m.
ExpandedTo(session, body, g, m) ==
  g = [n \in 0..m |-> IF n = 0 THEN <<>> ELSE PutBack(session, g[n - 1], body[n])]

\* There is such a function, up to any m.
LEMMA ExpandedExists ==
  ASSUME NEW session, NEW body
  PROVE  \A m \in Nat : \E g : ExpandedTo(session, body, g, m)
<1> DEFINE M == {m \in Nat : \E g : ExpandedTo(session, body, g, m)}
<1>1. 0 \in M
  <2>1. ExpandedTo(session, body, [n \in 0..0 |-> <<>>], 0)
    BY DEF ExpandedTo
  <2> QED BY <2>1
<1>2. ASSUME NEW m \in Nat, m \in M PROVE m + 1 \in M
  <2>1. PICK g : ExpandedTo(session, body, g, m)
    BY <1>2
  <2> DEFINE h == [n \in 0..m+1 |-> IF n = m + 1 THEN PutBack(session, g[m], body[n]) ELSE g[n]]
  <2>2. \A n \in 0..m : h[n] = g[n]
    OBVIOUS
  <2>3. \A n \in 0..m : g[n] = IF n = 0 THEN <<>> ELSE PutBack(session, g[n - 1], body[n])
    BY <2>1 DEF ExpandedTo
  <2>4. \A n \in 0..m+1 : h[n] = IF n = 0 THEN <<>> ELSE PutBack(session, h[n - 1], body[n])
    BY <2>2, <2>3
  <2>5. ExpandedTo(session, body, h, m + 1)
    BY <2>4 DEF ExpandedTo
  <2> QED BY <2>5
<1> HIDE DEF M
<1>3. M = Nat
  BY <1>1, <1>2, Induction DEF M
<1> QED BY <1>3 DEF M

\* And Expand is its last value.
LEMMA ExpandUnfolds ==
  ASSUME NEW session, NEW body, Len(body) \in Nat
  PROVE  \E g : ExpandedTo(session, body, g, Len(body)) /\ Expand(session, body) = g[Len(body)]
<1> DEFINE done == CHOOSE g : g = [n \in 0..Len(body) |->
                     IF n = 0 THEN <<>> ELSE PutBack(session, g[n - 1], body[n])]
<1>1. Expand(session, body) = done[Len(body)]
  BY DEF Expand
<1>2. PICK g : g = [n \in 0..Len(body) |->
                 IF n = 0 THEN <<>> ELSE PutBack(session, g[n - 1], body[n])]
  <2> HIDE DEF done
  <2>1. PICK g : ExpandedTo(session, body, g, Len(body))
    BY ExpandedExists
  <2> QED BY <2>1 DEF ExpandedTo
<1>3. done = [n \in 0..Len(body) |->
                IF n = 0 THEN <<>> ELSE PutBack(session, done[n - 1], body[n])]
  BY <1>2
<1> HIDE DEF done
<1> QED BY <1>1, <1>3 DEF ExpandedTo

\* What is known of a text that is half expanded.
HalfExpanded(session, text, done) ==
  /\ done \in Seq(Heard \union Restored)
  /\ AsWritten(done) = AsWritten(text)
  /\ ~TokenIn(done, DOMAIN known[session])
  /\ done # <<>> /\ Last(done) = Open => text # <<>> /\ Last(text) = Open
  /\ text # <<>> /\ text[1] = Open => done # <<>> /\ done[1].kind # "close"
  /\ text = <<>> => done = <<>>

\* The agent's books hold no index that was not counted.
IndexesCounted ==
  counter \in Nat /\ \A s \in Sessions : \A n \in DOMAIN known[s] : n \in 1..counter

\* What each kind of piece is, and how it was written.
LEMMA PiecesAreWritten ==
  ASSUME IndexesCounted
  PROVE  /\ \A p \in Pieces : Letters(p) \in Seq(Letter)
         /\ \A p \in Heard \union Restored : p # Ping
         /\ \A p \in Restored : p.kind = "value"
         /\ \A p \in Heard : p.kind \in {"word", "open", "close"} /\ Letters(p) = <<p>>
         /\ Letters(Ping) = <<>> /\ Letters(Open) = <<Open>> /\ Letters(Stop) = <<Stop>>
         /\ Open \in Heard
<1>1. \A p \in Restored : \E n \in 1..counter : \E v : p = Original(n, v)
  BY DEF Restored, IndexesCounted
<1>2. \A p \in Restored : p.kind = "value" /\ p.index \in Nat /\ p # Ping
  BY <1>1 DEF Original, Piece, Ping
<1>3. \A p \in Heard : p.kind \in {"word", "open", "close"} /\ p # Ping /\ p \in Generated
  BY DEF Heard, Close, Piece, Ping, Generated, IndexesCounted
<1>4. Open \in Generated /\ \A n \in Nat : Close(n) \in Generated
  BY DEF Open, Close, Piece, Generated
<1>5. \A p \in Restored : Letters(p) \in Seq(Letter)
  <2> TAKE p \in Restored
  <2>1. Letters(p) = <<Open, Close(p.index)>>
    BY <1>2 DEF Letters
  <2>2. Open \in Letter /\ Close(p.index) \in Letter
    BY <1>2, <1>4 DEF Letter
  <2> QED BY <2>1, <2>2
<1>6. \A p \in Heard : Letters(p) = <<p>> /\ <<p>> \in Seq(Letter)
  BY <1>3 DEF Letters, Letter
<1>7. Letters(Ping) = <<>> /\ Letters(Open) = <<Open>> /\ Letters(Stop) = <<Stop>>
  BY DEF Letters, Ping, Stop, Open, Piece
<1>8. Letters(Ping) \in Seq(Letter) /\ Letters(Stop) \in Seq(Letter)
  BY <1>7 DEF Letter
<1>9. Open \in Heard
  BY DEF Open, Piece, Heard
<1> QED BY <1>2, <1>3, <1>5, <1>6, <1>7, <1>8, <1>9 DEF Pieces

\* The last piece of a text, and what is before it.
LEMMA AppendFacts ==
  ASSUME NEW S, NEW s \in Seq(S), NEW x \in S
  PROVE  /\ Append(s, x) \in Seq(S) /\ Append(s, x) = s \o <<x>> /\ <<x>> \in Seq(S)
         /\ Append(s, x) # <<>> /\ Last(Append(s, x)) = x
         /\ s = <<>> => Append(s, x)[1] = x
         /\ s # <<>> => Append(s, x)[1] = s[1]
<1>1. PICK t : t = Append(s, x)
  OBVIOUS
<1>2. /\ t \in Seq(S) /\ Len(t) = Len(s) + 1 /\ Len(s) \in Nat /\ t[Len(s) + 1] = x
      /\ \A i \in 1..Len(s) : t[i] = s[i]
  BY <1>1
<1>3. t # <<>> /\ Last(t) = x /\ (s = <<>> => t[1] = x) /\ (s # <<>> => t[1] = s[1])
  BY <1>2 DEF Last
<1>4. Append(s, x) = s \o <<x>> /\ <<x>> \in Seq(S)
  OBVIOUS
<1> QED BY <1>1, <1>2, <1>3, <1>4

\* A text is its front and its last piece.
LEMMA FrontFacts ==
  ASSUME NEW S, NEW s \in Seq(S), s # <<>>
  PROVE  /\ Front(s) \in Seq(S) /\ s = Front(s) \o <<Last(s)>>
         /\ Last(s) \in S
         /\ DOMAIN Front(s) = 1..Len(s) - 1
         /\ \A i \in DOMAIN Front(s) : i \in DOMAIN s /\ Front(s)[i] = s[i]
         /\ Front(s) # <<>> => Front(s)[1] = s[1]
         /\ Len(s) \in Nat \ {0} /\ DOMAIN s = 1..Len(s) /\ Last(s) = s[Len(s)]
BY DEF Front, Last

\* Without keep-alives, only its last piece can begin a token a text leaves open.
LEMMA NoPingEndsOpen ==
  ASSUME NEW S, NEW s \in Seq(S), \A p \in S : p # Ping, EndsOpen(s)
  PROVE  s # <<>> /\ Last(s) = Open
<1>1. PICK i \in DOMAIN s : s[i] = Open /\ \A k \in i + 1..Len(s) : s[k] = Ping
  BY DEF EndsOpen
<1>2. i \in 1..Len(s) /\ Len(s) \in Nat
  OBVIOUS
<1>3. i = Len(s)
  <2> SUFFICES ASSUME i # Len(s) PROVE FALSE
    OBVIOUS
  <2>1. Len(s) \in i + 1..Len(s) /\ s[Len(s)] \in S
    BY <1>2
  <2> QED BY <1>1, <2>1
<1> QED BY <1>1, <1>2, <1>3 DEF Last

\* One piece is no token, and at most finishes one.
LEMMA OnePiece ==
  ASSUME NEW p, NEW indexes
  PROVE  /\ ~TokenIn(<<p>>, indexes)
         /\ StartsClosed(<<p>>, indexes) => p.kind = "close" /\ p.index \in indexes
<1>1. DOMAIN <<p>> = {1} /\ <<p>>[1] = p
  OBVIOUS
<1> PICK t : t = <<p>>
  OBVIOUS
<1>2. ~TokenIn(t, indexes)
  BY <1>1 DEF TokenIn
<1>3. StartsClosed(t, indexes) => p.kind = "close" /\ p.index \in indexes
  BY <1>1 DEF StartsClosed
<1> QED BY <1>2, <1>3

\* Texts are written one after another.
LEMMA WrittenInTurn ==
  ASSUME IndexesCounted, NEW s \in Seq(Pieces), NEW t \in Seq(Pieces)
  PROVE  /\ AsWritten(s) \in Seq(Letter)
         /\ AsWritten(s \o t) = AsWritten(s) \o AsWritten(t)
<1>0. \A p \in Pieces : Letters(p) \in Seq(Letter)
  BY PiecesAreWritten
<1>1. PICK a, b, ab : /\ a = [i \in DOMAIN s |-> Letters(s[i])]
                      /\ b = [i \in DOMAIN t |-> Letters(t[i])]
                      /\ ab = [i \in DOMAIN (s \o t) |-> Letters((s \o t)[i])]
  OBVIOUS
<1>2. a \in Seq(Seq(Letter)) /\ b \in Seq(Seq(Letter))
  <2>1. \A i \in DOMAIN s : Letters(s[i]) \in Seq(Letter)
    BY <1>0
  <2>2. \A i \in DOMAIN t : Letters(t[i]) \in Seq(Letter)
    BY <1>0
  <2>3. DOMAIN s = 1..Len(s) /\ DOMAIN t = 1..Len(t) /\ Len(s) \in Nat /\ Len(t) \in Nat
    OBVIOUS
  <2> QED BY <1>1, <2>1, <2>2, <2>3
<1>3. ab = a \o b
  <2>1. /\ DOMAIN (s \o t) = 1..Len(s) + Len(t) /\ Len(s) \in Nat /\ Len(t) \in Nat
        /\ DOMAIN s = 1..Len(s) /\ DOMAIN t = 1..Len(t)
        /\ \A i \in 1..Len(s) + Len(t) : (s \o t)[i] = IF i <= Len(s) THEN s[i] ELSE t[i - Len(s)]
    BY ConcatAt
  <2>2. Len(a) = Len(s) /\ Len(b) = Len(t)
    BY <1>1, <1>2, <2>1
  <2>3. \A i \in 1..Len(s) + Len(t) : ab[i] = IF i <= Len(s) THEN a[i] ELSE b[i - Len(s)]
    BY <1>1, <2>1
  <2>4. DOMAIN ab = 1..Len(s) + Len(t) /\ ab = [i \in DOMAIN ab |-> ab[i]]
    BY <1>1, <2>1
  <2>5. /\ DOMAIN ab = 1..Len(a) + Len(b)
        /\ \A i \in 1..Len(a) + Len(b) : ab[i] = IF i <= Len(a) THEN a[i] ELSE b[i - Len(a)]
    BY <2>2, <2>3, <2>4
  <2> QED BY <1>2, <2>4, <2>5, ConcatIs, Zenon
<1>4. FlattenSeq(a) \in Seq(Letter) /\ FlattenSeq(a \o b) = FlattenSeq(a) \o FlattenSeq(b)
  BY <1>2, FlattenFacts, Zenon
<1> QED BY <1>1, <1>3, <1>4 DEF AsWritten

\* One more piece keeps a half expanded text one.
LEMMA PutBackKeeps ==
  ASSUME IndexesCounted, NEW session \in Sessions, NEW text \in Seq(Heard), NEW p \in Heard,
         NEW done, HalfExpanded(session, text, done)
  PROVE  HalfExpanded(session, Append(text, p), PutBack(session, done, p))
<1> DEFINE W == Heard \union Restored
           K == DOMAIN known[session]
<1>1. /\ done \in Seq(W) /\ AsWritten(done) = AsWritten(text) /\ ~TokenIn(done, K)
      /\ done # <<>> /\ Last(done) = Open => text # <<>> /\ Last(text) = Open
      /\ text # <<>> /\ text[1] = Open => done # <<>> /\ done[1].kind # "close"
      /\ text = <<>> => done = <<>>
  BY DEF HalfExpanded
<1>2. /\ W \subseteq Pieces /\ Heard \subseteq Pieces /\ p \in W
      /\ \A q \in W : q # Ping
      /\ Letters(p) = <<p>>
  <2>1. W \subseteq Pieces /\ Heard \subseteq Pieces /\ p \in W
    BY DEF Pieces
  <2>2. \A q \in W : q # Ping
    BY PiecesAreWritten
  <2>3. Letters(p) = <<p>>
    BY PiecesAreWritten
  <2> QED BY <2>1, <2>2, <2>3
<1>3. /\ Append(text, p) = text \o <<p>> /\ <<p>> \in Seq(Heard) /\ Append(text, p) # <<>>
      /\ Last(Append(text, p)) = p
      /\ text = <<>> => Append(text, p)[1] = p
      /\ text # <<>> => Append(text, p)[1] = text[1]
  BY AppendFacts
<1>4. text \in Seq(Pieces) /\ <<p>> \in Seq(Pieces) /\ done \in Seq(Pieces)
  BY <1>1, <1>2, <1>3
<1>5. AsWritten(<<p>>) = <<p>>
  BY <1>2, AsWrittenFew
<1>6. AsWritten(Append(text, p)) = AsWritten(text) \o <<p>>
  BY <1>3, <1>4, <1>5, WrittenInTurn
<1> DEFINE complete == p.kind = "close" /\ p.index \in K /\ done # <<>> /\ Last(done) = Open
<1>7. CASE ~complete
  <2>1. PutBack(session, done, p) = Append(done, p)
    BY <1>7 DEF PutBack
  <2>2. /\ Append(done, p) \in Seq(W) /\ Append(done, p) = done \o <<p>>
        /\ <<p>> \in Seq(W) /\ Append(done, p) # <<>> /\ Last(Append(done, p)) = p
        /\ done = <<>> => Append(done, p)[1] = p
        /\ done # <<>> => Append(done, p)[1] = done[1]
    BY <1>1, <1>2, AppendFacts
  <2>3. AsWritten(Append(done, p)) = AsWritten(Append(text, p))
    BY <1>1, <1>4, <1>5, <1>6, <2>2, WrittenInTurn
  <2>4. EndsOpen(done) => done # <<>> /\ Last(done) = Open
    BY <1>1, <1>2, NoPingEndsOpen
  <2>5. ~TokenIn(Append(done, p), K)
    BY <1>1, <1>7, <2>2, <2>4, OnePiece, TokenAcross
  <2>6. Append(text, p)[1] = Open => Append(done, p)[1].kind # "close"
    BY <1>1, <1>3, <2>2 DEF Open, Piece
  <2> QED BY <1>3, <2>1, <2>2, <2>3, <2>5, <2>6 DEF HalfExpanded
<1>8. CASE complete
  <2> PICK x : x = Original(p.index, known[session][p.index])
    OBVIOUS
  <2>1. PutBack(session, done, p) = Append(Front(done), x)
    BY <1>8 DEF PutBack
  <2>2. x \in Restored /\ x.kind = "value" /\ x.index = p.index /\ x # Ping
    BY <1>8 DEF Restored, Original, Piece, Ping
  <2>3. /\ Front(done) \in Seq(W) /\ done = Front(done) \o <<Open>>
        /\ DOMAIN Front(done) = 1..Len(done) - 1 /\ DOMAIN done = 1..Len(done)
        /\ \A i \in DOMAIN Front(done) : i \in DOMAIN done /\ Front(done)[i] = done[i]
        /\ Front(done) # <<>> => Front(done)[1] = done[1]
    BY <1>1, <1>8, FrontFacts
  <2> PICK front : front = Front(done)
    OBVIOUS
  <2>4. /\ Append(front, x) \in Seq(W) /\ Append(front, x) = front \o <<x>>
        /\ <<x>> \in Seq(W) /\ Append(front, x) # <<>> /\ Last(Append(front, x)) = x
        /\ front = <<>> => Append(front, x)[1] = x
        /\ front # <<>> => Append(front, x)[1] = front[1]
    BY <2>2, <2>3, AppendFacts
  <2>5. p = Close(p.index)
    BY <1>8 DEF Heard, Close, Piece
  <2>6. AsWritten(Append(front, x)) = AsWritten(Append(text, p))
    <3>1. AsWritten(<<x>>) = <<Open, p>> /\ AsWritten(<<Open>>) = <<Open>>
      BY <2>2, <2>5, AsWrittenFew, PiecesAreWritten DEF Letters
    <3>2. front \in Seq(Pieces) /\ <<x>> \in Seq(Pieces) /\ <<Open>> \in Seq(Pieces)
      BY <1>2, <2>3, <2>4, PiecesAreWritten
    <3>3. AsWritten(Append(front, x)) = AsWritten(front) \o <<Open, p>>
      BY <2>4, <3>1, <3>2, WrittenInTurn
    <3>4. AsWritten(text) = AsWritten(front) \o <<Open>>
      BY <1>1, <2>3, <3>1, <3>2, WrittenInTurn
    <3>5. AsWritten(front) \in Seq(Letter)
      BY <3>2, WrittenInTurn
    <3>6. p \in Letter /\ Open \in Letter
      BY PiecesAreWritten DEF Heard, IndexesCounted, Letter, Generated, Close, Piece
    <3> PICK f : f = AsWritten(front)
      OBVIOUS
    <3>7. (f \o <<Open>>) \o <<p>> = f \o <<Open, p>>
      BY <3>5, <3>6
    <3> QED BY <1>6, <3>3, <3>4, <3>7, Zenon
  <2>7. ~TokenIn(Append(front, x), K)
    <3>1. ASSUME TokenIn(front, K) PROVE FALSE
      <4>1. PICK i, j \in DOMAIN front :
               /\ i < j /\ front[i] = Open
               /\ front[j].kind = "close" /\ front[j].index \in K
               /\ \A k \in i + 1..j - 1 : front[k] = Ping
        BY <3>1 DEF TokenIn
      <4>2. /\ i \in DOMAIN done /\ j \in DOMAIN done
            /\ done[i] = Open /\ done[j] = front[j]
        BY <2>3, <4>1
      <4>3. i \in 1..Len(done) - 1 /\ j \in 1..Len(done) - 1 /\ Len(done) \in Nat
        BY <1>1, <2>3
      <4>4. \A k \in i + 1..j - 1 : done[k] = Ping
        <5> TAKE k \in i + 1..j - 1
        <5>1. k \in DOMAIN front
          BY <2>3, <4>3
        <5> QED BY <2>3, <4>1, <5>1
      <4> QED BY <1>1, <4>1, <4>2, <4>4 DEF TokenIn
    <3>2. ~TokenIn(<<x>>, K) /\ ~StartsClosed(<<x>>, K)
      BY <2>2, OnePiece
    <3>3. front \in Seq(W) /\ <<x>> \in Seq(W)
      BY <2>3, <2>4
    <3> QED BY <2>4, <3>1, <3>2, <3>3, TokenAcross
  <2>8. x # Open
    BY <2>2 DEF Open, Piece
  <2>9. Append(text, p)[1] = Open => Append(front, x)[1].kind # "close"
    BY <1>1, <1>3, <1>8, <2>2, <2>3, <2>4
  <2> QED BY <1>3, <2>1, <2>4, <2>6, <2>7, <2>8, <2>9 DEF HalfExpanded
<1> QED BY <1>7, <1>8

\* Expander.Unmask returns what was written, with every token of the session put back.
LEMMA ExpandKeeps ==
  ASSUME IndexesCounted, NEW session \in Sessions, NEW body \in Seq(Heard)
  PROVE  HalfExpanded(session, body, Expand(session, body))
<1>1. /\ SubSeq(body, 1, 0) = <<>> /\ SubSeq(body, 1, Len(body)) = body /\ Len(body) \in Nat
      /\ \A m \in Nat : m + 1 <= Len(body) =>
           /\ SubSeq(body, 1, m) \in Seq(Heard) /\ body[m + 1] \in Heard
           /\ SubSeq(body, 1, m + 1) = Append(SubSeq(body, 1, m), body[m + 1])
  BY PrefixFacts
<1>2. PICK g : ExpandedTo(session, body, g, Len(body)) /\ Expand(session, body) = g[Len(body)]
  BY <1>1, ExpandUnfolds, Zenon
<1>3. \A n \in 0..Len(body) : g[n] = IF n = 0 THEN <<>> ELSE PutBack(session, g[n - 1], body[n])
  BY <1>2 DEF ExpandedTo
<1> DEFINE M == {m \in Nat : m <= Len(body) => HalfExpanded(session, SubSeq(body, 1, m), g[m])}
<1>4. 0 \in M
  <2>1. g[0] = <<>>
    BY <1>1, <1>3
  <2>2. HalfExpanded(session, <<>>, <<>>)
    BY DEF HalfExpanded, TokenIn
  <2> QED BY <1>1, <2>1, <2>2
<1>5. ASSUME NEW m \in Nat, m \in M, m + 1 <= Len(body)
      PROVE  HalfExpanded(session, SubSeq(body, 1, m + 1), g[m + 1])
  <2>1. HalfExpanded(session, SubSeq(body, 1, m), g[m])
    BY <1>1, <1>5
  <2>2. g[m + 1] = PutBack(session, g[m], body[m + 1])
    BY <1>1, <1>3, <1>5
  <2>3. /\ SubSeq(body, 1, m) \in Seq(Heard) /\ body[m + 1] \in Heard
        /\ SubSeq(body, 1, m + 1) = Append(SubSeq(body, 1, m), body[m + 1])
    BY <1>1, <1>5
  <2>4. HalfExpanded(session, Append(SubSeq(body, 1, m), body[m + 1]),
                     PutBack(session, g[m], body[m + 1]))
    BY <2>1, <2>3, PutBackKeeps, Zenon
  <2> QED BY <2>2, <2>3, <2>4, Zenon
<1>6. ASSUME NEW m \in Nat, m \in M PROVE m + 1 \in M
  <2>1. m + 1 \in Nat
    OBVIOUS
  <2> QED BY <1>5, <1>6, <2>1, Zenon
<1> HIDE DEF M
<1>7. M = Nat
  BY <1>4, <1>6, Induction DEF M
<1>8. Len(body) \in M /\ Len(body) <= Len(body)
  BY <1>1, <1>7
<1> QED BY <1>1, <1>2, <1>8 DEF M

\* What an answered ask says of its text.
RestoredAs(body, final, session, back, tail) ==
  /\ back \in Seq(Heard \union Restored)
  /\ tail \in {<<>>, <<Open>>} /\ (final => tail = <<>>)
  /\ AsWritten(back) \o tail = AsWritten(body)
  /\ ~TokenIn(back, DOMAIN known[session])
  /\ EndsOpen(back) /\ ~final => tail # <<>>
  /\ body # <<>> /\ body[1] = Open => ~StartsClosed(back, DOMAIN known[session])

\* Cutting nothing off a text leaves it.
LEMMA CutNothing ==
  ASSUME NEW S, NEW body \in Seq(S)
  PROVE  /\ SubSeq(body, 1, Len(body) - 0) = body
         /\ SubSeq(body, Len(body) + 1, Len(body)) = <<>>
         /\ body \o <<>> = body
OBVIOUS

\* Cutting the last piece off a text leaves its front.
LEMMA CutLast ==
  ASSUME NEW S, NEW body \in Seq(S), body # <<>>
  PROVE  /\ SubSeq(body, 1, Len(body) - 1) \in Seq(S)
         /\ Len(SubSeq(body, 1, Len(body) - 1)) + 1 = Len(body)
         /\ SubSeq(body, Len(body), Len(body)) = <<Last(body)>>
         /\ body = SubSeq(body, 1, Len(body) - 1) \o <<Last(body)>>
         /\ SubSeq(body, 1, Len(body) - 1) # <<>> => SubSeq(body, 1, Len(body) - 1)[1] = body[1]
<1>1. PICK m \in Nat : m = Len(body) /\ m > 0
  OBVIOUS
<1>2. SubSeq(body, 1, m) = body
  BY <1>1, SubSeqFull
<1>3. /\ SubSeq(body, 1, m) = SubSeq(body, 1, m - 1) \o <<body[m]>>
      /\ SubSeq(body, m, m) = SubSeq(body, m, m - 1) \o <<body[m]>>
  BY <1>1, SubSeqRecursiveSecond
<1>4. SubSeq(body, m, m - 1) = <<>>
  BY SubSeqEmpty
<1>5. \A i \in 1..m - 1 : body[i] \in S
  BY <1>1
<1>6. /\ SubSeq(body, 1, m - 1) \in Seq(S)
      /\ Len(SubSeq(body, 1, m - 1)) = IF 1 <= m - 1 THEN m - 1 - 1 + 1 ELSE 0
      /\ \A i \in 1..m - 1 - 1 + 1 : SubSeq(body, 1, m - 1)[i] = body[1 + i - 1]
  BY <1>5, SubSeqProperties
<1>7. PICK h : h = SubSeq(body, 1, m - 1)
  OBVIOUS
<1>8. Len(h) + 1 = m /\ (h # <<>> => h[1] = body[1])
  BY <1>1, <1>6, <1>7
<1>9. <<>> \o <<body[m]>> = <<body[m]>>
  OBVIOUS
<1> QED BY <1>1, <1>2, <1>3, <1>4, <1>6, <1>7, <1>8, <1>9, Zenon DEF Last

\* What handleUnmask answers is the text it was asked about, restored.
LEMMA UnmaskRestores ==
  ASSUME IndexesCounted, NEW ask, ask.body \in Seq(Heard), ask.session \in Sessions,
         ask.final \in BOOLEAN
  PROVE  LET n == IF ask.final THEN 0 ELSE TailLen(ask.body)
             body == SubSeq(ask.body, 1, Len(ask.body) - n)
         IN  RestoredAs(ask.body, ask.final, ask.session, Expand(ask.session, body),
                        SubSeq(ask.body, Len(body) + 1, Len(ask.body)))
<1>a. PICK n, whole, final : /\ n = (IF ask.final THEN 0 ELSE TailLen(ask.body))
                             /\ whole = ask.body /\ final = ask.final
  OBVIOUS
<1>b. PICK head, tail : /\ head = SubSeq(whole, 1, Len(whole) - n)
                        /\ tail = SubSeq(whole, Len(head) + 1, Len(whole))
  OBVIOUS
<1>c. PICK K, back : K = DOMAIN known[ask.session] /\ back = Expand(ask.session, head)
  OBVIOUS
<1>1. n \in {0, 1} /\ (n = 1 <=> ~final /\ whole # <<>> /\ Last(whole) = Open)
  BY <1>a DEF TailLen
<1>2. /\ head \in Seq(Heard) /\ whole = head \o tail
      /\ n = 0 => head = whole /\ tail = <<>>
      /\ n = 1 => tail = <<Last(whole)>>
      /\ head # <<>> => whole # <<>> /\ head[1] = whole[1]
  <2>0. whole \in Seq(Heard)
    BY <1>a
  <2>1. CASE n = 0
    <3>1. head = whole /\ tail = <<>> /\ whole \o <<>> = whole
      BY <1>b, <2>0, <2>1, CutNothing
    <3> QED BY <2>0, <2>1, <3>1
  <2>2. CASE n = 1
    <3>1. /\ SubSeq(whole, 1, Len(whole) - 1) \in Seq(Heard)
          /\ Len(SubSeq(whole, 1, Len(whole) - 1)) + 1 = Len(whole)
          /\ SubSeq(whole, Len(whole), Len(whole)) = <<Last(whole)>>
          /\ whole = SubSeq(whole, 1, Len(whole) - 1) \o <<Last(whole)>>
          /\ SubSeq(whole, 1, Len(whole) - 1) # <<>>
               => SubSeq(whole, 1, Len(whole) - 1)[1] = whole[1]
      BY <1>1, <2>0, <2>2, CutLast
    <3>2. head = SubSeq(whole, 1, Len(whole) - 1)
      BY <1>b, <2>2, Zenon
    <3>3. tail = <<Last(whole)>>
      BY <1>b, <3>1, <3>2, Zenon
    <3>4. n # 0
      BY <2>2
    <3> QED BY <1>1, <2>2, <3>1, <3>2, <3>3, <3>4, Zenon
  <2> QED BY <1>1, <2>1, <2>2
<1>3. /\ back \in Seq(Heard \union Restored)
      /\ AsWritten(back) = AsWritten(head)
      /\ ~TokenIn(back, K)
      /\ back # <<>> /\ Last(back) = Open => head # <<>> /\ Last(head) = Open
      /\ head # <<>> /\ head[1] = Open => back # <<>> /\ back[1].kind # "close"
      /\ head = <<>> => back = <<>>
  BY <1>2, <1>c, ExpandKeeps DEF HalfExpanded
<1>4. tail \in {<<>>, <<Open>>} /\ (final => tail = <<>>)
  BY <1>1, <1>2
<1>5. AsWritten(back) \o tail = AsWritten(whole)
  <2>1. AsWritten(tail) = tail
    BY <1>4, AsWrittenFew, PiecesAreWritten
  <2>2. head \in Seq(Pieces) /\ tail \in Seq(Pieces)
    <3>1. Heard \subseteq Pieces /\ Open \in Pieces
      BY PiecesAreWritten DEF Pieces
    <3>2. head \in Seq(Heard)
      BY <1>2
    <3>3. <<>> \in Seq(Pieces) /\ <<Open>> \in Seq(Pieces)
      BY <3>1
    <3> QED BY <1>4, <3>1, <3>2, <3>3, SeqMonotonic
  <2>3. AsWritten(head \o tail) = AsWritten(head) \o AsWritten(tail)
    BY <2>2, WrittenInTurn
  <2> QED BY <1>2, <1>3, <2>1, <2>3
<1>6. \A p \in Heard \union Restored : p # Ping
  BY PiecesAreWritten
<1>7. EndsOpen(back) /\ ~final => tail # <<>>
  <2>1. EndsOpen(back) => back # <<>> /\ Last(back) = Open
    BY <1>3, <1>6, NoPingEndsOpen
  <2>2. n = 1 => tail # <<>>
    <3>1. <<Last(whole)>> # <<>>
      OBVIOUS
    <3> QED BY <1>2, <3>1, Zenon
  <2>3. n = 0 /\ EndsOpen(back) => whole # <<>> /\ Last(whole) = Open
    BY <1>2, <1>3, <2>1, Zenon
  <2> QED BY <1>1, <2>2, <2>3
<1>8. whole # <<>> /\ whole[1] = Open => ~StartsClosed(back, K)
  <2> SUFFICES ASSUME whole # <<>>, whole[1] = Open, StartsClosed(back, K) PROVE FALSE
    OBVIOUS
  <2>1. PICK j \in DOMAIN back : back[j].kind = "close" /\ \A k \in 1..j - 1 : back[k] = Ping
    BY DEF StartsClosed
  <2>2. j \in 1..Len(back) /\ Len(back) \in Nat /\ \A k \in 1..Len(back) : back[k] # Ping
    BY <1>3, <1>6
  <2>3. j = 1
    BY <2>1, <2>2
  <2>4. back # <<>>
    BY <2>2
  <2> QED BY <1>2, <1>3, <2>1, <2>3, <2>4
<1>9. RestoredAs(whole, final, ask.session, back, tail)
  BY <1>3, <1>4, <1>5, <1>7, <1>8, <1>c DEF RestoredAs
<1> QED BY <1>9, <1>a, <1>b, <1>c, Zenon

-----------------------------------------------------------------------------
(* The screen. *)

\* The events of an answer, as a call has them.
Heards == [kind : {"delta"}, text : Seq(Heard)] \union {PingEvent, StopEvent}

\* Of an answer, what the page has, what is held and what is to come are the whole
\* of it, unless its end was joined to an event that did not end; and under one session
\* a token of it is neither shown nor half shown.
ScreenRight(call) ==
  /\ call.answer \in Seq(Heards) /\ call.rest \in Seq(Heards)
  /\ call.tail \in {<<>>, <<Open>>}
  /\ call.shown \in Seq(Pieces)
  /\ call.joined => call.unended /\ call.tail = <<>> /\ call.rest = <<>>
  /\ ~call.joined =>
       (AsWritten(call.shown) \o call.tail) \o AsWritten(Raw(call.rest))
         = AsWritten(Raw(call.answer))
  /\ \A s \in Sessions : call.under \subseteq {s} =>
       /\ ~TokenIn(call.shown, DOMAIN known[s])
       /\ EndsOpen(call.shown) => call.tail # <<>> \/ call.rest = <<>>
  /\ call.stage \notin {"streaming", "done"} =>
       /\ call.shown = <<>> /\ call.tail = <<>>
       /\ call.answer = <<>> /\ call.rest = <<>> /\ ~call.joined

\* An ask to be expanded carries what the site wrote, and its answer says the same.
AnswerRight(ask) ==
  ~ask.masking =>
    /\ ask.body \in Seq(Heard) /\ ask.final \in BOOLEAN
    /\ ask.stage # "posted" => ask.session \in Sessions
    /\ ask.stage = "answered" /\ ask.ok =>
         RestoredAs(ask.body, ask.final, ask.session, ask.back, ask.tail)

\* What a stream asks to be expanded is what it holds, and the text of its next event
\* unless that is not text.
AskedNext(call, ask) ==
  IF ask.final
  THEN /\ call.tail # <<>> /\ ask.body = call.tail
       /\ call.rest # <<>> => Head(call.rest) = StopEvent
  ELSE /\ call.rest # <<>> /\ Head(call.rest).kind = "delta"
       /\ ask.body = call.tail \o Head(call.rest).text

\* The invariant that ScreenIsTheAnswer and RestoredWhole follow from.
Screens ==
  /\ \A c \in Calls : ScreenRight(calls[c])
  /\ \A ask \in asks : AnswerRight(ask)
  /\ \A id \in DOMAIN waiting : \A ask \in asks :
       ask.id = id /\ ~ask.masking => AskedNext(calls[waiting[id]], ask)

\* The agent's books only grow, by indexes no text can have.
Grown ==
  /\ IndexesCounted /\ IndexesCounted' /\ counter <= counter'
  /\ Restored \subseteq Restored'
  /\ \A s \in Sessions : DOMAIN known[s] = DOMAIN known'[s] \cap 1..counter

\* The indexes of the tokens in a text were counted.
LEMMA CloseIsCounted ==
  ASSUME IndexesCounted
  PROVE  \A p \in Pieces : p.kind = "close" => p.index \in 1..counter
<1>1. \A p \in Restored : p.kind = "value"
  BY PiecesAreWritten
<1>2. Ping.kind # "close" /\ Stop.kind # "close"
  BY DEF Ping, Stop, Piece
<1>3. \A p \in Heard : p.kind = "close" => p.index \in 1..counter
  BY DEF Heard, Close, Piece
<1> QED BY <1>1, <1>2, <1>3 DEF Pieces

\* A text stays one while the books grow.
LEMMA GrownTexts ==
  ASSUME Grown
  PROVE  /\ Seq(Heard) \subseteq Seq(Heard') /\ Seq(Pieces) \subseteq Seq(Pieces')
         /\ Seq(Heard \union Restored) \subseteq Seq((Heard \union Restored)')
         /\ Seq(Heards) \subseteq Seq(Heards')
         /\ Heard \subseteq Heard'
<1>1. Heard \subseteq Heard'
  BY DEF Grown, IndexesCounted, Heard
<1>2. Pieces \subseteq Pieces' /\ (Heard \union Restored) \subseteq (Heard \union Restored)'
  BY <1>1 DEF Grown, Pieces
<1>3. Seq(Heard) \subseteq Seq(Heard')
  BY <1>1, SeqMonotonic
<1>4. Heards \subseteq Heards'
  <2>1. PingEvent' = PingEvent /\ StopEvent' = StopEvent
    BY DEF PingEvent, StopEvent, Ping, Stop, Piece
  <2> QED BY <1>3, <2>1 DEF Heards
<1> QED BY <1>1, <1>2, <1>3, <1>4, SeqMonotonic

\* No text gets a token by the books having grown.
LEMMA GrownTokens ==
  ASSUME Grown, NEW text \in Seq(Pieces), NEW s \in Sessions
  PROVE  /\ TokenIn(text, DOMAIN known'[s]) => TokenIn(text, DOMAIN known[s])
         /\ StartsClosed(text, DOMAIN known'[s]) => StartsClosed(text, DOMAIN known[s])
<1>1. \A j \in DOMAIN text : text[j].kind = "close" /\ text[j].index \in DOMAIN known'[s]
         => text[j].index \in DOMAIN known[s]
  <2>1. \A j \in DOMAIN text : text[j] \in Pieces
    OBVIOUS
  <2> QED BY <2>1, CloseIsCounted DEF Grown
<1> QED BY <1>1 DEF TokenIn, StartsClosed

\* A screen stays right while the books grow.
LEMMA ScreenStays ==
  ASSUME Grown, NEW call, ScreenRight(call)
  PROVE  ScreenRight(call)'
<1>1. call.answer \in Seq(Heards)' /\ call.rest \in Seq(Heards)' /\ call.shown \in Seq(Pieces)'
  BY GrownTexts DEF ScreenRight
<1>2. \A s \in Sessions :
        TokenIn(call.shown, DOMAIN known'[s]) => TokenIn(call.shown, DOMAIN known[s])
  BY GrownTokens DEF ScreenRight
<1>3. \A s \in Sessions : call.under \subseteq {s} => ~TokenIn(call.shown, DOMAIN known'[s])
  BY <1>2 DEF ScreenRight
<1> QED BY <1>1, <1>3 DEF ScreenRight, TokenIn, EndsOpen, AsWritten, Raw, Letters

\* An answer stays right while the books grow.
LEMMA AnswerStays ==
  ASSUME Grown, NEW ask, AnswerRight(ask)
  PROVE  AnswerRight(ask)'
<1> SUFFICES ASSUME ~ask.masking PROVE AnswerRight(ask)'
  BY DEF AnswerRight
<1>1. /\ ask.body \in Seq(Heard)' /\ ask.final \in BOOLEAN
      /\ ask.stage # "posted" => ask.session \in Sessions
  BY GrownTexts DEF AnswerRight
<1>2. ASSUME ask.stage = "answered", ask.ok
      PROVE  RestoredAs(ask.body, ask.final, ask.session, ask.back, ask.tail)'
  <2>1. RestoredAs(ask.body, ask.final, ask.session, ask.back, ask.tail)
    BY <1>2 DEF AnswerRight
  <2>2. ask.back \in Seq(Heard \union Restored) /\ ask.back \in Seq(Heard \union Restored)'
    BY <2>1, GrownTexts DEF RestoredAs
  <2>3. ask.back \in Seq(Pieces)
    BY <2>2, SeqMonotonic DEF Pieces
  <2>4. /\ ~TokenIn(ask.back, DOMAIN known'[ask.session])
        /\ ask.body # <<>> /\ ask.body[1] = Open
             => ~StartsClosed(ask.back, DOMAIN known'[ask.session])
    BY <1>1, <1>2, <2>1, <2>3, GrownTokens DEF RestoredAs
  <2> QED BY <2>1, <2>2, <2>4 DEF RestoredAs, AsWritten, EndsOpen, TokenIn, StartsClosed
<1> QED BY <1>1, <1>2 DEF AnswerRight

\* Books that stay have grown.
LEMMA GrownStays ==
  ASSUME EInv, UNCHANGED <<known, counter>>
  PROVE  IndexesCounted /\ Grown
<1>1. IndexesCounted
  BY DEF EInv, Counted, IndexesCounted
<1>2. \A s \in Sessions : DOMAIN known[s] = DOMAIN known'[s] \cap 1..counter
  BY <1>1 DEF IndexesCounted
<1>3. Restored \subseteq Restored' /\ IndexesCounted' /\ counter <= counter'
  BY <1>1 DEF IndexesCounted, Restored
<1> QED BY <1>1, <1>2, <1>3 DEF Grown

\* A step of one call that asks nothing.
LEMMA CallScreens ==
  ASSUME EInv, Screens, NEW c \in Calls, NEW call, ScreenRight(call),
         calls' = [calls EXCEPT ![c] = call],
         UNCHANGED <<known, counter, waiting, asks>>,
         calls[c].ask = 0 \/ calls[c].stage \notin {"masking", "streaming"}
  PROVE  Screens'
<1>1. calls'[c] = call /\ \A d \in Calls \ {c} : calls'[d] = calls[d]
  BY DEF EInv, Records
<1>2. \A id \in DOMAIN waiting : waiting[id] \in Calls \ {c}
  BY DEF EInv, WaitsRight
<1>3. Grown
  BY GrownStays
<1>4. \A d \in Calls : ScreenRight(calls'[d])
  BY <1>1 DEF Screens
<1>5. \A d \in Calls : ScreenRight(calls[d])'
  <2> SUFFICES ASSUME NEW d \in Calls PROVE ScreenRight(calls[d])'
    OBVIOUS
  <2> PICK x : x = calls'[d]
    OBVIOUS
  <2>1. ScreenRight(x)'
    BY <1>3, <1>4, ScreenStays
  <2> QED BY <2>1
<1>6. \A ask \in asks' : AnswerRight(ask)'
  BY <1>3, AnswerStays DEF Screens
<1>7. \A id \in DOMAIN waiting' : \A ask \in asks' :
        ask.id = id /\ ~ask.masking => AskedNext(calls'[waiting'[id]], ask)
  BY <1>1, <1>2 DEF Screens
<1> QED BY <1>5, <1>6, <1>7 DEF Screens, AskedNext

\* A step of one call with an ask of its own.
LEMMA AskedScreens ==
  ASSUME EInv, Screens, NEW c \in Calls, NEW update, update = CallRecord(update),
         ScreenRight(update), NEW masking, NEW body, NEW final,
         Asked(c, update, masking, body, final), UNCHANGED <<known, counter>>,
         calls[c].ask = 0 \/ calls[c].stage \notin {"masking", "streaming"},
         ~masking =>
           /\ body \in Seq(Heard) /\ final \in BOOLEAN
           /\ IF final
              THEN /\ update.tail # <<>> /\ body = update.tail
                   /\ update.rest # <<>> => Head(update.rest) = StopEvent
              ELSE /\ update.rest # <<>> /\ Head(update.rest).kind = "delta"
                   /\ body = update.tail \o Head(update.rest).text
  PROVE  Screens'
<1> DEFINE call == [update EXCEPT !.ask = nextId]
           new == [id |-> nextId, masking |-> masking, body |-> body, final |-> final,
                   session |-> None, stage |-> "posted", ok |-> FALSE,
                   back |-> <<>>, tail |-> <<>>]
<1>1. /\ calls' = [calls EXCEPT ![c] = call] /\ asks' = asks \union {new}
      /\ waiting' = Put(waiting, nextId, c)
  BY DEF Asked
<1>2. /\ call.stage = update.stage /\ call.answer = update.answer /\ call.rest = update.rest
      /\ call.tail = update.tail /\ call.shown = update.shown /\ call.under = update.under
      /\ call.unended = update.unended /\ call.joined = update.joined
  BY DEF CallRecord
<1>3. ScreenRight(call)
  BY <1>2 DEF ScreenRight
<1>4. /\ new.id = nextId /\ new.masking = masking /\ new.body = body /\ new.final = final
      /\ new.stage = "posted"
  OBVIOUS
<1>5. AnswerRight(new)
  BY <1>4 DEF AnswerRight
<1>6. ~masking => AskedNext(call, new)
  BY <1>2, <1>4 DEF AskedNext
<1> HIDE DEF call, new
<1>7. calls'[c] = call /\ \A d \in Calls \ {c} : calls'[d] = calls[d]
  BY <1>1 DEF EInv, Records
<1>8. Grown
  BY GrownStays
<1>9. \A d \in Calls : ScreenRight(calls[d])'
  <2> SUFFICES ASSUME NEW d \in Calls PROVE ScreenRight(calls[d])'
    OBVIOUS
  <2> PICK x : x = calls'[d]
    OBVIOUS
  <2>1. ScreenRight(x)
    BY <1>3, <1>7 DEF Screens
  <2>2. ScreenRight(x)'
    BY <1>8, <2>1, ScreenStays
  <2> QED BY <2>2
<1>10. \A ask \in asks' : AnswerRight(ask)'
  BY <1>1, <1>5, <1>8, AnswerStays DEF Screens
<1>11. \A id \in DOMAIN waiting' : \A ask \in asks' :
         ask.id = id /\ ~ask.masking => AskedNext(calls'[waiting'[id]], ask)
  <2>1. nextId \notin DOMAIN waiting /\ \A ask \in asks : ask.id # nextId
    BY DEF EInv, WaitsRight, AsksRight
  <2>2. /\ DOMAIN waiting' = DOMAIN waiting \union {nextId}
        /\ \A id \in DOMAIN waiting : waiting'[id] = waiting[id]
        /\ waiting'[nextId] = c
    BY <1>1, <2>1 DEF Put
  <2>3. \A id \in DOMAIN waiting : waiting[id] \in Calls \ {c}
    BY DEF EInv, WaitsRight
  <2> QED BY <1>1, <1>4, <1>6, <1>7, <2>1, <2>2, <2>3 DEF Screens
<1> QED BY <1>9, <1>10, <1>11 DEF Screens, AskedNext

\* An ask that settles in the call that made it.
LEMMA SettledScreens ==
  ASSUME EInv, Screens, NEW id \in DOMAIN waiting, NEW call, ScreenRight(call),
         calls' = [calls EXCEPT ![waiting[id]] = call], asks' \subseteq asks,
         waiting' = Without(waiting, id), UNCHANGED <<known, counter>>
  PROVE  Screens'
<1>0. PICK c \in Calls : c = waiting[id]
  BY DEF EInv, WaitsRight
<1>1. calls'[c] = call /\ \A d \in Calls \ {c} : calls'[d] = calls[d]
  BY <1>0 DEF EInv, Records
<1>2. /\ DOMAIN waiting' = DOMAIN waiting \ {id}
      /\ \A i \in DOMAIN waiting' : waiting'[i] = waiting[i] /\ waiting[i] \in Calls \ {c}
  BY <1>0 DEF Without, EInv, WaitsRight
<1>3. Grown
  BY GrownStays
<1>4. \A d \in Calls : ScreenRight(calls[d])'
  <2> SUFFICES ASSUME NEW d \in Calls PROVE ScreenRight(calls[d])'
    OBVIOUS
  <2> PICK x : x = calls'[d]
    OBVIOUS
  <2>1. ScreenRight(x)
    BY <1>1 DEF Screens
  <2>2. ScreenRight(x)'
    BY <1>3, <2>1, ScreenStays
  <2> QED BY <2>2
<1>5. \A ask \in asks' : AnswerRight(ask)'
  BY <1>3, AnswerStays DEF Screens
<1>6. \A i \in DOMAIN waiting' : \A ask \in asks' :
        ask.id = i /\ ~ask.masking => AskedNext(calls'[waiting'[i]], ask)
  BY <1>1, <1>2 DEF Screens
<1> QED BY <1>4, <1>5, <1>6 DEF Screens, AskedNext

\* A step of one ask.
LEMMA AskScreens ==
  ASSUME Screens, Grown, NEW ask \in asks, NEW new, AnswerRight(new),
         asks' = (asks \ {ask}) \union {new},
         new.id = ask.id, new.masking = ask.masking, new.body = ask.body,
         new.final = ask.final, UNCHANGED <<calls, waiting>>
  PROVE  Screens'
<1>1. \A d \in Calls : ScreenRight(calls[d])'
  <2> SUFFICES ASSUME NEW d \in Calls PROVE ScreenRight(calls[d])'
    OBVIOUS
  <2> PICK x : x = calls[d]
    OBVIOUS
  <2>1. ScreenRight(x)'
    BY ScreenStays DEF Screens
  <2> QED BY <2>1
<1>2. \A a \in asks' : AnswerRight(a)'
  BY AnswerStays DEF Screens
<1>3. \A id \in DOMAIN waiting : \A a \in asks' :
        a.id = id /\ ~a.masking => AskedNext(calls[waiting[id]], a)
  BY DEF Screens, AskedNext
<1> QED BY <1>1, <1>2, <1>3 DEF Screens, AskedNext

-----------------------------------------------------------------------------
\* A call that only changes what it is about.
LEMMA SameScreen ==
  ASSUME NEW old, ScreenRight(old), NEW call,
         call.answer = old.answer, call.rest = old.rest, call.tail = old.tail,
         call.shown = old.shown, call.under = old.under,
         call.unended = old.unended, call.joined = old.joined,
         call.stage \in {"streaming", "done"} \/ old.stage \notin {"streaming", "done"}
  PROVE  ScreenRight(call)
BY DEF ScreenRight

\* The steps of the page before an answer.
LEMMA SendScreens ==
  ASSUME EInv, Screens, NEW c \in Calls, NEW v, Send(c, v)
  PROVE  Screens'
<1>1. PICK old : old = calls[c] /\ old = CallRecord(old) /\ old.stage = "idle"
                 /\ ScreenRight(old)
  BY DEF Send, Idle, EInv, Records, Screens
<1>2. PICK conv, update :
        /\ update = [old EXCEPT !.stage = "masking", !.typed = v, !.conv = conv]
        /\ Asked(c, update, TRUE, <<Original(0, v)>>, FALSE)
  BY <1>1 DEF Send
<1>3. /\ update = CallRecord(update) /\ update.answer = old.answer /\ update.rest = old.rest
      /\ update.tail = old.tail /\ update.shown = old.shown /\ update.under = old.under
      /\ update.unended = old.unended /\ update.joined = old.joined
  BY <1>1, <1>2 DEF CallRecord
<1>4. ScreenRight(update)
  BY <1>1, <1>3, SameScreen
<1>5. UNCHANGED <<known, counter>>
  BY DEF Send, agent
<1> QED BY <1>1, <1>2, <1>3, <1>4, <1>5, AskedScreens

LEMMA RetryOrRefuseScreens ==
  ASSUME EInv, Screens, NEW c \in Calls, Retry(c) \/ Refuse(c)
  PROVE  Screens'
<1>1. PICK old : old = calls[c] /\ old = CallRecord(old) /\ old.stage = "idle"
                 /\ ScreenRight(old)
  BY DEF Retry, Refuse, Idle, EInv, Records, Screens
<1>2. UNCHANGED <<known, counter, waiting, asks>>
  BY DEF Retry, Refuse, agent
<1>3. CASE Retry(c)
  <2>1. PICK call : call = [old EXCEPT !.stage = "sent", !.conv = addr]
    OBVIOUS
  <2>2. calls' = [calls EXCEPT ![c] = call]
    BY <1>1, <1>3, <2>1 DEF Retry, EInv, Records
  <2>3. /\ call.answer = old.answer /\ call.rest = old.rest /\ call.tail = old.tail
        /\ call.shown = old.shown /\ call.under = old.under
        /\ call.unended = old.unended /\ call.joined = old.joined
    BY <1>1, <2>1 DEF CallRecord
  <2> QED BY <1>1, <1>2, <2>2, <2>3, SameScreen, CallScreens
<1>4. CASE Refuse(c)
  <2>1. PICK call : call = [old EXCEPT !.stage = "blocked"]
    OBVIOUS
  <2>2. calls' = [calls EXCEPT ![c] = call]
    BY <1>1, <1>4, <2>1 DEF Refuse, EInv, Records
  <2>3. /\ call.answer = old.answer /\ call.rest = old.rest /\ call.tail = old.tail
        /\ call.shown = old.shown /\ call.under = old.under
        /\ call.unended = old.unended /\ call.joined = old.joined
    BY <1>1, <2>1 DEF CallRecord
  <2> QED BY <1>1, <1>2, <2>2, <2>3, SameScreen, CallScreens
<1> QED BY <1>3, <1>4

\* An echo of an answer has only indexes that were given.
LEMMA EchoIsHeard ==
  ASSUME counter \in Nat, NEW shape \in Seq(Event), NEW n \in 1..counter
  PROVE  Echo(shape, n) \in Seq(Heards)
<1> DEFINE written(p) == IF p.kind = "close" THEN Close(n) ELSE p
           text(i) == [j \in DOMAIN shape[i].text |-> written(shape[i].text[j])]
<1>1. \A p \in Generated : written(p) \in Heard
  <2> TAKE p \in Generated
  <2>1. CASE p.kind = "close"
    BY <2>1 DEF Heard
  <2>2. CASE p.kind # "close"
    BY <2>2 DEF Heard, Generated
  <2> QED BY <2>1, <2>2
<1>2. written(Ping) = Ping /\ written(Stop) = Stop
  BY DEF Ping, Stop, Piece
<1> HIDE DEF written
<1>3. ASSUME NEW i \in DOMAIN shape
      PROVE  [kind |-> shape[i].kind, text |-> text(i)] \in Heards
  <2>1. PICK event \in Event : event = shape[i]
    OBVIOUS
  <2> PICK t : t = text(i)
    OBVIOUS
  <2>2. CASE event \in [kind : {"delta"}, text : Seq(Generated)]
    <3>1. event.kind = "delta" /\ event.text \in Seq(Generated)
      BY <2>2
    <3> PICK u \in Seq(Generated) : u = event.text
      BY <3>1
    <3>2. \A j \in DOMAIN u : written(u[j]) \in Heard
      BY <1>1
    <3>3. [j \in DOMAIN u |-> written(u[j])] \in Seq(Heard)
      BY <3>2
    <3> QED BY <2>1, <3>1, <3>3 DEF Heards
  <2>3. CASE event = PingEvent
    <3>1. text(i) = <<Ping>>
      BY <1>2, <2>1, <2>3 DEF PingEvent
    <3> QED BY <2>1, <2>3, <3>1 DEF PingEvent, Heards
  <2>4. CASE event = StopEvent
    <3>1. text(i) = <<Stop>>
      BY <1>2, <2>1, <2>4 DEF StopEvent
    <3> QED BY <2>1, <2>4, <3>1 DEF StopEvent, Heards
  <2> QED BY <2>2, <2>3, <2>4 DEF Event
<1> HIDE DEF text
<1>4. DOMAIN shape = 1..Len(shape) /\ Len(shape) \in Nat
  OBVIOUS
<1>5. [i \in DOMAIN shape |-> [kind |-> shape[i].kind, text |-> text(i)]] \in Seq(Heards)
  BY <1>3, <1>4
<1> QED BY <1>5 DEF Echo, written, text

\* The events still to come, and their text.
LEMMA HeardsFacts ==
  ASSUME IndexesCounted
  PROVE  /\ \A e \in Heards : e.text \in Seq(Pieces)
         /\ \A e \in Heards : e.kind = "delta" => e.text \in Seq(Heard)
         /\ \A e \in Heards : e.kind # "delta" => e \in {PingEvent, StopEvent}
         /\ Heard \subseteq Pieces /\ PingEvent.text = <<Ping>> /\ StopEvent.text = <<Stop>>
         /\ ~IsKeepAlive(StopEvent) /\ PingEvent.kind # "delta" /\ StopEvent.kind # "delta"
<1>1. Heard \subseteq Pieces /\ Ping \in Pieces /\ Stop \in Pieces
  BY DEF Pieces
<1>2. PingEvent.text = <<Ping>> /\ StopEvent.text = <<Stop>>
  BY DEF PingEvent, StopEvent
<1>3. <<Ping>> \in Seq(Pieces) /\ <<Stop>> \in Seq(Pieces)
  BY <1>1
<1>4. ASSUME NEW e \in Heards, e.kind = "delta" PROVE e.text \in Seq(Heard)
  BY <1>4 DEF Heards, PingEvent, StopEvent
<1>5. \A t \in Seq(Heard) : t \in Seq(Pieces)
  BY <1>1, SeqMonotonic
<1>6. \A e \in Heards : e.kind # "delta" => e \in {PingEvent, StopEvent}
  BY DEF Heards
<1>7. \A e \in Heards : e.text \in Seq(Pieces)
  BY <1>2, <1>3, <1>4, <1>5, <1>6
<1>8. ~IsKeepAlive(StopEvent) /\ PingEvent.kind # "delta" /\ StopEvent.kind # "delta"
  BY DEF IsKeepAlive, StopEvent, PingEvent
<1> QED BY <1>1, <1>2, <1>4, <1>6, <1>7, <1>8

\* The text still to come is that of the next event, and then the rest's.
LEMMA RestFacts ==
  ASSUME IndexesCounted, NEW r \in Seq(Heards)
  PROVE  /\ Raw(r) \in Seq(Pieces) /\ AsWritten(Raw(r)) \in Seq(Letter)
         /\ AsWritten(Raw(<<>>)) = <<>>
         /\ r # <<>> =>
              /\ Head(r) \in Heards /\ Tail(r) \in Seq(Heards) /\ Head(r).text \in Seq(Pieces)
              /\ AsWritten(Raw(r)) = AsWritten(Head(r).text) \o AsWritten(Raw(Tail(r)))
<1>1. \A e \in Heards : e.text \in Seq(Pieces)
  BY HeardsFacts
<1>2. \A q \in Seq(Heards) :
        /\ Raw(q) \in Seq(Pieces)
        /\ q # <<>> => Raw(q) = Head(q).text \o Raw(Tail(q))
        /\ Raw(<<>>) = <<>>
  BY <1>1, RawInTurn
<1>3. AsWritten(Raw(<<>>)) = <<>>
  BY <1>2, AsWrittenFew
<1>4. AsWritten(Raw(r)) \in Seq(Letter)
  BY <1>2, WrittenInTurn
<1>5. ASSUME r # <<>>
      PROVE  /\ Head(r) \in Heards /\ Tail(r) \in Seq(Heards) /\ Head(r).text \in Seq(Pieces)
             /\ AsWritten(Raw(r)) = AsWritten(Head(r).text) \o AsWritten(Raw(Tail(r)))
  <2>1. Head(r) \in Heards /\ Tail(r) \in Seq(Heards)
    BY <1>5
  <2>2. Head(r).text \in Seq(Pieces) /\ Raw(Tail(r)) \in Seq(Pieces)
    BY <1>1, <1>2, <2>1
  <2>3. AsWritten(Head(r).text \o Raw(Tail(r))) = AsWritten(Head(r).text) \o AsWritten(Raw(Tail(r)))
    BY <2>2, WrittenInTurn
  <2> QED BY <1>2, <1>5, <2>1, <2>2, <2>3
<1> QED BY <1>2, <1>3, <1>4, <1>5

\* An answer begins with nothing shown and all of it to come.
LEMMA RespondScreens ==
  ASSUME EInv, Typed, Screens, NEW c \in Calls, Respond(c)
  PROVE  Screens'
<1>1. PICK old : old = calls[c] /\ old = CallRecord(old) /\ old.stage = "sent"
                 /\ ScreenRight(old)
  BY DEF Respond, EInv, Records, Screens
<1>2. UNCHANGED <<known, counter, waiting, asks>>
  BY DEF Respond, agent
<1>3. CASE \E shape \in Shapes[c], n \in said[calls[c].conv] :
             calls' = [calls EXCEPT ![c].stage = "streaming", ![c].unended = shape.unended,
                                    ![c].answer = Echo(shape.events, n),
                                    ![c].rest = Echo(shape.events, n)]
  <2>1. PICK shape \in Shapes[c], n \in said[calls[c].conv] :
             calls' = [calls EXCEPT ![c].stage = "streaming", ![c].unended = shape.unended,
                                    ![c].answer = Echo(shape.events, n),
                                    ![c].rest = Echo(shape.events, n)]
    BY <1>3
  <2>2. n \in 1..counter /\ counter \in Nat
    BY <1>1, <2>1 DEF Typed, CallTyped, SaidCounted, EInv, Counted
  <2>3. PICK echo, unended : echo = Echo(shape.events, n) /\ unended = shape.unended
    OBVIOUS
  <2>4. echo \in Seq(Heards)
    <3>1. shape.events \in Seq(Event)
      BY ShapesAssumption DEF Shape
    <3> QED BY <2>2, <2>3, <3>1, EchoIsHeard
  <2>5. PICK call : call = [old EXCEPT !.stage = "streaming", !.unended = unended,
                                       !.answer = echo, !.rest = echo]
    OBVIOUS
  <2>6. calls' = [calls EXCEPT ![c] = call]
    BY <1>1, <2>1, <2>3, <2>5 DEF EInv, Records
  <2>7. /\ call.stage = "streaming" /\ call.answer = echo /\ call.rest = echo
        /\ call.tail = old.tail /\ call.shown = old.shown /\ call.under = old.under
        /\ call.joined = old.joined
    BY <1>1, <2>5 DEF CallRecord
  <2>8. old.shown = <<>> /\ old.tail = <<>> /\ ~old.joined
    BY <1>1 DEF ScreenRight
  <2>9. (AsWritten(<<>>) \o <<>>) \o AsWritten(Raw(echo)) = AsWritten(Raw(echo))
    <3>1. IndexesCounted
      BY GrownStays, <1>2
    <3>2. AsWritten(Raw(echo)) \in Seq(Letter)
      BY <2>4, <3>1, RestFacts
    <3>3. AsWritten(<<>>) = <<>> /\ <<>> \o <<>> = <<>>
      BY AsWrittenFew
    <3> PICK w \in Seq(Letter) : w = AsWritten(Raw(echo))
      BY <3>2
    <3>4. <<>> \o w = w
      OBVIOUS
    <3> QED BY <3>3, <3>4
  <2>10. (\A s \in Sessions : ~TokenIn(<<>>, DOMAIN known[s])) /\ ~EndsOpen(<<>>)
    BY DEF TokenIn, EndsOpen
  <2>11. ScreenRight(call)
    <3>1. <<>> \in Seq(Pieces)
      OBVIOUS
    <3> QED BY <2>4, <2>7, <2>8, <2>9, <2>10, <3>1 DEF ScreenRight
  <2> QED BY <1>1, <1>2, <2>6, <2>11, CallScreens
<1>4. CASE calls' = [calls EXCEPT ![c].stage = "done"]
  <2>1. PICK call : call = [old EXCEPT !.stage = "done"]
    OBVIOUS
  <2>2. calls' = [calls EXCEPT ![c] = call]
    BY <1>1, <1>4, <2>1 DEF EInv, Records
  <2>3. /\ call.answer = old.answer /\ call.rest = old.rest /\ call.tail = old.tail
        /\ call.shown = old.shown /\ call.under = old.under /\ call.stage = "done"
        /\ call.unended = old.unended /\ call.joined = old.joined
    BY <1>1, <2>1 DEF CallRecord
  <2> QED BY <1>1, <1>2, <2>2, <2>3, SameScreen, CallScreens
<1> QED BY <1>3, <1>4 DEF Respond

\* A keep-alive and a stop finish nothing and leave nothing open.
LEMMA ShortTexts ==
  /\ ~EndsOpen(<<Ping>>) /\ ~EndsOpen(<<Stop>>)
  /\ \A K : /\ ~TokenIn(<<Ping>>, K) /\ ~TokenIn(<<Stop>>, K)
            /\ ~StartsClosed(<<Ping>>, K) /\ ~StartsClosed(<<Stop>>, K)
  /\ AsWritten(<<Ping>>) = <<>> /\ AsWritten(<<Open>>) = <<Open>>
  /\ Stop # Ping
<1>1. Ping # Open /\ Stop # Open /\ Stop # Ping /\ Ping.kind # "close" /\ Stop.kind # "close"
  BY DEF Ping, Stop, Open, Piece
<1>2. ~EndsOpen(<<Ping>>) /\ ~EndsOpen(<<Stop>>)
  BY <1>1 DEF EndsOpen
<1>3. \A K : /\ ~TokenIn(<<Ping>>, K) /\ ~TokenIn(<<Stop>>, K)
             /\ ~StartsClosed(<<Ping>>, K) /\ ~StartsClosed(<<Stop>>, K)
  BY <1>1, OnePiece
<1>4. Letters(Ping) = <<>> /\ Letters(Open) = <<Open>>
  BY DEF Letters, Ping, Open, Piece
<1> QED BY <1>1, <1>2, <1>3, <1>4, AsWrittenFew

\* An event that is passed on as it is, with nothing held or for a keep-alive.
LEMMA PassedOnIsRight ==
  ASSUME IndexesCounted, NEW old, ScreenRight(old), old.stage = "streaming", old.rest # <<>>,
         Head(old.rest).kind # "delta", old.tail = <<>> \/ IsKeepAlive(Head(old.rest)),
         NEW call, call.shown = old.shown \o Head(old.rest).text, call.rest = Tail(old.rest),
         call.answer = old.answer, call.tail = old.tail, call.under = old.under,
         call.stage = old.stage, call.unended = old.unended, call.joined = old.joined
  PROVE  ScreenRight(call)
<1> PICK text : text = Head(old.rest).text
  OBVIOUS
<1>0. ~old.joined
  BY DEF ScreenRight
<1>1. /\ Head(old.rest) \in Heards /\ Tail(old.rest) \in Seq(Heards) /\ text \in Seq(Pieces)
      /\ AsWritten(Raw(old.rest)) = AsWritten(text) \o AsWritten(Raw(Tail(old.rest)))
  BY RestFacts DEF ScreenRight
<1>2. text \in {<<Ping>>, <<Stop>>} /\ (old.tail # <<>> => text = <<Ping>>)
  BY <1>1, HeardsFacts
<1>3. call.shown = old.shown \o text /\ old.shown \in Seq(Pieces) /\ call.shown \in Seq(Pieces)
  BY <1>1 DEF ScreenRight
<1>4. (AsWritten(call.shown) \o call.tail) \o AsWritten(Raw(call.rest))
        = AsWritten(Raw(call.answer))
  <2>1. /\ AsWritten(old.shown \o text) = AsWritten(old.shown) \o AsWritten(text)
        /\ AsWritten(old.shown) \in Seq(Letter) /\ AsWritten(text) \in Seq(Letter)
        /\ AsWritten(Raw(Tail(old.rest))) \in Seq(Letter)
    BY <1>1, <1>3, WrittenInTurn, RestFacts
  <2>2. PICK a, x, r : /\ a = AsWritten(old.shown) /\ x = AsWritten(text)
                       /\ r = AsWritten(Raw(Tail(old.rest)))
    OBVIOUS
  <2>3. a \in Seq(Letter) /\ x \in Seq(Letter) /\ r \in Seq(Letter)
    BY <2>1, <2>2
  <2>4. (a \o old.tail) \o (x \o r) = AsWritten(Raw(old.answer))
    BY <1>0, <1>1, <2>2 DEF ScreenRight
  <2>5. CASE old.tail = <<>>
    <3>1. ((a \o x) \o <<>>) \o r = (a \o <<>>) \o (x \o r)
      BY <2>3
    <3> QED BY <1>3, <2>1, <2>2, <2>4, <2>5, <3>1
  <2>6. CASE old.tail # <<>>
    <3>1. x = <<>>
      BY <1>2, <2>2, <2>6, ShortTexts
    <3>2. a \o <<>> = a /\ <<>> \o r = r
      BY <2>3
    <3> QED BY <1>3, <2>1, <2>2, <2>4, <3>1, <3>2
  <2> QED BY <2>5, <2>6
<1>5. ASSUME NEW s \in Sessions, call.under \subseteq {s}
      PROVE  /\ ~TokenIn(call.shown, DOMAIN known[s])
             /\ EndsOpen(call.shown) => call.tail # <<>>
  <2>1. ~TokenIn(old.shown, DOMAIN known[s]) /\ (EndsOpen(old.shown) => old.tail # <<>>)
    BY <1>5 DEF ScreenRight
  <2>2. ~TokenIn(text, DOMAIN known[s]) /\ ~StartsClosed(text, DOMAIN known[s]) /\ ~EndsOpen(text)
    BY <1>2, ShortTexts
  <2>3. ~TokenIn(call.shown, DOMAIN known[s])
    BY <1>1, <1>3, <2>1, <2>2, TokenAcross
  <2>4. EndsOpen(call.shown) => EndsOpen(old.shown)
    BY <1>1, <1>3, <2>2, EndsOpenAcross
  <2> QED BY <2>1, <2>3, <2>4
<1> QED BY <1>0, <1>1, <1>3, <1>4, <1>5 DEF ScreenRight

\* A stream that reads on keeps its screen right, whatever it must ask.
LEMMA ReadScreens ==
  ASSUME EInv, Screens, NEW c \in Calls, NextEvent(c) \/ Flush(c)
  PROVE  Screens'
<1>1. PICK old : old = calls[c] /\ old = CallRecord(old) /\ old.stage = "streaming"
                 /\ old.ask = 0 /\ ScreenRight(old)
  BY ReadsOn DEF Rewrites, Releases, EInv, Records, Screens
<1>2. UNCHANGED <<known, counter>> /\ IndexesCounted
  BY ReadsOn, GrownStays DEF Rewrites, Releases, agent
<1>3. old.tail \in {<<>>, <<Open>>} /\ old.rest \in Seq(Heards)
  BY <1>1 DEF ScreenRight
<1>4. old.tail \in Seq(Heard)
  <2>1. Open \in Heard
    BY <1>2, PiecesAreWritten
  <2>2. <<>> \in Seq(Heard) /\ <<Open>> \in Seq(Heard)
    BY <2>1
  <2> QED BY <1>3, <2>2
<1>5. CASE Rewrites(c)
  <2> PICK event : event = Head(old.rest)
    OBVIOUS
  <2>0. old.rest # <<>>
    BY <1>1, <1>5 DEF Rewrites, Rewrite
  <2>1. event \in Heards /\ Tail(old.rest) \in Seq(Heards)
    BY <1>3, <2>0
  <2>2. CASE event.kind = "delta"
    <3>1. Asked(c, old, FALSE, old.tail \o event.text, FALSE)
      BY <1>1, <1>5, <2>2 DEF Rewrites, Rewrite
    <3>2. event.text \in Seq(Heard)
      BY <1>2, <2>1, <2>2, HeardsFacts
    <3>3. old.tail \o event.text \in Seq(Heard)
      BY <1>4, <3>2
    <3> QED BY <1>1, <1>2, <2>0, <2>2, <3>1, <3>3, AskedScreens
  <2>3. CASE event.kind # "delta" /\ (old.tail = <<>> \/ IsKeepAlive(event))
    <3>1. /\ calls' = [calls EXCEPT ![c].shown = @ \o event.text, ![c].rest = Tail(@)]
          /\ UNCHANGED <<waiting, asks>>
      BY <1>1, <1>5, <2>3 DEF Rewrites, Rewrite
    <3>2. PICK shown, rest : shown = old.shown \o event.text /\ rest = Tail(old.rest)
      OBVIOUS
    <3>3. PICK call : call = [old EXCEPT !.shown = shown, !.rest = rest]
      OBVIOUS
    <3>4. calls' = [calls EXCEPT ![c] = call]
      BY <1>1, <3>1, <3>2, <3>3 DEF EInv, Records
    <3>5. /\ call.shown = shown /\ call.rest = rest
          /\ call.answer = old.answer /\ call.tail = old.tail /\ call.under = old.under
          /\ call.stage = old.stage /\ call.unended = old.unended /\ call.joined = old.joined
      BY <1>1, <3>3 DEF CallRecord
    <3>6. ScreenRight(call)
      BY <1>1, <1>2, <2>0, <2>3, <3>2, <3>5, PassedOnIsRight
    <3> QED BY <1>1, <1>2, <3>1, <3>4, <3>6, CallScreens
  <2>4. CASE event.kind # "delta" /\ ~(old.tail = <<>> \/ IsKeepAlive(event))
    <3>1. Asked(c, old, FALSE, old.tail, TRUE)
      BY <1>1, <1>5, <2>4 DEF Rewrites, Rewrite
    <3>2. event = StopEvent
      BY <1>2, <2>1, <2>4, HeardsFacts DEF IsKeepAlive, PingEvent
    <3> QED BY <1>1, <1>2, <1>4, <2>4, <3>1, <3>2, AskedScreens
  <2> QED BY <2>2, <2>3, <2>4
<1>6. CASE Releases(c)
  <2>1. CASE old.tail = <<>>
    <3>1. calls' = [calls EXCEPT ![c].stage = "done"] /\ UNCHANGED <<waiting, asks>>
      BY <1>1, <1>6, <2>1 DEF Releases
    <3>2. PICK call : call = [old EXCEPT !.stage = "done"]
      OBVIOUS
    <3>3. calls' = [calls EXCEPT ![c] = call]
      BY <1>1, <3>1, <3>2 DEF EInv, Records
    <3>4. /\ call.answer = old.answer /\ call.rest = old.rest /\ call.tail = old.tail
          /\ call.shown = old.shown /\ call.under = old.under /\ call.stage = "done"
          /\ call.unended = old.unended /\ call.joined = old.joined
      BY <1>1, <3>2 DEF CallRecord
    <3>5. ScreenRight(call)
      BY <1>1, <3>4, SameScreen
    <3> QED BY <1>1, <1>2, <3>1, <3>3, <3>5, CallScreens
  <2>2. CASE old.tail # <<>>
    <3>1. Asked(c, old, FALSE, old.tail, TRUE) /\ old.rest = <<>>
      BY <1>1, <1>6, <2>2 DEF Releases
    <3> QED BY <1>1, <1>2, <1>4, <2>2, <3>1, AskedScreens
  <2> QED BY <2>1, <2>2
<1> QED BY <1>5, <1>6, ReadsOn

\* What the page makes of an ask that is over: the agent's text, or its own.
Got(ask, ok) == IF ok THEN [expanded |-> ask.back, tail |-> ask.tail] ELSE PassedThrough(ask)

\* What the page makes of an ask that is over says what the ask said.
LEMMA GotIsRight ==
  ASSUME IndexesCounted, NEW ask, AnswerRight(ask), ~ask.masking, NEW ok,
         ok => ask.stage = "answered" /\ ask.ok
  PROVE  /\ Got(ask, ok).expanded \in Seq(Pieces) /\ Got(ask, ok).tail \in {<<>>, <<Open>>}
         /\ ask.body \in Seq(Pieces) /\ ask.final \in BOOLEAN
         /\ AsWritten(Got(ask, ok).expanded) \o Got(ask, ok).tail = AsWritten(ask.body)
         /\ ask.final => Got(ask, ok).tail = <<>>
<1>1. ask.body \in Seq(Heard) /\ ask.final \in BOOLEAN /\ ask.body \in Seq(Pieces)
  <2>1. ask.body \in Seq(Heard) /\ ask.final \in BOOLEAN
    BY DEF AnswerRight
  <2> QED BY <2>1, SeqMonotonic DEF Pieces
<1>2. CASE ok
  <2>1. RestoredAs(ask.body, ask.final, ask.session, ask.back, ask.tail)
    BY <1>2 DEF AnswerRight
  <2>2. ask.back \in Seq(Heard \union Restored) /\ (Heard \union Restored) \subseteq Pieces
    BY <2>1 DEF RestoredAs, Pieces
  <2>3. ask.back \in Seq(Pieces)
    BY <2>2, SeqMonotonic
  <2> QED BY <1>1, <1>2, <2>1, <2>3 DEF Got, RestoredAs
<1>3. CASE ~ok
  <2>1. AsWritten(ask.body) \in Seq(Letter)
    BY <1>1, WrittenInTurn
  <2> PICK w \in Seq(Letter) : w = AsWritten(ask.body)
    BY <2>1
  <2>2. w \o <<>> = w
    OBVIOUS
  <2> QED BY <1>1, <1>3, <2>2 DEF Got, PassedThrough
<1> QED BY <1>2, <1>3

\* What an ask that succeeded adds to the screen finishes no token and leaves none
\* half shown but the one that is held.
LEMMA GotHidesTokens ==
  ASSUME IndexesCounted, NEW old, ScreenRight(old), NEW ask, AnswerRight(ask), ~ask.masking,
         ask.stage = "answered", ask.ok, AskedNext(old, ask),
         ask.session \in Sessions, old.under \subseteq {ask.session}
  PROVE  /\ ~TokenIn(old.shown \o ask.back, DOMAIN known[ask.session])
         /\ EndsOpen(old.shown \o ask.back) => ask.tail # <<>> \/ ask.final
<1> PICK K, shown, back : K = DOMAIN known[ask.session] /\ shown = old.shown /\ back = ask.back
  OBVIOUS
<1>1. /\ back \in Seq(Heard \union Restored)
      /\ ask.tail \in {<<>>, <<Open>>}
      /\ AsWritten(back) \o ask.tail = AsWritten(ask.body)
      /\ ~TokenIn(back, K)
      /\ EndsOpen(back) /\ ~ask.final => ask.tail # <<>>
      /\ ask.body # <<>> /\ ask.body[1] = Open => ~StartsClosed(back, K)
  BY DEF AnswerRight, RestoredAs
<1>2. back \in Seq(Pieces) /\ shown \in Seq(Pieces)
  <2>1. (Heard \union Restored) \subseteq Pieces
    BY DEF Pieces
  <2> QED BY <1>1, <2>1, SeqMonotonic DEF ScreenRight
<1>3. ~TokenIn(shown, K) /\ (EndsOpen(shown) => old.tail # <<>> \/ old.rest = <<>>)
  BY DEF ScreenRight
<1>4. EndsOpen(shown) => old.tail = <<Open>>
  BY <1>3 DEF AskedNext, ScreenRight
<1>5. PICK text : text = IF ask.final THEN <<>> ELSE Head(old.rest).text
  OBVIOUS
<1>6. text \in Seq(Pieces) /\ ask.body = old.tail \o text
  <2>1. CASE ask.final
    <3>1. old.tail \o <<>> = old.tail
      BY DEF ScreenRight
    <3>2. <<>> \in Seq(Pieces)
      OBVIOUS
    <3> QED BY <1>5, <2>1, <3>1, <3>2 DEF AskedNext
  <2>2. CASE ~ask.final
    <3>1. old.rest # <<>> /\ old.rest \in Seq(Heards) /\ ask.body = old.tail \o Head(old.rest).text
      BY <2>2 DEF AskedNext, ScreenRight
    <3>2. Head(old.rest).text \in Seq(Pieces)
      BY <3>1, RestFacts
    <3> QED BY <1>5, <2>2, <3>1, <3>2
  <2> QED BY <2>1, <2>2
<1>7. EndsOpen(shown) => ask.body # <<>> /\ ask.body[1] = Open
  <2>1. (<<Open>> \o text) # <<>> /\ (<<Open>> \o text)[1] = Open
    BY <1>6
  <2> QED BY <1>4, <1>6, <2>1
<1>8. ~TokenIn(shown \o back, K)
  BY <1>1, <1>2, <1>3, <1>7, TokenAcross
<1>9. ASSUME EndsOpen(shown \o back), ~ask.final PROVE ask.tail # <<>>
  <2>1. EndsOpen(back) \/ (EndsOpen(shown) /\ \A k \in DOMAIN back : back[k] = Ping)
    BY <1>2, <1>9, EndsOpenAcross
  <2>2. CASE EndsOpen(back)
    BY <1>1, <1>9, <2>2
  <2>3. CASE EndsOpen(shown) /\ \A k \in DOMAIN back : back[k] = Ping
    <3>1. back = <<>>
      <4>1. \A p \in Heard \union Restored : p # Ping
        BY PiecesAreWritten
      <4> QED BY <1>1, <2>3, <4>1
    <3>2. AsWritten(ask.body) = <<Open>> \o AsWritten(text)
      <4>1. <<Open>> \in Seq(Pieces)
        <5>1. Open \in Pieces
          BY PiecesAreWritten DEF Pieces
        <5> QED BY <5>1
      <4>2. AsWritten(<<Open>> \o text) = AsWritten(<<Open>>) \o AsWritten(text)
        BY <1>6, <4>1, WrittenInTurn
      <4> QED BY <1>4, <1>6, <2>3, <4>2, ShortTexts
    <3>3. AsWritten(text) \in Seq(Letter)
      BY <1>6, WrittenInTurn
    <3> PICK w \in Seq(Letter) : w = AsWritten(text)
      BY <3>3
    <3>4. <<Open>> \o w # <<>>
      OBVIOUS
    <3>5. AsWritten(<<>>) \o <<>> = <<>>
      BY AsWrittenFew
    <3> QED BY <1>1, <3>1, <3>2, <3>4, <3>5
  <2> QED BY <2>1, <2>2, <2>3
<1> QED BY <1>8, <1>9

\* What can be held is something a site writes.
LEMMA OpenIsALetter ==
  <<>> \in Seq(Letter) /\ <<Open>> \in Seq(Letter)
<1>1. Open \in Letter
  BY DEF Open, Piece, Generated, Letter
<1> QED BY <1>1

\* What the page holds is as the site wrote it.
LEMMA HeldIsWritten ==
  ASSUME IndexesCounted, NEW old, ScreenRight(old)
  PROVE  /\ AsWritten(old.tail) = old.tail /\ old.tail \in Seq(Pieces)
         /\ old.tail \in Seq(Letter)
<1>1. Open \in Pieces /\ Open \in Letter
  <2>1. Open \in Heard /\ Open \in Generated
    BY PiecesAreWritten DEF Open, Piece, Generated
  <2> QED BY <2>1 DEF Pieces, Letter
<1>2. CASE old.tail = <<>>
  BY <1>2, AsWrittenFew
<1>3. CASE old.tail = <<Open>>
  <2>1. <<Open>> \in Seq(Pieces) /\ <<Open>> \in Seq(Letter)
    BY <1>1
  <2> QED BY <1>3, <2>1, ShortTexts
<1> QED BY <1>2, <1>3 DEF ScreenRight

\* What was held in the end is joined to an event that did not end.
LEMMA JoinedIsRight ==
  ASSUME NEW old, ScreenRight(old), old.stage = "streaming", old.rest = <<>>, old.unended,
         NEW call, call.answer = old.answer, call.stage = old.stage, call.shown = old.shown,
         call.tail = <<>>, call.rest = <<>>, call.unended = old.unended, call.joined = TRUE,
         old.under \subseteq call.under
  PROVE  ScreenRight(call)
BY DEF ScreenRight

\* The screen of a stream when an ask of its own is over, as Shown makes it.
GoesOn(old, ask, ok, call) ==
  /\ call.answer = old.answer /\ call.stage = old.stage /\ call.joined = FALSE
  /\ call.shown = (old.shown \o Got(ask, ok).expanded) \o
       (IF ask.final /\ old.rest # <<>> THEN Head(old.rest).text ELSE <<>>)
  /\ call.tail = IF ask.final THEN <<>> ELSE Got(ask, ok).tail
  /\ call.rest = IF old.rest = <<>> THEN old.rest ELSE Tail(old.rest)
  /\ call.under = old.under \union {IF ok THEN ask.session ELSE None}

\* An ask that is over, failed or not, leaves the stream that made it right.
LEMMA ShownIsRight ==
  ASSUME IndexesCounted, NEW old, ScreenRight(old), old.stage = "streaming",
         NEW ask, AnswerRight(ask), ~ask.masking, AskedNext(old, ask), NEW ok,
         ok => ask.stage = "answered" /\ ask.ok,
         NEW call, GoesOn(old, ask, ok, call)
  PROVE  ScreenRight(call)
<1>a. PICK e, u, shown, rest, whole, text :
        /\ e = Got(ask, ok).expanded /\ u = Got(ask, ok).tail
        /\ shown = old.shown /\ rest = old.rest /\ whole = AsWritten(Raw(old.answer))
        /\ text = IF ask.final /\ rest # <<>> THEN Head(rest).text ELSE <<>>
        /\ call.answer = old.answer /\ call.stage = old.stage /\ call.joined = FALSE
        /\ call.shown = (shown \o e) \o text
        /\ call.tail = IF ask.final THEN <<>> ELSE u
        /\ call.rest = IF rest = <<>> THEN rest ELSE Tail(rest)
        /\ call.under = old.under \union {IF ok THEN ask.session ELSE None}
  BY DEF GoesOn
<1>1. /\ e \in Seq(Pieces) /\ u \in {<<>>, <<Open>>} /\ ask.final \in BOOLEAN
      /\ AsWritten(e) \o u = AsWritten(ask.body) /\ (ask.final => u = <<>>)
  BY <1>a, GotIsRight
<1>2. shown \in Seq(Pieces) /\ rest \in Seq(Heards) /\ old.answer \in Seq(Heards)
  BY <1>a DEF ScreenRight
<1>3. /\ AsWritten(old.tail) = old.tail /\ old.tail \in Seq(Pieces) /\ old.tail \in Seq(Letter)
  BY HeldIsWritten
<1>4. text \in Seq(Pieces) /\ (ask.final /\ rest # <<>> => text = <<Stop>>)
  <2>1. CASE ask.final /\ rest # <<>>
    <3>1. Head(rest) = StopEvent /\ text = Head(rest).text
      BY <1>a, <2>1 DEF AskedNext
    <3>2. Head(rest).text \in Seq(Pieces)
      BY <1>2, <2>1, RestFacts
    <3> QED BY <3>1, <3>2, HeardsFacts
  <2>2. CASE ~(ask.final /\ rest # <<>>)
    <3>1. <<>> \in Seq(Pieces)
      OBVIOUS
    <3> QED BY <1>a, <2>2, <3>1
  <2> QED BY <2>1, <2>2
<1>5. PICK a, b, y, r : /\ a = AsWritten(shown) /\ b = AsWritten(e) /\ y = AsWritten(text)
                        /\ r = AsWritten(Raw(call.rest))
  OBVIOUS
<1>6. call.rest \in Seq(Heards) /\ r \in Seq(Letter)
  <2>1. call.rest \in Seq(Heards)
    BY <1>2, <1>a, RestFacts
  <2> QED BY <1>5, <2>1, RestFacts
<1>7. a \in Seq(Letter) /\ b \in Seq(Letter) /\ y \in Seq(Letter)
  BY <1>1, <1>2, <1>4, <1>5, WrittenInTurn
<1>8. shown \o e \in Seq(Pieces) /\ call.shown \in Seq(Pieces)
  <2>1. shown \o e \in Seq(Pieces)
    BY <1>1, <1>2
  <2>2. (shown \o e) \o text \in Seq(Pieces)
    BY <1>4, <2>1
  <2> QED BY <1>a, <2>1, <2>2
<1>9. AsWritten(call.shown) = (a \o b) \o y
  <2>1. AsWritten(shown \o e) = a \o b
    BY <1>1, <1>2, <1>5, WrittenInTurn
  <2>2. AsWritten((shown \o e) \o text) = AsWritten(shown \o e) \o y
    BY <1>4, <1>5, <1>8, WrittenInTurn
  <2> QED BY <1>a, <2>1, <2>2
<1>10. (a \o old.tail) \o AsWritten(Raw(rest)) = whole
  <2>1. ask.final => old.tail # <<>>
    BY DEF AskedNext
  <2>2. ~ask.final => old.rest # <<>>
    BY DEF AskedNext
  <2>3. ~old.joined
    BY <1>1, <2>1, <2>2 DEF ScreenRight
  <2> QED BY <1>5, <1>a, <2>3 DEF ScreenRight
<1>11. rest # <<>> =>
         /\ Head(rest).text \in Seq(Pieces)
         /\ AsWritten(Raw(rest)) = AsWritten(Head(rest).text) \o AsWritten(Raw(Tail(rest)))
  BY <1>2, RestFacts
<1>12. (((a \o b) \o y) \o call.tail) \o r = whole
  <2>1. CASE ~ask.final
    <3>0. PICK x : x = AsWritten(Head(rest).text)
      OBVIOUS
    <3>1. rest # <<>> /\ ask.body = old.tail \o Head(rest).text
      BY <1>a, <2>1 DEF AskedNext
    <3>2. x \in Seq(Letter) /\ AsWritten(ask.body) = old.tail \o x
      BY <1>3, <1>11, <3>0, <3>1, WrittenInTurn
    <3>3. b \o u = old.tail \o x
      BY <1>1, <1>5, <3>2
    <3>4. u \in Seq(Letter)
      BY <1>1, OpenIsALetter
    <3>5. ((a \o b) \o u) \o r = (a \o old.tail) \o (x \o r)
      <4>a. PICK t : t = old.tail
        OBVIOUS
      <4>1. /\ a \in Seq(Letter) /\ b \in Seq(Letter) /\ u \in Seq(Letter)
            /\ t \in Seq(Letter) /\ x \in Seq(Letter) /\ r \in Seq(Letter)
        BY <1>3, <1>6, <1>7, <3>2, <3>4, <4>a
      <4>2. MayStandFor(b, u, t, x, a, r)
        BY <4>1, SameInTurn
      <4> QED BY <3>3, <4>2, <4>a DEF MayStandFor
    <3>6. AsWritten(Raw(rest)) = x \o r
      BY <1>5, <1>11, <1>a, <3>0, <3>1
    <3>7. call.tail = u /\ y = <<>>
      BY <1>5, <1>a, <2>1, AsWrittenFew
    <3>8. a \o b \in Seq(Letter) /\ (a \o b) \o <<>> = a \o b
      BY <1>7
    <3>9. (((a \o b) \o y) \o call.tail) \o r = ((a \o b) \o u) \o r
      BY <3>7, <3>8, Zenon
    <3>10. (a \o old.tail) \o (x \o r) = whole
      BY <1>10, <3>6, Zenon
    <3>11. ((a \o b) \o u) \o r = whole
      BY <3>5, <3>10, Zenon
    <3> QED BY <3>9, <3>11, Zenon
  <2>2. CASE ask.final
    <3>1. ask.body = old.tail /\ u = <<>> /\ call.tail = <<>>
      BY <1>1, <1>a, <2>2 DEF AskedNext
    <3>2. b = old.tail
      <4>1. b \o <<>> = b
        BY <1>7
      <4> QED BY <1>1, <1>3, <1>5, <3>1, <4>1
    <3>3. y \o r = AsWritten(Raw(rest))
      <4>1. CASE rest = <<>>
        <5>1. y = <<>> /\ r = AsWritten(Raw(rest)) /\ <<>> \o r = r
          BY <1>5, <1>6, <1>a, <4>1, AsWrittenFew
        <5> QED BY <5>1
      <4>2. CASE rest # <<>>
        <5>1. text = Head(rest).text /\ call.rest = Tail(rest)
          BY <1>a, <2>2, <4>2
        <5> QED BY <1>5, <1>11, <4>2, <5>1
      <4> QED BY <4>1, <4>2
    <3>4. (((a \o b) \o y) \o <<>>) \o r = (a \o b) \o (y \o r)
      <4>1. a \o b \in Seq(Letter)
        BY <1>7
      <4>2. EmptyBetween(a \o b, y, r)
        BY <1>6, <1>7, <4>1, NothingBetween
      <4> QED BY <4>2 DEF EmptyBetween
    <3> QED BY <1>10, <3>1, <3>2, <3>3, <3>4
  <2> QED BY <1>1, <2>1, <2>2
<1>13. call.tail \in {<<>>, <<Open>>}
  BY <1>1, <1>a
<1>14. ASSUME NEW s \in Sessions, call.under \subseteq {s}
       PROVE  /\ ~TokenIn(call.shown, DOMAIN known[s])
              /\ EndsOpen(call.shown) => call.tail # <<>> \/ call.rest = <<>>
  <2>1. ok /\ ask.session = s /\ old.under \subseteq {s}
    <3>1. None \notin Sessions
      BY NamesAssumption DEF Sessions, None, Page
    <3> QED BY <1>14, <1>a, <3>1
  <2>2. /\ ask.stage = "answered" /\ ask.ok /\ e = ask.back /\ u = ask.tail
        /\ ask.session \in Sessions
    BY <1>a, <2>1 DEF Got
  <2>3. /\ ~TokenIn(shown \o e, DOMAIN known[s])
        /\ EndsOpen(shown \o e) => u # <<>> \/ ask.final
    BY <1>a, <2>1, <2>2, GotHidesTokens
  <2>4. CASE ask.final /\ rest # <<>>
    <3>1. call.shown = (shown \o e) \o <<Stop>> /\ <<Stop>> \in Seq(Pieces)
      BY <1>4, <1>a, <2>4
    <3>2. ~TokenIn(call.shown, DOMAIN known[s])
      BY <1>8, <2>3, <3>1, ShortTexts, TokenAcross
    <3>3. ~EndsOpen(call.shown)
      <4>1. 1 \in DOMAIN <<Stop>> /\ <<Stop>>[1] # Ping
        BY ShortTexts
      <4> QED BY <1>8, <3>1, <4>1, ShortTexts, EndsOpenAcross
    <3> QED BY <3>2, <3>3
  <2>5. CASE ~(ask.final /\ rest # <<>>)
    <3>1. (shown \o e) \o <<>> = shown \o e
      BY <1>8
    <3>2. call.shown = shown \o e
      BY <1>a, <2>5, <3>1
    <3>3. ~ask.final => call.tail = u
      BY <1>a
    <3>4. rest = <<>> => call.rest = <<>>
      BY <1>a
    <3> QED BY <1>1, <2>3, <2>5, <3>2, <3>3, <3>4
  <2> QED BY <2>4, <2>5
<1>15. (AsWritten(call.shown) \o call.tail) \o AsWritten(Raw(call.rest))
         = AsWritten(Raw(call.answer))
  BY <1>5, <1>9, <1>12, <1>a
<1>16. call.answer \in Seq(Heards) /\ call.stage = "streaming" /\ ~call.joined
  BY <1>2, <1>a
<1> QED BY <1>6, <1>8, <1>13, <1>14, <1>15, <1>16 DEF ScreenRight

\* An ask that is over leaves the call that made it with the right screen.
LEMMA ResolvedScreens ==
  ASSUME EInv, Screens, NEW id \in DOMAIN waiting, NEW ask \in asks, ask.id = id, NEW ok,
         ok => ask.stage = "answered" /\ ask.ok,
         Resolved(waiting[id], ask, ok),
         waiting' = Without(waiting, id), asks' \subseteq asks,
         UNCHANGED <<known, counter>>
  PROVE  Screens'
<1>0. PICK c \in Calls : c = waiting[id]
  BY DEF EInv, WaitsRight
<1>1. PICK old : old = calls[c] /\ old = CallRecord(old) /\ ScreenRight(old)
  BY <1>0 DEF EInv, Records, Screens
<1>2. IF ask.masking THEN old.stage = "masking" ELSE old.stage = "streaming"
  BY <1>0, <1>1 DEF EInv, WaitsRight
<1>3. IndexesCounted
  BY GrownStays
<1>4. CASE ~ask.masking
  <2>1. AnswerRight(ask) /\ AskedNext(old, ask)
    BY <1>0, <1>1, <1>4 DEF Screens
  <2>2. PICK got, released, joined, call :
          /\ got = Got(ask, ok) /\ released = (ask.final /\ old.rest # <<>>)
          /\ joined = (ask.final /\ old.rest = <<>> /\ old.unended /\ got.expanded # <<>>)
          /\ call = Shown(old, ask, ok)
    OBVIOUS
  <2>3. PICK shown, tail, rest, under :
          /\ shown = (old.shown \o (IF joined THEN <<>> ELSE got.expanded))
                       \o (IF released THEN Head(old.rest).text ELSE <<>>)
          /\ tail = IF ask.final THEN <<>> ELSE got.tail
          /\ rest = IF old.rest = <<>> THEN old.rest ELSE Tail(old.rest)
          /\ under = old.under \union {IF ok THEN ask.session ELSE None}
    OBVIOUS
  <2>4. call = [old EXCEPT !.ask = 0, !.joined = joined, !.shown = shown, !.tail = tail,
                           !.rest = rest, !.under = under]
    BY <1>1, <2>2, <2>3 DEF Shown, Got
  <2>5. /\ call.answer = old.answer /\ call.stage = old.stage /\ call.shown = shown
        /\ call.tail = tail /\ call.rest = rest /\ call.under = under
        /\ call.unended = old.unended /\ call.joined = joined
    BY <1>1, <2>4 DEF CallRecord
  <2>6. ASSUME ~joined PROVE ScreenRight(call)
    <3>1. joined = FALSE
      BY <2>2, <2>6
    <3>2. GoesOn(old, ask, ok, call)
      BY <2>2, <2>3, <2>5, <3>1 DEF GoesOn
    <3> QED BY <1>1, <1>2, <1>3, <1>4, <2>1, <3>2, ShownIsRight
  <2>9. ASSUME joined PROVE ScreenRight(call)
    <3>1. /\ joined = TRUE /\ ask.final /\ old.rest = <<>> /\ old.unended
      BY <2>2, <2>9
    <3>2. old.shown \in Seq(Pieces) /\ (old.shown \o <<>>) \o <<>> = old.shown
      <4>1. old.shown \in Seq(Pieces)
        BY <1>1 DEF ScreenRight
      <4> QED BY <4>1
    <3>3. shown = old.shown
      <4>1. released = FALSE
        BY <2>2, <3>1
      <4>2. shown = (old.shown \o <<>>) \o <<>>
        BY Zenon, <2>3, <3>1, <4>1
      <4> QED BY <3>2, <4>2
    <3>4. tail = <<>> /\ rest = <<>> /\ old.under \subseteq under
      BY <2>3, <3>1
    <3> QED BY <1>1, <1>2, <1>4, <2>5, <3>1, <3>3, <3>4, JoinedIsRight
  <2>7. ScreenRight(call)
    BY <2>6, <2>9
  <2>8. calls' = [calls EXCEPT ![c] = call]
    BY <1>0, <1>1, <1>4, <2>2 DEF Resolved
  <2> QED BY <1>0, <2>7, <2>8, SettledScreens
<1>5. CASE ask.masking
  <2>1. PICK stage, sent : /\ stage \notin {"streaming", "done"}
                           /\ calls' = [calls EXCEPT ![c].stage = stage, ![c].ask = 0,
                                                     ![c].sent = sent]
    <3>1. CASE ok
      <4>1. calls' = [calls EXCEPT ![c].stage = "sent", ![c].ask = 0, ![c].sent = ask.back]
        BY <1>0, <1>5, <3>1 DEF Resolved
      <4>2. "sent" \notin {"streaming", "done"}
        OBVIOUS
      <4> QED BY <4>1, <4>2
    <3>2. CASE ~ok
      <4>1. calls' = [calls EXCEPT ![c].stage = "blocked", ![c].ask = 0]
        BY <1>0, <1>5, <3>2 DEF Resolved
      <4>2. PICK call : call = [old EXCEPT !.stage = "blocked", !.ask = 0]
        OBVIOUS
      <4>3. call = [old EXCEPT !.stage = "blocked", !.ask = 0, !.sent = old.sent]
        BY <1>1, <4>2 DEF CallRecord
      <4>4. calls' = [calls EXCEPT ![c].stage = "blocked", ![c].ask = 0, ![c].sent = old.sent]
        BY <1>1, <4>1, <4>2, <4>3 DEF EInv, Records
      <4> QED BY <4>4
    <3> QED BY <3>1, <3>2
  <2>2. PICK call : call = [old EXCEPT !.stage = stage, !.ask = 0, !.sent = sent]
    OBVIOUS
  <2>3. calls' = [calls EXCEPT ![c] = call]
    BY <1>1, <2>1, <2>2 DEF EInv, Records
  <2>4. /\ call.answer = old.answer /\ call.rest = old.rest /\ call.tail = old.tail
        /\ call.shown = old.shown /\ call.under = old.under
        /\ call.unended = old.unended /\ call.joined = old.joined
    BY <1>1, <2>2 DEF CallRecord
  <2>5. ScreenRight(call)
    BY <1>1, <1>2, <1>5, <2>4, SameScreen
  <2> QED BY <1>0, <2>3, <2>5, SettledScreens
<1> QED BY <1>4, <1>5

\* A step that touches neither a call nor what it waits for.
LEMMA QuietScreens ==
  ASSUME EInv, Screens, UNCHANGED <<calls, waiting, known, counter>>, asks' \subseteq asks
  PROVE  Screens'
<1>1. Grown
  BY GrownStays
<1>2. \A d \in Calls : ScreenRight(calls[d])'
  <2> SUFFICES ASSUME NEW d \in Calls PROVE ScreenRight(calls[d])'
    OBVIOUS
  <2> PICK x : x = calls[d]
    OBVIOUS
  <2>1. ScreenRight(x)'
    BY <1>1, ScreenStays DEF Screens
  <2> QED BY <2>1
<1>3. \A a \in asks' : AnswerRight(a)'
  BY <1>1, AnswerStays DEF Screens
<1>4. \A id \in DOMAIN waiting : \A a \in asks' :
        a.id = id /\ ~a.masking => AskedNext(calls[waiting[id]], a)
  BY DEF Screens
<1> QED BY <1>2, <1>3, <1>4 DEF Screens, AskedNext

\* A reply, in time or late, leaves every screen right.
LEMMA SettleScreens ==
  ASSUME EInv, Screens, NEW ask \in asks, Settle(ask)
  PROVE  Screens'
<1>1. UNCHANGED <<known, counter>> /\ asks' \subseteq asks
  BY DEF Settle, agent
<1>2. CASE UNCHANGED <<calls, waiting>>
  BY <1>1, <1>2, QuietScreens
<1>3. CASE \E id \in Waiter(ask) :
             Resolved(waiting[id], ask, ask.ok) /\ waiting' = Without(waiting, id)
  <2>1. PICK id \in Waiter(ask) :
          Resolved(waiting[id], ask, ask.ok) /\ waiting' = Without(waiting, id)
    BY <1>3
  <2>2. id \in DOMAIN waiting /\ ask.id = id /\ ask.stage = "answered"
    BY DEF Waiter, Settle
  <2> QED BY <1>1, <2>1, <2>2, ResolvedScreens
<1> QED BY <1>2, <1>3 DEF Settle

\* So does the time-out.
LEMMA TimeoutScreens ==
  ASSUME EInv, Screens, NEW id \in DOMAIN waiting, Timeout(id)
  PROVE  Screens'
<1>1. PICK ask \in asks : ask.id = id /\ Resolved(waiting[id], ask, FALSE) /\ asks' \subseteq asks
  BY DEF Timeout, ResolveUnreachable
<1>2. waiting' = Without(waiting, id) /\ UNCHANGED <<known, counter>>
  BY DEF Timeout, GivenUp, agent
<1> QED BY <1>1, <1>2, ResolvedScreens

\* The steps of the relay, the worker and the agent change no screen.
LEMMA StampScreens ==
  ASSUME EInv, Screens, NEW ask \in asks, Stamp(ask)
  PROVE  Screens'
<1>1. PageSession \in Sessions
  BY DEF EInv, Counted, Addresses, PageSession, Sessions
<1>2. PICK new : new = [ask EXCEPT !.stage = "stamped", !.session = PageSession]
  OBVIOUS
<1>3. /\ new.id = ask.id /\ new.masking = ask.masking /\ new.body = ask.body
      /\ new.final = ask.final /\ new.stage = "stamped" /\ new.session = PageSession
  BY <1>2 DEF EInv, Records, AskRecord
<1>4. AnswerRight(new)
  BY <1>1, <1>3 DEF Screens, AnswerRight
<1>5. asks' = (asks \ {ask}) \union {new} /\ UNCHANGED <<known, counter, calls, waiting>>
  BY <1>2 DEF Stamp, agent
<1>6. Grown
  BY <1>5, GrownStays
<1> QED BY <1>3, <1>4, <1>5, <1>6, AskScreens

\* A reply with a text that says what was asked, or with none.
LEMMA RepliedScreens ==
  ASSUME EInv, Screens, Grown, NEW ask \in asks, ask.stage = "stamped",
         NEW ok, NEW back, NEW tail, Replied(ask, ok, back, tail),
         ~ask.masking /\ ok =>
           RestoredAs(ask.body, ask.final, ask.session, back, tail),
         UNCHANGED <<calls, waiting>>
  PROVE  Screens'
<1>1. PICK new : new = [ask EXCEPT !.stage = "answered", !.ok = ok, !.back = back, !.tail = tail]
  OBVIOUS
<1>2. /\ new.id = ask.id /\ new.masking = ask.masking /\ new.body = ask.body
      /\ new.final = ask.final /\ new.stage = "answered" /\ new.session = ask.session
      /\ new.ok = ok /\ new.back = back /\ new.tail = tail
  BY <1>1 DEF EInv, Records, AskRecord
<1>3. AnswerRight(new)
  <2>1. AnswerRight(ask) /\ ask.session \in Sessions
    BY DEF Screens, EInv, AsksRight
  <2> QED BY <1>2, <2>1 DEF AnswerRight
<1>4. asks' = (asks \ {ask}) \union {new}
  BY <1>1 DEF Replied
<1> QED BY <1>2, <1>3, <1>4, AskScreens

\* An ask that fails says nothing.
LEMMA FailScreens ==
  ASSUME EInv, Screens, NEW ask \in asks, Fail(ask)
  PROVE  Screens'
<1>1. Replied(ask, FALSE, <<>>, <<>>) /\ UNCHANGED <<calls, waiting>> /\ ask.stage = "stamped"
  BY DEF Fail
<1>2. Grown
  BY GrownStays DEF Fail, agent
<1> QED BY <1>1, <1>2, RepliedScreens

\* The agent's answer is the text it was asked about, restored.
LEMMA HandleUnmaskScreens ==
  ASSUME EInv, Screens, NEW ask \in asks, HandleUnmask(ask)
  PROVE  Screens'
<1>1. UNCHANGED <<known, counter, calls, waiting>> /\ ask.stage = "stamped" /\ ~ask.masking
  BY DEF HandleUnmask, agent
<1>2. Grown /\ IndexesCounted
  BY <1>1, GrownStays
<1>3. ask.body \in Seq(Heard) /\ ask.final \in BOOLEAN /\ ask.session \in Sessions
  BY <1>1 DEF Screens, AnswerRight
<1>4. PICK back, tail :
        /\ Replied(ask, TRUE, back, tail)
        /\ RestoredAs(ask.body, ask.final, ask.session, back, tail)
  BY <1>2, <1>3, UnmaskRestores DEF HandleUnmask
<1> QED BY <1>1, <1>2, <1>4, RepliedScreens

\* The index a value is given is new, and what stood for a value stands for it still.
LEMMA HandleMaskGrows ==
  ASSUME EInv, NEW ask \in asks, HandleMask(ask)
  PROVE  Grown
<1> DEFINE s == ask.session
           v == ask.body[1].value
           had == {n \in DOMAIN known[s] : known[s][n] = v}
<1>1. s \in Sessions
  BY DEF HandleMask, EInv, AsksRight
<1>0. PICK n : n = IF had = {} THEN NextIndex(s) ELSE CHOOSE i \in had : TRUE
  OBVIOUS
<1>2. /\ counter' = IF had = {} THEN counter + 1 ELSE counter
      /\ known' = [known EXCEPT ![s] = Put(known[s], n, v)]
  BY <1>0 DEF HandleMask
<1>3. /\ had = {} => n = counter + 1
      /\ had # {} => n \in DOMAIN known[s] /\ known[s][n] = v
  BY <1>0 DEF NextIndex
<1> HIDE DEF v, had
<1>4. /\ known'[s] = Put(known[s], n, v)
      /\ \A t \in Sessions \ {s} : known'[t] = known[t]
  BY <1>1, <1>2 DEF EInv, Counted
<1>5. /\ DOMAIN known'[s] = DOMAIN known[s] \union {n}
      /\ \A m \in DOMAIN known[s] : m # n => known'[s][m] = known[s][m]
      /\ known'[s][n] = v
  BY <1>4 DEF Put
<1>6. /\ counter \in Nat /\ counter' \in Nat /\ counter <= counter'
      /\ \A t \in Sessions : \A m \in DOMAIN known[t] : m \in 1..counter
  BY <1>2 DEF EInv, Counted
<1>7. IndexesCounted
  BY <1>6 DEF IndexesCounted
<1>8. IndexesCounted'
  <2> SUFFICES ASSUME NEW t \in Sessions, NEW m \in DOMAIN known'[t] PROVE m \in 1..counter'
    BY <1>6 DEF IndexesCounted
  <2>1. m \in DOMAIN known[t] \/ (t = s /\ m = n)
    BY <1>4, <1>5
  <2>2. n \in 1..counter'
    BY <1>1, <1>2, <1>3, <1>6
  <2> QED BY <1>6, <2>1, <2>2
<1>9. \A t \in Sessions : \A m \in DOMAIN known[t] :
        m \in DOMAIN known'[t] /\ known'[t][m] = known[t][m]
  <2> TAKE t \in Sessions
  <2> TAKE m \in DOMAIN known[t]
  <2>1. CASE t # s
    BY <1>4, <2>1
  <2>2. CASE t = s
    <3>1. m = n => known[s][n] = v
      BY <1>1, <1>3, <1>6, <2>2
    <3> QED BY <1>5, <2>2, <3>1
  <2> QED BY <2>1, <2>2
<1>10. Restored \subseteq Restored'
  BY <1>9 DEF Restored
<1>11. \A t \in Sessions : DOMAIN known[t] = DOMAIN known'[t] \cap 1..counter
  <2> TAKE t \in Sessions
  <2>1. CASE t # s
    BY <1>4, <1>6, <2>1
  <2>2. CASE t = s
    BY <1>3, <1>5, <1>6, <2>2
  <2> QED BY <2>1, <2>2
<1> QED BY <1>6, <1>7, <1>8, <1>10, <1>11 DEF Grown

\* A new index is in no text that is already shown or asked about.
LEMMA HandleMaskScreens ==
  ASSUME EInv, Screens, NEW ask \in asks, HandleMask(ask)
  PROVE  Screens'
<1>1. PICK ok, back, tail : Replied(ask, ok, back, tail)
  BY DEF HandleMask
<1>2. ask.masking /\ ask.stage = "stamped" /\ UNCHANGED <<calls, waiting>>
  BY DEF HandleMask
<1> QED BY <1>1, <1>2, HandleMaskGrows, RepliedScreens

\* Nothing is shown at first.
LEMMA ScreensInit == Init => Screens
<1> SUFFICES ASSUME Init PROVE Screens
  OBVIOUS
<1>0. PICK call : call =
        [stage |-> "idle", conv |-> None, typed |-> None, ask |-> 0, sent |-> <<>>,
         answer |-> <<>>, rest |-> <<>>, unended |-> FALSE, tail |-> <<>>, shown |-> <<>>,
         joined |-> FALSE, under |-> {}]
  OBVIOUS
<1>1. /\ \A c \in Calls : calls[c] = call
      /\ call.stage = "idle" /\ call.shown = <<>> /\ call.tail = <<>>
      /\ call.answer = <<>> /\ call.rest = <<>> /\ call.under = {} /\ ~call.joined
  BY <1>0 DEF Init
<1>2. ScreenRight(call)
  <2>1. (AsWritten(<<>>) \o <<>>) \o AsWritten(Raw(<<>>)) = AsWritten(Raw(<<>>))
    <3>1. IndexesCounted
      BY DEF Init, IndexesCounted
    <3>2. <<>> \in Seq(Heards)
      OBVIOUS
    <3>3. AsWritten(Raw(<<>>)) = <<>> /\ AsWritten(<<>>) = <<>>
      BY <3>1, <3>2, RestFacts, AsWrittenFew
    <3>4. (<<>> \o <<>>) \o <<>> = <<>>
      OBVIOUS
    <3> QED BY <3>3, <3>4
  <2>2. (\A s \in Sessions : ~TokenIn(<<>>, DOMAIN known[s])) /\ ~EndsOpen(<<>>)
    BY DEF TokenIn, EndsOpen
  <2>3. <<>> \in Seq(Heards) /\ <<>> \in Seq(Pieces)
    OBVIOUS
  <2> QED BY <1>1, <2>1, <2>2, <2>3 DEF ScreenRight
<1> QED BY <1>1, <1>2 DEF Init, Screens

\* Every step keeps every screen right.
LEMMA ScreensNext == EInv /\ Typed /\ Screens /\ [Next]_vars => Screens'
<1> SUFFICES ASSUME EInv, Typed, Screens, [Next]_vars PROVE Screens'
  OBVIOUS
<1>1. ASSUME NEW c \in Calls, NEW v \in Typeable[c], Send(c, v) PROVE Screens'
  BY <1>1, SendScreens
<1>2. ASSUME NEW c \in Calls, Retry(c) \/ Refuse(c) PROVE Screens'
  BY <1>2, RetryOrRefuseScreens
<1>3. ASSUME NEW c \in Calls, Respond(c) PROVE Screens'
  BY <1>3, RespondScreens
<1>4. ASSUME NEW c \in Calls, NextEvent(c) \/ Flush(c) PROVE Screens'
  BY <1>4, ReadScreens
<1>5. ASSUME NEW ask \in asks, Stamp(ask) PROVE Screens'
  BY <1>5, StampScreens
<1>6. ASSUME NEW ask \in asks, Fail(ask) PROVE Screens'
  BY <1>6, FailScreens
<1>7. ASSUME NEW ask \in asks, HandleMask(ask) PROVE Screens'
  BY <1>7, HandleMaskScreens
<1>8. ASSUME NEW ask \in asks, HandleUnmask(ask) PROVE Screens'
  BY <1>8, HandleUnmaskScreens
<1>9. ASSUME NEW ask \in asks, Settle(ask) PROVE Screens'
  BY <1>9, SettleScreens
<1>10. ASSUME NEW id \in DOMAIN waiting, Timeout(id) PROVE Screens'
  BY <1>10, TimeoutScreens
<1>11. CASE Navigate
  BY <1>11, QuietScreens DEF Navigate, agent
<1>12. CASE UNCHANGED vars
  BY <1>12, QuietScreens DEF vars
<1> QED BY <1>1, <1>2, <1>3, <1>4, <1>5, <1>6, <1>7, <1>8, <1>9, <1>10, <1>11, <1>12 DEF Next

\* Of a text with no original but those the agent gave, the properties read the same.
LEMMA BackIsAsWritten ==
  ASSUME EInv, NEW text \in Seq(Pieces)
  PROVE  Back(text) = AsWritten(text)
<1>1. IndexesCounted
  BY DEF EInv, Counted, IndexesCounted
<1>2. ASSUME NEW p \in Pieces PROVE WrittenBack(p) = Letters(p)
  <2>1. CASE p \in Restored
    <3>1. PICK s, n : s \in Sessions /\ n \in DOMAIN known[s] /\ p = Original(n, known[s][n])
      BY <2>1 DEF Restored
    <3>2. StandsFor(n, known[s][n])
      BY <3>1 DEF StandsFor
    <3>3. n \in DOMAIN Minted /\ Minted[n] = known[s][n]
      BY <3>2, MintedIsOfItsSession
    <3>4. p.kind = "value" /\ p.index = n /\ p.value = known[s][n] /\ p # Ping
      BY <3>1 DEF Original, Piece, Ping
    <3> QED BY <3>3, <3>4 DEF WrittenBack, Letters
  <2>2. CASE p \in Heard
    <3>1. p.kind # "value"
      BY <1>1, <2>2, PiecesAreWritten
    <3> QED BY <3>1 DEF WrittenBack, Letters
  <2>3. CASE p = Ping
    BY <2>3 DEF WrittenBack, Letters
  <2>4. CASE p = Stop
    <3>1. p.kind # "value"
      BY <2>4 DEF Stop, Piece
    <3> QED BY <3>1 DEF WrittenBack, Letters
  <2> QED BY <2>1, <2>2, <2>3, <2>4 DEF Pieces
<1>3. \A i \in DOMAIN text : WrittenBack(text[i]) = Letters(text[i])
  BY <1>2
<1>4. [i \in DOMAIN text |-> WrittenBack(text[i])] = [i \in DOMAIN text |-> Letters(text[i])]
  BY <1>3, Zenon
<1> QED BY <1>4 DEF Back, AsWritten

\* Whatever asks failed or timed out and wherever the address went, what the page
\* has of an answer, what it holds and what is to come are the answer, with nothing
\* lost, doubled or restored to another value: for any answers and any cuts, but where
\* the last event of the answer never ended and the end of a text was held behind it.
THEOREM ScreenIsWhole == Spec => []ScreenIsTheAnswer
<1>1. EInv /\ Screens => ScreenIsTheAnswer
  <2> SUFFICES ASSUME EInv, Screens, NEW c \in Calls
               PROVE  /\ calls[c].joined => calls[c].unended
                      /\ ~calls[c].joined =>
                           Back(calls[c].shown) \o calls[c].tail \o Back(Raw(calls[c].rest))
                             = Back(Raw(calls[c].answer))
    BY DEF ScreenIsTheAnswer
  <2>0. PICK call : call = calls[c] /\ ScreenRight(call)
    BY DEF Screens
  <2>1. IndexesCounted
    BY DEF EInv, Counted, IndexesCounted
  <2>2. /\ call.shown \in Seq(Pieces) /\ Raw(call.rest) \in Seq(Pieces)
        /\ Raw(call.answer) \in Seq(Pieces)
    BY <2>0, <2>1, RestFacts DEF ScreenRight
  <2>3. /\ Back(call.shown) = AsWritten(call.shown)
        /\ Back(Raw(call.rest)) = AsWritten(Raw(call.rest))
        /\ Back(Raw(call.answer)) = AsWritten(Raw(call.answer))
    BY <2>2, BackIsAsWritten
  <2>4. /\ call.joined => call.unended
        /\ ~call.joined => (AsWritten(call.shown) \o call.tail) \o AsWritten(Raw(call.rest))
                            = AsWritten(Raw(call.answer))
    BY <2>0 DEF ScreenRight
  <2> QED BY <2>0, <2>3, <2>4, Zenon
<1> QED BY EInvInit, EInvNext, TypedInit, TypedNext, ScreensInit, ScreensNext, <1>1, PTL
        DEF Spec

\* An answer restored under one session without a failure shows no token of it, for
\* any answers, any cuts and any keep-alives between.
THEOREM RestoredToItsEnd == Spec => []RestoredWhole
<1>1. EInv /\ Screens => RestoredWhole
  <2> SUFFICES ASSUME EInv, Screens, NEW c \in Calls, NEW s \in Sessions,
                      calls[c].under = {s}
               PROVE  ~ShowsToken(calls[c].shown, s)
    BY DEF RestoredWhole
  <2>1. ~TokenIn(calls[c].shown, DOMAIN known[s])
    BY DEF Screens, ScreenRight
  <2> QED BY <2>1 DEF TokenIn, ShowsToken
<1> QED BY EInvInit, EInvNext, TypedInit, TypedNext, ScreensInit, ScreensNext, <1>1, PTL
        DEF Spec
=============================================================================
