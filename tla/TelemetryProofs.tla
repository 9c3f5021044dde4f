--------------------------- MODULE TelemetryProofs ---------------------------
(***************************************************************************)
(* Theorems about Telemetry for every set of exchanges and conversations,  *)
(* every bound of the buffer and every number of kills, refusals and       *)
(* failed writes.                                                          *)
(*                                                                         *)
(* The argument is of bookkeeping: an entry is in the window that is open, *)
(* or in a bucket, or was given up, and in one of them at most; the        *)
(* buckets lie one after another in time; what the files hold is in order  *)
(* in the same way, with what the backend has; and between the two writes  *)
(* of a save, the history variables say which of the two files may be      *)
(* believed.                                                               *)
(***************************************************************************)
EXTENDS Telemetry, SequenceTheorems, FiniteSetTheorems, WellFoundedInduction, TLAPS

-----------------------------------------------------------------------------
(* Induction.  The library's theorems of it take an operator as a parameter,   *)
(* which no prover here can instantiate; a set of numbers that has no least    *)
(* number outside it does as well, and that < well-founds the numbers is a     *)
(* fact that can be cited.                                                     *)

\* A set of numbers with 0 in it, and with each its successor, is all of them.
LEMMA Induction ==
  ASSUME NEW T \in SUBSET Nat, 0 \in T, \A n \in Nat : n \in T => n + 1 \in T
  PROVE  T = Nat
<1> SUFFICES ASSUME Nat \ T # {} PROVE FALSE
  OBVIOUS
<1>1. PICK n \in Nat \ T : \A m \in Nat \ T : ~(<<m, n>> \in OpToRel(<, Nat))
  BY NatLessThanWellFounded, WFMin
<1>2. \A m \in Nat \ T : ~(m < n)
  BY <1>1 DEF OpToRel
<1>3. n # 0 /\ n - 1 \in Nat /\ n - 1 < n
  OBVIOUS
<1> QED BY <1>2, <1>3

-----------------------------------------------------------------------------
(* What pruning keeps, for every sequence. *)

\* g is the function that Keep is defined by, up to m.
KeptTo(s, T, g, m) ==
  g = [n \in 0..m |-> IF n = 0 THEN <<>>
                      ELSE IF s[n] \in T THEN Append(g[n - 1], s[n]) ELSE g[n - 1]]

\* There is such a function, up to any m.
LEMMA KeptExists ==
  ASSUME NEW s, NEW T
  PROVE  \A m \in Nat : \E g : KeptTo(s, T, g, m)
<1> DEFINE M == {m \in Nat : \E g : KeptTo(s, T, g, m)}
<1>1. 0 \in M
  <2>1. KeptTo(s, T, [n \in 0..0 |-> <<>>], 0)
    BY DEF KeptTo
  <2> QED BY <2>1
<1>2. ASSUME NEW m \in Nat, m \in M PROVE m + 1 \in M
  <2>1. PICK g : KeptTo(s, T, g, m)
    BY <1>2
  <2> DEFINE h == [n \in 0..m+1 |-> IF n = m + 1
                     THEN IF s[n] \in T THEN Append(g[m], s[n]) ELSE g[m] ELSE g[n]]
  <2>2. \A n \in 0..m : h[n] = g[n]
    OBVIOUS
  <2>3. \A n \in 0..m : g[n] = IF n = 0 THEN <<>>
                      ELSE IF s[n] \in T THEN Append(g[n - 1], s[n]) ELSE g[n - 1]
    BY <2>1 DEF KeptTo
  <2>4. \A n \in 0..m+1 : h[n] = IF n = 0 THEN <<>>
                      ELSE IF s[n] \in T THEN Append(h[n - 1], s[n]) ELSE h[n - 1]
    BY <2>2, <2>3
  <2>5. KeptTo(s, T, h, m + 1)
    BY <2>4 DEF KeptTo
  <2> QED BY <2>5
<1> HIDE DEF M
<1>3. M = Nat
  BY <1>1, <1>2, Induction DEF M
<1> QED BY <1>3 DEF M

\* So Keep, which chooses one, has chosen one.
LEMMA KeepUnfolds ==
  ASSUME NEW s, NEW T, Len(s) \in Nat
  PROVE  \E g : KeptTo(s, T, g, Len(s)) /\ Keep(s, T) = g[Len(s)]
<1> DEFINE kept == CHOOSE g : g = [n \in 0..Len(s) |->
                     IF n = 0 THEN <<>>
                     ELSE IF s[n] \in T THEN Append(g[n - 1], s[n]) ELSE g[n - 1]]
<1>1. Keep(s, T) = kept[Len(s)]
  BY DEF Keep
<1>2. PICK g : g = [n \in 0..Len(s) |->
                     IF n = 0 THEN <<>>
                     ELSE IF s[n] \in T THEN Append(g[n - 1], s[n]) ELSE g[n - 1]]
  <2> HIDE DEF kept
  <2>1. PICK g : KeptTo(s, T, g, Len(s))
    BY KeptExists
  <2> QED BY <2>1 DEF KeptTo
<1>3. kept = [n \in 0..Len(s) |->
                     IF n = 0 THEN <<>>
                     ELSE IF s[n] \in T THEN Append(kept[n - 1], s[n]) ELSE kept[n - 1]]
  BY <1>2
<1> HIDE DEF kept
<1> QED BY <1>1, <1>3 DEF KeptTo

\* What is kept is of the sequence, wanted, all of what is wanted, and in its order; and
\* a member that is not wanted makes the result shorter.
THEOREM KeepFacts ==
  ASSUME NEW S, NEW s \in Seq(S), NEW T
  PROVE  /\ Keep(s, T) \in Seq(S)
         /\ Len(Keep(s, T)) <= Len(s)
         /\ \A i \in 1..Len(Keep(s, T)) : \E k \in 1..Len(s) : s[k] \in T /\ Keep(s, T)[i] = s[k]
         /\ \A k \in 1..Len(s) : s[k] \in T => \E i \in 1..Len(Keep(s, T)) : Keep(s, T)[i] = s[k]
         /\ \A k \in 1..Len(s) : s[k] \notin T => Len(Keep(s, T)) < Len(s)
         /\ \A i, j \in 1..Len(Keep(s, T)) : i < j =>
              \E k, l \in 1..Len(s) : k < l /\ Keep(s, T)[i] = s[k] /\ Keep(s, T)[j] = s[l]
<1>1. PICK g : KeptTo(s, T, g, Len(s)) /\ Keep(s, T) = g[Len(s)]
  BY KeepUnfolds
<1> DEFINE Good(m, t) ==
      /\ t \in Seq(S)
      /\ Len(t) <= m
      /\ \A i \in 1..Len(t) : \E k \in 1..m : s[k] \in T /\ t[i] = s[k]
      /\ \A k \in 1..m : s[k] \in T => \E i \in 1..Len(t) : t[i] = s[k]
      /\ \A k \in 1..m : s[k] \notin T => Len(t) < m
      /\ \A i, j \in 1..Len(t) : i < j => \E k, l \in 1..m : k < l /\ t[i] = s[k] /\ t[j] = s[l]
    M == {m \in Nat : m <= Len(s) => Good(m, g[m])}
<1>2. \A n \in 0..Len(s) : g[n] = IF n = 0 THEN <<>>
                      ELSE IF s[n] \in T THEN Append(g[n - 1], s[n]) ELSE g[n - 1]
  BY <1>1 DEF KeptTo
<1> HIDE DEF Good, M
<1>3. 0 \in M
  <2>1. Good(0, <<>>)
    BY DEF Good
  <2>2. g[0] = <<>>
    BY <1>2
  <2> QED BY <2>1, <2>2 DEF M
<1>4. ASSUME NEW m \in Nat, m \in M, m + 1 <= Len(s) PROVE Good(m + 1, g[m + 1])
  <2>1. Good(m, g[m])
    BY <1>4 DEF M
  <2>2. s[m + 1] \in S /\ m + 1 \in 1..Len(s)
    BY <1>4
  <2>0. g[m + 1] = IF s[m + 1] \in T THEN Append(g[m], s[m + 1]) ELSE g[m]
    <3>1. \A n \in 1..Len(s) : g[n] = IF s[n] \in T THEN Append(g[n - 1], s[n]) ELSE g[n - 1]
      BY <1>2
    <3>2. (m + 1) - 1 = m
      OBVIOUS
    <3> QED BY <2>2, <3>1, <3>2
  <2>3. CASE s[m + 1] \in T
    <3>1. g[m + 1] = Append(g[m], s[m + 1])
      BY <2>0, <2>3
    <3>2. PICK t, u : t = g[m] /\ u = g[m + 1]
      OBVIOUS
    <3>3. u = Append(t, s[m + 1]) /\ t \in Seq(S) /\ Len(t) <= m
      BY <2>1, <3>1, <3>2 DEF Good
    <3>4. /\ u \in Seq(S) /\ Len(u) = Len(t) + 1 /\ u[Len(u)] = s[m + 1]
          /\ \A i \in 1..Len(t) : u[i] = t[i]
          /\ Len(t) \in Nat
      BY <2>2, <3>3
    <3>5. /\ \A i \in 1..Len(t) : \E k \in 1..m : s[k] \in T /\ t[i] = s[k]
          /\ \A k \in 1..m : s[k] \in T => \E i \in 1..Len(t) : t[i] = s[k]
          /\ \A k \in 1..m : s[k] \notin T => Len(t) < m
          /\ \A i, j \in 1..Len(t) : i < j => \E k, l \in 1..m : k < l /\ t[i] = s[k] /\ t[j] = s[l]
      BY <2>1, <3>2 DEF Good
    <3>6. \A i \in 1..Len(u) : \E k \in 1..m+1 : s[k] \in T /\ u[i] = s[k]
      <4> SUFFICES ASSUME NEW i \in 1..Len(u) PROVE \E k \in 1..m+1 : s[k] \in T /\ u[i] = s[k]
        OBVIOUS
      <4>1. CASE i = Len(u)
        <5>1. m + 1 \in 1..m+1
          OBVIOUS
        <5> QED BY <2>3, <3>4, <4>1, <5>1
      <4>2. CASE i # Len(u)
        <5>1. i \in 1..Len(t)
          BY <3>4, <4>2
        <5>2. PICK k \in 1..m : s[k] \in T /\ t[i] = s[k]
          BY <3>5, <5>1
        <5>3. k \in 1..m+1 /\ u[i] = s[k]
          BY <3>4, <5>1, <5>2
        <5> QED BY <5>2, <5>3
      <4> QED BY <4>1, <4>2
    <3>7. \A k \in 1..m+1 : s[k] \in T => \E i \in 1..Len(u) : u[i] = s[k]
      <4> SUFFICES ASSUME NEW k \in 1..m+1, s[k] \in T PROVE \E i \in 1..Len(u) : u[i] = s[k]
        OBVIOUS
      <4>1. CASE k = m + 1
        <5>1. Len(u) \in 1..Len(u)
          BY <3>4
        <5> QED BY <3>4, <4>1, <5>1
      <4>2. CASE k # m + 1
        <5>1. k \in 1..m
          BY <4>2
        <5>2. PICK i \in 1..Len(t) : t[i] = s[k]
          BY <3>5, <5>1
        <5>3. i \in 1..Len(u) /\ u[i] = s[k]
          BY <3>4, <5>2
        <5> QED BY <5>3
      <4> QED BY <4>1, <4>2
    <3>8. \A k \in 1..m+1 : s[k] \notin T => Len(u) < m + 1
      <4> SUFFICES ASSUME NEW k \in 1..m+1, s[k] \notin T PROVE Len(u) < m + 1
        OBVIOUS
      <4>1. k \in 1..m
        BY <2>3
      <4> QED BY <3>4, <3>5, <4>1
    <3>9. \A i, j \in 1..Len(u) : i < j => \E k, l \in 1..m+1 : k < l /\ u[i] = s[k] /\ u[j] = s[l]
      <4> SUFFICES ASSUME NEW i \in 1..Len(u), NEW j \in 1..Len(u), i < j
                   PROVE  \E k, l \in 1..m+1 : k < l /\ u[i] = s[k] /\ u[j] = s[l]
        OBVIOUS
      <4>1. CASE j = Len(u)
        <5>1. i \in 1..Len(t)
          BY <3>4, <4>1
        <5>2. PICK k \in 1..m : t[i] = s[k]
          BY <3>5, <5>1
        <5>3. u[i] = s[k] /\ u[j] = s[m + 1]
          BY <3>4, <4>1, <5>1, <5>2
        <5>4. k \in 1..m+1 /\ m + 1 \in 1..m+1 /\ k < m + 1
          OBVIOUS
        <5> QED BY <5>3, <5>4, Zenon
      <4>2. CASE j # Len(u)
        <5>0. i \in 1..Len(t) /\ j \in 1..Len(t)
          <6>1. i \in Nat /\ j \in Nat /\ 1 <= i /\ 1 <= j /\ j < Len(t) + 1
            BY <3>4, <4>2
          <6> QED BY <3>4, <6>1
        <5>1. i \in 1..Len(t) /\ j \in 1..Len(t) /\ u[i] = t[i] /\ u[j] = t[j]
          BY <3>4, <5>0
        <5> QED BY <3>3, <3>5, <5>1 DEF Good
      <4> QED BY <4>1, <4>2
    <3>10. u \in Seq(S) /\ Len(u) <= m + 1
      BY <3>3, <3>4
    <3>11. Good(m + 1, u)
      BY <3>6, <3>7, <3>8, <3>9, <3>10, Zenon DEF Good
    <3> QED BY <3>2, <3>11
  <2>4. CASE s[m + 1] \notin T
    <3>1. g[m + 1] = g[m]
      BY <2>0, <2>4
    <3>2. PICK t : t = g[m] /\ t = g[m + 1]
      BY <3>1
    <3>3. Good(m, t)
      BY <2>1, <3>2
    <3>4. /\ t \in Seq(S) /\ Len(t) \in Nat /\ Len(t) <= m
          /\ \A i \in 1..Len(t) : \E k \in 1..m : s[k] \in T /\ t[i] = s[k]
          /\ \A k \in 1..m : s[k] \in T => \E i \in 1..Len(t) : t[i] = s[k]
          /\ \A i, j \in 1..Len(t) : i < j => \E k, l \in 1..m : k < l /\ t[i] = s[k] /\ t[j] = s[l]
      BY <3>3 DEF Good
    <3>5. \A k \in 1..m : k \in 1..m+1
      OBVIOUS
    <3>6. \A k \in 1..m+1 : s[k] \in T => k \in 1..m
      BY <2>4
    <3>7. \A i \in 1..Len(t) : \E k \in 1..m+1 : s[k] \in T /\ t[i] = s[k]
      BY <3>4, <3>5, Zenon
    <3>8. \A k \in 1..m+1 : s[k] \in T => \E i \in 1..Len(t) : t[i] = s[k]
      BY <3>4, <3>6, Zenon
    <3>9. \A i, j \in 1..Len(t) : i < j => \E k, l \in 1..m+1 : k < l /\ t[i] = s[k] /\ t[j] = s[l]
      <4> SUFFICES ASSUME NEW i \in 1..Len(t), NEW j \in 1..Len(t), i < j
                   PROVE  \E k, l \in 1..m+1 : k < l /\ t[i] = s[k] /\ t[j] = s[l]
        OBVIOUS
      <4>1. PICK k \in 1..m, l \in 1..m : k < l /\ t[i] = s[k] /\ t[j] = s[l]
        BY <3>4
      <4> QED BY <3>5, <4>1
    <3>10. Len(t) <= m + 1 /\ \A k \in 1..m+1 : s[k] \notin T => Len(t) < m + 1
      BY <3>4
    <3>11. Good(m + 1, t)
      BY <3>4, <3>7, <3>8, <3>9, <3>10, Zenon DEF Good
    <3> QED BY <3>2, <3>11
  <2> QED BY <2>3, <2>4
<1>5. \A m \in Nat : m \in M => m + 1 \in M
  BY <1>4 DEF M
<1>6. M = Nat
  BY <1>3, <1>5, Induction DEF M
<1>7. Good(Len(s), Keep(s, T))
  BY <1>1, <1>6 DEF M
<1> QED BY <1>7 DEF Good

-----------------------------------------------------------------------------
(* The inductive invariant. *)

\* Every bucket the process and the backend have, and every one in a file.
InMemory == ToSet(queue) \union stored
InFiles == ToSet(qfile.buckets) \union ToSet(lfile)

\* Where an entry can be.
Accounted == counted \union discarded \union CountsOf(InMemory)

\* The types of the recorder and of the buffer, and those of all the rest.
BufferTypes ==
  /\ \A s \in sessions : s.last \in Reading /\ s.held \subseteq Exchanges
  /\ counted \subseteq Entry /\ IsFiniteSet(counted) /\ IsFiniteSet(sessions)
  /\ opened \in Nat /\ snapshotted \in Nat
  /\ queue \in Seq(Bucket) /\ live \in Seq(Bucket) /\ dropped \in Nat /\ discarded \subseteq Entry

FileTypes ==
  /\ qfile.buckets \in Seq(Bucket) /\ qfile.dropped \in Nat /\ lfile \in Seq(Bucket)
  /\ durable \subseteq Entry /\ writtenOff \subseteq Entry /\ stored \subseteq Bucket
  /\ behind \in {"none", "queue", "live"} /\ torn \in BOOLEAN

LoopTypes ==
  /\ wall \in Nat /\ mono \in Nat /\ naps \subseteq Nat \X Nat
  /\ awake \in Reading /\ awake.mono \in Nat
  /\ pc \in Places /\ after \in Places /\ stopping \in BOOLEAN /\ enrolled \in BOOLEAN
  /\ restarts \in Nat /\ refusals \in Nat /\ faults \in Nat

Types == BufferTypes /\ FileTypes /\ LoopTypes

\* The loop last ran before now, and after a save it goes on with its work.
Running ==
  /\ awake.wall <= wall
  /\ after \in {"idle", "snapshot", "drain", "stopped"}

\* The window that is open began after everything else ended.
Times ==
  /\ opened <= wall
  /\ \A b \in InMemory : b.end.wall <= opened /\ b.from <= opened
  /\ \A b \in InFiles \union ToSet(live) : b.end.wall <= wall /\ b.from <= wall

\* A conversation that is open was closed nowhere, and its exchanges are its own.
Conversations ==
  \A s \in sessions :
    /\ s.held # {}
    /\ \A x \in s.held :
         /\ Counted(x) \in Accounted
         /\ \A e \in Accounted \union durable : e.what = "closed" => x \notin e.of
         /\ \A t \in sessions \ {s} : x \notin t.held

\* What the open window counts is counted nowhere else, and no closing comes before the
\* exchanges it held.
Window ==
  /\ counted \intersect (discarded \union CountsOf(InMemory)) = {}
  /\ \A e \in counted : \A x \in e.of : Counted(x) \in Accounted

\* The bucket in progress is of the window that is open.
Progress ==
  live # <<>> =>
    /\ Len(live) = 1
    /\ live[1].from = opened
    /\ live[1].counts \subseteq counted
    /\ \A e \in live[1].counts : \A x \in e.of :
         Counted(x) \in live[1].counts \union discarded \union CountsOf(InMemory)

\* The queue file is the queue, unless it is being written or could not be.
Mirrored ==
  behind # "queue" /\ pc \notin {"saveQueue", "opening"} =>
    qfile = Mirror /\ writtenOff = discarded

Taken == pc = "taken" => \A i \in 1..Len(Batch) : Encoded(queue[i]) \in stored

\* What must outlive a kill is accounted for; what of it the open window alone has is in
\* the file of that window; and it would be accounted for by a process started now.
Outlives ==
  /\ OnDisk \subseteq durable
  /\ durable \subseteq Accounted
  /\ durable \intersect counted \subseteq CountsOf(ToSet(lfile)) \intersect CountsOf(ToSet(live))
  /\ behind # "queue" => durable \subseteq OnDisk \union CountsOf(stored) \union writtenOff

\* A loss is on the record, and would be after a restart.
Recorded(lost, count, buckets) == lost # {} => count > 0 \/ \E b \in buckets : b.losses > 0

Losses ==
  /\ Recorded(discarded, dropped, InMemory)
  /\ Recorded(writtenOff, qfile.dropped, ToSet(qfile.buckets) \union stored)

\* The buckets of a queue, as a file or the backend would have them, and those it has.
With(q, filed) == {Encoded(q[i]) : i \in 1..Len(q)} \union filed

Alone(q, filed) ==
  \A b, c \in With(q, filed) : \A e \in b.counts : e \in c.counts => b = c

Closures(q, filed, off) ==
  \A b \in With(q, filed) : \A e \in b.counts : \A x \in e.of :
    Counted(x) \in off \/ \E c \in With(q, filed) : c.from <= b.from /\ Counted(x) \in c.counts

Ordered(q, filed) ==
  /\ \A i, j \in 1..Len(q) : i < j => q[i].end.wall <= q[j].from
  /\ \A i \in 1..Len(q) : Encoded(q[i]) \in filed \/ \A b \in filed : b.end.wall <= q[i].from

\* A queue a backend can be sent: nothing is in it twice, each closing comes with or after
\* its exchanges, and what the backend has not got is later than what it has.
Sound(q, filed, off) == Alone(q, filed) /\ Closures(q, filed, off) /\ Ordered(q, filed)

\* The queue is sound, and a process started now would find it so.
Sendable ==
  ~torn => /\ Sound(queue, stored, discarded)
           /\ behind = "none" => Sound(Loaded, stored, writtenOff)

Ledger ==
  /\ Times /\ Conversations /\ Window /\ Progress /\ Mirrored /\ Taken /\ Outlives
  /\ Losses /\ Sendable

-----------------------------------------------------------------------------
(* Sets of entries, buckets and sequences of them. *)

\* What a set of buckets counts is what one of them counts.
LEMMA CountsMember ==
  \A B, e : e \in CountsOf(B) <=> \E b \in B : e \in b.counts
BY DEF CountsOf

LEMMA CountsUnion ==
  \A A, B : CountsOf(A \union B) = CountsOf(A) \union CountsOf(B)
BY DEF CountsOf

\* The elements of a sequence are what stands at its positions.
LEMMA SetOf ==
  ASSUME NEW S, NEW s \in Seq(S)
  PROVE  /\ Len(s) \in Nat /\ DOMAIN s = 1..Len(s)
         /\ \A i \in 1..Len(s) : s[i] \in ToSet(s) /\ s[i] \in S
         /\ \A b \in ToSet(s) : \E i \in 1..Len(s) : b = s[i]
         /\ ToSet(s) \subseteq S
BY DEF ToSet

\* JSON keeps all of a bucket but the monotonic part of its end.
LEMMA EncodedFacts ==
  ASSUME NEW b \in Bucket
  PROVE  /\ Encoded(b) \in Bucket
         /\ Encoded(b).counts = b.counts /\ Encoded(b).losses = b.losses
         /\ Encoded(b).from = b.from /\ Encoded(b).end.wall = b.end.wall
         /\ Encoded(Encoded(b)) = Encoded(b)
BY DEF Encoded, Bucket, Reading, NoMono

LEMMA BucketFacts ==
  ASSUME NEW b \in Bucket
  PROVE  /\ b.from \in Nat /\ b.end \in Reading /\ b.end.wall \in Nat
         /\ b.counts \subseteq Entry /\ b.losses \in Nat
BY DEF Bucket, Reading

\* The encoded buckets of a sequence.
Encodings(q) == [i \in 1..Len(q) |-> Encoded(q[i])]

\* A mirrored sequence counts what the sequence counts, bucket by bucket.
LEMMA EncodingsFacts ==
  ASSUME NEW q \in Seq(Bucket)
  PROVE  /\ Encodings(q) \in Seq(Bucket) /\ Len(Encodings(q)) = Len(q)
         /\ \A i \in 1..Len(q) : Encodings(q)[i] = Encoded(q[i])
         /\ CountsOf(ToSet(Encodings(q))) = CountsOf(ToSet(q))
<1>1. \A i \in 1..Len(q) : Encoded(q[i]) \in Bucket
  BY EncodedFacts
<1>2. /\ Encodings(q) \in Seq(Bucket) /\ Len(Encodings(q)) = Len(q)
      /\ \A i \in 1..Len(q) : Encodings(q)[i] = Encoded(q[i])
  BY <1>1 DEF Encodings
<1>3. \A i \in 1..Len(q) : Encodings(q)[i].counts = q[i].counts
  BY <1>2, EncodedFacts
<1>4. \A e : e \in CountsOf(ToSet(Encodings(q))) <=> \E i \in 1..Len(q) : e \in Encodings(q)[i].counts
  BY <1>2, CountsMember, SetOf
<1>5. \A e : e \in CountsOf(ToSet(q)) <=> \E i \in 1..Len(q) : e \in q[i].counts
  BY CountsMember, SetOf
<1>6. CountsOf(ToSet(Encodings(q))) = CountsOf(ToSet(q))
  BY <1>3, <1>4, <1>5
<1> QED BY <1>2, <1>6

\* The members of p are members of q, in the order they have there.
Thins(p, q) ==
  /\ \A i \in 1..Len(p) : \E k \in 1..Len(q) : p[i] = q[k]
  /\ \A i, j \in 1..Len(p) : i < j => \E k, l \in 1..Len(q) : k < l /\ p[i] = q[k] /\ p[j] = q[l]

\* A thinning of a thinning is one.
LEMMA ThinsTransitive ==
  ASSUME NEW p \in Seq(Bucket), NEW q \in Seq(Bucket), NEW r \in Seq(Bucket),
         Thins(p, q), Thins(q, r)
  PROVE  Thins(p, r)
<1>1. ASSUME NEW i \in 1..Len(p) PROVE \E k \in 1..Len(r) : p[i] = r[k]
  <2>1. PICK k \in 1..Len(q) : p[i] = q[k]
    BY DEF Thins
  <2>2. PICK m \in 1..Len(r) : q[k] = r[m]
    BY DEF Thins
  <2> QED BY <2>1, <2>2
<1>2. ASSUME NEW i \in 1..Len(p), NEW j \in 1..Len(p), i < j
      PROVE  \E k, l \in 1..Len(r) : k < l /\ p[i] = r[k] /\ p[j] = r[l]
  <2>1. PICK k \in 1..Len(q), l \in 1..Len(q) : k < l /\ p[i] = q[k] /\ p[j] = q[l]
    BY <1>2 DEF Thins
  <2>2. PICK m \in 1..Len(r), n \in 1..Len(r) : m < n /\ q[k] = r[m] /\ q[l] = r[n]
    BY <2>1 DEF Thins
  <2> QED BY <2>1, <2>2
<1> QED BY <1>1, <1>2 DEF Thins

\* A thinning goes on being one when the same bucket is put at both ends.
LEMMA ThinsAppend ==
  ASSUME NEW p \in Seq(Bucket), NEW q \in Seq(Bucket), NEW new \in Bucket, Thins(p, q)
  PROVE  Thins(Append(p, new), Append(q, new))
<1> PICK all : all = Append(p, new)
  OBVIOUS
<1> PICK full : full = Append(q, new)
  OBVIOUS
<1>1. /\ Len(q) \in Nat /\ Len(full) = Len(q) + 1 /\ full[Len(q) + 1] = new
      /\ \A i \in 1..Len(q) : full[i] = q[i]
  OBVIOUS
<1>2. /\ Len(p) \in Nat /\ Len(all) = Len(p) + 1 /\ all[Len(p) + 1] = new
      /\ \A i \in 1..Len(p) : all[i] = p[i]
  OBVIOUS
<1>3. PICK last \in 1..Len(full) : full[last] = new /\ \A k \in 1..Len(q) : k < last
  BY <1>1
<1>4. \A k \in 1..Len(q) : k \in 1..Len(full) /\ full[k] = q[k]
  BY <1>1
<1>5. ASSUME NEW i \in 1..Len(all) PROVE \E k \in 1..Len(full) : all[i] = full[k]
  <2>1. CASE i = Len(p) + 1
    BY <1>2, <1>3, <2>1
  <2>2. CASE i # Len(p) + 1
    <3>1. i \in 1..Len(p) /\ all[i] = p[i]
      BY <1>2, <2>2
    <3>2. PICK k \in 1..Len(q) : p[i] = q[k]
      BY <3>1 DEF Thins
    <3> QED BY <1>4, <3>1, <3>2
  <2> QED BY <2>1, <2>2
<1>6. ASSUME NEW i \in 1..Len(all), NEW j \in 1..Len(all), i < j
      PROVE  \E k, l \in 1..Len(full) : k < l /\ all[i] = full[k] /\ all[j] = full[l]
  <2>0. i \in 1..Len(p) /\ all[i] = p[i]
    BY <1>2, <1>6
  <2>1. CASE j = Len(p) + 1
    <3>1. PICK k \in 1..Len(q) : p[i] = q[k]
      BY <2>0 DEF Thins
    <3>2. all[j] = new
      BY <1>2, <2>1
    <3>3. k \in 1..Len(full) /\ full[k] = q[k] /\ k < last
      BY <1>3, <1>4
    <3> QED BY <1>3, <2>0, <3>1, <3>2, <3>3
  <2>2. CASE j # Len(p) + 1
    <3>1. j \in 1..Len(p) /\ all[j] = p[j]
      BY <1>2, <2>2
    <3>2. PICK k \in 1..Len(q), l \in 1..Len(q) : k < l /\ p[i] = q[k] /\ p[j] = q[l]
      BY <1>6, <2>0, <3>1 DEF Thins
    <3> QED BY <1>4, <2>0, <3>1, <3>2
  <2> QED BY <2>1, <2>2
<1>7. Thins(all, full)
  BY <1>5, <1>6 DEF Thins
<1> QED BY <1>7

\* prune keeps the order, and when something is missing the queue is shorter.
LEMMA PrunedFacts ==
  ASSUME NEW q \in Seq(Bucket), NEW now
  PROVE  /\ Pruned(q, now) \in Seq(Bucket)
         /\ Thins(Pruned(q, now), q)
         /\ Discards(q, now) \in Nat
         /\ \A b \in ToSet(q) : b \notin ToSet(Pruned(q, now)) => Discards(q, now) > 0
<1> DEFINE T == {b \in ToSet(q) : Since(now, b.end) <= MaxWindowAge}
       f == Keep(q, T)
<1>1. f = Fresh(q, now)
  BY DEF Fresh
<1> HIDE DEF T
<1>3. /\ f \in Seq(Bucket)
      /\ Len(f) <= Len(q)
      /\ \A i \in 1..Len(f) : \E k \in 1..Len(q) : q[k] \in T /\ f[i] = q[k]
      /\ \A k \in 1..Len(q) : q[k] \in T => \E i \in 1..Len(f) : f[i] = q[k]
      /\ \A k \in 1..Len(q) : q[k] \notin T => Len(f) < Len(q)
      /\ \A i, j \in 1..Len(f) : i < j =>
           \E k, l \in 1..Len(q) : k < l /\ f[i] = q[k] /\ f[j] = q[l]
  BY KeepFacts
<1> HIDE DEF f
<1>4. PICK p : p = Pruned(q, now)
  OBVIOUS
<1>5. Len(f) \in Nat /\ Len(q) \in Nat /\ MaxBufferedBuckets \in Nat
  BY <1>3, BufferAssumption
<1>6. CASE Len(f) - MaxBufferedBuckets > 0
  <2> DEFINE x == Len(f) - MaxBufferedBuckets
  <2>1. p = SubSeq(f, x + 1, Len(f))
    BY <1>1, <1>4, <1>6 DEF Pruned
  <2>2. /\ p \in Seq(Bucket) /\ Len(p) = Len(f) - x
        /\ \A i \in 1..Len(p) : p[i] = f[x + i] /\ x + i \in 1..Len(f)
    <3>1. \A i \in x + 1..Len(f) : f[i] \in Bucket
      BY <1>3, <1>5, <1>6
    <3>2. x \in Nat /\ x + 1 <= Len(f)
      BY <1>5, <1>6, BufferAssumption
    <3> HIDE DEF x
    <3>3. /\ p \in Seq(Bucket) /\ Len(p) = Len(f) - (x + 1) + 1
          /\ \A i \in 1..Len(f) - (x + 1) + 1 : p[i] = f[(x + 1) + i - 1]
      BY <1>5, <2>1, <3>1, <3>2, SubSeqProperties
    <3> QED BY <1>5, <3>2, <3>3
  <2>3. Len(p) < Len(q)
    <3>1. Len(f) <= Len(q) /\ Len(p) = Len(f) - x
      BY <1>3, <2>2
    <3> QED BY <1>5, <1>6, <3>1
  <2> HIDE DEF x
  <2>4. ASSUME NEW i \in 1..Len(p) PROVE \E k \in 1..Len(q) : p[i] = q[k]
    <3>1. p[i] = f[x + i] /\ x + i \in 1..Len(f)
      BY <2>2
    <3>2. \E k \in 1..Len(q) : f[x + i] = q[k]
      BY <1>3, <3>1
    <3> QED BY <3>1, <3>2
  <2>5. ASSUME NEW i \in 1..Len(p), NEW j \in 1..Len(p), i < j
        PROVE  \E k, l \in 1..Len(q) : k < l /\ p[i] = q[k] /\ p[j] = q[l]
    <3>1. x + i \in 1..Len(f) /\ x + j \in 1..Len(f) /\ x + i < x + j
      BY <1>5, <1>6, <2>2, <2>5 DEF x
    <3>2. \E k, l \in 1..Len(q) : k < l /\ f[x + i] = q[k] /\ f[x + j] = q[l]
      BY <1>3, <3>1
    <3> QED BY <2>2, <3>2
  <2> QED BY <1>4, <1>5, <2>2, <2>3, <2>4, <2>5 DEF Thins, Discards
<1>7. CASE ~(Len(f) - MaxBufferedBuckets > 0)
  <2>1. p = f
    BY <1>1, <1>4, <1>7 DEF Pruned
  <2>2. Thins(p, q)
    <3>1. \A i \in 1..Len(f) : \E k \in 1..Len(q) : f[i] = q[k]
      BY <1>3
    <3> QED BY <1>3, <2>1, <3>1 DEF Thins
  <2>3. ASSUME NEW b \in ToSet(q), b \notin ToSet(p) PROVE Len(p) < Len(q)
    <3>1. PICK k \in 1..Len(q) : b = q[k]
      BY SetOf
    <3>2. q[k] \notin T
      <4> SUFFICES ASSUME q[k] \in T PROVE FALSE
        OBVIOUS
      <4>1. PICK i \in 1..Len(f) : f[i] = q[k]
        BY <1>3
      <4> QED BY <1>3, <2>1, <2>3, <3>1, <4>1, SetOf
    <3> QED BY <1>3, <2>1, <3>2
  <2> QED BY <1>3, <1>4, <1>5, <2>1, <2>2, <2>3 DEF Discards
<1> QED BY <1>6, <1>7

-----------------------------------------------------------------------------
(* What a queue that is sound can undergo. *)

\* What is in a queue or at the backend, in terms of positions.
LEMMA WithFacts ==
  ASSUME NEW q \in Seq(Bucket), NEW filed \in SUBSET Bucket
  PROVE  /\ With(q, filed) \subseteq Bucket
         /\ filed \subseteq With(q, filed)
         /\ \A i \in 1..Len(q) : Encoded(q[i]) \in With(q, filed)
         /\ \A b \in With(q, filed) : b \in filed \/ \E i \in 1..Len(q) : b = Encoded(q[i])
BY EncodedFacts DEF With

\* It can lose buckets, when what they counted is written off.
LEMMA SoundThins ==
  ASSUME NEW q \in Seq(Bucket), NEW p \in Seq(Bucket), NEW filed \in SUBSET Bucket,
         NEW off, NEW more, Sound(q, filed, off), Thins(p, q), off \subseteq more,
         \A b \in With(q, filed) : \A e \in b.counts :
           e \in more \/ \E c \in With(p, filed) : e \in c.counts
  PROVE  Sound(p, filed, more)
<1>1. With(p, filed) \subseteq With(q, filed)
  <2> SUFFICES ASSUME NEW b \in With(p, filed) PROVE b \in With(q, filed)
    OBVIOUS
  <2>1. CASE b \in filed
    BY <2>1, WithFacts
  <2>2. CASE \E i \in 1..Len(p) : b = Encoded(p[i])
    <3>1. PICK i \in 1..Len(p) : b = Encoded(p[i])
      BY <2>2
    <3>2. PICK k \in 1..Len(q) : p[i] = q[k]
      BY DEF Thins
    <3> QED BY <3>1, <3>2, WithFacts
  <2> QED BY <2>1, <2>2, WithFacts
<1>2. Alone(p, filed)
  BY <1>1 DEF Sound, Alone
<1>3. Closures(p, filed, more)
  <2> SUFFICES ASSUME NEW b \in With(p, filed), NEW e \in b.counts, NEW x \in e.of,
                      Counted(x) \notin more
               PROVE  \E c \in With(p, filed) : c.from <= b.from /\ Counted(x) \in c.counts
    BY DEF Closures
  <2>1. PICK c \in With(q, filed) : c.from <= b.from /\ Counted(x) \in c.counts
    BY <1>1 DEF Sound, Closures
  <2>2. PICK d \in With(p, filed) : Counted(x) \in d.counts
    BY <2>1
  <2>3. c = d
    BY <1>1, <2>1, <2>2 DEF Sound, Alone
  <2> QED BY <2>1, <2>3
<1>4. Ordered(p, filed)
  <2>1. ASSUME NEW i \in 1..Len(p), NEW j \in 1..Len(p), i < j PROVE p[i].end.wall <= p[j].from
    <3>1. PICK k \in 1..Len(q), l \in 1..Len(q) : k < l /\ p[i] = q[k] /\ p[j] = q[l]
      BY <2>1 DEF Thins
    <3> QED BY <3>1 DEF Sound, Ordered
  <2>2. ASSUME NEW i \in 1..Len(p)
        PROVE  Encoded(p[i]) \in filed \/ \A b \in filed : b.end.wall <= p[i].from
    <3>1. PICK k \in 1..Len(q) : p[i] = q[k]
      BY DEF Thins
    <3> QED BY <3>1 DEF Sound, Ordered
  <2> QED BY <2>1, <2>2 DEF Ordered
<1> QED BY <1>2, <1>3, <1>4 DEF Sound

\* It can get a later bucket, of entries that no other counts.
LEMMA SoundGrows ==
  ASSUME NEW q \in Seq(Bucket), NEW filed \in SUBSET Bucket, NEW off, NEW new \in Bucket,
         Sound(q, filed, off),
         \A b \in With(q, filed) : /\ b.end.wall <= new.from /\ b.from <= new.from
                                   /\ b.counts \intersect new.counts = {},
         \A e \in new.counts : \A x \in e.of :
           \/ Counted(x) \in new.counts \/ Counted(x) \in off
           \/ \E b \in With(q, filed) : Counted(x) \in b.counts
  PROVE  Sound(Append(q, new), filed, off)
<1> PICK p : p = Append(q, new)
  OBVIOUS
<1>1. /\ Len(q) \in Nat /\ p \in Seq(Bucket) /\ Len(p) = Len(q) + 1
      /\ p[Len(q) + 1] = new
      /\ \A i \in 1..Len(q) : p[i] = q[i]
  OBVIOUS
<1>2. \A b \in With(p, filed) : b \in With(q, filed) \/ b = Encoded(new)
  <2> SUFFICES ASSUME NEW b \in With(p, filed), b \notin filed
               PROVE  b \in With(q, filed) \/ b = Encoded(new)
    BY WithFacts
  <2>1. PICK i \in 1..Len(p) : b = Encoded(p[i])
    BY <1>1, WithFacts
  <2>2. CASE i = Len(q) + 1
    BY <1>1, <2>1, <2>2
  <2>3. CASE i # Len(q) + 1
    <3>1. i \in 1..Len(q)
      BY <1>1, <2>3
    <3> QED BY <1>1, <2>1, <3>1, WithFacts
  <2> QED BY <2>2, <2>3
<1>3. With(q, filed) \subseteq With(p, filed) /\ Encoded(new) \in With(p, filed)
  <2>1. Encoded(new) \in With(p, filed)
    <3>1. PICK k \in 1..Len(p) : p[k] = new
      BY <1>1
    <3>2. Encoded(p[k]) \in With(p, filed)
      BY <1>1, WithFacts
    <3> QED BY <3>1, <3>2
  <2>2. ASSUME NEW b \in With(q, filed), b \notin filed PROVE b \in With(p, filed)
    <3>1. PICK i \in 1..Len(q) : b = Encoded(q[i])
      BY <2>2, WithFacts
    <3>2. i \in 1..Len(p) /\ p[i] = q[i]
      BY <1>1, <3>1
    <3>3. Encoded(p[i]) \in With(p, filed)
      BY <1>1, <3>2, WithFacts
    <3> QED BY <3>1, <3>2, <3>3
  <2>3. filed \subseteq With(p, filed)
    BY <1>1, WithFacts
  <2> QED BY <1>1, <2>1, <2>2, <2>3
<1>4. /\ Encoded(new).from = new.from /\ Encoded(new).counts = new.counts
      /\ Encoded(new).end.wall = new.end.wall /\ new.from \in Nat
  BY EncodedFacts, BucketFacts
<1>5. Alone(p, filed)
  BY <1>2, <1>4 DEF Sound, Alone
<1>6. Closures(p, filed, off)
  <2> SUFFICES ASSUME NEW b \in With(p, filed), NEW e \in b.counts, NEW x \in e.of,
                      Counted(x) \notin off
               PROVE  \E c \in With(p, filed) : c.from <= b.from /\ Counted(x) \in c.counts
    BY DEF Closures
  <2>1. CASE b \in With(q, filed)
    <3>1. PICK c \in With(q, filed) : c.from <= b.from /\ Counted(x) \in c.counts
      BY <2>1 DEF Sound, Closures
    <3> QED BY <1>3, <3>1
  <2>2. CASE b = Encoded(new)
    <3>1. CASE Counted(x) \in new.counts
      <4>1. Encoded(new).from <= b.from /\ Counted(x) \in Encoded(new).counts
        BY <1>4, <2>2, <3>1
      <4> QED BY <1>3, <4>1
    <3>2. CASE Counted(x) \notin new.counts
      <4>1. PICK c \in With(q, filed) : Counted(x) \in c.counts
        BY <1>4, <2>2, <3>2
      <4>2. c.from <= b.from
        BY <1>4, <2>2
      <4> QED BY <1>3, <4>1, <4>2
    <3> QED BY <3>1, <3>2
  <2> QED BY <1>2, <2>1, <2>2
<1>7. Ordered(p, filed)
  <2>1. \A i \in 1..Len(q) : q[i].end.wall <= new.from
    <3> SUFFICES ASSUME NEW i \in 1..Len(q) PROVE q[i].end.wall <= new.from
      OBVIOUS
    <3>1. Encoded(q[i]) \in With(q, filed) /\ Encoded(q[i]).end.wall = q[i].end.wall
      BY WithFacts, EncodedFacts
    <3> QED BY <3>1
  <2>2. ASSUME NEW i \in 1..Len(p), NEW j \in 1..Len(p), i < j PROVE p[i].end.wall <= p[j].from
    <3>1. i \in 1..Len(q)
      BY <1>1, <2>2
    <3>2. CASE j = Len(q) + 1
      BY <1>1, <2>1, <3>1, <3>2
    <3>3. CASE j # Len(q) + 1
      <4>1. j \in 1..Len(q)
        BY <1>1, <3>3
      <4> QED BY <1>1, <2>2, <3>1, <4>1 DEF Sound, Ordered
    <3> QED BY <3>2, <3>3
  <2>3. ASSUME NEW i \in 1..Len(p)
        PROVE  Encoded(p[i]) \in filed \/ \A b \in filed : b.end.wall <= p[i].from
    <3>1. CASE i = Len(q) + 1
      BY <1>1, <3>1, WithFacts
    <3>2. CASE i # Len(q) + 1
      <4>1. i \in 1..Len(q)
        BY <1>1, <3>2
      <4> QED BY <1>1, <4>1 DEF Sound, Ordered
    <3> QED BY <3>1, <3>2
  <2> QED BY <2>2, <2>3 DEF Ordered
<1> QED BY <1>5, <1>6, <1>7 DEF Sound

\* It can be written to a file.
LEMMA SoundEncodes ==
  ASSUME NEW q \in Seq(Bucket), NEW filed \in SUBSET Bucket, NEW off, Sound(q, filed, off)
  PROVE  Sound(Encodings(q), filed, off)
<1> PICK p : p = Encodings(q)
  OBVIOUS
<1>1. /\ p \in Seq(Bucket) /\ Len(p) = Len(q) /\ \A i \in 1..Len(q) : p[i] = Encoded(q[i])
  BY EncodingsFacts
<1>2. \A i \in 1..Len(q) : /\ Encoded(p[i]) = Encoded(q[i]) /\ p[i].from = q[i].from
                           /\ p[i].end.wall = q[i].end.wall
  BY <1>1, EncodedFacts
<1>3. With(p, filed) = With(q, filed)
  BY <1>1, <1>2 DEF With
<1>4. Ordered(p, filed)
  <2>1. \A i, j \in 1..Len(q) : i < j => q[i].end.wall <= q[j].from
    BY DEF Sound, Ordered
  <2>2. \A i \in 1..Len(q) : Encoded(q[i]) \in filed \/ \A b \in filed : b.end.wall <= q[i].from
    BY DEF Sound, Ordered
  <2> QED BY <1>1, <1>2, <2>1, <2>2 DEF Ordered
<1> QED BY <1>3, <1>4 DEF Sound, Alone, Closures

\* The backend can take the first buckets of it.
LEMMA SoundFiles ==
  ASSUME NEW q \in Seq(Bucket), NEW filed \in SUBSET Bucket, NEW off, Sound(q, filed, off),
         NEW n \in 0..Len(q), NEW batch, batch = {Encoded(q[i]) : i \in 1..n}
  PROVE  /\ Sound(q, filed \union batch, off)
         /\ \A b \in batch \ filed : \A c \in filed : c.end.wall <= b.from
<1>1. \A i \in 1..n : i \in 1..Len(q)
  OBVIOUS
<1>2. With(q, filed \union batch) = With(q, filed)
  BY <1>1 DEF With
<1>3. \A i \in 1..Len(q) : /\ q[i] \in Bucket /\ Encoded(q[i]).from = q[i].from
                           /\ Encoded(q[i]).end.wall = q[i].end.wall
  BY EncodedFacts
<1>4. Ordered(q, filed \union batch)
  <2>1. ASSUME NEW i \in 1..Len(q), Encoded(q[i]) \notin filed \union batch,
               NEW b \in filed \union batch
        PROVE  b.end.wall <= q[i].from
    <3>1. CASE b \in filed
      BY <2>1, <3>1 DEF Sound, Ordered
    <3>2. CASE b \in batch
      <4>1. PICK j \in 1..n : b = Encoded(q[j])
        BY <3>2
      <4>2. i \notin 1..n
        BY <2>1
      <4>3. j < i /\ j \in 1..Len(q)
        BY <4>2
      <4>4. q[j].end.wall <= q[i].from
        BY <4>3 DEF Sound, Ordered
      <4> QED BY <1>3, <4>1, <4>3, <4>4
    <3> QED BY <2>1, <3>1, <3>2
  <2> QED BY <2>1 DEF Ordered, Sound
<1>5. ASSUME NEW b \in batch \ filed, NEW c \in filed PROVE c.end.wall <= b.from
  <2>1. PICK i \in 1..n : b = Encoded(q[i])
    OBVIOUS
  <2>2. i \in 1..Len(q) /\ Encoded(q[i]) \notin filed
    BY <1>1, <2>1
  <2>3. c.end.wall <= q[i].from
    BY <2>2 DEF Sound, Ordered
  <2> QED BY <1>3, <2>1, <2>2, <2>3
<1> QED BY <1>2, <1>4, <1>5 DEF Sound, Alone, Closures

-----------------------------------------------------------------------------
(* What the actions are made of. *)

\* The bucket that collectAt closes.
Closing(at) ==
  [from |-> opened, end |-> at, counts |-> Folded(at), losses |-> dropped + Discards(queue, at)]

\* An entry is of the exchange that was counted, or of the conversation that closed.
LEMMA EntryFacts ==
  /\ \A x \in Exchanges : Counted(x) \in Entry
  /\ \A x : Counted(x).of = {x} /\ Counted(x).what = "exchange"
  /\ \A s : Closed(s).of = s.held /\ Closed(s).what = "closed"
  /\ \A s : s.held \subseteq Exchanges => Closed(s) \in Entry
BY DEF Counted, Closed, Entry

\* sweep adds closings to the counters and takes nothing away.
LEMMA FoldedFacts ==
  ASSUME Types, NEW at
  PROVE  /\ Folded(at) \subseteq Entry /\ IsFiniteSet(Folded(at))
         /\ counted \subseteq Folded(at)
         /\ \A e \in Folded(at) : e \in counted \/ \E s \in Idle(at) : e = Closed(s)
         /\ Idle(at) \subseteq sessions
<1> DEFINE Closings == {Closed(s) : s \in Idle(at)}
           closing == [s \in Idle(at) |-> Closed(s)]
<1>1. Idle(at) \subseteq sessions
  BY DEF Idle
<1>2. IsFiniteSet(Closings)
  <2>1. IsFiniteSet(Idle(at))
    BY <1>1, FS_Subset DEF Types, BufferTypes
  <2>2. closing \in Surjection(Idle(at), Closings)
    BY DEF Surjection
  <2> QED BY <2>1, <2>2, FS_Surjection
<1>3. IsFiniteSet(Folded(at))
  BY <1>2, FS_Union DEF Types, BufferTypes, Folded
<1>4. \A s \in sessions : s.held \subseteq Exchanges
  BY DEF Types, BufferTypes
<1>5. Folded(at) \subseteq Entry
  BY <1>1, <1>4, EntryFacts DEF Types, BufferTypes, Folded
<1> QED BY <1>1, <1>3, <1>5 DEF Folded

\* collectAt: the queue is the old one with the new bucket, thinned, and what that costs is
\* recorded.
LEMMA Collected ==
  ASSUME Types, NEW at \in Reading, NEW reopen \in Nat, CollectAt(at, reopen)
  PROVE  /\ Closing(at) \in Bucket
         /\ queue' \in Seq(Bucket) /\ dropped' \in Nat
         /\ Thins(queue', Append(queue, Closing(at)))
         /\ ToSet(queue') \subseteq ToSet(queue) \union {Closing(at)}
         /\ discarded' = discarded \union (CountsOf(ToSet(queue) \union {Closing(at)})
                                            \ CountsOf(ToSet(queue')))
         /\ \A b \in ToSet(queue) \union {Closing(at)} : b \notin ToSet(queue') =>
              dropped' > 0 \/ (Closing(at) \in ToSet(queue') /\ Closing(at).losses > 0)
         /\ dropped > 0 =>
              dropped' > 0 \/ (Closing(at) \in ToSet(queue') /\ Closing(at).losses > 0)
<1> PICK new : new = Closing(at)
  OBVIOUS
<1> PICK kept : kept = Pruned(queue, at)
  OBVIOUS
<1> PICK all : all = Append(kept, new)
  OBVIOUS
<1>1. queue \in Seq(Bucket) /\ dropped \in Nat /\ opened \in Nat
  BY DEF Types, BufferTypes
<1>2. kept \in Seq(Bucket) /\ Thins(kept, queue) /\ Discards(queue, at) \in Nat
  BY <1>1, PrunedFacts
<1>3. /\ new \in Bucket /\ new.losses = dropped + Discards(queue, at)
  BY <1>1, <1>2, FoldedFacts DEF Closing, Bucket
<1>4. all \in Seq(Bucket)
  BY <1>2, <1>3
<1>5. queue' = Pruned(all, at) /\ dropped' = Discards(all, at)
  BY DEF CollectAt, Closing
<1>6. queue' \in Seq(Bucket) /\ dropped' \in Nat /\ Thins(queue', all)
  BY <1>4, <1>5, PrunedFacts
<1>7. discarded' = discarded \union (CountsOf(ToSet(queue) \union {new}) \ CountsOf(ToSet(queue')))
  BY DEF CollectAt, Closing
<1> PICK full : full = Append(queue, new)
  OBVIOUS
<1>9. Thins(queue', full)
  <2>1. full \in Seq(Bucket)
    BY <1>1, <1>3
  <2>2. Thins(all, full)
    BY <1>1, <1>2, <1>3, ThinsAppend
  <2> QED BY <1>4, <1>6, <2>1, <2>2, ThinsTransitive
<1>10. \A k \in 1..Len(full) : full[k] \in ToSet(queue) \union {new}
  BY <1>1, <1>3, SetOf
<1>11. ToSet(queue') \subseteq ToSet(queue) \union {new}
  <2> SUFFICES ASSUME NEW b \in ToSet(queue') PROVE b \in ToSet(queue) \union {new}
    OBVIOUS
  <2>1. PICK i \in 1..Len(queue') : b = queue'[i]
    BY <1>6, SetOf
  <2>2. PICK k \in 1..Len(full) : queue'[i] = full[k]
    BY <1>9 DEF Thins
  <2> QED BY <1>10, <2>1, <2>2
<1>12. new \in ToSet(all) /\ ToSet(kept) \subseteq ToSet(all)
  <2>1. /\ Len(kept) \in Nat /\ Len(all) = Len(kept) + 1 /\ all[Len(kept) + 1] = new
        /\ \A i \in 1..Len(kept) : all[i] = kept[i]
    BY <1>2, <1>3
  <2>2. new \in ToSet(all)
    <3>1. PICK k \in 1..Len(all) : all[k] = new
      BY <2>1
    <3>2. all[k] \in ToSet(all)
      BY <1>4, SetOf
    <3> QED BY <3>1, <3>2
  <2>3. ASSUME NEW b \in ToSet(kept) PROVE b \in ToSet(all)
    <3>1. PICK i \in 1..Len(kept) : b = kept[i]
      BY <1>2, SetOf
    <3>2. i \in 1..Len(all) /\ b = all[i]
      BY <2>1, <3>1
    <3> QED BY <1>4, <3>2, SetOf
  <2> QED BY <2>2, <2>3
<1>13. \A b \in ToSet(all) : b \notin ToSet(queue') => dropped' > 0
  BY <1>4, <1>5, PrunedFacts
<1>14. \A b \in ToSet(queue) : b \notin ToSet(kept) => new.losses > 0
  <2> SUFFICES ASSUME NEW b \in ToSet(queue), b \notin ToSet(kept) PROVE new.losses > 0
    OBVIOUS
  <2>1. Discards(queue, at) > 0
    BY <1>1, PrunedFacts
  <2> QED BY <1>1, <1>2, <1>3, <2>1
<1>15. \A b \in ToSet(queue) \union {new} : b \notin ToSet(queue') =>
         dropped' > 0 \/ (new \in ToSet(queue') /\ new.losses > 0)
  <2> SUFFICES ASSUME NEW b \in ToSet(queue) \union {new}, b \notin ToSet(queue')
               PROVE  dropped' > 0 \/ (new \in ToSet(queue') /\ new.losses > 0)
    OBVIOUS
  <2>1. CASE ~(dropped' > 0)
    <3>1. b \notin ToSet(all) /\ new \in ToSet(queue')
      BY <1>12, <1>13, <2>1
    <3>2. b \in ToSet(queue) /\ b \notin ToSet(kept)
      BY <1>12, <3>1
    <3> QED BY <1>14, <3>1, <3>2
  <2> QED BY <2>1
<1>16. dropped > 0 => dropped' > 0 \/ (new \in ToSet(queue') /\ new.losses > 0)
  <2>1. CASE dropped > 0 /\ ~(dropped' > 0)
    <3>1. new.losses > 0
      BY <1>1, <1>2, <1>3, <2>1
    <3> QED BY <1>12, <1>13, <2>1, <3>1
  <2> QED BY <2>1
<1> QED BY <1>3, <1>6, <1>7, <1>9, <1>11, <1>15, <1>16

\* The batch is the first buckets of the queue.
LEMMA BatchFacts ==
  ASSUME Types
  PROVE  /\ Len(Batch) \in 0..Len(queue)
         /\ \A i \in 1..Len(Batch) : Batch[i] = queue[i] /\ i \in 1..Len(queue)
         /\ ToSet(Batch) = {queue[i] : i \in 1..Len(Batch)}
<1> DEFINE n == IF Len(queue) < MaxBucketsPerRequest THEN Len(queue) ELSE MaxBucketsPerRequest
<1>0. queue \in Seq(Bucket)
  BY DEF Types, BufferTypes
<1>1. queue \in Seq(Bucket) /\ Len(queue) \in Nat
  BY <1>0, SetOf
<1>2. n \in 0..Len(queue)
  BY <1>1, BufferAssumption
<1>3. Batch = SubSeq(queue, 1, n)
  BY DEF Batch
<1> HIDE DEF n
<1>4. Len(Batch) = n /\ \A i \in 1..n : Batch[i] = queue[i]
  BY <1>1, <1>2, <1>3
<1>5. DOMAIN Batch = 1..n
  BY <1>1, <1>2, <1>3
<1> QED BY <1>1, <1>2, <1>4, <1>5 DEF ToSet

-----------------------------------------------------------------------------
(* Types. *)

LEMMA NowIsAReading ==
  ASSUME LoopTypes
  PROVE  Now \in Reading /\ Now.wall = wall /\ Now.mono = mono
BY DEF LoopTypes, Now, Reading

LEMMA CountsTypes ==
  \A B \in SUBSET Bucket : CountsOf(B) \subseteq Entry
BY BucketFacts, CountsMember

\* collectAt leaves a typed buffer and a typed recorder.
LEMMA CollectTypes ==
  ASSUME Types, NEW at \in Reading, NEW reopen \in Nat, CollectAt(at, reopen)
  PROVE  BufferTypes'
<1>1. queue' \in Seq(Bucket) /\ dropped' \in Nat /\ Closing(at) \in Bucket
  BY Collected
<1>2. discarded' \subseteq Entry
  <2>1. ToSet(queue) \union {Closing(at)} \subseteq Bucket
    BY <1>1, SetOf DEF Types, BufferTypes
  <2>2. discarded' \subseteq discarded \union CountsOf(ToSet(queue) \union {Closing(at)})
    BY Collected
  <2> QED BY <2>1, <2>2, CountsTypes DEF Types, BufferTypes
<1>3. IsFiniteSet(sessions')
  BY FS_Difference DEF Types, BufferTypes, CollectAt, Swept
<1>4. IsFiniteSet(counted')
  BY FS_EmptySet DEF CollectAt
<1>5. \A s \in sessions' : s.last \in Reading /\ s.held \subseteq Exchanges
  BY DEF Types, BufferTypes, CollectAt, Swept
<1>6. live' \in Seq(Bucket)
  BY DEF CollectAt, LiveWhenClosed
<1> QED BY <1>1, <1>2, <1>3, <1>4, <1>5, <1>6 DEF BufferTypes, CollectAt

LEMMA TypesInit == Init => Types
<1> SUFFICES ASSUME Init PROVE Types
  OBVIOUS
<1>1. BufferTypes
  BY FS_EmptySet DEF Init, BufferTypes
<1>2. FileTypes
  <2>1. qfile.buckets \in Seq(Bucket) /\ qfile.dropped \in Nat /\ lfile \in Seq(Bucket)
    BY DEF Init
  <2> QED BY <2>1 DEF Init, FileTypes
<1>3. LoopTypes
  BY DEF Init, LoopTypes, Places, Reading
<1> QED BY <1>1, <1>2, <1>3 DEF Types

LEMMA TurnTypes ==
  ASSUME Types, NEW timer \in {"collect", "snapshot", "send"}, Turn(timer)
  PROVE  Types'
<1> USE DEF Types
<1>0. Now \in Reading /\ Now.mono \in Nat /\ awake \in Reading /\ wall \in Nat
  BY NowIsAReading DEF LoopTypes
<1>1. Own(timer) \in Places
  BY DEF Own, Places
<1>2. FileTypes'
  BY DEF Turn, FileTypes, files, history, backend
<1>3. LoopTypes'
  BY <1>0, <1>1 DEF Turn, LoopTypes, Persist, clocks, files, history, backend, bounds, Places
<1>4. BufferTypes'
  <2>1. CASE CollectAt(awake, wall) \/ CollectAt(Now, wall)
    BY <1>0, <2>1, CollectTypes
  <2>2. CASE UNCHANGED <<recorder, buffer>>
    BY <2>2 DEF BufferTypes, recorder, buffer
  <2> QED BY <2>1, <2>2 DEF Turn
<1> QED BY <1>2, <1>3, <1>4

LEMMA OpenOrStopTypes ==
  ASSUME Types, Open \/ Stop
  PROVE  Types'
<1> USE DEF Types
<1>0. Now \in Reading /\ Now.mono \in Nat /\ wall \in Nat
  BY NowIsAReading DEF LoopTypes
<1>1. BufferTypes'
  BY <1>0, CollectTypes DEF Open, Stop
<1>2. FileTypes'
  BY DEF Open, Stop, FileTypes, files, history, backend
<1>3. LoopTypes'
  BY <1>0 DEF Open, Stop, LoopTypes, Persist, clocks, files, history, backend, bounds, Places
<1> QED BY <1>1, <1>2, <1>3

LEMMA SnapshotTypes ==
  ASSUME Types, Snapshot
  PROVE  Types'
<1> USE DEF Types
<1>0. Now \in Reading
  BY NowIsAReading
<1>1. Folded(Now) \subseteq Entry /\ IsFiniteSet(Folded(Now))
  BY FoldedFacts
<1>2. counted' = Folded(Now) /\ Cardinality(counted') \in Nat
  BY <1>1, FS_CardinalityType DEF Snapshot
<1>3. BufferTypes'
  <2>1. IsFiniteSet(sessions')
    BY FS_Difference DEF Snapshot, Swept, BufferTypes
  <2>2. \A s \in sessions' : s.last \in Reading /\ s.held \subseteq Exchanges
    BY DEF BufferTypes, Snapshot, Swept
  <2>3. live' \in Seq(Bucket) /\ snapshotted' \in Nat
    <3>1. CASE UNCHANGED <<snapshotted, live>>
      BY <3>1 DEF BufferTypes
    <3>2. CASE /\ live' = <<[from |-> opened, end |-> Now, counts |-> counted', losses |-> 0]>>
               /\ snapshotted' = Cardinality(counted')
      <4>1. [from |-> opened, end |-> Now, counts |-> counted', losses |-> 0] \in Bucket
        BY <1>0, <1>1, <1>2 DEF BufferTypes, Bucket
      <4> QED BY <1>2, <3>2, <4>1
    <3> QED BY <1>2, <3>1, <3>2 DEF Snapshot, InProgress
  <2> QED BY <1>1, <1>2, <2>1, <2>2, <2>3 DEF Snapshot, BufferTypes
<1>4. FileTypes'
  BY DEF Snapshot, FileTypes, files, history, backend
<1>5. LoopTypes'
  BY DEF Snapshot, LoopTypes, clocks, history, backend, bounds, Places
<1> QED BY <1>3, <1>4, <1>5

LEMMA SaveQueueTypes ==
  ASSUME Types, SaveQueue
  PROVE  Types'
<1> USE DEF Types
<1>1. BufferTypes'
  BY DEF SaveQueue, BufferTypes, recorder, buffer
<1>2. Mirror.buckets \in Seq(Bucket) /\ Mirror.dropped \in Nat
  BY EncodingsFacts DEF Mirror, Encodings, BufferTypes
<1>3. qfile'.buckets \in Seq(Bucket) /\ qfile'.dropped \in Nat /\ lfile' \in Seq(Bucket)
  BY <1>2 DEF SaveQueue, FileTypes
<1>4. CountsOf((ToSet(qfile.buckets) \union ToSet(lfile))') \subseteq Entry
  BY <1>3, SetOf, CountsTypes
<1>5. FileTypes'
  BY <1>3, <1>4 DEF SaveQueue, FileTypes, BufferTypes, backend, OnDisk
<1>6. LoopTypes'
  <2>1. LoopTypes /\ "saveLive" \in Places
    BY DEF Places
  <2>2. pc' \in Places /\ faults' \in Nat
    BY <2>1 DEF SaveQueue, LoopTypes
  <2>3. UNCHANGED <<wall, mono, naps, awake, after, stopping, enrolled, restarts, refusals>>
    BY DEF SaveQueue, clocks, backend
  <2> QED BY <2>1, <2>2, <2>3 DEF LoopTypes
<1> QED BY <1>1, <1>5, <1>6

LEMMA SaveLiveTypes ==
  ASSUME Types, SaveLive
  PROVE  Types'
<1> USE DEF Types
<1>1. BufferTypes'
  BY DEF SaveLive, BufferTypes, recorder, buffer
<1>2. [i \in 1..Len(live) |-> Encoded(live[i])] \in Seq(Bucket)
  BY EncodingsFacts DEF Encodings, BufferTypes
<1>3. qfile'.buckets \in Seq(Bucket) /\ qfile'.dropped \in Nat /\ lfile' \in Seq(Bucket)
  BY <1>2 DEF SaveLive, FileTypes
<1>4. CountsOf((ToSet(qfile.buckets) \union ToSet(lfile))') \subseteq Entry
  BY <1>3, SetOf, CountsTypes
<1>5. FileTypes'
  BY <1>3, <1>4 DEF SaveLive, FileTypes, BufferTypes, backend, OnDisk
<1>6. LoopTypes'
  <2>1. LoopTypes /\ "saveLive" \in Places
    BY DEF Places
  <2>2. pc' \in Places /\ faults' \in Nat
    BY <2>1 DEF SaveLive, LoopTypes
  <2>3. UNCHANGED <<wall, mono, naps, awake, after, stopping, enrolled, restarts, refusals>>
    BY DEF SaveLive, clocks, backend
  <2> QED BY <2>1, <2>2, <2>3 DEF LoopTypes
<1> QED BY <1>1, <1>5, <1>6

LEMMA DrainTypes ==
  ASSUME Types, Enrol \/ Send \/ BackendTakes \/ Answered
  PROVE  Types'
<1> USE DEF Types
<1>1. Rest \in Places
  BY DEF Rest, Places
<1>2. queue' \in Seq(Bucket)
  <2>1. Len(Batch) \in 0..Len(queue) /\ queue \in Seq(Bucket)
    BY BatchFacts DEF BufferTypes
  <2>2. SubSeq(queue, Len(Batch) + 1, Len(queue)) \in Seq(Bucket)
    BY <2>1
  <2> QED BY <2>1, <2>2 DEF Enrol, Send, BackendTakes, Answered, buffer
<1>3. BufferTypes'
  BY <1>2 DEF Enrol, Send, BackendTakes, Answered, BufferTypes, recorder, buffer
<1>4. stored' \subseteq Bucket
  <2>1. \A b \in ToSet(Batch) : Encoded(b) \in Bucket
    BY BatchFacts, EncodedFacts, SetOf DEF BufferTypes
  <2> QED BY <2>1 DEF Enrol, Send, BackendTakes, Answered, Fail, FileTypes, backend
<1>5. FileTypes'
  BY <1>4 DEF Enrol, Send, BackendTakes, Answered, FileTypes, files, history
<1>6. LoopTypes'
  <2>1. LoopTypes /\ {"asked", "taken", "saveQueue"} \subseteq Places
    BY DEF Places
  <2>2. pc' \in Places /\ after' \in Places
    BY <1>1, <2>1 DEF Enrol, Send, BackendTakes, Answered, Fail, Persist, LoopTypes
  <2>4. refusals' \in Nat
    BY <2>1 DEF Enrol, Send, BackendTakes, Answered, Fail, LoopTypes, bounds
  <2>5. enrolled' \in BOOLEAN
    BY <2>1 DEF Enrol, Send, BackendTakes, Answered, Fail, LoopTypes, backend
  <2>3. UNCHANGED <<wall, mono, naps, awake, stopping, restarts, faults>>
    BY DEF Enrol, Send, BackendTakes, Answered, clocks, history, bounds
  <2> QED BY <2>1, <2>2, <2>3, <2>4, <2>5 DEF LoopTypes
<1> QED BY <1>3, <1>5, <1>6

LEMMA CountTypes ==
  ASSUME Types, NEW x \in Exchanges, Count(x)
  PROVE  Types'
<1> USE DEF Types
<1>1. counted' \subseteq Entry /\ IsFiniteSet(counted')
  BY EntryFacts, FS_AddElement DEF Count, BufferTypes
<1> DEFINE ours == {s \in sessions : s.id = Conversation[x]}
           held == UNION {s.held : s \in ours}
           new == [id |-> Conversation[x], last |-> Now, held |-> held \union {x}]
<1>2. sessions' = (sessions \ ours) \union {new}
  BY DEF Count, Touched
<1>3. IsFiniteSet(sessions')
  BY <1>2, FS_Difference, FS_AddElement DEF BufferTypes
<1>4. new.last \in Reading /\ new.held \subseteq Exchanges
  BY NowIsAReading DEF BufferTypes
<1>5. \A s \in sessions' : s.last \in Reading /\ s.held \subseteq Exchanges
  BY <1>2, <1>4 DEF BufferTypes
<1>6. BufferTypes'
  BY <1>1, <1>3, <1>5 DEF BufferTypes, Count, buffer
<1>7. FileTypes'
  BY DEF Count, FileTypes, files, history, backend
<1>8. LoopTypes'
  BY DEF Count, LoopTypes, clocks, loop, history, backend, bounds
<1> QED BY <1>6, <1>7, <1>8

LEMMA AroundTypes ==
  ASSUME Types, Tick \/ Sleep
  PROVE  Types'
<1> USE DEF Types
<1>1. BufferTypes'
  BY DEF Tick, Sleep, BufferTypes, recorder, buffer
<1>2. FileTypes'
  BY DEF Tick, Sleep, FileTypes, files, history, backend
<1>3. LoopTypes'
  BY BufferAssumption DEF Tick, Sleep, LoopTypes, loop, history, backend, bounds
<1> QED BY <1>1, <1>2, <1>3

LEMMA RestartTypes ==
  ASSUME Types, Restart
  PROVE  Types'
<1> USE DEF Types
<1>1. BufferTypes'
  <2>1. queue' \in Seq(Bucket) /\ dropped' \in Nat /\ live' \in Seq(Bucket)
    <3>1. qfile.buckets \in Seq(Bucket) /\ lfile \in Seq(Bucket) /\ qfile.dropped \in Nat
      BY DEF FileTypes
    <3>2. Loaded \in Seq(Bucket)
      BY <3>1 DEF Loaded
    <3> QED BY <3>1, <3>2 DEF Restart
  <2>2. opened' \in Nat /\ discarded' \subseteq Entry
    BY DEF Restart, FileTypes, LoopTypes
  <2> QED BY <2>1, <2>2, FS_EmptySet DEF Restart, BufferTypes
<1>2. OnDisk \subseteq Entry
  <2>1. qfile.buckets \in Seq(Bucket) /\ lfile \in Seq(Bucket)
    BY DEF FileTypes
  <2>2. ToSet(qfile.buckets) \subseteq Bucket /\ ToSet(lfile) \subseteq Bucket
    BY <2>1, SetOf
  <2> QED BY <2>2, CountsTypes DEF OnDisk
<1>3. FileTypes'
  BY <1>2 DEF Restart, FileTypes, files, backend
<1>4. LoopTypes'
  <2>1. wall' \in Nat /\ mono' = 0 /\ awake' = [wall |-> wall', mono |-> 0]
    BY DEF Restart, LoopTypes
  <2>2. awake' \in Reading /\ awake'.mono \in Nat
    BY <2>1 DEF Reading
  <2>3. pc' \in Places /\ after' \in Places /\ restarts' \in Nat
    BY DEF Restart, LoopTypes, Places
  <2>4. UNCHANGED <<naps, enrolled, refusals, faults>>
    BY DEF Restart, backend
  <2>5. stopping' \in BOOLEAN
    BY DEF Restart
  <2> QED BY <2>1, <2>2, <2>3, <2>4, <2>5 DEF LoopTypes
<1> QED BY <1>1, <1>3, <1>4

LEMMA TypesNext == Types /\ [Next]_vars => Types'
<1> SUFFICES ASSUME Types, [Next]_vars PROVE Types'
  OBVIOUS
<1>1. CASE UNCHANGED vars
  BY <1>1 DEF Types, vars, clocks, recorder, buffer, files, loop, backend, history, bounds,
     BufferTypes, FileTypes, LoopTypes
<1>2. CASE Next
  BY <1>2, TurnTypes, OpenOrStopTypes, SnapshotTypes, SaveQueueTypes, SaveLiveTypes, DrainTypes,
     CountTypes, AroundTypes, RestartTypes DEF Next, Step
<1> QED BY <1>1, <1>2

\* Every variable keeps its type: the lists stay lists of buckets, the counters numbers
\* (prune, collectAt, loadBuffer).
THEOREM ReporterTyped == Spec => []TypeOK
<1>1. Types => TypeOK
  BY DEF Types, BufferTypes, FileTypes, LoopTypes, TypeOK
<1> QED BY <1>1, TypesInit, TypesNext, PTL DEF Spec

-----------------------------------------------------------------------------
(* What is where. *)

\* Wherever there are buckets, they are buckets.
LEMMA Buckets ==
  ASSUME Types
  PROVE  /\ queue \in Seq(Bucket) /\ live \in Seq(Bucket)
         /\ qfile.buckets \in Seq(Bucket) /\ lfile \in Seq(Bucket)
         /\ ToSet(queue) \subseteq Bucket /\ ToSet(live) \subseteq Bucket /\ stored \subseteq Bucket
         /\ ToSet(qfile.buckets) \subseteq Bucket /\ ToSet(lfile) \subseteq Bucket
         /\ InMemory \subseteq Bucket
<1>1. /\ queue \in Seq(Bucket) /\ live \in Seq(Bucket) /\ stored \subseteq Bucket
      /\ qfile.buckets \in Seq(Bucket) /\ lfile \in Seq(Bucket)
  BY DEF Types, BufferTypes, FileTypes
<1>2. /\ ToSet(queue) \subseteq Bucket /\ ToSet(live) \subseteq Bucket
      /\ ToSet(qfile.buckets) \subseteq Bucket /\ ToSet(lfile) \subseteq Bucket
  BY <1>1, SetOf
<1> QED BY <1>1, <1>2 DEF InMemory

\* The buckets of the queue as the backend would have them count what the queue does.
LEMMA SameCounts ==
  ASSUME Types
  PROVE  /\ \A e : e \in CountsOf(InMemory) <=> \E b \in With(queue, stored) : e \in b.counts
         /\ \A b \in With(queue, stored) : \E c \in InMemory :
              b.counts = c.counts /\ b.from = c.from /\ b.end.wall = c.end.wall
<1>1. queue \in Seq(Bucket) /\ stored \subseteq Bucket
  BY Buckets
<1>2. ASSUME NEW b \in With(queue, stored)
      PROVE  \E c \in InMemory :
               b.counts = c.counts /\ b.from = c.from /\ b.end.wall = c.end.wall
  <2>1. CASE b \in stored
    BY <2>1 DEF InMemory
  <2>2. CASE b \notin stored
    <3>1. PICK i \in 1..Len(queue) : b = Encoded(queue[i])
      BY <1>1, <2>2, WithFacts
    <3>2. queue[i] \in Bucket /\ queue[i] \in InMemory
      BY <1>1, SetOf DEF InMemory
    <3> QED BY <3>1, <3>2, EncodedFacts
  <2> QED BY <2>1, <2>2
<1>3. ASSUME NEW c \in InMemory PROVE \E b \in With(queue, stored) : b.counts = c.counts
  <2>1. CASE c \in stored
    BY <1>1, <2>1, WithFacts
  <2>2. CASE c \notin stored
    <3>1. PICK i \in 1..Len(queue) : c = queue[i]
      BY <1>1, <2>2, SetOf DEF InMemory
    <3>2. queue[i] \in Bucket
      BY <1>1, SetOf
    <3>3. Encoded(c) \in With(queue, stored) /\ Encoded(c).counts = c.counts
      BY <1>1, <3>1, <3>2, WithFacts, EncodedFacts
    <3> QED BY <3>3
  <2> QED BY <2>1, <2>2
<1>4. \A e : e \in CountsOf(InMemory) <=> \E c \in InMemory : e \in c.counts
  BY CountsMember
<1> QED BY <1>2, <1>3, <1>4

\* What a sweep counts was counted nowhere, and closes nothing before it was counted.
LEMMA FoldedApart ==
  ASSUME Types, Conversations, Window, NEW at
  PROVE  /\ Folded(at) \intersect (discarded \union CountsOf(InMemory)) = {}
         /\ \A e \in Folded(at) : e \in counted \/ e \notin Accounted \union durable
         /\ \A e \in Folded(at) : \A x \in e.of : Counted(x) \in Accounted
<1>1. ASSUME NEW s \in Idle(at) PROVE Closed(s) \notin Accounted \union durable
  <2>1. s \in sessions
    BY FoldedFacts
  <2>2. PICK x \in s.held : TRUE
    BY <2>1 DEF Conversations
  <2>3. \A e \in Accounted \union durable : e.what = "closed" => x \notin e.of
    BY <2>1 DEF Conversations
  <2> QED BY <2>3, EntryFacts
<1>2. \A e \in Folded(at) : e \in counted \/ \E s \in Idle(at) : e = Closed(s)
  BY FoldedFacts
<1>3. \A e \in Folded(at) : e \in counted \/ e \notin Accounted \union durable
  BY <1>1, <1>2
<1>4. Folded(at) \intersect (discarded \union CountsOf(InMemory)) = {}
  BY <1>3 DEF Window, Accounted
<1>5. ASSUME NEW e \in Folded(at), NEW x \in e.of PROVE Counted(x) \in Accounted
  <2>1. CASE e \in counted
    BY <2>1 DEF Window
  <2>2. CASE e \notin counted
    <3>1. PICK s \in Idle(at) : e = Closed(s)
      BY <1>2, <2>2
    <3>2. s \in sessions /\ x \in s.held
      BY <3>1, EntryFacts, FoldedFacts
    <3> QED BY <3>2 DEF Conversations
  <2> QED BY <2>1, <2>2
<1> QED BY <1>3, <1>4, <1>5

\* Conversations stay apart when some of them close and nothing else is counted.
LEMMA ConversationsKept ==
  ASSUME Conversations, sessions' \subseteq sessions, Accounted \subseteq Accounted',
         \A e \in Accounted' \union durable' :
           e \in Accounted \union durable \/ \E t \in sessions \ sessions' : e = Closed(t)
  PROVE  Conversations'
<1> SUFFICES ASSUME NEW s \in sessions'
             PROVE  /\ s.held # {}
                    /\ \A x \in s.held :
                         /\ Counted(x) \in Accounted'
                         /\ \A e \in Accounted' \union durable' : e.what = "closed" => x \notin e.of
                         /\ \A t \in sessions' \ {s} : x \notin t.held
  BY DEF Conversations
<1>1. /\ s \in sessions /\ s.held # {}
      /\ \A x \in s.held :
           /\ Counted(x) \in Accounted
           /\ \A e \in Accounted \union durable : e.what = "closed" => x \notin e.of
           /\ \A t \in sessions \ {s} : x \notin t.held
  BY DEF Conversations
<1>2. ASSUME NEW x \in s.held, NEW e \in Accounted' \union durable', e.what = "closed"
      PROVE  x \notin e.of
  <2>1. CASE e \in Accounted \union durable
    BY <1>1, <1>2, <2>1
  <2>2. CASE \E t \in sessions \ sessions' : e = Closed(t)
    BY <1>1, <2>2, EntryFacts
  <2> QED BY <2>1, <2>2
<1> QED BY <1>1, <1>2

-----------------------------------------------------------------------------
(* The kinds of steps. *)

\* A window is closed.
Closes(at) ==
  /\ CollectAt(at, wall)
  /\ at \in Reading /\ at.wall <= wall
  /\ pc' = "saveQueue"
  /\ UNCHANGED <<wall, qfile, lfile, stored, behind, durable, writtenOff, torn>>

\* The books are not touched.
Quiet ==
  /\ wall' \in Nat /\ wall <= wall'
  /\ pc \notin {"saveQueue", "opening"}
  /\ pc' = "taken" => pc = "taken"
  /\ UNCHANGED <<recorder, buffer, files, stored, behind, durable, writtenOff, torn>>

Files == BackendTakes /\ pc' = "taken"
Forgets == Answered /\ pc' = "saveQueue"

\* Every action is of one of these kinds.
LEMMA Kinds ==
  ASSUME Types, Running, Next
  PROVE  \/ \E at : Closes(at)
         \/ Quiet \/ Snapshot \/ SaveQueue \/ SaveLive \/ Files \/ Forgets
         \/ \E x \in Exchanges : Count(x)
         \/ Restart
<1>1. Now \in Reading /\ Now.wall = wall /\ awake \in Reading /\ wall \in Nat
  BY NowIsAReading DEF Types, LoopTypes
<1>2. ASSUME NEW timer \in {"collect", "snapshot", "send"}, Turn(timer)
      PROVE  Quiet \/ \E at : Closes(at)
  <2>1. UNCHANGED <<wall, qfile, lfile, stored, behind, durable, writtenOff, torn>>
    BY <1>2 DEF Turn, clocks, files, backend, history
  <2>2. CASE CollectAt(awake, wall) /\ pc' = "saveQueue"
    BY <1>1, <2>1, <2>2 DEF Closes, Running
  <2>3. CASE CollectAt(Now, wall) /\ pc' = "saveQueue"
    <3>1. Closes(Now)
      BY <1>1, <2>1, <2>3 DEF Closes
    <3> QED BY <3>1
  <2>4. CASE timer # "collect" /\ pc' = Own(timer) /\ UNCHANGED <<recorder, buffer>>
    <3>1. pc = "idle" /\ pc' # "taken"
      BY <1>2, <2>4 DEF Turn, Own
    <3> QED BY <1>1, <2>1, <2>4, <3>1 DEF Quiet, files
  <2> QED BY <1>2, <2>2, <2>3, <2>4 DEF Turn, Persist
<1>3. ASSUME Open \/ Stop PROVE \E at : Closes(at)
  <2>1. Closes(Now)
    BY <1>1, <1>3 DEF Open, Stop, Closes, Persist, clocks, files, backend, history
  <2> QED BY <2>1
<1>4. ASSUME Enrol \/ Send PROVE Quiet
  <2>1. pc = "drain" /\ pc' # "taken"
    BY <1>4 DEF Enrol, Send, Fail, Rest
  <2> QED BY <1>1, <1>4, <2>1 DEF Enrol, Send, Fail, Quiet, clocks, backend, history
<1>5. ASSUME BackendTakes PROVE Files \/ Quiet
  <2>1. CASE Fail
    <3>1. pc = "asked" /\ pc' # "taken"
      BY <1>5, <2>1 DEF BackendTakes, Fail, Rest
    <3> QED BY <1>1, <1>5, <2>1, <3>1 DEF BackendTakes, Fail, Quiet, clocks, backend, history
  <2> QED BY <1>5, <2>1 DEF BackendTakes, Files
<1>6. ASSUME Answered PROVE Forgets \/ Quiet
  <2>1. CASE Fail /\ UNCHANGED <<queue, after>>
    <3>1. pc = "taken"
      BY <1>6 DEF Answered
    <3> QED BY <1>1, <1>6, <2>1, <3>1
        DEF Answered, Fail, Quiet, clocks, recorder, buffer, backend, history
  <2> QED BY <1>6, <2>1 DEF Answered, Forgets, Persist
<1>7. ASSUME Tick \/ Sleep PROVE Quiet
  <2>1. wall' \in Nat /\ wall <= wall' /\ pc \notin {"saveQueue", "opening"}
    BY <1>1, <1>7, BufferAssumption DEF Tick, Sleep, Waiting
  <2> QED BY <1>7, <2>1 DEF Tick, Sleep, Quiet, loop, backend, history
<1> QED BY <1>2, <1>3, <1>4, <1>5, <1>6, <1>7 DEF Next, Step

\* The loop last ran before now.
LEMMA RunningInit == Init => Running
BY DEF Init, Running

LEMMA RunningNext ==
  ASSUME Types, Running, [Next]_vars
  PROVE  Running'
<1>1. Now.wall = wall /\ wall \in Nat /\ awake.wall \in Nat
  BY NowIsAReading DEF Types, LoopTypes, Reading
<1>2. wall <= wall' /\ awake'.wall <= wall'
  <2>1. CASE Tick \/ Sleep
    BY <1>1, <2>1, BufferAssumption DEF Tick, Sleep, loop, Running
  <2>2. CASE Restart
    BY <1>1, <2>2 DEF Restart
  <2>3. CASE Open \/ \E timer \in {"collect", "snapshot", "send"} : Turn(timer)
    BY <1>1, <2>3 DEF Open, Turn, clocks
  <2>4. CASE UNCHANGED <<wall, awake>>
    BY <1>1, <2>4 DEF Running
  <2>5. Step \/ Stop \/ (\E x \in Exchanges : Count(x)) => Open \/ UNCHANGED <<wall, awake>>
    BY DEF Step, Snapshot, SaveQueue, SaveLive, Enrol, Send, BackendTakes, Answered, Stop, Count,
           clocks, loop
  <2>6. UNCHANGED vars => UNCHANGED <<wall, awake>>
    BY DEF vars, clocks, loop
  <2> QED BY <2>1, <2>2, <2>3, <2>4, <2>5, <2>6 DEF Next
<1>3. after' \in {"idle", "snapshot", "drain", "stopped"}
  <2>1. CASE \E timer \in {"collect", "snapshot", "send"} : Turn(timer)
    BY <2>1 DEF Turn, Persist, Own, Running
  <2>2. CASE Step
    BY <2>2 DEF Step, Open, Snapshot, SaveQueue, SaveLive, Enrol, Send, BackendTakes, Answered,
                Persist, Rest, Running
  <2>3. CASE Stop \/ Restart
    BY <2>3 DEF Stop, Restart, Persist
  <2>4. CASE Tick \/ Sleep \/ (\E x \in Exchanges : Count(x)) \/ UNCHANGED vars
    BY <2>4 DEF Tick, Sleep, Count, vars, loop, Running
  <2> QED BY <2>1, <2>2, <2>3, <2>4 DEF Next
<1> QED BY <1>2, <1>3 DEF Running

-----------------------------------------------------------------------------
(* Each kind of step keeps the ledger. *)

LEMMA LedgerInit == Init => Ledger
<1> SUFFICES ASSUME Init PROVE Ledger
  OBVIOUS
<1>1. /\ ToSet(queue) = {} /\ ToSet(live) = {} /\ ToSet(qfile.buckets) = {} /\ ToSet(lfile) = {}
      /\ Len(queue) = 0 /\ queue = <<>> /\ Loaded = <<>> /\ Len(Loaded) = 0
  BY DEF Init, ToSet, Loaded
<1>2. CountsOf({}) = {}
  BY DEF CountsOf
<1>3. Times /\ Conversations /\ Window /\ Progress /\ Mirrored /\ Taken /\ Losses
  BY <1>1 DEF Init, Times, Conversations, Window, Progress, Mirrored, Taken, Losses, Recorded,
              InMemory, InFiles
<1>4. Outlives
  BY <1>1, <1>2 DEF Init, Outlives, OnDisk
<1>5. With(<<>>, {}) = {}
  BY DEF With
<1>6. Sendable
  BY <1>1, <1>5 DEF Init, Sendable, Sound, Alone, Closures, Ordered
<1> QED BY <1>3, <1>4, <1>6 DEF Ledger

\* A step that leaves the books alone.
LEMMA QuietKeeps ==
  ASSUME Types, Ledger, Quiet
  PROVE  Ledger'
<1> USE DEF Quiet, recorder, buffer, files
<1>1. Batch' = Batch /\ Mirror' = Mirror /\ Loaded' = Loaded /\ OnDisk' = OnDisk
  BY DEF Batch, Mirror, Loaded, OnDisk
<1>2. InMemory' = InMemory /\ InFiles' = InFiles /\ Accounted' = Accounted
  BY DEF InMemory, InFiles, Accounted
<1>3. Times'
  <2>1. \A b \in InFiles \union ToSet(live) : b.end.wall \in Nat /\ b.from \in Nat
    BY Buckets, BucketFacts DEF InFiles
  <2>2. wall \in Nat /\ wall' \in Nat /\ opened \in Nat
    BY DEF Types, LoopTypes, BufferTypes
  <2> QED BY <1>2, <2>1, <2>2 DEF Ledger, Times
<1>4. Conversations' /\ Window' /\ Progress'
  BY <1>2 DEF Ledger, Conversations, Window, Progress
<1>5. Mirrored' /\ Taken'
  BY <1>1 DEF Ledger, Mirrored, Taken
<1>6. Outlives' /\ Losses'
  BY <1>1, <1>2 DEF Ledger, Outlives, Losses
<1>7. Sendable'
  BY <1>1 DEF Ledger, Sendable
<1> QED BY <1>3, <1>4, <1>5, <1>6, <1>7 DEF Ledger

\* A window is closed: what it counted is in the queue, or was given up.
LEMMA ClosesAccounts ==
  ASSUME Types, Ledger, NEW at, Closes(at)
  PROVE  /\ Accounted \subseteq Accounted'
         /\ \A e \in Accounted' : e \in Accounted \/ \E s \in sessions \ sessions' : e = Closed(s)
         /\ \A b \in ToSet(queue) \union {Closing(at)} : \A e \in b.counts :
              e \in discarded' \/ e \in CountsOf(ToSet(queue'))
<1>1. CollectAt(at, wall) /\ at \in Reading /\ wall \in Nat
  BY DEF Closes, Types, LoopTypes
<1> PICK new : new = Closing(at)
  OBVIOUS
<1>2. /\ ToSet(queue') \subseteq ToSet(queue) \union {new}
      /\ discarded' = discarded \union (CountsOf(ToSet(queue) \union {new})
                                         \ CountsOf(ToSet(queue')))
  BY <1>1, Collected
<1>3. /\ counted' = {} /\ sessions' = sessions \ Idle(at) /\ stored' = stored
      /\ new.counts = Folded(at)
  BY DEF Closes, CollectAt, Swept, Closing
<1>4. \A b \in ToSet(queue) \union {new} : \A e \in b.counts :
        e \in discarded' \/ e \in CountsOf(ToSet(queue'))
  BY <1>2, CountsMember
<1>5. \A e : e \in Accounted <=> \/ e \in counted \/ e \in discarded \/ e \in CountsOf(stored)
                                 \/ \E b \in ToSet(queue) : e \in b.counts
  BY CountsUnion, CountsMember DEF Accounted, InMemory
<1>6. \A e : e \in Accounted' <=> \/ e \in discarded' \/ e \in CountsOf(stored)
                                  \/ e \in CountsOf(ToSet(queue'))
  BY <1>3, CountsUnion DEF Accounted, InMemory
<1>7. ASSUME NEW e \in Accounted PROVE e \in Accounted'
  <2>1. counted \subseteq new.counts
    BY <1>3, FoldedFacts
  <2> QED BY <1>2, <1>4, <1>5, <1>6, <2>1
<1>8. ASSUME NEW e \in Accounted' PROVE e \in Accounted \/ \E s \in sessions \ sessions' : e = Closed(s)
  <2>1. CASE e \in CountsOf(ToSet(queue) \union {new})
    <3>1. PICK b \in ToSet(queue) \union {new} : e \in b.counts
      BY <2>1, CountsMember
    <3>2. CASE b \in ToSet(queue)
      BY <1>5, <3>1, <3>2
    <3>3. CASE b = new
      <4>1. e \in counted \/ \E s \in Idle(at) : e = Closed(s)
        BY <1>3, <3>1, <3>3, FoldedFacts
      <4>2. \A s \in Idle(at) : s \in sessions \ sessions'
        BY <1>3, FoldedFacts
      <4> QED BY <1>5, <4>1, <4>2
    <3> QED BY <3>1, <3>2, <3>3
  <2>2. CASE e \notin CountsOf(ToSet(queue) \union {new})
    <3>1. e \notin CountsOf(ToSet(queue'))
      BY <1>2, <2>2, CountsMember
    <3> QED BY <1>2, <1>5, <1>6, <2>2, <3>1
  <2> QED BY <2>1, <2>2
<1> QED BY <1>4, <1>7, <1>8

\* What prune cost is in the bucket being closed, or counted for the next one.
LEMMA ClosesLosses ==
  ASSUME Types, Ledger, NEW at, Closes(at)
  PROVE  Losses'
<1>1. CollectAt(at, wall) /\ at \in Reading /\ wall \in Nat
  BY DEF Closes, Types, LoopTypes
<1> PICK new : new = Closing(at)
  OBVIOUS
<1>2. /\ discarded' = discarded \union (CountsOf(ToSet(queue) \union {new})
                                         \ CountsOf(ToSet(queue')))
      /\ \A b \in ToSet(queue) \union {new} : b \notin ToSet(queue') =>
           dropped' > 0 \/ (new \in ToSet(queue') /\ new.losses > 0)
      /\ dropped > 0 => dropped' > 0 \/ (new \in ToSet(queue') /\ new.losses > 0)
  BY <1>1, Collected
<1>3. InMemory' = ToSet(queue') \union stored
  BY DEF InMemory, Closes
<1>4. ASSUME discarded' # {} PROVE dropped' > 0 \/ \E b \in InMemory' : b.losses > 0
  <2>1. CASE discarded # {}
    <3>1. CASE dropped > 0
      BY <1>2, <1>3, <3>1
    <3>2. CASE \E b \in InMemory : b.losses > 0
      <4>1. PICK b \in InMemory : b.losses > 0
        BY <3>2
      <4>2. b \in ToSet(queue) \/ b \in stored
        BY DEF InMemory
      <4> QED BY <1>2, <1>3, <4>1, <4>2
    <3> QED BY <2>1, <3>1, <3>2 DEF Ledger, Losses, Recorded
  <2>2. CASE discarded = {}
    <3>1. PICK e : e \in CountsOf(ToSet(queue) \union {new}) /\ e \notin CountsOf(ToSet(queue'))
      BY <1>2, <1>4, <2>2
    <3>2. PICK b \in ToSet(queue) \union {new} : e \in b.counts
      BY <3>1, CountsMember
    <3>3. b \notin ToSet(queue')
      BY <3>1, <3>2, CountsMember
    <3> QED BY <1>2, <1>3, <3>3
  <2> QED BY <2>1, <2>2
<1>5. UNCHANGED <<writtenOff, qfile, stored>>
  BY DEF Closes
<1> QED BY <1>4, <1>5 DEF Ledger, Losses, Recorded

\* The bucket being closed is later than all others and repeats none of them.
LEMMA ClosesSendable ==
  ASSUME Types, Ledger, NEW at, Closes(at)
  PROVE  Sendable'
<1>1. CollectAt(at, wall) /\ at \in Reading /\ wall \in Nat
  BY DEF Closes, Types, LoopTypes
<1> PICK new : new = Closing(at)
  OBVIOUS
<1>2. /\ new \in Bucket /\ queue' \in Seq(Bucket)
      /\ Thins(queue', Append(queue, new))
      /\ discarded \subseteq discarded'
  BY <1>1, Collected
<1>3. queue \in Seq(Bucket) /\ stored \subseteq Bucket
  BY Buckets
<1>4. new.from = opened /\ new.counts = Folded(at)
  BY DEF Closing
<1>5. UNCHANGED <<qfile, lfile, stored, behind, writtenOff, torn>> /\ Loaded' = Loaded
  BY DEF Closes, Loaded
<1> SUFFICES ASSUME ~torn PROVE Sound(queue', stored, discarded')
  BY <1>5 DEF Sendable, Ledger
<1>6. Sound(queue, stored, discarded)
  BY DEF Sendable, Ledger
<1>7. ASSUME NEW b \in With(queue, stored)
      PROVE  /\ b.end.wall <= new.from /\ b.from <= new.from
             /\ b.counts \intersect new.counts = {}
  <2>1. PICK c \in InMemory : b.counts = c.counts /\ b.from = c.from /\ b.end.wall = c.end.wall
    BY SameCounts
  <2>2. c.end.wall <= opened /\ c.from <= opened
    BY DEF Ledger, Times
  <2>3. c.counts \subseteq CountsOf(InMemory)
    BY CountsMember
  <2>4. Folded(at) \intersect CountsOf(InMemory) = {}
    BY FoldedApart DEF Ledger
  <2> QED BY <1>4, <2>1, <2>2, <2>3, <2>4
<1>8. ASSUME NEW e \in new.counts, NEW x \in e.of
      PROVE  \/ Counted(x) \in new.counts \/ Counted(x) \in discarded
             \/ \E b \in With(queue, stored) : Counted(x) \in b.counts
  <2>1. Counted(x) \in Accounted
    BY <1>4, FoldedApart DEF Ledger
  <2>2. counted \subseteq new.counts
    BY <1>4, FoldedFacts
  <2> QED BY <2>1, <2>2, SameCounts DEF Accounted
<1> PICK full : full = Append(queue, new)
  OBVIOUS
<1>9. full \in Seq(Bucket) /\ Thins(queue', full)
  BY <1>2, <1>3
<1>10. Sound(full, stored, discarded)
  BY <1>2, <1>3, <1>6, <1>7, <1>8, SoundGrows
<1>11. ASSUME NEW b \in With(full, stored), NEW e \in b.counts
       PROVE  e \in discarded' \/ \E c \in With(queue', stored) : e \in c.counts
  <2>1. CASE b \in stored
    BY <1>2, <1>3, <2>1, WithFacts
  <2>2. CASE b \notin stored
    <3>1. PICK i \in 1..Len(full) : b = Encoded(full[i])
      BY <2>2 DEF With
    <3>2. full[i] \in Bucket /\ full[i] \in ToSet(queue) \union {new}
      <4>1. CASE i = Len(queue) + 1
        BY <1>2, <1>3, <4>1
      <4>2. CASE i # Len(queue) + 1
        <5>1. i \in 1..Len(queue) /\ full[i] = queue[i]
          BY <1>2, <1>3, <4>2
        <5> QED BY <1>3, <5>1, SetOf
      <4> QED BY <4>1, <4>2
    <3>3. e \in full[i].counts
      BY <3>1, <3>2, EncodedFacts
    <3>4. CASE e \in CountsOf(ToSet(queue'))
      <4>1. PICK d \in ToSet(queue') : e \in d.counts
        BY <3>4, CountsMember
      <4>2. PICK j \in 1..Len(queue') : d = queue'[j]
        BY <1>2, SetOf
      <4>3. queue'[j] \in Bucket
        BY <1>2, SetOf
      <4>4. Encoded(queue'[j]) \in With(queue', stored) /\ e \in Encoded(queue'[j]).counts
        BY <1>2, <1>3, <4>1, <4>2, <4>3, WithFacts, EncodedFacts
      <4> QED BY <4>4
    <3> QED BY <3>2, <3>3, <3>4, ClosesAccounts
  <2> QED BY <2>1, <2>2
<1> QED BY <1>2, <1>3, <1>9, <1>10, <1>11, SoundThins

LEMMA ClosesKeeps ==
  ASSUME Types, Ledger, NEW at, Closes(at)
  PROVE  Ledger'
<1>1. /\ CollectAt(at, wall) /\ at \in Reading /\ at.wall <= wall /\ pc' = "saveQueue"
      /\ UNCHANGED <<wall, qfile, lfile, stored, behind, durable, writtenOff, torn>>
  BY DEF Closes
<1>2. opened' = wall /\ counted' = {} /\ live' = <<>> /\ sessions' \subseteq sessions
  BY <1>1 DEF CollectAt, LiveWhenClosed, Swept
<1>3. wall \in Nat /\ opened \in Nat /\ at.wall \in Nat
  BY <1>1 DEF Types, LoopTypes, BufferTypes, Reading
<1>4. Times'
  <2>1. ToSet(queue') \subseteq ToSet(queue) \union {Closing(at)}
    BY <1>1, <1>3, Collected
  <2>2. Closing(at).from = opened /\ Closing(at).end.wall = at.wall
    BY DEF Closing
  <2>3. \A b \in InMemory : b.end.wall \in Nat /\ b.from \in Nat
    BY Buckets, BucketFacts
  <2>4. ASSUME NEW b \in InMemory' PROVE b.end.wall <= opened' /\ b.from <= opened'
    <3>1. b \in InMemory \/ b = Closing(at)
      BY <1>1, <2>1 DEF InMemory
    <3>2. opened <= wall /\ \A c \in InMemory : c.end.wall <= opened /\ c.from <= opened
      BY DEF Ledger, Times
    <3>3. CASE b \in InMemory
      BY <1>2, <1>3, <2>3, <3>2, <3>3
    <3>4. CASE b = Closing(at)
      BY <1>1, <1>2, <1>3, <2>2, <3>2, <3>4
    <3> QED BY <3>1, <3>3, <3>4
  <2>5. ToSet(live') = {}
    BY <1>2 DEF ToSet
  <2>6. InFiles' = InFiles
    BY <1>1 DEF InFiles
  <2> QED BY <1>1, <1>2, <1>3, <2>4, <2>5, <2>6 DEF Ledger, Times
<1>5. Conversations'
  BY <1>1, <1>2, ClosesAccounts, ConversationsKept DEF Ledger
<1>6. Window' /\ Progress' /\ Mirrored' /\ Taken'
  BY <1>1, <1>2 DEF Window, Progress, Mirrored, Taken
<1>7. Outlives'
  <2>1. OnDisk' = OnDisk
    BY <1>1 DEF OnDisk
  <2> QED BY <1>1, <1>2, <2>1, ClosesAccounts DEF Ledger, Outlives
<1> QED BY <1>4, <1>5, <1>6, <1>7, ClosesLosses, ClosesSendable DEF Ledger

LEMMA SnapshotKeeps ==
  ASSUME Types, Ledger, Snapshot
  PROVE  Ledger'
<1>1. /\ counted' = Folded(Now) /\ sessions' = sessions \ Idle(Now) /\ pc = "snapshot"
      /\ pc' \in {"idle", "saveLive"}
      /\ UNCHANGED <<wall, opened, queue, dropped, discarded, qfile, lfile, stored, behind,
                     durable, writtenOff, torn>>
  BY DEF Snapshot, Swept, clocks, files, backend, history
<1>2. /\ OnDisk' = OnDisk /\ InMemory' = InMemory /\ InFiles' = InFiles /\ Mirror' = Mirror
      /\ Loaded' = Loaded
  BY <1>1 DEF OnDisk, InMemory, InFiles, Mirror, Loaded
<1>3. counted \subseteq counted' /\ counted' \subseteq Entry
  BY <1>1, FoldedFacts
<1>4. /\ counted' \intersect (discarded \union CountsOf(InMemory)) = {}
      /\ \A e \in counted' : e \in counted \/ e \notin durable
      /\ \A e \in counted' : \A x \in e.of : Counted(x) \in Accounted
  BY <1>1, FoldedApart DEF Ledger
<1>5. Accounted' = Accounted \union counted'
  BY <1>1, <1>2, <1>3 DEF Accounted
<1>6. ASSUME live' = live
      PROVE  /\ Times' /\ Progress'
             /\ durable \intersect counted'
                  \subseteq CountsOf(ToSet(lfile)) \intersect CountsOf(ToSet(live'))
  <2>1. Times' /\ Progress'
    BY <1>1, <1>2, <1>3, <1>6 DEF Ledger, Times, Progress
  <2>2. durable \intersect counted' \subseteq CountsOf(ToSet(lfile)) \intersect CountsOf(ToSet(live'))
    BY <1>4, <1>6 DEF Ledger, Outlives
  <2> QED BY <2>1, <2>2
<1>7. ASSUME live' = <<[from |-> opened, end |-> Now, counts |-> counted', losses |-> 0]>>
      PROVE  /\ Times' /\ Progress'
             /\ durable \intersect counted'
                  \subseteq CountsOf(ToSet(lfile)) \intersect CountsOf(ToSet(live'))
  <2> PICK new : new = [from |-> opened, end |-> Now, counts |-> counted', losses |-> 0]
    OBVIOUS
  <2>1. live' = <<new>> /\ Len(live') = 1 /\ live'[1] = new
    BY <1>7
  <2>2. ToSet(live') = {new}
    BY <2>1 DEF ToSet
  <2>3. new.from = opened /\ new.end.wall = wall /\ new.counts = counted'
    BY DEF Now
  <2>4. Times'
    <3>1. opened \in Nat /\ wall \in Nat
      BY DEF Types, LoopTypes, BufferTypes
    <3> QED BY <1>1, <1>2, <2>2, <2>3, <3>1 DEF Ledger, Times
  <2>5. Progress'
    <3>1. \A e \in counted' : \A x \in e.of :
            Counted(x) \in counted' \union discarded \union CountsOf(InMemory)
      BY <1>3, <1>4 DEF Accounted
    <3> QED BY <1>1, <1>2, <2>1, <2>3, <3>1 DEF Progress
  <2>6. \A e \in counted' : e \in CountsOf(ToSet(live'))
    BY <2>2, <2>3, CountsMember
  <2> QED BY <1>4, <2>4, <2>5, <2>6 DEF Ledger, Outlives
<1>8. /\ Times' /\ Progress'
      /\ durable \intersect counted' \subseteq CountsOf(ToSet(lfile)) \intersect CountsOf(ToSet(live'))
  BY <1>1, <1>6, <1>7 DEF Snapshot, InProgress
<1>9. Conversations'
  <2>1. \A e \in counted' : e \in counted \/ \E s \in sessions \ sessions' : e = Closed(s)
    BY <1>1, FoldedFacts
  <2>2. \A e \in Accounted' \union durable' :
          e \in Accounted \union durable \/ \E s \in sessions \ sessions' : e = Closed(s)
    BY <1>1, <1>5, <2>1 DEF Accounted
  <2> QED BY <1>1, <1>5, <2>2, ConversationsKept DEF Ledger
<1>10. Window' /\ Mirrored' /\ Taken'
  BY <1>1, <1>2, <1>4, <1>5 DEF Ledger, Window, Mirrored, Taken
<1>11. Outlives' /\ Losses' /\ Sendable'
  BY <1>1, <1>2, <1>5, <1>8 DEF Ledger, Outlives, Losses, Sendable
<1> QED BY <1>8, <1>9, <1>10, <1>11 DEF Ledger

\* The queue file, once written, holds the queue.
LEMMA MirrorFacts ==
  ASSUME Types
  PROVE  /\ Mirror.buckets = Encodings(queue) /\ Mirror.dropped = dropped
         /\ \A b \in ToSet(Mirror.buckets) : \E c \in ToSet(queue) : b = Encoded(c)
         /\ \A c \in ToSet(queue) : Encoded(c) \in ToSet(Mirror.buckets)
         /\ CountsOf(ToSet(Mirror.buckets)) = CountsOf(ToSet(queue))
<1>1. queue \in Seq(Bucket)
  BY Buckets
<1>2. Mirror.buckets = Encodings(queue) /\ Mirror.dropped = dropped
  BY DEF Mirror, Encodings
<1> PICK m : m = Encodings(queue)
  OBVIOUS
<1>3. /\ m \in Seq(Bucket) /\ Len(m) = Len(queue) /\ \A i \in 1..Len(queue) : m[i] = Encoded(queue[i])
      /\ CountsOf(ToSet(m)) = CountsOf(ToSet(queue))
  BY <1>1, EncodingsFacts
<1>4. ASSUME NEW b \in ToSet(m) PROVE \E c \in ToSet(queue) : b = Encoded(c)
  <2>1. PICK i \in 1..Len(m) : b = m[i]
    BY <1>3, SetOf
  <2>2. queue[i] \in ToSet(queue) /\ m[i] = Encoded(queue[i])
    BY <1>1, <1>3, SetOf
  <2> QED BY <2>1, <2>2
<1>5. ASSUME NEW c \in ToSet(queue) PROVE Encoded(c) \in ToSet(m)
  <2>1. PICK i \in 1..Len(queue) : c = queue[i]
    BY <1>1, SetOf
  <2>2. m[i] \in ToSet(m) /\ m[i] = Encoded(queue[i])
    BY <1>1, <1>3, SetOf
  <2> QED BY <2>1, <2>2
<1> QED BY <1>2, <1>3, <1>4, <1>5

LEMMA SaveQueueKeeps ==
  ASSUME Types, Ledger, Running, SaveQueue
  PROVE  Ledger'
<1>1. /\ UNCHANGED <<wall, counted, sessions, opened, queue, live, dropped, discarded, lfile,
                     stored, torn>>
      /\ pc = "saveQueue"
  BY DEF SaveQueue, clocks, recorder, buffer, backend
<1>2. InMemory' = InMemory /\ Accounted' = Accounted /\ Mirror' = Mirror
  BY <1>1 DEF InMemory, Accounted, Mirror
<1>3. pc' # "taken"
  BY DEF SaveQueue, Running
<1>4. Window' /\ Progress' /\ Taken'
  BY <1>1, <1>2, <1>3 DEF Ledger, Window, Progress, Taken
<1>5. ASSUME qfile' = Mirror, pc' = "saveLive", behind' = "live",
             durable' = durable \union OnDisk', writtenOff' = discarded
      PROVE  Ledger'
  <2>1. OnDisk' = CountsOf(ToSet(queue)) \union CountsOf(ToSet(lfile))
    BY <1>1, <1>5, CountsUnion, MirrorFacts DEF OnDisk
  <2>2. CountsOf(ToSet(lfile)) \subseteq durable
    BY CountsUnion DEF OnDisk, Ledger, Outlives
  <2>3. CountsOf(ToSet(queue)) \subseteq CountsOf(InMemory)
    BY CountsUnion DEF InMemory
  <2>4. Times'
    <3>1. ASSUME NEW b \in ToSet(qfile'.buckets) PROVE b.end.wall <= wall /\ b.from <= wall
      <4>1. PICK c \in ToSet(queue) : b = Encoded(c)
        BY <1>5, MirrorFacts
      <4>2. c \in Bucket /\ c \in InMemory
        BY <4>1, Buckets DEF InMemory
      <4>3. c.end.wall \in Nat /\ c.from \in Nat /\ opened \in Nat /\ wall \in Nat
        BY <4>2, BucketFacts DEF Types, BufferTypes, LoopTypes
      <4>4. c.end.wall <= opened /\ c.from <= opened /\ opened <= wall
        BY <4>2 DEF Ledger, Times
      <4>5. b.end.wall = c.end.wall /\ b.from = c.from
        BY <4>1, <4>2, EncodedFacts
      <4> QED BY <4>3, <4>4, <4>5
    <3> QED BY <1>1, <1>2, <3>1 DEF Ledger, Times, InFiles
  <2>5. Conversations'
    <3>1. \A e \in Accounted' \union durable' : e \in Accounted \union durable
      BY <1>2, <1>5, <2>1, <2>2, <2>3 DEF Accounted
    <3> QED BY <1>1, <1>2, <3>1, ConversationsKept DEF Ledger
  <2>6. Mirrored'
    BY <1>1, <1>2, <1>5 DEF Mirrored
  <2>7. Outlives'
    <3>1. durable' \subseteq Accounted'
      BY <1>2, <1>5, <2>1, <2>2, <2>3 DEF Ledger, Outlives, Accounted
    <3>2. durable' \intersect counted \subseteq durable \intersect counted
      BY <1>5, <2>1, <2>2, <2>3 DEF Ledger, Window
    <3>3. durable' \intersect counted' \subseteq CountsOf(ToSet(lfile')) \intersect CountsOf(ToSet(live'))
      BY <1>1, <3>2 DEF Ledger, Outlives
    <3>4. durable' \subseteq OnDisk' \union CountsOf(stored) \union discarded
      <4>1. Accounted = counted \union discarded \union CountsOf(ToSet(queue)) \union CountsOf(stored)
        BY CountsUnion DEF Accounted, InMemory
      <4> QED BY <1>1, <1>2, <2>1, <3>1, <3>3, <4>1
    <3> QED BY <1>1, <1>5, <3>1, <3>3, <3>4 DEF Outlives
  <2>8. Losses'
    <3>1. ASSUME discarded # {}
          PROVE  dropped > 0 \/ \E b \in ToSet(Mirror.buckets) \union stored : b.losses > 0
      <4>1. CASE dropped > 0
        BY <4>1
      <4>2. CASE \E b \in InMemory : b.losses > 0
        <5>1. PICK b \in InMemory : b.losses > 0
          BY <4>2
        <5>2. CASE b \in stored
          BY <5>1, <5>2
        <5>3. CASE b \in ToSet(queue)
          <6>1. Encoded(b) \in ToSet(Mirror.buckets) /\ b \in Bucket
            BY <5>3, Buckets, MirrorFacts
          <6>2. Encoded(b).losses > 0
            BY <5>1, <6>1, EncodedFacts
          <6> QED BY <6>1, <6>2
        <5> QED BY <5>1, <5>2, <5>3 DEF InMemory
      <4> QED BY <3>1, <4>1, <4>2 DEF Ledger, Losses, Recorded
    <3>2. qfile'.dropped = dropped
      BY <1>5, MirrorFacts
    <3> QED BY <1>1, <1>2, <1>5, <3>1, <3>2 DEF Ledger, Losses, Recorded
  <2>9. Sendable'
    BY <1>1, <1>5 DEF Ledger, Sendable
  <2> QED BY <1>4, <2>4, <2>5, <2>6, <2>7, <2>8, <2>9 DEF Ledger
<1>6. ASSUME behind' = "queue", UNCHANGED <<qfile, durable, writtenOff>>
      PROVE  Ledger'
  <2>1. OnDisk' = OnDisk /\ InFiles' = InFiles
    BY <1>1, <1>6 DEF OnDisk, InFiles
  <2>2. Times' /\ Conversations' /\ Mirrored'
    BY <1>1, <1>2, <1>6, <2>1 DEF Ledger, Times, Conversations, Mirrored
  <2>3. Outlives' /\ Losses' /\ Sendable'
    BY <1>1, <1>2, <1>6, <2>1 DEF Ledger, Outlives, Losses, Sendable
  <2> QED BY <1>4, <2>2, <2>3 DEF Ledger
<1> QED BY <1>5, <1>6 DEF SaveQueue

\* The file of the bucket in progress, written.
LEMMA LiveFile ==
  ASSUME Types, Ledger, lfile' = [i \in 1..Len(live) |-> Encoded(live[i])]
  PROVE  /\ CountsOf(ToSet(lfile')) = CountsOf(ToSet(live))
         /\ CountsOf(ToSet(live)) \subseteq counted
         /\ \A b \in ToSet(lfile') : b.end.wall <= wall /\ b.from <= wall
<1>1. live \in Seq(Bucket) /\ lfile' = Encodings(live)
  BY Buckets DEF Encodings
<1>2. CountsOf(ToSet(lfile')) = CountsOf(ToSet(live))
  BY <1>1, EncodingsFacts
<1>3. ASSUME NEW e \in CountsOf(ToSet(live)) PROVE e \in counted
  <2>1. PICK b \in ToSet(live) : e \in b.counts
    BY CountsMember
  <2>2. PICK i \in 1..Len(live) : b = live[i]
    BY <1>1, SetOf
  <2>3. live # <<>>
    BY <2>2
  <2>4. i = 1
    <3>1. Len(live) = 1
      BY <2>3 DEF Ledger, Progress
    <3>2. i \in 1..1
      BY <2>2, <3>1
    <3> QED BY <3>2
  <2> QED BY <2>1, <2>2, <2>3, <2>4 DEF Ledger, Progress
<1>4. ASSUME NEW b \in ToSet(lfile') PROVE b.end.wall <= wall /\ b.from <= wall
  <2> PICK l : l = Encodings(live)
    OBVIOUS
  <2>1. l \in Seq(Bucket) /\ Len(l) = Len(live) /\ \A i \in 1..Len(live) : l[i] = Encoded(live[i])
    BY <1>1, EncodingsFacts
  <2>2. PICK i \in 1..Len(live) : b = l[i]
    BY <1>1, <2>1, SetOf
  <2>3. live[i] \in ToSet(live) /\ live[i] \in Bucket
    BY <1>1, SetOf
  <2>4. b.end.wall = live[i].end.wall /\ b.from = live[i].from
    BY <2>1, <2>2, <2>3, EncodedFacts
  <2> QED BY <2>3, <2>4 DEF Ledger, Times
<1> QED BY <1>2, <1>3, <1>4

\* Once both files are written they hold a queue as sound as the one they mirror.
LEMMA SaveLiveSendable ==
  ASSUME Types, Ledger, qfile = Mirror, writtenOff = discarded, ~torn,
         lfile' = [i \in 1..Len(live) |-> Encoded(live[i])], qfile' = qfile
  PROVE  Sound(Loaded', stored, writtenOff)
<1>1. /\ queue \in Seq(Bucket) /\ live \in Seq(Bucket) /\ stored \subseteq Bucket
  BY Buckets
<1> PICK q : q = Encodings(queue)
  OBVIOUS
<1>2. q \in Seq(Bucket) /\ Loaded' = q \o Encodings(live)
  BY <1>1, MirrorFacts, EncodingsFacts DEF Loaded, Encodings
<1>3. Sound(q, stored, writtenOff)
  BY <1>1, SoundEncodes DEF Ledger, Sendable
<1>4. CASE live = <<>>
  <2>1. Encodings(live) = <<>>
    BY <1>4 DEF Encodings
  <2>2. Loaded' = q
    BY <1>2, <2>1
  <2> QED BY <1>3, <2>2
<1>5. CASE live # <<>>
  <2> PICK new : new = Encoded(live[1])
    OBVIOUS
  <2>1. Len(live) = 1 /\ live[1] \in Bucket
    BY <1>1, <1>5 DEF Ledger, Progress
  <2>2. Encodings(live) = <<new>>
    BY <2>1 DEF Encodings
  <2>3. Loaded' = Append(q, new)
    BY <1>2, <2>2
  <2>4. new \in Bucket /\ new.from = opened /\ new.counts = live[1].counts
    BY <1>5, <2>1, EncodedFacts DEF Ledger, Progress
  <2>5. ASSUME NEW b \in With(q, stored)
        PROVE  \E c \in InMemory : b.counts = c.counts /\ b.from = c.from /\ b.end.wall = c.end.wall
    <3>1. CASE b \in stored
      BY <3>1 DEF InMemory
    <3>2. CASE b \notin stored
      <4>1. PICK i \in 1..Len(q) : b = Encoded(q[i])
        BY <3>2 DEF With
      <4>2. i \in 1..Len(queue) /\ q[i] = Encoded(queue[i])
        BY <1>1, <4>1, EncodingsFacts
      <4>3. queue[i] \in Bucket /\ queue[i] \in InMemory
        BY <1>1, <4>2, SetOf DEF InMemory
      <4>4. b = Encoded(queue[i])
        BY <4>1, <4>2, <4>3, EncodedFacts
      <4> QED BY <4>3, <4>4, EncodedFacts
    <3> QED BY <3>1, <3>2
  <2>6. \A b \in With(q, stored) :
          /\ b.end.wall <= new.from /\ b.from <= new.from
          /\ b.counts \intersect new.counts = {}
    <3> SUFFICES ASSUME NEW b \in With(q, stored)
                 PROVE  /\ b.end.wall <= new.from /\ b.from <= new.from
                        /\ b.counts \intersect new.counts = {}
      OBVIOUS
    <3>1. PICK c \in InMemory : b.counts = c.counts /\ b.from = c.from /\ b.end.wall = c.end.wall
      BY <2>5
    <3>2. c.end.wall <= opened /\ c.from <= opened
      BY DEF Ledger, Times
    <3>3. c.counts \subseteq CountsOf(InMemory)
      BY CountsMember
    <3>4. new.counts \subseteq counted
      BY <1>5, <2>4 DEF Ledger, Progress
    <3> QED BY <2>4, <3>1, <3>2, <3>3, <3>4 DEF Ledger, Window
  <2>7. With(q, stored) = With(queue, stored)
    <3>1. Len(q) = Len(queue)
      BY <1>1, EncodingsFacts
    <3>2. \A i \in 1..Len(queue) : Encoded(q[i]) = Encoded(queue[i])
      BY <1>1, EncodingsFacts, EncodedFacts
    <3> QED BY <3>1, <3>2 DEF With
  <2>8. \A e \in new.counts : \A x \in e.of :
          \/ Counted(x) \in new.counts \/ Counted(x) \in writtenOff
          \/ \E b \in With(q, stored) : Counted(x) \in b.counts
    BY <1>5, <2>4, <2>7, SameCounts DEF Ledger, Progress
  <2>9. Sound(Append(q, new), stored, writtenOff)
    BY <1>1, <1>2, <1>3, <2>4, <2>6, <2>8, SoundGrows
  <2> QED BY <2>3, <2>9
<1> QED BY <1>4, <1>5

LEMMA SaveLiveKeeps ==
  ASSUME Types, Ledger, Running, SaveLive
  PROVE  Ledger'
<1>1. /\ UNCHANGED <<wall, counted, sessions, opened, queue, live, dropped, discarded, qfile,
                     stored, torn, writtenOff>>
      /\ pc = "saveLive"
  BY DEF SaveLive, clocks, recorder, buffer, backend
<1>2. InMemory' = InMemory /\ Accounted' = Accounted /\ Mirror' = Mirror
  BY <1>1 DEF InMemory, Accounted, Mirror
<1>3. pc' # "taken"
  BY DEF SaveLive, Running
<1>4. Window' /\ Progress' /\ Taken' /\ Losses'
  BY <1>1, <1>2, <1>3 DEF Ledger, Window, Progress, Taken, Losses
<1>5. Mirrored'
  BY <1>1, <1>2 DEF SaveLive, Ledger, Mirrored
<1>6. ASSUME lfile' = [i \in 1..Len(live) |-> Encoded(live[i])],
             behind' = IF behind = "live" THEN "none" ELSE behind,
             durable' = durable \union OnDisk'
      PROVE  Ledger'
  <2>1. /\ CountsOf(ToSet(lfile')) = CountsOf(ToSet(live))
        /\ CountsOf(ToSet(live)) \subseteq counted
        /\ \A b \in ToSet(lfile') : b.end.wall <= wall /\ b.from <= wall
    BY <1>6, LiveFile
  <2>2. OnDisk' = CountsOf(ToSet(qfile.buckets)) \union CountsOf(ToSet(live))
    BY <1>1, <2>1, CountsUnion DEF OnDisk
  <2>3. CountsOf(ToSet(qfile.buckets)) \subseteq durable
    BY CountsUnion DEF OnDisk, Ledger, Outlives
  <2>4. Times'
    BY <1>1, <1>2, <2>1 DEF Ledger, Times, InFiles
  <2>5. Conversations'
    <3>1. \A e \in Accounted' \union durable' : e \in Accounted \union durable
      BY <1>2, <1>6, <2>1, <2>2, <2>3 DEF Accounted
    <3> QED BY <1>1, <1>2, <3>1, ConversationsKept DEF Ledger
  <2>6. Outlives'
    <3>1. durable' \subseteq Accounted'
      BY <1>2, <1>6, <2>1, <2>2, <2>3 DEF Ledger, Outlives, Accounted
    <3>2. durable' \intersect counted \subseteq CountsOf(ToSet(live))
      BY <1>6, <2>2, <2>3 DEF Ledger, Outlives
    <3>3. ASSUME behind' # "queue" PROVE durable' \subseteq OnDisk' \union CountsOf(stored) \union writtenOff
      <4>1. qfile = Mirror /\ writtenOff = discarded
        BY <1>1, <1>6, <3>3 DEF Ledger, Mirrored
      <4>2. CountsOf(ToSet(qfile.buckets)) = CountsOf(ToSet(queue))
        BY <4>1, MirrorFacts
      <4>3. Accounted = counted \union discarded \union CountsOf(ToSet(queue)) \union CountsOf(stored)
        BY CountsUnion DEF Accounted, InMemory
      <4> QED BY <1>2, <2>2, <3>1, <3>2, <4>1, <4>2, <4>3
    <3> QED BY <1>1, <1>6, <2>1, <3>1, <3>2, <3>3 DEF Outlives
  <2>7. Sendable'
    <3> SUFFICES ASSUME ~torn, behind' = "none" PROVE Sound(Loaded', stored, writtenOff)
      BY <1>1 DEF Ledger, Sendable
    <3>1. qfile = Mirror /\ writtenOff = discarded
      BY <1>1, <1>6 DEF Ledger, Mirrored
    <3> QED BY <1>1, <1>6, <3>1, SaveLiveSendable
  <2> QED BY <1>4, <1>5, <2>4, <2>5, <2>6, <2>7 DEF Ledger
<1>7. ASSUME UNCHANGED <<lfile, behind, durable>>
      PROVE  Ledger'
  <2>1. OnDisk' = OnDisk /\ InFiles' = InFiles /\ Loaded' = Loaded
    BY <1>1, <1>7 DEF OnDisk, InFiles, Loaded
  <2>2. Times' /\ Conversations'
    BY <1>1, <1>2, <1>7, <2>1 DEF Ledger, Times, Conversations
  <2>3. Outlives' /\ Sendable'
    BY <1>1, <1>2, <1>7, <2>1 DEF Ledger, Outlives, Sendable
  <2> QED BY <1>4, <1>5, <2>2, <2>3 DEF Ledger
<1> QED BY <1>6, <1>7 DEF SaveLive

LEMMA FilesKeeps ==
  ASSUME Types, Ledger, Files
  PROVE  Ledger'
<1> DEFINE n == Len(Batch)
           batch == {Encoded(queue[i]) : i \in 1..n}
<1>1. /\ UNCHANGED <<wall, counted, sessions, opened, queue, live, dropped, discarded, qfile, lfile,
                     behind, durable, writtenOff, torn>>
      /\ pc = "asked" /\ pc' = "taken"
      /\ stored' = stored \union {Encoded(b) : b \in ToSet(Batch)}
  BY DEF Files, BackendTakes, Fail, Rest, clocks, recorder, buffer, files, history
<1>2. n \in 0..Len(queue) /\ \A i \in 1..n : i \in 1..Len(queue)
  BY BatchFacts
<1>3. stored' = stored \union batch
  BY <1>1, BatchFacts
<1> HIDE DEF n
<1>4. queue \in Seq(Bucket) /\ stored \subseteq Bucket
  BY Buckets
<1>5. ASSUME NEW b \in batch
      PROVE  \E c \in ToSet(queue) : b.counts = c.counts /\ b.from = c.from
                                     /\ b.end.wall = c.end.wall
  <2>1. PICK i \in 1..n : b = Encoded(queue[i])
    OBVIOUS
  <2>2. queue[i] \in Bucket /\ queue[i] \in ToSet(queue)
    BY <1>2, <1>4, SetOf
  <2> QED BY <2>1, <2>2, EncodedFacts
<1> HIDE DEF batch
<1>6. InMemory' = InMemory \union batch /\ InFiles' = InFiles
  BY <1>1, <1>3 DEF InMemory, InFiles
<1>7. CountsOf(InMemory') = CountsOf(InMemory)
  <2>1. CountsOf(batch) \subseteq CountsOf(ToSet(queue))
    BY <1>5, CountsMember
  <2>2. CountsOf(InMemory) = CountsOf(ToSet(queue)) \union CountsOf(stored)
    BY CountsUnion DEF InMemory
  <2>3. CountsOf(InMemory') = CountsOf(InMemory) \union CountsOf(batch)
    BY <1>6, CountsUnion
  <2> QED BY <2>1, <2>2, <2>3
<1>8. /\ Accounted' = Accounted /\ OnDisk' = OnDisk /\ Mirror' = Mirror /\ Batch' = Batch
      /\ Loaded' = Loaded
  BY <1>1, <1>7 DEF Accounted, OnDisk, Mirror, Batch, Loaded
<1>9. Times'
  <2>1. \A b \in InMemory' : \E c \in InMemory : b.from = c.from /\ b.end.wall = c.end.wall
    BY <1>5, <1>6 DEF InMemory
  <2> QED BY <1>1, <1>6, <2>1 DEF Ledger, Times
<1>10. Conversations' /\ Window' /\ Progress' /\ Mirrored'
  BY <1>1, <1>7, <1>8 DEF Ledger, Conversations, Window, Progress, Mirrored
<1>11. Taken'
  BY <1>1, <1>3, <1>8 DEF Taken, n, batch
<1>12. Outlives'
  <2>1. CountsOf(stored) \subseteq CountsOf(stored')
    BY <1>3, CountsUnion
  <2> QED BY <1>1, <1>8, <2>1 DEF Ledger, Outlives
<1>13. Losses'
  BY <1>1, <1>3, <1>6 DEF Ledger, Losses, Recorded
<1>14. Sendable'
  <2> SUFFICES ASSUME ~torn
               PROVE  /\ Sound(queue, stored', discarded)
                      /\ behind = "none" => Sound(Loaded, stored', writtenOff)
    BY <1>1, <1>8 DEF Sendable
  <2>1. Sound(queue, stored', discarded)
    BY <1>2, <1>3, <1>4, SoundFiles DEF Ledger, Sendable, batch
  <2>2. ASSUME behind = "none" PROVE Sound(Loaded, stored', writtenOff)
    <3>1. qfile = Mirror /\ Sound(Loaded, stored, writtenOff)
      BY <1>1, <2>2 DEF Ledger, Mirrored, Sendable
    <3> PICK q, m, l : q = Loaded /\ m = Encodings(queue) /\ l = lfile
      OBVIOUS
    <3>2. m \in Seq(Bucket) /\ Len(m) = Len(queue) /\ \A i \in 1..Len(queue) : m[i] = Encoded(queue[i])
      BY <1>4, EncodingsFacts
    <3>3. q = m \o l /\ l \in Seq(Bucket)
      BY <3>1, MirrorFacts, Buckets DEF Loaded
    <3>4. q \in Seq(Bucket) /\ Len(q) >= Len(m) /\ \A i \in 1..Len(m) : q[i] = m[i]
      BY <3>2, <3>3
    <3>5. n \in 0..Len(q)
      BY <1>2, <1>4, <3>2, <3>4
    <3>6. \A i \in 1..n : Encoded(q[i]) = Encoded(queue[i])
      <4> SUFFICES ASSUME NEW i \in 1..n PROVE Encoded(q[i]) = Encoded(queue[i])
        OBVIOUS
      <4>1. i \in 1..Len(queue) /\ queue[i] \in Bucket
        BY <1>2, <1>4, SetOf
      <4>2. q[i] = Encoded(queue[i])
        BY <3>2, <3>4, <4>1
      <4> QED BY <4>1, <4>2, EncodedFacts
    <3>7. batch = {Encoded(q[i]) : i \in 1..n}
      BY <3>6 DEF batch
    <3> QED BY <1>3, <1>4, <3>1, <3>4, <3>5, <3>7, SoundFiles
  <2> QED BY <2>1, <2>2
<1> QED BY <1>9, <1>10, <1>11, <1>12, <1>13, <1>14 DEF Ledger

LEMMA ForgetsKeeps ==
  ASSUME Types, Ledger, Forgets
  PROVE  Ledger'
<1>a. PICK n : n = Len(Batch)
  OBVIOUS
<1>b. PICK rest : rest = SubSeq(queue, n + 1, Len(queue))
  OBVIOUS
<1>1. /\ UNCHANGED <<wall, counted, sessions, opened, live, dropped, discarded, qfile, lfile, stored,
                     behind, durable, writtenOff, torn>>
      /\ pc = "taken" /\ pc' = "saveQueue"
      /\ queue' = rest
  BY <1>a, <1>b DEF Forgets, Answered, Fail, Rest, clocks, recorder, files, backend, history
<1>2. queue \in Seq(Bucket) /\ stored \subseteq Bucket /\ Len(queue) \in Nat
  BY Buckets, SetOf
<1>3. n \in 0..Len(queue) /\ \A i \in 1..n : Encoded(queue[i]) \in stored
  BY <1>1, <1>a, BatchFacts DEF Ledger, Taken
<1>4. /\ rest \in Seq(Bucket) /\ Len(rest) = Len(queue) - n
      /\ \A i \in 1..Len(rest) : rest[i] = queue[n + i] /\ n + i \in 1..Len(queue)
  BY <1>2, <1>3, <1>b
<1>0. rest \in Seq(Bucket)
  BY <1>4
<1>5. ASSUME NEW c \in ToSet(queue) PROVE c \in ToSet(rest) \/ Encoded(c) \in stored
  <2>1. PICK i \in 1..Len(queue) : c = queue[i]
    BY <1>2, SetOf
  <2>2. CASE i \in 1..n
    BY <1>3, <2>1, <2>2
  <2>3. CASE i \notin 1..n
    <3>1. PICK j : j = i - n
      OBVIOUS
    <3>2. j \in 1..Len(rest) /\ n + j = i
      BY <1>2, <1>3, <1>4, <2>3, <3>1
    <3>3. rest[j] = c
      BY <1>4, <2>1, <3>2
    <3>4. rest[j] \in ToSet(rest)
      BY <1>0, <3>2, SetOf
    <3> QED BY <3>3, <3>4
  <2> QED BY <2>2, <2>3
<1>6. ToSet(rest) \subseteq ToSet(queue)
  <2> SUFFICES ASSUME NEW c \in ToSet(rest) PROVE c \in ToSet(queue)
    OBVIOUS
  <2>1. PICK i \in 1..Len(rest) : c = rest[i]
    BY <1>4, SetOf
  <2>2. n + i \in 1..Len(queue) /\ c = queue[n + i]
    BY <1>4, <2>1
  <2> QED BY <1>2, <2>2, SetOf
<1>7. InMemory' = ToSet(rest) \union stored /\ InMemory' \subseteq InMemory /\ InFiles' = InFiles
  BY <1>1, <1>6 DEF InMemory, InFiles
<1>8. \A c \in InMemory : \E b \in InMemory' : b.counts = c.counts /\ b.losses = c.losses
  <2> SUFFICES ASSUME NEW c \in InMemory
               PROVE  \E b \in InMemory' : b.counts = c.counts /\ b.losses = c.losses
    OBVIOUS
  <2>1. c \in InMemory' \/ Encoded(c) \in InMemory'
    BY <1>5, <1>7 DEF InMemory
  <2> QED BY <2>1, Buckets, EncodedFacts
<1>9. CountsOf(InMemory') = CountsOf(InMemory)
  <2>1. ASSUME NEW e \in CountsOf(InMemory) PROVE e \in CountsOf(InMemory')
    <3>1. PICK c \in InMemory : e \in c.counts
      BY CountsMember
    <3> QED BY <1>8, <3>1, CountsMember
  <2>2. ASSUME NEW e \in CountsOf(InMemory') PROVE e \in CountsOf(InMemory)
    <3>1. PICK c \in InMemory' : e \in c.counts
      BY CountsMember
    <3> QED BY <1>7, <3>1, CountsMember
  <2> QED BY <2>1, <2>2
<1>10. Accounted' = Accounted /\ OnDisk' = OnDisk /\ Loaded' = Loaded
  BY <1>1, <1>9 DEF Accounted, OnDisk, Loaded
<1>11. Times' /\ Conversations' /\ Window' /\ Progress' /\ Mirrored' /\ Taken'
  BY <1>1, <1>7, <1>9, <1>10 DEF Ledger, Times, Conversations, Window, Progress, Mirrored, Taken
<1>12. Outlives'
  BY <1>1, <1>10 DEF Ledger, Outlives
<1>13. Losses'
  BY <1>1, <1>8 DEF Ledger, Losses, Recorded
<1>14. Sendable'
  <2> SUFFICES ASSUME ~torn PROVE Sound(rest, stored, discarded)
    BY <1>1, <1>10 DEF Ledger, Sendable
  <2>1. Thins(rest, queue)
    <3>1. \A i \in 1..Len(rest) : \E k \in 1..Len(queue) : rest[i] = queue[k]
      BY <1>4
    <3>2. ASSUME NEW i \in 1..Len(rest), NEW j \in 1..Len(rest), i < j
          PROVE  \E k, l \in 1..Len(queue) : k < l /\ rest[i] = queue[k] /\ rest[j] = queue[l]
      <4>1. n + i < n + j
        BY <1>3, <3>2
      <4>2. n + i \in 1..Len(queue) /\ n + j \in 1..Len(queue)
        BY <1>4
      <4> QED BY <1>4, <4>1, <4>2
    <3> QED BY <3>1, <3>2 DEF Thins
  <2>2. With(queue, stored) \subseteq With(rest, stored)
    <3> SUFFICES ASSUME NEW b \in With(queue, stored), b \notin stored PROVE b \in With(rest, stored)
      BY DEF With
    <3>1. PICK i \in 1..Len(queue) : b = Encoded(queue[i])
      BY DEF With
    <3>2. queue[i] \in ToSet(rest)
      BY <1>2, <1>5, <3>1, SetOf
    <3>3. PICK j \in 1..Len(rest) : queue[i] = rest[j]
      BY <1>0, <3>2, SetOf
    <3> QED BY <3>1, <3>3 DEF With
  <2>3. Sound(queue, stored, discarded)
    BY DEF Ledger, Sendable
  <2> QED BY <1>2, <1>4, <2>1, <2>2, <2>3, SoundThins
<1> QED BY <1>11, <1>12, <1>13, <1>14 DEF Ledger

LEMMA CountKeeps ==
  ASSUME Types, Ledger, NEW x \in Exchanges, Count(x)
  PROVE  Ledger'
<1> DEFINE ours == {s \in sessions : s.id = Conversation[x]}
           held == UNION {s.held : s \in ours}
<1>1. PICK new : new = [id |-> Conversation[x], last |-> Now, held |-> held \union {x}]
  OBVIOUS
<1>2. /\ counted' = counted \union {Counted(x)} /\ sessions' = (sessions \ ours) \union {new}
      /\ UNCHANGED <<wall, opened, queue, live, dropped, discarded, qfile, lfile, stored, pc,
                     behind, durable, writtenOff, torn>>
  BY <1>1 DEF Count, Touched, clocks, buffer, files, loop, backend, history
<1>3. \A e \in Accounted \union durable : x \notin e.of
  BY DEF Count, Accounted, InMemory
<1>4. Counted(x) \notin Accounted \union durable
  BY <1>3, EntryFacts
<1>5. /\ InMemory' = InMemory /\ InFiles' = InFiles /\ OnDisk' = OnDisk /\ Mirror' = Mirror
      /\ Loaded' = Loaded /\ Batch' = Batch
  BY <1>2 DEF InMemory, InFiles, OnDisk, Mirror, Loaded, Batch
<1>6. Accounted' = Accounted \union {Counted(x)}
  BY <1>2, <1>5 DEF Accounted
<1>7. \A s \in sessions : x \notin s.held
  BY <1>4 DEF Ledger, Conversations
<1>8. Conversations'
  <2>1. new.held = held \union {x}
    BY <1>1
  <2>2. \A y \in held : \E u \in ours : y \in u.held
    OBVIOUS
  <2>3. ours \subseteq sessions
    OBVIOUS
  <2> HIDE DEF ours, held
  <2>4. \A e \in Accounted' \union durable' :
          e.what = "closed" => e \in Accounted \union durable /\ x \notin e.of
    BY <1>2, <1>3, <1>6, EntryFacts
  <2>5. ASSUME NEW s \in sessions \ ours
        PROVE  /\ s.held # {}
               /\ \A y \in s.held :
                    /\ Counted(y) \in Accounted'
                    /\ \A e \in Accounted' \union durable' : e.what = "closed" => y \notin e.of
                    /\ \A t \in sessions' \ {s} : y \notin t.held
    <3>1. /\ s.held # {}
          /\ \A y \in s.held :
               /\ Counted(y) \in Accounted
               /\ \A e \in Accounted \union durable : e.what = "closed" => y \notin e.of
               /\ \A t \in sessions \ {s} : y \notin t.held
      BY <2>5 DEF Ledger, Conversations
    <3>2. ASSUME NEW y \in s.held, NEW t \in sessions' \ {s} PROVE y \notin t.held
      <4>1. CASE t \in sessions
        BY <3>1, <4>1
      <4>2. CASE t \notin sessions
        <5>1. t = new
          BY <1>2, <4>2
        <5>2. y # x
          BY <1>7
        <5>3. y \notin held
          BY <2>2, <2>3, <2>5, <3>1
        <5> QED BY <2>1, <5>1, <5>2, <5>3
      <4> QED BY <4>1, <4>2
    <3> QED BY <1>6, <2>4, <3>1, <3>2
  <2>6. ASSUME NEW y \in new.held
        PROVE  /\ Counted(y) \in Accounted'
               /\ \A e \in Accounted' \union durable' : e.what = "closed" => y \notin e.of
               /\ \A t \in sessions' \ {new} : y \notin t.held
    <3>1. CASE y = x
      BY <1>2, <1>6, <1>7, <2>4, <3>1
    <3>2. CASE y # x
      <4>1. PICK u \in ours : y \in u.held
        BY <2>1, <2>2, <3>2
      <4>2. /\ Counted(y) \in Accounted
            /\ \A e \in Accounted \union durable : e.what = "closed" => y \notin e.of
            /\ \A t \in sessions \ {u} : y \notin t.held
        BY <2>3, <4>1 DEF Ledger, Conversations
      <4>3. \A t \in sessions' \ {new} : t \in sessions \ {u}
        BY <1>2, <4>1
      <4> QED BY <1>6, <2>4, <4>2, <4>3
    <3> QED BY <3>1, <3>2
  <2>7. new.held # {}
    BY <2>1
  <2> QED BY <1>2, <2>5, <2>6, <2>7 DEF Conversations
<1>9. Window'
  <2>1. Counted(x) \notin discarded \union CountsOf(InMemory)
    BY <1>4 DEF Accounted
  <2>2. Counted(x).of = {x}
    BY EntryFacts
  <2> QED BY <1>2, <1>5, <1>6, <2>1, <2>2 DEF Ledger, Window
<1>10. Times' /\ Progress' /\ Mirrored' /\ Taken'
  BY <1>2, <1>5 DEF Ledger, Times, Progress, Mirrored, Taken
<1>11. Outlives' /\ Losses' /\ Sendable'
  BY <1>2, <1>4, <1>5, <1>6 DEF Ledger, Outlives, Losses, Sendable
<1> QED BY <1>8, <1>9, <1>10, <1>11 DEF Ledger

LEMMA RestartKeeps ==
  ASSUME Types, Ledger, Restart
  PROVE  Ledger'
<1>1. /\ wall' = wall + 1 /\ opened' = wall /\ queue' = Loaded /\ dropped' = qfile.dropped
      /\ live' = <<>> /\ counted' = {} /\ sessions' = {} /\ pc' = "opening"
      /\ torn' = (torn \/ behind # "none")
      /\ durable' = IF behind = "queue" THEN OnDisk ELSE durable
      /\ discarded' = writtenOff /\ behind' = "none"
      /\ UNCHANGED <<qfile, lfile, stored, writtenOff>>
  BY DEF Restart, files, backend
<1>2. qfile.buckets \in Seq(Bucket) /\ lfile \in Seq(Bucket) /\ Loaded \in Seq(Bucket)
  <2>1. qfile.buckets \in Seq(Bucket) /\ lfile \in Seq(Bucket)
    BY Buckets
  <2> QED BY <2>1 DEF Loaded
<1>3. ToSet(Loaded) = InFiles
  <2> PICK p, q, r : p = qfile.buckets /\ q = lfile /\ r = Loaded
    OBVIOUS
  <2>1. /\ p \in Seq(Bucket) /\ q \in Seq(Bucket) /\ r \in Seq(Bucket)
        /\ r = p \o q
    BY <1>2 DEF Loaded
  <2>2. /\ Len(r) = Len(p) + Len(q) /\ Len(p) \in Nat /\ Len(q) \in Nat
        /\ \A i \in 1..Len(p) : r[i] = p[i]
        /\ \A i \in 1..Len(q) : r[Len(p) + i] = q[i]
    BY <2>1
  <2>3. ASSUME NEW b \in ToSet(r) PROVE b \in ToSet(p) \union ToSet(q)
    <3>1. PICK i \in 1..Len(r) : b = r[i]
      BY <2>1, SetOf
    <3>2. CASE i \in 1..Len(p)
      BY <2>1, <2>2, <3>1, <3>2, SetOf
    <3>3. CASE i \notin 1..Len(p)
      <4>1. PICK j \in 1..Len(q) : i = Len(p) + j
        <5>1. i - Len(p) \in 1..Len(q) /\ i = Len(p) + (i - Len(p))
          BY <2>2, <3>3
        <5> QED BY <5>1
      <4>2. b = q[j]
        BY <2>2, <3>1, <4>1
      <4> QED BY <2>1, <4>2, SetOf
    <3> QED BY <3>2, <3>3
  <2>4. ASSUME NEW b \in ToSet(p) PROVE b \in ToSet(r)
    <3>1. PICK i \in 1..Len(p) : b = p[i]
      BY <2>1, SetOf
    <3>2. i \in 1..Len(r) /\ b = r[i]
      BY <2>2, <3>1
    <3> QED BY <2>1, <3>2, SetOf
  <2>5. ASSUME NEW b \in ToSet(q) PROVE b \in ToSet(r)
    <3>1. PICK i \in 1..Len(q) : b = q[i]
      BY <2>1, SetOf
    <3>2. Len(p) + i \in 1..Len(r) /\ b = r[Len(p) + i]
      BY <2>2, <3>1
    <3> QED BY <2>1, <3>2, SetOf
  <2> QED BY <2>3, <2>4, <2>5 DEF InFiles
<1>4. InMemory' = InFiles \union stored /\ InFiles' = InFiles /\ OnDisk' = OnDisk /\ Loaded' = Loaded
  BY <1>1, <1>3 DEF InMemory, InFiles, OnDisk, Loaded
<1>5. Accounted' = OnDisk \union CountsOf(stored) \union writtenOff
  BY <1>1, <1>4, CountsUnion DEF Accounted, OnDisk, InFiles
<1>6. Times'
  <2>1. wall \in Nat /\ opened \in Nat
    BY DEF Types, LoopTypes, BufferTypes
  <2>2. \A b \in InFiles \union stored : b.end.wall \in Nat /\ b.from \in Nat
    BY Buckets, BucketFacts DEF InFiles
  <2>3. opened <= wall /\ \A b \in stored : b.end.wall <= opened /\ b.from <= opened
    BY DEF Ledger, Times, InMemory
  <2>4. \A b \in InFiles : b.end.wall <= wall /\ b.from <= wall
    BY DEF Ledger, Times
  <2>5. ToSet(live') = {}
    BY <1>1 DEF ToSet
  <2>6. \A b \in InFiles \union stored : b.end.wall <= wall /\ b.from <= wall
    BY <2>1, <2>2, <2>3, <2>4
  <2>7. \A b \in InFiles : b.end.wall <= wall + 1 /\ b.from <= wall + 1
    BY <2>1, <2>2, <2>4
  <2> QED BY <1>1, <1>4, <2>1, <2>5, <2>6, <2>7 DEF Times
<1>7. Conversations' /\ Window' /\ Progress' /\ Mirrored' /\ Taken'
  BY <1>1 DEF Conversations, Window, Progress, Mirrored, Taken
<1>8. Outlives'
  <2>1. OnDisk \subseteq durable' /\ durable' \subseteq OnDisk \union CountsOf(stored) \union writtenOff
    BY <1>1 DEF Ledger, Outlives
  <2> QED BY <1>1, <1>4, <1>5, <2>1 DEF Outlives
<1>9. Losses'
  <2>1. ToSet(qfile.buckets) \union stored \subseteq InMemory'
    BY <1>4 DEF InFiles
  <2> QED BY <1>1, <2>1 DEF Ledger, Losses, Recorded
<1>10. Sendable'
  BY <1>1, <1>4 DEF Ledger, Sendable
<1> QED BY <1>6, <1>7, <1>8, <1>9, <1>10 DEF Ledger

LEMMA LedgerNext ==
  ASSUME Types, Running, Ledger, [Next]_vars
  PROVE  Ledger'
<1>1. CASE UNCHANGED vars
  <2>1. UNCHANGED <<wall, counted, sessions, opened, queue, live, dropped, discarded, qfile, lfile,
                    stored, pc, behind, durable, writtenOff, torn>>
    BY <1>1 DEF vars, clocks, recorder, buffer, files, loop, backend, history
  <2>2. /\ InMemory' = InMemory /\ InFiles' = InFiles /\ OnDisk' = OnDisk /\ Mirror' = Mirror
        /\ Loaded' = Loaded /\ Batch' = Batch /\ Accounted' = Accounted
    BY <2>1 DEF InMemory, InFiles, OnDisk, Mirror, Loaded, Batch, Accounted
  <2>3. Times' /\ Conversations' /\ Window' /\ Progress' /\ Mirrored' /\ Taken'
    BY <2>1, <2>2 DEF Ledger, Times, Conversations, Window, Progress, Mirrored, Taken
  <2>4. Outlives' /\ Losses' /\ Sendable'
    BY <2>1, <2>2 DEF Ledger, Outlives, Losses, Sendable
  <2> QED BY <2>3, <2>4 DEF Ledger
<1>2. CASE Next
  BY <1>2, Kinds, ClosesKeeps, QuietKeeps, SnapshotKeeps, SaveQueueKeeps, SaveLiveKeeps, FilesKeeps,
     ForgetsKeeps, CountKeeps, RestartKeeps
<1> QED BY <1>1, <1>2

IInv == Types /\ Running /\ Ledger

LEMMA IInvInit == Init => IInv
BY TypesInit, RunningInit, LedgerInit DEF IInv

LEMMA IInvNext == IInv /\ [Next]_vars => IInv'
BY TypesNext, RunningNext, LedgerNext DEF IInv

\* The ledger is an inductive invariant.
THEOREM LedgerKept == Spec => []IInv
BY IInvInit, IInvNext, PTL DEF Spec

-----------------------------------------------------------------------------
(* What follows. *)

\* What was on disk outlives any kill, refusal or failed write until it is reported, and
\* what a bound of the queue cost is declared (save, prune, takeDropped, loadBuffer).
THEOREM NothingIsLostInSilence == Spec => []NoSilentLoss
<1>1. IInv => NoSilentLoss
  <2> SUFFICES ASSUME IInv PROVE NoSilentLoss
    OBVIOUS
  <2>1. CountsOf(Known) = CountsOf(InMemory)
    <3>1. Known = With(queue, stored)
      <4>1. queue \in Seq(Bucket)
        BY Buckets DEF IInv
      <4> QED BY <4>1, SetOf DEF Known, With, ToSet
    <3> QED BY <3>1, SameCounts, CountsMember DEF IInv
  <2>2. durable \subseteq counted \union CountsOf(Known) \union discarded
    BY <2>1 DEF IInv, Ledger, Outlives, Accounted
  <2>3. ASSUME discarded # {} PROVE LossDeclared
    <3>1. CASE dropped > 0
      BY <3>1 DEF LossDeclared
    <3>2. CASE \E b \in InMemory : b.losses > 0
      <4>1. PICK b \in InMemory : b.losses > 0
        BY <3>2
      <4>2. CASE b \in stored
        BY <4>1, <4>2 DEF LossDeclared, Known
      <4>3. CASE b \in ToSet(queue)
        <5>1. b \in Bucket
          BY Buckets DEF IInv, InMemory
        <5>2. Encoded(b).losses > 0 /\ Encoded(b) \in Known
          BY <4>1, <4>3, <5>1, EncodedFacts DEF Known
        <5> QED BY <5>2 DEF LossDeclared
      <4> QED BY <4>1, <4>2, <4>3 DEF InMemory
    <3> QED BY <2>3, <3>1, <3>2 DEF IInv, Ledger, Losses, Recorded
  <2> QED BY <2>2, <2>3 DEF NoSilentLoss
<1> QED BY <1>1, LedgerKept, PTL

\* Nothing is in two of the windows known, and no conversation closes in one before its
\* exchanges, whatever was killed, refused or sent again, unless a kill came between the
\* two writes of a save or after one that failed (collectAt, sweep, loadBuffer).
THEOREM NothingIsReportedTwice == Spec => []NothingTwice
<1>1. IInv => NothingTwice
  <2> SUFFICES ASSUME IInv, ~torn, NEW b \in Known
               PROVE  /\ \A c \in Known \ {b} : b.counts \intersect c.counts = {}
                      /\ \A e \in b.counts : \A x \in e.of :
                           Counted(x) \in discarded
                                          \union CountsOf({c \in Known : c.from <= b.from})
    BY DEF NothingTwice
  <2>1. Known = With(queue, stored)
    <3>1. queue \in Seq(Bucket)
      BY Buckets DEF IInv
    <3> QED BY <3>1, SetOf DEF Known, With, ToSet
  <2>2. Sound(queue, stored, discarded)
    BY DEF IInv, Ledger, Sendable
  <2>3. \A c \in Known \ {b} : b.counts \intersect c.counts = {}
    BY <2>1, <2>2 DEF Sound, Alone
  <2>4. ASSUME NEW e \in b.counts, NEW x \in e.of, Counted(x) \notin discarded
        PROVE  Counted(x) \in CountsOf({c \in Known : c.from <= b.from})
    <3>1. PICK c \in Known : c.from <= b.from /\ Counted(x) \in c.counts
      BY <2>1, <2>2, <2>4 DEF Sound, Closures
    <3>2. c \in {d \in Known : d.from <= b.from}
      BY <3>1
    <3> QED BY <3>1, <3>2, CountsMember
  <2> QED BY <2>3, <2>4
<1> QED BY <1>1, LedgerKept, PTL

\* The backend gets the windows in the order they happened, none reaching into another
\* (next, drain, loadBuffer).
THEOREM WindowsAreFiledInOrder == Spec => OldestFirst
<1>1. IInv /\ [Next]_vars =>
        [~torn' => \A b \in stored' \ stored, s \in stored : s.end.wall <= b.from]_vars
  <2> SUFFICES ASSUME IInv, [Next]_vars, ~torn', NEW b \in stored' \ stored, NEW s \in stored
               PROVE  s.end.wall <= b.from
    OBVIOUS
  <2>1. stored' # stored
    OBVIOUS
  <2>2. Next
    BY <2>1 DEF vars, backend
  <2>3. Files
    <3>1. /\ \A at : ~Closes(at)
          /\ ~Quiet /\ ~Snapshot /\ ~SaveQueue /\ ~SaveLive /\ ~Forgets /\ ~Restart
          /\ \A x \in Exchanges : ~Count(x)
      BY <2>1 DEF Closes, Quiet, Snapshot, SaveQueue, SaveLive, Forgets, Restart, Count, Answered, Fail,
                  Rest, backend
    <3> QED BY <2>2, <3>1, Kinds DEF IInv
  <2>4. stored' = stored \union {Encoded(c) : c \in ToSet(Batch)} /\ torn' = torn
    BY <2>3 DEF Files, BackendTakes, Fail, Rest, history
  <2> DEFINE n == Len(Batch)
             batch == {Encoded(queue[i]) : i \in 1..n}
  <2>5. stored' = stored \union batch /\ n \in 0..Len(queue)
    BY <2>4, BatchFacts DEF IInv
  <2> HIDE DEF n
  <2>6. queue \in Seq(Bucket) /\ stored \subseteq Bucket /\ Sound(queue, stored, discarded)
    BY <2>4, Buckets DEF IInv, Ledger, Sendable
  <2>7. b \in batch \ stored
    BY <2>5
  <2> QED BY <2>5, <2>6, <2>7, SoundFiles
<1> QED BY <1>1, LedgerKept, PTL DEF Spec, OldestFirst

-----------------------------------------------------------------------------
(* Naps. *)

\* Every bucket there is.
Everywhere == InMemory \union InFiles \union ToSet(live)

Dated(b, c) == b.from = c.from /\ b.end.wall = c.end.wall

\* Clocks that run alike tell the loop of every nap: its last turn is dated, what it does
\* without waiting is done at that date, and a nap that no window was closed before is
\* one the loop has not met.
Naps ==
  /\ wall - awake.wall = mono - awake.mono
  /\ pc \in {"opening", "snapshot"} \/ (pc \in {"saveQueue", "saveLive"} /\ after = "snapshot") =>
       awake.wall = wall
  /\ \A nap \in naps :
       /\ nap[1] + SuspendAfter < nap[2] /\ nap[2] <= wall
       /\ opened >= nap[2] \/ nap[1] >= awake.wall
       /\ \A b \in Everywhere : b.end.wall <= nap[1] \/ b.from >= nap[2]

\* A step that closes no window and takes no snapshot has only buckets that were there,
\* encoded or not.
LEMMA OldBuckets ==
  ASSUME Types, Ledger,
         Quiet \/ SaveQueue \/ SaveLive \/ Files \/ Forgets \/ (\E x \in Exchanges : Count(x))
           \/ Restart,
         NEW b \in Everywhere'
  PROVE  \E c \in Everywhere : Dated(b, c)
<1>1. /\ queue \in Seq(Bucket) /\ live \in Seq(Bucket)
      /\ qfile.buckets \in Seq(Bucket) /\ lfile \in Seq(Bucket)
  BY Buckets
<1>2. CASE b \in Everywhere
  BY <1>2 DEF Dated
<1>3. CASE Quiet \/ \E x \in Exchanges : Count(x)
  <2>1. UNCHANGED <<queue, live, qfile, lfile, stored>>
    BY <1>3 DEF Quiet, Count, buffer, files, backend
  <2>2. Everywhere' = Everywhere
    BY <2>1 DEF Everywhere, InMemory, InFiles
  <2> QED BY <1>2, <2>2
<1>4. CASE SaveQueue
  <2>1. UNCHANGED <<queue, live, lfile, stored>> /\ (qfile' = Mirror \/ qfile' = qfile)
    BY <1>4 DEF SaveQueue, buffer, backend
  <2>2. b \in Everywhere \/ (qfile' = Mirror /\ b \in ToSet(Mirror.buckets))
    BY <2>1 DEF Everywhere, InMemory, InFiles
  <2>3. CASE b \in ToSet(Mirror.buckets)
    <3>1. PICK c \in ToSet(queue) : b = Encoded(c)
      BY <2>3, MirrorFacts
    <3>2. c \in Bucket /\ c \in Everywhere
      BY Buckets DEF Everywhere, InMemory
    <3> QED BY <3>1, <3>2, EncodedFacts DEF Dated
  <2> QED BY <1>2, <2>2, <2>3
<1>5. CASE SaveLive
  <2> PICK l : l = Encodings(live)
    OBVIOUS
  <2>1. UNCHANGED <<queue, live, qfile, stored>> /\ (lfile' = l \/ lfile' = lfile)
    BY <1>5 DEF SaveLive, Encodings, buffer, backend
  <2>2. b \in Everywhere \/ (lfile' = l /\ b \in ToSet(l))
    BY <2>1 DEF Everywhere, InMemory, InFiles
  <2>3. CASE b \in ToSet(l)
    <3>1. l \in Seq(Bucket) /\ Len(l) = Len(live) /\ \A i \in 1..Len(live) : l[i] = Encoded(live[i])
      BY <1>1, EncodingsFacts
    <3>2. PICK i \in 1..Len(live) : b = l[i]
      BY <2>3, <3>1, SetOf
    <3>3. live[i] \in ToSet(live) /\ live[i] \in Bucket
      BY <1>1, SetOf
    <3>4. live[i] \in Everywhere
      BY <3>3 DEF Everywhere
    <3> QED BY <3>1, <3>2, <3>3, <3>4, EncodedFacts DEF Dated
  <2> QED BY <1>2, <2>2, <2>3
<1>6. CASE Files
  <2>1. UNCHANGED <<queue, live, qfile, lfile>>
        /\ stored' = stored \union {Encoded(c) : c \in ToSet(Batch)}
    BY <1>6 DEF Files, BackendTakes, Fail, Rest, buffer, files
  <2>2. b \in Everywhere \/ \E c \in ToSet(Batch) : b = Encoded(c)
    BY <2>1 DEF Everywhere, InMemory, InFiles
  <2>3. ASSUME NEW c \in ToSet(Batch), b = Encoded(c) PROVE \E d \in Everywhere : Dated(b, d)
    <3>1. PICK i \in 1..Len(queue) : c = queue[i]
      BY BatchFacts
    <3>2. c \in ToSet(queue) /\ c \in Bucket
      BY <1>1, <3>1, SetOf
    <3>3. c \in Everywhere
      BY <3>2 DEF Everywhere, InMemory
    <3> QED BY <2>3, <3>2, <3>3, EncodedFacts DEF Dated
  <2> QED BY <1>2, <2>2, <2>3
<1>7. CASE Forgets
  <2> PICK n : n = Len(Batch)
    OBVIOUS
  <2>1. UNCHANGED <<live, qfile, lfile, stored>> /\ queue' = SubSeq(queue, n + 1, Len(queue))
    BY <1>7 DEF Forgets, Answered, Fail, Rest, files, backend
  <2>2. n \in 0..Len(queue) /\ Len(queue) \in Nat
    BY <1>1, BatchFacts
  <2>3. ToSet(SubSeq(queue, n + 1, Len(queue))) \subseteq ToSet(queue)
    BY <1>1, <2>2 DEF ToSet
  <2> QED BY <1>2, <2>1, <2>3 DEF Everywhere, InMemory, InFiles
<1>8. CASE Restart
  <2>1. UNCHANGED <<qfile, lfile, stored>> /\ live' = <<>> /\ queue' = Loaded
    BY <1>8 DEF Restart, files, backend
  <2>2. ToSet(Loaded) \subseteq InFiles /\ ToSet(<<>>) = {}
    BY <1>1 DEF Loaded, ToSet, InFiles
  <2>3. b \in InFiles \union stored
    BY <2>1, <2>2 DEF Everywhere, InMemory, InFiles
  <2> QED BY <1>2, <2>3 DEF Everywhere, InMemory
<1> QED BY <1>3, <1>4, <1>5, <1>6, <1>7, <1>8

\* A window that is closed adds its bucket, and a snapshot the bucket in progress.
LEMMA NewBuckets ==
  ASSUME Types, NEW b \in Everywhere'
  PROVE  /\ \A at : Closes(at) => b \in Everywhere \/ (b.from = opened /\ b.end = at)
         /\ Snapshot => b \in Everywhere \/ (b.from = opened /\ b.end.wall = wall)
<1>1. ASSUME NEW at, Closes(at) PROVE b \in Everywhere \/ (b.from = opened /\ b.end = at)
  <2>1. CollectAt(at, wall) /\ at \in Reading /\ wall \in Nat
    BY <1>1 DEF Closes, Types, LoopTypes
  <2>2. ToSet(queue') \subseteq ToSet(queue) \union {Closing(at)}
    BY <2>1, Collected
  <2>3. live' = <<>> /\ ToSet(<<>>) = {}
    BY <2>1 DEF CollectAt, LiveWhenClosed, ToSet
  <2>4. UNCHANGED <<qfile, lfile, stored>>
    BY <1>1 DEF Closes
  <2>5. b \in Everywhere \/ b = Closing(at)
    BY <2>2, <2>3, <2>4 DEF Everywhere, InMemory, InFiles
  <2> QED BY <2>5 DEF Closing
<1>2. ASSUME Snapshot PROVE b \in Everywhere \/ (b.from = opened /\ b.end.wall = wall)
  <2> PICK new : new = [from |-> opened, end |-> Now, counts |-> counted', losses |-> 0]
    OBVIOUS
  <2>1. UNCHANGED <<queue, qfile, lfile, stored>> /\ (live' = live \/ live' = <<new>>)
    BY <1>2 DEF Snapshot, InProgress, files, backend
  <2>2. ToSet(<<new>>) = {new}
    BY DEF ToSet
  <2>3. b \in Everywhere \/ b = new
    BY <2>1, <2>2 DEF Everywhere, InMemory, InFiles
  <2> QED BY <2>3 DEF Now
<1> QED BY <1>1, <1>2

\* No nap yet.
LEMMA NapsInit == Init => Naps
BY DEF Init, Naps

\* What the clocks tell: a loop that did not notice a sleep has met every nap.
LEMMA Noticed ==
  ASSUME Types, Naps, ~Slept, NEW nap \in naps
  PROVE  opened >= nap[2]
<1>1. Now.wall = wall /\ Now.mono = mono /\ wall \in Nat /\ mono \in Nat
  BY NowIsAReading DEF Types, LoopTypes
<1>2. awake.wall \in Nat /\ awake.mono \in Nat /\ awake.mono # NoMono
  BY DEF Types, LoopTypes, Reading, NoMono
<1>3. mono - awake.mono <= SuspendAfter
  BY <1>1, <1>2, BufferAssumption DEF Slept, Since
<1>4. nap[1] \in Nat /\ nap[2] \in Nat
  BY DEF Types, LoopTypes
<1>5. nap[1] + SuspendAfter < nap[2] /\ nap[2] <= wall /\ (opened >= nap[2] \/ nap[1] >= awake.wall)
      /\ wall - awake.wall = mono - awake.mono
  BY DEF Naps
<1> QED BY <1>1, <1>2, <1>3, <1>4, <1>5, BufferAssumption

\* A window closed at a moment after which the loop was awake keeps clear of the naps.
LEMMA ClosesNaps ==
  ASSUME Types, Naps, NEW at, Closes(at), wall' - awake'.wall = mono' - awake'.mono,
         naps' \subseteq naps, pc' = "saveQueue", after' = "snapshot" => awake'.wall = wall,
         \A nap \in naps' : at.wall <= nap[1] \/ opened >= nap[2]
  PROVE  Naps'
<1>1. opened' = wall /\ wall' = wall
  BY DEF Closes, CollectAt
<1>2. ASSUME NEW nap \in naps'
      PROVE  /\ nap[1] + SuspendAfter < nap[2] /\ nap[2] <= wall'
             /\ opened' >= nap[2] \/ nap[1] >= awake'.wall
             /\ \A b \in Everywhere' : b.end.wall <= nap[1] \/ b.from >= nap[2]
  <2>1. nap \in naps /\ nap[2] <= wall /\ wall \in Nat /\ nap[2] \in Nat
    BY DEF Naps, Types, LoopTypes
  <2>2. \A b \in Everywhere' : b.end.wall <= nap[1] \/ b.from >= nap[2]
    BY <2>1, NewBuckets DEF Naps
  <2> QED BY <1>1, <2>1, <2>2 DEF Naps
<1> QED BY <1>1, <1>2 DEF Naps

\* A step that only moves the clocks, or forgets, keeps clear of the naps.
LEMMA OldNaps ==
  ASSUME Types, Ledger, Naps, naps' = naps,
         Quiet \/ SaveQueue \/ SaveLive \/ Files \/ Forgets \/ (\E x \in Exchanges : Count(x))
           \/ Restart,
         NEW nap \in naps'
  PROVE  \A b \in Everywhere' : b.end.wall <= nap[1] \/ b.from >= nap[2]
<1> SUFFICES ASSUME NEW b \in Everywhere' PROVE b.end.wall <= nap[1] \/ b.from >= nap[2]
  OBVIOUS
<1>1. PICK c \in Everywhere : Dated(b, c)
  BY OldBuckets
<1> QED BY <1>1 DEF Naps, Dated

\* A turn of the loop: wake closes the window where the loop last ran.
LEMMA TurnNaps ==
  ASSUME Types, Running, Ledger, Naps, NEW timer \in {"collect", "snapshot", "send"}, Turn(timer)
  PROVE  Naps'
<1>1. Now.wall = wall /\ Now.mono = mono /\ Now \in Reading /\ wall \in Nat /\ mono \in Nat
  BY NowIsAReading DEF Types, LoopTypes
<1>2. awake' = Now /\ UNCHANGED <<wall, mono, qfile, lfile, stored, naps, behind, durable, writtenOff,
                                 torn>>
  BY DEF Turn, clocks, files, backend, history
<1>3. wall' - awake'.wall = mono' - awake'.mono /\ awake'.wall = wall'
  BY <1>1, <1>2
<1>4. awake \in Reading /\ awake.wall <= wall
  BY DEF Types, LoopTypes, Running
<1>5. ASSUME Slept, CollectAt(awake, wall), pc' = "saveQueue" PROVE Naps'
  <2>1. Closes(awake)
    BY <1>2, <1>4, <1>5 DEF Closes
  <2>2. \A nap \in naps : awake.wall <= nap[1] \/ opened >= nap[2]
    BY DEF Naps, Types, LoopTypes, Reading
  <2> QED BY <1>2, <1>3, <1>5, <2>1, <2>2, ClosesNaps
<1>6. ASSUME ~Slept, CollectAt(Now, wall), pc' = "saveQueue" PROVE Naps'
  <2>1. Closes(Now)
    BY <1>1, <1>2, <1>6 DEF Closes
  <2>2. \A nap \in naps : opened >= nap[2]
    BY <1>6, Noticed
  <2> QED BY <1>2, <1>3, <1>6, <2>1, <2>2, ClosesNaps
<1>7. ASSUME ~Slept, pc' = Own(timer), UNCHANGED <<recorder, buffer>> PROVE Naps'
  <2>1. UNCHANGED <<opened, queue, live>> /\ Everywhere' = Everywhere
    BY <1>2, <1>7 DEF recorder, buffer, Everywhere, InMemory, InFiles
  <2>2. \A nap \in naps : opened >= nap[2]
    BY <1>7, Noticed
  <2> QED BY <1>2, <1>3, <2>1, <2>2 DEF Naps
<1> QED BY <1>5, <1>6, <1>7 DEF Turn, Persist

LEMMA NapsNext ==
  ASSUME SleepCounted = {TRUE}, Types, Running, Ledger, Naps, [Next]_vars
  PROVE  Naps'
<1>1. Now.wall = wall /\ Now.mono = mono /\ Now \in Reading /\ wall \in Nat /\ mono \in Nat
      /\ awake.wall \in Nat /\ awake.mono \in Nat
  BY NowIsAReading DEF Types, LoopTypes, Reading
<1>2. CASE \E timer \in {"collect", "snapshot", "send"} : Turn(timer)
  BY <1>2, TurnNaps
<1>3. CASE Open
  <2>1. /\ awake' = Now /\ pc = "opening" /\ pc' = "saveQueue" /\ after' = "idle"
        /\ UNCHANGED <<wall, mono, naps>> /\ Closes(Now)
    BY <1>1, <1>3 DEF Open, Closes, Persist, clocks, files, backend, history
  <2>2. \A nap \in naps : wall <= nap[1] \/ opened >= nap[2]
    BY <2>1 DEF Naps
  <2> QED BY <1>1, <2>1, <2>2, ClosesNaps
<1>4. CASE Stop
  <2>1. /\ naps' = {nap \in naps : nap[2] <= awake.wall} /\ pc' = "saveQueue" /\ after' = "drain"
        /\ UNCHANGED <<wall, mono, awake>> /\ Closes(Now)
    BY <1>1, <1>4 DEF Stop, Closes, Persist, clocks, files, backend
  <2>2. \A nap \in naps' : opened >= nap[2]
    BY <1>1, <2>1, BufferAssumption DEF Naps, Types, LoopTypes
  <2> QED BY <1>1, <2>1, <2>2, ClosesNaps DEF Naps
<1>5. CASE Snapshot
  <2>1. /\ pc = "snapshot" /\ pc' \in {"idle", "saveLive"} /\ (pc' = "saveLive" => after' = "idle")
        /\ UNCHANGED <<wall, mono, awake, opened, naps>>
    BY <1>5 DEF Snapshot, clocks, history
  <2>2. ASSUME NEW nap \in naps PROVE \A b \in Everywhere' : b.end.wall <= nap[1] \/ b.from >= nap[2]
    <3>1. wall <= nap[1] \/ opened >= nap[2]
      BY <2>1 DEF Naps
    <3> QED BY <1>5, <3>1, NewBuckets DEF Naps
  <2> QED BY <1>1, <2>1, <2>2 DEF Naps
<1>6. CASE SaveQueue \/ SaveLive
  <2>1. /\ UNCHANGED <<wall, mono, awake, opened, naps, after>>
        /\ pc \in {"saveQueue", "saveLive"} /\ (pc' = after \/ pc' = "saveLive")
    BY <1>6 DEF SaveQueue, SaveLive, clocks, recorder
  <2>2. after # "opening"
    BY DEF Running
  <2> QED BY <1>6, <2>1, <2>2, OldNaps DEF Naps
<1>7. CASE Enrol \/ Send \/ BackendTakes
  <2>1. /\ UNCHANGED <<wall, mono, awake, opened, naps, after, queue, live, qfile, lfile>>
        /\ pc' \in {"drain", "idle", "stopped", "asked", "taken"}
    BY <1>7 DEF Enrol, Send, BackendTakes, Fail, Rest, clocks, recorder, buffer, files, history
  <2>2. Next
    BY <1>7 DEF Next, Step
  <2>3. Quiet \/ Files
    BY <1>7 DEF Enrol, Send, BackendTakes, Fail, Rest, Quiet, Files, clocks, recorder, buffer, files,
                backend, history, Types, LoopTypes
  <2> QED BY <2>1, <2>3, OldNaps DEF Naps
<1>8. CASE Answered
  <2>1. /\ UNCHANGED <<wall, mono, awake, opened, naps>>
        /\ pc' \in {"idle", "stopped"} \/ (pc' = "saveQueue" /\ after' \in {"idle", "stopped"})
    BY <1>8 DEF Answered, Persist, Fail, Rest, clocks, recorder, history
  <2>2. Quiet \/ Forgets
    BY <1>8 DEF Answered, Persist, Fail, Rest, Quiet, Forgets, clocks, recorder, buffer, files,
                backend, history, Types, LoopTypes
  <2> QED BY <2>1, <2>2, OldNaps DEF Naps
<1>9. CASE \E x \in Exchanges : Count(x)
  <2>1. UNCHANGED <<wall, mono, awake, opened, naps, pc, after>>
    BY <1>9 DEF Count, clocks, loop, history
  <2> QED BY <1>9, <2>1, OldNaps DEF Naps
<1>10. CASE Tick
  <2>1. /\ UNCHANGED <<awake, opened, naps, pc, after>> /\ pc \in {"idle", "asked", "taken"}
        /\ wall' = wall + 1 /\ mono' = mono + 1
    BY <1>10 DEF Tick, Waiting, loop, recorder, history
  <2>2. Quiet
    BY <1>1, <1>10, <2>1 DEF Tick, Quiet, backend, history
  <2>3. \A nap \in naps : nap[2] <= wall'
    BY <1>1, <2>1 DEF Naps, Types, LoopTypes
  <2> QED BY <1>1, <2>1, <2>2, <2>3, OldNaps DEF Naps
<1>11. CASE Sleep
  <2>1. /\ UNCHANGED <<awake, opened, pc, after>> /\ pc \in {"idle", "asked", "taken"}
        /\ wall' = wall + SuspendAfter + 1 /\ mono' = mono + SuspendAfter + 1
        /\ naps' = naps \union {<<wall, wall'>>}
        /\ UNCHANGED <<queue, live, qfile, lfile, stored>>
    BY <1>11 DEF Sleep, Waiting, loop, recorder, buffer, files, backend
  <2>2. Everywhere' = Everywhere
    BY <2>1 DEF Everywhere, InMemory, InFiles
  <2>3. \A b \in Everywhere : b.end.wall <= wall
    <3>1. \A b \in InMemory : b.end.wall \in Nat
      BY Buckets, BucketFacts
    <3> QED BY <1>1, <3>1 DEF Everywhere, Ledger, Times, Types, BufferTypes
  <2>4. ASSUME NEW nap \in naps'
        PROVE  /\ nap[1] + SuspendAfter < nap[2] /\ nap[2] <= wall'
               /\ opened' >= nap[2] \/ nap[1] >= awake'.wall
               /\ \A b \in Everywhere' : b.end.wall <= nap[1] \/ b.from >= nap[2]
    <3>1. CASE nap \in naps
      BY <1>1, <2>1, <2>2, <3>1, BufferAssumption DEF Naps, Types, LoopTypes
    <3>2. CASE nap = <<wall, wall'>>
      BY <1>1, <2>1, <2>2, <2>3, <3>2, BufferAssumption DEF Running
    <3> QED BY <2>1, <3>1, <3>2
  <2> QED BY <1>1, <2>1, <2>4, BufferAssumption DEF Naps
<1>12. CASE Restart
  <2>1. /\ wall' = wall + 1 /\ mono' = 0 /\ awake' = [wall |-> wall', mono |-> 0] /\ opened' = wall
        /\ naps' = naps /\ pc' = "opening"
    BY <1>12 DEF Restart
  <2>2. \A nap \in naps : nap[2] <= wall' /\ opened' >= nap[2]
    BY <1>1, <2>1 DEF Naps, Types, LoopTypes
  <2> QED BY <1>1, <1>12, <2>1, <2>2, OldNaps DEF Naps
<1>13. CASE UNCHANGED vars
  <2>1. UNCHANGED <<wall, mono, awake, opened, naps, pc, after, queue, live, qfile, lfile, stored>>
    BY <1>13 DEF vars, clocks, recorder, buffer, files, loop, backend, history
  <2>2. Everywhere' = Everywhere
    BY <2>1 DEF Everywhere, InMemory, InFiles
  <2> QED BY <2>1, <2>2 DEF Naps
<1> QED BY <1>2, <1>3, <1>4, <1>5, <1>6, <1>7, <1>8, <1>9, <1>10, <1>11, <1>12, <1>13 DEF Next, Step

\* Where the monotonic clock runs while the machine sleeps, no window claims a period in
\* which nothing was watching, in memory, in a file or at the backend (wake, Reopen,
\* collectAt, snapshot).
THEOREM WindowsAreAwake == SleepCounted = {TRUE} => (Spec => []AwakeWindows)
<1> SUFFICES ASSUME SleepCounted = {TRUE} PROVE Spec => []AwakeWindows
  OBVIOUS
<1>1. Naps /\ IInv /\ [Next]_vars => Naps'
  BY NapsNext DEF IInv
<1>2. Naps /\ IInv => AwakeWindows
  <2> SUFFICES ASSUME Naps, IInv, NEW b \in Known \union ToSet(live), NEW nap \in naps
               PROVE  b.end.wall <= nap[1] \/ b.from >= nap[2]
    BY DEF AwakeWindows
  <2>1. PICK c \in Everywhere : Dated(b, c)
    <3>1. CASE b \in stored \union ToSet(live)
      BY <3>1 DEF Dated, Everywhere, InMemory
    <3>2. CASE b \in {Encoded(c) : c \in ToSet(queue)}
      BY <3>2, Buckets, EncodedFacts DEF IInv, Dated, Everywhere, InMemory
    <3> QED BY <3>1, <3>2 DEF Known
  <2> QED BY <2>1 DEF Naps, Dated
<1> QED BY <1>1, <1>2, NapsInit, LedgerKept, PTL DEF Spec

=============================================================================
