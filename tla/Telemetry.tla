----------------------------- MODULE Telemetry -----------------------------
(***************************************************************************)
(* The usage reporter: exchanges are counted into an open window           *)
(* (internal/telemetry/recorder.go), a loop closes a window into a bucket  *)
(* every interval and files the buckets with a backend (reporter.go), and  *)
(* what is not filed is mirrored to two files, one for the queue and one   *)
(* for the window still open (buffer.go).  The exchanges of a conversation *)
(* are also tallied apart, and the tally is counted when the conversation  *)
(* is found idle: in the histograms of the window open then.               *)
(*                                                                         *)
(* The loop is one goroutine.  Exchanges are counted beside it under the   *)
(* recorder's lock, the process may be killed between any two of its       *)
(* steps, a write may fail, and the backend may refuse a batch or take it  *)
(* and never be heard.  A turn of the loop takes no time except where it   *)
(* waits: for a timer and for the backend.                                 *)
(*                                                                         *)
(* A reading of the clock carries a wall and a monotonic time, and Go      *)
(* subtracts the monotonic ones when both readings have one.  A reading    *)
(* that went through a file has only the wall.                             *)
(***************************************************************************)
EXTENDS Integers, FiniteSets, Sequences, SequencesExt, Filters

CONSTANTS
  Exchanges,             \* what is counted, each once
  Conversation,          \* exchange -> the conversation it belongs to
  SessionIdle,           \* SessionIdle, in ticks
  MaxWindowAge,          \* maxWindowAge, in ticks
  MaxBufferedBuckets,    \* maxBufferedBuckets
  MaxBucketsPerRequest,  \* maxBucketsPerRequest
  SuspendAfter,          \* suspendAfter, in ticks
  SleepCounted,          \* whether the monotonic clock runs while the machine sleeps
  MaxTime,               \* bound: ticks of the wall clock
  MaxRestarts,           \* bound: processes after the first
  MaxRefusals,           \* bound: requests the backend fails
  MaxFaults              \* bound: writes that fail

ASSUME BufferAssumption ==
  /\ MaxWindowAge \in Nat
  /\ MaxBufferedBuckets \in Nat \ {0}
  /\ MaxBucketsPerRequest \in Nat \ {0}
  /\ SuspendAfter \in Nat \ {0}
  /\ SessionIdle \in Nat \ {0}
  /\ DOMAIN Conversation = Exchanges
  /\ SleepCounted \in (SUBSET BOOLEAN) \ {{}}

ASSUME TimesAssumption ==
  MaxTime \in Nat /\ MaxRestarts \in Nat /\ MaxRefusals \in Nat /\ MaxFaults \in Nat

VARIABLES
  wall, mono,     \* the clocks
  counted,        \* Recorder.counters: the entries of the open window
  sessions,       \* Recorder.sessions: the conversations that are not closed
  opened,         \* Recorder.start
  snapshotted,    \* Reporter.snapshotted: how much of the window the last snapshot held
  queue, live, dropped,  \* the buffer
  discarded,      \* history: entries of the buckets it gave up
  writtenOff,     \* history: the same, when the queue was last written
  qfile, lfile,   \* its two files
  awake,          \* Reporter.awake
  pc, after,      \* where the loop is, and where it goes once the files are written
  stopping,       \* the context is cancelled
  enrolled,       \* there is an identity file
  stored,         \* the buckets the backend keeps
  behind,         \* history: which file is behind what the process knows
  durable,        \* history: entries that were on disk and must outlive a kill
  torn,           \* history: killed when a file was behind
  naps,           \* history: periods in which the process did not run, except those a
                  \* stop came upon before any turn of the loop
  restarts, refusals, faults

clocks == <<wall, mono>>
recorder == <<counted, sessions, opened, snapshotted>>
buffer == <<queue, live, dropped, discarded>>
files == <<qfile, lfile>>
loop == <<awake, pc, after, stopping>>
backend == <<enrolled, stored>>
history == <<behind, durable, writtenOff, torn, naps>>
bounds == <<restarts, refusals, faults>>
vars == <<clocks, recorder, buffer, files, loop, backend, history, bounds>>

-----------------------------------------------------------------------------
(* Clock readings and buckets. *)

NoMono == -1    \* the monotonic part of a reading that went through a file

Now == [wall |-> wall, mono |-> mono]

\* Time.Sub
Since(now, then) ==
  IF then.mono = NoMono THEN now.wall - then.wall ELSE now.mono - then.mono

Reading == [wall: Nat, mono: Nat \union {NoMono}]

\* What a window counts: an exchange, with all that is counted of it, or a
\* conversation that closed in it, which is the exchanges it held.
Entry == [what: {"exchange", "closed"}, of: SUBSET Exchanges]

Counted(x) == [what |-> "exchange", of |-> {x}]
Closed(s) == [what |-> "closed", of |-> s.held]

Bucket == [from: Nat, end: Reading, counts: SUBSET Entry, losses: Nat]

\* What JSON keeps of a bucket.
Encoded(b) == [b EXCEPT !.end.mono = NoMono]

CountsOf(B) == UNION {b.counts : b \in B}

-----------------------------------------------------------------------------
(* Conversations. *)

\* Recorder.session: the tally of the conversation, opened if there is none, is
\* dated.
Touched(x) ==
  LET ours == {s \in sessions : s.id = Conversation[x]}
      held == UNION {s.held : s \in ours}
  IN  (sessions \ ours) \union {[id |-> Conversation[x], last |-> Now, held |-> held \union {x}]}

Idle(now) == {s \in sessions : Since(now, s.last) >= SessionIdle}

\* Mutant: a conversation that closed is not forgotten.
SweptKept(now) == sessions' = sessions

\* Recorder.sweep: what became of the conversations, and what it counted.
Swept(now) == sessions' = sessions \ Idle(now)
Folded(now) == counted \union {Closed(s) : s \in Idle(now)}

-----------------------------------------------------------------------------
(* The bounds of the queue. *)

Fresh(q, now) == Keep(q, {b \in ToSet(q) : Since(now, b.end) <= MaxWindowAge})

\* buffer.prune: what is too old goes, then the oldest of what is too numerous.
Pruned(q, now) ==
  LET fresh == Fresh(q, now)
      excess == Len(fresh) - MaxBufferedBuckets
  IN IF excess > 0 THEN SubSeq(fresh, excess + 1, Len(fresh)) ELSE fresh

\* Mutant: a subtraction the wrong way round.
DiscardsReversed(q, now) == Len(Pruned(q, now)) - Len(q)

\* Mutant: what is too old is not counted.
DiscardsOfSize(q, now) == Len(Fresh(q, now)) - Len(Pruned(q, now))

Discards(q, now) == Len(q) - Len(Pruned(q, now))

\* buffer.next
Batch == SubSeq(queue, 1, IF Len(queue) < MaxBucketsPerRequest
                            THEN Len(queue) ELSE MaxBucketsPerRequest)

\* Mutant: the last bucket waits for company.
NothingToFileAlone == Len(queue) <= 1

NothingToFile == queue = <<>>

-----------------------------------------------------------------------------
\* setLive(nil)
LiveWhenClosed == <<>>

(***************************************************************************)
(* collectAt: prune, fold the losses into the bucket being closed, sweep,  *)
(* take the counters, queue the bucket, forget the live one.  The next     *)
(* window opens at reopen: where this one closed, or at the wake (Reopen). *)
(***************************************************************************)
CollectAt(at, reopen) ==
  LET kept == Pruned(queue, at)
      closed == [from |-> opened, end |-> at, counts |-> Folded(at),
                 losses |-> dropped + Discards(queue, at)]
      all == Append(kept, closed)
  IN /\ queue' = Pruned(all, at)
     /\ dropped' = Discards(all, at)
     /\ discarded' = discarded \union (CountsOf(ToSet(queue) \union {closed})
                                        \ CountsOf(ToSet(queue')))
     /\ live' = LiveWhenClosed
     /\ Swept(at)
     /\ counted' = {}
     /\ opened' = reopen
     /\ snapshotted' = 0

\* persist, and what the loop does after it.
Persist(next) == pc' = "saveQueue" /\ after' = next

\* Mutant: twice the gap before it is a sleep.
SleptTwiceAsLong == Since(Now, awake) > 2 * SuspendAfter

Slept == Since(Now, awake) > SuspendAfter

\* Where a turn goes on after wake has closed a window: to its own work, or, on
\* the interval, to nothing, for the window has just been closed.
Own(timer) == CASE timer = "collect" -> "idle"
                [] timer = "snapshot" -> "snapshot"
                [] timer = "send" -> "drain"

(***************************************************************************)
(* A timer fires.  wake comes first: a loop that did not run for longer    *)
(* than SuspendAfter closes the window where it last ran.                  *)
(***************************************************************************)
Turn(timer) ==
  /\ pc = "idle"
  /\ timer = "collect" => wall > opened
  /\ awake' = Now
  /\ \/ /\ Slept
        /\ CollectAt(awake, wall)
        /\ Persist(Own(timer))
     \/ /\ ~Slept
        /\ timer = "collect"
        /\ CollectAt(Now, wall)
        /\ Persist("idle")
     \/ /\ ~Slept
        /\ timer # "collect"
        /\ pc' = Own(timer)
        /\ UNCHANGED <<recorder, buffer, after>>
  /\ UNCHANGED <<clocks, files, stopping, backend, history, bounds>>

\* The first bucket of a process; awake is dated after it.
Open ==
  /\ pc = "opening"
  /\ CollectAt(Now, wall)
  /\ Persist("idle")
  /\ awake' = Now
  /\ UNCHANGED <<clocks, files, stopping, backend, history, bounds>>

\* The context is cancelled: the window is closed, one delivery is attempted.  This
\* branch alone does not wake.
Stop ==
  /\ pc = "idle"
  /\ restarts < MaxRestarts
  /\ wall > opened
  /\ CollectAt(Now, wall)
  /\ Persist("drain")
  /\ stopping' = TRUE
  /\ naps' = {nap \in naps : nap[2] <= awake.wall}
  /\ UNCHANGED <<clocks, files, awake, backend, behind, durable, writtenOff, torn, bounds>>

Rest == IF stopping THEN "stopped" ELSE "idle"

\* Recorder.Snapshot: the bucket in progress, the window left open.
InProgress(now) == [from |-> opened, end |-> now, counts |-> Folded(now), losses |-> 0]

\* The idle conversations are swept, then the bucket in progress is written, unless
\* nothing was counted since the last one.
Snapshot ==
  /\ pc = "snapshot"
  /\ Swept(Now)
  /\ counted' = Folded(Now)
  /\ \/ /\ Cardinality(counted') = snapshotted
        /\ pc' = "idle"
        /\ UNCHANGED <<snapshotted, live, after>>
     \/ /\ Cardinality(counted') # snapshotted
        /\ live' = <<InProgress(Now)>>
        /\ snapshotted' = Cardinality(counted')
        /\ pc' = "saveLive"
        /\ after' = "idle"
  /\ UNCHANGED <<clocks, opened, queue, dropped, discarded, files, awake, stopping, backend,
                 history, bounds>>

-----------------------------------------------------------------------------
(* The two files. *)

Mirror == [buckets |-> [i \in 1..Len(queue) |-> Encoded(queue[i])], dropped |-> dropped]

OnDisk == CountsOf(ToSet(qfile.buckets) \union ToSet(lfile))

\* save, its first half.  When it fails, the second is not attempted.
SaveQueue ==
  /\ pc = "saveQueue"
  /\ UNCHANGED lfile
  /\ \/ /\ qfile' = Mirror
        /\ pc' = "saveLive"
        /\ behind' = "live"
        /\ durable' = durable \union OnDisk'
        /\ writtenOff' = discarded
        /\ UNCHANGED <<after, faults>>
     \/ /\ faults < MaxFaults
        /\ faults' = faults + 1
        /\ pc' = after
        /\ behind' = "queue"
        /\ UNCHANGED <<qfile, after, durable, writtenOff>>
  /\ UNCHANGED <<clocks, recorder, buffer, awake, stopping, backend, torn, naps,
                 restarts, refusals>>

\* saveLive, on its own after a snapshot or as the second half of save.
SaveLive ==
  /\ pc = "saveLive"
  /\ UNCHANGED qfile
  /\ pc' = after
  /\ \/ /\ lfile' = [i \in 1..Len(live) |-> Encoded(live[i])]
        /\ behind' = IF behind = "live" THEN "none" ELSE behind
        /\ durable' = durable \union OnDisk'
        /\ UNCHANGED faults
     \/ /\ faults < MaxFaults
        /\ faults' = faults + 1
        /\ UNCHANGED <<lfile, behind, durable>>
  /\ UNCHANGED <<clocks, recorder, buffer, awake, after, stopping, backend, writtenOff, torn,
                 naps, restarts, refusals>>

-----------------------------------------------------------------------------
(* drain. *)

\* A failed request, wherever it failed: the queue is kept, the ladder climbs.
Fail ==
  /\ refusals < MaxRefusals
  /\ refusals' = refusals + 1
  /\ pc' = Rest
  /\ UNCHANGED backend

\* ensureEnrolled, without an identity yet.
Enrol ==
  /\ pc = "drain"
  /\ ~enrolled
  /\ \/ enrolled' = TRUE /\ UNCHANGED <<pc, stored, refusals>>
     \/ Fail
  /\ UNCHANGED <<clocks, recorder, buffer, files, awake, after, stopping, history,
                 restarts, faults>>

Send ==
  /\ pc = "drain"
  /\ enrolled
  /\ pc' = IF NothingToFile THEN Rest ELSE "asked"
  /\ UNCHANGED <<clocks, recorder, buffer, files, awake, after, stopping, backend, history,
                 bounds>>

\* The backend files a batch whole, or refuses it.  A window it has is not filed again:
\* two buckets of one window are the same, no two readings of a real clock being equal.
BackendTakes ==
  /\ pc = "asked"
  /\ \/ /\ stored' = stored \union {Encoded(b) : b \in ToSet(Batch)}
        /\ pc' = "taken"
        /\ UNCHANGED <<enrolled, refusals>>
     \/ Fail
  /\ UNCHANGED <<clocks, recorder, buffer, files, awake, after, stopping, history, restarts,
                 faults>>

\* The answer arrives and the batch is forgotten, or it does not.
Answered ==
  /\ pc = "taken"
  /\ \/ /\ queue' = SubSeq(queue, Len(Batch) + 1, Len(queue))
        /\ Persist(Rest)
        /\ UNCHANGED <<backend, refusals>>
     \/ Fail /\ UNCHANGED <<queue, after>>
  /\ UNCHANGED <<clocks, recorder, live, dropped, discarded, files, awake, stopping, history, restarts,
                 faults>>

-----------------------------------------------------------------------------
(* Around the loop. *)

\* Recorder.Request and its like, from any request, at any moment.
Count(x) ==
  /\ \A e \in counted \union durable \union discarded \union CountsOf(ToSet(queue) \union stored) :
       x \notin e.of
  /\ counted' = counted \union {Counted(x)}
  /\ sessions' = Touched(x)
  /\ UNCHANGED <<clocks, opened, snapshotted, buffer, files, loop, backend, history, bounds>>

Waiting == pc \in {"idle", "asked", "taken"}

\* A tick of a machine that runs: the loop is never held for longer than SuspendAfter.
Tick ==
  /\ Waiting
  /\ wall < MaxTime
  /\ Since(Now, awake) < SuspendAfter
  /\ wall' = wall + 1
  /\ mono' = mono + 1
  /\ UNCHANGED <<recorder, buffer, files, loop, backend, history, bounds>>

\* The machine sleeps, or the process is stopped, for longer than that.
Sleep ==
  /\ Waiting
  /\ wall + SuspendAfter < MaxTime
  /\ wall' = wall + SuspendAfter + 1
  /\ \E running \in SleepCounted : mono' = IF running THEN mono + SuspendAfter + 1 ELSE mono
  /\ naps' = naps \union {<<wall, wall'>>}
  /\ UNCHANGED <<recorder, buffer, files, loop, backend, behind, durable, writtenOff, torn,
                 bounds>>

\* Mutant: what the old process was in the middle of goes first.
LoadedLiveFirst == lfile \o qfile.buckets

\* loadBuffer: the bucket that was never closed is the newest.
Loaded == qfile.buckets \o lfile

(***************************************************************************)
(* The process is killed, or ends after its last report, and a new one     *)
(* starts on what the files hold (loadBuffer, NewRecorder).                *)
(***************************************************************************)
Restart ==
  /\ restarts < MaxRestarts
  /\ wall < MaxTime
  /\ restarts' = restarts + 1
  /\ wall' = wall + 1
  /\ mono' = 0
  /\ queue' = Loaded
  /\ dropped' = qfile.dropped
  /\ live' = <<>>
  /\ counted' = {}
  /\ sessions' = {}
  /\ opened' = wall
  /\ snapshotted' = 0
  /\ awake' = [wall |-> wall', mono |-> 0]
  /\ pc' = "opening"
  /\ after' = "idle"
  /\ stopping' = FALSE
  /\ torn' = (torn \/ behind # "none")
  /\ durable' = IF behind = "queue" THEN OnDisk ELSE durable
  /\ discarded' = writtenOff
  /\ behind' = "none"
  /\ UNCHANGED <<files, backend, writtenOff, naps, refusals, faults>>

-----------------------------------------------------------------------------
Init ==
  /\ wall = 1 /\ mono = 0
  /\ counted = {} /\ sessions = {} /\ opened = 0 /\ snapshotted = 0
  /\ queue = <<>> /\ live = <<>> /\ dropped = 0 /\ discarded = {}
  /\ qfile = [buckets |-> <<>>, dropped |-> 0] /\ lfile = <<>>
  /\ awake = [wall |-> 1, mono |-> 0]
  /\ pc = "opening" /\ after = "idle" /\ stopping = FALSE
  /\ enrolled = FALSE /\ stored = {}
  /\ behind = "none" /\ durable = {} /\ writtenOff = {} /\ torn = FALSE /\ naps = {}
  /\ restarts = 0 /\ refusals = 0 /\ faults = 0

\* What the loop does once a turn has begun.
Step == Open \/ Snapshot \/ SaveQueue \/ SaveLive \/ Enrol \/ Send \/ BackendTakes \/ Answered

Next ==
  \/ Step
  \/ \E timer \in {"collect", "snapshot", "send"} : Turn(timer)
  \/ Stop
  \/ \E x \in Exchanges : Count(x)
  \/ Tick
  \/ Sleep
  \/ Restart

Spec == Init /\ [][Next]_vars

(***************************************************************************)
(* A turn once begun goes on: it is a running goroutine, and its requests  *)
(* have a timeout.  The send timer is armed again after every attempt and  *)
(* select does not pass over a timer that has fired for ever.              *)
(***************************************************************************)
Fairness == WF_vars(Step) /\ SF_vars(Turn("send"))

FairSpec == Spec /\ Fairness

-----------------------------------------------------------------------------
(* What the reporter promises. *)

Known == {Encoded(b) : b \in ToSet(queue)} \union stored

\* Some loss is on the record, or will be with the next bucket (Counters.Dropped).
LossDeclared ==
  \/ dropped > 0
  \/ qfile.dropped > 0
  \/ \E b \in Known \union ToSet(qfile.buckets) : b.losses > 0

\* No exchange and no closing is reported in two windows: not when a batch is sent
\* again, not when the window in progress becomes a bucket, not when a conversation
\* closes in a snapshot, not when a new process files what the old one left; and a
\* conversation is never reported before the exchanges it held (collectAt, sweep,
\* loadBuffer).  A kill between the write of the queue file and that of the live
\* file, or after one of them failed, is what two files cannot survive.
NothingTwice ==
  ~torn => \A b \in Known :
    /\ \A c \in Known \ {b} : b.counts \intersect c.counts = {}
    /\ \A e \in b.counts : \A x \in e.of :
         Counted(x) \in discarded \union CountsOf({c \in Known : c.from <= b.from})

\* What was once on disk is reported, still to be reported, or was given up for a bound,
\* and then a loss is declared: no kill or refusal makes it vanish, no bound makes it
\* vanish in silence (buffer.save, prune, takeDropped).
NoSilentLoss ==
  /\ durable \subseteq counted \union CountsOf(Known) \union discarded
  /\ discarded # {} => LossDeclared

\* No window claims a period in which nothing was watching (wake, Reopen), unless a
\* stop was the first thing the loop saw of the wake.
AwakeWindows ==
  \A b \in Known \union ToSet(live) : \A nap \in naps :
    b.end.wall <= nap[1] \/ b.from >= nap[2]

\* A backend that catches up sees the windows in the order they happened, none
\* reaching into another (drain, next).
OldestFirst ==
  [][~torn' => \A b \in stored' \ stored, s \in stored : s.end.wall <= b.from]_vars

\* What an agent has on disk reaches a backend that recovers, or is given up for a
\* bound, unless the agent is stopped for good.
QueuedIsFiled ==
  \A x \in Exchanges :
    Counted(x) \in CountsOf(ToSet(qfile.buckets))
      ~> Counted(x) \in CountsOf(stored) \union discarded \/ pc = "stopped"

Places == {"opening", "idle", "snapshot", "saveQueue", "saveLive", "drain", "asked", "taken",
           "stopped"}

TypeOK ==
  /\ \A s \in sessions : s.last \in Reading /\ s.held \subseteq Exchanges
  /\ wall \in Nat /\ mono \in Nat
  /\ counted \subseteq Entry /\ opened \in Nat /\ snapshotted \in Nat
  /\ queue \in Seq(Bucket) /\ live \in Seq(Bucket) /\ dropped \in Nat
  /\ qfile.buckets \in Seq(Bucket) /\ qfile.dropped \in Nat /\ lfile \in Seq(Bucket)
  /\ awake \in Reading /\ pc \in Places /\ after \in Places /\ stopping \in BOOLEAN
  /\ enrolled \in BOOLEAN /\ stored \subseteq Bucket
  /\ behind \in {"none", "queue", "live"}
  /\ durable \subseteq Entry /\ discarded \subseteq Entry /\ writtenOff \subseteq Entry
  /\ torn \in BOOLEAN /\ naps \subseteq Nat \X Nat
  /\ restarts \in Nat /\ refusals \in Nat /\ faults \in Nat
=============================================================================
