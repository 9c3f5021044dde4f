# A verification development for the neverseen agent

The agent is a local proxy between a tool that talks to a language model and the
model's provider. It replaces the sensitive values in a request by *tokens*
(`[EMAIL_3]`) or, in fake mode, by *stand-ins* (`contact3@example.org`), keeps
which replacement stands for which original, and puts the originals back into the
answer. This directory holds TLA+ models of the parts of it where order matters,
the TLC configurations that check them and TLAPS proofs of what matters most.
All paths below are relative to the repository (`src/`).

## 1. Inventory

| Component | Where | State it keeps | Operations |
|---|---|---|---|
| Masking pass | `internal/detector/mask.go`, `pkg/pii/token.go` | per request: `byValue`, `minted`, `counts`; per process: one index counter per token prefix | `NewPass`, `Mask`, `render`, `nextIndex`, `Unmask`, `TailLen` |
| Vault | `internal/vault/vault.go` | per session: sealed replacement → original, expiry | `Load`, `Save`/`Merge`, `Forget` |
| Request path | `internal/proxy/proxy.go`, `identifiers.go`, `jsonbody.go` | what each HTTP exchange holds on its stack | `forward`, `maskRequest`, `readBody`, `exemptIdentifiers`, `unmask` |
| Live policy | `internal/detector/policy.go`, `detector.go`, `config.go` | four atomics: catalogue of the loaded countries, switched-off set, substitution mode, secret level | `SetLocales`, `Disable`, `SetSubstitution`, `SetSecretLevel`, `Scan` |
| Policy route | `internal/proxy/policy.go` | `policyMu` | `handlePolicy` |
| Policy file, start-up | `internal/proxy/policyfile.go`, `agent.go` | `~/.neverseen/policy.json` | `applyPolicy`, `persistPolicy`, `writePolicyFile`, `loadPolicyFile`, `DetectorFromEnv` |
| Surfaces | `settings_decisions.js`, `cmd/neverseen/mask.go`, `internal/tray/tray.go`, `status.go` | the state last read from `/healthz` | poll, switch one thing, send the whole state |
| Stand-ins | `pkg/pii/generators.go`, `patterns_{us,fr,gb}.go` | none | `FakeSet.Value`, `Generator.Make` |
| Streaming | `internal/proxy/stream.go`, `reassemble.go` | held-back tail, open block, gathered tool arguments, withheld name | `Read`, `rewrite`, `observe`, `closeBlock`, `flush`, `Close` |
| Scan | `detector.go`, `overlap.go`, `placement.go` | none beyond the call | `patternSpans`, `refinedSpans`, `candidates`, `resolveOverlaps`, `pickFromCluster` |
| Catalogue and checks | `pkg/pii/checksum.go`, `strength.go`, `category.go`, `patterns_*.go` | none | patterns and checks |
| Usage reporter | `internal/telemetry/`, `pkg/telemetry/` | counters of the open window, conversations not closed, queue of undelivered buckets, live snapshot, identity; three files | `collect`, `snapshot`, `drain`, `wake`, `sweep`, `ensureEnrolled`, `Take`, `Reopen` |
| Browser extension relay | `extension/src/`, `internal/proxy/extension.go` | asks awaiting a reply, the session of a page, the tail of a stream | `send`, `neverseenFetch`, `rewrite`, `transform`, `flush`, `handleMask`, `handleUnmask` |
| Extension pages | `options.ts`, `settings.ts`, `guidance.ts` | browser storage | forms |
| Control key | `internal/proxy/controlkey.go` | `~/.neverseen/control.key` | load or make |
| Audit, trace, replay, playground | `audit.go`, `trace.go`, `replay.go`, `playground.go` | trace files | output only |
| Command line, tray shell, installation | `cmd/`, `internal/tray`, `internal/service`, `internal/secure` | unit files | start, stop, install |

**How they interact.** Each request runs in a goroutine of its own. It loads the
session's mapping from the vault, masks the body with a `Pass` over it, saves what
the pass minted, forwards, and when the provider answers loads the mapping again to
expand the answer. Between those points nothing is locked: the vault has a mutex
per call, the counters are atomics, the policy is four atomics. The policy route
changes the policy under all of them, store by store, drops every mapping when the
mode changed, and writes the policy file; the surfaces see it through `/healthz`,
which reads without the lock. At start the file is laid over the environment by
the same `applyPolicy` the route uses. The reporter and the extension hang off the
side: the reporter reads counters the request path increments; the extension calls
`/mask` and `/unmask` over the same vault.

**What is hard.** Requests of one conversation that overlap; a policy change, a
purge or an expiry between two accesses of one request; two policy writers, and
readers of half-written state; a crash between two stores or around the rename; a
start from a file somebody edited; a replacement cut by the events of a stream, in
text or in a tool call's arguments; a value whose boundary is its neighbour's; a relay that
vanishes with an ask, or answers after the page gave it up; an address bar that moves while
an answer streams; counters that do not outlive the process while conversations do; clocks
of which one stops while the machine sleeps. `PROJECT.json` lists each of these at the line
where it bites.

**What makes each part correct.**
- Exchange: a replacement stands for one value and a value keeps one replacement;
  nothing recognised leaves in clear; an answer is expanded to what was sent and
  never to another conversation's data; a mode change takes hold.
- Policy route: what is accepted is what is applied, replied, stored and read back;
  a refusal leaves exactly what it had applied; a locked category is never off; a
  click changes one part; every request is answered.
- Streaming: the same result as the buffered expansion, wherever the stream is cut;
  events stay well-formed; the operator hears of each answer once.
- Scan: every value found, matches disjoint, nothing sensitive lost to a weaker overlap.
- Checks: what an issuer gave out is read, what the agent invents is not.
- Reporter: no activity is counted twice, every loss is counted, windows are ordered.
- Extension: a page's message is masked or refused, never neither; an answer is
  complete, and never restored to a value it did not stand for.

## 2. The modules

| Module | What it is |
|---|---|
| `Exchange` | requests, counters, vault, live policy, restart |
| `Pseudonyms` | the abstract bookkeeping `Exchange` implements |
| `ExchangeProofs` | theorems about `Exchange` |
| `PolicyRoute` | `PUT /policy`, the file, the start, the surfaces |
| `PolicyRouteProofs` | theorems about `PolicyRoute` |
| `Answer` | the answer: streamed or buffered, its tool calls, its trace, its usage |
| `AnswerProofs` | theorems about `Answer`: types, events, reports, the trace |
| `RestorationProofs` | theorems about `Answer`: what the caller has of each block, and what is held back |
| `Scan` | patterns claiming stretches of a text, and the resolution of overlaps |
| `ScanProofs` | theorems about `Scan` |
| `Checks` | the checks on numbers, dates and passwords, with the stand-ins they must refuse |
| `ChecksProofs` | theorems about `Checks`: numbers and dates read and refused, passwords kept |
| `StandIns` | the date generators of fake mode, with their arithmetic |
| `Filters` | a sequence without its unwanted members, as a recursive function |
| `Relay` | the browser extension and the two routes it uses |
| `RelayProofs` | theorems about `Relay`, and lemmas about texts cut by events |
| `Telemetry` | the usage reporter: counters, conversations, queue, files, clocks, backend |
| `TelemetryProofs` | theorems about `Telemetry` |
| `MCExchange`, `MCPolicyRoute`, `MCAnswer`, `MCScan`, `MCChecks`, `MCRelay`, `MCTelemetry` | instances for TLC |

### Exchange

| Variable | Code |
|---|---|
| `mode`, `off`, `locales` | `Detector.policy` (three of its atomics) |
| `purging` | `handlePolicy` between `SetSubstitution` and `vault.Forget` |
| `counter` | `Detector.counters` |
| `vault`, `age` | `Memory.sessions`, with `expires` as ticks since the last save |
| `phase`, `body`, `todo`, `found` | where `maskRequest` is: strings to scan, matches of the string being masked |
| `view`, `minted` | `Pass.byValue`, `Pass.minted` |
| `wire` | the masked body: what was written for which occurrence |
| `seen` | history: what happened around the request |

An action is one access to shared state with the request-local work around it:
`Arrive` (`readBody`, `vault.Load`, `NewPass`), `ScanString` (one `Scan`, under the
catalogue of that moment), `MaskMatch` (exempt, known, or `nextIndex` and `render`,
under the mode of that moment), `SaveAndForward`, `Respond` (`unmask`: load and
expand), and the refusals `RefuseUnreadable` and `SaveFails`. `SetLocales`,
`Disable`, `SetSubstitution` and `Forget` are what the exchange can observe of
the policy route, `Tick` is time and `Restart` a new process. A string of the
body is the set of the values that a pattern could claim in it, each with its category and
country; the strings and matches may be masked in any order, of which the code's
reading order is one. The mint is one action though `nextIndex` and `render` are two
accesses: the index belongs to nobody else once it is handed out, and the mode and
catalogue are read once, after it.

`Shown` is what the expansion of one replacement gives. That an answer may echo any
replacement ever disclosed, not just the ones of its own request, is what
`NeverMisread` quantifies over.

### PolicyRoute

`at[q]` is the store the handler of request `q` does next, `holder` is `policyMu`.
`live` is the detector, `file` the policy file (a document, absent or unreadable),
`env` what the environment configures. `applied`, `refused` and `changed` are the
three results of `applyPolicy`. The stores of `SetLocales`, `Disable`,
`SetSubstitution` and `SetSecretLevel` are four actions, because `/healthz` and the
exchanges read between them; `WriteTemp` and `Rename` are two, because a crash
falls between. `Applied` is `applyPolicy` in one step, as the start runs it on a detector
nobody else sees. A surface reads the parts of `/healthz` one by one and sends what it read with
one part replaced. `shape` says in which modes the entries of the mapping were minted: enough
to state when it may be dropped. `before[q]` is the policy the handler found: history.

### Answer

| Variable | Code |
|---|---|
| `scenario` | the kind of provider, what text and arguments it may send, the session's mapping |
| `source`, `feed` | the provider, and the lines the agent has not read |
| `r`, `out` | the `streamRehydrator` and its `out` buffer |
| `client` | the caller: an SSE client that gathers the text and arguments of each block |
| `trace` | the `responseRecorder` with its `assembleBlocks`, and whether it was filed |
| `arrived` | history: every block as sent |

The provider is external: `SendHead`, `SendBlockStart`, `SendText`, `SendFragment`, `SendBlockStop`,
`SendPing`, `SendTail`, `SendDone` write the events of a stream in the order the two dialects allow, and
`EndOfAnswer` ends it cleanly, between lines or inside one: `PartsOf` says what a break may leave of a line, the
beginning of a name (`CutLine`, withheld like a name), of a data line that shows its field (`TornLine`, not JSON), or of
anything else (`StubLine`, an `id:` line or the first characters of any line, handed on as it is and without an end). What `flush`
writes behind a stub is on the same line (`Joined`). `ReadLine` is one turn of `Read`: `rewrite` with
all it calls (`noteUsage`, the change of block, the tail, the arguments, the withheld name, `observe`) is
the operator `Read`, from a rehydrator and its buffer to the next. `ReadEnd` is the end of the body with
`flush`; `Deliver` and `Finish` hand the buffer and the end to the caller, `HangUp` closes the
body early. `Buffered` is the other branch of `unmask`. Text is a sequence of
characters over an alphabet just large enough for brackets, an index, and stand-ins that begin
one another; `Expanded` is `Expander.Unmask`, `TailLen` is `Expander.TailLen` with `WholeLen`, its
floor. The reference is the buffered expansion of the whole text, and needs no stream. `Garbled(b)` is what the code loses to a stub: a
block without a stop, of an answer whose released event joined one. `HeldOrDelivered` and `RestoredWhole` set such blocks
apart, `SoundEvents` such an event, and the run `answer_torn` is about them.

### Scan

A text is a sequence of pieces: a value a pattern looks for, one with its shape only (the check or
the allowlist refuses it), an end of a word, anything else. `Plain`, `Grouped` and `Refine` are the
three scans of `detector.go`, one match at a time: a match of a grouped expression consumes the
boundary on either side, and the value whose boundary was consumed is looked for behind it
(`Hidden`); a refined one is cut to its account and the scan goes on from there. What a plain expression
finds is an input, `hits`. `Resolve` leaves the reportable candidates; `Open`, `Extend`, `Close` form
a cluster as `resolveOverlaps` does, `Pick` and `Keep` are `pickFromCluster`. The order of a `sort.SliceStable`
is `Before`, with the load order last.

### Checks

One value is written per behaviour: `Issue` by its issuer's rule (check digits by weights, as
the standards write them, where the code takes remainders digit by digit), `Mint` by the agent's
generator, then `Mistype`, `Exchange`, `Group` or `RunInto` change it as people and documents do;
`WriteDate`, `List` and `Type` write dates, the lines of a listing and passwords. `Reads(kind, value)` is what `checksum.go`
says of it: cards, SIREN and SIRET by Luhn, NIR with Corsica, IBAN with the lengths of countries and `TrimToIBAN`, NHS
numbers, NINO, SSN, routing numbers, dates of birth in each notation, IPv4 outside the reserved
ranges, addresses outside the domains kept for documentation, and French postcodes, which the month of a log line
must not follow. A password is typed between quotes (`GenericSecretCheck`), without them (`bare`:
`UnclosedBracketCheck` as well) or behind the scheme of a header (`AuthHeaderCheck`); `References` are the forms of a
variable reference (`Interpolation`); `SecretStrength` is
its strength, of the three the levels ask for. A character is a number; a run of small letters that reads as
"password", as a word of a language or as "oauth" is one character, and so is a word of a domain or of a town.

### StandIns

The dates of birth of all countries draw on one counter; the generator is the one
of the country whose pattern recognised the value. `Make` is the arithmetic of
`isoMonthDay` and of the three ways to write it.

### Relay

| Variable | Code |
|---|---|
| `addr` | `location` of the page, as `pageSession` reads it |
| `calls` | every call of the wrapped `fetch`: what was typed, sent, answered, shown, held back |
| `nextId`, `waiting` | `interceptor.ts`: `nextId`, `waiting` |
| `asks` | messages between page, relay, worker and agent, and the replies |
| `known`, `counter` | the agent: mapping by session, `Detector.counters` |
| `said` | external: which indexes the site has read in a conversation and may echo |

`Send`, `Retry` and `Refuse` are the branches of `neverseenFetch`; `Respond` is the site's answer.
`NextEvent` and `Flush` are `transform` and `flush` of `restore.ts`, with `Rewrite` for both: the last event of an answer may never
have ended (`unended`), `flush` rewrites it like any other and then releases what is held, directly behind it (`joined`). `Stamp` is the relay naming the session
from the address bar *at that moment*, `Fail` everything that can go wrong behind it, `HandleMask` and
`HandleUnmask` the two routes, whose reply may still be lost. `Settle` is the reply, which finds its waiter by id or
nobody; `Timeout` is `ASK_TIMEOUT_MS`, after which the ask goes on by itself. A token is two pieces so that events can
cut it; an original that is put back carries the index it was put back for, so that
a wrong restoration could be told: `Back` writes originals back as the replacement they
were put in for, if they are the right ones, and `ShowsToken` finds a token in a text, keep-alives inside it or not.
What a site generates (`Generated`, `Event`) is text and tokens, one token per answer: `ShapesAssumption` admits any sequence of events made of them, ended or not.

### Telemetry

| Variable | Code |
|---|---|
| `wall`, `mono` | the two parts of `time.Now` |
| `counted`, `opened`, `snapshotted` | `Recorder.counters`, `Recorder.start`, `Reporter.snapshotted` |
| `sessions` | `Recorder.sessions`: each conversation that is not closed, dated, with its tally |
| `queue`, `live`, `dropped` | the fields of `buffer` |
| `qfile`, `lfile` | `buffer.json` and its `.live`; an absent file is an empty one |
| `awake`, `stopping`, `enrolled` | `Reporter.awake`, the cancelled context, the identity file |
| `pc`, `after` | where the loop is, and where it goes once the files are written |
| `stored` | the set of the buckets the backend keeps |
| `behind` | history: which of the two files is behind memory, by a failed write or between two |
| `durable`, `discarded`, `writtenOff`, `torn`, `naps` | history: what was ever on disk, what the bounds made the queue give up (and what of that the file knows), whether a kill came upon a file left behind, the sleeps |

A counter is the set of the exchanges that went into it, and of the conversations found closed, so
that counting twice and losing can be told apart. `Touched` dates the conversation of an exchange,
`Idle` are those `sweep` closes, `Swept` and `Folded` what is left of them and what the window counts of them.
`InProgress(now)` is the bucket of the window that is still open, as `snapshot` builds it; `Fresh` is the loop of `prune`, by `Filters!Keep`.
`Turn(timer)` is one iteration of the `select` with the
`wake` that begins it; `CollectAt` is `collectAt` up to `persist`, which is the two
steps `SaveQueue` and `SaveLive`, for a kill falls between them. `Restart` is a kill at
any point, or the end of a stopped process, with the start of the next (`loadBuffer`,
`NewRecorder`). A bucket read from a file has lost the monotonic part of its reading
(`Encoded`), and its age is measured on the wall clock, as in Go. The backend is modelled
from what its contract asks of it: it takes a batch whole and knows a window again.
Time passes only while the loop waits: for a timer or for the backend. So the two
readings of the clock that a turn takes, one in `wake` and one in `collect`, are one;
in the code a sleep right after a collection makes a window that ends some microseconds before
it starts.

## 3. What is checked

All bounds are constants of a `.cfg` or named in a module (`MaxEvents`, `MaxRestarts`, `TTL`,
`MaxEdits`, `MaxIndex`, `MaxCalls`, `MaxMoves`, `MaxLate`, `MaxTime`, `MaxBlocks`, ...). Requests, answers,
texts and values are used once, so every behaviour of these models ends and the runs do not look
for deadlock; `EveryRequestAnswered` and `EveryCallSettles` cover the deadlocks the code could have.

| Run | Instance | Shows |
|---|---|---|
| `exchange_policy` | 2 requests of 1 conversation, bodies of up to 2 strings, 3 categories, 2 policy changes or ticks, 1 restart | `OneIdentity`, `NothingInClear`, `ModeTakesHold`, refinement of `Pseudonyms`, types |
| `exchange_sessions` | 3 requests, 2 conversations with a value in common, 1 policy change or tick | `NeverMisread`, `OwnEchoExpands`, `OneOriginal` |
| `policy_route` | 2 requests, 1 surface, valid and invalid at every point, 1 restart, 1 hand edit | `ReplyIsWhatWasAsked`, `StoredIsWhole`, `StoredLocalesCurrent`, `LockedStaysMasked`, `MappingFollowsMode`, `OneRequestAtATime`, `OnlyAModeChangeForgets`, types |
| `policy_answered` | 2 requests, 1 surface, under `FairSpec` | `OnlyTheClickedPart`, `EveryRequestAnswered` |
| `answer_restored` | 8 kinds of answer: two dialects and a document, up to 2 blocks and 5 pieces, a break between or inside any lines | `HeldOrDelivered`, `RestoredWhole`, `SoundEvents`, `ReportedOnce`, `TraceVerbatim`, types |
| `scan_resolved` | 6 patterns, every text of up to 4 pieces and those of values and ends of up to 6 | `EveryValueClaimed`, `Settled` |
| `checks_reference` | a few thousand numbers, 309 indexes for stand-ins, 77 dates, some domains and towns, passwords of up to 4 of 20 keys in 3 settings | `IssuedIsRead`, `NobodysIsRefused`, `PasswordIsKept` |
| `relay_restored` | 2 calls of `fetch`, 2 conversations, 1 move of the address, 1 ask that outlives its time-out, answers that end with an event or inside one, under `FairSpec` | `SentIsItsOwnMasked`, `ScreenIsTheAnswer`, `RestoredWhole`, `EveryCallSettles`, types |
| `reporter_ledger` | 1 exchange and its conversation, 4 ticks, a queue of 3, batches of 1, 1 restart, 1 failed request, 1 failed write, under `FairSpec` | `NothingTwice`, `NoSilentLoss`, `AwakeWindows`, `OldestFirst`, `QueuedIsFiled`, types |
| `policy_survives`, `standins_countries`, `answer_torn` | violated on purpose: below | `ChangeSurvivesRestart`, `OneToOne`, `HeldIsReleased` |

*Why the bounds are enough.* Exchange: two values for one replacement need two mints, so two
requests; a save that loses another's entries needs two of one conversation; a leak
from one conversation into another needs a third that tells whether the value was
sent there. A generator that makes one stand-in and then runs out puts the
fallback to tokens within the reach of two requests. A mapping that lives for no tick (`TTL = 0`:
one tick and it has expired) puts load, expiry and save in every order; a longer
life only adds idle ticks. The restart is in `exchange_policy`, where the refinement says what it may do to the bookkeeping; `OneOriginal` and
`NeverMisread` are checked within one life of the process, and proved with any number of restarts.

Policy route: two writers are what a lock is about; a third only waits.
Interesting policies differ in one category that may be switched off, one that may
not, one country there is and one there is not. There is one secret level in the
runs: no guard depends on which one it is, and its store is a step of its own anyway.

Answer: the longest replacement has three characters and a stand-in begins another, so a
replacement can be cut at each of its places, across two pieces or three, and a tail can be
followed by the rest, by something else, by another block, by a keep-alive or by the end; two
blocks are enough for one to be held while another speaks. The kinds of answer spread the
combinations over eight scenarios instead of multiplying them: tokens and stand-ins, text and tool
arguments, with and without `id:` lines, with and without a mapping.

Scan: a stretch meets its neighbours on both sides with four pieces; with six, three values share two
boundaries in a row, where resuming in the wrong place would find them again. The
patterns have equal and unequal scores, credentials with the lowest, and one is switched off. Checks: some digits of
each number vary over a low, a middle and the highest digit, the rest are fixed; every digit is then
mistyped in every way and every neighbouring pair exchanged. The indexes include both sides of the width of
each generator, the edges of its blocks and a run of 300, more than three periods of 97. A password of four
characters reaches every pair of rules; `SegmentMax = 2` in place of the code's 40 puts the longest name in
a chain, and one longer, within four characters, and `Generated = 4` in place of its length for a value that no person
chose puts both sides of it there. Four characters reach three of
the four forms of a reference with a digit inside, and `{{}}` empty; the theorem has no bound.

Relay: a reply taken for another's needs two calls; a second late ask or a third call adds nobody who could be
confused with a third. An answer cuts a token once, with a keep-alive or without, and leaves the beginning of one at the
end of a block or of the stream, whose last event has ended or not.

Reporter: four ticks are enough for three
windows, for a bucket to grow too old (`MaxWindowAge = 2`), for a conversation to fall idle (`SessionIdle = 2`) and to be opened again,
for the queue to overflow before that and for a sleep of two ticks with a window on each side. One exchange is enough to be reported twice or lost; with two the
safety properties were checked as well and hold (3.2 million states), in more time than a run should take.

*Kills and losses.* `NothingTwice` excuses a kill that finds one file behind the other
(`torn`): between the two writes of a save, or after one failed. The order of the writes
prefers counting twice to losing. `NoSilentLoss` admits that a kill after a failed write of the queue
loses what only memory held. `AwakeWindows` leaves out the sleeps that a stop was the first to see:
the branch of `ctx.Done` collects without `wake`, and its window covers them.

*Purges and answers.* `OwnEchoExpands` excuses an answer that is not expanded only
when a purge or an expiry took the entry: after the save for an entry the request
minted, after the load for one it reused. `ModeTakesHold` excuses the entries of a request that was being masked while the
mode changed, for these the code does save after the purge.

*Clicks.* `OnlyTheClickedPart` speaks of clicks made from a view of the present, put together part by part. A
click from a stale view does undo the other change: the route replaces whole states and compares no versions.

*Moves of the address.* The relay names the session when each ask passes it, so an answer may be expanded under
another session than it was masked under. It is then not restored (`RestoredWhole` speaks of answers under
one session), but never restored wrongly: index counters belong to the process and not to a session, so in one life of the agent a
token means nothing anywhere but in its own session. The mutant of `ScreenIsTheAnswer` gives each session its own counter.

*Fairness.* `Exchange` is checked for safety only: no code promises that a provider
answers. `FairSpec` of `PolicyRoute` asks that a handler that can take a step does
(it is a running goroutine: `WF`), and that a request that waits for `policyMu` is
not overtaken for ever (`SF`: Go's mutex hands itself to the longest waiter once
that one has starved for a millisecond). `FairSpec` of `Relay` asks that a timer that is set fires and that a stream
that has arrived is read on (`WF`); nothing is asked of the relay, the worker or the agent, which may
keep an ask for ever. `FairSpec` of `Telemetry` asks that a turn once
begun goes on (`WF`: a goroutine, and requests with a time-out) and that the send
timer gets its turn (`SF`: it is armed again after every attempt, other timers take turns
in between, and `select` chooses at random among those that have fired). The backend fails a bounded number of
requests; nothing is asked of the exchanges, the clock or the other timers.

### Where the code departs from its comments

Each of these is a run that expects a violation.

- `policy_survives`: `applyPolicy` reports `applied` only when the list of countries
  differs (`policyfile.go:242`) and `handlePolicy` stores only then. A click that changes the
  mode, the categories or the level is not in the file, and a restart undoes it, against
  "What a surface changed survives the restart" (`policyfile.go:18`).
- `standins_countries`: with `us` and `fr` (or `gb`) loaded, date index 2 written month
  first and index 29 written day first are both `01/02/1900`. The later entry
  replaces the earlier in the mapping, and answers show the wrong date. Without the
  mixture there is no collision up to the capacity of 336.

- `answer_torn`: when the connection breaks inside a line that is not a data line (an `id:`, or fewer characters than
  `data:`), `rewrite` hands the partial line on without a newline (`stream.go:273`), and `flush` writes the event
  it releases directly behind it (`stream.go:674`). The caller reads one line and loses what was held, or the released event loses its
  name, against "the alternative is losing characters the caller wrote" (`stream.go:666`). Nothing of the kind happens to an
  answer that ends, to a break between lines, or inside a data line or a name.

Others were met while modelling and are not a property of any run:

- The extension has the same at the end of an answer whose last event never ended: `flush` hands it on as it is and enqueues
  the released event behind it (`restore.ts:149-154`), so the beginning of a token that was held is lost on the screen, against
  "Rewritten like any other rather than dropped" (`restore.ts:150`). `ScreenIsTheAnswer` sets exactly this apart (`joined`).

- In a stream, the stand-in `192.0.2.1` followed by a `9` in one piece, where `192.0.2.19` could begin,
  is cut inside and not restored, which the buffered expansion would do, against "a value restored in one is restored in the other"
  (`proxy.go:519`). `WholeLen` guards a stand-in that ends the text, not one that another character follows.
- A tool called without arguments sends no document, and is counted as one that could not be read (`contract.go:361`).
- The input of a tool call in a buffered answer is expanded where it stands, and again with the
  document that holds it (`audit.go:273`).
- An `id:` line that follows a held event is delivered in front of what is released next.
- `Pass.mask` looks a value up by its text, so a value first
  recognised as an address and then as a credential keeps the address's stand-in,
  against "a credential never gets a stand-in" (`mask.go:198`).
- `Forget` between the load and the save of a request loses the
  entries it reused, since only minted ones are saved, against "its own answer still
  expands" (`policy.go:173`).
- Something shaped like an account, with a wrong key, whose greedy span swallows a real account behind it
  takes it along: `Refine` finds no account at its beginning and the scan goes on behind the whole span. `EveryValueClaimed` says so.
- The stand-ins for SIREN and for routing numbers are nine digits that fail the check of their own category and may pass that of the other
  (`frSIRENRe` of `patterns_fr.go:120`, `usRoutingRe` of `patterns_us.go:57`). With `fr` and `us` loaded such a stand-in is recognised as a value of the
  other country and masked a second time, against what is said of stand-ins at `checksum.go:151-155`, `patterns_us.go:102-106`,
  `patterns_fr.go:123-127` and `patterns_gb.go:190`. `NobodysIsRefused` asks each stand-in of its own kind only.
- `wake` subtracts two readings of `time.Now`, and Go subtracts their
  monotonic parts, which stop with the machine on some systems, Linux among them
  (`SleepCounted = {FALSE}`). The sleep is then not noticed, against "delivered as one window over
  the whole night" being what is avoided (`reporter.go:286`). The tests of the
  repository set a clock without a monotonic part. `reporter_ledger` is the
  other case, a clock that runs on (or a process that was stopped rather than put to sleep).
- After a restart the index counters start again, and a token a conversation holds from
  before is minted for another value and expanded to it, against "a token this process
  did not mint … means nothing here" (`token.go:86`).
- A bucket discarded from the queue counts as one loss even when it carries the count of
  earlier ones, so after an outage longer than the queue `Counters.Dropped` is less than
  "windows this agent had to discard" (`contract.go:327`).
- A stop that follows a sleep files a window over it (above). And what is counted while
  the server shuts down, after the loop's last collection, is in no window.
- `ensureEnrolled` refuses to carry on when the identity cannot be stored, so as not to enrol again
  on every heartbeat (`reporter.go:521`); the next attempt finds no identity and enrols again.
- Expired mappings are deleted by the next load or save and by nothing else, so an idle
  agent keeps them in memory (`vault.go:224`), whatever `DefaultTTL`'s comment suggests.
- Two agents that start together write the control key through one temporary name; one of them may
  hold a key the file does not (`controlkey.go:93`).

## 4. What is proved

For every value of the constants that satisfies the named assumptions, with TLAPS. Every safety
property the runs check of `Exchange`, `PolicyRoute`, `Answer`, `Scan`, `Checks`, `Relay` and `Telemetry` is a theorem; three of
them with a hypothesis that the code does not always keep, named where they are listed. Four properties (`HeldOrDelivered`, `RestoredWhole` and
`SoundEvents` of `Answer`, and `ScreenIsTheAnswer` of `Relay`) set apart what the code loses behind a line or an event that never ended (section 3).

**`ExchangeProofs`**, from `CatalogueAssumption`, `BodiesAssumption`,
`BoundsAssumption` and `GeneratorsAssumption`:

- `TypeCorrect`: `Spec => []TypeOK`.
- `OneOriginalHolds`: `Spec => []OneOriginal`. `OneOriginal` is not inductive: it
  says nothing of the indexes still to come. `IInv` adds that every entry minted was
  rendered from an index already handed out (`Indexed`), that no two entries minted
  share a replacement (`OneValue`), and that whatever a session remembers or a pass works
  with was minted (`Accounted`). A mint renders from the index past the counter, two
  indexes never render alike (`RenderingsDisjoint`), so the new entry clashes with none.
- `ExchangeImplementsPseudonyms`: the refinement with `coined <- Coined`,
  `remembered <- vault`, by the same invariant: a mint is a `Coin`, a save a
  `Remember`, a load that finds an expired session or a purge a `Drop`, a restart a
  `StartOver`, everything else a stutter.

`GeneratorsAssumption` says two indexes within the capacity of the generators are
never the same text. **The code does not satisfy it for a deployment that loads
`us` together with `fr` or `gb`** (`StandIns`). For these, and in fake mode, the theorems that
rest on `OneValue` say nothing about dates of birth; for every other deployment, and in token
mode, they apply.

Its second half follows a request from its body to its answer. `BaseInv` adds to `IInv`
that a pass knows one replacement of a value (`Functional`), that a request being masked has
written only what its pass knows (`Written`), and that it writes all it mints (`MintedIsWritten`).

- `RecognisedIsReplaced`: `NothingInClear`. A match that is written back as it stands was exempt.
- `OneValueOneReplacement`: `OneIdentity`, from `Functional` and `Written` while the request is masked; after that nothing writes.
- `NobodyElsesAnswer`: `NeverMisread`. `Sourced` says that what a mapping holds a request of its session has sent: true of what
  a save adds, by `MintedIsWritten`, and of what was there.
- `OwnAnswerExpands`: `OwnEchoExpands`. `Kept` says that what a pass loaded is still held unless a purge or an expiry was noted, and so
  is what a request sent; expansion then finds that entry, and no other by `OneOriginal`.
- `ModeChangeTakesHold`: `ModeTakesHold`. `Shaped` says that what a request minted is in the shape of the mode, unless it was caught by the change.

**`PolicyRouteProofs`**, from `PolicyAssumption`:

- `RouteTypeCorrect`: `Spec => []TypeOK`.
- `LockedNeverOff`: `Spec => []LockedStaysMasked`.
- `AcceptedIsApplied`: `Spec => []ReplyIsWhatWasAsked`.
- `StoredIsAccepted`: `Spec => []StoredIsWhole`.

All four follow from `RInv`: only the holder of the lock is inside the handler
(`OneHandler`), what that handler has stored so far is what its request asks for (`Landed`),
no locked category is off, and a file the agent wrote is a state it was in
(`StoredWasLive`). Without `OneHandler`, `Landed` is not inductive: another handler
could overwrite a part already stored.

Its second half relates a state to an earlier one. `FromBefore` says that the live policy is what the holder
found with the parts it has stored so far; so what the handler noted on the way (the countries differ, the mode differs) is still true
when it acts on it.

- `MappingIsOfTheMode`: `MappingFollowsMode`, with the handlers about to forget set apart (`MappingInv`).
- `LocalesAreStored`: `StoredLocalesCurrent`, with the handlers about to store set apart (`StoredInv`, `NotedIsTold`).
- `RequestsTakeEffectInTurn`: `OneRequestAtATime`; giving back the lock is the only step that moves `Settled`, but for a restart.
- `NothingElseForgets`: `OnlyAModeChangeForgets`.
- `OneClickOnePart`: `OnlyTheClickedPart`, from an invariant of its own, `Current`: a view nobody wrote behind is the live policy, part by part.

**`ScanProofs`**, from `CatalogueAssumption`, `TextsAssumption` and `HitsAssumption`, for any catalogue, any text and any hits:

- `EveryValueIsClaimed`: `EveryValueClaimed`.
- `OverlapsSettled`: `Settled`.

The invariant `SInv` has two halves. While a pattern is scanned, the values before its cursor are claimed and
nothing else is, and no value stands at the cursor that would not be looked for there. While clusters are resolved, what is kept ends before
anything still in play begins, what is picked from a cluster comes before what is left of it, and each match dropped has a winner.

**`ChecksProofs`**, from `BoundsAssumption`, `BodiesAssumption`, `IndicesAssumption`, `TailsAssumption` and `DatesAssumption`:

- `IssuedAreRead`: `Spec => []IssuedIsRead`, and `NobodysAreRefused`: `Spec => []NobodysIsRefused`, for every number of the form of its kind.
  The invariant is `NumberInv`: what was issued is `Right`, what was mistyped, exchanged or minted is `Wrong`. Each of them says there is a
  number of the kind (`Formed`) that passes or breaks its rule (`Rules`) and that the text is this number with separators between
  (`Laid`). Neither property is inductive by itself: that a text is read does not say that it is read with a wrong digit fewer or
  grouped otherwise, as it does not say where its digits are. The argument has three layers. *The rules*, on numbers without separators: what is issued
  passes (`IssuedRuled`: a Luhn digit, a weighted digit modulo 11, keys modulo 97 of the issuer's sum by weights, which `HornerStep`
  shows to be the remainder digit by digit), what is minted does not (`MintRefused`), and a slip breaks it (`SlipsRefused`): doubling
  is one to one and moves no two digits alike but 0 and 9; 11 is prime and the weights differ by one; no power of ten below
  the sixty-eighth is 1 modulo 97, so that nothing of up to thirty-four characters, letters counting for two, makes up for
  the last digit of the key and the first of the account exchanged, which `IBANCheck` moves to the two ends. *The text*: `KeepIs` (what is kept of it is
  the number), `LaidInGroups`, `LaidMistyped` and `LaidExchanged` (a slip in the text is one in the number). *The end of an account*: what is kept
  only grows along a text (`KeptGrows`), so `TrimToIBAN` finds the place of the last character and no earlier one (`AccountEnds`, `TrimsToWhole`).
- `PasswordsAreKept`: `Spec => []PasswordIsKept`. Beside what is typed (`TypedInv`) it needs no invariant of the state; what it needs is
  what the rules return. `DigitIsKept`, `DotIsKept`, `WordIsKept` and `CutIsRefused` go through `GenericSecretCheck` rule by
  rule, one lemma for each promise; what is a reference, in any of its four forms, is set apart (`Interpolation`). That `UnclosedBracketCheck` accepts what closes and refuses what does not is an induction along the value: a bracket that
  is never closed stays on the stack (`LeftOpenRefused`: of its kind the stack has at least what was opened less what was closed
  since), and if anything is on the stack in the end, and the brackets are of one kind, the one it has been non-empty since was never closed (`ClosedAccepted`).

`BodiesAssumption` says what an issuer makes a number of (`Body`): any digits, as many as its kind has; for the national register a letter of Corsica
where one may stand; for an account a country and as many characters as `ibanLengths` has for it. Insurance and routing numbers, social security
numbers, addresses and postcodes have no check digit of their issuer's in the model: there `Body` is what the rule of the kind takes, and `IssuedAreRead` adds
that the groups it is printed in do not matter, and nothing else. `DatesAssumption` asks for dates of the calendar with a year of four figures,
`TailsAssumption` that no two spaces follow an account, where its regular expression ends.

The proofs along a sequence here, in `RelayProofs`, `TelemetryProofs` and `AnswerProofs` are inductions over data. The library's induction
theorems take an operator as a parameter, which the installed provers cannot instantiate; `Induction` says the same of a *set* of
numbers, and follows from `NatLessThanWellFounded`. For this `Keep`, `Expand`, `UnclosedBracketCheck`, sums and remainders are written with recursive
functions and not with recursive operators.

**`RelayProofs`**, from `NamesAssumption`, `MovesAssumption` and `ShapesAssumption`:

- `FlattenFacts`: joining the texts of two sequences of texts is joining all of them. The lemmas after it let a proof cut a text
  where an event cuts it and put it together again.
- `SendsItsOwn`: `Spec => []SentIsItsOwnMasked`. `EInv` says that ids are never given twice, so an id waits for the call that
  asked and what that call had typed (`WaitsRight`); that the agent answers an ask with an index that stands for the value asked
  about (`AsksRight`); and that an index stands for one value in one session (`Counted`), in states to come as well.
- `TypesKept`: `Spec => []TypeOK`, by `EInv` with `Typed`, which needs it: that the site is only ever told an index the agent
  counted follows from what an ask is answered with.
- `ScreenIsWhole`: `Spec => []ScreenIsTheAnswer`, and `RestoredToItsEnd`: `Spec => []RestoredWhole`, for answers of any length cut anywhere,
  their last event ended or not. `ScreenIsTheAnswer` says nothing of a call whose released event joined one that had not (`joined`), and says that only an answer whose last event never ended is one.
  Neither is inductive: while an ask is out, what the call shows and what it holds do not say what the reply will add.
  `Screens` adds what an ask carries and what its reply says: the ask a call waits for carries the tail, with the text of the
  next event unless that is what releases the tail (`AskedNext`); an answered one returns this text with tokens of its session
  replaced and nothing else (`AnswerRight`); and of an answer under one session neither a token is shown nor the beginning of one, unless
  the tail or the end follows (`ScreenRight`, `TokenIn`, `EndsOpen`). That `Expand` returns what `AnswerRight` says is an
  induction along the text. Mappings only grow and an index never changes its meaning (`Counted`), so a reply
  that comes late is as right as one in time.

**`TelemetryProofs`**, from `BufferAssumption`:

- `KeepFacts`: what `Keep` (the loop of `prune`) returns is of the queue, wanted, all that is wanted, in its order, and shorter if
  anything was not wanted.
- `ReporterTyped`: `Spec => []TypeOK`; that no count of losses is negative rests on `KeepFacts`.
- `LedgerKept`: `Spec => []IInv`, where `IInv` is `Types` with the invariants of the loop (`Running`) and the ledger (`Ledger`).
- `NothingIsLostInSilence`: `NoSilentLoss`. `Outlives` says where everything is that must outlive a kill, both in this process and in
  one started now; `Losses` that a loss is on the record in both.
- `NothingIsReportedTwice`: `NothingTwice`, and `WindowsAreFiledInOrder`: `OldestFirst`. `Sendable` says that the queue is sound: no entry is
  in two buckets, a closing comes no earlier than its exchanges, and what the backend has not got is later than what it has;
  and that the queue a process started now would load is sound too. The second half is what makes the first survive a restart. It needs
  to know which file is behind (`Mirrored`), what the open window may count (`Window`, `Conversations`, `Progress`), and
  that the window began after everything else ended (`Times`).
- `WindowsAreAwake`: `AwakeWindows` for `SleepCounted = {TRUE}`, as in the run: with a monotonic clock that stops it is false (above).

**`AnswerProofs`**, from `CharsAssumption`, `TokenCharsAssumption`, `BoundsAssumption` and `ScenariosAssumption`, for any mapping, any pieces and any number of blocks:

- `AnswersTyped`: `Spec => []TypeOK`. That expansion and `TailLen` return texts, and that the tail is not longer than the text, are
  inductions along the text; that a tail is held in a text event and arguments in an event of theirs is `KeptIn`.
- `TraceIsVerbatim`: `Spec => []TraceVerbatim`. Blocks stand in the copy in the order they opened because the provider opens one
  after the other (`BlocksInOrder`) and sends no event before the last has been read (`FeedInOrder`): a block that has not begun
  in the copy has had nothing (`TraceInOrder`). `Copying` is these three with the types.
- `AnswersSound`: `Spec => []SoundEvents`. The caller is looked at as what it will be once the buffer is delivered (`Upcoming`). What the
  agent reads next says what that caller is in the middle of: nothing, an event whose name has been withheld or delivered, or one whose data
  it has (`CallerInOrder`); and what is held goes out whole, under the name it came with (`HeldInOrder`). An `id:` line is
  delivered though its event is held: the caller may be within an event without data (`Midway`), and what is released when the stream
  breaks right there goes out under that id, which is no earlier event's (`Loose`). Where the stream broke inside a line that was handed on, what is released is not claimed to be sound
  (`joined`); that only such a stream has it is part of the property.
- `AnswersReported`: `Spec => []ReportedOnce`. The calls whose arguments arrived are those the operator has been told of and the one
  that is held, whose arguments are held as they arrived (`ToldOrHeld`); the open block is the one the rehydrator thinks
  it is in, of the tool it thinks (`ToolKnown`); so the end of a block, a change of block or the end of the stream tells of exactly that call, and
  the caller, who learns of the end of a block from a line that is written after it, is never first (`StopsTold`).

**`RestorationProofs`**, from the same assumptions, is about the text itself:

- `NothingIsLostInACut`: `Spec => [](Apart(Known) => HeldOrDelivered)`.
- `AnswersAreRestored`: `Spec => []((IF Streams THEN Apart(Known) ELSE Settled) => RestoredWhole)`.

Neither speaks of a block that is `Garbled`: without a stop, in an answer whose released event joined a line cut short. In the invariant the
ending with `joined` is a case of its own (`RestoredInOrder`, `Whole`): the caller's blocks that have a stop are whole, and `JoinedKeeps`
says that what is written behind the stub changes none of their text.

`Apart(known)` says what a mapping must be for a stream to restore what the whole text would: a token is no longer than
`TokenTailLen` looks back, a stand-in has no brackets, and no stand-in ends with what one (itself, too) begins with. Every mapping of
token mode is apart (`TokensAreApart`). In fake mode it is not always: `192.0.2.1` ends with what it begins with, and a text that goes on
behind it in the same piece is cut inside it (section 3). So the hypothesis cannot be left out; it is a condition on the
mapping alone, and puts none on the text, the pieces, or where the connection breaks. The run
has mappings of both kinds: the stand-in `pxp` is not apart, and comes through because its pieces are single characters.
`Settled` is the same for a buffered answer: what a call's arguments are restored to holds nothing more to restore, or else
the second expansion (section 3) changes it. It is true of every document of the run.

The argument has three steps. *Where a text may be cut* (`TailIsSafe`): `Safe(known, front, held)` says that no replacement begins in
`front` and ends in what follows, whatever is still to come; a cut at `TailLen` is always safe when the mapping is apart. *A safe cut
cuts the expansion* (`ExpandedParted`): the expansion of the two together is that of one behind that of the other, by induction
along the walk; and a safe cut of what was held with the next piece is a safe cut of the whole (`SafeGoesOn`). *The state*
(`RestoredInOrder`): of every block the caller, once the buffer is delivered, has an expanded front of what arrived, and the
rest is held (`Fronted`); arguments are held all or not at all (`ArgsDelivered`); what is held is of the block the agent is in
(`HeldInPlace`) and of no block the caller has the end of (`EndsDelivered`). `HeldOrDelivered` alone is not inductive: that the two parts expand to the
whole now does not say they will when a piece more has come, which is what `Safe` is for. It stands on the other invariants of `Answer`
(`Copying`, `HeardInOrder`, `ReportedInOrder`); `DocumentRestored` is the buffered half.

Only model-checked, as they are out of the prover's reach:
`EveryRequestAnswered`, `EveryCallSettles` and `QueuedIsFiled` (liveness under fairness).

## 5. What is not modelled, and why

- In `Exchange`: routing to a provider, headers, recorder calls and logs; the JSON
  round trip; how a pattern recognises a value and how overlaps are resolved (a
  string is the set of its matches: `Scan`); the secret level (it narrows what a
  pattern claims, as `off` does); sealing, except that it may fail; the expansion
  as text (`Answer`).
- In `PolicyRoute`: the control key and the parsing of the body, which come before
  the lock; the recorder's counts; names, groups and order of categories, and the order of
  countries (`orderLocales` makes it canonical, so that comparing lists is comparing sets).
- In `Answer`: a payload the encoder refuses (unreachable, by the code's own comment); the expansion of the other strings of
  an event; compressed answers; timings; several choices of one chat; request traces.
- In `Scan`: the expressions themselves; `looksLikeCode`, the allowlist, the placement rules and the checks,
  which enter as verdicts.
- In `Checks`: the regular expressions; IPv6; the names and the order of categories and groups; the samples the pages show.
- In `Relay`: banner and notes; the key (a refused key is a failed ask); the shapes `acceptAsk` refuses; a mapping that
  cannot be saved; expiry or restart of the agent (`Exchange` has both); a reload of the page; other traffic of the page. The two routes are one
  step each: what happens inside a pass is `Exchange`.
- In `Telemetry`: what else is counted of an exchange (which conversations opened or were active, the figures of the histograms),
  the length of the retry ladder, files that cannot be read, a missing enrolment token,
  an answer to a request that had timed out.
- The usage vocabulary, the extension's pages, configuration, command line, service files, desktop toolkits, replay and playground: no state
  of their own, or pure input and output and wording.
- The control key and two agents on one machine, except as a hazard.

## 6. What could come next

1. An abstract ledger for `Telemetry`, in which every counted exchange is filed or declared lost, with the refinement; `IInv` is most of what its proof needs.
2. The control key: two processes over one directory, with the start of `PolicyRoute`.
3. `StandIns` for the other generators' capacities, over the deployments that do keep the mapping one-to-one.
