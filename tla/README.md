# TLA+ specifications of DeqinActor

DeqinActor is an actor runtime in Go: actors with lock-free mailboxes, a
request/response API with futures, timeouts and circuit breakers, supervision
with restarts, rate limiting, an optional write-ahead log and a gRPC transport.
This directory holds TLA+ models of its concurrent core, TLC configurations that
check them on small instances, and TLAPS proofs of the properties that matter
most. Every definition that stands for code is listed with its source lines in
`PROJECT.json` ("map").

## The system and its parts

| part | state | operations | hard about it | correct when |
|---|---|---|---|---|
| `mailbox/ring.go` | cells (seq, val), head, tail | Enqueue, Dequeue by compare-and-swap | laps, stale tickets, spinning | a cell has one user, FIFO, full/empty answers are right |
| `mailbox/segmented.go` | chain of rings, head, tail, segs | Enqueue links a segment, Dequeue leaves one | three atomics updated one after the other | counter exact, bound kept, nothing stranded |
| `mailbox/mailbox.go` | two lanes, notify, closed, size | Push (three policies, persist hook), Pop, Wait, Close | one wakeup token, close races, urgent lane | no lost wakeup, write-ahead, Close reaches every sender |
| `actor/base_actor.go` | state, done, startOnce, stopOnce | Start, Stop, run, handle | panic recovery, Stop waits for the loop, replay before the loop runs | Stop returns, what was accepted or logged is handled, once |
| `actor/supervisor.go` | children (actor, retries), restarts | Spawn, onFailure, restartChild | a copied entry written back after a sleep | failed children come back, within the retries |
| `actor/registry.go` | byID, byName | Register, Unregister, lookups | Unregister by name | a name leads to the live actor |
| `actor/system.go` | pending, waitTokens, breakers, subscribers | TrackPending, completeFuture, send*, tokens | timer against response | each future completed exactly once |
| `actor/ask.go` | locals of a call | Ask, SyncAsk, SendAsync | degradation, ignored send errors, a Push that blocks before the timeout begins | every call returns unless goroutines wait in a circle, no token leaks |
| `actor/future.go` | done, result, ch, callbacks | complete, OnComplete, Await, Then, All | registration during completion | one value, callbacks exactly once |
| `actor/breaker.go` | state, failures, openedAt, probe | Allow, OnSuccess, OnFailure | four atomics, late reports | one probe, documented transitions, no trap |
| `actor/ratelimit.go` | rate, tokens, lastNS | Allow, Wait, SetQPS, refill | overlapping refills, int64 product | never above rate and burst, never starves |
| `persistence/wal.go` | file | Open, Append, Replay, Close | crashes, short writes, ignored errors | what was appended is replayed, in order |
| `actor/remote.go` | transport (server, connections), locations | EnableRemote, StopRemote, SetLocation, remoteDeliver, conn, Deliver | stop during delivery, lost and late answers, an actor that moves | an acknowledged message has reached the actor, every Tell to a peer returns |

How they interact: `System.Tell`, `sendRequest` and `sendResponse` wait on the
rate limiter and push into the target's mailbox; the target's goroutine
(`BaseActor.run`) pops and calls `handle`. A request's response is pushed into
the mailbox of the asking actor, whose loop looks up the pending table and
completes the future. A panic in a handler is recovered in `handle`, which calls
the supervisor through `notifyFailure` on the failing actor's goroutine, closes
the mailbox and starts a goroutine for `Stop`; the supervisor starts one
goroutine per restart. Shared state is either atomic or under a mutex.

## The modules

Each atomic load, store, add, compare-and-swap, channel operation and mutex
section of the code is one action, named after the method and what it touches
(`EnqCAS`, `PushNotify`, `RestartRecord`); code between two of them touches only
locals and belongs to the action before it. `pc` says where a goroutine is
(`stage` in CircuitBreaker and `step` in TokenBucket).
Operators whose comment says "Variant of X" are faulty forms of X, used to see
that each property can fail.

* **TicketQueue** is the abstract specification of a bounded queue: tickets are
  drawn, published, taken and returned.
* **Ring** is `ring.go`, for any capacity of at least 2. Sequence numbers are
  naturals: their differences equal the code's int64 differences because the
  capacity divides 2^64. `Ring` implements `TicketQueue` (`RefinesTicketQueue`);
  the mapping makes Enqueue take effect at its compare-and-swap on tail and
  Dequeue at the one on head.
* **SegmentedQueue** is `segmented.go` on top of rings at the level of
  `TicketQueue`. `segs` wraps like the code's uint64 (`CountModulus`).
* **Mailbox** is `mailbox.go` with the loop of `BaseActor.run` as its consumer,
  for lanes of one segment, so that what goes wrong in a chain of segments (see
  the findings) does not hide what the mailbox itself does.
* **CircuitBreaker** is `breaker.go` driven by `Ask`; a clock ticks freely.
  The history variable `abandoned` says that a probe was degraded to
  asynchronous and so will never report.
* **Future** is `complete`, `OnComplete` and `Await` of `future.go`.
* **Supervisor** is `supervisor.go` with Start, Stop, the recovery of a panic,
  `notifyFailure` and the registry. `Mailbox.Close` is one step there.
  `Backlog` says how many messages behind the first panicking one panic, too.
* **Ask** is `ask.go` with the pending table, the timers and the wait tokens of
  `system.go` and the request and response branches of `handle`.
  `Future.complete` is one step there, and requests and responses may be lost.
  The mailboxes are two lanes of `Capacity` envelopes; Push tests `closed`, then
  enqueues, and on a full lane waits for room (the actors of `Blocking`) or gives
  up. Stop and the recovery of a panic appear as `Close`. `Timers` says whether
  a caller's timeouts are positive: a negative one starts neither the timer of
  TrackPending nor that of Await. The rate limiter and the breaker admit every
  call.
* **TokenBucket** is `ratelimit.go`; `Half` is the 2^63 at which the product in
  `refill` wraps.
* **WAL** is the format of `wal.go` and the reader of `Replay`, byte by byte,
  as a recursive function of the position: after a write that was cut short the
  reader is out of step with the records, which no abstraction of the file to a
  list of records would show.
* **Actor** is the life cycle of `base_actor.go` on top of that log:
  `NewBaseActor` opens the log, Start replays it into the mailbox, the loop
  handles messages, a handler returns, panics or stops its own actor, Stop
  joins the loop and closes the file, and the next incarnation begins. The
  process may crash in every state, and what Write was given so far stays.
  `file` is the bytes of the log; the histories `disk` and `damaged` say which
  writes they come from and whether the log this Start read had one cut short.
  `todo` is the payloads Start has read; it decodes them one by one. The
  mailbox has one lane here, and `Mailbox.Close` its two steps: Stop and the
  recovery of a panic can both reach `close`, which ends the process. Senders
  hold the actor itself. The policy that drops the newest envelope differs from
  the one that expands by what Push returns, which this module does not record.
* **Remote** is `remote.go` with `Tell` and `deliverToID`. `s.remote` is read
  without a lock, each read in an action of its own; the numbers of transports
  tell the one a delivery holds from the current one. gRPC is external: a call
  is lost, answered, or fails at any time, and the peer may work on one whose
  caller has given up. A connection is named after the Tell that dialled it, so
  that one which is in no table can be told from the cached ones. A local
  delivery ends when its Push does, which is never promised. A refusal of the
  peer carries the text of an error, which `Deliver` never leaves empty, so
  remote.go:186 takes it for one. One goroutine calls EnableRemote and
  StopRemote.
* **\*Proofs** modules extend a component's module and hold its theorems:
  `RingProofs`, `SegmentedQueueProofs`, `MailboxProofs`, `SupervisorProofs`,
  `AskProofs`, `ActorProofs`, `RemoteProofs`. `RequestPathProofs` has those of
  TokenBucket, CircuitBreaker and Future, three small objects a request passes,
  whose modules have no name in common.
* **MC\*** modules extend these for TLC, with symmetry sets where processes are
  interchangeable and no liveness is checked.

## What the runs check

Runs that pass:

| run | instance | properties |
|---|---|---|
| `ring` | 2 producers, 2 consumers, 2 cells, tickets for more than a lap, so that goroutines a lap behind meet those ahead | `TypeOK`, `RingInv` (the inductive invariant of the proofs), `CellExclusive`, `FifoDelivery`, `RefinesTicketQueue` |
| `segments` | 2 producers, 1 consumer, segments of 2, `MaxSeg` 2, 4 sends per producer (fewer cannot fill four segments) | `SegmentInv`: `TypeOK`, `SegAccounting` (the counter equals the live segments up to the calls between a link and its count) and `SegmentBound` (the limit may be exceeded only by producers that link at the same time); `ProducerOrder` |
| `mailbox` | 2 pushers, 1 closer, the three policies, both lanes of 2 slots, every envelope offered to the log | `TypeOK`, `NoLostWakeup`, `SizeAccounting`, `UrgentFirst`, `WriteAhead` |
| `breaker` | 3 callers that race the open time and each other's probe; one of them may degrade; under fairness | `BreakerInv` (`BreakerTypeOK` and `ProbeHasOwner`), `ProbeResolved` |
| `future` | 2 completers, 2 registrations, 2 untimed and 1 timed wait, under fairness | `FutureInv` (`TypeOK`, `OneValue`, `CallbackOnce`, `SendIsSafe`), `EarlyCallbackRuns`, `AwaitReturns` |
| `supervisor` | 2 children, each strategy; under one-for-one 3 panics, more than `MaxRetries` for one child, otherwise one panic; clients that stop children; under fairness | `SupervisorInv` (`TypeOK` and `Supervised`), `RestartBudget`, `NameResolves`, `StoppedIsGone`, `EveryRestartEnds`, `FailureRestarted` |
| `ask` | a goroutine that sends a request, one that asks (with and without degradation, with and without a timeout) and a handler that asks its own actor, whose mailbox blocks and has lanes of one slot; one wait token, two responses per request, losses, Close; under fairness | `AskInv` (`TypeOK` and `OneOwner`), `TokensExact`, `EveryFutureCompletes`, `EveryAskReturns` |
| `bucket` | 2 callers, 1 SetQPS to a higher rate or to none, a product that overflows within the run | `BucketTypeOK`, `RateLimit` |
| `actor` | 2 incarnations, 2 senders and 2 durable messages, a mailbox of one slot (smaller than the log), expanding or blocking; one write cut within the header, after it or within the payload; payloads that a reader out of step takes for lengths; under fairness | `TypeOK`, `ReplaySound`, `OncePerRun`, `OwedIsHandled`, `StopReturns`, `CloseFreesPush` |
| `remote` | a sender of 2 messages and one of 1, an actor here, in a peer or nowhere, 2 transports and 2 moves; calls lost, late and failing; under fairness | `TypeOK`, `NilMeansReached`, `StoppedIsClosed`, `PanicOnlyAtStop`, `TellReturns` |

Runs that find a violation, each of a statement in the code's own documentation
(`PROJECT.json`, "findings", quotes it):

| run | what happens |
|---|---|
| `segments_stranded` | Dequeue leaves a segment that was filled after it looked: an accepted value is never delivered (`NoneStranded`) |
| `supervisor_orphan` | two failures of siblings leave a running actor nobody supervises (`Managed`) |

Several passing properties carry the condition under which the code keeps its
promise, and the condition marks a limit of the code:

* `Supervised`, `RestartBudget` and `NameResolves` assume `NoOverlap`:
  `restartChild` writes back a copy of the entry it made before the backoff, so
  two restarts of one slot lose a child, a count or a name.
* `FailureRestarted` is about recorded actors: a new child that panics between
  its start (supervisor.go:206) and its being recorded (line 210) is ignored.
* `ProbeResolved` and `ProbeHasOwner` except an abandoned probe: `Ask` returns
  `ErrDegradedToAsync` (ask.go:75-78) without a report, and the breaker then
  rejects every call.
* `EarlyCallbackRuns` is about callbacks registered before completion: one that
  is appended after `complete` has taken the list (future.go:45-48), or finds
  `done` set and no result yet (lines 57-62), is never called, although
  future.go:54-55 promises it.
* `OwedIsHandled` ends with Close: a Push that has passed its test of `closed`
  can still enqueue after Close has returned, and the loop may end with
  envelopes queued. It also excepts a Start that is stuck: the log is never
  truncated, and a blocking mailbox that cannot hold it makes Start wait for a
  loop it has yet to start (base_actor.go:110).
* `ReplaySound` allows an error once a payload was cut short, and with it Start
  drops the records before it as well (wal.go:94, base_actor.go:106).
* `OncePerRun` (what is handled was sent, and is handled once) excepts messages
  sent before Start, which are queued by Push and again by Start, and a run
  whose log had a write cut short: a reader out of step may take any bytes for a
  payload, the bytes of a message that was sent once or never included.
* `StopReturns` excepts a handler that stops its own actor, which waits for the
  loop it runs on, and the end of the process: when a handler panics while Stop
  runs, both may close the channel (mailbox.go:121), outside any recover.
* `EveryAskReturns` excepts a caller that is `Stuck`: it belongs to a set of
  goroutines that all wait, and only for each other. `sendRequest` pushes before
  `Await` starts its timer (ask.go:84-85), and Push into a full blocking mailbox
  has no timeout (mailbox.go:164-185). So a handler that asks its own actor, or
  two that ask each other, with full lanes, never return, whatever timeout
  SyncAsk was given (ask.go:34-35), and keep their wait tokens; those who need a
  token wait with them. A handler that responds into its own full lane does the
  same to the callers behind it. Only Close ends it. A caller with a negative
  timeout waits for an answer that may have been lost (future.go:81), and is
  stuck by itself. In the run the handler asks its own actor; the circles of
  several actors have the same form but need more goroutines than TLC can
  follow under fairness.
* `EveryFutureCompletes` is about positive timeouts: with a negative one
  TrackPending starts no timer (system.go:267), and a lost request leaves its
  entry in the table for ever.
* `NilMeansReached` is about reaching the mailbox: Deliver answers OK also when
  the mailbox refuses (remote.go:248). An error from Tell says nothing: the
  message may have been delivered.
* `PanicOnlyAtStop` marks the window of StopRemote: a delivery that has tested
  `s.remote` dereferences nil (remote.go:175), or writes to the nil table
  (remote.go:204).
* `StoppedIsClosed` excepts the connection of that second delivery: it was
  dialled (remote.go:200), is in no table, and stays open for the life of the
  process. The comment of StopRemote, which "closes the gRPC server and all
  client connections" (remote.go:125), says more than the code does.
* `TellReturns` is about Tells that go to a peer: a local delivery returns when
  Push does, and Push into a full blocking mailbox may not.
* `RateLimit` is an upper bound only: when `elapsed * r` overflows
  (ratelimit.go:102) the bucket earns nothing.

Other limits met while modelling, which no property covers: a message that a
full mailbox refuses is in the log all the same, and the next incarnation
handles it; a remote message is never logged by the peer, since the envelope
does not carry Persist; two consumers of a SegmentedQueue can count one segment down twice; in
the half-open state a second probe passes between breaker.go:69 and 70, and a
late success closes an open breaker; a second untimed `Await` gets no value from
the channel; a disabled limiter with a burst below the number of callers can
refuse one.

Deadlock checking is on except where the model may stop: where the bounded
number of calls, pushes or panics is used up.

### Fairness

Weak fairness per goroutine inside a call: the Go scheduler is preemptive, so a
goroutine that can run does run. Starting a call, failing, closing and stopping
are never fair. Handlers are assumed to return, backoffs to end and timers to
fire. A goroutine blocked on the channel of wait tokens gets its turn (strong
fairness of `TakeToken`), since Go queues the senders of a channel. A Push into a full blocking lane looks
again and again, and goes on only if it finds room: in `Ask` its fairness is
weak, so that others could always be faster, but there the calls are bounded
and no lane is refilled for ever. The
compare-and-swap loops of `Ring` and `SegmentedQueue` are lock-free but not
wait-free: one goroutine may lose for ever, so no termination is claimed there,
and `CloseFreesPush` is about a closed mailbox for the same reason. In `Actor`
a Push, a Start, the loop and a Stop that have begun go on, crashes and new
incarnations need never happen. In `Remote` a Tell goes on and its deadline
fires; a local Push, the peer and the network promise nothing.

### Bounds

`MaxTickets`, `MaxSends`, `MaxPushes`, `MaxClock`, `MaxNow`, `MaxFailures`,
`MaxPanics`, `MaxCalls`, `MaxResponds`, `MaxGranted`, `MaxRuns`, `MaxTears`, `MaxEnabled` and
`MaxMoves` bound counters that are unbounded in the code; each is a constant
used in the guard that starts the operation, never inside one. `Cuts` lists
where a write may end early. `Capacity` and `WaitCap` are parameters of the code,
not bounds; they are 1 in `ask`, so that lanes and tokens run out. In `Actor` a message is sent once, so that handling
it twice is the system's doing. They are large enough for every action to fire and for each faulty
variant to be caught.

## What is proved

TLAPS proves 29 theorems, for every value of the constants that satisfies the
named assumptions of the modules; where each is, see the modules. A proof
has the lemmas about the data first (what a step does to a cell, a segment, a
record of a sequence), then for each part of the invariant one step per action,
then the temporal step. Most of the invariants below are not inductive by themselves; the
strengthening each rests on is a conjunction of named parts, in the component's
module or in its proofs. The runs check the properties themselves; a part of a
strengthening that no cfg lists is established by its proof alone.

* **Ring**: `TypeOK`, `RingInv`, `CellExclusive`, `FifoDelivery`, for any number
  of producers and consumers and any capacity of at least 2. `RingInv` says of
  every ticket in the window from head to head + Capacity who is in its cell and
  which sequence number and value the cell holds (`QueuedCells`, `FreeCells`,
  `Writers`, `Readers`), what a loaded ticket still means at the compare-and-swap
  (`Loaded`), and that sequence numbers never fall behind (`Passed`); without
  `Passed` a producer that slept for a lap could pass its compare-and-swap.
  `Refinement` is `Spec => RefinesTicketQueue`: from `RingInv`, each action is
  mapped to a step of `TicketQueue` or to a stutter, and the answers "full" and
  "empty" to the abstract ones.
* **Mailbox**: `TypeOK`; `NoLostWakeup` from `WakeupInv`, which adds where the
  actor still is to look before it sleeps; `UrgentFirst` from `UrgentInv`
  (a passed-over urgent envelope is next); `WriteAhead` together with
  `OfferedFirst` (the same for a Push past its hook); `SizeAccounting` from
  `TicketInv` (tickets of pushers in progress are distinct and in their lane), by
  the cardinality of the sets of calls between the lane and the counter.
* **SegmentedQueue**: `SegmentInv` and `ProducerOrder`, for one consumer
  (`SingleConsumer`, a hypothesis of the theorems), which is how the mailbox uses
  the queue; segmented.go:20 speaks of several, and with two of them the counter
  is not exact. The first rests on `LocalInv` (what the locals of a call in
  progress mean) and `RoomInv` (who may link), the second on `PlacedInv`,
  `ChainOrder` and `TakenInv`: a producer's values have increasing places in the
  chain, and the consumer takes places in order. `SegmentAssumption` asks that
  the counter's modulus (2^64 in the code) exceeds the segments that can exist;
  `SizeAssumption` states that rounding up to a power of two gives at least 2, a
  fact about numbers that would need an induction.
* **Future**: `FutureInv`, from `WinnerInv` (the completer that set `done` is the
  only one past the test) and `CallbackInv` (where a callback is at each moment:
  in the list, in a completer's copy, or run).
* **CircuitBreaker**: `BreakerInv`, inductive with what each caller's `stage`
  says about the probe it holds.
* **TokenBucket**: `BucketTypeOK` and `RateLimit`, for any number of callers and
  any rates, while limiting has not been switched off. The rate in use and what
  each refill in progress has read and earned are sound (`RateInv`), a caller at
  its compare-and-swap has seen enough tokens (`LocalInv`), and what was granted, what the bucket holds and what refills in
  progress are still to add come to no more than the burst and what the time up
  to `lastNS` has earned (`CreditInv`). The tokens to be added are counted as the
  cardinality of a set, `Credits`. The argument is that a stretch of time is
  credited once, to the refill that wins the compare-and-swap on `lastNS`.
* **Actor** and **WAL**: `TypeOK`; `ReplaySound` from `LogInv`, whose part
  `FileInv` says that the file is its writes, one after the other, and whose
  part `PersistInv` that only what has a payload is written. The reader is a
  recursive function, and its lemmas are proved by well-founded induction over
  sets of naturals (`Induct`): what it is (`ReaderDef`), what it does at a record
  (`ReadRecord`), and that it gets through a prefix of whole records in order,
  whatever follows (`IntactPrefix`). `OncePerRun` from `OnceInv`: a message is
  sent once and so logged once (`SentOnceInv`), before Start everything the actor
  holds was sent early and nothing was handled (`NewInv`), what it holds was sent
  (`SentInv`), and a message sent after Start or found in the log has one copy
  among the payloads Start still has, the pushes, the mailbox and the messages
  handled (`OneCopyInv`). The last two theorems have the hypothesis
  `SmallPayloads`, payloads below 4 GiB: Append writes the low 32 bits of the
  length of a longer one, and Replay then misreads it.
* **Supervisor**: `StoppedIsGone`, `SupervisorInv`, `RestartBudget` and
  `NameResolves`, for any number of children and retries and every strategy. The
  first needs only `LinkInv` (slots, actors and tasks refer to what exists, and
  an actor that is not running yet has one starter) and `GoneInv`. The other
  three hold while `NoOverlap` does, a premise that is part of each property (see
  the runs), and the argument is: who has been reported does
  not fail again before its restart ends (`FailureInv`), so a slot has one
  restart at a time and its copy of the entry is not stale (`RestartInv`), so an
  actor whose Stop has not returned is recorded or about to be (`AliveInv`).
  Hence two unfinished actors of a slot are the same (`Alone`), which gives
  `Supervised`; each actor but the first was paid for by a retry (`BudgetInv`);
  and no Unregister can remove the name of another (`FoundInv`).
* **Ask**: `AskInv` from `CallInv` (the correlation IDs in use are those of the
  calls made) and `OwnerInv` (table, timer, loops and completion exclude each
  other), for any mixture of blocking and other mailboxes of any capacity; `TokensExact` from `TokenInv`, by the cardinality of the set of waiting
  callers.
* **Remote**: `TypeOK`, `NilMeansReached`, `StoppedIsClosed`, `PanicOnlyAtStop`,
  from `SenderInv` (what a Tell in progress has read), `TransportInv` (which
  connection tables are nil, and that these are empty) and `AckInv` (what an acknowledgement stands for).

Assumptions are those of the modules: sets of goroutines are disjoint where the
code has different goroutines, and finite only where the proof counts them;
capacities and limits are at least what the constructors enforce.

Only model-checked: the liveness properties (fairness is outside the prover's
reach). Every invariant of a passing run is a theorem.

## Not modelled

Metrics (independent counters, read by the HTTP handler only), the encoding of
gob (its users rely on no more than that Unmarshal undoes Marshal and fails on
the rest), identifiers and the test kit; the values of the backoff, which the
supervisor only sleeps for; `Then` and `All`, which register callbacks and add
a counter; the table of breakers and the setters of System; a loss of power,
after which the file system may have less than Write was given; several
goroutines in EnableRemote and StopRemote; memory reclamation. Go's atomics are
sequentially consistent, so no weaker memory model is needed; `s.remote`, which
is a plain field, is a single word, and each read returns some value it had.

## Plan

1. Done: Ring and TicketQueue, SegmentedQueue, Mailbox, CircuitBreaker, Future,
   Supervisor with Registry, Ask, TokenBucket; the log (WAL) and the life cycle
   of an actor over crashes (Actor), the remote transport (Remote).
2. Done: the safety invariants of Ring, SegmentedQueue, Mailbox, CircuitBreaker,
   Future, Supervisor, Ask, TokenBucket, Actor and Remote proved, and that Ring
   implements TicketQueue.
3. Left to prove: action properties of what a step may never do to a completed
   future, a recorded child or a stopped transport.
4. Left to model: `Then` and `All` on several futures; the backoff values
   against a closed form; a composition of Ask with CircuitBreaker.
