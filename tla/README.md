# A TLA+ model of mq-bridge

mq-bridge is a Rust library that moves messages from a source endpoint to a sink endpoint.
A *route* reads batches from a consumer, sends each one through a publisher (both wrapped in
middlewares) and then runs the batch's *commit*, which acknowledges, rejects or answers the
messages at the source. Its promise is at-least-once delivery: what the source has been told
to forget has reached the sink, its dead letter queue, or was refused for good.

This directory models what keeps the promise under concurrency, failures, crashes and
shutdown: the route itself (`src/src/route.rs`, `src/src/route/flush_gate.rs`), and the
middlewares, endpoints and stores with state of their own that acknowledge, hold back, retry
or redeliver messages. TLC checks the models on small instances; TLAPS proves the safety
properties of the route and of most components for every value of the constants.

## 1. Inventory

| Component | State | Operations | Talks to |
|---|---|---|---|
| Commit sequencer (`spawn_sequencer`, `wrap_commit`) | channel, reorder buffer, next number | submit, run in order, answer, end | runners, flush gate, source |
| Flush gate (`flush_gate.rs`) | held commits, event queue, deadline | hold, nudge, close, abandon, flush, timer | sequencer, sink, error channel |
| Commit router (`CommitRouter`, permits) | read and dispatch semaphores, sequence counter | wrap, permit, abandon, shutdown | runners |
| Concurrent runner (`run_concurrently`) | work channel, workers, order tickets, commit tasks | read, enqueue, send, commit inline or in a task, join, nack | all of the above |
| Sequential runner (`run_sequentially`) | read-ahead batch, send task, reaped result | the same, with one send at a time | all of the above |
| Supervisor (`run_with_resume_policy`) | failures in a row, status, outcome, drop tally | start a pass, judge its end, back off, stop | runner (a task of its own), `RouteHandle` |
| Registry (`deploy`, `stop`) | name to running route | take out, stop, run, register | supervisor |
| Retry and DLQ (`retry.rs`, `dlq.rs`) | attempts, messages left, messages given up | resend, give up, dead-letter | sink, dead-letter queue |
| Deduplication (`deduplication.rs`) | claims and markers in a shared store, open deliveries | reserve, wait, renew, release, mark, sync | source, route, store |
| Deferred commits, filter (`deferred_commit.rs`, `filter.rs`) | held commits, deliveries in flight | hold, attach, release, drain | source, route |
| Buffer (`buffer.rs`) | pending sends, timer generation, batch in flight | enqueue, time out, flush, distribute | callers, inner publisher |
| Weak join (`weak_join.rs`) | pending groups, ready buffer, ack tracker, pending receive | join, expire, discard, settle, drain | source, route |
| SQL cursor reader (`sqlx/mod.rs`) | position, epoch, checkpoint | page, hand out, confirm, rewind, save | table, route, checkpoint store |
| Checkpoint file (`checkpoint.rs`) | one file, path locks | load, save, clear | file system |
| Event store (`event_store.rs`) | log, offsets of subscribers | append, read, ack, rewind, collect | memory topics, `EventStoreConsumer` |
| Memory queue (`memory/endpoint.rs`) | bounded channel, rest of a split batch | send, receive, nack, give back, close | route, runtime |
| Directory spool (`dir_spool`) | files, sentinel, lock; listing, claims | write, finish, list, deliver, delete, release | processes through the file system |
| Sequence and fanout (`structural`) | phase, marker, open deliveries; merged answers | drain, hand off, pin; send to all, merge | inner endpoints, route |
| Other endpoints (brokers, databases, HTTP, files, object stores) | per endpoint | receive, send, flush, commit | outside systems |
| Aggregate, pack, source ranges, configuration checks | - | pure or sequential | endpoints, route |
| Plugins, handlers, applications, bindings | - | adapters | library |

What is hard here: a batch's commit is produced by one task, held by a second, ordered by a
third and awaited by a fourth; each of them may fail, panic or be told to stop while the
others wait on it. Positions of ordered sources are cumulative, so one commit run too early
silently acknowledges its predecessors. Reading is throttled by permits that only commits
give back, while the gate postpones commits until a flush: everyone may wait on everyone.
The supervisor adds reconnects, aborts, timers and a status cell written from several
places. Around the route, every middleware that drops, joins or buffers messages owns commits
that belong before or after those of others, and every store that remembers a position may be
rewound by a nack, overtaken by a late ack or cut short by a crash. `PROJECT.json` lists each hazard at its line with the properties aimed at it.

## 2. Modules

```
Delivery            what a route promises a source with a cumulative position
   ^ refined by
CommitRouter        the commit path, driven by any runner (RouterSpec)
   | EXTENDS FlushGate, which EXTENDS CommitSequencer
   ^ implemented by
ConcurrentRoute     run_concurrently          SequentialRoute     run_sequentially
RouteSupervisor     the reconnect loop, run(), stop, RouteHandle
RouteRegistry       deploy and stop by name

input middlewares   DeferredCommits  Deduplication  WeakJoin
output middlewares  RetryDlq  BufferPublisher
endpoints           CursorReader  MemoryQueue  DirSpool  SequenceInput  Fanout
stores              FileCheckpoint  EventStore
```

`X_proofs` holds the theorems about module `X`; `Middleware_proofs`, `Endpoints_proofs` and
`Stores_proofs` hold those about the groups above. `MC*` modules and `.cfg` files are the
instances for TLC. A component's module ends with its properties and, where it is proved,
the inductive invariant.

**CommitSequencer.** Batches are numbered `0 .. NumBatches-1`. `stage[s]` is where the
batch's commit closure stands: `unread`, `work` (read, its closure not called), `hold` (at
the gate), `ready` (released, about to be submitted), `wait` (submitted), then how it
returned, or `gone` (dropped by a panic or an abort). `chan`, `buffer`, `nextSeq` are the
sequencer's; `position` and `latch` belong to the source: the Kafka commit closure of
`kafka.rs`, which commits a cumulative offset and latches on the first nack. `Disturbed`
says whether commits, flushes and reads may fail and stops may come.

**FlushGate.** The task of `FlushGate::spawn`. `gateQ` is its event channel, `held` the
commits it keeps, `flushing` those a running flush will release, `snap` what that flush
covers. Its adaptive interval is abstracted to a timer that may fire whenever commits are
held.

**CommitRouter.** Permits (`read_semaphore` for ordered, `dispatch_semaphore` for unordered
sources), the sequence counter, `send_batch_and_commit`'s decision from responses to
dispositions (`DispositionOf`, `ApplyPolicy`) and the ways a commit is called. A batch is
abstracted to the *set* of results of its messages (`ok`, `reply`, `retryable`, ... ): the
code decides per message, and a property only asks which kinds occur. `RouterSpec` lets any
runner take these steps in any order the closures' types allow; it is the abstract
specification the two runners implement.

**ConcurrentRoute, SequentialRoute.** The control state of the two runners on top of the
same variables: program counters of the main task, workers, send task and commit tasks, the
work channel, the batch read ahead, the panic and stop paths, and the whole shutdown
sequence (close or abandon the gate, join, nack what was never sent, gate, then router).

**RouteSupervisor.** The task behind a `RouteHandle`, the pass it spawns (a runner, reduced
to connecting, ready, delivering, dropping and the kinds of end) and the caller of `run` and
`stop`. Time is abstracted: timers fire at any moment they are armed.
`consecutive_failures` saturates at `FailureCap`, one above the only number it is compared
with, so reconnects are unbounded.

**RouteRegistry.** One registry entry and any number of racing calls, each of which may be
dropped at an await, which drops and thereby closes the handles it owns.

The modules below talk to the route through the same interface: a delivery is handed out, and
later its commit runs with dispositions, or is dropped. Each takes the route as an environment
that does either at any time, in order where the route keeps order (`CommitSafety` above), and
the sink as one that may take or refuse any message.

**DeferredCommits.** `DeferredCommits` and the two receive loops that use it: the filter fills
a delivery from several source batches (`dcFills`), deduplication returns the first that
retains anything. A source batch is kept, emptied (`ack`), or emptied with a reply owed. An
empty batch may come at any time (`ReceiveNone`), as a source that has caught up returns one:
it runs what is held, and the route then reads on or ends (`dcExits`). `dcEarly` records which
held commits ran on an empty batch or on disconnect.

**Deduplication.** Consumers on one store: `Reserve` claims keys or finds them held or marked,
`WaitCap` is `IN_FLIGHT_WAIT_CAP`, a delivery goes through `writing`, `sent`, `marked`,
`synced` before the source's ack. Markers are `written` or `durable`; a crash loses the former.
With `ddFaulty` a marker may fail to be written and a flush may fail; the code logs both and
acknowledges all the same, and `ddMissed` records the keys. A commit may fail at any stage.

**RetryDlq.** `DlqPublisher::send_batch` around `RetryPublisher::send_batch` for one batch.
Errors keep the three classes of `PublisherError`; "exhausted" is the error text by which the
dead-letter middleware recognises given-up retries.

**BufferPublisher.** The shared state behind one mutex, timers with their generation, spawned
flush tasks, and the results matched back by message id. Sends are numbered, and what waits in
the buffer is a set of them: the queue only ever grows at its end and is taken from its front.

**WeakJoin.** `receive_batch` in steps: receive or time out (the pending receive survives),
close the groups that are over (`CloseGroup`, one at a time in any order, as the hash map has
none), admit the batch message by message (`Admit`), acknowledge what was discarded, take what
is ready. A member is a slot, a pair of batch and index, and a joined message the set of its
slots. The tracker is `wjBase`, `wjNext`, and per batch `wjLeft` (`remaining`), `wjDisp` and
`wjHeld` (the commit is there); `SettleAndCommit` is one step, as it keeps the tracker locked,
and any of the commits it runs may fail. `wjConf` runs through the kinds of completion, what
happens to an expired group, the ack modes and the kinds of source.

**CursorReader.** Transactions take xids in order and commit in any order; which of them wrote
each row is one of `TxChoices`, so values may follow the transactions or interleave, and repeat.
The guard (`crGuarded`) is on or off, as on PostgreSQL with a readable `xmin` or elsewhere. A
page drops an incomplete tie and is thrown away if the epoch moved meanwhile. Batches are
settled in order, acknowledged up to any row, also between equal values, or dropped in any
order; a restart resumes from the checkpoint. Rows are numbered in the order of the cursor
column, so a page is a set of rows. `crLate` and `crStranded` record the rows the reader is past
without having them: committed behind it, tied with the boundary of a nack, or in a batch open
when a later one was dropped. They are ghost variables: no guard reads them.

**FileCheckpoint.** `update`, for `save` and `clear`, from lock to directory sync. A file is a
map, `fcDurable` what the disk may hold of it after a power loss; a dropped update may still
rename. `fcKept` is what the last update that returned left under a key, and what one begun
since may leave. The lock is that of one process: a second one that clears the file is not
covered, in the model as in the code.

**EventStore.** Offsets as natural numbers, the log as the interval from `esBase` to `esNext`.
A receive is read, then stored; a commit runs between the two (`esRaced` notes that). Garbage
collection is one step.

**MemoryQueue.** The channel of batches, each consumer's rest, deliveries and the tasks that
wait for room to give a batch back. A `receive_batch` takes its first batch, tops it up and
hands it on in three steps, between which others send and receive. No property is about the
order inside a batch, so a batch is a set of messages, of which a delivery takes any part.
The route reads while it has a permit (`PermitLeft`) and a permit is held until the commit is
over, which is where a requeue that waited would stop everything. The channel may be closed and
the runtime may end at any time: what is requeued then is lost with an error in the log
(`mqLost`).

**DirSpool.** Producers one after the other under the lock, each message of a batch a sidecar
and a payload file. A write that fails uses up its number, the rest of the batch is written, and
the route sends the failed message again (`spBack`); a failed directory sync reports the whole
batch. `spUnwritten` and `spWriteFailed` are the record that holds the sentinel back. A producer
that stops or crashes leaves its batch, and perhaps earlier ones, to be sent again by the next.
On the other side the consumer's listing, claims and requeued chunks, and commits that delete or
release chunk by chunk in ascending order: `spTodo[b]` is what is left of delivery `b`, by name,
and `spAt[b]` how far its commit is with the first of it; payload and sidecar are deleted in two
steps. `SpReopens` bounds the producers, `SpFaults` failed writes, syncs and deletes, nacks and
drops. `SpTracked` is `MAX_UNWRITTEN_TRACKED`, `SpReadFailures` `MAX_CHUNK_READ_FAILURES`.

**SequenceInput.** Snapshots of tables followed by a stream, rows inserted at any time, the
hand-off with its waiting, time-out and failure flag, and the marker across restarts.

**Fanout.** One `send_batch` to all destinations, the merged answer and the dispositions
`send_batch_and_commit` derives from it. The loop that merges is given by its result: a
failure stands where its key came up first and has the most recoverable error of that key. With
`foBadGateway` the source is a server, whose callers are answered instead of nacked.

Undefined orders are nondeterministic: which ready `select!` arm is taken, when an aborted
task notices, in which order tasks run.

## 3. Runs

| Run | Instance | Shows |
|---|---|---|
| `concurrent_gated` | 2 workers, 2 batches, ordered source, gated and order-sensitive sink, 1 panic, fair | `CommitSafety` (nothing lost, no commit before its flush or over a gap, no caller stranded), `CleanEndCommitsAll`, `PublishInOrder`, the inductive invariant, that the runner implements `RouterSpec`, and `StopEnds`: a stop, an error or a panic ends the run, without the gate's timer |
| `concurrent_ordered` | 3 batches, retry and DLQ, partial failures | `CleanEndCommitsAll`, the contract of `Delivery` |
| `concurrent_unordered` | 3 batches, unordered source, gated sink, bad-gateway policy | `CommitSafety`, `InFlightBound` |
| `sequential_gated` | 2 batches, 2 permits, gated, 1 panic, fair with the timer | `DrainCommitsAll`, the inductive invariant `LoopInv` (with it `NoBatchForgotten`), `RouterSpec` implemented, `StopEnds` |
| `sequential_starved` | 5 batches, no failures, no timer | `StarvedReaderResumes` |
| `components` | the components around the route, one scene each | see below |
| `endpoints` | the endpoints that keep messages, and the supervisor, one scene each | see below |
| `supervisor_health`, `filter_order`, `join_drain`, `event_store_nack`, `spool_redelivery` | expected violations | see section 6 |

`MCComponents` and `MCEndpoints` put components side by side, the former those down to drain.
They share no state; `scene` says which one moves while the others stay in one initial state,
so the run's states are the sum of theirs.

| Scene | Instance | Shows |
|---|---|---|
| filter, dropped | 4 source batches, deliveries of 2, one held commit | `DeferredCommitsInv`: only an ack run on an empty batch or at the end overtakes a retained batch, carried commits keep source order, replies are not given up at the limit, an idle consumer has acknowledged all it read |
| dedup, dedup crash | 2 consumers, 2 copies of one message and a second message; a store that works, with the two copies from two sources, one for each consumer, or one source for both and a store whose writes and flushes fail, with a crash | `DeduplicationInv`: no message loses all its copies, one delivery per key, a settled key is written again only if the store missed it; `WaitEnds` |
| retry | 3 messages, 3 attempts | `RetryDlqInv`: the report to the route is true, nothing is sent twice, unreachable is not dead |
| buffer | 3 sends, two of one id, batches of 2 | `BufferInv`: order, results of the right message, what flush covers; `SendsReturn` |
| join | 3 source batches with two groups across them, every completion rule, timeout policy and kind of source under `ack: on_join`, drained if branches are required; one of each for `on_receive` | `WeakJoinInv`: members are acknowledged as their join was settled, none is lost, commits in order and never forgotten |
| checkpoint | 3 stores on one file, a clear, a crash or power loss | `FileCheckpointInv`: one writer, never torn, saved positions stay and cleared ones stay away |
| events | 2 subscribers, 2 events, room for 1 or 2, a nack | `EventStoreInv`, `CollectsOnlyTaken` |
| fanout | 2 destinations, 2 messages, every answer, for a queue or a server | `FanoutInv`: what may still be taken is nacked or the caller told, what was taken is settled |
| sequence | 2 snapshots and a stream, 3 rows, 2 faults, a restart | `SequenceInv`: neither marker nor hand-off skips a row |
| deploy | 3 racing calls, fair | `RegistrySafety`, `StraysEnd` |
| drain | drain job, no backoff | `SupInv`: a drain gives up in time, and has started before it completed |
| cursor | 4 rows in 3 transactions, in order or interleaved, a tie, pages of 2, guard on or off, 2 nacks or drops, a crash | `CursorReaderInv`: position and checkpoint pass no row but those of `Forgone`, and with the guard and ordered values nothing commits behind the reader; `RowsArrive` |
| queue | 3 batches, 2 consumers, a channel of 1, 2 permits, 2 nacks or drops, close and shutdown | `MemoryQueueInv`: every message in exactly one place, none lost while channel and runtime are there; `QueueSettles` |
| spool | 2 messages in one batch, 2 open deliveries; one producer with a fault, or 2 producers and an unreadable chunk | `DirSpoolInv`: a chunk stays until acknowledged, only what was sent again is overtaken, the sentinel is true, metadata is there, the end only when drained, no claim leaks; `SpoolDrains` |
| route | continuous route, fair | `SupInv` (a flapping route shows its error, the verdict and the refusal are true, the end is quiet); with passes that may hang: `StopReturns`; with passes that end: `JoinReturns`, `OrphanEnds` |

*Bounds.* Two batches are the least that can be out of order; a third one waits for a permit
or for a gap ahead of it. Two workers can overtake each other; a panic of one leaves the
other. Five batches are what it takes to starve the sequential reader: two permits are held
at the gate, one batch is sent, one read ahead, one asked for. `MaxHeld` is half the permits,
as `CommitRouter::new` and the gate compute it. One panic per run: a second one meets the
same abandoned sequence. The proofs have no bounds. In the scenes, four source batches let an
emptied one stand before, between and after retained ones with a held commit more than the
limit; a third store finds the path lock forgotten between two others; the batch of four in
the queue is more than half of a delivery, where merging stops. In the join's source one group
has a branch twice before it is complete, and both span several batches, so that batches are
settled out of order. A channel of one batch and two permits are the least with which every
permit can be held by a commit that has to requeue into a full channel. Two rows of equal value
in the second transaction let the cut, the end of a page and a nack fall on a tie. In the spool,
a fault and a second producer are not combined: together they reach the violation of
`spool_redelivery`. A second fault, which passes the limit of recorded failures or fails one
message twice, is left to the proof.

*Fairness.* Every task is scheduled (weak fairness), and sinks and sources answer. The
select of the sequential runner and that of the supervisor are unbiased: tokio draws the
first arm to poll at random, so an arm that is ready again and again is taken, which is
strong fairness on the error, stop and join arms. The concurrent runner's select is biased
and needs none. `TimedSpec` adds that the gate's deadline passes. The supervisor's
`SupFairness` assumes nothing of a pass; the properties that need more say so (`PassFairness`):
connecting comes to an end, and a pass told to stop ends, which is the runners' `StopEnds`.
Of the components, timers fire, spawned tasks run, transactions end and open deliveries are
settled (weak fairness); no producer of the spool has to go on, and nothing makes the channel
of a queue stay open; the cap of the deduplication wait is a timer, and faults have a bound
and need no fairness.

*Deadlock* is checked for the runners, whose `Ended` step is the only way to rest. Supervisor,
registry and the components really stop: their calls, batches and messages are finite.

## 4. Proofs

Assumptions are the named `ASSUME`s on constants; TLC evaluates them in every run. Most are
types and sizes. The others: `MaxHeld` is at most half the permits, as `FlushGate` computes
it; a checkpoint file has a saver; every key of the deduplication store belongs to a copy; the
rows of a table are numbered in the order of the cursor column; the batches sent to a memory queue
are finite, not empty and share no message; the batches of a join's source
are not empty (an empty receive is a step of its own), nor is `required` where it is set.

None of the safety properties is inductive as it stands. What each proof adds to it is a
named part of the module that it is about, checked by TLC before it was proved:

*The route.*

* `CommitRouter_proofs`. `RouterInv` strengthens `NoLoss` by four parts: `CallInv` (a closure
  is called once, after its send, and unknown to gate and sequencer before), `GateInv`
  (whatever got past the gate was covered by a flush), `SeqInv` (the commits that ran are
  exactly those below `nextSeq`; without a nack they are all settled), `WaitInv` (who waits
  has its commit in the channel or the buffer). The heart is `SeqInv`: running the next commit
  extends the settled prefix unless it nacks, and then the source's latch refuses every later
  one. From it follow `RouterCommitSafety` and `RouterKeepsContract`: `RouterSpec` refines
  `Delivery` with `settled` mapped to the batches that need no redelivery. `RouterPermits`
  proves `InFlightBound` with `PermitInv`: a reader inside the source's receive holds the
  permit its batch will take over.
* `ConcurrentRoute_proofs`. Each step of the runner is a step of `RouterNext` or leaves its
  variables alone (`RouteImplementsRouter`), given `RouteTypeOK`; `RouteSafety` and
  `RouteKeepsContract` are then inherited. `RouteCommitsAll` needs that the result of a run
  and the state of the commit path agree (`TroubleInv`): whatever went wrong there the runner
  knows or is about to learn (`Troubled`), or else `PathFine` holds (sequencer and gate work,
  and every commit that ended was run); together with the order in which the pool, the nacks,
  the gate and the router come to their end (`ExitInv`), nothing is left to run once the run
  returns. `RoutePublishesInOrder` follows from `TurnInv`: batches have had their turn at the
  sink in order, and only the nacks on the way out skip it.
* `SequentialRoute_proofs`. The same for the other runner (`LoopImplementsRouter`,
  `LoopSafety`, `LoopDrainCommitsAll`). `HandsInv` says in whose hands a batch is, which gives
  `LoopForgetsNothing`; its `Troubled` includes the error that waits in a channel of one after
  the source was found drained, and the end of a send task that was reaped and not looked at.
* `RouteSupervisor_proofs`. `SupInv` adds to the reported properties that the task is over
  exactly when an outcome is published, that a pass which got to its loop left its ready
  signal somewhere, and that only an abort leaves the abort's error.
* `RouteRegistry_proofs`. `RegistryInv` adds that the route of a call which has not reached
  `run` is nowhere, and that a route which was told to stop is being joined unless a call was
  dropped or failed; `RegistryIsSafe` concludes `RegistrySafety`.

*`Middleware_proofs`.*

* `RetryReportsTruth`. Between two attempts the messages the sink has not taken are those to
  be sent again and those given up, which are disjoint (`RetryInv`); what the retry
  middleware returns names exactly those not taken (`ResultInv`).
* `DedupLosesNothing`. A copy is dropped on the strength of one that is kept in the same
  delivery or of one the sink took (`DropInv`); markers stand for what the sink took, and are
  there before the ack but for the keys the store failed to keep (`MarkerInv`); a held key is claimed, unmarked and has one holder (`ClaimInv`), as long as
  no wait was cut short by the cap.
* `DeferredCommitsHold`. What is collected, held and carried ascends, and each precedes the
  next (`OrderInv`); the count of deliveries in flight is that of those which carry a commit
  (`InFlightInv`); `hold` runs commits on its own only when none is (`ModeInv`). Empty batches may
  come anywhere; the acks they run are exempt (`dcEarly`) and no others are, before or after
  them (section 6 says what these do).
* `BufferTellsTruth`. Sends are taken, in flight and pending in this order (`StagesInv`); one
  in the buffer has no result yet, and a batch holds no message id twice (`CallersInv`), which
  is why results matched by id are those of the right caller.
* `JoinKeepsMembers`. A message waits in one place, and only open ones do (`OnePlaceInv`,
  `OpenInv`), so settling a joined message or a discarded group leaves all others open. Hence
  `remaining` is the number of open members of a batch, and the dispositions are those of the
  settled ones (`TrackInv`): no batch is due before its last member, nor counted down twice.
  `RanInv` says which commits have run: of an ordered source all before `base`, of another
  those a batch no longer holds.

*`Endpoints_proofs`.*

* `SequenceGapless`. A row of an open phase is acknowledged, retained by the stream, queued or
  with the route, or else a failure is on record (`PhaseInv`); no phase can be left unless the
  stream was pinned before (`PinInv`).
* `CursorSkipsNothing`. A page holds every row between its bounds but those that commit late
  (`WholePage`), and below a batch that can still move the position the sink has every row, an
  earlier such batch carries it, or it is forgone (`BatchesInv`). There is no assumption on
  values, ties, drops or the guard; the three ways to lose a row are named by `Forgone`, and
  `GuardHoldsBack` proves that the guard rules out the first where values follow the
  transactions: all that lies behind the reader is then committed (`SettledBehind`).
* `QueueLosesNothing`. A delivery that came up short leaves no rest (`ShortLeavesNothing`), so
  that topping it up does not overwrite one. Losses are accounted for in `mqLost`, which stays
  empty while the channel is open and the runtime there.
* `FanoutLosesNothing`. For batches without repeated ids (`DistinctIds`): there the key of a
  failure is its message, so each is listed once, with the most recoverable of its errors.

*`Stores_proofs`.*

* `CheckpointsKept`. Every save under way has the lock object the map has now (`LockInv`), and
  what it is about to write has of every other key what that key's last update left
  (`MapInv`).
* `EventStorePassesNothing`, `EventStoreCollectsTaken`. Batches are intervals (`OutInv`), and
  what precedes a batch whose commit counts is taken or ahead of it (`AheadInv`); both hold of
  consumers no nack ran into, as the properties do.
* `SpoolKeepsChunks`. Under the assumption that there are no faults or one producer only
  (`RegimeInv` keeps it: no faults are left, or numbers cannot start anew). Chunks are deleted
  by name, so what matters is whether a name still stands for what was read under it. Without
  a further producer names are not used twice, and it does, although a chunk may be in several
  hands; with one, no chunk is in two hands (`UniqueInv`), and all but the one just deleted
  stand (`HandsInv`). A claim belongs to an open delivery, to a chunk that is acknowledged or
  unreadable, or to a name that is gone for good (`ClaimedInv`); an empty listing under the
  sentinel leaves nothing owed that no open delivery answers for (`EmptyInv`). Independently,
  what this producer failed to write is on record or the sentinel is held back for good
  (`NotesInv`), and with one producer a sidecar is swept only after its payload, whose number
  never comes back (`SidecarInv`). These parts are in `Stores_proofs`.

Where a fact is by nature an induction over data (some element of a set is the least), the
proofs take the least counterexample with the library's well-foundedness of `<`.

Only model-checked: the liveness properties (`StopEnds`, `StarvedReaderResumes`,
`StopReturns`, `JoinReturns`, `OrphanEnds`, `StraysEnd`, `WaitEnds`, `SendsReturn`,
`RowsArrive`, `QueueSettles`, `SpoolDrains`), which need fairness or `ENABLED`. Every invariant a passing run checks is proved.

## 5. Not modelled

* Message contents, formats and identifiers, beyond what the properties tell apart.
* Of modelled components: `PendingSends`' stall report; a panic inside `flush` or a commit
  closure; deduplication's TTL and reply replay; the buffer's consumer side; request-reply of
  the memory endpoint; `max_age`, expiry of subscribers and the watch channel of the event
  store, whose collection is one step; `exit_on_empty`, sharding and power loss of the
  spool; clears of a checkpoint from another process; fanout with repeated ids. Known to matter there:
  the watch value of the event store may go back when appends overlap, a drain takes two
  unreadable listings of a spool for its end, and failures merged by id and occurrence mix up
  messages of one id that different destinations refused.
* Adapters: brokers, databases other than the cursor reader, HTTP, gRPC, files, object stores,
  plugins, bindings and applications. They translate calls to client libraries; what they
  acknowledge and in which order enters as `Ordered` and `Gated` and as the Kafka closure.
  They are the larger part of the repository by far and hold little state of their own.
* Aggregate, pack, switch, request, stream buffer, configuration checks, source ranges.

`PROJECT.json` gives the reason per component.

## 6. What the models showed

* *Health of a hanging reconnect* (`supervisor_health`). The `STABLE_RUN` timer runs from the
  moment a new pass is spawned, not from its ready signal: after a failure, a reconnect that
  hangs for 30 seconds turns the status healthy and clears the error.
* *The filter's early ack* (`filter_order`). A filter that fills a delivery from several source
  batches acknowledges an emptied one while the retained ones of the same call are not counted
  as in flight yet. On a source with cumulative acks they are acknowledged with it, before the
  route has seen them.
* *The weak join's empty batch* (`join_drain`). A receive that completes no group returns an
  empty batch, which a draining route takes for the end of its source, with groups buffered.
* *A nack during a receive* (`event_store_nack`). The event store's consumer stores its offset
  and notes the rewind counter after reading: a nack in between is overwritten, and the ack of
  that batch covers the refused event. `EventStoreInv` holds for consumers no nack ran into.
* *Released before it is put back* (`spool_redelivery`). A refused chunk can be listed between
  the two and is then delivered twice; the second ack deletes by name, which after a restart of
  the producer on an empty spool may be the name of an unread chunk.
* *Markers that were not kept.* A failed write or flush of the deduplication store is only
  logged: the source is acknowledged, and after a crash a copy is delivered again. Nothing is
  lost; `AckedNotRedone` exempts exactly those keys.
* *Stop and the detached pass.* After five seconds `stop` aborts the supervisor and waits for
  it; the pass is a separate task, which the abort detaches. It ends later, when it sees its
  shutdown channel closed (`OrphanEnds`), possibly after `stop` has returned.
* *The gate's timer matters to the sequential runner.* After a failure it awaits the nack of
  its prefetched batch before it tells the gate to abandon; in the sequence that nack is
  behind commits the gate still holds. Without the timer `StopEnds` fails there; with it the
  wait is bounded by the flush interval. The concurrent runner closes the gate first and does
  not depend on it.
* *The first hard error of a fanout* decides for the batch: a permanent one of an earlier
  destination drops what a later one would have taken on a retry. The code says so; `FanoutInv`
  is stated for the other batches.

Elsewhere the code does less than a comment or a document says, and the invariants name the
exception. Stated without it, each claim is refuted by TLC:

* *Acks on an empty batch.* Deduplication (`deduplication.rs:976`) and filter (`filter.rs:1011`)
  take an empty batch for the end of a drained source and run every ack they hold, whatever is in
  flight. A source that has only caught up returns empty batches too (`sqlx/mod.rs:3552`), so the
  acks overtake deliveries being written, against `deferred_commit.rs:4-7`. `OnlyEmptyOvertakes`
  says that nothing else does.
* *Interleaved sequence values.* The in-flight cut of the cursor reader (`sqlx/mod.rs:3229`)
  compares transactions, not values: one with values 1 and 3 that commits before a younger one
  with value 2 lets the reader pass 2. `postgres.md:132-134` says "so a sequence column is safe".
  `GuardHoldsBack` is stated for values that follow the transactions; elsewhere, and without the
  guard, such rows are in `Forgone`.
* *Ties.* A nack between two rows of equal cursor value (`sqlx/mod.rs:3671`) makes the reader
  pass over the second (`Forgone`); `postgres.md:126` asks for a unique column,
  `checkpoints.md:226` only for groups that fit in a batch.
* *Drops out of order.* When a later open batch is dropped before an earlier one, the earlier one
  can no longer rewind the reader (`sqlx/mod.rs:3205`), though 3184 says that "its rows are read
  again". A reader created anew reads them (`Forgone`).
* *A failed write in a batch* (`dir_spool/mod.rs:1048`). The rest of the batch is numbered before
  the retried message, so the listing does not stay in source order as 1087 says
  (`OnlyResentOvertaken`).
* *Failures counted twice* (`dir_spool/mod.rs:949`). A message that failed to be written twice
  and was then written once stays on record and the sentinel is never written, where 752 says
  that a retry clears it. `DoneIsWhole` holds: the sentinel may be missing, never early.
* *A sidecar swept too late* (`dir_spool/mod.rs:1544`). Between the two deletions of an ack a
  producer that takes over can reuse the number; the new chunk loses its metadata, which 856 says
  is always there (`OneProducersMetadata`).

## 7. Plan

1. Done: the commit path, both runners, supervisor, registry; the stateful middlewares,
   endpoints and stores of section 2 with their failures; proofs of the safety of all of them.
2. Models: `exit_on_empty` of the spool; request-reply of the memory
   endpoint, switch and stream buffer; aggregate, whose windows commit like joins.
3. Pure algorithms against references: source ranges.
