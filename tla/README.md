# pg_stat_ch: a TLA+ model

pg_stat_ch is a PostgreSQL extension that records one event per executed
statement (and per captured log message), hands it through a ring buffer in
shared memory to a background worker, and lets the worker send it in batches to
ClickHouse or to an OpenTelemetry collector. This directory holds TLA+ modules
for its parts, the TLC configurations that check them on small instances, and
TLAPS proofs, for instances of any size, of the safety properties of the queue
and its statistics, the interner, the worker, the session, the export, the hooks
and the cache of normalized texts.

Paths below are relative to the repository root as it is checked out under
`src/`; the program itself is in `src/src/`.

## 1. The system

| part | state | operations | what makes it hard |
|---|---|---|---|
| event queue, `queue/shmem.c` | `head`, `tail`, slots, LWLock, counters, warn-once flag | enqueue one, enqueue a batch, dequeue, read statistics, reset | first test for "full" without the lock, a consumer without the lock, unsigned wrap-around, errors thrown in the locked section, cancellation at a warning |
| local batch, `queue/local_batch.c` | up to 8 events per backend | add, flush when full / at transaction end / at exit | flushes nested in adds, events in the buffer when the extension is switched off |
| query-text interner, `queue/query_intern.c` | shared hash table of reference-counted texts | acquire, resolve, release | allocation between two lookups, key collisions, a full table, reads after unlocking |
| string area, `queue/psch_dsa.c` | in-place DSA area, a handle per process | attach, detach at exit, allocate, resolve and free | exit callbacks run last-registered-first and may register others |
| background worker, `worker/bgworker.c` | latch, pending signals, pid in shared memory | wait, process signals, drain loop, restart; `pg_stat_ch_flush()` | wakeups, starvation of signals by a full ring, crashes, recycled pids |
| export, `export/stats_exporter.cc` | batch in hand, failure count | connect, dequeue, build, send, count, back off | failure of one step of several, partial success, drain loop after a failure |
| ClickHouse exporter, `export/clickhouse_exporter.cc` | columns, cached types, socket, TLS handles, client | build a block, connect, INSERT dialogue, close | lost answers, late answers, half-open connections, memory that goes with a connection |
| OTel exporter and Arrow builder, `export/otel_exporter.cc`, `export/arrow_batch.cc` | request or block under construction, gRPC stub | begin a row, append, send a chunk, send an Arrow block | some chunks of a batch confirmed, others not; a request that was moved away; columns left half filled |
| hooks, `hooks/hooks.c` | nesting level, top-level flag, start time, CPU baseline, cached names, capture guard | parse, executor and utility hooks, `emit_log_hook` | nested, interleaved and failing statements; recursion from the queue into the hook and back |
| normalized-query cache, `hooks/query_normalize_state.c` | hash table and LRU list | remember, look up, evict | allocation errors between the steps of an insertion |
| query normalization, `hooks/query_normalize.c` | none (a function) | rewrite constants | constants out of order, repeated, signed, of unknown length |
| settings and entry point, `config/guc.c`, `pg_stat_ch.c` | GUC variables | register, reload; SQL functions | `pg_stat_ch.enabled` changes while calls are in progress |

Backends call the hooks; the hooks call the queue; the queue calls the interner
and the string area under its lock; the worker dequeues without that lock,
gives the strings back, and runs the exporter. Warnings and errors raised inside
the queue come back into the log hook of the same backend. SQL functions read or
reset the counters, or signal the worker.

`PROJECT.json` lists the components with what is modelled of each, the hazards
at their lines, and for every definition the lines it stands for.

## 2. The modules

Each action is one handler, or, where processes interleave inside a handler, one
access to shared memory of it; process-local work between two accesses belongs
to the step before. Actions and variables keep the source's names where they
have one. A comment that begins with "Variant" marks a definition that is not
part of the specification: it is a faulty form of the definition below it, kept
to show that a property notices that fault.

* **EventChannel** - what the queue promises: a bounded first-in first-out
  channel in which an event that was given up never appears.
* **RingQueue** - the queue with the local batches in front of it.
  `ReadTail` ... `Unlock` step a backend through `PschEnqueueEvent` and
  `PschEnqueueBatch`; `Check`, `Fill`, `Publish`, `Count` are `TryEnqueueLocked`;
  `Overflow`, `Warn`, `Cancel` are `HandleOverflow`, whose warning ends with a
  check for interrupts (held off under an LWLock, while a transaction ends, and
  while a backend exits, so `Cancel` needs a call outside of these). `Throw` is
  an error in the locked section, leaving through `PG_FINALLY`.
  `DequeueStart/Copy/Advance` are `PschDequeueEvent`; `ResetBegin` ...
  `ResetFlag` are the stores of `PschResetStats`. `head` and `tail` are taken
  modulo `Modulus`. String storage is a part of `Fill` here and spelled out in
  QueryIntern. Atomics are sequentially consistent: the code's barriers are
  assumed to do their work.
* **QueueStats** extends RingQueue by `PschGetStats`, read by read.
* **QueryIntern** - the interner and the strings behind the slots, with
  producers and consumer stepped through acquiring, publishing, resolving and
  releasing. A section under a partition lock is one step. The ring is a
  sequence here, as RingQueue is shown to implement.
* **BgWorker** - the worker's life cycle with the pid it leaves in shared
  memory, its loop around an abstract export (latch, sleep, signals, drain loop,
  termination in the middle of a batch), its restart by the postmaster, and the
  sessions in `pg_stat_ch_flush()`. `Dies` is the case the code provides for in
  `PschSignalFlush`, "worker died without running on_proc_exit".
* **EventDelivery** - what the export promises: every event is stored, or given
  up in a step that records a failure; nothing is sent twice; only what was
  given up after it was sent may arrive out of order, or never.
* **ExportBatch** - `PschExportBatch` with its three exporters, failing and
  throwing at every step, the drain loop and the sleep after it, and requests
  that arrive after they were given up. It follows one life of the worker.
  **OTelChunk** has the operators on the request under construction
  (`ResetChunk`, `AddLogRecord`, and what `FlushChunk` leaves of it when it is
  confirmed, refused or throws), **ArrowBatch** those on the Arrow builder
  (columns, dictionaries, `Finish`, `Reset`, byte estimate).
* **ClickHouseInsert** - the connection with its memory, the building of the
  block and the INSERT dialogue, against an external server and network that may
  fail, answer late or not at all.
* **ExecutorHooks** - the executor and utility hooks of one backend and the
  statics they share, with instrumentation, CPU baseline and sampling.
* **NormalizeQuery** - normalization as operators on source texts of a few
  units (an identifier, a number, a minus sign, a blank, a semicolon, a
  parameter), next to `Reference`, which says in one line what the result should
  be.
* **NormalizeCache** - the operations of the LRU cache of normalized texts, and
  `CacheSpec`, the cache by itself under callers that use any ids and texts.
* **QueryText** composes the two: the parse hook normalizes and remembers, the
  executor hooks look up.
* **LogCapture** - one backend's queue calls and log hook as an explicit stack
  of calls, with errors unwinding it.
* **SessionNames** - the database and user names a backend caches for its events.
* **Session** composes LogCapture and SessionNames with the attachment to the
  string area and the exit callbacks, in either order of registration: one
  backend from its first event to its exit.
* **RingQueueProofs** (for RingQueue and QueueStats), **WorkerProofs** (for
  BgWorker and ClickHouseInsert, whose names are kept apart for it:
  `WorkerSpec`, `WorkerNext`), **QueryInternProofs, SessionProofs,
  ExportBatchProofs, EventDeliveryProofs, ExecutorHooksProofs,
  NormalizeCacheProofs** - theorems and proofs.
* **MCRingQueue, MCQueueStats, MCQueryIntern, MCQueryText** - instances for TLC;
  the other modules are instantiated by their `.cfg` alone.

The type invariant of a module, `TypeOK`, is a conjunct of one of the invariants
that its run checks.

RingQueue and EventChannel are composed by refinement
(`ImplementsChannel == Channel!Spec`, with the unread part of the ring as the
channel and dropped or discarded events as given up). ExportBatch and
ClickHouseInsert both implement EventDelivery (`ImplementsDelivery`): for the
first an event is an event, and an OTel batch counts as given up when its chunk
fails, though its remaining rows are still gone through; for the second an event
is a batch, pending until the server has stored it or `CommitBatch` has returned
false. QueueStats, QueryText and Session are compositions by extension.

## 3. The runs

`tlc -config <cfg> <module>`; the names are those of `PROJECT.json`.

### What holds

| run | bounds | shows |
|---|---|---|
| ring_queue | 2 backends, 2 events each, 2 slots, positions mod 4, batch of 1, one reset, one backend whose `enabled` is reloaded | the inductive invariant of the proof, with positions in range and a ring that is never overfull (`IInv`); producer and consumer never in one slot (`NoSlotRace`), every event in exactly one place (`EventsConserved`), counters that never run ahead and are exact until a reset (`CountersSound`), nothing left in an exited backend (`ExitedClean`), refinement of the channel (`ImplementsChannel`) |
| queue_stats | 2 backends, 1 event each, 1 slot, positions mod 8, one reset | a statistics row never counts an event that the head it was computed from does not cover, which is the snapshot the comment on `PschGetStats` asks for (`CountersNotAheadOfPositions`); `queue_size`, read as a signed number, is never above the capacity (`QueueSizeBounded`); a published event is dequeued (`PublishedIsDelivered`); a backend waiting for the lock gets through (`FlushReturns`) |
| query_intern | 2 backends, 3 texts of which 2 collide, 5 chunks, 3 slots, 1 failed allocation; with the queue lock held and a table of 3, and without it and a table of 1 | reference counts exact (`RefcountExact`), right text or none (`RightTextOrNone`), no leak or double free (`NothingLeaksOrDangles`) |
| bg_worker | ring of 3, batches of 2, 2 sessions, 2 lives of the worker | a worker in its loop is found (`RunningIsFound`); no wakeup is lost (`NoLostWakeup`); SIGTERM (`TermStops`), barriers and reloads (`SignalsServed`) are served from inside the drain loop; a flush gets out every event it found without the help of the timer (`FlushServed`); a dead pid that a flush meets does not stay (`StaleIsCleared`) |
| export_batch | 3 exporters, 5 events, batches of 3, 3 failures, chunks of 2 rows or 2400 bytes, blocks of 3000 bytes, 3 columns with 1 dictionary | an at-most-once delivery (`ImplementsDelivery`), counter not ahead of the receiver (`ExportedNotAhead`), each loss covered by a recorded failure (`LossReported`), backoff after a failed send (`BacksOffAfterSend`), blocks with all the rows begun since the last one and nothing else (`BlocksSound`), rows written into a live request or nowhere, and requests that outgrow their limits by no more than a row (`RequestsSound`) |
| clickhouse_insert | 4 batches, 3 connections, 3 columns, TLS, 3 packets per wait | acknowledged is stored (`AckedIsStored`), an at-most-once delivery of batches (`ImplementsDelivery`), no handle left open and no cached type used after its memory is freed (`NothingOutlivesConnection`) |
| query_text | all texts of up to 4 units and some of 5, 2 entries of 4 units, 1 failed allocation | an LRU cache while allocations succeed (`IsLru`); a sound list, and a table too large by no more than the failed allocations, in any case (`ListSound`); the text of an event is the reference normalization, cut to the cached length (`TextNormalized`) |
| executor_hooks | 2 queries (1 may lack an id), 2 utilities (1 untracked), depth 3, sampling of half of the fast events | nesting level exact (`NestingExact`), utility events right (`UtilityEventsRight`), an undisturbed query reports its own level, times and resources (`UndisturbedRight`) |
| session | local batch of 2, 2 roles of which 1 may be dropped | no self-deadlock (`NoSelfDeadlock`), calls come back (`CallsReturn`), capture enabled again after every call unless a query was cancelled inside one (`CaptureRestored`), attachments counted exactly and nothing left behind (`AttachmentsCounted`), the exit ends (`ExitCompletes`), an event built in a transaction names its user (`EventNamesItsUser`) |

### Where the code and its documentation disagree

Three runs end in a counterexample to what a document or comment says;
`PROJECT.json` quotes the sentence.

| run | what happens |
|---|---|
| ring_queue_drop | the consumer passes the `head` a backend has read; `head - tail` underflows, and an event is dropped from a ring with room (`DroppedOnlyWhenFull`) |
| log_capture_cancel | a query cancelled at the overflow warning, outside `PG_TRY`, leaves log capture disabled (`CaptureEnabledWhenIdle`) |
| top_level_flag | a top-level query that runs another one is reported as nested: both share one static (`TopLevelFlagRight`) |

Other disagreements met while modelling, for which no run is kept. The models
show them; the properties above are stated so that they do not claim otherwise.

* `PschGetStats` reads `enqueued` before `exported`, and `head` before `tail`: a
  row can report more exported than enqueued events, and a `queue_size` that
  underflowed to a negative number. `src/t/020_stats_consistency.pl:6` calls both
  impossible.
* A failed INSERT makes `PschExportBatch` return the number of rows begun, which
  `src/src/export/stats_exporter.h:14` says is 0; a full one makes the drain loop
  go round again before it sleeps.
* A batch whose INSERT fails is gone, where `src/t/011_clickhouse_reconnect.pl:69`
  says that events "should queue up, not be lost".
* A failed attempt to connect is not a consecutive failure, so no backoff follows
  it (`src/docs/get-started/introduction.mdx:44`).
* Chunks confirmed before a failing chunk of the same batch are not in
  `exported_events` (`src/docs/reference/functions.mdx:38`).
* A nested query reports the start time of the outermost
  (`src/docs/reference/events-schema.mdx:14`).
* With `min_duration_us = 0` nothing is sampled, whatever `sample_rate`
  (`src/docs/reference/configuration.mdx:96`).
* Of a constant with two signs, `- -1`, the number stays in the normalized text
  (`src/src/hooks/query_normalize.h:1-7`); `TextNormalized` excepts it.
* The user name is looked up in a transaction only: a message captured outside of
  one may carry the name of the role before, and a role that is renamed keeps its
  old name in the backends that have cached it.
* A message captured at exit after the last flush of the local batch can stay in
  the batch and is lost. If its capture fails inside the locked section, the
  flush that follows may meet its own lock; `NoSelfDeadlock`, `CallsReturn` and
  `ExitCompletes` except this case (`CaptureFailedAtExit`).
* The worker can leave between the read of its pid and the signal, which
  `src/src/worker/bgworker.c:89` means to exclude; BgWorker assumes that the pid
  is not given out again in that time.
* An entry of the normalized-query cache whose text could not be allocated stays
  in the table, out of reach of eviction
  (`src/src/hooks/query_normalize_state.h:20`).

### Why the bounds are enough

* Two backends: every conflict in the queue is between the lock holder, one
  other backend and the consumer. Two events per backend let a buffered event
  be followed by a second one, which is the flush inside an add.
* `Modulus = 2 * Capacity` makes the positions wrap around within four events,
  where the code needs 2^64. The underflow of the unlocked test does not depend
  on the modulus.
* A local batch of 1 (8 in the code) is full after one event. `MaxEvents` caps
  what backends report, so deadlock checking is off in these runs: backends may
  stop reporting, and exited backends do stop.
* The interner needs three texts: two that collide and one that does not; five
  chunks exceed what three slots and two producers hold at once only when an
  allocation fails, which `MaxOom` allows once.
* The exporter's batch of 3 has a chunk boundary with a row on either side of it;
  five events make a second, short batch, so the drain loop both repeats and ends.
  The limits in bytes are scaled down with the rows (`otel_log_max_bytes` is at
  least 64 KiB in the code, and `kMinBlockBytes` 65536): what matters is that
  each of the two sizes of a row can be the one that reaches them. The bytes per
  row and per request are the code's.
* In one of its two settings `query_intern` gives the callers less than they
  have: in the program the queue lock is held around every acquire, and the
  branch for a lost race cannot be reached. The setting shows that the branch,
  and the one for a full table, are right anyway.
* Two lives of the worker are one that stops or dies and one that a session which
  met the first can disturb. Pids are the numbers of the lives.
* `queue_stats` has one event per backend: the second one reuses the one slot.
  `Modulus = 8` leaves room for a negative `queue_size` beside every size the
  ring can have.
* One message of another exit callback is enough in `session`: it can come before,
  between and after the two callbacks, and either be captured or fail.
* Four units of text hold two constants with something between them, and the
  cached length of 4 (2048 in the code) cuts some of them.

### Fairness

* RingQueue and QueueStats: a backend inside a call, a reset inside its locked
  section, and the consumer keep running. No more events, transaction ends, exits or resets are
  promised. LWLocks are not promised to be fair either: with weak fairness of
  `Lock` alone a waiting backend could be overtaken for ever, and `FlushReturns`
  holds because the number of events, and so of overtakings, is bounded.
* BgWorker: the worker is scheduled and its I/O ends, since the code puts a
  deadline on every wait for the network; a session that has begun
  `pg_stat_ch_flush()` goes on. The end of a sleep, a restart, a signal or a call
  is promised to nobody, so `FlushServed` does not owe anything to the timer.
* Session: the backend runs, also through its exit callbacks, whoever else holds
  the lock releases it, and a waiter gets it in the end (strong fairness on
  `Lock`: LWLocks queue their waiters). No statement, message or exit is
  promised to begin.

## 4. The proofs

`tlapm <module>Proofs.tla`. The theorems hold for every value of the constants
that the named `ASSUME`s of the modules allow; TLC evaluates these on every run.
The proof that an invariant is kept has a lemma or a step for each action, and
below it one for each conjunct that the action disturbs. The inductive invariants that are not properties of a run were
checked with TLC on the constants of the module's run before they were proved.

| theorem | states | for every |
|---|---|---|
| `Invariance`, `TypeCorrect`, `RingBounded`, `SlotRaceFree`, `ExitIsClean` (RingQueue) | `IInv`, `TypeOK`, `Bounded`, `NoSlotRace`, `ExitedClean` | set of backends, capacity, width of the positions that the capacity divides and exceeds (the code: powers of two, 2^64), batch size and bound |
| `QueueInvariance`, `NothingVanishes`, `CountersRight`, `QueueIsChannel` (RingQueue) | `QInv`, `EventsConserved`, `CountersSound`, `ImplementsChannel` | the same |
| `StatsInvariance`, `RowConsistent`, `QueueSizeRight` (QueueStats) | `StatsInv`, `CountersNotAheadOfPositions`, `QueueSizeBounded` under a condition | the same, and width of `queue_size` that divides that of the positions and exceeds two capacities (the code: 2^32, and at most 2^22 slots) |
| `InternInvariance`, `RefcountsRight`, `TextsRight`, `ChunksOwnedOnce` (QueryIntern) | `IInv`, `RefcountExact`, `RightTextOrNone`, `NothingLeaksOrDangles` | set of backends, texts, keys and chunks, table and ring size, with and without the queue lock |
| `WorkerInvariance`, `NoWakeupLost`, `WorkerFound` (BgWorker) | `WorkerInv`, `NoLostWakeup`, `RunningIsFound` | set of sessions, ring and batch size, number of restarts |
| `SessionInvariance`, `QueueNotRelocked`, `CaptureComesBack`, `AreaReleased`, `NamesItsUser` (Session) | `IInv`, `NoSelfDeadlock`, `CaptureRestored`, `AttachmentsCounted`, the action property `EventNamesItsUser` | batch size, set of roles |
| `ExportInvariance`, `CountsNoMoreThanStored`, `NoSilentLoss`, `FailedSendBacksOff`, `BlocksHoldTheirRows`, `RequestsWithinLimits`, `ExportDelivers`, `ExportedOnce` (ExportBatch) | `IInv`, `ExportedNotAhead`, `LossReported`, `BacksOffAfterSend`, `BlocksSound`, `RequestsSound`, `ImplementsDelivery`, `AtMostOnce` of the delivery | batch, chunk and block size, set of columns, dictionaries and row sizes, number of events and failures |
| `InsertInvariance`, `AcknowledgedStored`, `ConnectionClean`, `InsertDelivers`, `InsertedOnce` (ClickHouseInsert) | `IInv`, `AckedIsStored`, `NothingOutlivesConnection`, `ImplementsDelivery`, `AtMostOnce` of the delivery | number of batches, connections, columns, packets per wait, with and without TLS |
| `DeliveryInvariance`, `DeliveredAtMostOnce` (EventDelivery) | `IInv`, `AtMostOnce` | batch size, number of events |
| `HooksInvariance`, `NestingLevelRight`, `UtilitiesTold`, `UndisturbedTold`, `ReportedOnce` (ExecutorHooks) | `HooksInv`, `NestingExact`, `UtilityEventsRight`, `UndisturbedRight`, one event per statement and only of an ended one | sets of queries and utilities, depth of calls, number of errors and reloads, sampling |
| `CacheInvariance`, `CacheIsLru`, `CacheListSound` (NormalizeCache) | `CacheInv`, `IsLru`, `ListSound` of `CacheSpec` | set of ids and of texts, size of the cache, cached length, number of failed allocations |

### The queue

`NoSlotRace` and the bound on the ring are not inductive as they stand.
`Bounded` is kept by `Publish` only
because the test in `Check` still holds when `head` is stored, which needs: the
lock is held by whoever is between the two (`LockInv`), `head` has not moved and
`tail` has only moved forward since (`FillInv`), and the consumer advances only
over something it found (`ConsumerInv`). `NoSlotRace` follows from `FillInv`,
`ConsumerInv` and arithmetic: positions less than a capacity apart have different
slots, also across the wrap, because the capacity divides the modulus.
`UnreadInv` (unread slots hold events) types what the consumer copies, and
`WorkInv` and `ExitInv` type what is pushed and what is left at exit. `IInv` is
their conjunction; TLC checks it in run ring_queue.

`EventsConserved` speaks of sequences put together from a backend's buffers.
`PlaceInv` says the same of sets (`HeldSet`, `Gone`) and adds that what a backend
holds it reported itself, so that two backends hold nothing in common. Then most
actions are one of three moves: events pass between buffers of a backend
(`KeepEvents`), leave it (`MoveEvents`), or stay (`SameEvents`). What `Publish`
does to the unread part of the ring is shown slot by slot, from the arithmetic of
slots (`PublishAppends`, `AdvanceTakes`, `FillKeepsUnread`). `CountInv` adds the
counters, with the one backend that may be between the store to `head` and the
increment. The refinement of EventChannel needs nothing more: an event a backend
holds is fresh, so `Publish` is `Put`, `DequeueAdvance` is `Get`, dropping and
discarding are `GiveUp`, and every other step leaves the channel alone.

For a statistics row, `PositionInv` relates the positions to the numbers of
events published and dequeued, which they are modulo the word, and `RowInv` says
at each read what is known of the fields read so far. `CountersNotAheadOfPositions`
follows for every width. `QueueSizeBounded` does not: if 2^31 events were
published between the reads of `head` and `tail`, the difference cut to 32 bits
would wrap. `QueueSizeRight` therefore states it for the rows during whose
reading at most half of the range of `queue_size` is published; in the instance
that TLC checks this is always so.

### The interner

`RefcountExact` counts holders of three kinds: published slots, slots being
filled, and producers between the lookup and the read of the object.
What makes it inductive is that a reference held by anyone is the object of the
entry for its text (`RefsSound`): then the count that `ReleaseRef` takes from one
to zero had the dequeued slot as its only holder, and the chunk freed after
unlocking is out of everybody's reach. `ObjectsOwned` and `BodiesOwned` say who
owns a chunk; `ProducerPlaces` and `ConsumerPlaces` what the two sides hold at
each of their steps. The facts about finite cardinalities that counting needs are
written down once (`CardinalityLaws`); the lemmas that count assume them, and
`Cardinalities` at the end derives them from the library.

### The worker

`NoLostWakeup` needs `Attended`: a flag that is set while the latch is reset is
one that the present cycle of the loop has yet to look at. `RunningIsFound` needs
`PidsPast`: a session that is about to clear a pid has that of a worker which is
gone, and the pids of later ones differ.

### The session

The stack of calls has a shape (`Chained`): the log hook is the outermost call or
not there, an event goes to a full batch from one place, and a flush calls
nothing. Together with `Guarded` (capture is disabled in every call until the
place where it is given back) this keeps the hook from being entered inside the
queue, so that whoever owns the lock is in its locked section (`Owned`).
`Registered` relates the list of exit callbacks to the handle and the batch.

### The export and the delivery

`AtMostOnce` alone is not inductive: nothing in it keeps the pending events apart
from each other, so that a step that stores two of them could not be shown to
keep it. `Numbered` adds what is needed: the pending events are numbered on from
`Resolved`, the number of events no longer pending, and whatever is stored or on
its way is numbered up to it. A step that takes the first `k` events off moves
`Resolved` by `k` (`Taken`), so what it stores or sends is new.

ExportBatch and ClickHouseInsert are shown to implement EventDelivery step by
step, and `ExportedOnce` and `InsertedOnce` then follow from the theorem about
EventDelivery, instantiated with the refinement mapping. For ExportBatch the
invariant accounts for every event (`Conserved`), relates what is counted to what
is confirmed (`Counted`), the columns and dictionaries to the rows begun
(`Filled`), and the failure count to what the last send did (`Remembered`; only
an Arrow batch clears it before it knows how it ends). For ClickHouseInsert,
`Handles` says what is open at each place of `EstablishNewConnection` and after
it, `Dialogue` which packets are on the way at each place of the INSERT, and
`Past` that a batch being committed is not yet stored before the server has
decided.

### The hooks

An event of a query is built from statics that every statement writes, so what
it tells depends on what ran in between. `StaticsOwn` says what the statics hold
as long as no other statement has begun since a top-level query did; the ghost
`began`, ordered by the clock (`Clocked`), says whether one has. `LocalsOwn` says
the same of the locals of a utility, without a condition: they are on the C
stack. `Timed` bounds what an `Instrumentation` can have run for. `NestingExact`
needs `CallsOpen`: the calls in progress are of statements that have begun and not
ended, so a utility that begins changes nothing that an outer call is counted by,
and one of each at most, so the statement that ends has no other call below.
`EventsOfEnded` keeps an event from being changed by what comes after its
statement's end.

### The cache

`IsLru` compares the list with `used`, all ids in the order of their last use.
As an inductive invariant it is stated place by place, and with both lists free
of duplicates (`LatestOf`, `Distinct`): to promote an entry moves one place to
the front and those before it back by one (`Moved`), in the list and in `used`
alike, because the entry has the same place in both; to enter a new one puts it
before all (`Preceded`) and takes the last off when the list is full. For
`ListSound`, `Orphans`, the entries that are in the table and not on the list,
are no more than the failed allocations. Every step of QueryText is by its
definition one of `CacheNext` or leaves the cache alone, so what is proved of
`CacheSpec` holds there.

### What is only model-checked

* Liveness (`PublishedIsDelivered`, `FlushReturns`, `TermStops`, `SignalsServed`,
  `FlushServed`, `StaleIsCleared`, `CallsReturn`, `ExitCompletes`): fairness and
  `ENABLED` are out of this prover's reach.
* `TextNormalized`: normalization is a recursive computation over the text, and
  what it computes for every text needs an induction over data.
* `QueueSizeBounded` without the condition of `QueueSizeRight`, see above.

## 5. What is not modelled

* The encoding of columns, protobuf messages and Arrow blocks, gRPC, TLS and the
  clickhouse-c library: only their outcomes appear. The value of a column is the
  number of its row; `MakeCol`, `LogNegativeValue` and the names and types of
  columns are data.
* `ConnectWithTimeout` and the polling inside one receive: a wait ends well, or
  it fails.
* `ParseExtraAttributes` of the Arrow builder, which reads a setting, and
  `MaybeDumpArrowBatch`, which writes a file for debugging and changes nothing
  else.
* The counters that the hooks copy out of the instrumentation into an event, and
  the time stamps, the percentage, the texts and `dsa_oom_count` of
  `pg_stat_ch_stats()`: data copied or formatted.
* Registration of settings, hooks and shared memory in the postmaster: it
  happens once, in a fixed order, before any process runs.
* Weak memory: atomics are sequentially consistent in the model.
* Code that is not reached: the reconnection inside `CommitBatch` for a missing
  client (`PschExportBatch` connects before it dequeues), and
  `PschResetRetryState`, which has no caller.

## 6. Plan

Done: the queue with its refinement; statistics; interner; worker and flush;
export, row by row, with an abstract delivery that it and the ClickHouse dialogue
implement; hooks with sampling and CPU time; query text from normalization to the
event; one session from its first event to its exit; and the proofs of section 4.

Next, extending the model: a composition of BgWorker, ExportBatch and RingQueue,
with termination in the middle of a batch, for end-to-end conservation of events.
