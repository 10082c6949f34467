# TLA+ models of the shakti storage engine

These modules model `src/shakti/shakti.go`, the core of pranadb's cloud-backed
LSM key/value engine. The engine writes into an in-memory memtable. It rotates
a full memtable out and flushes it as an SSTable: the upload goes to a cloud
object store, and the table is then registered with a controller. Readers
merge everything into one ordered iterator. The spec is `spec.md`; the models
are written from the Go code, and where the two disagree the code is what is
modelled.

## 1. Inventory

### Components, their state and operations

| Component | Code | State | Operations |
|---|---|---|---|
| Engine lifecycle | `NewShakti`, `Start`, `Stop` (43-81) | `started`, `stopWg`, `startStopLock` | start the flush loop and the timer; stop the timer, close `mtFlushChan`, wait for the loop |
| Write path and dedup | `Write`, `checkDedupCache`, `putDedupEntry`, `createDedupKey`, `doWrite` (103-183, 248-254) | `lastCommittedBatchSequences` (processor → last seq), the active `memtable` | admit or drop a batch by sequence number, add the dedup row, write under `mtLock.RLock`, rotate and retry when the memtable is full |
| Rotation | `replaceMemtable`, `replaceMemtable0`, `forceReplaceMemtable` (185-232) | `memtable`, `arena`, `mtLastReplace`, `mtLock` | under `mtLock`: if the caller's memtable is still active, install a new one, splice it into live iterators, append the old one to the flush queue, send on `mtFlushChan` (blocking when full), record the time |
| Periodic rotation timer | `scheduleMtReplace`, `maybeReplaceMemtable` (484-512) | `mtReplaceTimer`, `mtLastReplace`, `mtMaxReplaceTime` | fire after `MemTableMaxReplaceTime`; rotate when the predicate says it is due; re-arm |
| Flush queue and run loop | `mtFlushRunLoop` (380-445), `mtFlushEntry` (355-378) | `mtFlushQueue` (a Go slice of entries), `mtFlushQueueLock`, the loop's local `pos`, `mtFlushChan` | per signal: register the uploaded prefix in FIFO order, compact the slice, start the upload of entry `pos` |
| Upload | `flushMemtable` (450-482) | cloud store, table cache, the entry's `ssTabInfo` | build the SSTable, add it to cache and store, set the info through a pointer into the queue, signal the loop |
| Size estimates | `bufSizeEstimates` (329-353) | two atomic `uint32` | racy max-watermark ×1.05 |
| Iterators | `NewIterator`, `removeIterator`, `updateIterators`, `shaktiIterator` (234-246, 256-327, 514-569) | `iterators` registry, per iterator `rangeStart`, `rangeEnd`, `lastKey`, merging iterator | look up SSTables at the controller, then under `mtLock.RLock` stack memtable, queued memtables (newest first) and SSTables; on rotation prepend a memtable iterator from `IncrementBytesBigEndian(lastKey)`; `Current` records `lastKey` |
| Dedup recovery | `LoadLastBatchSequence` (147-165) | the dedup rows in registered SSTables; the leaked iterator in `iterators` | after a restart, read the newest dedup row of a processor through an iterator and restore its sequence |
| SQL AST | `src/command/parser/ast.go` | none | parser data types, `String()` formatting, and `ColumnDef.ToColumnType` (70-107), which turns a column declaration into a column type or an error |

External collaborators (memtable/arena, SSTable builder, table cache, object
store, controller, merging and chaining iterators, `common.*` helpers) are not
in `src/`; they appear only through the contracts of spec §6.

### How the parts interact

* Writers share `mtLock` in read mode; rotation, iterator registration and
  iterator close take it in write mode. Rotation sends on `mtFlushChan`
  while it still holds `mtLock`.
* The flush queue is shared by rotation (append) and the run loop (drain,
  compact, index). Both use the spin lock `mtFlushQueueLock`. Upload
  goroutines get a raw pointer `&s.mtFlushQueue[pos]` and write through it
  **without** the lock, after the loop has released it.
* `mtFlushChan` carries two kinds of signal: one per rotation and one per
  finished upload. The loop does not know which kind it receives.
* The timer callback runs under `startStopLock`, and so does `Stop`. Writers
  take neither lock.
* Iterators hold memtables. Rotation splices a new memtable iterator into
  every registered iterator.

### What is hard

* **Slice reallocation under a live pointer.** `append` at full capacity
  (line 224) and the loop's compaction (416-418) both move the queue to a new
  backing array. An upload still running at that moment writes its info
  into the dead array (line 472), so the entry never becomes registrable.
* **Signals are counted, not matched.** A finished upload's signal can arrive
  after its entry was already drained by an earlier signal. Then the loop
  reaches `s.mtFlushQueue[pos]` with `pos == len` (line 428) and panics.
* **Retry after a full memtable** goes back to `checkDedupCache`. That call
  stored the batch's own sequence on the first pass, so the batch is dropped
  and `Write` returns nil.
* **Unsigned time arithmetic.** `mtLastReplace-now` (line 504) underflows, so
  the timer rotates on every tick. The spec records this itself, as an open
  question.
* **Crash and restart.** Only registered SSTables survive a crash. The
  dedup map is rebuilt by `LoadLastBatchSequence`, which must find the
  newest dedup row of the processor among several memtables' rows.
* **Narrowing.** `ToColumnType` converts a TIMESTAMP parameter to `int8`
  (ast.go line 98) before its range check.
* **Shutdown.** `Stop` closes `mtFlushChan`. Writers (rotation) and upload
  goroutines still send on it, and a send on a closed channel panics.
* **Controller failure.** The loop `return`s at line 407 while holding
  `mtFlushQueueLock` and without calling `stopWg.Done()`. The next rotation
  then spins forever inside `mtLock`, and `Stop` never returns.
* **Readers.** `NewIterator` asks the controller for SSTables (line 258)
  *before* it takes `mtLock` and the queue lock. If a memtable is registered
  and drained from the queue in that window, the iterator sees it in neither
  place. The splice resumes from `IncrementBytesBigEndian(lastKey)` (line 238),
  the next key *of the same length*, so new keys that extend `lastKey` are
  skipped.

### What makes each component correct

* Flush pipeline: every rotated memtable is registered exactly once, in
  rotation order. Only stored SSTables are registered. No uploaded result is
  lost. The loop never panics. Every rotated memtable is eventually
  registered.
* Write path: for each processor, batches reach storage at most once and in
  sequence order. The dedup cache never claims a batch that storage does not
  hold. A batch reported written is in a memtable. Its completion eventually
  fires.
* Rotation: one rotation per memtable, even when writers and the timer race.
  The timer rotates only when the interval has elapsed.
* Iterators: keys come out in ascending order, each at most once. Every key
  visible at creation or committed later in range is delivered.
* Recovery: across crashes and restarts, no batch reaches durable storage
  twice or out of order.
* `ToColumnType`: it accepts exactly the declarations its error messages
  allow, with the values written.

## 2. Plan

Modules in order of importance, each composing the previous:

1. **`FlushPipeline`** (done): rotation, flush queue with slice capacity and
   stale pointers, run loop, uploads, `Stop`'s close.
2. **`Engine`** (done) `EXTENDS FlushPipeline`: writers with the dedup cache
   and full-memtable retry, concurrent rotation with the idempotence check,
   the periodic timer with w-bit unsigned clock arithmetic, `Stop` under
   `startStopLock`.
3. **Controller failure** (done, in `FlushPipeline`): the controller error
   path at line 407, with the spin lock left held and `stopWg.Done` skipped,
   and `Stop`'s `stopWg.Wait`. Checks: registration order survives a failed
   drain (pass), and `Stop` returns whenever the loop has not failed (pass)
   but not after a controller error (`StopEventuallyReturns`, violated). Also done: every rotated memtable is eventually
   registered, under weak fairness of the loop and the uploads.
4. **`Iteration`** (done, one iterator) `EXTENDS FlushPipeline`: byte-string
   keys, memtable contents, `NewIterator`'s two-phase construction,
   `IsValid`/`Current`/`Next`, `Close`, the splice with
   `IncrementBytesBigEndian`. Checks: no missed key for fixed-length keys
   (pass), and missed keys across the lookup/drain race and across the splice
   with variable-length keys (violations). The registry of several
   iterators is `IteratorRegistry` (below).
5. **Refinement** (dropped): an abstract `OrderedCommit` spec (rotated
   memtables committed in FIFO order) was refined by `FlushPipeline`. Every
   step it constrains is already fixed by `FlushQueueAccounting`, an
   append-only `registered` and an incrementing `memtable`, and no mistake
   in the code broke it without breaking that invariant, so it was removed.
6. **Merging iterator**: newest-wins merge over prioritised sources, as a
   RECURSIVE operator checked against a reference definition (set of keys,
   highest-priority value) over bounded inputs, plus the chaining bug at
   line 310.
7. Completion liveness for writers.
8. **`Recovery`** (done) `EXTENDS Engine`: a crash at any step, restart as
   `NewShakti`/`Start` with only the registered SSTables kept, and
   `LoadLastBatchSequence` before a processor writes again. Check: no batch
   is applied twice across incarnations (pass).
9. **`ColumnDef`** (done): `ToColumnType` as an operator, checked against
   the rules of its error messages over bounded declarations (violation).

## 3. Modules

### `FlushPipeline.tla`
State corresponds to the code as follows:

* `memtable` is `s.memtable`; memtables are numbered in creation order.
* `fq` is `s.mtFlushQueue` as the live backing array holds it, as
  `[mt, info]` records. `fqCap` is its capacity.
* `pos` is the loop's local `pos`. `chan` counts buffered signals, and
  `chanClosed` records `close(mtFlushChan)`.
* `rotating` means `mtLock` is held between the append and the send.
  `spinning` means the rotation is stuck on the spin lock that a failed run
  loop never released.
* `upload[m]` is the upload goroutine of memtable `m`. `stalePtr` holds the
  memtables whose goroutine's `flushEntry` points into a dead array.
* `stored` is the cloud store, and `registered` lists the controller's
  registrations in call order.
* `loop` is the run loop's state: running, exited (it called
  `stopWg.Done`) or failed (it returned at line 407). `stopped` means `Stop`
  came back from `stopWg.Wait`. `crash` is a runtime panic, which ends the
  process.

Actions:

* `RotateBegin(old)` and `RotateSignal` are the two halves of
  `replaceMemtable0`, split at the blocking send.
* `RotateBegin` has a second branch for a failed loop. The rotation then
  spins on the spin lock for ever under `mtLock`. The new memtable it
  installed first is left out, because every reader of `s.memtable` needs
  `mtLock`.
* `LoopReceive` is one whole loop iteration under the spin lock. Its parts
  are `Registrable` (drain), `Compact`, `Rewind` (`pos -= i`), then one of
  three ends: continue, start an upload, or panic at index `pos`.
* `LoopRegisterFail` is the same iteration when `ApplyChanges` fails for
  the k-th stored entry: the first k-1 are registered, and then the loop
  returns holding the spin lock.
* `UploadStore` and `UploadFail` are the two outcomes of `flushMemtable`.
  `UploadSignal` is its final send.
* `StopClose` is `close(mtFlushChan)`. `LoopExit` is the end of the
  `for range`, followed by `stopWg.Done()`. `StopReturn` is `Stop`'s
  `stopWg.Wait()` returning.

`GrowCap` is Go's slice growth for this element size: capacities 0, 1, 2, 4
and so on.

### `Engine.tla`
`EXTENDS FlushPipeline`. Per processor, the `Write` loop has these steps:

* `Submit`: a new sequence, or a replay of an earlier one.
* `CheckDedup`: `checkDedupCache` plus `putDedupEntry`.
* `DoWrite`: the memtable write under the read lock, with the arena modelled
  as an entry count (`Fits`).
* `WriterReplace`: `replaceMemtable` with the memtable `doWrite` saw, then
  loop back.

The timer has these steps:

* `TimerFire`: the callback with `maybeReplaceMemtable`'s read-locked test
  `Due`.
* `TimerReplace`: its `replaceMemtable`.
* `EngineRotateSignal`: the end of rotation. It records `mtLastReplace` and
  resumes whoever rotated.

`Stop` runs only outside a timer callback, because both take
`startStopLock`. `Tick` advances the monotonic clock. The clock is
`ClockModulus` = 2^w wide. That is 16 in the model instead of 2^64; every
reading is below it, so `(last - now) % 2^w` gives the same comparison
outcome as the 64-bit code for these readings.

### `Iteration.tla`
`EXTENDS FlushPipeline`, and models one range iterator `[RangeStart,
RangeEnd)`:

* Keys are byte strings, that is sequences of byte values. `BytesLess` is
  `bytes.Compare`, and `IncrementBytesBigEndian` is the big-endian +1 of
  `common` (not under `src/`; modelled from spec §4.3 and §9).
* `content[m]` is memtable `m`'s key set. The SSTable flushed from it holds
  the same keys, so a source of the merging iterator is a record
  `[mt, from]`: a memtable (or its SSTable) read from key `from` on.
* Sources are live views. `IterStep` (`IsValid`, `Current`, `Next`) yields
  the least key above `lastKey` over all sources. Values, and the per-source
  cursors of the iteration package, are left out.
  A memtable source sees writes made after it was created. Spec §6 calls
  the memtable's `new_iterator` a "snapshot", but the code relies on live
  sources: `replaceMemtable0` calls `updateIterators(s.memtable)` right
  after `mem.NewMemtable` (lines 217-219), so every spliced source starts
  over an empty memtable and could never deliver anything as a snapshot.
  Spec §4.3 step 3, §8.5 and scenario 2 (a key written after the rotation
  is delivered) say the same.
* `Put` is `doWrite`'s write into the active memtable.
* `IterRotate` is `replaceMemtable0` together with its `updateIterators`
  call (`Splice`).
* `NewIteratorLookup` is the controller call, made with no lock held.
  `NewIteratorOpen` is the rest of `NewIterator`, under `mtLock.RLock`.
* `IterClose` is `Close`/`removeIterator`.
* `dueAtOpen` and `dueLater` are observation variables. They record the
  keys the iterator owes: those visible at creation, and those written
  later beyond its position.

### `Recovery.tla`
`EXTENDS Engine`, and adds a process that may die at any step:

* `Restart` is a crash followed by `NewShakti` and `Start`. Every variable
  of `FlushPipeline` and `Engine` returns to its initial value. The
  batches of the memtables registered so far (`RegisteredBatches`) are
  appended to `durable`, which is what the controller and the cloud store
  keep. Processors keep `nextSeq`, and may replay any earlier batch.
* `LoadLastBatchSequence(p)` runs once per processor and incarnation,
  before the processor's next `Submit`. That order is the caller's duty,
  as the spec describes recovery. It stores `NewestDedupRow(p)`, the
  sequence of the last dedup row of `p` in `durable`, when there is one.
  This is the first entry the merging iterator returns over
  `[dedupKey(p), dedupKey(p)+1)`: only durable rows are in range, since
  `p` has written nothing in this incarnation.
* `iterators` counts the iterators `LoadLastBatchSequence` leaves in
  `s.iterators`; it never calls `Close`.

### `IteratorRegistry.tla`
Several `NewIterator` callers against the registry `s.iterators` and the
locks around it; the keys and sources of each iterator are left to
`Iteration`.

* `itPc[i]` is iterator `i`'s caller: not started, inside the map
  assignment of line 319 (holding `mtLock.RLock`), returned, or closed.
  `registry` is the key set of `s.iterators`.
* `Open(i)` is `NewIterator` up to the assignment; `Assigned(i)` is the
  assignment and the return. When another caller is inside its own
  assignment, Go gives the data race no meaning, so `Assigned` chooses
  among the outcomes the runtime produces: the fatal "concurrent map
  writes", this insert lost, or both kept.
* `Close(i)` (`removeIterator`) and `Rotate` (`replaceMemtable0` with
  `updateIterators`) take `mtLock` exclusively, so they wait while any
  caller holds the read lock (`ReadLocked`). `Rotate` counts a splice in
  `spliced[i]` for every iterator in the map; `openedAt[i]` is the rotation
  count when `i` was returned.

### `ColumnDef.tla`
`ToColumnType(t, params)` is `ColumnDef.ToColumnType`, with `Int8`, Go's
conversion to `int8`, for the TIMESTAMP parameter. `Documented(t, params)`
states the rules that the function's error messages give. One state per
declaration: the type name and a parameter list of up to `MaxParams`
values from `Numbers`.

## 4. Runs

| Run | Module/cfg | Expect | Shows |
|---|---|---|---|
| `flush_pipeline` | `MCFlushPipeline.cfg` | pass | Uploads and controller calls may both fail. The queue accounts for every rotation in FIFO order, and after a drain that failed part-way the registered-but-queued entries are exactly the last ones registered (`FlushQueueAccounting`). `pos` stays in step with started uploads (`UploadBookkeeping`). A stored SSTable's info is lost only through a stale entry pointer: compaction, slice growth and a failed drain never drop a published result (`StoredResultLostOnlyByStalePointer`). `Stop` returns unless the process panicked or the loop failed (`StopReturnsUnlessLoopFailed`). Every rotated memtable is eventually registered unless a queued upload failed, the loop failed, `Stop` intervened or the process panicked (`RotatedEventuallyCommitted`). So a lost upload result always ends in the index panic, never in a silent stall. |
| `flush_index_panic` | `MCFlushPipeline_NoIndexPanic.cfg` | violation | An upload's signal arriving after its entry was drained makes the loop index past the queue (line 428). |
| `flush_lost_upload` | `MCFlushPipeline_UploadResultNotLost.cfg` | violation | A second rotation grows the slice while the first upload runs. The upload's info is written to the dead array, and the memtable can never be registered. |
| `flush_stop_hangs` | `MCFlushPipeline_StopEventuallyReturns.cfg` | violation | After a controller error the loop has returned without `stopWg.Done()`, so `Stop` waits for ever (line 407). |
| `flush_send_after_stop` | `MCFlushPipeline_NoSendOnClosedChannel.cfg` | violation | A rotation (or upload) after `Stop` sends on the closed channel. |
| `iteration_splice` | `MCIteration.cfg` | pass | Keys are one byte long; uploads and controller calls may fail. Across rotations and drains, every key written after the iterator's creation beyond its position is delivered or still ahead (`LaterKeysDelivered`). |
| `iterator_map_race` | `MCIteratorRegistry.cfg` | violation | Two `NewIterator` calls assign into `s.iterators` together under `mtLock.RLock` (line 319). One insert is lost, the next rotation does not splice the new memtable into that open iterator, and its later keys are never seen (`OpenIteratorsSpliced`). |
| `iteration_lookup_race` | `MCIteration_CreationKeysDelivered.cfg` | violation | A memtable is registered and drained between `NewIterator`'s controller lookup and its queue snapshot. Its keys are in neither, and are never delivered (line 258). |
| `iteration_splice_skips` | `MCIteration_LaterKeysDelivered.cfg` | violation | With keys `<<0>>`, `<<0,0>>`, `<<1>>`: after `<<0>>` is delivered and the memtable rotated, the splice starts at `<<1>>`, and a later write of `<<0,0>>` is never delivered (line 238). |
| `recovery_dedup` | `MCRecovery.cfg` | pass | Two writers, the timer, rotation races and upload failures, plus a crash at any step and a restart with `LoadLastBatchSequence`. The queue accounting holds in each incarnation. Across incarnations, each processor's batches reach storage once each and in sequence order (`DurableNotReapplied`). |
| `engine_retry_drops_batch` | `MCEngine_DedupRecordsWrittenBatches.cfg` | violation | A batch that finds the memtable full is recorded in the dedup cache and then dropped by its own retry. |
| `column_type_narrowing` | `MCColumnDef.cfg` | violation | `TIMESTAMP(256)` is accepted as `TIMESTAMP(0)`: `int8(256)` is 0, which passes the 0..6 check. With 256 and 262 left out of `Numbers`, TLC instead reports `TIMESTAMP(0, 0)`: a list of two parameters is silently ignored. |

Bounds:

* Four rotations in `MCFlushPipeline` make the slice grow 0→1→2→4. They
  also allow two uploads in flight during a compaction, and a memtable
  queued behind a stalled head. The `flush_pipeline` run, with upload and controller failures, reaches
  31,695 states in about 35 s; five rotations take five minutes and add no new
  kind of step.
* Two processors and capacity 3 in `MCEngine` and `MCRecovery` (a batch
  plus its dedup row is 2 entries) make every second batch find the
  memtable full. Both writers can then hold the same full memtable.
* `MaxTime` 4 with `MaxReplaceTime` 2 in `MCEngine` lets the timer fire
  after a writer's rotation. `MCRecovery` uses `MaxTime` 2 with
  `MaxReplaceTime` 1, which still lets the timer fire before and after a
  rotation.
* `MCRecovery` allows one restart. Two rotations per incarnation let one
  processor's batches land in two registered memtables, so recovery must
  pick the newer of two dedup rows. It takes about 1.5 million states.
* `MCColumnDef` tries every type with up to two parameters from
  {0, 1, 6, 7, 30, 31, 65, 66, 256, 262}. These are the edges of each rule,
  plus two values that `int8` maps into 0..6.
* `MCIteration` uses two rotations, four writes, a channel of capacity 1
  and two or three keys. That is enough for a rotation while the iterator
  is open, a write to the new memtable, and a registration between the two
  steps of `NewIterator`.
* `MCIteratorRegistry` uses two iterators and one rotation: the least that
  lets both callers be in the map assignment and a rotation follow.
* `MCRecovery` uses symmetry over processors. It checks no liveness, and
  every property is symmetric in processors.

Deadlock is checked in every run. A `Terminated`/`EngineTerminated` stutter
is allowed only after a panic or when every actor is idle or held by a model
bound, so a real deadlock (for example, senders blocked on a full channel
with no receiver) is still reported.

Fairness is defined as `Fairness` in `FlushPipeline`: weak fairness for the
run loop, the upload goroutines and blocked senders. The Go runtime
schedules a runnable goroutine eventually. Callers' rotations, writes and
`Stop` get no fairness. `StopReturn` has weak fairness, since it is the
return of a goroutine blocked in `stopWg.Wait`. A failed run loop stutters
in `Terminated`, because the spec calls that failure fatal to the loop. The
`StopEventuallyReturns` then fails only because `Stop` never returns, and
the pass run states the same liveness for a loop that has not failed
(`StopReturnsUnlessLoopFailed`).
`RotatedEventuallyCommitted` relies on the same fairness. Its escape
clauses (a failed upload in the queue, a failed loop, `Stop`, a panic) are exactly the ends
the spec allows a rotated memtable. `Iteration` checks only safety, so it
states no fairness, and neither does `Recovery`.

## 5. Not modelled (yet)

* `IteratorRegistry` and `Iteration` are separate: the registry model
  counts splices, and the key-level model has one iterator. The lost
  splice is shown by the registry model; what it costs in keys is the
  same as an iterator missing every later memtable.
* The chaining branch for SSTable groups (line 310) builds the chain over
  the outer `iters` slice, which still holds nil slots and the chain
  itself. What that does depends on the iteration package, which is not
  under `src/` (plan 6).
* The iterator `LoadLastBatchSequence` never closes is only counted. It
  costs memory and splice work, which no property of a bounded model tells
  apart.
* The timer underflow at line 504 is modelled (`Due`), and no run is spent
  on it: the spec itself records it.
* The spec says a fresh engine's `LoadLastBatchSequence` rebuilds the
  dedup map "bit-identically to the pre-crash state". Its scenario 4 expects
  the sequence of a batch that crashed before registration. The code
  recovers only registered rows, and that is what `DurableNotReapplied`
  needs. If the lost batch were taken for seen, its replay would be dropped,
  and the batch lost.
* Writers in `Engine` rotate without splicing, because `Engine` has no
  iterators. `Iteration` rotates through `forceReplaceMemtable` only.
* Size estimates (`bufSizeEstimates`, 329-353): two racy atomic
  watermarks that only size the next buffer. Every outcome of the race is
  a valid size hint, so no property of the engine tells the outcomes apart.
* The arena and skiplist internals, the SSTable format and UUIDs. The
  sequence-number `-1` bypass is test-only.
* The rest of `ast.go`: grammar-tagged data declarations and `String()`
  formatting, with no state and no logic beyond joining strings.
