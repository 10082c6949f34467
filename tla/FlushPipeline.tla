---------------------------- MODULE FlushPipeline ----------------------------
(***************************************************************************)
(* Memtable rotation and the asynchronous flush pipeline of               *)
(* src/shakti/shakti.go.                                                  *)
(*                                                                         *)
(* replaceMemtable0 installs a fresh memtable, appends the frozen one to   *)
(* s.mtFlushQueue and sends on s.mtFlushChan while holding mtLock.         *)
(* mtFlushRunLoop, on every signal, registers with the controller the     *)
(* prefix of the first `pos` queue entries whose SSTable info is set,     *)
(* copies the rest of the queue into a fresh slice, and spawns one upload *)
(* goroutine (flushMemtable) for the next entry, handing it a pointer     *)
(* &s.mtFlushQueue[pos].  The upload stores the SSTable in the cloud      *)
(* store, writes the info through that pointer, and signals the loop.     *)
(*                                                                         *)
(* The pointer is the subtle part: both `append` at full capacity (line   *)
(* 224) and the loop's compaction (lines 416-418) move the queue to a new *)
(* backing array, so an upload still running at that moment writes its    *)
(* info into an array nobody reads any more.  The model therefore keeps   *)
(* the slice's capacity and, per upload, whether its pointer is stale.    *)
(***************************************************************************)
EXTENDS Naturals, Sequences, SequencesExt

CONSTANTS
    MaxRotations,        \* bound on the rotations replaceMemtable0 performs
    FlushQueueMaxSize,   \* conf.MemtableFlushQueueMaxSize, capacity of mtFlushChan
    UploadMayFail,       \* whether flushMemtable may return an error
    ControllerMayFail    \* whether controller.ApplyChanges may return an error

ASSUME /\ MaxRotations \in Nat \ {0}
       /\ FlushQueueMaxSize \in Nat \ {0}
       /\ UploadMayFail \in BOOLEAN
       /\ ControllerMayFail \in BOOLEAN

\* Memtables are numbered in creation order; 1 is built by NewShakti.
MtIds == 1..(MaxRotations + 1)

UploadStates == {"none", "running", "signalling", "done", "failed"}

VARIABLES
    memtable,    \* s.memtable: the active memtable
    fq,          \* s.mtFlushQueue: Seq of [mt, info] in the live backing array
    fqCap,       \* cap(s.mtFlushQueue)
    pos,         \* mtFlushRunLoop's local pos: entries whose upload was started
    chan,        \* number of signals buffered in s.mtFlushChan
    chanClosed,  \* Stop has closed s.mtFlushChan
    rotating,    \* a replaceMemtable0 holds mtLock
    spinning,    \* ... and spins on mtFlushQueueLock, which nobody will release
    upload,      \* state of the upload goroutine of each memtable
    stalePtr,    \* memtables whose upload's flushEntry points into a dead array
    stored,      \* memtables whose SSTable has been added to the cloud store
    registered,  \* controller.ApplyChanges registrations, in call order
    loop,        \* mtFlushRunLoop: "running", "exited" or "failed"
    stopped,     \* Stop has returned from stopWg.Wait
    crash        \* "none", or the runtime panic that ended the process

pipeVars == <<memtable, fq, fqCap, pos, chan, chanClosed, rotating, spinning,
              upload, stalePtr, stored, registered, loop, stopped, crash>>

Mts(s) == [k \in DOMAIN s |-> s[k].mt]

\* Uploads that have not yet written their SSTable info.
InFlight == {m \in MtIds : upload[m] = "running"}

-----------------------------------------------------------------------------
(* Mutants: plausible mistakes in the code, each swapped in for one       *)
(* mapped definition below to show that a property detects it.           *)

\* the drain skips entries that are not stored instead of stopping there
RegistrableSkippingGaps(q, p) == SelectSeq(SubSeq(q, 1, p), LAMBDA e : e.info)
\* the compaction builds fresh entries from the memtables alone, dropping
\* the SSTable info already set in the old ones
CompactWithoutInfo(q, i) == [k \in 1..(Len(q) - i) |-> [mt |-> q[i + k].mt, info |-> FALSE]]
\* pos is not rewound after the compaction
RewindMissing(p, i) == p
\* pos is rewound one entry too few
RewindOffByOne(p, i) == p - i + 1
\* the upload finishes without re-signalling the run loop
UploadSignalMissing(m) ==
    /\ crash = "none"
    /\ upload[m] = "signalling"
    /\ upload' = [upload EXCEPT ![m] = "done"]
    /\ UNCHANGED <<spinning, stopped, memtable, fq, fqCap, pos, chan, chanClosed, rotating,
                   stalePtr, stored, registered, loop, crash>>
\* the run loop waits for the queue to empty before leaving on Stop
LoopExitAfterDrain ==
    /\ crash = "none"
    /\ loop = "running"
    /\ chanClosed
    /\ chan = 0
    /\ fq = <<>>
    /\ loop' = "exited"
    /\ UNCHANGED <<spinning, stopped, memtable, fq, fqCap, pos, chan, chanClosed, rotating, upload,
                   stalePtr, stored, registered, crash>>

-----------------------------------------------------------------------------

\* NewShakti followed by Start: one empty memtable, an empty nil queue,
\* the run loop started.
Init ==
    /\ memtable = 1
    /\ fq = <<>>
    /\ fqCap = 0
    /\ pos = 0
    /\ chan = 0
    /\ chanClosed = FALSE
    /\ rotating = FALSE
    /\ upload = [m \in MtIds |-> "none"]
    /\ stalePtr = {}
    /\ stored = {}
    /\ registered = <<>>
    /\ spinning = FALSE
    /\ loop = "running"
    /\ stopped = FALSE
    /\ crash = "none"

\* Capacity after append to a full slice (runtime.growslice: doubling for
\* small slices; the 24-byte mtFlushEntry falls on exact size classes).
GrowCap(c) == IF c = 0 THEN 1 ELSE 2 * c

\* replaceMemtable0(old), first half, taken when the caller's pointer is
\* the active memtable: install a new memtable and append `old` to the
\* queue under the spin lock.
\* A run loop that failed returned holding mtFlushQueueLock, so the
\* rotation spins there for ever, still holding mtLock; the new memtable it
\* installed first is then never seen, as every reader of s.memtable takes
\* mtLock, and is left out.
RotateBegin(old) ==
    /\ crash = "none"
    /\ ~rotating
    /\ memtable <= MaxRotations
    /\ rotating' = TRUE
    /\ \/ /\ loop # "failed"
          /\ memtable' = memtable + 1
          /\ fq' = Append(fq, [mt |-> old, info |-> FALSE])
          /\ \/ /\ Len(fq) = fqCap
                /\ fqCap' = GrowCap(fqCap)
                /\ stalePtr' = stalePtr \cup InFlight
             \/ /\ Len(fq) < fqCap
                /\ UNCHANGED <<fqCap, stalePtr>>
          /\ UNCHANGED spinning
       \/ /\ loop = "failed"
          /\ spinning' = TRUE
          /\ UNCHANGED <<memtable, fq, fqCap, stalePtr>>
    /\ UNCHANGED <<stopped, pos, chan, chanClosed, upload, stored, registered, loop, crash>>

\* replaceMemtable0, second half: the blocking send on mtFlushChan, still
\* under mtLock.  A send on the closed channel panics.
RotateSignal ==
    /\ crash = "none"
    /\ rotating
    /\ ~spinning
    /\ \/ /\ chanClosed
          /\ crash' = "send on closed channel"
          /\ UNCHANGED <<chan, rotating>>
       \/ /\ ~chanClosed
          /\ chan < FlushQueueMaxSize
          /\ chan' = chan + 1
          /\ rotating' = FALSE
          /\ UNCHANGED crash
    /\ UNCHANGED <<spinning, stopped, memtable, fq, fqCap, pos, chanClosed, upload, stalePtr,
                   stored, registered, loop>>

\* The entries the drain loop registers: the longest prefix of the first
\* p entries whose SSTable info is set.
Registrable(q, p) ==
    LET gap == SelectInSeq(SubSeq(q, 1, p), LAMBDA e : ~e.info)
    IN  SubSeq(q, 1, IF gap = 0 THEN p ELSE gap - 1)

\* The copy of the unregistered suffix into a fresh slice.
Compact(q, i) == SubSeq(q, i + 1, Len(q))

\* pos -= i
Rewind(p, i) == p - i

\* One iteration of mtFlushRunLoop for one received signal, all of it under
\* mtFlushQueueLock: register the stored prefix, compact, then either
\* continue (nothing left to start), start the upload of entry pos, or
\* index past the end of the queue.
LoopReceive ==
    /\ crash = "none"
    /\ loop = "running"
    /\ chan > 0
    /\ chan' = chan - 1
    /\ LET done == Registrable(fq, pos)
           i    == Len(done)
           q    == IF i > 0 THEN Compact(fq, i) ELSE fq
           p    == IF i > 0 THEN Rewind(pos, i) ELSE pos
       IN /\ registered' = registered \o Mts(done)
          /\ fq' = q
          /\ fqCap' = IF i > 0 THEN Len(q) ELSE fqCap
          /\ stalePtr' = IF i > 0 THEN stalePtr \cup InFlight ELSE stalePtr
          /\ \/ /\ i > 0
                /\ p = Len(q)
                /\ pos' = p
                /\ UNCHANGED <<upload, crash>>
             \/ /\ ~(i > 0 /\ p = Len(q))
                /\ p < Len(q)
                /\ pos' = p + 1
                /\ upload' = [upload EXCEPT ![q[p + 1].mt] = "running"]
                /\ UNCHANGED crash
             \/ /\ ~(i > 0 /\ p = Len(q))
                /\ p >= Len(q)
                /\ crash' = "index out of range"
                /\ UNCHANGED <<pos, upload>>
    /\ UNCHANGED <<spinning, stopped, memtable, chanClosed, rotating, stored, loop>>

\* The same iteration when controller.ApplyChanges fails for the k-th
\* stored entry: the k-1 before it are registered, then the loop returns
\* still holding mtFlushQueueLock and without stopWg.Done().  The queue is
\* never compacted again (the nil-ed memtable fields are not modelled).
LoopRegisterFail ==
    /\ crash = "none"
    /\ ControllerMayFail
    /\ loop = "running"
    /\ chan > 0
    /\ chan' = chan - 1
    /\ LET done == Registrable(fq, pos)
       IN  \E k \in 1..Len(done) :
               registered' = registered \o Mts(SubSeq(done, 1, k - 1))
    /\ loop' = "failed"
    /\ UNCHANGED <<spinning, stopped, memtable, fq, fqCap, pos, chanClosed, rotating, upload,
                   stalePtr, stored, crash>>

\* flushMemtable succeeding: the SSTable is built, cached and added to the
\* cloud store, then setSSTableInfo writes through the entry pointer, which
\* only reaches the live queue if no reallocation happened since the loop
\* took it.
UploadStore(m) ==
    /\ crash = "none"
    /\ upload[m] = "running"
    /\ stored' = stored \cup {m}
    /\ fq' = [k \in DOMAIN fq |-> IF fq[k].mt = m /\ m \notin stalePtr
                                   THEN [fq[k] EXCEPT !.info = TRUE] ELSE fq[k]]
    /\ upload' = [upload EXCEPT ![m] = "signalling"]
    /\ UNCHANGED <<spinning, stopped, memtable, fqCap, pos, chan, chanClosed, rotating, stalePtr,
                   registered, loop, crash>>

\* flushMemtable returning an error (build, table cache or cloud store):
\* logged, no info, no signal.
UploadFail(m) ==
    /\ crash = "none"
    /\ UploadMayFail
    /\ upload[m] = "running"
    /\ upload' = [upload EXCEPT ![m] = "failed"]
    /\ UNCHANGED <<spinning, stopped, memtable, fq, fqCap, pos, chan, chanClosed, rotating,
                   stalePtr, stored, registered, loop, crash>>

\* The upload's final send on mtFlushChan.
UploadSignal(m) ==
    /\ crash = "none"
    /\ upload[m] = "signalling"
    /\ \/ /\ chanClosed
          /\ crash' = "send on closed channel"
          /\ UNCHANGED <<chan, upload>>
       \/ /\ ~chanClosed
          /\ chan < FlushQueueMaxSize
          /\ chan' = chan + 1
          /\ upload' = [upload EXCEPT ![m] = "done"]
          /\ UNCHANGED crash
    /\ UNCHANGED <<spinning, stopped, memtable, fq, fqCap, pos, chanClosed, rotating, stalePtr,
                   stored, registered, loop>>

\* Stop: close(s.mtFlushChan).
StopClose ==
    /\ crash = "none"
    /\ ~chanClosed
    /\ chanClosed' = TRUE
    /\ UNCHANGED <<spinning, stopped, memtable, fq, fqCap, pos, chan, rotating, upload, stalePtr,
                   stored, registered, loop, crash>>

\* The for-range over the closed, drained channel ends; stopWg.Done().
LoopExit ==
    /\ crash = "none"
    /\ loop = "running"
    /\ chanClosed
    /\ chan = 0
    /\ loop' = "exited"
    /\ UNCHANGED <<spinning, stopped, memtable, fq, fqCap, pos, chan, chanClosed, rotating, upload,
                   stalePtr, stored, registered, crash>>

\* Stop: stopWg.Wait() returns once the run loop has called Done.
StopReturn ==
    /\ crash = "none"
    /\ chanClosed
    /\ ~stopped
    /\ loop = "exited"
    /\ stopped' = TRUE
    /\ UNCHANGED <<spinning, memtable, fq, fqCap, pos, chan, chanClosed, rotating, upload,
                   stalePtr, stored, registered, loop, crash>>

\* The process has panicked, the run loop has failed (fatal to the loop by
\* design), or every bounded rotation has been flushed as far as it will go
\* and nothing is in flight.
Terminated ==
    \/ crash # "none"
    \/ loop = "failed"
    \/ /\ memtable = MaxRotations + 1
       /\ ~rotating
       /\ chan = 0
       /\ \A m \in MtIds : upload[m] \notin {"running", "signalling"}

\* forceReplaceMemtable: replaceMemtable0(s.memtable) under mtLock.
Next ==
    \/ RotateBegin(memtable)
    \/ RotateSignal
    \/ LoopReceive
    \/ LoopRegisterFail
    \/ \E m \in MtIds : UploadStore(m) \/ UploadFail(m) \/ UploadSignal(m)
    \/ StopClose
    \/ LoopExit
    \/ StopReturn
    \/ Terminated /\ UNCHANGED pipeVars

\* The loop, the upload goroutines and blocked senders are scheduled by the
\* Go runtime whenever they can run; rotations and Stop are callers' choices.
Fairness ==
    /\ WF_pipeVars(LoopReceive)
    /\ WF_pipeVars(LoopExit)
    /\ WF_pipeVars(StopReturn)
    /\ WF_pipeVars(RotateSignal)
    /\ \A m \in MtIds : /\ WF_pipeVars(UploadStore(m) \/ UploadFail(m))
                        /\ WF_pipeVars(UploadSignal(m))

Spec == Init /\ [][Next]_pipeVars /\ Fairness

-----------------------------------------------------------------------------

TypeOK ==
    /\ memtable \in MtIds
    /\ fq \in Seq([mt : MtIds, info : BOOLEAN])
    /\ fqCap \in 0..(2 * (MaxRotations + 1))
    /\ pos \in 0..Len(fq)
    /\ chan \in 0..FlushQueueMaxSize
    /\ chanClosed \in BOOLEAN
    /\ rotating \in BOOLEAN
    /\ spinning \in BOOLEAN
    /\ upload \in [MtIds -> UploadStates]
    /\ stalePtr \subseteq MtIds
    /\ stored \subseteq MtIds
    /\ registered \in Seq(MtIds)
    /\ loop \in {"running", "exited", "failed"}
    /\ stopped \in BOOLEAN
    /\ crash \in {"none", "send on closed channel", "index out of range"}

\* Every rotated memtable is either registered or still awaiting
\* registration in the flush queue, and registrations followed by the
\* awaiting entries read back in rotation order: the drain loop's FIFO
\* registration and the compaction lose, duplicate or reorder nothing.
\* Only a failed ApplyChanges (line 407) leaves registered entries in the
\* queue, and then exactly the last ones registered, at its head.
FlushQueueAccounting ==
    \E d \in 0..Len(fq) :
        /\ registered \o Mts(SubSeq(fq, d + 1, Len(fq))) = [k \in 1..(memtable - 1) |-> k]
        /\ Mts(SubSeq(fq, 1, d)) = SubSeq(registered, Len(registered) - d + 1, Len(registered))
        /\ d > 0 => loop = "failed"

\* The loop's pos stays in step with the queue across compactions: the
\* uploads started for queued memtables are exactly those of the first pos
\* entries, so no entry is uploaded twice and none is skipped.
UploadBookkeeping ==
    \A k \in 1..Len(fq) : (k <= pos) <=> (upload[fq[k].mt] # "none")

\* An SSTable that reached the cloud store is registered or visible as
\* stored in its queue entry: setSSTableInfo is never lost.
UploadResultNotLost ==
    \A m \in stored :
        \/ \E k \in 1..Len(registered) : registered[k] = m
        \/ \E k \in 1..Len(fq) : fq[k].mt = m /\ fq[k].info

\* Only a stale entry pointer loses an upload's result: every SSTable in
\* the cloud store is registered, or its queue entry carries its info, or
\* its upload's flushEntry pointer was taken before an append (line 224) or
\* a compaction (416-418) moved the queue.  Across drains, compactions,
\* slice growth and a drain that failed part-way, the loop copies and
\* removes entries without dropping a published result.
StoredResultLostOnlyByStalePointer ==
    \A m \in stored :
        \/ \E k \in 1..Len(registered) : registered[k] = m
        \/ \E k \in 1..Len(fq) : fq[k].mt = m /\ fq[k].info
        \/ m \in stalePtr

\* Stop returns: once Stop has closed mtFlushChan, stopWg.Wait() returns
\* (the run loop drains the channel and calls Done), unless the process
\* has already died of a panic.
StopEventuallyReturns ==
    chanClosed ~> (stopped \/ crash # "none")

\* Stop returns whenever the run loop is still alive: once Stop has closed
\* mtFlushChan, stopWg.Wait() returns unless the process panicked or the
\* loop already returned on a controller error (the hang of line 407 is
\* what StopEventuallyReturns exposes).
StopReturnsUnlessLoopFailed ==
    chanClosed ~> (stopped \/ crash # "none" \/ loop = "failed")

\* Every memtable rotated out is eventually registered with the controller,
\* so memtable.Committed runs the completions of its batches, unless Stop
\* cancelled the pipeline, the process panicked, the loop returned on a
\* controller error, or the upload of a queued memtable failed, which
\* stalls the drain behind it by design (the loop and the uploads get weak
\* fairness).
RotatedEventuallyCommitted ==
    \A m \in MtIds :
        memtable > m ~> \/ \E k \in 1..Len(registered) : registered[k] = m
                        \/ \E k \in 1..Len(fq) : upload[fq[k].mt] = "failed"
                        \/ chanClosed \/ crash # "none" \/ loop = "failed"

\* mtFlushRunLoop never indexes past the end of the queue (line 428).
NoIndexPanic == crash # "index out of range"

\* Nothing sends on mtFlushChan after Stop closed it.
NoSendOnClosedChannel == crash # "send on closed channel"

=============================================================================
