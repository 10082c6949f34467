------------------------------- MODULE Engine -------------------------------
(***************************************************************************)
(* The write path and the periodic rotation timer of src/shakti/shakti.go, *)
(* composed with the flush pipeline.                                       *)
(*                                                                         *)
(* Write loops: checkDedupCache (which records the batch's sequence as     *)
(* seen), putDedupEntry (one more entry in the batch), doWrite under the   *)
(* mtLock read lock, and, when the memtable is full, replaceMemtable with  *)
(* the memtable it saw, then back to checkDedupCache.  The timer callback  *)
(* of scheduleMtReplace, under startStopLock, runs maybeReplaceMemtable    *)
(* and re-arms itself.  Memtable contents are abstracted to the number of  *)
(* entries in the arena and the batches written; keys are left to the      *)
(* iteration model.                                                        *)
(***************************************************************************)
EXTENDS FlushPipeline

CONSTANTS
    Processors,          \* processor ids (model values)
    MaxSeq,              \* bound on each processor's sequence numbers
    BatchEntries,        \* entries in a submitted batch
    MemtableCapacity,    \* entries that fit in one memtable arena
    DisableBatchSequenceInsertion,  \* conf.DisableBatchSequenceInsertion
    MaxReplaceTime,      \* conf.MemTableMaxReplaceTime, in clock ticks
    MaxTime,             \* bound on the monotonic clock
    ClockModulus         \* 2^w for the w-bit unsigned clock arithmetic

ASSUME /\ MaxSeq \in Nat \ {0}
       /\ BatchEntries \in Nat \ {0}
       /\ MemtableCapacity \in Nat \ {0}
       /\ DisableBatchSequenceInsertion \in BOOLEAN
       /\ MaxReplaceTime \in Nat \ {0}
       /\ MaxTime < ClockModulus

Seqs == 1..MaxSeq
NoSeq == 0            \* no entry in lastCommittedBatchSequences

WriterStates == {"idle", "dedup", "write", "replace", "rotating"}

VARIABLES
    lastSeq,      \* s.lastCommittedBatchSequences
    wpc,          \* where each processor's Write call is
    wseq,         \* the batch's SequenceNum
    wsize,        \* entries in the batch, dedup entries included
    wmt,          \* the memtable doWrite returned as full
    nextSeq,      \* the next new sequence number a processor submits
    fill,         \* entries written into each memtable's arena
    applied,      \* batches written to memtables, in order: [p, s, mt]
    rotator,      \* who holds mtLock for a rotation: a processor, "timer", "none"
    now,          \* common.NanoTime(), the monotonic clock
    lastReplace,  \* s.mtLastReplace
    started,      \* s.started
    timerPc,      \* the mtReplaceTimer callback: "armed", "replace", "rotating", "stopped"
    timerAt,      \* when the armed timer fires
    timerMt       \* the memtable maybeReplaceMemtable read

engineVars == <<lastSeq, wpc, wseq, wsize, wmt, nextSeq, fill, applied,
                rotator, now, lastReplace, started, timerPc, timerAt, timerMt>>

vars == <<pipeVars, engineVars>>

-----------------------------------------------------------------------------
(* Mutants *)

\* replaceMemtable0 without its check that the pointer is still current
IsActiveUnchecked(mt) == TRUE
\* the arena check admits a batch one entry too large
FitsOffByOne(m, n) == fill[m] + n <= MemtableCapacity + 1

-----------------------------------------------------------------------------

EngineInit ==
    /\ Init
    /\ lastSeq = [p \in Processors |-> NoSeq]
    /\ wpc = [p \in Processors |-> "idle"]
    /\ wseq = [p \in Processors |-> 1]
    /\ wsize = [p \in Processors |-> BatchEntries]
    /\ wmt = [p \in Processors |-> 1]
    /\ nextSeq = [p \in Processors |-> 1]
    /\ fill = [m \in MtIds |-> 0]
    /\ applied = <<>>
    /\ rotator = "none"
    /\ now = 1
    /\ lastReplace = 0
    /\ started = TRUE
    /\ timerPc = "armed"
    /\ timerAt = 1 + MaxReplaceTime
    /\ timerMt = 1

\* A processor calls Write with its next batch, or replays an earlier one
\* (as after recovery).  Upstream allows one batch in flight per processor.
Submit(p) ==
    /\ crash = "none"
    /\ wpc[p] = "idle"
    /\ \E s \in 1..nextSeq[p] :
          /\ s \in Seqs
          /\ wseq' = [wseq EXCEPT ![p] = s]
          /\ nextSeq' = [nextSeq EXCEPT ![p] = IF s = nextSeq[p] THEN s + 1 ELSE @]
    /\ wsize' = [wsize EXCEPT ![p] = BatchEntries]
    /\ wpc' = [wpc EXCEPT ![p] = "dedup"]
    /\ UNCHANGED <<pipeVars, lastSeq, wmt, fill, applied, rotator, now,
                   lastReplace, started, timerPc, timerAt, timerMt>>

\* checkDedupCache's test: the processor's recorded sequence is >= s.
IsDuplicate(s, last) == last # NoSeq /\ s <= last

\* One pass of Write's loop up to doWrite: checkDedupCache (return nil on a
\* duplicate, else Store the sequence) then putDedupEntry.
CheckDedup(p) ==
    /\ crash = "none"
    /\ wpc[p] = "dedup"
    /\ \/ /\ IsDuplicate(wseq[p], lastSeq[p])
          /\ wpc' = [wpc EXCEPT ![p] = "idle"]
          /\ UNCHANGED <<lastSeq, wsize>>
       \/ /\ ~IsDuplicate(wseq[p], lastSeq[p])
          /\ lastSeq' = [lastSeq EXCEPT ![p] = wseq[p]]
          /\ wsize' = [wsize EXCEPT ![p] = IF DisableBatchSequenceInsertion
                                           THEN @ ELSE @ + 1]
          /\ wpc' = [wpc EXCEPT ![p] = "write"]
    /\ UNCHANGED <<pipeVars, wseq, wmt, nextSeq, fill, applied, rotator, now,
                   lastReplace, started, timerPc, timerAt, timerMt>>

\* memtable.Write's answer: the batch's entries fit in the arena.
Fits(m, n) == fill[m] + n <= MemtableCapacity

\* doWrite under mtLock.RLock: memtable.Write accepts the batch if the arena
\* has room, else reports it full and Write goes on to replaceMemtable.
DoWrite(p) ==
    /\ crash = "none"
    /\ wpc[p] = "write"
    /\ ~rotating
    /\ \/ /\ Fits(memtable, wsize[p])
          /\ fill' = [fill EXCEPT ![memtable] = @ + wsize[p]]
          /\ applied' = Append(applied, [p |-> p, s |-> wseq[p], mt |-> memtable])
          /\ wpc' = [wpc EXCEPT ![p] = "idle"]
          /\ UNCHANGED wmt
       \/ /\ ~Fits(memtable, wsize[p])
          /\ wmt' = [wmt EXCEPT ![p] = memtable]
          /\ wpc' = [wpc EXCEPT ![p] = "replace"]
          /\ UNCHANGED <<fill, applied>>
    /\ UNCHANGED <<pipeVars, lastSeq, wseq, wsize, nextSeq, rotator, now,
                   lastReplace, started, timerPc, timerAt, timerMt>>

\* replaceMemtable0's check that the caller's memtable is still s.memtable.
IsActive(mt) == mt = memtable

\* replaceMemtable(mt) from Write, under mtLock: rotate if mt is still the
\* active memtable (and the rotation bound allows), else nothing; either
\* way Write loops back to checkDedupCache once the lock is released.
WriterReplace(p) ==
    /\ crash = "none"
    /\ wpc[p] = "replace"
    /\ \/ /\ IsActive(wmt[p])
          /\ RotateBegin(wmt[p])
          /\ rotator' = p
          /\ wpc' = [wpc EXCEPT ![p] = "rotating"]
       \/ /\ ~IsActive(wmt[p])
          /\ ~rotating
          /\ wpc' = [wpc EXCEPT ![p] = "dedup"]
          /\ UNCHANGED <<pipeVars, rotator>>
    /\ UNCHANGED <<lastSeq, wseq, wsize, wmt, nextSeq, fill, applied, now,
                   lastReplace, started, timerPc, timerAt, timerMt>>

\* The end of replaceMemtable0: the send on mtFlushChan and
\* mtLastReplace = NanoTime(); the lock is released and the caller resumes.
EngineRotateSignal ==
    /\ RotateSignal
    /\ lastReplace' = now
    /\ rotator' = "none"
    /\ \/ /\ rotator \in Processors
          /\ wpc' = [wpc EXCEPT ![rotator] = "dedup"]
          /\ UNCHANGED <<timerPc, timerAt>>
       \/ /\ rotator = "timer"
          /\ timerPc' = "armed"
          /\ timerAt' = now + MaxReplaceTime
          /\ UNCHANGED wpc
    /\ UNCHANGED <<lastSeq, wseq, wsize, wmt, nextSeq, fill, applied, now,
                   started, timerMt>>

\* The monotonic clock advances.
Tick ==
    /\ crash = "none"
    /\ now < MaxTime
    /\ now' = now + 1
    /\ UNCHANGED <<pipeVars, lastSeq, wpc, wseq, wsize, wmt, nextSeq, fill,
                   applied, rotator, lastReplace, started, timerPc, timerAt, timerMt>>

\* maybeReplaceMemtable's test, in w-bit unsigned arithmetic as written:
\* mtLastReplace == 0 || mtLastReplace-now >= mtMaxReplaceTime.
Due(last, t) == last = 0 \/ (last - t) % ClockModulus >= MaxReplaceTime

\* The timer fires (under startStopLock, s.started checked) and
\* maybeReplaceMemtable reads the memtable under the read lock; if the
\* predicate holds it goes on to replaceMemtable, else the callback
\* re-arms the timer.
TimerFire ==
    /\ crash = "none"
    /\ timerPc = "armed"
    /\ started
    /\ now >= timerAt
    /\ ~rotating
    /\ \/ /\ Due(lastReplace, now)
          /\ timerMt' = memtable
          /\ timerPc' = "replace"
          /\ UNCHANGED timerAt
       \/ /\ ~Due(lastReplace, now)
          /\ timerAt' = now + MaxReplaceTime
          /\ UNCHANGED <<timerPc, timerMt>>
    /\ UNCHANGED <<pipeVars, lastSeq, wpc, wseq, wsize, wmt, nextSeq, fill,
                   applied, rotator, now, lastReplace, started>>

\* replaceMemtable(mt) from the timer callback.
TimerReplace ==
    /\ crash = "none"
    /\ timerPc = "replace"
    /\ \/ /\ IsActive(timerMt)
          /\ RotateBegin(timerMt)
          /\ rotator' = "timer"
          /\ timerPc' = "rotating"
          /\ UNCHANGED timerAt
       \/ /\ ~IsActive(timerMt)
          /\ ~rotating
          /\ timerPc' = "armed"
          /\ timerAt' = now + MaxReplaceTime
          /\ UNCHANGED <<pipeVars, rotator>>
    /\ UNCHANGED <<lastSeq, wpc, wseq, wsize, wmt, nextSeq, fill, applied, now,
                   lastReplace, started, timerMt>>

\* Stop, under startStopLock (so never inside a timer callback): clear
\* started, stop the timer, close mtFlushChan.
Stop ==
    /\ timerPc \in {"armed", "stopped"}
    /\ StopClose
    /\ started' = FALSE
    /\ timerPc' = "stopped"
    /\ UNCHANGED <<lastSeq, wpc, wseq, wsize, wmt, nextSeq, fill, applied,
                   rotator, now, lastReplace, timerAt, timerMt>>

\* A caller blocked in replaceMemtable because the model's rotation bound
\* is spent.
AtRotationBound(mt) == IsActive(mt) /\ memtable = MaxRotations + 1

\* The process panicked, the run loop failed (fatal by design), or every
\* actor is idle or held by a model bound.
EngineTerminated ==
    \/ crash # "none"
    \/ loop = "failed"
    \/ /\ ~rotating
       /\ chan = 0
       /\ \A m \in MtIds : upload[m] \notin {"running", "signalling"}
       /\ \A p \in Processors :
             \/ wpc[p] = "idle" /\ nextSeq[p] > MaxSeq
             \/ wpc[p] = "replace" /\ AtRotationBound(wmt[p])
       /\ \/ timerPc = "stopped"
          \/ timerPc = "armed" /\ (now = MaxTime /\ now < timerAt)
          \/ timerPc = "replace" /\ AtRotationBound(timerMt)

EngineNext ==
    \/ \E p \in Processors :
          Submit(p) \/ CheckDedup(p) \/ DoWrite(p) \/ WriterReplace(p)
    \/ EngineRotateSignal
    \/ Tick
    \/ TimerFire
    \/ TimerReplace
    \/ Stop
    \/ (LoopReceive \/ LoopRegisterFail \/ LoopExit \/ StopReturn)
       /\ UNCHANGED engineVars
    \/ \E m \in MtIds : (UploadStore(m) \/ UploadFail(m) \/ UploadSignal(m))
                        /\ UNCHANGED engineVars
    \/ EngineTerminated /\ UNCHANGED vars

EngineSpec == EngineInit /\ [][EngineNext]_vars

-----------------------------------------------------------------------------

EngineTypeOK ==
    /\ TypeOK
    /\ lastSeq \in [Processors -> {NoSeq} \cup Seqs]
    /\ wpc \in [Processors -> WriterStates]
    /\ wseq \in [Processors -> Seqs]
    /\ wsize \in [Processors -> BatchEntries..(BatchEntries + MaxRotations + 1)]
    /\ wmt \in [Processors -> MtIds]
    /\ nextSeq \in [Processors -> 1..(MaxSeq + 1)]
    /\ fill \in [MtIds -> 0..MemtableCapacity]
    /\ applied \in Seq([p : Processors, s : Seqs, mt : MtIds])
    /\ rotator \in Processors \cup {"timer", "none"}
    /\ now \in 1..MaxTime
    /\ lastReplace \in 0..MaxTime
    /\ started \in BOOLEAN
    /\ timerPc \in {"armed", "replace", "rotating", "stopped"}
    /\ timerAt \in 1..(MaxTime + MaxReplaceTime)
    /\ timerMt \in MtIds

\* Whatever lastCommittedBatchSequences records for a processor is a batch
\* that is in a memtable or still being written by its Write call: the
\* dedup cache never claims a batch the storage does not hold.
DedupRecordsWrittenBatches ==
    \A p \in Processors :
        lastSeq[p] # NoSeq =>
            \/ \E k \in 1..Len(applied) : applied[k].p = p /\ applied[k].s = lastSeq[p]
            \/ wpc[p] \in {"dedup", "write", "replace", "rotating"} /\ wseq[p] = lastSeq[p]

=============================================================================
