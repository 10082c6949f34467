------------------------------ MODULE Iteration ------------------------------
(***************************************************************************)
(* Range iterators of src/shakti/shakti.go over the flush pipeline.       *)
(*                                                                         *)
(* NewIterator asks the controller for the registered SSTables first and  *)
(* only then, under mtLock.RLock and the queue's spin lock, stacks the    *)
(* active memtable and the queued ones.  A rotation (replaceMemtable0)    *)
(* splices a source over the new memtable into every registered iterator, *)
(* starting at IncrementBytesBigEndian(lastKey).  Iterator calls take     *)
(* mtLock.RLock, so none runs inside a rotation.                          *)
(*                                                                         *)
(* Keys are byte strings, sequences of byte values ordered as             *)
(* bytes.Compare orders them.  A memtable's key set is its content; the   *)
(* SSTable flushed from it has the same keys, so a source is a memtable   *)
(* number with the key the source starts at.  Sources are modelled as     *)
(* live views: a merging-iterator step yields the least key above the     *)
(* last one delivered over all sources (values, and the cursor mechanics  *)
(* of the iteration package, are left out).                               *)
(***************************************************************************)
EXTENDS FlushPipeline, FiniteSets

CONSTANTS
    Keys,        \* the keys writers use
    RangeStart,  \* the iterator's keyStart
    RangeEnd,    \* the iterator's keyEnd (exclusive)
    MaxPuts,     \* bound on memtable writes
    NoKey        \* lastKey == nil

VARIABLES
    content,     \* content[m]: the keys written to memtable m
    puts,        \* writes so far
    itPhase,     \* "idle", "lookedup" (controller answered), "open", "closed"
    itIds,       \* the memtables whose SSTables GetTableIDsForRange returned
    itSrcs,      \* the merging iterator's sources, as [mt, from] records
    lastKey,     \* shaktiIterator.lastKey
    delivered,   \* keys Current has returned
    dueAtOpen,   \* keys visible when NewIterator returned, in range
    dueLater     \* keys written later, in range, above lastKey when written

iterVars == <<content, puts, itPhase, itIds, itSrcs, lastKey, delivered,
              dueAtOpen, dueLater>>
allVars == <<pipeVars, iterVars>>

\* bytes.Compare(a, b) < 0: lexicographic, a proper prefix first.
RECURSIVE BytesLess(_, _)
BytesLess(a, b) ==
    IF a = <<>> \/ b = <<>> THEN a = <<>> /\ b # <<>>
    ELSE IF Head(a) # Head(b) THEN Head(a) < Head(b)
    ELSE BytesLess(Tail(a), Tail(b))

\* common.IncrementBytesBigEndian: add one to the key read as a big-endian
\* number of the same length, carrying out of bytes at 255.
RECURSIVE IncrementBytesBigEndian(_)
IncrementBytesBigEndian(k) ==
    IF k = <<>> THEN <<>>
    ELSE IF Last(k) < 255 THEN [k EXCEPT ![Len(k)] = Last(k) + 1]
    ELSE Append(IncrementBytesBigEndian(Front(k)), 0)

\* A key inside [from, RangeEnd).
InRange(k, from) == ~BytesLess(k, from) /\ BytesLess(k, RangeEnd)

Above(k) == lastKey = NoKey \/ BytesLess(lastKey, k)

\* The keys the iterator's sources show.
View(srcs) == {k \in Keys : \E s \in srcs : k \in content[s.mt] /\ InRange(k, s.from)}

\* The memtables the engine makes visible to a new reader.
Visible == {memtable} \cup Range(Mts(fq)) \cup Range(registered)

-----------------------------------------------------------------------------
(* Mutants.                                                                *)

-----------------------------------------------------------------------------

IterInit ==
    /\ Init
    /\ content = [m \in MtIds |-> {}]
    /\ puts = 0
    /\ itPhase = "idle"
    /\ itIds = {}
    /\ itSrcs = {}
    /\ lastKey = NoKey
    /\ delivered = {}
    /\ dueAtOpen = {}
    /\ dueLater = {}

\* doWrite: mt.Write under mtLock.RLock into the active memtable.
Put(k) ==
    /\ crash = "none"
    /\ ~rotating
    /\ puts < MaxPuts
    /\ puts' = puts + 1
    /\ content' = [content EXCEPT ![memtable] = @ \cup {k}]
    /\ dueLater' = IF itPhase = "open" /\ InRange(k, RangeStart) /\ Above(k)
                   THEN dueLater \cup {k} ELSE dueLater
    /\ UNCHANGED <<pipeVars, itPhase, itIds, itSrcs, lastKey, delivered, dueAtOpen>>

\* updateIterators(mt) for the one iterator, if it is registered.
Splice(srcs, m) ==
    srcs \cup {[mt |-> m, from |-> IF lastKey = NoKey THEN RangeStart
                                   ELSE IncrementBytesBigEndian(lastKey)]}

\* replaceMemtable0 with its updateIterators, which runs between installing
\* the new memtable and appending the old one, under mtLock.
IterRotate ==
    /\ RotateBegin(memtable)
    /\ itSrcs' = IF itPhase = "open" THEN Splice(itSrcs, memtable + 1) ELSE itSrcs
    /\ UNCHANGED <<content, puts, itPhase, itIds, lastKey, delivered, dueAtOpen, dueLater>>

\* NewIterator, first step: controller.GetTableIDsForRange, no lock held.
NewIteratorLookup ==
    /\ crash = "none"
    /\ itPhase = "idle"
    /\ itPhase' = "lookedup"
    /\ itIds' = Range(registered)
    /\ UNCHANGED <<pipeVars, content, puts, itSrcs, lastKey, delivered, dueAtOpen, dueLater>>

\* NewIterator, the rest, under mtLock.RLock (and the spin lock for the
\* queue): the active memtable, the queued memtables and the SSTables the
\* controller returned, then the registration in s.iterators.
NewIteratorOpen ==
    /\ crash = "none"
    /\ itPhase = "lookedup"
    /\ ~rotating
    /\ itSrcs' = {[mt |-> m, from |-> RangeStart] :
                      m \in {memtable} \cup Range(Mts(fq)) \cup itIds}
    /\ dueAtOpen' = {k \in Keys : InRange(k, RangeStart) /\ \E m \in Visible : k \in content[m]}
    /\ itPhase' = "open"
    /\ UNCHANGED <<pipeVars, content, puts, itIds, lastKey, delivered, dueLater>>

\* IsValid, Current (which records lastKey) and Next, each under
\* mtLock.RLock: the merging iterator yields the least key above the last.
IterStep ==
    /\ crash = "none"
    /\ itPhase = "open"
    /\ ~rotating
    /\ LET next == {k \in View(itSrcs) : Above(k)}
       IN  /\ next # {}
           /\ \E k \in next :
                 /\ \A j \in next : j = k \/ BytesLess(k, j)
                 /\ lastKey' = k
                 /\ delivered' = delivered \cup {k}
    /\ UNCHANGED <<pipeVars, content, puts, itPhase, itIds, itSrcs, dueAtOpen, dueLater>>

\* Close: removeIterator under mtLock.
IterClose ==
    /\ crash = "none"
    /\ itPhase = "open"
    /\ ~rotating
    /\ itPhase' = "closed"
    /\ UNCHANGED <<pipeVars, content, puts, itIds, itSrcs, lastKey, delivered, dueAtOpen, dueLater>>

\* Panicked, the run loop failed (fatal by design), or the pipeline has
\* stopped moving, every write is done and the iterator closed.
IterTerminated ==
    \/ crash # "none"
    \/ loop = "failed"
    \/ Terminated /\ puts = MaxPuts /\ itPhase = "closed"

IterNext ==
    \/ \E k \in Keys : Put(k)
    \/ IterRotate
    \/ RotateSignal /\ UNCHANGED iterVars
    \/ (LoopReceive \/ LoopRegisterFail) /\ UNCHANGED iterVars
    \/ \E m \in MtIds : (UploadStore(m) \/ UploadFail(m) \/ UploadSignal(m))
                        /\ UNCHANGED iterVars
    \/ NewIteratorLookup
    \/ NewIteratorOpen
    \/ IterStep
    \/ IterClose
    \/ IterTerminated /\ UNCHANGED allVars

IterSpec == IterInit /\ [][IterNext]_allVars

-----------------------------------------------------------------------------

\* A key the iterator owes is delivered or still ahead of it in its view.
Reachable(k) == k \in delivered \/ (Above(k) /\ k \in View(itSrcs))

\* NewIterator: every key that was visible when the iterator was created
\* (in the active memtable, the flush queue or a registered SSTable) is
\* delivered or still ahead of the iterator.
CreationKeysDelivered == \A k \in dueAtOpen : Reachable(k)

\* updateIterators: every key written after the iterator was created, in
\* its range and beyond the last key it had delivered, is delivered or
\* still ahead of the iterator, across any number of rotations.
LaterKeysDelivered == \A k \in dueLater : Reachable(k)

=============================================================================
