--------------------------- MODULE IteratorRegistry ---------------------------
(***************************************************************************)
(* The live-iterator registry s.iterators of src/shakti/shakti.go and the *)
(* locks around it, with several NewIterator callers at once.             *)
(*                                                                         *)
(* NewIterator builds its sources and then assigns into the Go map        *)
(* s.iterators while holding only mtLock.RLock, so two callers can be in  *)
(* mapassign together.  Go gives no meaning to that data race: the        *)
(* runtime may stop the process with "concurrent map writes", or one      *)
(* insert may be lost, or both may land.  Close (removeIterator) and      *)
(* rotation (replaceMemtable0 with updateIterators) take mtLock           *)
(* exclusively, so they never overlap a NewIterator.  Rotation splices a  *)
(* source over the new memtable into every iterator in the map; an        *)
(* iterator missing from the map is never spliced again.  Sources, keys   *)
(* and the rest of the iterator are left to the Iteration module.         *)
(***************************************************************************)
EXTENDS Naturals

CONSTANTS
    Iters,         \* the iterators concurrent callers create
    MaxRotations   \* bound on rotations

VARIABLES
    itPc,       \* per iterator: "none", "assigning" (in mapassign, RLock held), "open", "closed"
    registry,   \* the keys of s.iterators
    rotations,  \* rotations so far
    openedAt,   \* rotations done when the iterator was returned
    spliced,    \* rotations that spliced a source into the iterator
    crash       \* "none" or the runtime's fatal error

vars == <<itPc, registry, rotations, openedAt, spliced, crash>>

\* Some caller holds mtLock.RLock for its map assignment.
ReadLocked == \E j \in Iters : itPc[j] = "assigning"

Init ==
    /\ itPc = [i \in Iters |-> "none"]
    /\ registry = {}
    /\ rotations = 0
    /\ openedAt = [i \in Iters |-> 0]
    /\ spliced = [i \in Iters |-> 0]
    /\ crash = "none"

\* NewIterator up to s.iterators[si] = struct{}{}: the controller lookup,
\* mtLock.RLock (so no rotation or Close is in progress), the stack of
\* memtable, queued and SSTable iterators, newShaktiIterator; then the map
\* assignment starts.
Open(i) ==
    /\ crash = "none"
    /\ itPc[i] = "none"
    /\ itPc' = [itPc EXCEPT ![i] = "assigning"]
    /\ UNCHANGED <<registry, rotations, openedAt, spliced, crash>>

\* The map assignment completes and NewIterator returns, releasing the read
\* lock.  If another caller's assignment overlapped this one, the outcome
\* is any the runtime can produce: a fatal error, this insert lost, or both
\* inserts kept.
Assigned(i) ==
    /\ crash = "none"
    /\ itPc[i] = "assigning"
    /\ itPc' = [itPc EXCEPT ![i] = "open"]
    /\ openedAt' = [openedAt EXCEPT ![i] = rotations]
    /\ IF \E j \in Iters \ {i} : itPc[j] = "assigning"
       THEN \/ crash' = "concurrent map writes" /\ UNCHANGED registry
            \/ UNCHANGED <<registry, crash>>
            \/ registry' = registry \cup {i} /\ UNCHANGED crash
       ELSE registry' = registry \cup {i} /\ UNCHANGED crash
    /\ UNCHANGED <<rotations, spliced>>

\* Close: removeIterator deletes the iterator from the map under mtLock.
Close(i) ==
    /\ crash = "none"
    /\ itPc[i] = "open"
    /\ ~ReadLocked
    /\ itPc' = [itPc EXCEPT ![i] = "closed"]
    /\ registry' = registry \ {i}
    /\ UNCHANGED <<rotations, openedAt, spliced, crash>>

\* replaceMemtable0 under mtLock: updateIterators prepends a source over
\* the new memtable to every iterator in the map.
Rotate ==
    /\ crash = "none"
    /\ ~ReadLocked
    /\ rotations < MaxRotations
    /\ rotations' = rotations + 1
    /\ spliced' = [i \in Iters |-> IF i \in registry THEN spliced[i] + 1 ELSE spliced[i]]
    /\ UNCHANGED <<itPc, registry, openedAt, crash>>

Done == crash # "none" \/ (rotations = MaxRotations /\ \A i \in Iters : itPc[i] = "closed")

Next ==
    \/ \E i \in Iters : Open(i) \/ Assigned(i) \/ Close(i)
    \/ Rotate
    \/ Done /\ UNCHANGED vars

Spec == Init /\ [][Next]_vars

-----------------------------------------------------------------------------

TypeOK ==
    /\ itPc \in [Iters -> {"none", "assigning", "open", "closed"}]
    /\ registry \subseteq Iters
    /\ rotations \in 0..MaxRotations
    /\ openedAt \in [Iters -> 0..MaxRotations]
    /\ spliced \in [Iters -> 0..MaxRotations]
    /\ crash \in {"none", "concurrent map writes"}

\* Every rotation after an iterator was returned splices the new memtable
\* into it while it is open (spec: an iterator is registered in the
\* active-iterator set on creation, and rotation splices every live one),
\* so none misses the writes to a later memtable.
OpenIteratorsSpliced ==
    \A i \in Iters : itPc[i] = "open" => spliced[i] = rotations - openedAt[i]

=============================================================================
