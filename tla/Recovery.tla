------------------------------ MODULE Recovery ------------------------------
(***************************************************************************)
(* Crash, restart and dedup recovery of src/shakti/shakti.go.              *)
(*                                                                         *)
(* The process may die at any point (a kill, or one of the panics the      *)
(* engine model reaches).  What survives is what the controller knows:    *)
(* the SSTables of the memtables registered by mtFlushRunLoop.  The        *)
(* restarted engine is a fresh NewShakti/Start, with an empty dedup map;   *)
(* before a processor writes again its caller runs                         *)
(* LoadLastBatchSequence(p), which opens an iterator over                  *)
(* [dedupKey(p), IncrementBytesBigEndian(dedupKey(p))), reads the first   *)
(* entry (the newest version of the one dedup row: memtables first, then   *)
(* SSTables newest first) and stores its sequence.  The iterator is never *)
(* closed, so it stays in s.iterators.                                     *)
(*                                                                         *)
(* The durable history is kept as the batches, in order, of every          *)
(* memtable registered in an earlier incarnation; in the current one the   *)
(* durable batches are those of the memtables registered so far.          *)
(***************************************************************************)
EXTENDS Engine, FiniteSets

CONSTANTS
    MaxRestarts   \* bound on process restarts

ASSUME MaxRestarts \in Nat

VARIABLES
    durable,     \* batches of memtables registered in earlier incarnations, as [p, s]
    loaded,      \* processors whose LoadLastBatchSequence has run in this incarnation
    iterators,   \* Len of s.iterators: the iterators LoadLastBatchSequence left open
    restarts     \* restarts so far

recVars == <<durable, loaded, iterators, restarts>>
allVars == <<vars, recVars>>

\* The batches of this incarnation that the controller has registered.
RegisteredBatches ==
    LET b == SelectSeq(applied, LAMBDA a : a.mt \in Range(registered))
    IN  [k \in 1..Len(b) |-> [p |-> b[k].p, s |-> b[k].s]]

\* The sequences of processor p's dedup rows in the durable history, oldest
\* first.
DedupRows(p) ==
    LET rows == SelectSeq(durable, LAMBDA r : r.p = p)
    IN  [k \in 1..Len(rows) |-> rows[k].s]

-----------------------------------------------------------------------------
(* Mutants *)

\* the merge takes the oldest version of the dedup row
OldestDedupRow(p) == Head(DedupRows(p))

-----------------------------------------------------------------------------

\* The value iter.Current() returns on a valid iterator: the newest
\* version of p's dedup row.
NewestDedupRow(p) == Last(DedupRows(p))

RecInit ==
    /\ EngineInit
    /\ durable = <<>>
    /\ loaded = {}
    /\ iterators = 0
    /\ restarts = 0

\* The process dies and is started again: everything in memory is lost,
\* the registered SSTables stay with the controller.  Processors keep
\* their own position (nextSeq) and may replay any batch.
Restart ==
    /\ restarts < MaxRestarts
    /\ restarts' = restarts + 1
    /\ durable' = durable \o RegisteredBatches
    /\ loaded' = {}
    /\ iterators' = 0
    \* NewShakti and Start
    /\ memtable' = 1 /\ fq' = <<>> /\ fqCap' = 0 /\ pos' = 0 /\ chan' = 0
    /\ chanClosed' = FALSE /\ rotating' = FALSE /\ spinning' = FALSE
    /\ upload' = [m \in MtIds |-> "none"] /\ stalePtr' = {} /\ stored' = {}
    /\ registered' = <<>> /\ loop' = "running" /\ stopped' = FALSE /\ crash' = "none"
    /\ lastSeq' = [p \in Processors |-> NoSeq]
    /\ wpc' = [p \in Processors |-> "idle"]
    /\ wseq' = [p \in Processors |-> 1]
    /\ wsize' = [p \in Processors |-> BatchEntries]
    /\ wmt' = [p \in Processors |-> 1]
    /\ fill' = [m \in MtIds |-> 0]
    /\ applied' = <<>>
    /\ rotator' = "none"
    /\ now' = 1 /\ lastReplace' = 0 /\ started' = TRUE
    /\ timerPc' = "armed" /\ timerAt' = 1 + MaxReplaceTime /\ timerMt' = 1
    /\ UNCHANGED nextSeq

\* LoadLastBatchSequence(p): NewIterator over p's dedup range (its
\* registration in s.iterators included), IsValid, and on a valid iterator
\* Current and lastCommittedBatchSequences.Store.  Nothing of p has been
\* written in this incarnation, so only durable rows are in range.
LoadLastBatchSequence(p) ==
    /\ crash = "none"
    /\ p \notin loaded
    /\ loaded' = loaded \cup {p}
    /\ iterators' = iterators + 1
    /\ lastSeq' = IF DedupRows(p) # <<>>
                  THEN [lastSeq EXCEPT ![p] = NewestDedupRow(p)]
                  ELSE lastSeq
    /\ UNCHANGED <<pipeVars, wpc, wseq, wsize, wmt, nextSeq, fill, applied, rotator,
                   now, lastReplace, started, timerPc, timerAt, timerMt, durable, restarts>>

\* Every restart is spent and the engine has stopped moving.
RecTerminated == restarts = MaxRestarts /\ EngineTerminated

RecNext ==
    \/ \E p \in loaded : Submit(p) /\ UNCHANGED recVars
    \/ \E p \in Processors : (CheckDedup(p) \/ DoWrite(p) \/ WriterReplace(p))
                             /\ UNCHANGED recVars
    \/ (EngineRotateSignal \/ Tick \/ TimerFire \/ TimerReplace \/ Stop)
       /\ UNCHANGED recVars
    \/ (LoopReceive \/ LoopRegisterFail \/ LoopExit \/ StopReturn)
       /\ UNCHANGED <<engineVars, recVars>>
    \/ \E m \in MtIds : (UploadStore(m) \/ UploadFail(m) \/ UploadSignal(m))
                        /\ UNCHANGED <<engineVars, recVars>>
    \/ Restart
    \/ \E p \in Processors : LoadLastBatchSequence(p)
    \/ RecTerminated /\ UNCHANGED allVars

RecSpec == RecInit /\ [][RecNext]_allVars

-----------------------------------------------------------------------------

RecTypeOK ==
    /\ EngineTypeOK
    /\ durable \in Seq([p : Processors, s : Seqs])
    /\ loaded \subseteq Processors
    /\ iterators \in 0..Cardinality(Processors)
    /\ restarts \in 0..MaxRestarts

\* Across any number of crashes and restarts, each processor's batches
\* reach the storage once each and in increasing sequence order: the
\* durable history of earlier incarnations followed by what this one has
\* written never holds a sequence twice.  This is what the dedup rows that
\* Write puts in every batch, and LoadLastBatchSequence reading them back,
\* are for.
DurableNotReapplied ==
    LET hist == durable \o [k \in 1..Len(applied) |-> [p |-> applied[k].p, s |-> applied[k].s]]
    IN  \A i, j \in 1..Len(hist) :
            (i < j /\ hist[i].p = hist[j].p) => hist[i].s < hist[j].s

=============================================================================
