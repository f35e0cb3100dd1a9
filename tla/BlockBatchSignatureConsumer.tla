--------------------- MODULE BlockBatchSignatureConsumer ---------------------
(***************************************************************************)
(* CreateBlockBatchSignatureConsumer                                       *)
(* (src/src/catapult/consumers/BatchSignatureConsumer.cpp:96-115).         *)
(*                                                                         *)
(* The consumer thread extracts the signature inputs of the batch, hands   *)
(* them to ParallelForPartition with one partition per worker thread, and  *)
(* blocks on the returned future.  Each partition runs on a pool thread:   *)
(* it verifies its chunk with VerifyMultiShortCircuit and, on failure,     *)
(* aggregates the failure into the shared std::atomic result.  The last    *)
(* partition to complete sets the promise; .get() then returns and the     *)
(* consumer returns aggregateResult.load().                                *)
(***************************************************************************)
EXTENDS SignatureExtraction, FiniteSets

CONSTANTS
    NumWorkerThreads,   \* pPool->numWorkerThreads()
    Success,            \* ValidationResult::Success
    Failure,            \* Failure_Consumer_Batch_Signature_Not_Verifiable
    Pending             \* no verdict returned yet (refinement mapping only)

ASSUME NumWorkerThreads \in Nat \ {0}

VARIABLES
    phase,              \* "extracting", "verifying" (blocked in .get()), "returned"
    aggregateResult,    \* std::atomic<ValidationResult> aggregateResult
    numOutstanding,     \* partitions not yet completed (ParallelFor context)
    completed,          \* partitions whose callback has run
    result              \* the value the consumer returned

vars == <<extractionVars, phase, aggregateResult, numOutstanding, completed, result>>

PF == INSTANCE ParallelForPartition

NumInputs == Len(inputs)

ActivePartitions == PF!Partitions(NumInputs, NumWorkerThreads)

\* The inputs [itBegin, itEnd) handed to the callback of partition p.
Chunk(p) ==
    SubSeq(inputs,
           PF!PartitionBegin(p, NumInputs, NumWorkerThreads) + 1,
           PF!PartitionEnd(p, NumInputs, NumWorkerThreads))

\* crypto::VerifyMultiShortCircuit: true iff every signature of the chunk verifies.
VerifyMultiShortCircuit(chunk) == \A i \in DOMAIN chunk : Verify(chunk[i])

\* validators::AggregateValidationResult: the stored result is replaced by a
\* failure, never the other way round (compare-exchange loop on the atomic).
AggregateValidationResult(current, new) == IF new = Failure THEN Failure ELSE current

Init ==
    /\ \E b \in Batches : ExtractionInit(b)
    /\ phase = "extracting"
    /\ aggregateResult = Success
    /\ numOutstanding = 0
    /\ completed = {}
    /\ result = Success

\* Lines 103: ExtractAllSignatureNotifications, one callback at a time.
Extract ==
    /\ phase = "extracting"
    /\ ExtractionNext
    /\ UNCHANGED <<phase, aggregateResult, numOutstanding, completed, result>>

\* Line 112: ParallelForPartition posts one task per partition.
StartPartitions ==
    /\ phase = "extracting"
    /\ ExtractionDone
    /\ phase' = "verifying"
    /\ numOutstanding' = Cardinality(ActivePartitions)
    /\ UNCHANGED <<extractionVars, aggregateResult, completed, result>>

\* Fault models: a partition task run twice; a partition that never completes.
RunPartitionTwice(p) ==
    /\ phase = "verifying"
    /\ aggregateResult' = IF VerifyMultiShortCircuit(Chunk(p))
                          THEN aggregateResult
                          ELSE AggregateValidationResult(aggregateResult, Failure)
    /\ completed' = completed \cup {p}
    /\ numOutstanding' = numOutstanding - 1
    /\ UNCHANGED <<extractionVars, phase, result>>

RunPartitionNotCompleting(p) ==
    /\ phase = "verifying"
    /\ p \notin completed
    /\ aggregateResult' = IF VerifyMultiShortCircuit(Chunk(p))
                          THEN aggregateResult
                          ELSE AggregateValidationResult(aggregateResult, Failure)
    /\ completed' = completed \cup {p}
    /\ UNCHANGED <<extractionVars, phase, result, numOutstanding>>

\* Lines 107-110, run by a pool thread, then the partition completes.
RunPartition(p) ==
    /\ phase = "verifying"
    /\ p \notin completed
    /\ aggregateResult' = IF VerifyMultiShortCircuit(Chunk(p))
                          THEN aggregateResult
                          ELSE AggregateValidationResult(aggregateResult, Failure)
    /\ completed' = completed \cup {p}
    /\ numOutstanding' = numOutstanding - 1
    /\ UNCHANGED <<extractionVars, phase, result>>

\* Fault model: the result is read without waiting on the future.
JoinWithoutWaiting ==
    /\ phase = "verifying"
    /\ phase' = "returned"
    /\ result' = aggregateResult
    /\ UNCHANGED <<extractionVars, aggregateResult, numOutstanding, completed>>

\* Lines 112-113: .get() returns once every partition completed.
Join ==
    /\ phase = "verifying"
    /\ numOutstanding = 0
    /\ phase' = "returned"
    /\ result' = aggregateResult
    /\ UNCHANGED <<extractionVars, aggregateResult, numOutstanding, completed>>

Next ==
    \/ Extract
    \/ StartPartitions
    \/ \E p \in ActivePartitions : RunPartition(p)
    \/ Join

\* The consumer thread and the pool threads keep running while they have work.
Fairness ==
    /\ WF_vars(Extract)
    /\ WF_vars(StartPartitions)
    /\ \A p \in 0 .. NumWorkerThreads - 1 : WF_vars(p \in ActivePartitions /\ RunPartition(p))
    /\ WF_vars(Join)

Spec == Init /\ [][Next]_vars /\ Fairness

-----------------------------------------------------------------------------
TypeOK ==
    /\ phase \in {"extracting", "verifying", "returned"}
    /\ aggregateResult \in {Success, Failure}
    /\ result \in {Success, Failure}
    /\ numOutstanding \in 0 .. NumWorkerThreads
    /\ completed \subseteq 0 .. NumWorkerThreads - 1
    /\ entityIndex \in 0 .. Len(batch)
    /\ Len(notificationToEntityIndexMap) = Len(inputs)

\* The returned verdict is the one the batch deserves (BatchVerdict, block
\* path): a failure iff one signature notification of any entity is bad,
\* whatever the partitioning and the order the pool threads run in.
BV == INSTANCE BatchVerdict WITH
    Path <- "block",
    verdict <- IF phase = "returned" THEN result ELSE Pending

ImplementsBatchVerdict == BV!Spec

\* The consumer always returns: every partition completes and .get() returns.
ConsumerReturns == <>(phase = "returned")
=============================================================================
