------------------ MODULE TransactionBatchSignatureConsumer ------------------
(***************************************************************************)
(* CreateTransactionBatchSignatureConsumer                                 *)
(* (src/src/catapult/consumers/BatchSignatureConsumer.cpp:117-145).        *)
(*                                                                         *)
(* After extraction the consumer allocates one result per entity, all      *)
(* Success, and runs one partition per worker thread.  A partition calls   *)
(* VerifyMulti on its chunk; if not every signature verified, it walks the *)
(* per-signature results with the absolute input index and stores the     *)
(* failure in results[notificationToEntityIndexMap[index]].  That store is *)
(* a plain write to the shared std::vector: it is split into a begin and   *)
(* an end step, the writers of every slot being tracked, so that two pool  *)
(* threads storing into the same slot at once are visible.                 *)
(***************************************************************************)
EXTENDS SignatureExtraction, FiniteSets

CONSTANTS NumWorkerThreads, Success, Failure,
    Pending             \* no verdict returned yet (refinement mapping only)

ASSUME NumWorkerThreads \in Nat \ {0}

VARIABLES
    phase,          \* "extracting", "verifying" (blocked in .get()), "returned"
    results,        \* std::vector<ValidationResult> results, by entity index
    writers,        \* pool threads in the middle of a store, by entity index
    ppc,            \* per partition: "posted", "writing", "storing", "done"
    index,          \* per partition: the loop's absolute input index
    numOutstanding, \* partitions not yet completed (ParallelFor context)
    result          \* the vector the consumer returned

vars == <<extractionVars, phase, results, writers, ppc, index, numOutstanding, result>>

PF == INSTANCE ParallelForPartition

NumInputs == Len(inputs)
WorkerIds == 0 .. NumWorkerThreads - 1
ActivePartitions == PF!Partitions(NumInputs, NumWorkerThreads)
StartIndex(p) == PF!PartitionBegin(p, NumInputs, NumWorkerThreads)
EndIndex(p) == PF!PartitionEnd(p, NumInputs, NumWorkerThreads)
EntityIds == 0 .. Len(batch) - 1

\* crypto::VerifyMulti over inputs [StartIndex(p), EndIndex(p)): the second
\* member of the pair, true iff every signature verified.
AllValid(p) == \A i \in StartIndex(p) .. EndIndex(p) - 1 : Verify(inputs[i + 1])

\* Fault model: the failure is stored by input index, not by entity index.
SlotByInputIndex(i) == i

\* The entity slot the failure of input i (0-based) is stored into.
Slot(i) == notificationToEntityIndexMap[i + 1]

Init ==
    /\ \E b \in Batches : ExtractionInit(b)
    /\ phase = "extracting"
    /\ results = << >>
    /\ writers = << >>
    /\ ppc = [p \in WorkerIds |-> "posted"]
    /\ index = [p \in WorkerIds |-> 0]
    /\ numOutstanding = 0
    /\ result = << >>

\* Line 124: ExtractAllSignatureNotifications, one callback at a time.
Extract ==
    /\ phase = "extracting"
    /\ ExtractionNext
    /\ UNCHANGED <<phase, results, writers, ppc, index, numOutstanding, result>>

\* Lines 127 and 142: allocate the results, post one task per partition.
StartPartitions ==
    /\ phase = "extracting"
    /\ ExtractionDone
    /\ phase' = "verifying"
    /\ results' = [e \in EntityIds |-> Success]
    /\ writers' = [e \in EntityIds |-> {}]
    /\ numOutstanding' = Cardinality(ActivePartitions)
    /\ UNCHANGED <<extractionVars, ppc, index, result>>

\* Lines 129-133: VerifyMulti; when all verified the partition returns and
\* completes, otherwise it starts the loop at startIndex.
VerifyPartition(p) ==
    /\ phase = "verifying"
    /\ ppc[p] = "posted"
    /\ IF AllValid(p)
       THEN /\ ppc' = [ppc EXCEPT ![p] = "done"]
            /\ numOutstanding' = numOutstanding - 1
            /\ UNCHANGED index
       ELSE /\ ppc' = [ppc EXCEPT ![p] = "writing"]
            /\ index' = [index EXCEPT ![p] = StartIndex(p)]
            /\ UNCHANGED numOutstanding
    /\ UNCHANGED <<extractionVars, phase, results, writers, result>>

\* Fault model: the index only advances past failed signatures.
ScanResultNoAdvance(p) ==
    /\ ppc[p] = "writing"
    /\ index[p] < EndIndex(p)
    /\ IF Verify(inputs[index[p] + 1])
       THEN UNCHANGED <<ppc, results, writers, index>>
       ELSE /\ results' = [results EXCEPT ![Slot(index[p])] = Failure]
            /\ writers' = [writers EXCEPT ![Slot(index[p])] = @ \cup {p}]
            /\ ppc' = [ppc EXCEPT ![p] = "storing"]
            /\ UNCHANGED index
    /\ UNCHANGED <<extractionVars, phase, numOutstanding, result>>

\* Lines 134-138, one iteration: a verified signature only advances the
\* index; a failed one begins the store into its entity's slot.
ScanResult(p) ==
    /\ ppc[p] = "writing"
    /\ index[p] < EndIndex(p)
    /\ IF Verify(inputs[index[p] + 1])
       THEN /\ index' = [index EXCEPT ![p] = @ + 1]
            /\ UNCHANGED <<ppc, results, writers>>
       ELSE /\ results' = [results EXCEPT ![Slot(index[p])] = Failure]
            /\ writers' = [writers EXCEPT ![Slot(index[p])] = @ \cup {p}]
            /\ ppc' = [ppc EXCEPT ![p] = "storing"]
            /\ UNCHANGED index
    /\ UNCHANGED <<extractionVars, phase, numOutstanding, result>>

\* Line 136 done, line 138: ++index.
EndStore(p) ==
    /\ ppc[p] = "storing"
    /\ writers' = [writers EXCEPT ![Slot(index[p])] = @ \ {p}]
    /\ index' = [index EXCEPT ![p] = @ + 1]
    /\ ppc' = [ppc EXCEPT ![p] = "writing"]
    /\ UNCHANGED <<extractionVars, phase, results, numOutstanding, result>>

\* The loop ends; the partition completes.
CompletePartition(p) ==
    /\ ppc[p] = "writing"
    /\ index[p] = EndIndex(p)
    /\ ppc' = [ppc EXCEPT ![p] = "done"]
    /\ numOutstanding' = numOutstanding - 1
    /\ UNCHANGED <<extractionVars, phase, results, writers, index, result>>

\* Lines 142-143: .get() returns once every partition completed.
Join ==
    /\ phase = "verifying"
    /\ numOutstanding = 0
    /\ phase' = "returned"
    /\ result' = results
    /\ UNCHANGED <<extractionVars, results, writers, ppc, index, numOutstanding>>

PartitionStep(p) ==
    \/ VerifyPartition(p)
    \/ ScanResult(p)
    \/ EndStore(p)
    \/ CompletePartition(p)

Next ==
    \/ Extract
    \/ StartPartitions
    \/ \E p \in ActivePartitions : PartitionStep(p)
    \/ Join

Fairness ==
    /\ WF_vars(Extract)
    /\ WF_vars(StartPartitions)
    /\ \A p \in WorkerIds : WF_vars(p \in ActivePartitions /\ PartitionStep(p))
    /\ WF_vars(Join)

Spec == Init /\ [][Next]_vars /\ Fairness

-----------------------------------------------------------------------------
TypeOK ==
    /\ phase \in {"extracting", "verifying", "returned"}
    /\ ppc \in [WorkerIds -> {"posted", "writing", "storing", "done"}]
    /\ index \in [WorkerIds -> 0 .. NumInputs]
    /\ numOutstanding \in 0 .. NumWorkerThreads
    /\ phase # "extracting" =>
         /\ results \in [EntityIds -> {Success, Failure}]
         /\ writers \in [EntityIds -> SUBSET WorkerIds]
    /\ \A i \in DOMAIN notificationToEntityIndexMap : notificationToEntityIndexMap[i] \in EntityIds

\* The returned vector is the one the batch deserves (BatchVerdict,
\* transaction path): an entity fails iff one of its own signature
\* notifications is bad; the others keep Success, whatever the partition
\* boundaries cut through and whichever thread stores first.
BV == INSTANCE BatchVerdict WITH
    Path <- "transaction",
    verdict <- IF phase = "returned" THEN result ELSE Pending

ImplementsBatchVerdict == BV!Spec

\* The consumer always returns: every partition completes and .get() returns.
ConsumerReturns == <>(phase = "returned")

\* No two pool threads store into the same result slot at the same time:
\* each partition writes only inside a region of its own (spec 4.2, 5).
NoConcurrentResultWrites == \A e \in DOMAIN writers : Cardinality(writers[e]) <= 1
=============================================================================
