------------------------ MODULE ParallelForPartition ------------------------
(***************************************************************************)
(* Partitioning of a list of work items by thread::ParallelForPartition,   *)
(* as the consumers call it (BatchSignatureConsumer.cpp:112 and :142).     *)
(* The header is not part of this repository: the arithmetic follows the   *)
(* contract of the partitioned verifier, at most NumWorkerThreads          *)
(* contiguous chunks of equal size, the last one absorbing the remainder.  *)
(* Offsets are 0-based as the iterators and startIndex of the callback.    *)
(***************************************************************************)
LOCAL INSTANCE Naturals

\* Number of partitions used for numItems items and numPartitions requested.
NumPartitions(numItems, numPartitions) ==
    IF numItems < numPartitions THEN numItems ELSE numPartitions

\* Size of every partition but the last.
PartitionSize(numItems, numPartitions) ==
    numItems \div NumPartitions(numItems, numPartitions)

\* [startIndex, endIndex) of partition i (0-based) of numItems items.
PartitionBegin(i, numItems, numPartitions) ==
    i * PartitionSize(numItems, numPartitions)

PartitionEnd(i, numItems, numPartitions) ==
    IF i = NumPartitions(numItems, numPartitions) - 1
    THEN numItems
    ELSE (i + 1) * PartitionSize(numItems, numPartitions)

\* The partition indexes, 0-based.
Partitions(numItems, numPartitions) ==
    0 .. NumPartitions(numItems, numPartitions) - 1
=============================================================================
