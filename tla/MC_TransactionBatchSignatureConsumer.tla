----------------- MODULE MC_TransactionBatchSignatureConsumer -----------------
EXTENDS TransactionBatchSignatureConsumer, BatchSignatureFixtures

MC_Batches == BatchesUpTo(4)
=============================================================================
