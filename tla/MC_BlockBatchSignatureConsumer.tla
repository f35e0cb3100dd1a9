-------------------- MODULE MC_BlockBatchSignatureConsumer --------------------
EXTENDS BlockBatchSignatureConsumer, BatchSignatureFixtures

MC_Batches == BatchesUpTo(4)
=============================================================================
