CONSTANTS
    Batches <- MC_Batches
    GenerationHash <- Gen
    Signature_Type <- SigType
    NumWorkerThreads = 3
    Success = Success
    Failure = Failure
    Pending = Pending

SPECIFICATION Spec
INVARIANT TypeOK
PROPERTY ImplementsBatchVerdict
PROPERTY ConsumerReturns
CHECK_DEADLOCK FALSE
