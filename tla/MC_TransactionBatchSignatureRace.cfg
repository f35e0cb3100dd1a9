CONSTANTS
    Batches <- MC_Batches
    GenerationHash <- Gen
    Signature_Type <- SigType
    NumWorkerThreads = 2
    Success = Success
    Failure = Failure
    Pending = Pending

SPECIFICATION Spec
INVARIANT NoConcurrentResultWrites


CHECK_DEADLOCK FALSE
