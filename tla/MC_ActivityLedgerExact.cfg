CONSTANTS
    Accounts <- MC_Accounts
    InitialBalances <- MC_InitialBalances
    MinHarvesterBalance = 1
    ImportanceGrouping = 2
    Activity_Bucket_History_Size = 4
    Rollback_Buffer_Size = 2
    MaxRollbackBlocks = 3
    Blocks <- MC_Blocks
    MaxChainLength = 8

SPECIFICATION Spec

INVARIANT LedgerMatchesReplay

