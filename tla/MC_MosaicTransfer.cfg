CONSTANTS
    Accounts <- MC_Accounts
    Address <- MC_Address
    MosaicIds = {0, 1, 2}
    Xem_Id = 0
    Definitions <- MC_Definitions
    InitialBalances <- MC_InitialBalances
    Amounts = {1}
    MaxHeight = 4
    Success = Success
    Failure_Mosaic_Expired = Failure_Mosaic_Expired
    Failure_Mosaic_Non_Transferable = Failure_Mosaic_Non_Transferable

SPECIFICATION Spec

INVARIANTS
    TypeOK
    NonTransferableOnlyViaOwner
