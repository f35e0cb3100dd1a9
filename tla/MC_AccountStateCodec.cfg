CONSTANTS
    Header = Header
    Truncated = Truncated
    InvalidFormat = InvalidFormat
    Importance_History_Size = 3
    Activity_Bucket_History_Size = 4
    Rollback_Buffer_Size = 2
    MosaicIds <- MC_MosaicIds
    MaxAmount = 1
    Importances = {0, 1}
    BucketValues <- MC_BucketValues
    MaxImportanceHeight = 5

SPECIFICATION Spec

INVARIANTS
    TypeOK
    SaveMatchesReferenceLayout
    LoadMatchesReferenceLayout
    CorruptStreamsRejected
