CONSTANTS
    Values = {0, 1}
    Sizeof <- MC_Sizeof
    MaxCalls = 3
    MaxBuilds = 2
SPECIFICATION Spec
INVARIANTS
    TypeOK
    BuiltTransactionsMatchSetters
CHECK_DEADLOCK FALSE
