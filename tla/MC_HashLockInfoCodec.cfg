CONSTANTS
    SharedData = {s1, s2}
    Hashes = {h1, h2}
    MaxLocks = 3
SPECIFICATION Spec
INVARIANTS
    TypeOK
    LoadsMatchSaves
CHECK_DEADLOCK FALSE
