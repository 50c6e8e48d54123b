SPECIFICATION FairSpec
CONSTANTS
    Ids = {1, 2}
    Names = {n1, n2}
    NoName = NoName
    Cells = {1, 2}
    IdOf <- MCIdOf
    ChunkSize = 1
    Runs = {r1, r2}
INVARIANTS
    TypeOK
PROPERTIES
    RepairNeverOverwrites
    ImplementsReadability
    EventsBecomeReadable
CHECK_DEADLOCK FALSE
