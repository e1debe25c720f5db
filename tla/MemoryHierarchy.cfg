SPECIFICATION Spec
CONSTANTS
    NumLines = 5
    CodeLines = {1, 4}
    DataLines = {0, 2, 4}
    StoreLines = {0}
    StoreBeats = {4}
    Vals = {1}
    InitVal = 0
    L1_SETS = 1
    L2_SETS = 2
    Junk = Junk
    None = None
INVARIANTS
    TypeOK
    CleanCopiesAgree
    InvalidWayFirst
    AnsweredInTime
PROPERTIES
    BurstSteady
    ImplementsMemory
 
CHECK_DEADLOCK FALSE
