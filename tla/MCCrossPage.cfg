CONSTANTS
    t1 = t1
    t2 = t2
    none = none
    Threads <- MCThreads
    InitThreads <- MCThreads
    Pages <- MCPages
    Frames <- MCFrames
    TLBSize = 2
    IndexMod = 8
    EpcMod = 8
    LstoreMod = 8
    Offsets <- MCOffsets
    Values <- MCValues
    NoValue = none
    Accesses <- MCRequests
    PageSize = 2
    MaxAccessSize = 2
    Program <- MCProgram
    MaxAccesses <- MCMaxAccesses
SPECIFICATION CrossSpec
INVARIANTS LoadsSeeStores StoresReachMemory CrossInv
CHECK_DEADLOCK FALSE
VIEW CrossView
