CONSTANTS
    t1 = t1
    none = none
    Threads <- MCThreads
    InitThreads <- MCThreads
    Pages <- MCPages
    Frames <- MCFrames
    TLBSize = 3
    IndexMod = 16
    EpcMod = 8
    LstoreMod = 16
    Offsets <- MCOffsets
    Values <- MCValues
    NoValue = none
    Accesses <- MCRequests
    PageSize = 2
    NativeSize = 5
    Size = 5
    Calls <- MCCalls
    MaxCalls = 1
SPECIFICATION WrapperSpec
INVARIANTS CallsDoTheirJob DroppedNotInUse WrapperInv FirstCallInv
PROPERTY CallsReturn
CHECK_DEADLOCK FALSE
VIEW WrapperView
