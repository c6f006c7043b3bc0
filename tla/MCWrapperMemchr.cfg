CONSTANTS
    t1 = t1
    none = none
    Threads <- MCThreads
    InitThreads <- MCThreads
    Pages <- MCPages7
    Frames <- MCFrames7
    TLBSize = 5
    IndexMod = 16
    EpcMod = 8
    LstoreMod = 16
    Offsets <- MCOffsets
    Values <- MCValues
    NoValue = none
    Accesses <- MCRequests
    PageSize = 2
    NativeSize = 5
    Size = 6
    Calls <- MCFoundThenSet
    MaxCalls = 2
SPECIFICATION WrapperSpec
INVARIANT DroppedNotReturned
CHECK_DEADLOCK FALSE
VIEW WrapperView
