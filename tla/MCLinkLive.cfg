CONSTANTS
    t1 = t1
    t2 = t2
    none = none
    Threads <- MCThreads
    InitThreads <- MCThreads
    Pages <- MCPages5
    Frames <- MCFrames4
    TLBSize = 1
    IndexMod = 16
    EpcMod = 8
    LstoreMod = 16
    Offsets <- MCOneOffset
    Values <- MCZero
    NoValue = none
    Accesses <- MCLoads
SPECIFICATION FairSpec
INVARIANT FrameAvailable
PROPERTY LinkReturns
VIEW FramesView
