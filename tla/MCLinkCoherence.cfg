CONSTANTS
    t1 = t1
    t2 = t2
    none = none
    Threads <- MCThreads
    InitThreads <- MCThreads
    Pages <- MCPages4
    Frames <- MCFrames4
    TLBSize = 2
    IndexMod = 8
    EpcMod = 8
    LstoreMod = 8
    Offsets <- MCOneOffset
    Values <- MCBits
    NoValue = none
    Accesses <- MCStores0
SPECIFICATION Spec
SYMMETRY ThreadSymmetry
INVARIANTS TypeOK LinkInv TlbCoherent RefMatches LinkedFrameStays NothingLost
PROPERTY LinksAreFlat
VIEW FramesView
