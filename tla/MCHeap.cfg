CONSTANTS
    t1 = t1
    t2 = t2
    x = x
    y = y
    Threads <- MCThreads
    Vars <- MCVars
    Direct <- MCDirect
    LinkedBefore = {1}
    Mallocs <- MCMallocs
    PageSize <- MCPageSize
    MinSize <- MCMin
    MaxSize <- MCMax
    HeapTop = 3
    Values <- MCValues
    Junk = 7
    AccessSizes = {1, 3}
    Sizes = {1, 2}
    Counts = {3}
    Alignments = {2}
    SizeMod = 6
    IntMod = 6
SPECIFICATION Spec
CHECK_DEADLOCK FALSE
INVARIANTS HeapInv BlocksOwned LinkedBytesCurrent TagsKnown
PROPERTY HeapRefines
SYMMETRY HeapSymmetry
VIEW HeapView
