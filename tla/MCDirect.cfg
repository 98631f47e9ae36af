SPECIFICATION FairSpec
CONSTANTS
    kp = kp
    kt = kt
    x = x
    y = y
    p1 = p1
    p2 = p2
    i1 = i1
    i2 = i2
    Keys = {kp, kt}
    PersistKeys = {kp}
    RoKeys = {}
    Vals <- FileVals
    LongVals <- FileLongVals
    Absent = Absent
    Backend = "file"
    TEMPORARY_STORAGE = TRUE
    Procs = {p1, p2}
    Calls <- DirectCalls
    Inodes = {i1, i2}
    Bytes = {x, y, Zero}
    Zero = Zero
    PROP_VALUE_MAX = 3
    ShortWrites = FALSE
    ShortReads = TRUE
    IoMayFail = TRUE
    FetchMayFail = FALSE
    NoInode = NoInode
    NoCall = NoCall
    NoKey = NoKey
    Unknown = Unknown
INVARIANTS
    TypeOK
    StoredValue
    DescriptorsClosed
PROPERTIES
    ReadWhole
    CallReturns
