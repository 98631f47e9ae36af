SPECIFICATION Spec
CONSTANTS
    kp = kp
    kq = kq
    kt = kt
    kr = kr
    va = va
    vb = vb
    vlong = vlong
    l1 = l1
    l2 = l2
    c1 = c1
    c2 = c2
    c3 = c3
    s1 = s1
    s2 = s2
    s3 = s3
    Keys = {kp, kq, kt, kr}
    PersistKeys = {kp, kq}
    RoKeys = {kr}
    Vals = {va, vb, vlong}
    LongVals = {vlong}
    Absent = Absent
    Backend = "unqlite"
    TEMPORARY_STORAGE = TRUE
    Listeners = {l1}
    Conns = {c1}
    ListenerOf <- OneSocket
    Slots = {s1}
    Requests <- FaultRequests
    Source <- TwoFiles
    CommitInterval = 2
    TimeoutOn = TRUE
    SockBuf = 2
    KVFD_MAX = 8
    IoMayFail = TRUE
    FetchMayFail = FALSE
    AllocMayFail = TRUE
    NoConn = NoConn
    NoReq = NoReq
    NoKey = NoKey
    NoMsg = NoMsg
INVARIANT TypeOK
PROPERTIES
    CommitAcked
    DeadlineNeverSlides
    ReadOnlyKept
    ImplementsStore
