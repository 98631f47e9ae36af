SPECIFICATION Spec
CONSTANTS
    kp = kp
    kq = kq
    kt = kt
    kr = kr
    va = va
    vb = vb
    vlong = vlong
    l1 = l1
    l2 = l2
    c1 = c1
    c2 = c2
    c3 = c3
    s1 = s1
    s2 = s2
    s3 = s3
    Keys = {kp, kt, kr}
    PersistKeys = {kp}
    RoKeys = {kr}
    Vals = {va, vb, vlong}
    LongVals = {vlong}
    Absent = Absent
    Backend = "file"
    TEMPORARY_STORAGE = TRUE
    Listeners = {l1}
    Conns = {c1}
    ListenerOf <- OneSocket
    Slots = {}
    Requests <- StoreRequests
    Source <- OneLine
    CommitInterval = 1
    TimeoutOn = TRUE
    SockBuf = 1
    KVFD_MAX = 8
    IoMayFail = FALSE
    FetchMayFail = FALSE
    AllocMayFail = FALSE
    NoConn = NoConn
    NoReq = NoReq
    NoKey = NoKey
    NoMsg = NoMsg
INVARIANT BootKeepsStored
