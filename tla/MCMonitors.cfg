SPECIFICATION Spec
CONSTANTS
    kp = kp
    kq = kq
    kt = kt
    kr = kr
    va = va
    vb = vb
    vlong = vlong
    l1 = l1
    l2 = l2
    c1 = c1
    c2 = c2
    c3 = c3
    s1 = s1
    s2 = s2
    s3 = s3
    Keys = {kp, kt}
    PersistKeys = {kp}
    RoKeys = {}
    Vals = {va, vb, vlong}
    LongVals = {vlong}
    Absent = Absent
    Backend = "nvs"
    TEMPORARY_STORAGE = TRUE
    Listeners = {l1}
    Conns = {c1, c2, c3}
    ListenerOf <- OneSocket
    Slots = {s1, s2, s3}
    Requests <- MonitorRequests
    Source <- LongFiles
    CommitInterval = 0
    TimeoutOn = TRUE
    SockBuf = 1
    KVFD_MAX = 2
    IoMayFail = FALSE
    FetchMayFail = FALSE
    AllocMayFail = FALSE
    NoConn = NoConn
    NoReq = NoReq
    NoKey = NoKey
    NoMsg = NoMsg
INVARIANTS
    MonitorCurrent
    DescriptorsOwned
    BootKeepsStored
SYMMETRY Interchangeable
