SPECIFICATION BootSpec
CONSTANTS
    k1 = k1
    p1 = p1
    p2 = p2
    t1 = t1
    t2 = t2
    t3 = t3
    Q = Q
    IntBits = 4
    LongBits = 4
    LongLongBits = 6
    Threads = {t1, Q}
    Procs = {p1, p2}
    ProcOf <- Processes
    Keys = {k1}
    AnyKey = AnyKey
    PROP_VALUE_MAX = 7
    Calls <- OneUser
    InitEnv <- Inherited
    NoText = NoText
    SerialBits = 1
    MAX_TRIES = 2
    Frames <- HostFrames
    MaxFrames = 3
INVARIANTS
    BootTypeOK
    GivenInOrder
PROPERTY
    QemuEnds
