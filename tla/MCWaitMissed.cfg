SPECIFICATION SysSpec
CONSTANTS
    k1 = k1
    p1 = p1
    p2 = p2
    t1 = t1
    t2 = t2
    t3 = t3
    IntBits = 4
    LongBits = 4
    LongLongBits = 6
    Threads = {t2, t3}
    Procs = {p1, p2}
    ProcOf <- Processes
    Keys = {k1}
    AnyKey = AnyKey
    PROP_VALUE_MAX = 7
    Calls <- ReadAndWait
    InitEnv <- NoVariables
    NoText = NoText
    SerialBits = 1
INVARIANT
    UpdatedPast
