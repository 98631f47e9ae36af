SPECIFICATION InstrumentsSpec
CONSTANTS
    worker = worker
    manager = manager
    Unset = Unset
    Threads = {worker, manager}
    LogCalls <- Calls
    Tracers = {worker}
    Categories <- Names
    AllTags <- Bits
    Commands <- ArgumentLists
    MaxDepth = 2
CONSTRAINT OneInstrument
CHECK_DEADLOCK FALSE
INVARIANTS
    InstrumentsTypeOK
    DeliveredOnce
    FatalExplained
    MinimumRestored
    MarksNest
PROPERTY
    CommandWhole
