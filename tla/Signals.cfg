SPECIFICATION EventsSpec
CONSTANTS
    fd1 = fd1
    fd2 = fd2
    read1 = read1
    again1 = again1
    write1 = write1
    read2 = read2
    Timers = {t1, t2}
    MaxTime = 2
    RestartEarlier = FALSE
    Notifiers <- SomeNotifiers
    FdOf <- SomeFdOf
    TypeOf <- SomeTypeOf
    Fds <- SomeFds
    Types <- SomeTypes
    MaxOps = 3
    None = None
    Signals = {s1, s2}
    Receivers = {here, there}
    Remote = {there}
    Functions = {f1, f2}
    MaxMethods = 2
    MaxEmissions = 2
    NoMethod = NoMethod
    NoReceiver = NoReceiver
    HistoryDepth = 3
    FrameOffset <- SomeFrameOffset
    TimeOffset <- SomeTimeOffset
    LastTick = 4
    MaxActions = 2
INVARIANT NothingDeletedUsed
CHECK_DEADLOCK FALSE
