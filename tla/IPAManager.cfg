SPECIFICATION IPAFairSpec
CONSTANTS
    h1 = h1
    p1 = p1
    Handlers = {h1}
    Others = {p1}
    Procs = {h1, p1}
    Socks = {h1}
    Name <- SomeNames
    Directories <- SomeDirectories
    MinVersion = 1
    MaxVersion = 1
    MaxForks = 3
    PipeSize = 1
    MaxMessages = 2
    QueueLimit = 2
    a = a
    b = b
    Maps = {a, b}
    MaxLists = 2
    Global = Global
    NoMap = NoMap
    NoProc = NoProc
    NoMessage = NoMessage
INVARIANTS
    RunningListed
    InterfaceSound
PROPERTIES
    IPAProgress
CHECK_DEADLOCK FALSE
