SPECIFICATION FairSpec
CONSTANTS
    Requests = {r1, r2}
    NoRequest = NoRequest
    Imported = {b1}
    NumSlots = 2
    NoBuffer = NoBuffer
    DriverErrors = TRUE
    Synchronised = TRUE
    UseAllocator = TRUE
    Hotplug = TRUE
INVARIANTS
    SessionSafe
PROPERTIES
    StoppedMeansQuiet
    SessionProgress
CHECK_DEADLOCK FALSE
