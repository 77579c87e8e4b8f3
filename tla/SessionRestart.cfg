SPECIFICATION FairSpec
CONSTANTS
    Requests = {r1}
    NoRequest = NoRequest
    Imported = {b1, b2}
    NumSlots = 2
    NoBuffer = NoBuffer
    DriverErrors = FALSE
    Synchronised = TRUE
    UseAllocator = TRUE
    Hotplug = FALSE
PROPERTY
    RequestsComplete
