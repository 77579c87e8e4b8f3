SPECIFICATION FairSpec
CONSTANTS
    Requests = {r1, r2, r3}
    BufferCount = 2
    Addresses = {1, 2}
    MaxFrame = 3
    MaxRefused = 1
    NoInfo = NoInfo
    RawBuffers = {b1, b2}
    NoConfiguration = NoConfiguration
    SensorSizes <- SomeSensor
    Configurations <- SomeConfigurations
    Roles <- SomeRoles
    UVCFormats <- SomeUVCFormats
    UVCRanges <- SomeUVCRanges
    DiscreteSizes <- SomeDiscreteSizes
    SingleEntries <- SomeEntries
    MaxConfigures = 2
INVARIANTS
    BuffersAccounted
    ConfigurationSound
PROPERTIES
    RequestsKept
    ImplementsFifo
    RequestsReturn
CHECK_DEADLOCK FALSE
