SPECIFICATION FairSpec
CONSTANTS
    NumFrames = 3
    Hold = 1
    MaxKeep = 1
    MaxSessions = 2
    MaxStrays = 3
    Fds = {3, 4}
    Counts = {1, 2}
    PixelFormats = {"NV12", "MJPG"}
    ImageSize <- SomeSizes
    MaxCompleted = 2
    MaxFrames = 3
    TagType <- SomeTags
    MetaCounts = {0, 1, 3}
    EntryCapacity = 3
    DataCapacity = 36
    MaxCalls = 5
    NumBuffers = 3
    MaxInterrupts = 2
INVARIANTS
    GstConsistent
    DequeuesOldest
    AndroidSound
    CaptureSafe
PROPERTIES
    ClientsProgress
CHECK_DEADLOCK FALSE
