SPECIFICATION CameraThreadSpec
CONSTANTS
    uvc1 = uvc1
    uvc2 = uvc2
    vimc = vimc
    Devices <- MCDevices
    Factories <- MCFactories
    FactoryOf <- MCFactoryOf
    HotplugFactories = {"uvcvideo"}
    Faulty = {uvc1}
    MaxStarts = 2
    NoDevice = NoDevice
    v1 = v1
    v2 = v2
    s1 = s1
    Requests = {r1, r2, r3}
    Buffers <- MCBuffers
    StreamOf <- MCStreamOf
    NoRequest = NoRequest
INVARIANTS
    CamerasSound
    NoCameraMissed
    DeviceBuffersOwned
    QueuedRequestsAdvance
PROPERTIES
    ManagerProgress
    ImplementsFifo
    QueuedRequestsComplete
CHECK_DEADLOCK FALSE
