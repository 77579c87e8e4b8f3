SPECIFICATION V4L2DeviceSpec
CONSTANTS
    Imported = {b1, b2}
    NumSlots = 2
    DriverErrors = TRUE
    NoBuffer = NoBuffer
    ControlDevices = {{"BRIGHTNESS", "EXPOSURE_AUTO", "EXPOSURE_ABSOLUTE"},
                      {"BRIGHTNESS", "EXPOSURE_ABSOLUTE"}}
    CameraIds = {"Brightness", "ManualExposure", "ManualGain"}
    ControlValues = {1, 3}
    ControlLimit = 2
    MinExposure = 1
    MaxExposure = 100
    MinGain = 16
    MaxGain = 64
    MaxLatency = 2
    Scenes = {1, 2, 3, 4, 5, 6, 10, 25, 40, 90, 99, 100, 101, 102, 103, 104, 105, 106, 107,
              110, 113, 119, 120, 150, 300, 390, 399, 400, 401, 420, 421, 440}
    MaxSkips = 2
    MaxToggles = 2
    t1 = t1  t2 = t2  t3 = t3
    c1 = c1  c2 = c2  c3 = c3
    p1 = p1  p2 = p2  p3 = p3
    Threads <- ThreeThreads
    Cameras <- ThreeCameras
    Instances <- ThreeInstances
    CameraOf <- CamerasApart
    InstanceOf <- InstancesApart
    NumDevices = 2
    NoInstance = NoInstance
    m1 = m1  m2 = m2  n1 = n1  n2 = n2
    Media = {m1, m2}
    Inaccessible = {}
    MaxPlugs = 2
    MaxTotal = 4
    NoObject = NoObject
    Topology <- SomeTopology
INVARIANTS
    KernelBuffersTracked
    FreeSlotsIdle
    
    InstanceExclusion
    NoLeakedLocks
    EnumeratorSound
PROPERTIES
    BuffersReturn
    DevicesListed
    ExposureSettles
CHECK_DEADLOCK FALSE
