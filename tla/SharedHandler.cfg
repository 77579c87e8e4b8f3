SPECIFICATION LockSpec
CONSTANTS
    t1 = t1  t2 = t2  t3 = t3
    c1 = c1  c2 = c2  c3 = c3
    p1 = p1  p2 = p2
    Threads <- ThreeThreads
    Cameras <- ThreeCameras
    Instances <- TwoInstances
    CameraOf <- OneEach
    InstanceOf <- CamerasShared
    NumDevices = 2
    NoInstance = NoInstance
INVARIANT
    InstanceExclusion
