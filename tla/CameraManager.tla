--------------------------- MODULE CameraManager ---------------------------
(***************************************************************************)
(* CameraManager (camera_manager.cpp): the application that starts and     *)
(* stops it and borrows cameras, and the manager thread that enumerates    *)
(* media devices, lets the pipeline handlers match them, and handles their *)
(* removal.                                                                *)
(*                                                                         *)
(* The pipeline handlers match as UVC does (uvcvideo.cpp): one media       *)
(* device makes one pipeline with one camera, and each is named by its     *)
(* device.  A pipeline handler is owned by pipes_ and by its camera, a     *)
(* camera by cameras_ and by the application.                              *)
(***************************************************************************)
EXTENDS Integers, Sequences, SequencesExt

CONSTANTS
    Devices,      \* the media devices
    Factories,    \* PipelineHandlerFactory::factories()
    FactoryOf,    \* the factory whose pipeline handler matches each device
    HotplugFactories,  \* those whose pipeline handlers follow removals: UVC
    Faulty,       \* the devices that match() may fail to open or initialise
    MaxStarts,    \* bound: how often the manager is started
    NoDevice

ASSUME ManagerAssumption ==
    /\ IsFiniteSet(Devices) /\ NoDevice \notin Devices
    /\ Factories \in Seq(ToSet(Factories)) /\ IsInjective(Factories)
    /\ Factories # <<>>
    /\ FactoryOf \in [Devices -> ToSet(Factories)]
    /\ HotplugFactories \subseteq ToSet(Factories)
    /\ Faulty \subseteq Devices
    /\ MaxStarts \in Nat

VARIABLES
    app,           \* where the application is in start() and stop()
    held,          \* the cameras the application has references to
    manager,       \* where the manager thread is in run()
    exit,          \* ThreadData::exit_
    initialized, initStatus, \* initialized_, status_ (-1 for an error)
    result,        \* what init() returned
    factory,       \* the loop index of init()
    devices,       \* DeviceEnumerator::devices_
    acquired,      \* the media devices whose acquired_ is set
    pipes,         \* pipes_
    cameras,       \* cameras_ of the manager
    registered,    \* the pipeline handlers whose cameras_ is not empty
    hotplug,       \* the devices whose disconnected signal is connected
    disconnected,  \* the cameras whose disconnected_ is set
    leaving,       \* the device whose removal is being handled
    plugged,       \* the hardware that is present
    starts         \* bound: starts so far

appVars == <<app, held>>
initVars == <<initialized, initStatus, result, factory>>
ownerVars == <<acquired, pipes, cameras, registered, hotplug, disconnected>>
managerVars == <<appVars, manager, exit, initVars, devices, ownerVars, leaving,
                 plugged, starts>>

ManagerTypeOK ==
    /\ app \in {"stopped", "waiting", "status", "started", "failing",
                "joining"}
    /\ held \subseteq Devices
    /\ manager \in {"off", "enumerate", "match", "publish", "exec",
                    "removing", "cleanup", "clear", "reset"}
    /\ exit \in BOOLEAN
    /\ initialized \in BOOLEAN
    /\ initStatus \in {0, -1} /\ result \in {0, -1}
    /\ factory \in DOMAIN Factories
    /\ devices \in Seq(Devices)
    /\ acquired \subseteq Devices
    /\ pipes \subseteq Devices
    /\ cameras \subseteq Devices
    /\ registered \subseteq Devices
    /\ hotplug \subseteq Devices
    /\ disconnected \subseteq Devices
    /\ leaving \in Devices \cup {NoDevice}
    /\ plugged \subseteq Devices
    /\ starts \in 0 .. MaxStarts

(* status_ is not initialised; nothing reads it before it is written.      *)
ManagerInit ==
    /\ app = "stopped" /\ held = {}
    /\ manager = "off" /\ exit = FALSE
    /\ initialized = FALSE /\ initStatus = 0 /\ result = 0
    /\ factory = 1
    /\ devices = <<>>
    /\ acquired = {} /\ pipes = {} /\ cameras = {} /\ registered = {}
    /\ hotplug = {} /\ disconnected = {}
    /\ leaving = NoDevice
    /\ plugged \in SUBSET Devices
    /\ starts = 0

-----------------------------------------------------------------------------
(***************************************************************************)
(* The application.                                                        *)
(***************************************************************************)

(* Private::start() and Thread::start().                                   *)
Start ==
    /\ app = "stopped" /\ manager = "off"
    /\ starts < MaxStarts
    /\ starts' = starts + 1
    /\ app' = "waiting"
    /\ manager' = "enumerate"
    /\ exit' = FALSE
    /\ UNCHANGED <<held, initVars, devices, ownerVars, leaving, plugged>>

(* The condition variable's predicate.                                     *)
Woken == initialized

StartWait ==
    /\ app = "waiting" /\ Woken
    /\ app' = "status"
    /\ UNCHANGED <<held, manager, exit, initVars, devices, ownerVars, leaving,
                   plugged, starts>>

(* status_ is read after the mutex was released.                           *)
StartStatus ==
    /\ app = "status"
    /\ app' = IF initStatus < 0 THEN "failing" ELSE "started"
    /\ exit' = (exit \/ initStatus < 0)
    /\ UNCHANGED <<held, manager, initVars, devices, ownerVars, leaving,
                   plugged, starts>>

ExitSet == TRUE

(* The application returns its cameras before it stops the manager, as the *)
(* documentation asks.                                                     *)
StopManager ==
    /\ app = "started" /\ held = {}
    /\ app' = "joining"
    /\ exit' = ExitSet
    /\ UNCHANGED <<held, manager, initVars, devices, ownerVars, leaving,
                   plugged, starts>>

(* Thread::wait() returns, in stop() or in a start() that failed.          *)
Joined ==
    /\ app \in {"failing", "joining"} /\ manager = "off"
    /\ app' = "stopped"
    /\ UNCHANGED <<held, manager, exit, initVars, devices, ownerVars, leaving,
                   plugged, starts>>

(* CameraManager::cameras() and get().                                     *)
Get(d) ==
    /\ app = "started" /\ d \in cameras
    /\ held' = held \cup {d}
    /\ UNCHANGED <<app, manager, exit, initVars, devices, ownerVars, leaving,
                   plugged, starts>>

(* The media devices of the pipeline handlers that are still referenced,   *)
(* once these are the owners: ~PipelineHandler() releases the others.      *)
Referenced(owners) == acquired \cap owners

Put(d) ==
    /\ d \in held
    /\ held' = held \ {d}
    /\ acquired' = Referenced(pipes \cup cameras \cup held')
    /\ UNCHANGED <<app, manager, exit, initVars, devices, pipes, cameras,
                   registered, hotplug, disconnected, leaving, plugged, starts>>

-----------------------------------------------------------------------------
(***************************************************************************)
(* run() and init().                                                       *)
(***************************************************************************)

(* readdir() and udev report the devices in any order.                     *)
Enumerate ==
    /\ manager = "enumerate"
    /\ manager' = "match"
    /\ devices' \in SetToSeqs(plugged)
    /\ factory' = 1 /\ result' = 0
    /\ UNCHANGED <<appVars, exit, initialized, initStatus, ownerVars, leaving,
                   plugged, starts>>

(* There is no enumerator, or it fails.                                    *)
EnumerateFails ==
    /\ manager = "enumerate"
    /\ manager' = "publish"
    /\ devices' = <<>>
    /\ result' = -1
    /\ UNCHANGED <<appVars, exit, initialized, initStatus, factory, ownerVars,
                   leaving, plugged, starts>>

(* DeviceEnumerator::search(), with the pattern of the factory f.          *)
Search(f) ==
    SelectInSeq(devices, LAMBDA d : d \notin acquired /\ FactoryOf[d] = f)

(* Mistake: each factory creates one pipeline handler.                     *)
LeaveFactory ==
    IF factory < Len(Factories)
      THEN factory' = factory + 1 /\ UNCHANGED manager
      ELSE manager' = "publish" /\ UNCHANGED factory

(* while (1): the same factory is tried again.                             *)
SameFactory == UNCHANGED <<factory, manager>>

(* The pipeline handler of the device calls hotplugMediaDevice().          *)
Removable(d) == FactoryOf[d] \in HotplugFactories

HotplugMediaDevice(d) == hotplug \cup {e \in {d} : Removable(e)}

(* MediaDevice::acquire().                                                 *)
AcquireMedia(d) == acquired' = acquired \cup {d}

(* CameraManager::addCamera().                                             *)
AddCamera(d) == cameras' = cameras \cup {d}

(* PipelineHandler::registerCamera(), with a camera that is new.           *)
RegisterCamera(d) ==
    /\ registered' = registered \cup {d}
    /\ disconnected' = disconnected \ {d}
    /\ AddCamera(d)

Match ==
    LET i == Search(Factories[factory])
        d == devices[i]
    IN  /\ manager = "match"
        /\ i > 0
        /\ AcquireMedia(d)
        /\ pipes' = pipes \cup {d}
        /\ RegisterCamera(d)
        /\ hotplug' = HotplugMediaDevice(d)
        /\ SameFactory
        /\ UNCHANGED <<appVars, exit, initialized, initStatus, result, devices,
                       leaving, plugged, starts>>

NextFactory ==
    IF factory < Len(Factories)
      THEN factory' = factory + 1 /\ UNCHANGED manager
      ELSE manager' = "publish" /\ UNCHANGED factory

(* match() returns false: no device is left, or the one that was found     *)
(* fails and is released with its pipeline handler.                        *)
MatchFails ==
    LET i == Search(Factories[factory])
    IN  /\ manager = "match"
        /\ i > 0 => devices[i] \in Faulty
        /\ NextFactory
        /\ UNCHANGED <<appVars, exit, initialized, initStatus, result, devices,
                       ownerVars, leaving, plugged, starts>>

(* Mistake: a failure is not announced.                                    *)
PublishSuccess == initialized \/ result = 0

PublishAlways == TRUE

Publish ==
    /\ manager = "publish"
    /\ initStatus' = result
    /\ initialized' = PublishAlways
    /\ manager' = IF result < 0 THEN "off" ELSE "exec"
    /\ UNCHANGED <<appVars, exit, result, factory, devices, ownerVars, leaving,
                   plugged, starts>>

-----------------------------------------------------------------------------
(***************************************************************************)
(* exec(): removal and addition of media devices, then cleanup().          *)
(***************************************************************************)

(* DeviceEnumerator::removeDevice() and mediaDeviceDisconnected(); in      *)
(* disconnect(), Camera::disconnect() comes first.                         *)
RemoveDevice(d) ==
    LET leaves == d \in hotplug /\ d \in registered
    IN  /\ manager = "exec" /\ ~exit
        /\ d \in ToSet(devices) /\ d \notin plugged
        /\ devices' = RemoveFirst(devices, d)
        /\ hotplug' = hotplug \ {d}
        /\ disconnected' = IF leaves THEN disconnected \cup {d} ELSE disconnected
        /\ manager' = IF leaves THEN "removing" ELSE "exec"
        /\ leaving' = IF leaves THEN d ELSE NoDevice
        /\ UNCHANGED <<appVars, exit, initVars, acquired, pipes, cameras,
                       registered, plugged, starts>>

(* Mistake: only the pipeline handler forgets its camera.                  *)
KeepCamera(d) == cameras

WithoutCamera(d) == cameras \ {d}

RemoveCamera ==
    /\ manager = "removing"
    /\ cameras' = WithoutCamera(leaving)
    /\ registered' = registered \ {leaving}
    /\ acquired' = Referenced(pipes \cup cameras' \cup held)
    /\ leaving' = NoDevice
    /\ manager' = "exec"
    /\ UNCHANGED <<appVars, exit, initVars, devices, pipes, hotplug,
                   disconnected, plugged, starts>>

(* DeviceEnumerator::addDevice().  No pipeline handler is asked.           *)
AddDevice(d) ==
    /\ manager = "exec" /\ ~exit
    /\ d \in plugged \ (ToSet(devices) \cup acquired)
    /\ devices' = Append(devices, d)
    /\ UNCHANGED <<appVars, manager, exit, initVars, ownerVars, leaving,
                   plugged, starts>>

ExecReturns ==
    /\ manager = "exec" /\ exit
    /\ manager' = "cleanup"
    /\ UNCHANGED <<appVars, exit, initVars, devices, ownerVars, leaving,
                   plugged, starts>>

CleanupPipes ==
    /\ manager = "cleanup"
    /\ manager' = "clear"
    /\ pipes' = {}
    /\ acquired' = Referenced(cameras \cup held)
    /\ UNCHANGED <<appVars, exit, initVars, devices, cameras, registered,
                   hotplug, disconnected, leaving, plugged, starts>>

CamerasCleared == {}

(* The cameras are destroyed, and with them their pipeline handlers.       *)
CleanupCameras ==
    /\ manager = "clear"
    /\ manager' = "reset"
    /\ cameras' = CamerasCleared
    /\ acquired' = Referenced(pipes \cup cameras' \cup held)
    /\ registered' = registered \cap acquired'
    /\ hotplug' = hotplug \cap acquired'
    /\ UNCHANGED <<appVars, exit, initVars, devices, pipes, disconnected,
                   leaving, plugged, starts>>

(* The enumerator is deleted, and the thread ends.                         *)
CleanupEnumerator ==
    /\ manager = "reset"
    /\ manager' = "off"
    /\ devices' = <<>>
    /\ UNCHANGED <<appVars, exit, initVars, ownerVars, leaving, plugged, starts>>

(* The hardware.  A device that was removed is not plugged in again while  *)
(* a pipeline handler still owns the media device it had before.           *)
Unplug(d) ==
    /\ d \in plugged
    /\ plugged' = plugged \ {d}
    /\ UNCHANGED <<appVars, manager, exit, initVars, devices, ownerVars,
                   leaving, starts>>

Plug(d) ==
    /\ d \notin plugged \cup acquired \cup ToSet(devices)
    /\ plugged' = plugged \cup {d}
    /\ UNCHANGED <<appVars, manager, exit, initVars, devices, ownerVars,
                   leaving, starts>>

-----------------------------------------------------------------------------
StartNext == StartWait \/ StartStatus \/ Joined

Run ==
    \/ Enumerate \/ EnumerateFails \/ Match \/ MatchFails \/ Publish
    \/ \E d \in Devices : RemoveDevice(d)
    \/ RemoveCamera
    \/ ExecReturns \/ CleanupPipes \/ CleanupCameras \/ CleanupEnumerator

ManagerNext ==
    \/ Start \/ StartNext \/ StopManager
    \/ \E d \in Devices : Get(d) \/ Put(d) \/ AddDevice(d) \/ Unplug(d) \/ Plug(d)
    \/ Run

ManagerSpec == ManagerInit /\ [][ManagerNext]_managerVars

-----------------------------------------------------------------------------
(***************************************************************************)
(* Properties.                                                             *)
(***************************************************************************)

(* A camera that is listed can be used: its pipeline handler owns its      *)
(* media device, which is in the system if the handler follows removals,   *)
(* and the camera is not disconnected, unless its removal is being handled *)
(* or the manager is being cleaned up.                                     *)
ListedCamerasServed ==
    manager \in {"match", "publish", "exec"} =>
        \A d \in cameras :
            /\ d \in pipes \cap acquired \cap registered
            /\ d \notin disconnected
            /\ Removable(d) => d \in ToSet(devices)

(* When the thread has ended nothing is left: no camera, no pipeline       *)
(* handler and no media device in use ("to ensure they all get destroyed   *)
(* before the device enumerator deletes the media devices", cleanup()).    *)
NothingLeft ==
    manager = "off" => cameras = {} /\ pipes = {} /\ acquired = {}

(* The camera list can be trusted from start() to stop().                  *)
CamerasSound == ManagerTypeOK /\ ListedCamerasServed /\ NothingLeft

(* Every device gets its camera, unless one of the same pipeline handler   *)
(* failed and was enumerated before it ("Try each pipeline handler until   *)
(* it exhaust all pipelines it can provide", init()).                      *)
NoCameraMissed ==
    manager = "publish" =>
        \A i \in DOMAIN devices :
            \/ devices[i] \in cameras
            \/ \E j \in 1 .. i : /\ devices[j] \in Faulty \ cameras
                                 /\ FactoryOf[devices[j]] = FactoryOf[devices[i]]

(* start() returns, whether the initialization fails or not, and stop()    *)
(* returns, even if it overtakes the initialization of a start() that did  *)
(* not wait.                                                               *)
ManagerCallsReturn ==
    /\ (app = "waiting") ~> (app \in {"started", "stopped"})
    /\ (app = "joining") ~> (app = "stopped")

(* The camera of a device that is removed leaves the list, where the       *)
(* pipeline handler follows removals.                                      *)
RemovedCamerasLeave ==
    \A d \in {e \in Devices : Removable(e)} :
        (d \notin plugged) ~> (d \notin cameras \/ d \in plugged \/ exit)

(* The calls of the application return and removals take effect.           *)
ManagerProgress == ManagerCallsReturn /\ RemovedCamerasLeave
=============================================================================
