# A TLA+ model of libcamera

This directory holds a TLA+ development of libcamera, of its clients and of its
image processing modules: modules that model their stateful parts,
configurations that check them with TLC on small instances, and theorems with
proofs for TLAPS. Nothing here is generated from the code: each definition was
translated by hand from the lines that `PROJECT.json` names for it under `map`.

## 1. The system

libcamera gives applications access to cameras. A `CameraManager` runs one
thread. In that thread it enumerates media devices, lets *pipeline handlers*
claim the ones they know, and from then on runs every operation of the pipeline
handlers as a message. Applications call `Camera` from threads of their own; a
call that has to touch the hardware is posted to the manager thread and, except
for `queueRequest()`, waits there for its result. Some pipeline handlers talk to
an *IPA module*, which holds the algorithms and may run in a process of its own.

    clients             application threads      manager thread                kernel

    GStreamer element   Camera --- messages ---> PipelineHandler -- V4L2Device -- V4L2
    V4L2 layer            |                        |   ^      |
    Android HAL         FrameBufferAllocator     Requests    EventNotifier, Timer -- poll()
    cam, qcam             |                        |
                        CameraManager ---------- DeviceEnumerator - MediaDevice - udev, lockf()
                                                   |
                                                 IPAManager -- IPCUnixSocket -- worker process

### Components, their state and operations

| component | state | operations | hard part |
|---|---|---|---|
| `Camera` | `state_`, `disconnected_`, `allocator_` | acquire, release, configure, createRequest, queueRequest, start, stop, disconnect | calls of two threads and a hot-unplug in a third |
| `Request` | pending buffers, status, cancelled | addBuffer, completeBuffer, complete | completed by buffers of several devices |
| `PipelineHandler` | `queuedRequests_`, `cameras_`, `mediaDevices_` | queueRequest, completeBuffer, completeRequest, lock, unlock, registerCamera, disconnect | order of completion, partial failure |
| `FrameBufferAllocator` | buffers per stream | allocate, free, destructor | an allocation that fails halfway |
| `V4L2VideoDevice`, `V4L2BufferCache` | slots, `queuedBuffers_`, notifier | export, import, release, queueBuffer, bufferAvailable, streamOn, streamOff | slots leaked over a long sequence of calls |
| `V4L2Device`, controls | the controls of a device | setControls, getControls | a list that is written in part |
| `MediaDevice` | `acquired_`, `lockOwner_`, entities, pads, links | acquire, release, lock, unlock, populate, setupLink | other processes, and their death |
| `Thread`, `Object`, `Message`, `BoundMethod`, `Semaphore` | message lists, `pendingMessages_`, `exit_` | postMessage, dispatchMessages, moveToThread, removeMessages, exec, exit | lost wake-ups, objects that move |
| `EventDispatcherPoll`, `Timer`, `EventNotifier` | `timers_`, `notifiers_`, event descriptor | start, stop, setEnabled, processEvents, interrupt | slots that change the tables being walked |
| `Signal` | `slots_`, and `Object::signals_` | connect, disconnect, emit, destructors | slots and objects that go away during an emission |
| `CameraManager` | `cameras_`, `pipes_`, `initialized_` | start, stop, init, cleanup, addCamera, removeCamera | start and stop across threads, hot-unplug |
| `DeviceEnumerator` | `devices_`, `pending_`, `orphans_`, `devMap_` | enumerate, addUdevDevice, udevNotify, removeDevice | nodes and media devices that come in any order, and again |
| RkISP1, `Timeline`, IPA of RkISP1 | `frameInfo_`, `frame_`, free parameters and statistics buffers, scheduled actions, exposure and gain | start, stop, queueRequestDevice, bufferReady, paramReady, statReady, timeout, updateStatistics | three devices and the algorithms complete one request; a control loop with dead time |
| IPU3 | raw buffers between CIO2 and ImgU, links, configuration | validate, configure, start, stop, queueRequestDevice, cio2BufferReady, imguInputBufferReady, imguOutputBufferReady | buffers that circulate; two outputs with one sensor |
| vimc, UVC | configuration, controls | generateConfiguration, validate, configure, queueRequestDevice | sizes at their limits |
| `Process`, `ProcessManager` | `processes_`, children | start, kill, sighandler, destructor | coalesced signals, restarts from slots |
| `IPCUnixSocket` | header, notifier, descriptors | create, bind, send, receive, close | header and payload are separate datagrams |
| `IPAManager`, proxies, `IPAContextWrapper`, `ControlSerializer` | modules, workers, handles of info maps | createIPA, start, configure, mapBuffers, processEvent | two sides that must agree on handles |
| GStreamer element | task, queue of wraps, pending buffers of pads, pool | state changes, task_run, requestCompleted | three threads |
| V4L2 layer | `currentBuf_`, semaphore, completed buffers | open, set format, REQBUFS, QBUF, DQBUF, STREAMON, STREAMOFF, close | state that survives a stop |
| Android HAL | `running_`, `config_`, metadata packets | open, close, configureStreams, processCaptureRequest, add, delete, update, sort and append entries | results in order; shared data area |
| cam, qcam | event loop, requests, buffers | capture, requestComplete, exit | the callback races stop() |

`PROJECT.json` lists every component with what is and is not modelled of it, and
under `hazards` the places where a test would hardly see something go wrong.

### What makes them correct

* Requests come back in the order they were queued, each exactly once, and
  `stop()` leaves none behind.
* A buffer in the driver belongs to a live request, has an entry in
  `queuedBuffers_` and a slot nobody else is offered, and comes back. Internal
  buffers of a pipeline handler are in one place and keep circulating.
* A configuration that validate() accepts fits the hardware and reaches it.
* A camera is used by one process at a time; nothing stays locked.
* A message is handled in the thread of its object, in order, and wakes the
  thread if it sleeps. Timers, notifiers and signals reach who wants them, and
  only those.
* A listed camera can be used, a complete media device is listed, and a stopped
  manager owns nothing.
* The death of a worker is noticed; messages and control lists mean the same on
  both sides of an IPA interface; exposure settles.
* Each client pairs completions with its own records, loses no buffer and ends
  what it was asked to do.

## 2. Modules

| module | models | state | composed of |
|---|---|---|---|
| `V4L2VideoDevice` | one capture video node and its buffer cache; the driver is external | `free`, `planes` (the cache), `queuedBuffers`, `fdEnabled`, and the driver's `kernel`, `streaming` | |
| `V4L2Controls` | setControls(), getControls(), and the controls of a request in vimc and UVC | `current` (the device's values), `wanted`, `call` | |
| `ExposureLoop` | the automatic exposure of the RkISP1 IPA, the sensor's latency, the actions that set the sensor | `settings`, `sensor` (the settings on their way), `ae`, `turn` | |
| `RequestFifo` | abstract: a queue whose elements leave in order once they are not busy | `queue`, `busy` | |
| `PipelineHandler` | requests, the queue, completion, over abstract hardware (`device`: the buffers it holds) | `stage`, `status`, `pending`, `requestOf`, `queuedRequests` | refines `RequestFifo` |
| `CameraSession` | a camera with one stream from the application to the driver | the two above, plus `state`, `allocator`, `messages`, and where each thread is | instances of `V4L2VideoDevice` and `PipelineHandler`, the hardware of the latter being the queue of the former |
| `PipelineLock` | acquire() and release() of cameras of several processes, of which each may have several | `lockOwner`, `kernelLock`, `pc`, `dev` | |
| `Lists` | erasing list entries that are no longer wanted (`Without`) | (operator) | |
| `MessageLoop` | threads, objects, messages, blocking calls | `list`, `pending`, `thread`, `eventfd`, `loop` | `Lists` |
| `EventDispatcher` | one thread's timers and notifiers | `timers`, `running`, `registered`, `entries`, `todo` (the descriptors the round has yet to visit), `round` | `Lists` |
| `Signal` | signals, slots and the objects they belong to | `slots`, `signals`, `emission`, `posted`, `leaving`, and what was deleted too early (`pulled`, `stranded`, `misused`) | `Lists` |
| `Timeline` | the timeline of RkISP1: deadlines from the history of frames, and one timer | `history`, `interval`, `pendingActions`, `alarm` | |
| `Events` | the three above, one at a time | `part` | `EventDispatcher`, `Signal`, `Timeline` |
| `CameraManager` | the manager's life, matching and removal of devices, whatever order they are enumerated in | `manager`, `app`, `cameras`, `pipes`, `acquired` | |
| `CameraThread` | what the manager's thread keeps, one part at a time | `part` | `CameraManager`, `PipelineHandler` |
| `DeviceEnumerator` | the udev enumerator, and what MediaDevice::populate() makes of the kernel's description | `devices`, `pending`, `orphans`, `devMap`, the event queue | |
| `V4L2Devices` | what is done with devices, one aspect at a time | `aspect` | `V4L2VideoDevice`, `V4L2Controls`, `ExposureLoop`, `PipelineLock`, `DeviceEnumerator` |
| `RkISP1` | the RkISP1 pipeline handler with its scheduled actions and algorithms, over three abstract devices that may refuse a buffer | `queue`, `info`, `actions`, the pools, what each device holds, `refused` | refines `RequestFifo` |
| `IPU3Configuration` | validate() and generateConfiguration() of IPU3, CameraSensor::getFormat() | (operators) | |
| `IPU3` | the IPU3 pipeline handler over CIO2, the ImgU and its outputs | `config`, `raw`, `links`, `queue`, `dev` (what each output holds) | `IPU3Configuration`; refines `RequestFifo` |
| `SingleStream` | generation, validation and programming of configurations by UVC, vimc and RkISP1, under Camera::configure() | `asked`, `entries`, `status`, `applied`, `chain` (the size on each device) | |
| `Pipelines` | the three above, one at a time | `pipeline` | `RkISP1`, `IPU3`, `SingleStream` |
| `Process` | processes, children, SIGCHLD and the walk over the list | `proc`, `child`, `processes`, the pipe | |
| `IPCUnixSocket` | a pair of sockets | the queue, the header, the bound ends | |
| `IPAContext` | calls across the C interface and the serializer | `handles`, `infoMaps`, `lists`, `arrived` | |
| `IPAManager` | the choice of a module, the proxy and its worker | the modules, and the three above | `Process`, `IPCUnixSocket`, `IPAContext` |
| `ClientCamera` | what a client sees of a camera, which may drop or forget a request | `cstate`, `cqueue`, `cjammed`, `calloc` | |
| `GstLibcameraSrc` | the GStreamer source: its task, the application and the callback | the wraps, pads, pool, task | `ClientCamera` |
| `V4L2Compat` | the proxy of the V4L2 layer | `currentBuf`, `sema`, `ready`, the open files | `ClientCamera` |
| `CameraDevice`, `CameraMetadata` | the Android HAL; metadata packets | `sent` (notifications and results in their order), `descriptors`; `packet`, `written` | `ClientCamera` |
| `CaptureApps` | cam and qcam | `appPc`, the loop, the buffers | `ClientCamera` |
| `Clients` | the clients, one at a time, on one camera | `client` | the four above |
| `PipelineHandler_proofs`, `CameraSession_proofs`, `Pipelines_proofs`, `Clients_proofs` | the theorems about a module | | extend the module of the same name |
| `Devices_proofs` | the theorems about video devices, controls, locks and the enumerator | | extends `V4L2Devices` |
| `EventLoop_proofs` | the theorems about messages, timers, notifiers and signals | | extends `MessageLoop` and `Events` |
| `Managers_proofs` | the theorems about the camera manager and isolated IPAs | | extends `CameraThread` and `IPAManager` |
| `ListFacts` | lemmas about lists that several proofs need | | `Lists` |
| `MC*` | the small instances | | extend the module of the same name |

Where the values of a small instance do not fit into a configuration, an `MC`
module or, in `Events`, `Pipelines` and `Clients`, the last section of the module
defines them. `V4L2Devices`, `CameraThread`, `Events`, `Pipelines` and `Clients` put
components side by side that share no state, with a variable that never changes
and says which one a behaviour is about: their checks are those of the parts, and
theorems say so where the proofs are about a part (`LocksAreAnAspect`,
`CamerasAreAPart`, ...). In `CameraSession`, `IPAManager`, `DeviceEnumerator`, and in
each client with its camera, the parts do interact. Modules that one module of
proofs extends give their specifications different names (`ManagerSpec`,
`EnumeratorSpec`, `LockSpec`, `IPASpec`, ...).

An action stands for a whole function, or for the part of it between two points
where another thread can interfere: a mutex, the posting of a message, the wait
for a semaphore, the return of a system call. So `Camera::start()` is `Start`
(state check, import, message posted), `HandleStart` (the manager thread) and
`StartReturn` (state set); `MediaDevice::lock()` is `LockCheck` (`lockOwner_`
tested) and `LockF`. Failures of system calls are choices (`ok \in BOOLEAN`).

Data is reduced to what the properties tell apart. A frame buffer is an exported
slot or one of the application's buffers; a message carries its operation and
its request; a metadata entry is its tag, its type and which of its values it
holds; sizes are pairs of numbers, from a small set around the limits.
What is used after it was deleted, or read before it was set, becomes a flag of
the model (`misused`, `dangling`, `crashed`, `aborted`, `overtaken`, ...) and, where
the code goes on, an arbitrary choice. A property that such a flag exempts says so
in its comment, and section 5 says what leads to it.

Definitions introduced by the word *mistake* are plausible errors in the code.
`PROJECT.json` names one for each property, with the definition it replaces.
Where a property has several parts, further mistakes break the other parts:
`AccessUnlessDisconnected` for `AccessAllowed` (`CameraSession`), `TakeAlways` for
`HeaderExpected` (`IPCUnixSocket`), `QueueRequestAnyway` (`IPU3`), `FirstLarger`
(`SingleStream`), `ResultFirst` for `Cancelled` and `HalCloseRunning` for `HalClose`
(`CameraDevice`), `ReleaseOnce` for `ReleaseSema` (`V4L2Compat`), `OnlyWake` for
`Exited` (`CaptureApps`).

## 3. Runs

TLC finds no error in these. States are distinct states.

| run | instance | states | what it shows |
|---|---|---|---|
| `devices` | two slots, two imported buffers, ioctls that fail, removal; two devices with different controls; 32 scenes, a sensor up to two frames late; three processes with a camera each on two media devices, crashes; a media device with two nodes, one of them shared by two entities, and one with a broken topology, plugged in up to twice | 98 032 | the driver's buffers are always tracked with the notifier armed (`KernelBuffersTracked`); a free slot is idle (`FreeSlotsIdle`); queued buffers return (`BuffersReturn`); what setControls() returns says what was written, and the list lags one control behind (`ControlsSound`); automatic exposure settles on the best the sensor can do, and AeLocked tells whether that is the target (`ExposureSettles`); `InstanceExclusion`, `NoLeakedLocks`; what is listed is complete (`EnumeratorSound`), what is complete is listed unless another device made the enumeration fail (`DevicesListed`) |
| `camera_thread` | three devices, two factories of which one follows removals, one device that may fail, two starts; three requests, two buffers of one stream and one of another | 45 516 | listed cameras are usable and nothing is left after stop() (`CamerasSound`), no device is missed without a reason (`NoCameraMissed`), start() and stop() return and removed cameras leave (`ManagerProgress`); buffers in hardware have live owners (`DeviceBuffersOwned`), queued requests can finish (`QueuedRequestsAdvance`), the queue implements `RequestFifo`, every queued request returns |
| `session` | two requests, two slots, one imported buffer, an allocator, errors, hot-unplug | 325 786 | queueBuffer() always has its cache (`SessionSafe`), after stop() nothing is on its way and requests complete only while the camera runs (`StoppedMeansQuiet`), calls and accepted requests return (`SessionProgress`) |
| `message_loop` | two threads, a parent and a child, one queued and one blocking call, two moves | 168 746 | messages stay with their object (`MessagesAtHome`) and in order (`PendingInOrder`); no wake-up is lost, blocking calls return, exit() ends the loop (`LoopProgress`) |
| `event_dispatcher` | two timers, three ticks, four notifiers on two descriptors, three operations of slots; two signals, an object in each of two threads, two connections; a timeline with two actions | 209 761 | the tables keep sound while they are walked (`TablesSound`), the lists of signals and objects agree, and what was deleted is used in three cases only (`SlotsConnected`), signals go to enabled notifiers and running timers only (`SignalsWanted`), and signals, messages and actions all arrive (`EventsArrive`) |
| `pipelines` | three requests; RkISP1 with two buffers of each kind at two addresses, three frame numbers and one refused buffer; IPU3 with two raw buffers and both outputs; configurations around the limits of a real sensor, of a UVC camera and of vimc | 510 438 | internal buffers are accounted for (`BuffersAccounted`); validated configurations fit the hardware and reach it, with two exceptions (`ConfigurationSound`); RkISP1 forgets the request of which a device refuses a buffer and those whose action stop() drops, and otherwise no request falls between devices (`RequestsKept`); the queue implements `RequestFifo`; requests return |
| `isolated_ipa` | a worker and another child, three forks, two messages, a queue of two datagrams, two info maps and two lists | 158 201 | the list of processes is that of the running ones (`RunningListed`); messages arrive whole and lists keep their map (`InterfaceSound`); deaths are reported and messages arrive (`IPAProgress`) |
| `clients` | one client on a camera that may drop or forget requests: GStreamer with three frames and two sessions, the V4L2 layer with two descriptors, the Android HAL with three frames, cam or qcam with three buffers; metadata packets of three entries | 735 444 | `GstConsistent`, `DequeuesOldest`, `AndroidSound`, `CaptureSafe`, and that what was asked ends (`ClientsProgress`) |

These runs end in a violation; `PROJECT.json` quotes the statement of each under
`findings`.

| run | statement | what happens |
|---|---|---|
| `session_restart` | `RequestsComplete`: a queued request completes | `streamOff()` empties `queuedBuffers_` but leaves the cache entries in use; with an allocator the cache survives stop(), and after a few restarts queueBuffer() finds no free slot |
| `shared_handler` | `InstanceExclusion`: cameras of one pipeline handler are used by one instance of libcamera | a second camera of the handler in the same process: lock() refuses it, and `PipelineHandler::lock()` unlocks the devices of the first camera, which another process can then acquire |
| `signals` | `NothingDeletedUsed`: slots may disconnect, and objects be destroyed, at any time | emit() copied a list of pointers, and the slot it comes to was deleted by disconnect() |
| `enumeration` | `BadDevicesSkipped`: a media device that cannot be enumerated is skipped | the scan ends with the error of the device, and enumerate() with it |

Some of the other divergences of section 5 are seen by changing one constant of a
configuration; the property named there is then violated.

### Bounds

Two slots are enough for one to leak and one to remain; two requests for one to
overtake the other, and three for one to wait between two. Two media devices
give `lock()` a device to undo; three processes let one die while two compete.
With two addresses the buffers of a session of RkISP1 always reuse the memory of
the one before, which is the case where frame infos can be confused; the proof
covers any set of addresses. Three frames let one be skipped or complete between
two others. Two moves bring an object back to the thread it left. Two connections
let a slot disconnect another one of the same object or of another. Two raw buffers
let one be in CIO2 while the other is in the ImgU; two plugs bring a device back
that the tables remember, and four in all let it do so next to the other one; three
forks let a slot restart a process while another dies. Three entries of a metadata
packet let one be removed between two whose data moves, of types of four and of
eight bytes, inline and not, and with no value at all. A buffer that a device of
RkISP1 refuses once is enough: nothing is claimed after the first.

Exposure is checked for 32 scenes: the sensor has exposure times of 1 to 100 and
gains of 16 to 64, so that what a scene can ask for reaches from 1 to 400. There are
scenes below, at and above the point where the gain comes into play, around every
one of the first steps of the gain, which are the coarsest, and around the end of
the range. All of 1 to 440 were checked once, with all latencies; the scenes kept
include one for every kind of end: the target, a mean more than 5% below it because
the next step of the gain exceeds it (scene 105), and each limit.

`MaxOps`, `MaxTime`, `MaxStarts`, `MaxMoves`, `MaxMethods`, `MaxEmissions`,
`LastTick`, `MaxActions`, `MaxSessions`, `MaxCompleted`, `MaxFrames`, `MaxCalls`,
`MaxForks`, `MaxMessages`, `MaxLists`, `MaxPlugs`, `MaxTotal`, `MaxConfigures`,
`MaxInterrupts`, `MaxKeep`, `MaxStrays`, `MaxRefused`, `MaxSkips` and `MaxToggles`
bound what an application, a user, the camera or the hardware may do for ever, and
appear only in guards; `MaxOps = 3` allows two timers to be started and one
restarted or stopped, or two notifiers to be enabled and one disabled, in any
slots (four operations were checked too). `MaxLatency = 2` is not such a bound:
with three frames of latency the loop oscillates (section 5).

Some constants select between kinds of application. `Synchronised` in
`CameraSession`: queueRequest() never overlaps start() or stop(). `Synchronised`
in `MessageLoop`: nobody calls a method of an object that is being moved, as the
documentation of postMessage() demands. `RestartEarlier` in `EventDispatcher`: a
running timer is restarted with an earlier deadline. The topology of
`PipelineLock` (`CameraOf`, `InstanceOf`): `devices` has one camera in each
process, `shared_handler` two in one. In `CameraManager` the application returns
its cameras before stop(), as documented, and `HotplugFactories` names the
pipeline handlers that follow removals, of which there is one, UVC.

`CHECK_DEADLOCK FALSE` is set where the system may stop: a device that is
removed, an object that is deleted, a manager at its last start, a client that
was closed, a crashed worker, or any behaviour at one of the bounds above.

### Fairness

The manager thread and every event loop run (`exec()` returns only after
`exit()`), so their steps are weakly fair; a call that was begun goes on; time
passes; the driver fills the buffers it has while it streams. The event of one
descriptor is strongly fair in `V4L2VideoDevice`, because poll() reports all ready
descriptors in one round and `processNotifiers()` visits them all: no notifier can
be starved by another (`event_dispatcher` checks just that). In `Pipelines` each
buffer in a device and each scheduled action is weakly fair, for the same reason.
udev reports events in order for each device, so each one is weakly fair, and
enumerate() goes on once it was called. A signal that is pending is delivered, and
the loop of a worker turns. A streaming thread of GStreamer goes on, a join that
can return returns, and elements downstream give every buffer back; a camera that
has a request which completes completes it, but nothing obliges it to keep one.
Statistics of a sensor that streams keep coming; frames may be skipped only
`MaxSkips` times. No fairness obliges an application to call anything, a user to
interrupt, another thread to interrupt poll(), or hardware to be plugged in or
out.

## 4. Proofs

The theorems hold for every value of the constants that satisfies the named
assumptions of the modules.

| module | theorem | statement |
|---|---|---|
| `Devices_proofs` | `DeviceInvariance` | `Spec => []DeviceInv` |
| | `DequeueIsSafe` | `Spec => []KernelBuffersTracked` |
| | `SlotsAreIdle` | `Spec => []FreeSlotsIdle` |
| | `BuffersAreAnAspect` | `V4L2DeviceSpec => Spec` |
| | `ControlsAreSound` | `V4L2DeviceSpec => []ControlsSound` |
| | `LockInvariance` | if `Apart`: `LockSpec => []LockInv` |
| | `Exclusion` | if `Apart`: `LockSpec => []InstanceExclusion` |
| | `NothingLeaks` | if `OneThreadEach`: `LockSpec => []NoLeakedLocks` |
| | `LocksAreAnAspect` | `V4L2DeviceSpec => LockSpec` |
| | `EnumerationSound` | `EnumeratorSpec => []EnumeratorSound` |
| | `EnumeratorIsAnAspect` | `V4L2DeviceSpec => EnumeratorSpec` |
| `PipelineHandler_proofs` | `PipelineInvariance` | `Spec => []PipeInv` |
| | `BuffersOwned` | `Spec => []DeviceBuffersOwned` |
| | `RequestsAdvance` | `Spec => []QueuedRequestsAdvance` |
| | `EmptyHardwareEmptyQueue` | `Spec => [](PipeInv /\ (device = {} => queuedRequests = <<>>))` |
| | `InOrderCompletion` | `Spec => ImplementsFifo` |
| `CameraSession_proofs` | `RequestsAreAnAspect` | `Spec => P!Spec`, `P` being `PipelineHandler` |
| | `SessionInvariance` | if `Synchronised`: `Spec => [](SessionInv /\ P!PipeInv)` |
| | `SessionIsSafe` | if `Synchronised`: `Spec => []SessionSafe` |
| | `StoppedIsQuiet` | if `Synchronised`: `Spec => StoppedMeansQuiet` |
| `EventLoop_proofs` | `LoopInvariance` | if `Synchronised`: `Spec => []LoopInv` |
| | `MessagesAreAtHome` | if `Synchronised`: `Spec => []MessagesAtHome` |
| | `MessagesInOrder` | if `Synchronised`: `Spec => []PendingInOrder` |
| | `TablesAreSound` | if `~RestartEarlier`: `EventsSpec => []TablesSound` |
| | `SignalsAreWanted` | if `~RestartEarlier`: `EventsSpec => SignalsWanted` |
| | `SlotsAreConnected` | `EventsSpec => []SlotsConnected` |
| `Managers_proofs` | `ManagerInvariance` | `ManagerSpec => []ManagerInv` |
| | `CameraListIsSound` | `ManagerSpec => []CamerasSound` |
| | `EveryDeviceTried` | `ManagerSpec => []NoCameraMissed` |
| | `CamerasAreAPart` | `CameraThreadSpec => ManagerSpec` |
| | `RequestsAreAPart` | `CameraThreadSpec => Spec`, that of `PipelineHandler` |
| | `IPAInvariance` | `IPASpec => []IPAInv` |
| | `ProcessesListed` | `IPASpec => []RunningListed` |
| | `InterfaceIsSound` | `IPASpec => []InterfaceSound` |
| `Pipelines_proofs` | `InternalBuffers` | `Spec => []BuffersAccounted` |
| | `NoRequestForgotten` | `Spec => RequestsKept` |
| | `PipelinesInOrder` | `Spec => ImplementsFifo` |
| `Clients_proofs` | `CaptureBuffersSafe` | `Spec => []CaptureSafe` |
| | `DequeuesInOrder` | `Spec => []DequeuesOldest` |
| | `WrapsAndFrames` | `Spec => []GstConsistent` |
| | `ResultsInOrder` | `Spec => [](client = "android" => ResultsMatch)` |
| | `PacketsInOrder` | `Spec => [](client = "metadata" => PacketsHold)` |
| | `TagsFound` | `Spec => [](client = "metadata" => MetadataSound)` |
| | `AndroidInOrder` | if `PacksFit`: `Spec => []AndroidSound` |

Each inductive invariant contains the types of its module's variables. There is
one lemma per action or group of actions, and TLC checked each invariant on the
small instance first. The hypotheses are kinds of application, not gaps of the
proofs: without them the statements are false, as section 5 explains. `PacksFit` is
a computation, not an assumption about use.

**Video device and controls.** Assumptions: `NumSlotsAssumption`,
`BufferAssumption` (the absent buffer is none of the buffers, and imported buffers
are not exported ones), `ControlsAssumption`. Whether the notifier stays armed
depends on entries of `queuedBuffers_` that the driver may not hold, so `DeviceInv`
adds `ArmedWhileQueued`; `open()` disarms it, hence `ClosedIsIdle`; a failing QBUF
keeps the slot, so `FreeSlotsIdle` says only that the slots still offered are idle.
For the controls, the invariant adds to `ControlsSound` that the device has a value
for exactly the controls it supports; the argument follows the index at which
the ioctl stops, on which the result, the device and the list depend: the result
is that index, the device has what is before it, the list one less.

**Request queue.** Assumption: `RequestAssumption`. `PipeInv` adds to the checked
invariants that `pending_` and `FrameBuffer::request_` agree (`PendingOwned`),
that a request in the queue is held by the camera and a posted one waits for a
buffer (`StagesAgree`), and that the queue holds a request once (`QueuedOnce`).
The step simulation maps a successful queueRequest() to `Submit` and a
completion of any set of buffers, be it one bufferReady or stop(), to `Finish` of
the requests that wait for no other buffer; all other steps are stutters.
`EmptyHardwareEmptyQueue` needs also that the oldest request is unfinished
(`OldestWaits`): completeRequest() leaves no finished request at the front.

**Session.** The hypothesis `Synchronised` says that queueRequest() does not
overlap start() or stop(). `CameraSession` implements `PipelineHandler`, with the
queue of the video device for its hardware and no hypothesis at all; so the
theorems about requests, used through an instance of `PipelineHandler_proofs`, hold
of the session. `SessionInv` relates threads, camera and device: a blocking call
is the last message (`CallIsLast`), start() and stop() exclude requests in flight
(`CallsExclude`), the cache exists as long as a buffer may be queued (`CacheHeld`)
and streaming lies between start and stop (`StreamingInside`). That stop() leaves
nothing behind combines `StreamingInside` with `EmptyHardwareEmptyQueue`.

**Locks.** Assumptions: `TopologyAssumption` (each thread drives a camera, each
camera belongs to an instance), `DevicesAssumption` (at least one media device).
`Exclusion` has the hypothesis `Apart` that different threads belong to different
instances: one camera of the handler per process, driven by one thread. Without
it exclusion is false, which is what `shared_handler` shows. `InstanceExclusion` is
not inductive: it says nothing of the locks. `LockInv` adds what the argument
needs: `OwnersAgree` (the kernel's lock table and `lockOwner_` say the same), `LoopAt`
(the loop of lock() owns exactly the devices before its index, the loop of unlock()
none of them), `StateAt` (outside of any call, a camera that is not Available owns
every device) and `NobodyElse` (cameras and instances without a thread are
untouched). Two cameras held at once would both own device 1, which the kernel
gives to one process. A frame lemma deals with the threads of other instances.
`NothingLeaks` needs less: any number of cameras in an instance, one thread for
each (`OneThreadEach`). Cameras then take each other's locks away, so `SharedInv` does
not say who owns a device; it says that for every locked device there is a thread
of the instance that has yet to return it.

**Messages.** Assumption: `CallAssumption`; in particular an object is created in
the thread of its parent, as the constructor does it. The hypothesis `Synchronised`
says that an object is not moved during a call made on it. `PendingInOrder` relates
an object to one list, while moveObject() moves a whole family out of one list in
one pass; so `LoopInv` adds that a family is in one thread (`FamiliesTogether`),
that a call which has read the thread of its object has not been overtaken by a
move (`TargetsCurrent`), and that a message is posted once (`PostedOnce`), which
also bounds `pendingMessages_`. The step for a move rests on what selecting the
messages of one object does to a list with messages appended, taken off, replaced
by null pointers, and to the concatenation of several such selections
(`MovedMessages`).

**Events and signals.** Assumptions: `DispatcherAssumption`, `SignalAssumption`.
`DispatcherInv` says that `timers_` holds the running timers once and sorted by
deadline, that the descriptors a round has yet to visit have entries, are visited
once each, and that what is registered is enabled. Slots may start, stop, enable
and disable anything between two visits, so every part is needed at every step of
the walk. Restarting a running timer to an earlier time breaks the order the
search relies on. Signals have no hypothesis: slots and other threads disconnect
and destroy what they like. `SignalInv` adds to `SlotsConnected` that what an
emission, a message or a destructor still holds a pointer to has not been deleted,
unless it was deleted under it (`EmissionAlive`, `PostedAlive`, `DestructorSound`,
each up to `pulled`), and that an object names a signal only as long as it has a
slot on it (`SignalsNamed`). The disagreement that the run `signals` shows is so
bounded: nothing deleted is used in any other case.

**Camera manager.** Assumption: `ManagerAssumption`. `ManagerInv` says who can hold
cameras and what the thread has created or destroyed at each step of start(),
run() and stop() (`CallsFrame`, `Lifetimes`), what a listed camera rests on
(`CamerasServed`), and which devices the factories behind the current one have
handled (`FactoriesDone`), whatever order the devices are enumerated in. Only
handlers in `HotplugFactories` are told of removals (`Removable`): the camera of
another one stays listed when its device has gone.

**Isolated IPAs.** Assumption: `IPAAssumption`. `ProcInv`: processes that run have
children of their own that nobody waited for, which is what lets the walk over
the list erase by position. `SocketInv`: the messages sent are those received,
then the header that waits for its payload, then the datagrams in the socket, in
that order. `ContextInv`: both sides give the same handle to the same info map,
so a list that is alone in its event finds its map or none.

**Enumerator.** Assumption: `EnumeratorAssumption` (media devices and nodes are
different things, the absent object is no object). `EnumeratorInv` adds to
`EnumeratorSound` that an entry which waits is not listed and its nodes are either
met or awaited (`TablesSound`), and the count `Announced`: for each device, the
announcements that were handled and those still in the scan or the event queues
are at most the times it was plugged in. That count carries the claim about
`dangling`: a node that finds a deleted entry was announced before, so it
was plugged in twice. Nothing is assumed of the order of events, nor of
topologies, which may be broken, and an enumeration may fail.

**Pipeline handlers.** Assumptions: `BoundsAssumption` (there are buffers, the raw
ones are finitely many), `NoInfoAssumption`. `PipelinesInv` has a part for each
handler and `QueueInv` for the queue they share: it holds a request once and does
not begin with a complete one, which makes every completion `Finish` of
`RequestFifo`. For RkISP1, `RkInv` ties each frame info to one waiting request,
each scheduled action to an info of this session, and says what stop() has
emptied so far. A device may refuse a buffer, and stop() drops the actions, so
that a request may be left behind (`Forsaken`), and its info may then be confused
with that of a later frame. As long as there is none, `RkClean` holds: every waiting
request has its info, its buffers are scheduled or in their devices, and no
parameter or statistics buffer is in two places. Being refused or forsaken is
for ever, so `refused = {} /\ Forsaken = {} => RkClean` is inductive where `RkClean`
is not. From `RkClean` before
the step follows what `RequestsKept` says of it: which requests it makes `Lost`,
none but the one with the refused buffer, or at the end of stop() those whose
action was dropped, and those in every case. For the IPU3,
`IpuInv` follows the raw buffers through the phases of stop() and the devices
through refused requests (`IpuDevices`).

**cam and qcam.** Assumption: `AppAssumption`. `AppInv`: a request is in one place
(`Apart`), and `Course` says what each step of the main thread may rely on. While
it waits in stop(), what is in the mail before the message of stop() will be
cancelled by it, and what is behind it was posted after the state had changed
(`overtaken`); this is what `CaptureSafe` leaves open when the buffers are freed.

**V4L2 layer.** Assumption: `V4L2Assumption`. DQBUF does not look at the buffers
that completed: it counts. `V4L2Inv` says that, for an application that queues
its buffers in turn, of a camera that has dropped none, completed buffers, queued
ones, those waiting for STREAMON and the next index follow one another modulo the
number of buffers (`InTurn`). The modular steps are lemmas of their own.

**GStreamer element.** Assumption: `GstAssumption`. `GstInv`: the camera has the
requests of the wraps, and one more exactly while the task holds the object lock
(`Wraps`, `Locking`), so the completion handler, which takes that lock, finds its
wrap. A request that is refused, dropped or forgotten leaves its wrap behind
(`strays`): from then on the count is all that is claimed, which still keeps the
handler from an empty queue. What an element left behind when its camera was
opened again (`old`: wraps, pending buffers, frames downstream) is counted apart.
A frame is in one place (`OnePlace`), and frames and GstBuffers add up
(`Counted`), which the proof follows with cardinalities. `Drained` is needed for
the next session: the allocator outlives the pool and every frame, so the camera
is not configured anew under frames that are still out. `KeptFew` bounds what the
pool loses to memory that was kept downstream.

**Android HAL.** `HalInv`: what was sent is a sequence of blocks, one for each
frame, of messages and then a result, in ascending order (`HalSent`); the camera's
queue is ascending and behind all that was sent (`HalQueue`); accepted requests are
answered, queued, forgotten or the one of a crash, descriptors are those that are
not answered, and a frame number is never used again (`HalAccepted`). Appending the
block of the first queued request, or the blocks of any number of cancelled ones,
keeps the order, which are lemmas about such sequences. No hypothesis.

**Metadata packets.** Assumption: `MetaAssumption`. The entries of a packet share
one data area, and delete and update move what lies behind a hole and correct the
offsets. `MetaInv` says that every entry with data has what was written to it at
its offset, that no two overlap and that together they fill the area (`Laid`),
within the capacities. Without the last part the shift would be wrong: an offset
behind the hole would not be the sum of what is before it. One lemma for each way
a packet changes (`LaidCut`, `LaidPut`, ...) is used by all operations. An update
to no values leaves the old bytes in the entry, and the assertion that ends every
operation fails (`aborted`): the theorem says that it fails exactly then
(`emptied`), and that until then every packet holds. Lookup needs `MarkHolds`, the
precondition of bsearch(): a packet marked sorted is sorted. It is lost when an
unsorted packet is appended to an empty one with the mark (`mismarked`), which
`MetadataSound` exempts. No hypothesis. That the binary search then finds every
tag is proved from the width of the interval that is left. In `AndroidInOrder`,
`PacksFit` (the static metadata, the request template and the result metadata fit
the packets that are allocated for them) is a formula without variables and
constants; the run evaluates it, and that evaluation is complete.

**Lists and induction.** `ListFacts` proves what removing, inserting and filtering
do to the elements, the order and the uniqueness of a list. The provers cannot
expand `SelectSeq`, and their libraries' induction theorems take an operator as a
parameter; so filters are written with the recursive function `Without`, and its
properties, its existence included, are proved from the least element of the set
of counterexamples: what it keeps and drops, and how it commutes with appending
and with concatenation. Where a proof needs induction over numbers
(`FindMetadata`, concatenations of many lists), it speaks of the set of numbers
for which the claim holds (`UpTo`).

TLC checked every invariant above on the instance of its run before it was proved:
`PipelinesInv` on `pipelines`, `EnumeratorInv` and `LockInv` on `devices`, those
of the clients on `clients`.

Only model-checked: all liveness properties (TLAPS does not reason about
fairness here), and so the promise that what is complete is listed
(`DevicesListed`); `ConfigurationSound`, which is about what the folds
of `IPU3Configuration` and `SingleStream` compute over lists of formats; the times
of `Timeline` (`RunOnceInTime`); and `PacksFit`, which is a computation.

## 5. Divergences between the code and what is said about it

Modelling showed more disagreements between the code and its comments than the
four that have runs of their own. The modules contain the behaviour; a property
that exempts it says so, and where a constant excludes it from the run, it is
named.

Camera, requests and pipeline handlers:

* A request that queueRequest() checked before stop() is handled after the
  buffers were freed, although "No locking is however needed"
  (`Synchronised = FALSE` in `Session.cfg` violates `SessionSafe`). The callbacks
  of cam and qcam queue requests from the manager thread while the main thread
  calls stop(), which is this race (`overtaken` in `CaptureApps`).
* `PipelineHandler::queueRequest()` drops a request that the device refuses;
  nothing completes it, although the camera "will notify its completion".
* A hot-unplug between the end of `PipelineHandler::start()` and the `setState()`
  of `Camera::start()` leaves a disconnected camera Running; stop() and release()
  then fail for ever.
* `FrameBufferAllocator::allocate()` leaves an empty entry when the export fails:
  allocated() is true and a second attempt is refused.
* A start() that fails does not free the buffers it imported; the next one
  imports again, where the documentation says "at most once".
* Two threads in `Camera::acquire()` on the same object can both succeed:
  lockf() grants a process the lock it already has. A second camera of the same
  pipeline handler cannot be acquired, where the documentation limits its use "to
  the same instance of libcamera" only, and the attempt unlocks the devices of the
  first (run `shared_handler`).
* `PipelineHandlerRkISP1::stop()` resets the timeline: a request whose buffers
  were not queued yet is not completed, where Camera::stop() says that "All
  pending requests are cancelled and complete synchronously in an error state". It
  stays in `queuedRequests_`, and every later request waits behind it. The same
  happens to a request when one of the three queueBuffer() calls of its frame
  action fails: none of the results is looked at. The frame info stays too, and a
  buffer of a later session at the same address is taken for the old one's.
  `RequestsKept` says that these are the only ways; `BuffersAccounted` and
  `RequestsReturn` of RkISP1 hold as long as no request was lost so.
* When the statistics buffers cannot be exported, `allocateBuffers()` of RkISP1
  releases `video_` instead of `param_`; every later start() fails. A video
  device that fails to stream has its buffers freed, but start() goes on to
  configure the algorithms before it returns the error.
* The table of formats of RkISP1 has eight places and seven entries
  (`FormatsArray` in `SingleStream`), so that an entry without a pixel format
  passes validate(), which should return what "is now valid"; Camera::configure()
  then fails on the device. `ConfigurationSound` names the case. UVC's validate()
  of a configuration without formats takes the front of an empty vector. Asked for
  the size (0, 0), `CameraSensor::getFormat()` compares ratios that are not
  numbers and picks the smallest size. A configure() that fails half way leaves
  devices and camera with different configurations (`tried`).
* IPU3: the default viewfinder, 1280 pixels wide, may be larger than a sensor's
  picture; match() reports success when the links of the ImgU cannot be disabled;
  configuring one camera cuts the links of the other; a failed configure()
  leaves `active_` and the camera's streams different. "Adjusted to a valid
  configuration" does not mean that a second validate() returns Valid, which
  `Camera::configure()` insists on: the default viewfinder can change which size of
  the sensor is the best. `ConfigurationSound` says that this is the only reason and
  that the third call returns Valid.

Events, threads and signals:

* `Timer::start()` changes the deadline before it takes a running timer off the
  list, and the search by deadline misses it: it fires twice
  (`RestartEarlier = TRUE` in `Events.cfg` violates `SignalsWanted`).
  `Timeline::updateDeadline()` restarts its timer exactly so; it is safe as long
  as it is the only timer of its thread, which `Timeline` assumes.
* emit() copies the list of slots "as the slot could call the disconnect operation",
  but the list holds pointers to methods that disconnect() deletes: a slot that was
  disconnected, or whose object was destroyed, after the emission began or a message
  about it was posted is called all the same (run `signals`; `pulled`).
* `Signal::disconnect(object, func)` makes the object forget the signal although
  another of its slots stays connected: that slot is called after the object was
  destroyed, where connect() says that it "will be automatically disconnected"
  (`stranded`). `~Object()` takes its list of signals without the lock that protects
  it; a signal that is deleted at that moment is used by the destructor.
* The interval of the timeline is the mean over the frames that arrived: it is
  too long after a frame was skipped.

Manager and enumerator:

* One device that fails in match() ends the loop over its pipeline handler, so
  the devices enumerated after it get no camera (`NoCameraMissed` says exactly
  what is guaranteed).
* A media device that cannot be opened or populated makes the whole enumeration
  fail, where "individual media devices that can't be properly enumerated shall be
  skipped [...] without returning an error" (run `enumeration`).
* Only the UVC handler asks to be told of removed media devices; the cameras of
  the others stay in the list when their devices are gone.
* `initialized_` is never cleared: a second `CameraManager::start()` does not wait
  for the enumeration and reports the status of the first, although "once the
  start has been confirmed the user is free to list" the cameras.
* `devMap_` is never cleared: a node that is plugged in again uses the freed
  dependencies of the first time (`dangling`); `orphans_` keeps removed nodes; a
  device that appears between the scan and the start of the monitor is missed.

V4L2 and the algorithms:

* setControls() and getControls() return the index of the control that failed, and
  all controls below it are said to have been written and their values to be in
  the list; the list is updated with one control less (`errorIdx - 1` in
  `v4l2_device.cpp:211` and `301`, against the documentation at 160-163 and
  234-237; `ResultMeansWhatItSays` states the lag), and a failure at index 0 is
  reported as -EINVAL. UVC offers manual exposure also of devices that lack the
  switch for automatic exposure it writes with it, and then refuses every request
  that uses it. A list written in part makes the pipeline handler refuse the
  request although some of its controls are in effect.
* In a dark scene the mean of the RkISP1 exposure is a division by zero, fatal or
  zero depending on the processor (`crashed`). The loop corrects every third frame
  and oscillates with a sensor that needs three (`MaxLatency = 3` in
  `V4L2Devices.cfg` violates `ExposureSettles`). Where the steps of the gain are
  coarse it settles at a mean more than 5% below the target, and AeLocked stays
  false for ever, where false means that "it's converging". Without exposure
  controls its limits are never set.

Isolated IPAs:

* The first `Process::start()` forks before a `ProcessManager` exists: the death
  of that child may go unnoticed (`early`). The constructor installs the handler
  of SIGCHLD before it creates the pipe that the handler writes to, and a signal
  in between is lost. A fork that fails leaves `pid_` -1, and the destructor then
  kills every process it may (`killedAll`). The destructor leaves the object on
  the list (`dangling`).
* A payload that is refused after its header was sent shifts all later messages
  (`torn`). The parent never closes the worker's end of the socket, and
  `IPAProxyLinux::readyRead()` receives nothing.
* A module without `ipaModuleInfo` is accepted with uninitialised information.
  Loops over the control lists of an event never advance their index. Lists made
  from an IPA's own copy of an info map cannot be serialized, and the error is
  ignored.

Clients:

* All of them take a request that was queued for one that will complete. One
  that the pipeline handler refuses is dropped silently, and RkISP1 may forget one
  (`ClientCamera`): GStreamer then pairs every later completion with the wrong wrap
  (`strays`), the V4L2 layer hands out a buffer that was not filled or waits in
  DQBUF for ever, the framework of Android never hears of the frame. After STREAMOFF
  with buffers queued and STREAMON this is the normal case, by `session_restart`.
* GStreamer: an error is posted with the object lock held, which posting takes
  again; only a completed request resumes a paused task, so that one with
  nothing queued stays paused (`raced`); a pause can overwrite the stop of a join;
  starting a task whose enter function fails leaves it stray;
  pending buffers are not flushed when the task leaves, and the next configure()
  is refused; a buffer whose memory was kept downstream is lost to the pool.
* V4L2 layer: a nonblocking DQBUF takes the semaphore twice; DQBUF hands out
  buffers in turn, whichever completed; neither the turn, the semaphore, the
  completed buffers nor the pending requests are reset by STREAMOFF or REQBUFS
  (`DequeuesOldest` says for which use the answer is right); zero buffers or a
  format without a size lead to divisions by zero; closing while streaming leaves
  the camera running; event descriptors are never closed.
* Android: configureStreams() on a running camera loses the configuration it has;
  processCaptureRequest() without one uses a null pointer; a refused request
  leaks its buffer; flush() does nothing. When the result metadata cannot be
  allocated, requestComplete() goes through the null pointer that
  getResultMetadata() returns (`crashed`), though the lines that follow send an
  error for that case. The static metadata have exactly the
  50 entries there is room for. Appending to an empty packet marked as sorted
  keeps the mark although the entries are not sorted, and lookups then miss them,
  where camera_metadata.h says "Appending onto a sorted structure results in a
  non-sorted combined structure" (`mismarked`). An update to no values leaves
  the old value or offset in the entry, and the assertion at the end of
  update_camera_metadata_entry() fails (`aborted`).
* cam: `EventLoop::exec()` clears `exit_`, so that an early SIGINT is lost; requests
  leak on errors. qcam deletes requests that are queued when a later one is
  refused, and leaves the camera running (`deletedQueued`). Neither listens to
  `disconnected`: after a hot-unplug stop() is refused and the buffers are freed.

`LoopProgress` assumes that `Thread::exit()`'s store to `exit_` and load of
`dispatcher_` are not reordered. They are a release store and a relaxed load, so
the language permits it; a thread that is just creating its dispatcher could
then miss the exit.

## 6. Not modelled

The map names about 9 400 of some 53 000 lines of C and C++. The larger part of
the rest has no behaviour to model: kernel, DRM and Android headers under
`include/linux` and `include/android` and the class declarations of libcamera
(about 20 000 lines), tables such as `camera_metadata_tag_info.c` and
that of `formats.cpp`, license texts, and the documentation that makes up a large
part of most files under `src/libcamera`. Of the code that runs, these are left out:

* logging, options, text of sizes, formats and controls, signatures and the ELF
  parsing of modules: sequential conversions that no property here depends on;
* the layout of serialized controls, of V4L2 formats and of image data
  (`FormatConverter`, `BufferWriter`, the viewfinder of qcam);
* thin ioctl wrappers, whose failure is a choice where they are called, mmap and
  file descriptors;
* negotiation of caps and the device provider of GStreamer, format enumeration
  and the interception of libc by the V4L2 layer, vendor tags and dumps of
  metadata, qcam's event dispatcher;
* the sysfs enumerator, which has no events; lookup by device number.

Simplifications: moving a timer or a notifier to another thread is not in
`EventDispatcher`, and `MessageLoop` has no messages posted by handlers.
`CameraSession` has one stream; several streams are in `PipelineHandler`,
`RkISP1` and `IPU3`. In `CameraManager` a pipeline owns one media device.
`RkISP1` chooses the time of a frame action freely; `Timeline` computes it, with
ticks for time. In `RkISP1` the pools of parameters and of statistics get the
same addresses. `IPU3` has one camera; the other one only cuts its links.
`ClientCamera` accepts, refuses, drops or forgets a request as `CameraSession` and
`RkISP1` may, and completes the others in order.

## 7. Plan

1. *Done:* the capture path, the locks, the event loop and signals, the manager
   and the enumerator, RkISP1 and IPU3, configurations, isolated IPAs, exposure,
   the clients; the proofs of every safety invariant and action property of the
   runs except `ConfigurationSound`, and of the refinements of `RequestFifo` by the
   request queue, RkISP1 and IPU3.
2. `ConfigurationSound` for configurations of any length, once the folds are
   written as recursive functions over positions; the times of `Timeline`.
3. Refinement of `ClientCamera` by `CameraSession`, so that the checks of the
   clients rest on the checked camera.
4. Liveness, and what folds over lists compute, stay with TLC.

To check: `tlc -workers 2 -config X.cfg M` for each run of `PROJECT.json`, and
`tlapm M_proofs.tla` for each module of proofs.
