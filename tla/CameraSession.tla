--------------------------- MODULE CameraSession ---------------------------
(***************************************************************************)
(* A camera with one stream, as the UVC and vimc pipeline handlers provide *)
(* it, from the application's calls to the driver: Camera and its state    *)
(* machine (camera.cpp), FrameBufferAllocator, the messages posted to the  *)
(* camera manager thread, the pipeline handler's operations                *)
(* (pipeline/uvcvideo.cpp, pipeline/vimc.cpp), the request queue           *)
(* (PipelineHandler) and the video device (V4L2VideoDevice).               *)
(*                                                                         *)
(* Three threads run: the application's control thread, which makes the    *)
(* calls that affect the camera state one at a time; a second application  *)
(* thread that fills and queues requests; and the camera manager thread,   *)
(* which handles one message or one device event at a time.  A call with   *)
(* ConnectionTypeBlocking posts a message and waits for it to be handled;  *)
(* the thread's state names what it waits for.                             *)
(***************************************************************************)
EXTENDS Integers, Sequences

CONSTANTS
    Requests,
    NoRequest,
    Imported,
    NumSlots,
    NoBuffer,
    DriverErrors,   \* ioctls may fail on a working device
    Synchronised,   \* queueRequest() never overlaps start() or stop()
    UseAllocator,   \* the application uses a FrameBufferAllocator
    Hotplug         \* the camera may be unplugged

ASSUME FlagAssumption ==
    {DriverErrors, Synchronised, UseAllocator, Hotplug} \subseteq BOOLEAN

VARIABLES
    \* the video device, see V4L2VideoDevice
    opened, memoryType, hasCache, free, planes, queuedBuffers, fdEnabled,
    kernel, streaming, unplugged,
    \* the requests, see PipelineHandler
    stage, status, cancelled, pending, requestOf, queuedRequests,
    state,          \* Camera::Private::state_
    disconnected,   \* Camera::Private::disconnected_
    allocator,      \* Camera::allocator_ and its entry for the stream
    messages,       \* messages posted to the pipeline handler's thread
    control,        \* what the control thread is doing
    queueing,       \* request the second thread is in queueRequest() with
    crashed         \* a null cache_ was dereferenced (no model of what then)

Dev == INSTANCE V4L2VideoDevice

Pipe == INSTANCE PipelineHandler WITH
            Buffers <- Dev!FrameBuffers,
            StreamOf <- [b \in Dev!FrameBuffers |-> "stream"],
            device <- Dev!Queued

(* What the two components assume of the constants.                        *)
ASSUME ComponentAssumption ==
    /\ NumSlots \in Nat \ {0}
    /\ NoBuffer \notin Dev!FrameBuffers
    /\ \A s \in Dev!Slots : Dev!Exported(s) \notin Imported
    /\ NoRequest \notin Requests

devVars == <<opened, memoryType, hasCache, free, planes, queuedBuffers,
             fdEnabled, kernel, streaming, unplugged>>
reqVars == <<stage, status, cancelled, pending, requestOf, queuedRequests>>
cameraVars == <<state, disconnected, allocator>>
threadVars == <<messages, control, queueing, crashed>>
vars == <<devVars, reqVars, cameraVars, threadVars>>

States == {"Available", "Acquired", "Configured", "Running"}

(* allocator_: none; no entry for the stream; an entry without buffers; an *)
(* entry with the exported buffers.                                        *)
AllocatorStates == {"none", "noEntry", "emptyEntry", "buffers"}

ControlStates == {"idle", "configure", "configured", "start", "started",
                  "stop", "stopped", "stopFree", "export", "allocatorFree",
                  "allocatorFreed", "allocatorDelete"}

Message(op, r) == [op |-> op, request |-> r]

Messages ==
    [op : {"queueRequest"}, request : Requests]
        \cup [op : {"configure", "start", "stop", "export", "free"},
              request : {NoRequest}]

TypeOK ==
    /\ Dev!TypeOK
    /\ Pipe!TypeOK
    /\ state \in States
    /\ disconnected \in BOOLEAN
    /\ allocator \in AllocatorStates
    /\ messages \in Seq(Messages)
    /\ control \in ControlStates
    /\ queueing \in Requests \cup {NoRequest}
    /\ crashed \in BOOLEAN

(* The pipeline handler opened the video device when it matched.           *)
Init ==
    /\ opened = TRUE
    /\ memoryType = "MMAP"
    /\ hasCache = FALSE
    /\ free = {}
    /\ planes = Dev!EmptyQueue
    /\ queuedBuffers = Dev!EmptyQueue
    /\ fdEnabled = FALSE
    /\ kernel = [s \in Dev!Slots |-> "absent"]
    /\ streaming = FALSE
    /\ unplugged = FALSE
    /\ Pipe!Init
    /\ state = "Available"
    /\ disconnected = FALSE
    /\ allocator = "none"
    /\ messages = <<>>
    /\ control = "idle"
    /\ queueing = NoRequest
    /\ crashed = FALSE

-----------------------------------------------------------------------------
(***************************************************************************)
(* The control thread.                                                     *)
(***************************************************************************)

(* Mistake: the state is not looked at.                                    *)
AccessUnlessDisconnected(allowed, allowDisconnected) ==
    allowDisconnected \/ ~disconnected

(* Camera::Private::isAccessAllowed(), both overloads: one state or a      *)
(* range of states, given as a set.                                        *)
AccessAllowed(allowed, allowDisconnected) ==
    /\ allowDisconnected \/ ~disconnected
    /\ state \in allowed

(* The thread makes no call while in another one.                          *)
Calls ==
    /\ control = "idle"
    /\ Synchronised => queueing = NoRequest

Post(op, r) == messages' = Append(messages, Message(op, r))

Block(op, where) ==
    /\ Post(op, NoRequest)
    /\ control' = where
    /\ UNCHANGED <<queueing, crashed>>

(* acquire() and release(); the locks they take are in PipelineLock.       *)
Acquire ==
    /\ Calls
    /\ AccessAllowed({"Available"}, FALSE)
    /\ state' = "Acquired"
    /\ UNCHANGED <<devVars, reqVars, disconnected, allocator, threadVars>>

(* The application deletes the requests it did not queue before it gives   *)
(* up the camera or the buffers in them.                                   *)
NoIdleRequests == \A r \in Requests : stage[r] = "app" => pending[r] = {}

Release ==
    /\ Calls
    /\ NoIdleRequests
    /\ AccessAllowed({"Available", "Acquired", "Configured"}, TRUE)
    /\ allocator = "none"
    /\ state' = "Available"
    /\ UNCHANGED <<devVars, reqVars, disconnected, allocator, threadVars>>

(* configure(): FrameBufferAllocator::allocated() is true for an entry     *)
(* without buffers too.  The control thread sets the state on return.      *)
Allocated == allocator \in {"emptyEntry", "buffers"}

Configure ==
    /\ Calls
    /\ AccessAllowed({"Acquired", "Configured"}, FALSE)
    /\ ~Allocated
    /\ Block("configure", "configure")
    /\ UNCHANGED <<devVars, reqVars, cameraVars>>

ConfigureReturn ==
    /\ control = "configured"
    /\ control' = "idle"
    /\ state' = "Configured"
    /\ UNCHANGED <<devVars, reqVars, disconnected, allocator, messages,
                   queueing, crashed>>

(* start() imports buffers for a stream without allocated ones, in the     *)
(* caller's thread and ignoring the result, then starts the pipeline.      *)
ImportForStart ==
    IF allocator = "buffers" \/ hasCache
      THEN UNCHANGED devVars
      ELSE \E ok \in BOOLEAN : Dev!ImportBuffers(ok)

Start ==
    /\ Calls
    /\ AccessAllowed({"Configured"}, FALSE)
    /\ ImportForStart
    /\ Block("start", "start")
    /\ UNCHANGED <<reqVars, cameraVars>>

StartReturn ==
    /\ control = "started"
    /\ control' = "idle"
    /\ state' = "Running"
    /\ UNCHANGED <<devVars, reqVars, disconnected, allocator, messages,
                   queueing, crashed>>

(* Mistake: stop() does not leave the Running state.                       *)
StopStateRunning == "Running"

(* stop() leaves the Running state before it stops the pipeline, so that   *)
(* requests queued from completion handlers are refused.                   *)
StopState == "Configured"

(* Mistake: stop() posts the message and does not wait for it.             *)
StopQueued ==
    /\ Calls
    /\ AccessAllowed({"Running"}, FALSE)
    /\ state' = StopState
    /\ Post("stop", NoRequest)
    /\ UNCHANGED <<devVars, reqVars, disconnected, allocator, control,
                   queueing, crashed>>

Stop ==
    /\ Calls
    /\ AccessAllowed({"Running"}, FALSE)
    /\ state' = StopState
    /\ Block("stop", "stop")
    /\ UNCHANGED <<devVars, reqVars, disconnected, allocator>>

StopFree ==
    /\ control = "stopped"
    /\ IF allocator = "buffers"
         THEN /\ control' = "idle"
              /\ UNCHANGED <<messages, queueing, crashed>>
         ELSE Block("free", "stopFree")
    /\ UNCHANGED <<devVars, reqVars, cameraVars>>

-----------------------------------------------------------------------------
(***************************************************************************)
(* FrameBufferAllocator, used by the control thread.                       *)
(***************************************************************************)

AllocatorCreate ==
    /\ UseAllocator
    /\ Calls
    /\ allocator = "none"
    /\ allocator' = "noEntry"
    /\ UNCHANGED <<devVars, reqVars, state, disconnected, threadVars>>

(* allocate() creates the stream's entry before it knows whether           *)
(* Camera::exportFrameBuffers() succeeds.                                  *)
EntryBeforeExport == "emptyEntry"

AllocatorAllocate ==
    /\ Calls
    /\ allocator = "noEntry"
    /\ allocator' = EntryBeforeExport
    /\ IF AccessAllowed({"Configured"}, FALSE)
         THEN Block("export", "export")
         ELSE UNCHANGED threadVars
    /\ UNCHANGED <<devVars, reqVars, state, disconnected>>

(* free() keeps the entry when Camera::freeFrameBuffers() refuses.         *)
AllocatorFree ==
    /\ Calls
    /\ NoIdleRequests
    /\ Allocated
    /\ AccessAllowed({"Configured"}, TRUE)
    /\ Block("free", "allocatorFree")
    /\ UNCHANGED <<devVars, reqVars, cameraVars>>

AllocatorFreed ==
    /\ control = "allocatorFreed"
    /\ control' = "idle"
    /\ allocator' = "noEntry"
    /\ UNCHANGED <<devVars, reqVars, state, disconnected, messages, queueing,
                   crashed>>

(* The destructor frees the stream's buffers if it has an entry, and       *)
(* ignores a refusal.  The application does not delete the allocator while *)
(* the camera is running.                                                  *)
AllocatorDelete ==
    /\ Calls
    /\ NoIdleRequests
    /\ state # "Running"
    /\ allocator # "none"
    /\ allocator' = "none"
    /\ IF Allocated /\ AccessAllowed({"Configured"}, TRUE)
         THEN Block("free", "allocatorDelete")
         ELSE UNCHANGED threadVars
    /\ UNCHANGED <<devVars, reqVars, state, disconnected>>

-----------------------------------------------------------------------------
(***************************************************************************)
(* The thread that queues requests.                                        *)
(***************************************************************************)

CreateRequest(r) ==
    /\ AccessAllowed({"Configured", "Running"}, FALSE)
    /\ UNCHANGED <<devVars, cameraVars, threadVars>>
    /\ Pipe!CreateRequest(r)

(* The buffers the application has for the stream.                         *)
AppBuffers ==
    IF allocator = "buffers" THEN {Dev!Exported(s) : s \in Dev!Slots}
                             ELSE Imported

AddBuffer(r, b) ==
    /\ queueing # r
    /\ UNCHANGED <<devVars, cameraVars, threadVars>>
    /\ Pipe!AddBuffer(r, b)

DeleteRequest(r) ==
    /\ queueing # r
    /\ UNCHANGED <<devVars, cameraVars, threadVars>>
    /\ Pipe!DeleteRequest(r)

(* queueRequest() checks the state and the request's buffers, then posts   *)
(* the request with ConnectionTypeQueued.  The state may change between.   *)
QueueRequestCheck(r) ==
    /\ queueing = NoRequest
    /\ Synchronised => control = "idle"
    /\ stage[r] = "app" /\ status[r] = "Pending"
    /\ AccessAllowed({"Running"}, FALSE)
    /\ pending[r] # {} /\ pending[r] \subseteq AppBuffers
    /\ queueing' = r
    /\ UNCHANGED <<devVars, reqVars, cameraVars, messages, control, crashed>>

QueueRequestPost ==
    /\ queueing # NoRequest
    /\ UNCHANGED <<devVars, cameraVars, control, crashed>>
    /\ Pipe!PostRequest(queueing)
    /\ Post("queueRequest", queueing)
    /\ queueing' = NoRequest

-----------------------------------------------------------------------------
(***************************************************************************)
(* The camera manager thread.                                              *)
(***************************************************************************)

(* The message op at the head of the queue is handled; the thread blocked  *)
(* on it continues at `where`.                                             *)
Handle(op) ==
    /\ messages # <<>>
    /\ Head(messages).op = op
    /\ messages' = Tail(messages)
    /\ UNCHANGED <<cameraVars, queueing>>

Resume(where) == control' = where /\ UNCHANGED crashed

(* PipelineHandler::configure(): the driver refuses a format change while  *)
(* buffers are allocated.                                                  *)
HandleConfigure ==
    /\ Handle("configure")
    /\ \E ok \in BOOLEAN :
         /\ ok => ~unplugged /\ \A s \in Dev!Slots : kernel[s] = "absent"
         /\ Resume(IF ok THEN "configured" ELSE "idle")
    /\ UNCHANGED <<devVars, reqVars>>

HandleStart ==
    /\ Handle("start")
    /\ \E ok \in BOOLEAN :
         /\ Dev!StreamOn(ok)
         /\ Resume(IF ok THEN "started" ELSE "idle")
    /\ UNCHANGED reqVars

(* PipelineHandler::stop(): streamOff() cancels the buffers and completes  *)
(* their requests.                                                         *)
HandleStop ==
    /\ Handle("stop")
    /\ Dev!StreamOff(IF unplugged THEN {} ELSE Dev!Queued)
    /\ IF unplugged THEN UNCHANGED reqVars ELSE Pipe!Stop
    /\ Resume("stopped")

HandleExport ==
    /\ messages # <<>> /\ Head(messages).op = "export"
    /\ messages' = Tail(messages)
    /\ \/ /\ hasCache
          /\ UNCHANGED <<devVars, allocator>>
       \/ \E ok \in BOOLEAN :
            /\ Dev!ExportBuffers(ok)
            /\ allocator' = IF ok THEN "buffers" ELSE allocator
    /\ Resume("idle")
    /\ UNCHANGED <<reqVars, state, disconnected, queueing>>

HandleFree ==
    /\ Handle("free")
    /\ Dev!ReleaseBuffers
    /\ Resume(IF control = "allocatorFree" THEN "allocatorFreed" ELSE "idle")
    /\ UNCHANGED reqVars

(* PipelineHandler::queueRequest() and queueRequestDevice(): the controls  *)
(* or the buffer may be refused.  The pipeline handler does not look at    *)
(* the camera state.                                                       *)
PendingBuffer(r) == CHOOSE b \in pending[r] : TRUE

HandleQueueRequest ==
    /\ Handle("queueRequest")
    /\ UNCHANGED control
    /\ LET r == Head(messages).request
       IN  \/ /\ DriverErrors \/ unplugged \/ (hasCache /\ Dev!CacheFull)
              /\ UNCHANGED <<devVars, crashed>>
              /\ Pipe!QueueRequest(r, {})
           \/ /\ hasCache
              /\ Dev!QueueBuffer(PendingBuffer(r), TRUE)
              /\ Pipe!QueueRequest(r, pending[r])
              /\ UNCHANGED crashed
           \/ /\ hasCache
              /\ Dev!QueueBuffer(PendingBuffer(r), FALSE)
              /\ Pipe!QueueRequest(r, {})
              /\ UNCHANGED crashed
           \/ /\ ~hasCache
              /\ crashed' = TRUE
              /\ UNCHANGED <<devVars, reqVars>>

(* A buffer is ready: V4L2VideoDevice::bufferAvailable() and the pipeline  *)
(* handler's bufferReady().                                                *)
BufferAvailable(b) ==
    /\ Dev!BufferAvailable(b)
    /\ Pipe!BufferReady(b)
    /\ UNCHANGED <<cameraVars, threadVars>>

(* mediaDeviceDisconnected(), PipelineHandler::disconnect() and            *)
(* Camera::disconnect(), once the enumerator noticed the removal.          *)
Disconnect ==
    /\ unplugged /\ ~disconnected
    /\ state' = IF state = "Running" THEN "Configured" ELSE state
    /\ disconnected' = TRUE
    /\ UNCHANGED <<devVars, reqVars, allocator, threadVars>>

-----------------------------------------------------------------------------
ControlThread ==
    \/ Acquire \/ Release
    \/ Configure \/ ConfigureReturn
    \/ Start \/ StartReturn
    \/ Stop \/ StopFree
    \/ AllocatorCreate \/ AllocatorAllocate
    \/ AllocatorFree \/ AllocatorFreed \/ AllocatorDelete

RequestThread ==
    \/ \E r \in Requests :
        \/ CreateRequest(r)
        \/ \E b \in AppBuffers : AddBuffer(r, b)
        \/ DeleteRequest(r)
        \/ QueueRequestCheck(r)
    \/ QueueRequestPost

HandleMessage ==
    \/ HandleConfigure \/ HandleStart \/ HandleStop
    \/ HandleExport \/ HandleFree \/ HandleQueueRequest

Fill(s) == Dev!Fill(s) /\ UNCHANGED <<reqVars, cameraVars, threadVars>>

Unplug ==
    /\ Hotplug
    /\ Dev!Unplug
    /\ UNCHANGED <<reqVars, cameraVars, threadVars>>

Next ==
    \/ ControlThread
    \/ RequestThread
    \/ HandleMessage
    \/ \E b \in Dev!FrameBuffers : BufferAvailable(b)
    \/ Disconnect
    \/ \E s \in Dev!Slots : Fill(s)
    \/ Unplug

(* A call that was made goes on, the manager thread handles its messages   *)
(* and events, and the driver fills the buffers it has.  Nothing obliges   *)
(* the application to make a call.                                         *)
Fairness ==
    /\ WF_vars(ConfigureReturn \/ StartReturn \/ StopFree \/ AllocatorFreed)
    /\ WF_vars(QueueRequestPost)
    /\ WF_vars(HandleMessage)
    /\ WF_vars(Disconnect)
    /\ \A b \in Dev!FrameBuffers : SF_vars(BufferAvailable(b))
    /\ \A s \in Dev!Slots : WF_vars(Fill(s))

Spec == Init /\ [][Next]_vars

FairSpec == Spec /\ Fairness

-----------------------------------------------------------------------------
(***************************************************************************)
(* Properties.                                                             *)
(***************************************************************************)

(* queueBuffer() never runs without the cache importBuffers() or           *)
(* exportBuffers() created.                                                *)
NoNullCache == ~crashed

(* The state is well formed and queueBuffer() always has its cache.        *)
SessionSafe == TypeOK /\ NoNullCache

(* Camera::stop() completes the requests synchronously: when no call is in *)
(* progress and the camera is not running, no request is left in a         *)
(* message, in the pipeline handler's queue or in the driver.              *)
StoppedMeansDrained ==
    (control = "idle" /\ state # "Running" /\ ~unplugged) =>
        /\ messages = <<>>
        /\ queuedRequests = <<>>
        /\ Dev!Queued = {}

(* Once stop() has returned nothing is on its way any more, and no request *)
(* completes behind the application's back: completions happen while the   *)
(* camera runs or inside stop().                                           *)
StoppedMeansQuiet ==
    [][/\ StoppedMeansDrained'
       /\ (\E r \in Requests : stage[r] = "camera" /\ stage'[r] = "app")
            => state = "Running" \/ control = "stop"]_vars

(* A blocking call always returns: the manager thread handles its message  *)
(* whatever the driver does.                                               *)
CallsReturn == (control # "idle") ~> (control = "idle")

(* A request the pipeline handler accepted goes back to the application,   *)
(* unless the hardware is removed: across stops, restarts and errors of    *)
(* the driver nothing in the queue waits for ever.                         *)
AcceptedRequestsReturn ==
    \A r \in Requests :
        (r \in Pipe!Queue) ~> (r \notin Pipe!Queue \/ unplugged)

(* Nobody waits for ever, neither a call nor an accepted request.          *)
SessionProgress == CallsReturn /\ AcceptedRequestsReturn

(* "Once the request has been queued, the camera will notify its           *)
(* completion through the requestCompleted signal" (Camera::queueRequest). *)
RequestsComplete ==
    \A r \in Requests : (stage[r] = "posted") ~> (stage[r] = "app")
=============================================================================
