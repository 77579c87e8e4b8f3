-------------------------------- MODULE IPU3 --------------------------------
(***************************************************************************)
(* The Intel IPU3 pipeline handler (pipeline/ipu3/ipu3.cpp) of one camera. *)
(* The CIO2 captures raw frames into buffers that the pipeline handler     *)
(* allocates when it starts.  A raw buffer that is filled goes to the      *)
(* input of the ImgU, and from there back to the CIO2.  The ImgU turns it  *)
(* into a frame for each of its two outputs that has a buffer of a         *)
(* request; the outputs return their buffers independently.                *)
(*                                                                         *)
(* Everything runs in the manager thread.  The devices are part of a SoC:  *)
(* configuring them, allocating buffers and starting a stream can fail,    *)
(* stopping one cannot.  Queueing a buffer fails when the device has no    *)
(* slot left for it.  The other camera of the IPU3 appears only in that    *)
(* configuring it cuts the links of this one.                              *)
(***************************************************************************)
EXTENDS IPU3Configuration

CONSTANTS
    Requests,       \* Request objects
    RawBuffers,     \* the buffers that the CIO2 and the ImgU share
    BufferCount,    \* slots of an output (IPU3_BUFFER_COUNT)
    Configurations, \* what the application may pass to validate()
    Roles,          \* what it may pass to generateConfiguration()
    NoConfiguration

VARIABLES
    phase,      \* "unmatched", "stopped", "running", or what stop() is at
    links,      \* the links of the camera's ImgU are enabled
    config,     \* the application's CameraConfiguration, after validate()
    configured, \* Camera::activeStreams_
    active,     \* the streams whose active_ flag is set
    allocated,  \* the video devices that have a buffer cache
    raw,        \* where each raw buffer is
    dev,        \* the requests whose buffer each output holds, oldest first
    filled,     \* how many of them, from the head, the ImgU has filled
    queue,      \* CameraData::queuedRequests_
    complete,   \* requests in it whose status is not RequestPending
    pending,    \* the streams whose buffer each request waits for
    dropped     \* requests that queueRequestDevice() refused

setupVars == <<links, config, configured, active, allocated>>
requestVars == <<queue, complete, pending, dropped>>
deviceVars == <<raw, dev, filled>>
vars == <<phase, setupVars, requestVars, deviceVars>>

Internal == {"cio2", "input", "stat"}

Queue == ToSet(queue)

TypeOK ==
    /\ phase \in {"unmatched", "stopped", "running", "output", "viewfinder"}
    /\ links \in BOOLEAN
    /\ configured \subseteq Streams
    /\ active \subseteq Streams
    /\ allocated \subseteq Internal \cup Streams
    /\ raw \in [RawBuffers -> {"free", "cio2", "input", "processed", "lost"}]
    /\ dev \in [Streams -> Seq(Requests)]
    /\ filled \in [Streams -> Nat]
    /\ \A s \in Streams : filled[s] <= Len(dev[s])
    /\ queue \in Seq(Requests)
    /\ complete \subseteq Queue
    /\ pending \in [Requests -> SUBSET Streams]
    /\ dropped \subseteq Requests

Init ==
    /\ phase = "unmatched"
    /\ links = FALSE
    /\ config = NoConfiguration
    /\ configured = {} /\ active = {} /\ allocated = {}
    /\ raw = [b \in RawBuffers |-> "free"]
    /\ dev = [s \in Streams |-> <<>>]
    /\ filled = [s \in Streams |-> 0]
    /\ queue = <<>> /\ complete = {} /\ dropped = {}
    /\ pending = [r \in Requests |-> {}]

-----------------------------------------------------------------------------
(***************************************************************************)
(* Matching and configuration.                                             *)
(***************************************************************************)

(* The receivers whose sensor, CSI-2 receiver and output CIO2Device::init() *)
(* may find and open.                                                      *)
Openable == SUBSET (0 .. 3)

(* The receivers that get a camera: the first two, of four, whose init()   *)
(* succeeds; the first one uses ImgU 0, the other ImgU 1.                  *)
RegisterCameras(good) ==
    {id \in good : Cardinality({i \in good : i < id}) < 2}

(* match(): both media devices are found and their links are disabled, the *)
(* ImgUs and the receivers in good can be opened.  (When any of it fails   *)
(* there is no camera and nothing more happens.)                           *)
Match(good) ==
    /\ phase = "unmatched"
    /\ RegisterCameras(good) # {}
    /\ phase' = "stopped"
    /\ UNCHANGED <<setupVars, requestVars, deviceVars>>

(* generateConfiguration(roles), which validates what it proposes.         *)
GenerateConfiguration(roles) ==
    /\ phase = "stopped"
    /\ config' = IF RolesFit(roles) THEN Validate(Generate(roles))
                                    ELSE NoConfiguration
    /\ UNCHANGED <<phase, links, configured, active, allocated, requestVars,
                   deviceVars>>

(* The application fills in a configuration and validates it.              *)
ValidateConfiguration(c) ==
    /\ phase = "stopped"
    /\ config' = Validate(c)
    /\ UNCHANGED <<phase, links, configured, active, allocated, requestVars,
                   deviceVars>>

(* Camera::configure() refuses a configuration that is not Valid.          *)
Acceptable ==
    /\ phase = "stopped"
    /\ config # NoConfiguration
    /\ Validate(config.entries).status = "Valid"

Configure ==
    /\ Acceptable
    /\ links' = TRUE
    /\ active' = ToSet(Validate(config.entries).streams)
    /\ configured' = active'
    /\ config' = NoConfiguration
    /\ UNCHANGED <<phase, allocated, requestVars, deviceVars>>

(* What a failure on the way to the ImgU's input leaves (configureInput()). *)
InputFails == links' \in BOOLEAN /\ UNCHANGED active

(* configureOutput() fails: the flags of the outputs before it, and its    *)
(* own, are set.                                                           *)
OutputFails ==
    /\ links' = TRUE
    /\ \E n \in DOMAIN config.streams :
         active' = {config.streams[i] : i \in 1 .. n}

(* configure() fails, and the camera keeps the streams it had.             *)
ConfigureFails ==
    /\ Acceptable
    /\ InputFails \/ OutputFails
    /\ config' = NoConfiguration
    /\ UNCHANGED <<phase, configured, allocated, requestVars, deviceVars>>

(* The other camera is configured: disableLinks() cuts all links.          *)
OtherConfigures ==
    /\ phase = "stopped"
    /\ links
    /\ links' = FALSE
    /\ UNCHANGED <<phase, config, configured, active, allocated, requestVars,
                   deviceVars>>

-----------------------------------------------------------------------------
(***************************************************************************)
(* Start and stop.                                                         *)
(***************************************************************************)

(* freeBuffers(): the internal devices and the outputs not in use.         *)
FreeBuffers(alloc) == alloc \ (Internal \cup (Streams \ active))

(* Camera::start() imports buffers for the streams of the camera; an error *)
(* (there already are some) is ignored.                                    *)
Imported == allocated \cup configured

(* The devices that allocateBuffers() allocates buffers for.               *)
ToAllocate == Internal \cup (Streams \ active)

(* start(): buffers are allocated where there are none yet, and no device  *)
(* streams without buffers or links.                                       *)
Start ==
    /\ phase = "stopped"
    /\ configured # {}
    /\ ToAllocate \cap Imported = {}
    /\ active \subseteq Imported
    /\ links
    /\ phase' = "running"
    /\ allocated' = Imported \cup ToAllocate
    /\ raw' = [b \in RawBuffers |-> "cio2"]
    /\ config' = NoConfiguration
    /\ UNCHANGED <<links, configured, active, dev, filled, requestVars>>

(* start() fails.  Nothing is freed if it was the CIO2's buffers that could *)
(* not be allocated; what Camera::start() imported stays in any case.      *)
StartFails ==
    /\ phase = "stopped"
    /\ configured # {}
    /\ allocated' \in {Imported, FreeBuffers(Imported)}
    /\ config' = NoConfiguration
    /\ UNCHANGED <<phase, links, configured, active, requestVars, deviceVars>>

(* stop(), up to the first output of the ImgU: the CIO2 returns its        *)
(* buffers as cancelled, and cio2BufferReady() ignores them.               *)
Stop ==
    /\ phase = "running"
    /\ phase' = "output"
    /\ raw' = [b \in RawBuffers |-> IF raw[b] = "cio2" THEN "free"
                                                       ELSE raw[b]]
    /\ UNCHANGED <<setupVars, dev, filled, requestVars>>

OutputStopped ==
    /\ phase = "output" /\ dev["output"] = <<>>
    /\ phase' = "viewfinder"
    /\ UNCHANGED <<setupVars, requestVars, deviceVars>>

(* imguInputBufferReady() ignores the buffers the input returns.           *)
InputCancelled(where) ==
    IF where \in {"input", "processed"} THEN "free" ELSE where

(* The ImgU's input is stopped too, the internal buffers are freed, and    *)
(* Camera::stop() frees those of the camera's streams.                     *)
ViewfinderStopped ==
    /\ phase = "viewfinder" /\ dev["viewfinder"] = <<>>
    /\ phase' = "stopped"
    /\ raw' = [b \in RawBuffers |-> InputCancelled(raw[b])]
    /\ allocated' = FreeBuffers(allocated) \ configured
    /\ UNCHANGED <<links, config, configured, active, dev, filled,
                   requestVars>>

-----------------------------------------------------------------------------
(***************************************************************************)
(* Buffers.                                                                *)
(***************************************************************************)

(* queueBuffer() of a raw buffer: it needs a slot, and nobody looks at the *)
(* result.                                                                 *)
Slots == Cardinality(RawBuffers)

Held(places) == Cardinality({b \in RawBuffers : raw[b] \in places})

(* The CIO2 fills a buffer: cio2BufferReady().                             *)
Cio2BufferReady(b) ==
    /\ phase = "running"
    /\ raw[b] = "cio2"
    /\ raw' = [raw EXCEPT ![b] =
                  IF Held({"input", "processed"}) < Slots THEN "input"
                                                          ELSE "lost"]
    /\ UNCHANGED <<phase, setupVars, dev, filled, requestVars>>

(* The ImgU processes a raw frame: each output that has an empty buffer    *)
(* fills the oldest one.                                                   *)
Process(b) ==
    /\ phase = "running"
    /\ raw[b] = "input"
    /\ raw' = [raw EXCEPT ![b] = "processed"]
    /\ filled' = [s \in Streams |-> IF filled[s] < Len(dev[s])
                                      THEN filled[s] + 1 ELSE filled[s]]
    /\ UNCHANGED <<phase, setupVars, dev, requestVars>>

(* Mistake: the buffer is not given back to the CIO2.                      *)
ImguInputForgets(b) ==
    /\ phase = "running"
    /\ raw[b] = "processed"
    /\ raw' = [raw EXCEPT ![b] = "lost"]
    /\ UNCHANGED <<phase, setupVars, dev, filled, requestVars>>

ImguInputBufferReady(b) ==
    /\ phase = "running"
    /\ raw[b] = "processed"
    /\ raw' = [raw EXCEPT ![b] =
                  IF Held({"cio2"}) < Slots THEN "cio2" ELSE "lost"]
    /\ UNCHANGED <<phase, setupVars, dev, filled, requestVars>>

(* Request::completeBuffer() returns whether s was the last stream.        *)
LastBuffer(r, s) == pending[r] \ {s} = {}

(* PipelineHandler::completeRequest()                                      *)
CompleteRequest(r) ==
    LET done == complete \cup {r} IN
    \E n \in 0 .. Len(queue) :
        /\ \A i \in 1 .. n : queue[i] \in done
        /\ n < Len(queue) => queue[n + 1] \notin done
        /\ queue' = SubSeq(queue, n + 1, Len(queue))
        /\ complete' = done \ {queue[i] : i \in 1 .. n}

(* imguOutputBufferReady() for the i-th buffer of output s: the oldest one *)
(* once it is filled, or any of them as cancelled when stop() is at s.     *)
ImguOutputBufferReady(s, i) ==
    /\ i \in DOMAIN dev[s]
    /\ \/ phase = "running" /\ i = 1 /\ filled[s] > 0
       \/ phase = s
    /\ dev' = [dev EXCEPT ![s] = RemoveAt(@, i)]
    /\ filled' = [filled EXCEPT ![s] = IF i <= @ THEN @ - 1 ELSE @]
    /\ LET r == dev[s][i] IN
         /\ pending' = [pending EXCEPT ![r] = @ \ {s}]
         /\ IF LastBuffer(r, s) THEN CompleteRequest(r)
                                ELSE UNCHANGED <<queue, complete>>
    /\ UNCHANGED <<phase, setupVars, raw, dropped>>

(* The outputs that have a slot for one more buffer.                       *)
Free == {s \in Streams : Len(dev[s]) < BufferCount}

(* queueRequestDevice() queues every buffer it can.                        *)
QueueBuffers(r, S) ==
    /\ dev' = [s \in Streams |-> IF s \in S \cap Free THEN Append(dev[s], r)
                                                      ELSE dev[s]]
    /\ pending' = [pending EXCEPT ![r] = S]

QueueRequest(r, S) ==
    /\ phase = "running"
    /\ r \notin Queue \cup dropped
    /\ S \subseteq Free
    /\ QueueBuffers(r, S)
    /\ queue' = Append(queue, r)
    /\ UNCHANGED <<phase, setupVars, raw, filled, complete, dropped>>

(* Mistake: a request that could not be queued to all devices stays in the *)
(* queue.                                                                  *)
QueueRequestAnyway(r, S) ==
    /\ phase = "running"
    /\ r \notin Queue \cup dropped
    /\ ~(S \subseteq Free)
    /\ QueueBuffers(r, S)
    /\ queue' = Append(queue, r)
    /\ UNCHANGED <<phase, setupVars, raw, filled, complete, dropped>>

(* An output has no slot left: the request is taken off the queue while    *)
(* its other buffer may be in its device.                                  *)
QueueRequestFails(r, S) ==
    /\ phase = "running"
    /\ r \notin Queue \cup dropped
    /\ ~(S \subseteq Free)
    /\ QueueBuffers(r, S)
    /\ dropped' = dropped \cup {r}
    /\ UNCHANGED <<phase, setupVars, raw, filled, queue, complete>>

-----------------------------------------------------------------------------

Stopping == OutputStopped \/ ViewfinderStopped

Handlers ==
    \/ \E b \in RawBuffers : Cio2BufferReady(b) \/ Process(b)
                                                \/ ImguInputBufferReady(b)
    \/ \E s \in Streams, i \in 1 .. BufferCount : ImguOutputBufferReady(s, i)
    \/ Stopping

Next ==
    \/ \E good \in Openable : Match(good)
    \/ \E roles \in Roles : GenerateConfiguration(roles)
    \/ \E c \in Configurations : ValidateConfiguration(c)
    \/ Configure \/ ConfigureFails \/ OtherConfigures
    \/ Start \/ StartFails \/ Stop
    \/ \E r \in Requests, S \in SUBSET configured :
           S # {} /\ (QueueRequest(r, S) \/ QueueRequestFails(r, S))
    \/ Handlers

Spec == Init /\ [][Next]_vars

-----------------------------------------------------------------------------
(***************************************************************************)
(* Properties.                                                             *)
(***************************************************************************)

(* Of the sizes large enough for every stream, the one with the closest    *)
(* ratio and, among these, with the smallest area.                         *)
BestFor(sensor, wanted) ==
    LET fit == {sz \in ToSet(SensorSizes) : LargeEnough(sz, wanted)}
        Diff(sz) == Distance(Ratio(sz), Ratio(wanted))
    IN  IF fit = {}
          THEN sensor = Resolution
          ELSE /\ sensor \in fit
               /\ \A sz \in fit :
                    \/ Diff(sensor) < Diff(sz)
                    \/ /\ Diff(sensor) = Diff(sz)
                       /\ Area(sensor) <= Area(sz)

(* What validate() leaves behind can be handed to the hardware: no stream  *)
(* is used twice, sizes are aligned, the output has the sensor's size, and *)
(* that is the best one.  Against "The configuration has been adjusted to  *)
(* a valid configuration" (CameraConfiguration::Adjusted), the default     *)
(* size of a viewfinder may be larger than all that was asked for, so that *)
(* Camera::configure(), which validates once more, chooses another size of *)
(* the sensor and refuses; but what it leaves then is valid.               *)
ConfigurationSound ==
    config # NoConfiguration /\ config.status # "Invalid" =>
        /\ IsInjective(config.streams)
        /\ BestFor(config.sensor, config.wanted)
        /\ \A i \in DOMAIN config.entries :
             LET size == config.entries[i].size IN
             /\ size[1] % 8 = 0 /\ size[2] % 4 = 0
             /\ config.streams[i] = "output" => size = Align(config.sensor)
        /\ LET again == Validate(config.entries) IN
           /\ again.status # "Valid" => again.sensor # config.sensor
           /\ Validate(again.entries).status = "Valid"

(* A raw buffer is never lost while the camera runs, and none is in a      *)
(* device when the buffers are freed; a running camera has buffers on      *)
(* every device, and those of each stream of the camera are the            *)
(* application's.                                                          *)
BuffersAccounted ==
    /\ phase = "running" =>
         /\ \A b \in RawBuffers : raw[b] \notin {"free", "lost"}
         /\ allocated = Internal \cup Streams
         /\ configured \subseteq active
    /\ phase = "stopped" =>
         /\ \A b \in RawBuffers : raw[b] = "free"
         /\ allocated \subseteq Streams

(* Every buffer a queued request waits for is in its device, whatever the  *)
(* order in which the outputs return theirs and whichever request was      *)
(* refused by one output but not by the other; after stop() no request is  *)
(* left.                                                                   *)
NoRequestLost ==
    /\ \A r \in Queue \ complete :
         pending[r] # {} /\ \A s \in pending[r] : r \in ToSet(dev[s])
    /\ phase = "stopped" => queue = <<>> /\ \A s \in Streams : dev[s] = <<>>
=============================================================================
