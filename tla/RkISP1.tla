------------------------------- MODULE RkISP1 -------------------------------
(***************************************************************************)
(* The Rockchip ISP pipeline handler (pipeline/rkisp1/rkisp1.cpp), its     *)
(* timeline (timeline.cpp) and its image processing algorithms             *)
(* (ipa/rkisp1/rkisp1.cpp).  A request needs three buffers: the            *)
(* application's video buffer, and a parameters and a statistics buffer    *)
(* that the pipeline allocates when it starts.  RkISP1FrameInfo ties them  *)
(* to a frame number.  A frame action queues the three buffers to their    *)
(* devices at a time the timeline chooses; they come back in any order,    *)
(* and the request completes with the last of: video buffer, parameters    *)
(* buffer, metadata computed from the statistics.                          *)
(*                                                                         *)
(* Everything runs in the manager thread; the algorithms are called        *)
(* directly.  The devices are part of a SoC and are never unplugged:       *)
(* allocating buffers, starting a stream and queueing a buffer can fail,   *)
(* stopping a stream cannot.  Sensor controls and the contents of the      *)
(* buffers are left out, and so are the actions that set controls.         *)
(*                                                                         *)
(* A FrameBuffer object is named by its address.  Memory that one capture  *)
(* session frees may, or may not, be given to the buffers of the next; to  *)
(* keep the model small it is then used for the same kind of buffer, and   *)
(* for the parameters and the statistics buffers alike.  This only matters *)
(* once a request was lost, when the infos of two sessions meet.           *)
(***************************************************************************)
EXTENDS Naturals, Sequences, FiniteSets

CONSTANTS
    Requests,       \* Request objects, each with its video buffer
    Addresses,      \* where a pair of internal buffers can be allocated
    BufferCount,    \* bufferCount of the stream
    MaxFrame,       \* bound: frames queued in one session
    MaxRefused,     \* bound: requests a buffer of which a device refuses
    NoInfo

VARIABLES
    phase,          \* "stopped", "running", or the device stop() is at
    queue,          \* CameraData::queuedRequests_
    complete,       \* requests in it whose status is not RequestPending
    pending,        \* requests that wait for their video buffer
    dropped,        \* requests that queueRequestDevice() refused
    refused,        \* history: requests a buffer of which was refused
    frame,          \* frame_
    info,           \* frameInfo_
    actions,        \* frames whose QueueBuffers action is scheduled
    availableParam, \* availableParamBuffers_
    availableStat,  \* availableStatBuffers_
    video, param, stat,     \* what the three devices hold
    paramCache, statCache,  \* the buffer caches of param_ and stat_
    sequence        \* the driver's next sequence number

requestVars == <<queue, complete, pending, dropped>>
poolVars == <<availableParam, availableStat>>
deviceVars == <<video, param, stat>>
cacheVars == <<paramCache, statCache>>
vars == <<phase, requestVars, refused, frame, info, actions, poolVars,
          deviceVars, cacheVars, sequence>>

Frames == 0 .. MaxFrame - 1

FrameInfo == [request : Requests, param : Addresses, stat : Addresses,
              filled : BOOLEAN, dequeued : BOOLEAN, processed : BOOLEAN]

Elements(s) == {s[i] : i \in 1 .. Len(s)}

TypeOK ==
    /\ phase \in {"stopped", "running", "stopVideo", "stopStat", "stopParam"}
    /\ queue \in Seq(Requests)
    /\ complete \subseteq Elements(queue)
    /\ pending \subseteq Requests
    /\ dropped \subseteq Requests
    /\ refused \subseteq Requests
    /\ frame \in Nat
    /\ info \in [Frames -> FrameInfo \cup {NoInfo}]
    /\ actions \subseteq Frames
    /\ availableParam \in Seq(Addresses)
    /\ availableStat \in Seq(Addresses)
    /\ video \subseteq Requests
    /\ param \subseteq Addresses
    /\ stat \subseteq Addresses
    /\ paramCache \in BOOLEAN
    /\ statCache \in BOOLEAN
    /\ sequence \in Nat

Init ==
    /\ phase = "stopped"
    /\ queue = <<>> /\ complete = {} /\ pending = {} /\ dropped = {}
    /\ refused = {}
    /\ frame = 0
    /\ info = [f \in Frames |-> NoInfo]
    /\ actions = {}
    /\ availableParam = <<>> /\ availableStat = <<>>
    /\ video = {} /\ param = {} /\ stat = {}
    /\ paramCache = FALSE /\ statCache = FALSE
    /\ sequence = 0

-----------------------------------------------------------------------------
(***************************************************************************)
(* RkISP1Frames.                                                           *)
(***************************************************************************)

Known == {f \in Frames : info[f] # NoInfo}

(* find(): the frames whose info satisfies a condition, and the one the    *)
(* search in the map, which is ordered by frame number, stops at.          *)
First(S, f) == f \in S /\ \A g \in S : f <= g

OfParam(p) == {f \in Known : info[f].param = p}

OfStat(s) == {f \in Known : info[f].stat = s}

OfRequest(r, inf) == {f \in Frames : inf[f] # NoInfo /\ inf[f].request = r}

(* create(): an old info of the same frame is overwritten.                 *)
NewInfo(r) ==
    [request |-> r, param |-> Head(availableParam),
     stat |-> Head(availableStat), filled |-> FALSE, dequeued |-> FALSE,
     processed |-> FALSE]

Underrun == availableParam = <<>> \/ availableStat = <<>>

-----------------------------------------------------------------------------
(***************************************************************************)
(* Completion.                                                             *)
(***************************************************************************)

(* Mistake: requests are returned in the order they complete.              *)
CompleteRequestAtOnce(done) ==
    /\ queue' = SelectSeq(queue, LAMBDA q : q \notin done)
    /\ complete' = {}

(* PipelineHandler::completeRequest(): the requests at the head of the     *)
(* queue that are complete go back to the application and are deleted.     *)
CompleteRequest(done) ==
    \E n \in 0 .. Len(queue) :
        /\ \A i \in 1 .. n : queue[i] \in done
        /\ n < Len(queue) => queue[n + 1] \notin done
        /\ queue' = SubSeq(queue, n + 1, Len(queue))
        /\ complete' = done \ {queue[i] : i \in 1 .. n}

(* Mistake: the parameters buffer is not waited for.                       *)
ReadyEarly(r, f, inf) == r \notin pending' /\ inf[f].processed

(* tryCompleteRequest() of request r when the frame infos are inf.         *)
Ready(r, f, inf) ==
    r \notin pending' /\ inf[f].processed /\ inf[f].dequeued

TryCompleteRequest(r, inf) ==
    \/ /\ \A f \in OfRequest(r, inf) :
            First(OfRequest(r, inf), f) => ~Ready(r, f, inf)
       /\ info' = inf
       /\ UNCHANGED <<queue, complete, poolVars>>
    \/ \E f \in OfRequest(r, inf) :
         /\ First(OfRequest(r, inf), f)
         /\ Ready(r, f, inf)
         /\ info' = [inf EXCEPT ![f] = NoInfo]
         /\ availableParam' = Append(availableParam, inf[f].param)
         /\ availableStat' = Append(availableStat, inf[f].stat)
         /\ CompleteRequest(complete \cup {r})

(* bufferReady(): the frame counter catches up with the driver's, which    *)
(* advances by one or, when it had no buffer for a frame, by more.  The    *)
(* sequence of a cancelled buffer does not matter, as start() resets both. *)
NextFrame(seq) == IF frame <= seq THEN seq + 1 ELSE frame

BufferReady(r, seq) ==
    /\ phase \in {"running", "stopVideo"}
    /\ r \in video
    /\ video' = video \ {r}
    /\ frame' = NextFrame(seq)
    /\ sequence' = seq + 1
    /\ pending' = pending \ {r}
    /\ TryCompleteRequest(r, info)
    /\ UNCHANGED <<phase, dropped, refused, actions, param, stat, cacheVars>>

(* paramReady(): the info found is used without a check.                   *)
ParamReady(p) ==
    /\ phase \in {"running", "stopParam"}
    /\ p \in param
    /\ param' = param \ {p}
    /\ \E f \in OfParam(p) :
         /\ First(OfParam(p), f)
         /\ UNCHANGED pending
         /\ TryCompleteRequest(info[f].request,
                               [info EXCEPT ![f].dequeued = TRUE])
    /\ UNCHANGED <<phase, dropped, refused, frame, actions, video, stat,
                   cacheVars, sequence>>

(* statReady(): the algorithms process the statistics, and metadataReady() *)
(* is called back before statReady() returns.                              *)
MetadataReady(f) ==
    TryCompleteRequest(info[f].request, [info EXCEPT ![f].processed = TRUE])

StatReady(s) ==
    /\ phase \in {"running", "stopStat"}
    /\ s \in stat
    /\ stat' = stat \ {s}
    /\ UNCHANGED pending
    /\ \/ OfStat(s) = {} /\ UNCHANGED <<info, queue, complete, poolVars>>
       \/ \E f \in OfStat(s) : First(OfStat(s), f) /\ MetadataReady(f)
    /\ UNCHANGED <<phase, dropped, refused, frame, actions, video, param,
                   cacheVars, sequence>>

-----------------------------------------------------------------------------
(***************************************************************************)
(* Requests and the timeline.                                              *)
(***************************************************************************)

(* What a device holds after queueBuffer() of b, which it takes or not.    *)
Queued(held, b, takes) == IF takes THEN held \cup {b} ELSE held

(* RkISP1ActionQueueBuffers::run() for an info i.  Each queueBuffer() can  *)
(* fail, and none of the three results is looked at.                       *)
QueueBuffers(i) ==
    \E takes \in [{"param", "stat", "video"} -> BOOLEAN] :
        /\ param' = Queued(param, i.param, i.filled /\ takes["param"])
        /\ stat' = Queued(stat, i.stat, takes["stat"])
        /\ video' = Queued(video, i.request, takes["video"])
        /\ \/ /\ \A d \in DOMAIN takes : takes[d]
              /\ UNCHANGED refused
           \/ /\ \E d \in DOMAIN takes : ~takes[d]
              /\ refused' = refused \cup {i.request}
              /\ Cardinality(refused') <= MaxRefused

(* Mistake: the parameters are not reported as filled.                     *)
ParamNotFilled(i) == i

(* IPARkISP1::queueRequest() reports the parameters as filled before it    *)
(* returns.                                                                *)
ParamFilled(i) == [i EXCEPT !.filled = TRUE]

(* PipelineHandler::queueRequest() and queueRequestDevice().  An action    *)
(* whose time has passed is run at once.                                   *)
QueueRequest(r) ==
    /\ phase = "running"
    /\ r \notin Elements(queue) \cup dropped
    /\ frame < MaxFrame
    /\ ~Underrun
    /\ queue' = Append(queue, r)
    /\ pending' = pending \cup {r}
    /\ info' = [info EXCEPT ![frame] = ParamFilled(NewInfo(r))]
    /\ availableParam' = Tail(availableParam)
    /\ availableStat' = Tail(availableStat)
    /\ frame' = frame + 1
    /\ \/ actions' = actions \cup {frame} /\ UNCHANGED <<deviceVars, refused>>
       \/ QueueBuffers(info'[frame]) /\ UNCHANGED actions
    /\ UNCHANGED <<phase, complete, dropped, cacheVars, sequence>>

(* Without a free pair of buffers the request is refused: it is taken off  *)
(* the queue, and nothing will complete it.                                *)
QueueRequestFails(r) ==
    /\ phase = "running"
    /\ r \notin Elements(queue) \cup dropped
    /\ Underrun
    /\ dropped' = dropped \cup {r}
    /\ UNCHANGED <<phase, queue, complete, pending, refused, frame, info,
                   actions, poolVars, deviceVars, cacheVars, sequence>>

(* Timeline::timeout() runs an action.  Deadlines are computed from a      *)
(* moving estimate of the frame interval, so any of them can be the first. *)
Timeout(f) ==
    /\ phase = "running"
    /\ f \in actions
    /\ actions' = actions \ {f}
    /\ info[f] # NoInfo
    /\ QueueBuffers(info[f])
    /\ UNCHANGED <<phase, requestVars, frame, info, poolVars, cacheVars,
                   sequence>>

-----------------------------------------------------------------------------
(***************************************************************************)
(* Start and stop.                                                         *)
(***************************************************************************)

(* start() with the internal buffers allocated at the addresses in A.      *)
Start(A) ==
    /\ phase = "stopped"
    /\ ~paramCache /\ ~statCache
    /\ phase' = "running"
    /\ frame' = 0
    /\ availableParam' = A /\ availableStat' = A
    /\ paramCache' = TRUE /\ statCache' = TRUE
    /\ sequence' = 0
    /\ UNCHANGED <<requestVars, refused, info, actions, deviceVars>>

(* allocateBuffers() fails: exporting the parameters buffers fails, always *)
(* so when they still exist, or exporting the statistics buffers, and then *)
(* the cache of the former stays (the error path releases video_ instead). *)
AllocateBuffersFails ==
    /\ phase = "stopped"
    /\ \/ UNCHANGED paramCache
       \/ ~paramCache /\ paramCache' = TRUE
    /\ UNCHANGED <<phase, requestVars, refused, frame, info, actions, poolVars,
                   deviceVars, statCache, sequence>>

(* freeBuffers()                                                           *)
FreeBuffers ==
    /\ availableParam' = <<>> /\ availableStat' = <<>>
    /\ paramCache' = FALSE /\ statCache' = FALSE

(* A device refuses to stream: the others are stopped and the internal     *)
(* buffers freed.                                                          *)
StreamOnFails ==
    /\ phase = "stopped"
    /\ ~paramCache /\ ~statCache
    /\ frame' = 0
    /\ FreeBuffers
    /\ UNCHANGED <<phase, requestVars, refused, info, actions, deviceVars,
                   sequence>>

(* stop(): each device in turn returns what it holds, through the handlers *)
(* above.                                                                  *)
Stop ==
    /\ phase = "running"
    /\ phase' = "stopVideo"
    /\ UNCHANGED <<requestVars, refused, frame, info, actions, poolVars,
                   deviceVars, cacheVars, sequence>>

VideoStopped ==
    /\ phase = "stopVideo" /\ video = {}
    /\ phase' = "stopStat"
    /\ UNCHANGED <<requestVars, refused, frame, info, actions, poolVars,
                   deviceVars, cacheVars, sequence>>

StatStopped ==
    /\ phase = "stopStat" /\ stat = {}
    /\ phase' = "stopParam"
    /\ UNCHANGED <<requestVars, refused, frame, info, actions, poolVars,
                   deviceVars, cacheVars, sequence>>

(* The timeline is reset and the internal buffers are freed; the frame     *)
(* infos are left as they are.                                             *)
ParamStopped ==
    /\ phase = "stopParam" /\ param = {}
    /\ phase' = "stopped"
    /\ actions' = {}
    /\ FreeBuffers
    /\ UNCHANGED <<requestVars, refused, frame, info, deviceVars, sequence>>

-----------------------------------------------------------------------------

Allocations == {A \in [1 .. BufferCount -> Addresses] :
                   \A i, j \in 1 .. BufferCount : i < j => A[i] < A[j]}

Stopping == VideoStopped \/ StatStopped \/ ParamStopped

Handlers ==
    \/ \E r \in Requests, seq \in {sequence, sequence + 1} :
           BufferReady(r, seq)
    \/ \E p \in Addresses : ParamReady(p)
    \/ \E s \in Addresses : StatReady(s)
    \/ \E f \in Frames : Timeout(f)
    \/ Stopping

Next ==
    \/ \E r \in Requests : QueueRequest(r) \/ QueueRequestFails(r)
    \/ \E A \in Allocations : Start(A)
    \/ AllocateBuffersFails
    \/ StreamOnFails
    \/ Stop
    \/ Handlers

Spec == Init /\ [][Next]_vars

-----------------------------------------------------------------------------
(***************************************************************************)
(* Properties.                                                             *)
(***************************************************************************)

Queue == Elements(queue)

(* A request that is in the queue for ever: something it waits for is      *)
(* neither in a device nor going to be queued to one.                      *)
Stuck(r) ==
    /\ r \in Queue \ complete
    /\ \A f \in OfRequest(r, info) :
         /\ f \notin actions
         /\ \/ ~info[f].dequeued /\ info[f].param \notin param
            \/ ~info[f].processed /\ info[f].stat \notin stat
            \/ r \in pending /\ r \notin video

(* The requests that the pipeline has forgotten.                           *)
Lost == {r \in Requests : Stuck(r)}

(* A request that was accepted is forgotten in two ways only.  When a      *)
(* device refuses one of its buffers the others are queued all the same    *)
(* and nobody hears of it: that request, and no other, never completes.    *)
(* And stop() resets the timeline: exactly the requests whose action has   *)
(* not run stay in the queue, though Camera::stop() is said to cancel and  *)
(* complete all pending requests.  In every other step, whatever the order *)
(* in which the timeline, the three devices and the algorithms act, each   *)
(* request still has what it waits for on its way.  (Once a request was    *)
(* forgotten, its stale frame info can attract a buffer of a later session *)
(* that has the same address: nothing is claimed from then on.)            *)
Losses ==
    refused = {} /\ Lost = {} =>
        Lost' = IF refused' # {} THEN refused'
                ELSE IF phase' = "stopped"
                     THEN {info[f].request : f \in actions}
                     ELSE {}

(* A frame whose action is scheduled, or whose parameters the device       *)
(* holds, has its info ("Frame not known" is fatal, and paramReady() uses  *)
(* what it finds), and a free internal buffer is in no device, as long as  *)
(* no request was forgotten.                                               *)
BuffersAccounted ==
    /\ actions \subseteq Known
    /\ refused = {} /\ Lost = {} =>
         /\ \A p \in param : OfParam(p) # {}
         /\ Elements(availableParam) \cap param = {}
         /\ Elements(availableStat) \cap stat = {}
=============================================================================
