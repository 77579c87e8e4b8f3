------------------------------ MODULE Pipelines ------------------------------
(***************************************************************************)
(* The pipeline handlers.  RkISP1 and IPU3 process frames in an ISP of     *)
(* their own; both derive from PipelineHandler, whose part of their state  *)
(* (the queue of requests) is the same, and the rest belongs to one of     *)
(* them.  SingleStream is about how UVC, vimc and RkISP1 are configured.   *)
(* A behaviour is about one of the three.                                  *)
(***************************************************************************)
EXTENDS Naturals, Sequences, FiniteSets

CONSTANTS
    Requests, BufferCount,
    Addresses, MaxFrame, MaxRefused, NoInfo,        \* RkISP1
    RawBuffers, SensorSizes, Configurations, Roles, \* IPU3
    NoConfiguration,
    UVCFormats, UVCRanges, DiscreteSizes, SingleEntries, MaxConfigures

ASSUME BoundsAssumption ==
    /\ BufferCount \in Nat \ {0}
    /\ Addresses \subseteq Nat
    /\ MaxFrame \in Nat /\ MaxRefused \in Nat
    /\ IsFiniteSet(RawBuffers)
    /\ SensorSizes # <<>>
    /\ UVCFormats # <<>> /\ MaxConfigures \in Nat

VARIABLES
    pipeline,       \* "rkisp1", "ipu3" or "single"
    phase, queue, complete, pending, dropped,
    refused, frame, info, actions, availableParam, availableStat, video, param,
    stat, paramCache, statCache, sequence,
    links, config, configured, active, allocated, raw, dev, filled,
    handler, asked, entries, status, camera, applied, chain, tried, configures

rkisp1Vars == <<refused, frame, info, actions, availableParam, availableStat,
                video, param, stat, paramCache, statCache, sequence>>
ipu3Vars == <<links, config, configured, active, allocated, raw, dev, filled>>
singleVars == <<handler, asked, entries, status, camera, applied, chain, tried,
                configures>>
queueVars == <<phase, queue, complete, pending, dropped>>
vars == <<pipeline, queueVars, rkisp1Vars, ipu3Vars, singleVars>>

Rk == INSTANCE RkISP1
Ipu3 == INSTANCE IPU3
Single == INSTANCE SingleStream

ASSUME NoInfoAssumption == NoInfo \notin Rk!FrameInfo

(* The pipeline handler that is not there has no state: its variables keep *)
(* a value that nobody reads.                                              *)
None == <<>>

NoRkISP1 ==
    /\ refused = None /\ frame = None /\ info = None /\ actions = None
    /\ sequence = None
    /\ availableParam = None /\ availableStat = None
    /\ video = None /\ param = None /\ stat = None
    /\ paramCache = None /\ statCache = None

NoIPU3 ==
    /\ links = None /\ config = None /\ configured = None /\ active = None
    /\ allocated = None /\ raw = None /\ dev = None /\ filled = None

NoSingle ==
    /\ handler = None /\ asked = None /\ entries = None /\ status = None
    /\ camera = None /\ applied = None /\ chain = None /\ tried = None
    /\ configures = None

NothingQueued ==
    /\ phase = "stopped" /\ queue = <<>> /\ complete = {}
    /\ pending = {} /\ dropped = {}

InitRkISP1 == pipeline = "rkisp1" /\ Rk!Init /\ NoIPU3 /\ NoSingle

InitIPU3 == pipeline = "ipu3" /\ Ipu3!Init /\ NoRkISP1 /\ NoSingle

InitSingle ==
    /\ pipeline = "single"
    /\ Single!SingleInit /\ NothingQueued /\ NoRkISP1 /\ NoIPU3

Init == InitRkISP1 \/ InitIPU3 \/ InitSingle

RkISP1(A) ==
    pipeline = "rkisp1" /\ A /\ UNCHANGED <<pipeline, ipu3Vars, singleVars>>
IPU3(A) ==
    pipeline = "ipu3" /\ A /\ UNCHANGED <<pipeline, rkisp1Vars, singleVars>>
SingleStream(A) ==
    /\ pipeline = "single" /\ A
    /\ UNCHANGED <<pipeline, queueVars, rkisp1Vars, ipu3Vars>>

Next ==
    RkISP1(Rk!Next) \/ IPU3(Ipu3!Next) \/ SingleStream(Single!SingleNext)

Spec == Init /\ [][Next]_vars

(* The devices return their buffers while they stream, the event loop of   *)
(* the manager thread delivers them and runs the timeline's timer, and a   *)
(* stop() that was begun goes on.  What the application does is up to it.  *)
FairSpec ==
    /\ Spec
    /\ \A r \in Requests :
         WF_vars(RkISP1(\E seq \in {sequence, sequence + 1} :
                            Rk!BufferReady(r, seq)))
    /\ \A a \in Addresses : /\ WF_vars(RkISP1(Rk!ParamReady(a)))
                            /\ WF_vars(RkISP1(Rk!StatReady(a)))
    /\ \A f \in Rk!Frames : WF_vars(RkISP1(Rk!Timeout(f)))
    /\ WF_vars(RkISP1(Rk!Stopping))
    /\ \A b \in RawBuffers : /\ WF_vars(IPU3(Ipu3!Cio2BufferReady(b)))
                             /\ WF_vars(IPU3(Ipu3!Process(b)))
                             /\ WF_vars(IPU3(Ipu3!ImguInputBufferReady(b)))
    /\ \A s \in Ipu3!Streams :
         WF_vars(IPU3(\E i \in 1 .. BufferCount :
                          Ipu3!ImguOutputBufferReady(s, i)))
    /\ WF_vars(IPU3(Ipu3!Stopping))

-----------------------------------------------------------------------------
(***************************************************************************)
(* Properties.                                                             *)
(***************************************************************************)

(* The internal buffers of either pipeline handler are where its tables    *)
(* say: none is lost or in two places while the devices return them in any *)
(* order (RkISP1!BuffersAccounted, IPU3!BuffersAccounted).                 *)
BuffersAccounted ==
    /\ pipeline = "rkisp1" => Rk!TypeOK /\ Rk!BuffersAccounted
    /\ pipeline = "ipu3" => Ipu3!TypeOK /\ Ipu3!BuffersAccounted

(* What validate() of any pipeline handler makes of a configuration can be *)
(* given to the hardware, but for an entry without a pixel format on       *)
(* RkISP1, and Camera::configure() takes it there, but for one that the    *)
(* IPU3 must validate once more (IPU3!ConfigurationSound,                  *)
(* SingleStream!SingleSound).                                              *)
ConfigurationSound ==
    /\ pipeline = "ipu3" => Ipu3!ConfigurationSound
    /\ pipeline = "single" => Single!SingleSound

(* The IPU3 never forgets a request: each buffer that a request waits for  *)
(* is in its device, and stop() leaves none behind (IPU3!NoRequestLost).   *)
NoRequestLost == pipeline = "ipu3" => Ipu3!NoRequestLost

(* RkISP1 forgets a request only when a device refuses a buffer of it, and *)
(* in stop() (RkISP1!Losses).                                              *)
RkISP1Losses == [][pipeline = "rkisp1" => Rk!Losses]_vars

(* No request falls between the devices: never for the IPU3, and for       *)
(* RkISP1 exactly the request a buffer of which is refused, and those      *)
(* whose action stop() drops.                                              *)
RequestsKept == []NoRequestLost /\ RkISP1Losses

(* Requests return in submission order, once the hardware is done with     *)
(* them: both pipeline handlers implement RequestFifo.                     *)
Fifo == INSTANCE RequestFifo
            WITH busy <- {queue[i] : i \in DOMAIN queue} \ complete

ImplementsFifo == Fifo!Spec

(* A request that was accepted returns: the internal buffers, the timeline *)
(* and the algorithms keep going round.  RkISP1 keeps this promise until   *)
(* it forgets a request (RkISP1!Losses says when): from then on none is    *)
(* bound to return, as the queue is in order.                              *)
Forgotten == pipeline = "rkisp1" /\ (refused # {} \/ Rk!Lost # {})

RequestsReturn ==
    \A r \in Requests :
        (r \in Fifo!InOrder) ~> (r \notin Fifo!InOrder \/ Forgotten)

-----------------------------------------------------------------------------
(***************************************************************************)
(* The instance that is checked: three requests; two internal buffers of   *)
(* each kind, for RkISP1 at two addresses; the sizes of a real sensor.     *)
(***************************************************************************)

SomeSensor == <<<<1056, 784>>, <<2112, 1188>>, <<2112, 1568>>, <<4224, 3136>>>>

SomeSizes == {<<0, 0>>, <<1000, 700>>, <<1283, 721>>, <<2112, 1188>>,
              <<5000, 3000>>}

Entry(size) == [nv12 |-> TRUE, size |-> size]

SomeConfigurations ==
    {<<>>, <<[nv12 |-> FALSE, size |-> <<640, 480>>]>>}
        \cup {<<Entry(a)>> : a \in SomeSizes}
        \cup {<<Entry(a), Entry(b)>> : a \in SomeSizes,
               b \in {<<0, 0>>, <<1000, 700>>, <<5000, 3000>>}}
        \cup {<<Entry(<<640, 480>>), Entry(<<0, 0>>), Entry(<<640, 480>>)>>}

SomeRoles == {<<"StillCapture">>, <<"Viewfinder">>,
              <<"StillCapture", "StillCapture">>,
              <<"Viewfinder", "StillCapture">>,
              <<"StillCapture", "VideoRecording">>}

(* A UVC camera with two formats: discrete sizes, and a range of them.     *)
SomeUVCFormats == <<"YUYV", "MJPG">>

Fixed(w, h) == [min |-> <<w, h>>, max |-> <<w, h>>]

SomeUVCRanges ==
    [f \in {"YUYV", "MJPG"} |->
        IF f = "YUYV" THEN <<Fixed(640, 480), Fixed(1280, 720),
                             Fixed(320, 240), Fixed(1024, 768)>>
                      ELSE <<[min |-> <<160, 120>>, max |-> <<1280, 1024>>]>>]

SomeDiscreteSizes == {<<160, 120>>, <<640, 480>>, <<1280, 720>>,
                      <<1024, 768>>, <<1920, 1080>>}

SomeEntries ==
    [format : {"YUYV", "MJPG"},
     size : {<<0, 0>>, <<800, 600>>, <<4096, 3000>>}]
        \cup {[format |-> "none", size |-> <<1280, 720>>],
              [format |-> "BGRA8888", size |-> <<640, 481>>]}
=============================================================================
