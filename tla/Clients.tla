------------------------------- MODULE Clients -------------------------------
(***************************************************************************)
(* One of the adaptation layers or applications uses the camera: the       *)
(* GStreamer element, the V4L2 compatibility layer, the Android HAL, or    *)
(* cam or qcam.  The HAL's packets of metadata, which need no camera, are  *)
(* used by themselves.                                                     *)
(***************************************************************************)
EXTENDS GstLibcameraSrc, V4L2Compat, CameraDevice, CaptureApps

VARIABLE client

vars == <<client, cameraVars, gstVars, v4l2Vars, halVars, metaVars, appVars>>

Init ==
    /\ client \in {"gstreamer", "v4l2", "android", "metadata", "application"}
    /\ CameraInit /\ GstInit /\ V4L2Init /\ HalInit /\ MetaInit /\ AppInit
    /\ client # "application" => app = "cam"

(* A step of one of them leaves the state of the others alone.             *)
Only(who, A, others) == client = who /\ A /\ UNCHANGED <<client, others>>

Gst(A) == Only("gstreamer", A, <<v4l2Vars, halVars, metaVars, appVars>>)
V4L2(A) == Only("v4l2", A, <<gstVars, halVars, metaVars, appVars>>)
Hal(A) == Only("android", A, <<gstVars, v4l2Vars, metaVars, appVars>>)
Metadata(A) == Only("metadata", A, <<cameraVars, gstVars, v4l2Vars, halVars, appVars>>)
App(A) == Only("application", A, <<gstVars, v4l2Vars, halVars, metaVars>>)

Next ==
    \/ Gst(GstNext) \/ V4L2(V4L2Next) \/ Hal(HalNext) \/ Metadata(MetaNext)
    \/ App(AppNext)

Spec == Init /\ [][Next]_vars

(* What goes on by itself: the streaming thread of the element, the        *)
(* camera, a call that can return, the elements downstream, which give     *)
(* buffers back, and the threads of cam and qcam.  What an application of  *)
(* the layers does next, and when a user interrupts, is up to them.  The   *)
(* client never changes: of a disjunction only one disjunct can ever be    *)
(* enabled, and each is fair by itself.                                    *)
FairSpec ==
    /\ Spec
    /\ WF_vars(Gst(TaskStep) \/ V4L2(RequestComplete) \/ App(MainStep))
    /\ WF_vars(Gst(RequestCompleted) \/ V4L2(DqbufReturns) \/ App(ManagerStep))
    /\ WF_vars(Gst(JoinStops \/ JoinReturns))
    /\ WF_vars(Gst(\/ ReleaseOld
                   \/ \E f \in Frames : ReleaseDown(f, FALSE) \/ ReleaseMemory(f)))

-----------------------------------------------------------------------------
(***************************************************************************)
(* Properties.                                                             *)
(***************************************************************************)

(* libcamerasrc: the wraps are those of the camera's requests whenever the *)
(* completion handler may look for one, and every frame and GstBuffer is   *)
(* in one place (WrapsMatch, FramesConserved).                             *)
GstConsistent == client = "gstreamer" => WrapsMatch /\ FramesConserved

(* Every layer: what was asked of it ends.  Frames flow while the pipeline *)
(* plays, and a change to READY returns; a dequeue returns if a buffer is  *)
(* done or will be; SIGINT ends a capture of cam or qcam.                  *)
ClientsProgress ==
    /\ FramesFlow
    /\ \/ client = "gstreamer" /\ JoinAsked
       \/ client = "v4l2" /\ DequeueAsked
       \/ client = "application" /\ InterruptAsked
       ~> /\ client = "gstreamer" => JoinEnded
          /\ client = "v4l2" => DequeueEnded
          /\ client = "application" => InterruptEnded

(* Android: one result for each accepted request, in order, after a        *)
(* message about it, and none after close() (ResultsMatch); the packs of   *)
(* metadata have room for what is put into them (PacksFit), and a packet   *)
(* holds what was written to it whatever was deleted, resized, sorted or   *)
(* appended meanwhile (MetadataSound).                                     *)
AndroidSound ==
    /\ client = "android" => ResultsMatch /\ PacksFit
    /\ client = "metadata" => MetadataSound

(* cam and qcam: no buffer is freed while the camera has it                *)
(* (BuffersOutliveRequests).                                               *)
CaptureSafe == client = "application" => BuffersOutliveRequests

-----------------------------------------------------------------------------
(***************************************************************************)
(* The instance that is checked: three frames, of which downstream holds   *)
(* one; two buffers and two formats for a V4L2 application, one of them    *)
(* unknown to the layer.                                                   *)
(***************************************************************************)

SomeTags == <<"int32", "int64">>

SomeSizes == [f \in PixelFormats |-> IF f = "MJPG" THEN 0 ELSE 1]
=============================================================================
