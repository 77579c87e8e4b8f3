---------------------------- MODULE V4L2Devices ----------------------------
(***************************************************************************)
(* Devices: the buffers of a video device (V4L2VideoDevice), the controls  *)
(* of a device (V4L2Controls), the loop that sets the controls of a sensor *)
(* from the statistics of an ISP (ExposureLoop), the locks that keep media *)
(* devices from other processes (PipelineLock), and how media devices are  *)
(* found (DeviceEnumerator).  They share no state; aspect says which of    *)
(* them a behaviour is about.                                              *)
(***************************************************************************)
EXTENDS V4L2VideoDevice, V4L2Controls, ExposureLoop, PipelineLock, DeviceEnumerator

VARIABLE aspect

v4l2DeviceVars ==
    <<aspect, deviceVars, controlVars, loopVars, lockVars, enumeratorVars>>

(* What a behaviour is not about has one initial state only.               *)
V4L2DeviceInit ==
    /\ aspect \in {"buffers", "controls", "exposure", "locks", "enumerator"}
    /\ Init /\ ControlsInit /\ LoopInit /\ LockInit /\ EnumeratorInit
    /\ aspect # "exposure" =>
         Len(sensor) = 1 /\ scene = CHOOSE s \in Scenes : TRUE
    /\ aspect # "controls" => supported = CHOOSE ids \in ControlDevices : TRUE

WithBuffers(A) ==
    /\ aspect = "buffers" /\ A
    /\ UNCHANGED <<aspect, controlVars, loopVars, lockVars, enumeratorVars>>

WithControls(A) ==
    /\ aspect = "controls" /\ A
    /\ UNCHANGED <<aspect, deviceVars, loopVars, lockVars, enumeratorVars>>

WithExposure(A) ==
    /\ aspect = "exposure" /\ A
    /\ UNCHANGED <<aspect, deviceVars, controlVars, lockVars, enumeratorVars>>

WithLocks(A) ==
    /\ aspect = "locks" /\ A
    /\ UNCHANGED <<aspect, deviceVars, controlVars, loopVars, enumeratorVars>>

WithEnumerator(A) ==
    /\ aspect = "enumerator" /\ A
    /\ UNCHANGED <<aspect, deviceVars, controlVars, loopVars, lockVars>>

V4L2DeviceNext ==
    \/ WithBuffers(Next) \/ WithControls(ControlsNext)
    \/ WithExposure(LoopNext) \/ WithLocks(LockNext)
    \/ WithEnumerator(EnumeratorNext)

(* The driver completes the buffers it holds, and the event loop delivers  *)
(* the notifications of an armed notifier (EventDispatcherPoll runs for as *)
(* long as the pipeline handler's thread does).  Nothing has to happen to  *)
(* the controls and locks.  While a camera runs, frames with statistics    *)
(* follow each other.  enumerate() goes on once it was called, and the     *)
(* manager thread receives the events of every device.                     *)
V4L2DeviceSpec ==
    /\ V4L2DeviceInit /\ [][V4L2DeviceNext]_v4l2DeviceVars
    /\ \A s \in Slots : WF_v4l2DeviceVars(WithBuffers(Fill(s)))
    /\ \A b \in FrameBuffers :
         SF_v4l2DeviceVars(WithBuffers(BufferAvailable(b)))
    /\ WF_v4l2DeviceVars(WithExposure(Statistics))
    /\ WF_v4l2DeviceVars(WithEnumerator(EnableReceiving))
    /\ \A d \in UdevDevices :
         /\ WF_v4l2DeviceVars(WithEnumerator(ScanDevice(d)))
         /\ WF_v4l2DeviceVars(WithEnumerator(UdevNotify(d)))

-----------------------------------------------------------------------------
(* Automatic exposure of RkISP1 settles on a scene that does not change,   *)
(* at the best exposure that sensor and rounding allow, with a sensor that *)
(* takes up to MaxLatency frames to use new settings (Settles).            *)
ExposureSettles == aspect = "exposure" => Settles
=============================================================================
