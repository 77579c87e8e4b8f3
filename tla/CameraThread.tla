---------------------------- MODULE CameraThread ----------------------------
(***************************************************************************)
(* What lives in the thread of the camera manager: the list of cameras     *)
(* (CameraManager) and the queue of requests of a pipeline handler         *)
(* (PipelineHandler).  They share no state; part says which of the two a   *)
(* behaviour is about.                                                     *)
(***************************************************************************)
EXTENDS CameraManager, PipelineHandler

VARIABLE part

cameraThreadVars == <<part, managerVars, pipeVars>>

(* What a behaviour is not about has one initial state only.               *)
CameraThreadInit ==
    /\ part \in {"cameras", "requests"}
    /\ ManagerInit /\ Init
    /\ part = "requests" => plugged = {}

OfCameras(A) == part = "cameras" /\ A /\ UNCHANGED <<part, pipeVars>>

OfRequests(A) == part = "requests" /\ A /\ UNCHANGED <<part, managerVars>>

CameraThreadNext == OfCameras(ManagerNext) \/ OfRequests(Next)

(* A call that was begun goes on, and the manager thread runs: it comes    *)
(* back to its loop, handles, in their order, the removals that udev       *)
(* reports and the requests posted to it; the hardware returns its         *)
(* buffers.                                                                *)
CameraThreadSpec ==
    /\ CameraThreadInit /\ [][CameraThreadNext]_cameraThreadVars
    /\ WF_cameraThreadVars(OfCameras(StartNext))
    /\ WF_cameraThreadVars(OfCameras(Run))
    /\ \A d \in Devices : WF_cameraThreadVars(OfCameras(RemoveDevice(d)))
    /\ \A r \in Requests : WF_cameraThreadVars(OfRequests(Handle(r)))
    /\ \A b \in Buffers : WF_cameraThreadVars(OfRequests(BufferReady(b)))
=============================================================================
