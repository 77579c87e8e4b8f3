---------------------------- MODULE ClientCamera ----------------------------
(***************************************************************************)
(* The camera as the adaptation layers of src/gstreamer, src/v4l2 and      *)
(* src/android see it: what Camera (camera.cpp) and FrameBufferAllocator   *)
(* do for their one user, for a camera that is not unplugged.  The modules *)
(* CameraSession, PipelineHandler and Pipelines are about what is behind;  *)
(* here a call of the interface is one step, and the requests that come    *)
(* back do so in the order they were queued (RequestFifo).                 *)
(*                                                                         *)
(* Not all do.  Camera::queueRequest() returns before the pipeline handler *)
(* has the request.  One that the handler refuses is dropped without a     *)
(* word; one that the RkISP1 handler forgets, because it ignored that a    *)
(* buffer was not taken or because stop() found it in a timeline action,   *)
(* stays at the front of the handler's list and holds up all that follow,  *)
(* in every later session.                                                 *)
(***************************************************************************)
EXTENDS Naturals, Sequences, FiniteSets

VARIABLES
    cstate,     \* state_
    cqueue,     \* the requests with the pipeline handler that complete
    cjammed,    \* behind them is one that does not
    calloc      \* allocator_: "none", "new" (nothing allocated),
                \* "allocated", or "empty" where the allocation failed

cameraVars == <<cstate, cqueue, cjammed, calloc>>

CameraInit ==
    /\ cstate = "available" /\ calloc = "none"
    /\ cqueue = <<>> /\ cjammed = FALSE

(* isAccessAllowed() and the other conditions of each call                 *)
MayAcquire == cstate = "available"
MayRelease == cstate # "running" /\ calloc = "none"
MayConfigure ==
    cstate \in {"acquired", "configured"} /\ calloc \in {"none", "new"}
MayStart == cstate = "configured"
MayQueue == cstate = "running"

(* release(), which refuses a running camera and one with an allocator     *)
Release(s) == IF MayRelease THEN "available" ELSE s

(* PipelineHandler::queueRequest(): the request is kept and completes, or  *)
(* it is dropped, or it is forgotten with all that follow.                 *)
Enqueue(r, keep) ==
    /\ keep => ~cjammed
    /\ cqueue' = IF keep THEN Append(cqueue, r) ELSE cqueue
    /\ cjammed' \in IF keep THEN {cjammed} ELSE {cjammed, TRUE}

(* PipelineHandler::stop(): n requests complete as cancelled, all of them  *)
(* unless the handler forgets the others.                                  *)
Cancel(n) ==
    /\ n <= Len(cqueue)
    /\ cqueue' = <<>>
    /\ cjammed' = (cjammed \/ n < Len(cqueue))

(* stop(), which does nothing unless the camera is running                 *)
StopState == IF cstate = "running" THEN "configured" ELSE cstate
=============================================================================
