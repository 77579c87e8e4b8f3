-------------------------- MODULE PipelineHandler --------------------------
(***************************************************************************)
(* The life of a capture request inside one camera: Request (request.cpp)  *)
(* and the request queue kept by the PipelineHandler base class            *)
(* (pipeline_handler.cpp).  The application creates a request, adds one    *)
(* buffer per stream, and Camera::queueRequest() posts it to the camera    *)
(* manager thread.  There queueRequest() appends it to queuedRequests_ and *)
(* queueRequestDevice() hands its buffers to the video devices, which may  *)
(* accept only some of them.  Buffers come back in any order; requests go  *)
(* back to the application in submission order and are then deleted.       *)
(*                                                                         *)
(* The hardware is abstracted to `device`, the set of buffers it holds.    *)
(* Everything but the application's calls runs in the manager thread, so a *)
(* handler is one step.                                                    *)
(***************************************************************************)
EXTENDS Naturals, Sequences

CONSTANTS
    Requests,
    Buffers,
    StreamOf,     \* the stream each buffer is meant for
    NoRequest

ASSUME RequestAssumption == NoRequest \notin Requests

VARIABLES
    stage,            \* who holds the request: "app", "posted" or "camera"
    status,           \* status_, "None" when the request does not exist
    cancelled,        \* cancelled_
    pending,          \* pending_
    requestOf,        \* FrameBuffer::request_
    queuedRequests,   \* CameraData::queuedRequests_
    device            \* buffers the video devices hold

requestVars == <<stage, status, cancelled, pending, requestOf>>
pipeVars == <<requestVars, queuedRequests, device>>

Queue == {queuedRequests[i] : i \in 1 .. Len(queuedRequests)}

TypeOK ==
    /\ stage \in [Requests -> {"app", "posted", "camera"}]
    /\ status \in [Requests -> {"None", "Pending", "Complete", "Cancelled"}]
    /\ cancelled \in [Requests -> BOOLEAN]
    /\ pending \in [Requests -> SUBSET Buffers]
    /\ requestOf \in [Buffers -> Requests \cup {NoRequest}]
    /\ queuedRequests \in Seq(Requests)
    /\ device \in SUBSET Buffers

Init ==
    /\ stage = [r \in Requests |-> "app"]
    /\ status = [r \in Requests |-> "None"]
    /\ cancelled = [r \in Requests |-> FALSE]
    /\ pending = [r \in Requests |-> {}]
    /\ requestOf = [b \in Buffers |-> NoRequest]
    /\ queuedRequests = <<>>
    /\ device = {}

-----------------------------------------------------------------------------
(***************************************************************************)
(* The application side.                                                   *)
(***************************************************************************)

(* Camera::createRequest()                                                 *)
CreateRequest(r) ==
    /\ status[r] = "None"
    /\ status' = [status EXCEPT ![r] = "Pending"]
    /\ cancelled' = [cancelled EXCEPT ![r] = FALSE]
    /\ pending' = [pending EXCEPT ![r] = {}]
    /\ UNCHANGED <<stage, requestOf, queuedRequests, device>>

(* Request::addBuffer().  The application keeps its part of the contract:  *)
(* a buffer is in no other request that has not completed.                 *)
AddBuffer(r, b) ==
    /\ stage[r] = "app" /\ status[r] = "Pending"
    /\ \A c \in pending[r] : StreamOf[c] # StreamOf[b]
    /\ \A q \in Requests : b \notin pending[q]
    /\ requestOf' = [requestOf EXCEPT ![b] = r]
    /\ pending' = [pending EXCEPT ![r] = @ \cup {b}]
    /\ UNCHANGED <<stage, status, cancelled, queuedRequests, device>>

(* The application deletes a request it never queued.  The buffers keep    *)
(* their pointer to it.                                                    *)
DeleteRequest(r) ==
    /\ stage[r] = "app" /\ status[r] = "Pending"
    /\ status' = [status EXCEPT ![r] = "None"]
    /\ pending' = [pending EXCEPT ![r] = {}]
    /\ UNCHANGED <<stage, cancelled, requestOf, queuedRequests, device>>

(* Camera::queueRequest() posts the request; the camera owns it from now.  *)
PostRequest(r) ==
    /\ stage[r] = "app" /\ status[r] = "Pending"
    /\ pending[r] # {}
    /\ stage' = [stage EXCEPT ![r] = "posted"]
    /\ UNCHANGED <<status, cancelled, pending, requestOf, queuedRequests,
                   device>>

-----------------------------------------------------------------------------
(***************************************************************************)
(* The pipeline handler.                                                   *)
(***************************************************************************)

(* Mistake: the request stays on the list when a buffer is refused.        *)
QueueRequestAnyway(r, accepted) ==
    /\ stage[r] = "posted"
    /\ accepted \subseteq pending[r]
    /\ stage' = [stage EXCEPT ![r] = "camera"]
    /\ queuedRequests' = Append(queuedRequests, r)
    /\ device' = device \cup accepted
    /\ UNCHANGED <<status, cancelled, pending, requestOf>>

(* queueRequest(): the devices accept the buffers in `accepted`.  When one *)
(* is refused queueRequestDevice() reports the error and the request is    *)
(* taken off the list again, but what was accepted stays in the hardware   *)
(* and nobody is told.                                                     *)
QueueRequest(r, accepted) ==
    /\ stage[r] = "posted"
    /\ accepted \subseteq pending[r]
    /\ stage' = [stage EXCEPT ![r] = "camera"]
    /\ queuedRequests' = IF accepted = pending[r]
                           THEN Append(queuedRequests, r)
                           ELSE queuedRequests
    /\ device' = device \cup accepted
    /\ UNCHANGED <<status, cancelled, pending, requestOf>>

(* Mistakes: only one request is popped, or all of them are.               *)
PopOne(st, n) ==
    n = IF queuedRequests # <<>> /\ st[Head(queuedRequests)] # "Pending"
          THEN 1 ELSE 0

PopAll(st, n) == n = Len(queuedRequests)

(* The requests at the front of the queue that are no longer pending, the  *)
(* ones the loop of completeRequest() pops: the first n, for status st.    *)
PopCount(st, n) ==
    /\ n \in 0 .. Len(queuedRequests)
    /\ \A i \in 1 .. n : st[queuedRequests[i]] # "Pending"
    /\ n < Len(queuedRequests) => st[queuedRequests[n + 1]] = "Pending"

Popped(n) == {queuedRequests[i] : i \in 1 .. n}

(* Request::completeBuffer() for the buffers in S, then completeRequest()  *)
(* for the requests that have none left.  Request::complete() sets their   *)
(* status; the requests popped are returned through requestCompleted and   *)
(* deleted by Camera::requestComplete().                                   *)
Touched(r, S) == \E b \in S : requestOf[b] = r

StatusOf(wasCancelled) == IF wasCancelled THEN "Cancelled" ELSE "Complete"

CompleteBuffers(S, isCancelled) ==
    LET left == [r \in Requests |-> pending[r] \ S]
        canc == [r \in Requests |->
                    cancelled[r] \/ (isCancelled /\ Touched(r, S))]
        st == [r \in Requests |->
                    IF Touched(r, S) /\ left[r] = {}
                      THEN StatusOf(canc[r])
                      ELSE status[r]]
    IN  \E n \in 0 .. Len(queuedRequests) :
          /\ PopCount(st, n)
          /\ pending' = left
          /\ cancelled' = [r \in Requests |-> r \notin Popped(n) /\ canc[r]]
          /\ requestOf' = [b \in Buffers |->
                              IF b \in S THEN NoRequest ELSE requestOf[b]]
          /\ status' = [r \in Requests |->
                              IF r \in Popped(n) THEN "None" ELSE st[r]]
          /\ stage' = [r \in Requests |->
                              IF r \in Popped(n) THEN "app" ELSE stage[r]]
          /\ queuedRequests' = SubSeq(queuedRequests, n + 1,
                                      Len(queuedRequests))

(* A video device returns a buffer: the bufferReady slots of the pipeline  *)
(* handlers.                                                               *)
BufferReady(b) ==
    /\ b \in device
    /\ CompleteBuffers({b}, FALSE)
    /\ device' = device \ {b}

(* stop(): the video devices return every buffer they hold as cancelled.   *)
(* Each one completes as above; the queue left at the end is the same in   *)
(* whatever order the devices return them.                                 *)
Stop ==
    \/ device = {} /\ UNCHANGED pipeVars
    \/ /\ device # {}
       /\ CompleteBuffers(device, TRUE)
       /\ device' = {}

(* The manager thread handles the message of a request that was posted.    *)
Handle(r) == \E S \in SUBSET pending[r] : QueueRequest(r, S)

Next ==
    \/ \E r \in Requests :
        \/ CreateRequest(r)
        \/ \E b \in Buffers : AddBuffer(r, b)
        \/ DeleteRequest(r)
        \/ PostRequest(r)
        \/ Handle(r)
    \/ \E b \in Buffers : BufferReady(b)
    \/ Stop

Spec == Init /\ [][Next]_pipeVars

-----------------------------------------------------------------------------
(***************************************************************************)
(* Properties.                                                             *)
(***************************************************************************)

(* A buffer the hardware may still write to belongs to a request that      *)
(* exists and waits for it: bufferReady never follows a dangling           *)
(* FrameBuffer::request_, and the ASSERT of Request::completeBuffer()      *)
(* (the buffer is in pending_) cannot fail.                                *)
DeviceBuffersOwned ==
    \A b \in device :
        /\ requestOf[b] \in Requests
        /\ stage[requestOf[b]] = "camera"
        /\ status[requestOf[b]] = "Pending"
        /\ b \in pending[requestOf[b]]

(* A queued request that still waits for a buffer has that buffer in the   *)
(* hardware, and one that waits for none is marked as finished: nothing in *)
(* the queue waits for a completion that cannot come.                      *)
QueuedRequestsAdvance ==
    \A r \in Queue :
        /\ pending[r] \subseteq device
        /\ (pending[r] = {}) <=> (status[r] # "Pending")

(* The queue of requests implements RequestFifo: in-order return of the    *)
(* requests the hardware is done with, and of all of them.                 *)
Busy == {r \in Queue : pending[r] # {}}

Fifo == INSTANCE RequestFifo WITH queue <- queuedRequests, busy <- Busy

ImplementsFifo == Fifo!Spec

(* A request in the queue is eventually returned to the application.       *)
QueuedRequestsComplete ==
    \A r \in Requests : (r \in Queue) ~> (r \notin Queue)
=============================================================================
