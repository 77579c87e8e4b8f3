----------------------------- MODULE V4L2Compat -----------------------------
(***************************************************************************)
(* The V4L2 compatibility layer (src/v4l2): V4L2CompatManager, which has   *)
(* the calls of a V4L2 application, V4L2CameraProxy, which answers the     *)
(* ioctls, and V4L2Camera, which uses the camera.  The application has one *)
(* thread and uses one camera; the completion handler runs in the camera   *)
(* manager's thread.                                                       *)
(*                                                                         *)
(* A buffer is its index.  A format is abstract: the size of its image is  *)
(* zero for a format that the layer's table does not have.                 *)
(***************************************************************************)
EXTENDS ClientCamera, SequencesExt

CONSTANTS
    Fds,            \* descriptors the process may get
    Counts,         \* buffer counts validate() may come to
    PixelFormats,   \* formats the application may set
    ImageSize,      \* imageSize() of each
    MaxCompleted    \* bound on buffers that are not dequeued

ASSUME V4L2Assumption == Counts \subseteq Nat /\ MaxCompleted \in Nat

VARIABLES
    opened,         \* descriptors that are not free: eventfds never are again
    devices,        \* devices_
    refcount,       \* refcount_
    nonBlocking,    \* nonBlocking_
    format,         \* curV4L2Format_
    sizeimage,      \* sizeimage_
    bufferCount,    \* bufferCount_
    buffers,        \* buffers_: the flags of each
    currentBuf,     \* currentBuf_
    isRunning,      \* isRunning_
    pendingReqs,    \* pendingRequests_
    completed,      \* completedBuffers_
    sema,           \* bufferSema_
    call,           \* "dqbuf" while the application waits in acquire(),
                    \* "streamon" while the requests that waited are queued
    ready,          \* history: buffers completed and not dequeued
    nextIndex,      \* history: the index a cyclic application queues next
    regular         \* history: the application keeps to that order and has
                    \* dequeued every buffer whenever it stopped, and the
                    \* camera has dropped no request

proxyVars == <<refcount, nonBlocking, format, sizeimage, bufferCount, buffers,
               currentBuf>>
vcamVars == <<isRunning, pendingReqs, completed, sema>>
history == <<ready, nextIndex, regular>>
v4l2Vars == <<opened, devices, proxyVars, vcamVars, call, history>>

V4L2Init ==
    /\ opened = {} /\ devices = {} /\ refcount = 0 /\ nonBlocking = FALSE
    /\ format \in PixelFormats /\ sizeimage = 0
    /\ bufferCount = 0 /\ buffers = <<>> /\ currentBuf = 0
    /\ isRunning = FALSE /\ pendingReqs = <<>> /\ completed = <<>> /\ sema = 0
    /\ call = "none" /\ ready = <<>> /\ nextIndex = 0 /\ regular = TRUE

-----------------------------------------------------------------------------
(***************************************************************************)
(* Descriptors.                                                            *)
(***************************************************************************)

(* openat(): the manager starts with the first; V4L2Camera::open() fails   *)
(* on a camera that is acquired.                                           *)
Openat(fd, nb) ==
    /\ call = "none" /\ fd \in Fds \ opened /\ MayAcquire
    /\ opened' = opened \cup {fd}
    /\ devices' = devices \cup {fd}
    /\ refcount' = refcount + 1
    /\ nonBlocking' = nb
    /\ sizeimage' = ImageSize[format]
    /\ cstate' = "acquired"
    /\ calloc' = "new"
    /\ UNCHANGED <<format, bufferCount, buffers, currentBuf, vcamVars,
                   call, history, cqueue, cjammed>>

Dup(fd, newfd) ==
    /\ call = "none" /\ fd \in devices /\ newfd \in Fds \ opened
    /\ opened' = opened \cup {newfd}
    /\ devices' = devices \cup {newfd}
    /\ refcount' = refcount + 1
    /\ UNCHANGED <<nonBlocking, format, sizeimage, bufferCount, buffers,
                   currentBuf, vcamVars, call, history, cameraVars>>

(* V4L2CompatManager::close(), which does not close the eventfd, and at    *)
(* the last reference V4L2Camera::close(): the buffers go, the camera is   *)
(* released unless it is running, and everything else stays.               *)
Close(fd) ==
    /\ call = "none" /\ fd \in devices
    /\ devices' = devices \ {fd}
    /\ refcount' = refcount - 1
    /\ IF refcount > 1 THEN UNCHANGED cameraVars
       ELSE /\ calloc' = "none"
            /\ cstate' = IF cstate = "running" THEN cstate ELSE "available"
            /\ UNCHANGED <<cqueue, cjammed>>
    /\ UNCHANGED <<opened, nonBlocking, format, sizeimage, bufferCount,
                   buffers, currentBuf, vcamVars, call, history>>

Calling == call = "none" /\ devices # {}

-----------------------------------------------------------------------------
(***************************************************************************)
(* Formats and buffers.                                                    *)
(***************************************************************************)

(* vidioc_s_fmt(): V4L2Camera::configure() may adjust the format and may   *)
(* fail; one with an image size of zero is refused once the camera is      *)
(* configured for it.                                                      *)
VidiocSFmt(f) ==
    /\ Calling /\ MayConfigure
    /\ cstate' = "configured"
    /\ IF ImageSize[f] = 0 THEN UNCHANGED <<sizeimage, format>>
       ELSE sizeimage' = ImageSize[f] /\ format' = f
    /\ UNCHANGED <<opened, devices, refcount, nonBlocking, bufferCount,
                   buffers, currentBuf, vcamVars, call, history,
                   cqueue, cjammed, calloc>>

(* freeBuffers(): streamOff(), which cancels what is queued, and           *)
(* FrameBufferAllocator::free().  Only the count is reset.                 *)
VidiocReqbufsZero(n) ==
    /\ Calling /\ Cancel(n)
    /\ cstate' = StopState
    /\ isRunning' = FALSE
    /\ calloc' = "new"
    /\ bufferCount' = 0
    /\ regular' = (/\ regular /\ cqueue = <<>>
                   /\ pendingReqs = <<>> /\ ready = <<>>)
    /\ UNCHANGED <<opened, devices, refcount, nonBlocking, format, sizeimage,
                   buffers, currentBuf, pendingReqs, completed, sema,
                   call, ready, nextIndex>>

(* vidioc_reqbufs(): V4L2Camera::configure(), of which the count of        *)
(* buffers comes out, then allocBuffers(); a failure leaves bufferCount_   *)
(* set.  currentBuf_ stays what it was, past the end of buffers_ perhaps.  *)
VidiocReqbufs(n, ok) ==
    /\ Calling /\ MayConfigure /\ n \in Counts
    /\ cstate' = "configured"
    /\ sizeimage' = ImageSize[format]
    /\ IF sizeimage' = 0
       THEN UNCHANGED <<bufferCount, buffers, calloc, nextIndex, regular>>
       ELSE /\ bufferCount' = n
            /\ calloc' = IF ok THEN "allocated" ELSE "empty"
            /\ buffers' = IF ok THEN [i \in 1 .. n |-> {}] ELSE buffers
            /\ nextIndex' = 0
            /\ regular' = (/\ regular /\ ok /\ currentBuf = 0
                           /\ pendingReqs = <<>> /\ ready = <<>>)
    /\ UNCHANGED <<opened, devices, refcount, nonBlocking, format, currentBuf,
                   vcamVars, call, ready, cqueue, cjammed>>

(* updateBuffers(): every completed buffer is marked done.  The index may  *)
(* be one of an earlier allocation, past the end of buffers_: what the     *)
(* write then hits is not modelled.                                        *)
UpdateBuffers ==
    /\ completed' = <<>>
    /\ buffers' = [b \in DOMAIN buffers |->
                      IF b - 1 \in Range(completed)
                      THEN buffers[b] \cup {"done"} ELSE buffers[b]]

VidiocQuerybuf ==
    /\ Calling /\ bufferCount > 0
    /\ UpdateBuffers
    /\ UNCHANGED <<opened, devices, refcount, nonBlocking, format, sizeimage,
                   bufferCount, currentBuf, isRunning, pendingReqs,
                   sema, call, history, cameraVars>>

(* vidioc_qbuf() and V4L2Camera::qbuf(): the request waits while the       *)
(* camera is not streaming.  The same buffer may be queued twice.  After a *)
(* failed allocation, or in a descriptor opened again, there is no buffer  *)
(* at the index: what is read then is not modelled.                        *)
VidiocQbuf(i, keep) ==
    /\ Calling /\ i < bufferCount
    /\ cstate \in {"configured", "running"} /\ calloc = "allocated"
    /\ Len(pendingReqs) + Len(cqueue) + Len(ready) < MaxCompleted
    /\ IF isRunning
       THEN Enqueue(i, keep) /\ UNCHANGED pendingReqs
       ELSE /\ keep
            /\ pendingReqs' = Append(pendingReqs, i)
            /\ UNCHANGED <<cqueue, cjammed>>
    /\ regular' = (regular /\ i = nextIndex /\ keep)
    /\ nextIndex' = (i + 1) % bufferCount
    /\ UNCHANGED <<opened, devices, proxyVars, isRunning, completed, sema,
                   call, ready, cstate, calloc>>

(* vidioc_dqbuf(): without O_NONBLOCK the semaphore is acquired; with it,  *)
(* -EAGAIN when that would block, and when it would not, the semaphore is  *)
(* taken by tryAcquire() and then once more by acquire().                  *)
VidiocDqbuf ==
    /\ Calling /\ bufferCount > 0
    /\ nonBlocking => sema > 0
    /\ sema' = IF nonBlocking THEN sema - 1 ELSE sema
    /\ call' = "dqbuf"
    /\ UNCHANGED <<opened, devices, proxyVars, isRunning, pendingReqs,
                   completed, history, cameraVars>>

(* The rest of it, once acquire() returns.  The buffer is the one after    *)
(* the last, whatever the camera completed.                                *)
DqbufReturns ==
    /\ call = "dqbuf" /\ sema > 0
    /\ sema' = sema - 1
    /\ UpdateBuffers
    /\ currentBuf' = (currentBuf + 1) % bufferCount
    /\ call' = "none"
    /\ ready' = IF ready # <<>> THEN Tail(ready) ELSE ready
    /\ UNCHANGED <<opened, devices, refcount, nonBlocking, format, sizeimage,
                   bufferCount, isRunning, pendingReqs, nextIndex,
                   regular, cameraVars>>

-----------------------------------------------------------------------------
(***************************************************************************)
(* Streaming.                                                              *)
(***************************************************************************)

(* V4L2Camera::streamOn(): the camera is started,                          *)
VidiocStreamon ==
    /\ Calling /\ ~isRunning /\ MayStart
    /\ cstate' = "running"
    /\ isRunning' = TRUE
    /\ call' = IF pendingReqs = <<>> THEN call ELSE "streamon"
    /\ UNCHANGED <<opened, devices, proxyVars, pendingReqs, completed, sema,
                   history, cqueue, cjammed, calloc>>

(* Mistake: the last request that was made is queued first.                *)
LastFirst == Last(pendingReqs)

FirstFirst == Head(pendingReqs)

(* then the requests that waited are queued, one by one.  On a camera that *)
(* was stopped with requests and not allocated anew since, the capture     *)
(* device has no cache entry left for a buffer it had, and the pipeline    *)
(* handler drops the request.                                              *)
StreamonQueues(keep) ==
    /\ call = "streamon" /\ pendingReqs # <<>>
    /\ Enqueue(FirstFirst, keep)
    /\ pendingReqs' = Tail(pendingReqs)
    /\ call' = IF Len(pendingReqs) = 1 THEN "none" ELSE call
    /\ regular' = (regular /\ keep)
    /\ UNCHANGED <<opened, devices, proxyVars, isRunning, completed, sema,
                   ready, nextIndex, cstate, calloc>>

(* vidioc_streamoff() clears the flags; completedBuffers_, the semaphore   *)
(* and currentBuf_ stay.                                                   *)
VidiocStreamoff(n) ==
    /\ Calling /\ Cancel(n)
    /\ cstate' = StopState
    /\ isRunning' = FALSE
    /\ buffers' = [b \in DOMAIN buffers |-> buffers[b] \ {"queued", "done"}]
    /\ regular' = (regular /\ cqueue = <<>> /\ ready = <<>>)
    /\ UNCHANGED <<opened, devices, refcount, nonBlocking, format, sizeimage,
                   bufferCount, currentBuf, pendingReqs, completed,
                   sema, call, ready, nextIndex, calloc>>

(* Mistake: the semaphore is released for the first buffer of a batch.     *)
ReleaseOnce == IF completed = <<>> THEN sema + 1 ELSE sema

ReleaseSema == sema + 1

(* V4L2Camera::requestComplete(), for a request that is not cancelled      *)
RequestComplete ==
    /\ cqueue # <<>>
    /\ cqueue' = Tail(cqueue)
    /\ completed' = Append(completed, Head(cqueue))
    /\ sema' = ReleaseSema
    /\ ready' = Append(ready, Head(cqueue))
    /\ UNCHANGED <<opened, devices, proxyVars, isRunning, pendingReqs, call,
                   nextIndex, regular, cstate, cjammed, calloc>>

V4L2Next ==
    \/ \E fd \in Fds : \/ \E nb \in BOOLEAN : Openat(fd, nb)
                       \/ \E newfd \in Fds : Dup(fd, newfd)
                       \/ Close(fd)
    \/ \E n \in Counts : \E ok \in BOOLEAN : VidiocReqbufs(n, ok)
    \/ \E f \in PixelFormats : VidiocSFmt(f)
    \/ \E keep \in BOOLEAN :
         \/ \E i \in 0 .. MaxCompleted : VidiocQbuf(i, keep)
         \/ StreamonQueues(keep)
    \/ \E n \in 0 .. Len(cqueue) : VidiocReqbufsZero(n) \/ VidiocStreamoff(n)
    \/ VidiocQuerybuf \/ VidiocDqbuf \/ DqbufReturns
    \/ VidiocStreamon \/ RequestComplete

-----------------------------------------------------------------------------
(***************************************************************************)
(* Properties.                                                             *)
(***************************************************************************)

(* A blocking application that queues its buffers in the order of their    *)
(* indices, and stops only when it has dequeued them all, gets from        *)
(* VIDIOC_DQBUF the buffer that completed first, although the proxy does   *)
(* not look which one did: the next buffer in turn is the oldest that      *)
(* completed, and the semaphore counts those.  Once the camera has dropped *)
(* a request the proxy hands out its buffer in place of the next.          *)
DequeuesOldest ==
    regular /\ ~nonBlocking =>
        /\ sema = Len(ready)
        /\ \A i \in DOMAIN ready : ready[i] = (currentBuf + i - 1) % bufferCount

(* A call that waits in VIDIOC_DQBUF returns if a buffer is done or with   *)
(* the camera in a request that completes.  If the camera has dropped all  *)
(* there were, as it may after VIDIOC_STREAMOFF with buffers queued and    *)
(* VIDIOC_STREAMON, the call waits for ever.                               *)
DequeueAsked == call = "dqbuf" /\ (sema > 0 \/ cqueue # <<>>)
DequeueEnded == call = "none"
=============================================================================
