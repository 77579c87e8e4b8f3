-------------------------- MODULE GstLibcameraSrc --------------------------
(***************************************************************************)
(* libcamerasrc, the GStreamer element (src/gstreamer): the streaming      *)
(* task, the completion handler that runs in the camera manager's thread,  *)
(* the state changes of the application and the pool and allocator whose   *)
(* buffers travel between the camera and the elements downstream.  There   *)
(* is one pad: the template for more is never instantiated.                *)
(*                                                                         *)
(* GstTask and the pads are external.  A task that is paused or started    *)
(* without a thread gets one, which runs the enter callback, then the task *)
(* function for as long as the state is "started", and the leave callback  *)
(* once the loop finds "stopped"; a state set while the thread runs is     *)
(* simply what the loop finds next, so that pausing a task that is being   *)
(* joined revives it.  A push blocks while downstream holds Hold buffers.  *)
(*                                                                         *)
(* A frame is a FrameWrap, also the name of the request it is queued with. *)
(* The pool has GstBuffers, which are alike: it is a number of them.  What *)
(* is left of an earlier camera, when the element was closed and opened    *)
(* again, goes back to an allocator and a pool that are gone: it is        *)
(* counted, and comes before the rest in its queue.                        *)
(***************************************************************************)
EXTENDS ClientCamera, SequencesExt

CONSTANTS
    NumFrames,      \* buffers the allocator gets for the stream
    Hold,           \* buffers downstream may hold at a time
    MaxKeep,        \* times downstream keeps a buffer's memory
    MaxSessions,    \* bound on READY to PAUSED transitions
    MaxStrays       \* bound on the wraps of requests that do not complete
                    \* from which on the camera drops no more

ASSUME GstAssumption == NumFrames \in Nat \ {0} /\ Hold \in Nat \ {0}

VARIABLES
    gstate,         \* state of the element
    gcall,          \* the rest of a PAUSED to READY transition
    sessions,       \* READY to PAUSED transitions so far
    task,           \* GST_TASK_STATE
    thread,         \* where the streaming thread is
    olock,          \* the object lock: "free", "task" or "stuck"
    flushing,       \* the pad is not active
    flow,           \* ret of task_run(): what the push returned
    pool,           \* GstBuffers in the queue of the pad's pool
    frames,         \* FrameWraps in the allocator's pool
    pooled,         \* the pad has a pool
    total,          \* the frames it was made with
    own,            \* frame of the request that is being made, 0 for none
    requests,       \* requests: a RequestWrap for each
    pending,        \* pending_buffers of the pad
    down,           \* frames downstream has
    kept,           \* frames whose GstBuffer came back without its memory
    keeps,          \* how often that happened
    lost,           \* history: GstBuffers that left the pool for good
    old,            \* wraps, pending buffers and buffers downstream that
                    \* are left of an earlier camera
    strays,         \* history: wraps of requests that do not complete
    raced           \* history: the last request completed while the run of
                    \* the task that queued it had its push to do and
                    \* nothing else to push

bufferVars == <<pool, frames, pooled, total, own, requests, pending, down,
                kept, keeps, lost, old, strays, raced>>
gstVars == <<gstate, gcall, sessions, task, thread, olock, flushing, flow,
             bufferVars>>

Frames == 1 .. NumFrames

GstInit ==
    /\ gstate = "null" /\ gcall = "none" /\ sessions = 0
    /\ task = "stopped" /\ thread = "none" /\ olock = "free"
    /\ flushing = TRUE /\ flow = "ok"
    /\ pool = 0 /\ frames = <<>> /\ own = 0
    /\ pooled = FALSE /\ total = 0
    /\ requests = <<>> /\ pending = <<>>
    /\ down = {} /\ kept = {} /\ keeps = 0 /\ lost = 0
    /\ old = [wraps |-> 0, pending |-> 0, down |-> 0]
    /\ strays = 0 /\ raced = FALSE

-----------------------------------------------------------------------------
(***************************************************************************)
(* Buffers.                                                                *)
(***************************************************************************)

Held(reqs, pend, dn, kp) == Range(reqs) \cup Range(pend) \cup dn \cup kp

(* gst_libcamera_pool_reset_buffer(), gst_libcamera_allocator_release()    *)
(* and gst_libcamera_pool_release_buffer(): the memory of the frames in s  *)
(* goes back to the allocator and n GstBuffers to their pool.              *)
GiveBack(s, n) ==
    /\ frames' = IF pooled THEN frames \o s ELSE frames
    /\ pool' = IF pooled THEN pool + n ELSE pool

(* The allocator goes with its last reference, which is the pool of the    *)
(* pad or, once that is gone, a memory that is not back.                   *)
DropAllocator(left) ==
    calloc' = IF ~pooled' /\ left = {} THEN "none" ELSE calloc

Back(s, n) ==
    /\ GiveBack(s, n)
    /\ UNCHANGED <<pooled, total>>
    /\ DropAllocator(Held(requests', pending', down', kept'))

(* Downstream unrefs a buffer; it may keep the memory (a sub-buffer).      *)
ReleaseDown(f, keep) ==
    /\ f \in down
    /\ down' = down \ {f}
    /\ keep => keeps < MaxKeep
    /\ keeps' = IF keep THEN keeps + 1 ELSE keeps
    /\ kept' = IF keep THEN kept \cup {f} ELSE kept
    /\ UNCHANGED <<requests, pending>>
    /\ Back(IF keep THEN <<>> ELSE <<f>>, 1)
    /\ UNCHANGED <<gstate, gcall, sessions, task, thread, olock, flushing,
                   flow, own, lost, old, strays, raced, cstate, cqueue,
                   cjammed>>

ReleaseMemory(f) ==
    /\ f \in kept
    /\ kept' = kept \ {f}
    /\ UNCHANGED <<requests, pending, down>>
    /\ Back(<<f>>, 0)
    /\ UNCHANGED <<gstate, gcall, sessions, task, thread, olock, flushing,
                   flow, own, keeps, lost, old, strays, raced, cstate,
                   cqueue, cjammed>>

ReleaseOld ==
    /\ old.down > 0
    /\ old' = [old EXCEPT !.down = @ - 1]
    /\ UNCHANGED <<gstate, gcall, sessions, task, thread, olock, flushing,
                   flow, pool, frames, pooled, total, own, requests, pending,
                   down, kept, keeps, lost, strays, raced, cameraVars>>

-----------------------------------------------------------------------------
(***************************************************************************)
(* The state changes, in the application's thread.                         *)
(***************************************************************************)

(* gst_libcamera_src_open(): a manager that does not start and a camera    *)
(* that is not there or in use leave the element in NULL.  The manager is  *)
(* new, and so is the camera: one that is still acquired, since a frame of *)
(* it is not back, is not the one that is opened.                          *)
NullToReady ==
    /\ gstate = "null" /\ sessions < MaxSessions
    /\ gstate' = "ready"
    /\ cstate' = "acquired" /\ calloc' = "none"
    /\ cqueue' = <<>> /\ cjammed' = FALSE
    /\ old' = [wraps |-> old.wraps + Len(requests),
               pending |-> old.pending + Len(pending),
               down |-> old.down + Cardinality(down)]
    /\ requests' = <<>> /\ pending' = <<>> /\ down' = {} /\ kept' = {}
    /\ UNCHANGED <<gcall, sessions, task, thread, olock, flushing, flow, pool,
                   frames, pooled, total, own, keeps, lost, strays, raced>>

(* The state of the task changes; a task without a thread gets one.        *)
SetTask(s) ==
    /\ task' = s
    /\ thread' = IF task = "stopped" /\ thread = "none" THEN "enter"
                 ELSE thread

ReadyToPaused ==
    /\ gstate = "ready" /\ sessions < MaxSessions
    /\ gstate' = "paused"
    /\ sessions' = sessions + 1
    /\ flushing' = FALSE
    /\ SetTask("paused")
    /\ UNCHANGED <<gcall, olock, flow, bufferVars, cameraVars>>

PausedToPlaying ==
    /\ gstate = "paused" /\ gcall = "none"
    /\ gstate' = "playing"
    /\ SetTask("started")
    /\ UNCHANGED <<gcall, sessions, olock, flushing, flow, bufferVars,
                   cameraVars>>

PlayingToPaused ==
    /\ gstate = "playing"
    /\ gstate' = "paused"
    /\ UNCHANGED <<gcall, sessions, task, thread, olock, flushing, flow,
                   bufferVars, cameraVars>>

(* The parent class deactivates the pad,                                   *)
PausedToReady ==
    /\ gstate = "paused" /\ gcall = "none"
    /\ gcall' = "join"
    /\ flushing' = TRUE
    /\ UNCHANGED <<gstate, sessions, task, thread, olock, flow, bufferVars,
                   cameraVars>>

(* and gst_task_join() stops the task once                                 *)
JoinStops ==
    /\ gcall = "join"
    /\ task' = "stopped"
    /\ gcall' = "joining"
    /\ UNCHANGED <<gstate, sessions, thread, olock, flushing, flow,
                   bufferVars, cameraVars>>

(* and waits for its thread.                                               *)
JoinReturns ==
    /\ gcall = "joining" /\ thread = "none"
    /\ gcall' = "none"
    /\ gstate' = "ready"
    /\ UNCHANGED <<sessions, task, thread, olock, flushing, flow, bufferVars,
                   cameraVars>>

(* gst_libcamera_src_close(); a refused release is only a warning.         *)
ReadyToNull ==
    /\ gstate = "ready"
    /\ gstate' = "null"
    /\ cstate' = Release(cstate)
    /\ UNCHANGED <<gcall, sessions, task, thread, olock, flushing, flow,
                   bufferVars, cqueue, cjammed, calloc>>

-----------------------------------------------------------------------------
(***************************************************************************)
(* The streaming thread.                                                   *)
(***************************************************************************)

(* gst_libcamera_src_task_enter(), up to the pools.  No common format, an  *)
(* invalid configuration, a refused Camera::configure() and an allocator   *)
(* without buffers stop the task; so does, at the end, a caps event that   *)
(* downstream refuses.  An allocation that fails is not noticed and leaves *)
(* an empty pool, one of zero buffers leaks the allocator.                 *)
EnterStops ==
    /\ thread = "enter"
    /\ \/ UNCHANGED <<cstate, calloc>>
       \/ MayConfigure /\ cstate' = "configured" /\ calloc' = "empty"
    /\ task' = "stopped"
    /\ thread' = "loop"
    /\ UNCHANGED <<gstate, gcall, sessions, olock, flushing, flow, bufferVars,
                   cqueue, cjammed>>

EnterSetsUp(n) ==
    /\ thread = "enter" /\ MayConfigure
    /\ cstate' = "configured"
    /\ calloc' = IF n = 0 THEN "empty" ELSE "allocated"
    /\ pooled' = TRUE /\ total' = n
    /\ frames' = [i \in 1 .. n |-> i]
    /\ pool' = n
    /\ thread' = "start"
    /\ UNCHANGED <<gstate, gcall, sessions, task, olock, flushing, flow, own,
                   requests, pending, down, kept, keeps, lost, old, strays,
                   raced, cqueue, cjammed>>

(* Camera::start() and the switch at the end                               *)
EnterStarts(ok, refused) ==
    /\ thread = "start"
    /\ cstate' = IF ok THEN "running" ELSE cstate
    /\ task' = IF ok /\ ~refused THEN task ELSE "stopped"
    /\ thread' = "loop"
    /\ UNCHANGED <<gstate, gcall, sessions, olock, flushing, flow, bufferVars,
                   cqueue, cjammed, calloc>>

(* The loop of the task: it waits while the state is "paused".             *)
TaskLoop ==
    /\ thread = "loop" /\ task # "paused"
    /\ thread' = IF task = "started" THEN "acquire" ELSE "leave"
    /\ UNCHANGED <<gstate, gcall, sessions, task, olock, flushing, flow,
                   bufferVars, cameraVars>>

(* gst_libcamera_src_task_run(): gst_libcamera_pool_acquire_buffer() takes *)
(* a GstBuffer and, in gst_libcamera_allocator_prepare_buffer(), a frame   *)
(* for it.  Without a frame the GstBuffer is not put back.                 *)
TaskAcquire ==
    /\ thread = "acquire"
    /\ LET got == pool > 0 /\ frames # <<>> IN
       /\ own' = IF got THEN Head(frames) ELSE 0
       /\ frames' = IF got THEN Tail(frames) ELSE frames
       /\ pool' = IF pool > 0 THEN pool - 1 ELSE pool
       /\ lost' = IF pool > 0 /\ ~got THEN lost + 1 ELSE lost
       /\ thread' = IF got THEN "queue" ELSE "push"
    /\ UNCHANGED <<gstate, gcall, sessions, task, olock, flushing, flow, pooled,
                   total, requests, pending, down, kept, keeps, old, strays,
                   raced, cameraVars>>

(* Camera::queueRequest(), of which the result is ignored; what becomes of *)
(* a request the camera did not refuse is not known yet.                   *)
QueueRequest ==
    \/ MayQueue /\ Enqueue(own, TRUE) /\ UNCHANGED strays
    \/ /\ MayQueue /\ strays < MaxStrays
       /\ Enqueue(own, FALSE)
       /\ strays' = strays + 1
    \/ ~MayQueue /\ strays' = strays + 1 /\ UNCHANGED <<cqueue, cjammed>>

(* Mistake: the request is queued before the object lock is taken.         *)
TaskQueueRequestUnlocked ==
    /\ thread = "queue" /\ olock = "free"
    /\ QueueRequest
    /\ thread' = "wrap"
    /\ UNCHANGED <<gstate, gcall, sessions, task, olock, flushing, flow, pool,
                   frames, pooled, total, own, requests, pending, down, kept,
                   keeps, lost, old, raced, cstate, calloc>>

(* The request is queued under the object lock,                            *)
TaskQueueRequest ==
    /\ thread = "queue" /\ olock = "free"
    /\ olock' = "task"
    /\ QueueRequest
    /\ thread' = "wrap"
    /\ UNCHANGED <<gstate, gcall, sessions, task, flushing, flow, pool, frames,
                   pooled, total, own, requests, pending, down, kept, keeps,
                   lost, old, raced, cstate, calloc>>

(* then the wrap is pushed.                                                *)
TaskPushWrap ==
    /\ thread = "wrap"
    /\ requests' = Append(requests, own)
    /\ own' = 0
    /\ olock' = "free"
    /\ thread' = "push"
    /\ UNCHANGED <<gstate, gcall, sessions, task, flushing, flow, pool, frames,
                   pooled, total, pending, down, kept, keeps, lost, old, strays,
                   raced, cameraVars>>

(* gst_libcamera_pad_push_pending() and the flow combiner, which is absent *)
(* when the task runs after a set up that failed: an error.  A buffer that *)
(* downstream does not take is unreffed.                                   *)
Combined(ret) == IF pooled THEN ret ELSE "error"

Pending == old.pending > 0 \/ pending # <<>>

Room == ~flushing /\ Cardinality(down) + old.down < Hold

TaskPush ==
    /\ thread = "push" /\ old.pending = 0
    /\ thread' = "decide"
    /\ pending' = IF pending = <<>> THEN <<>> ELSE Tail(pending)
    /\ UNCHANGED <<requests, kept>>
    /\ \/ /\ pending = <<>>
          /\ flow' = Combined("ok")
          /\ UNCHANGED <<down, frames, pool, pooled, total, calloc>>
       \/ /\ pending # <<>> /\ Room
          /\ flow' = Combined("ok")
          /\ down' = down \cup {Head(pending)}
          /\ UNCHANGED <<frames, pool, pooled, total, calloc>>
       \/ /\ pending # <<>>
          /\ \E ret \in IF flushing THEN {"flushing"} ELSE {"eos", "error"} :
                flow' = Combined(ret)
          /\ UNCHANGED down
          /\ Back(<<Head(pending)>>, 1)
    /\ UNCHANGED <<gstate, gcall, sessions, task, olock, flushing, own, keeps,
                   lost, old, strays, raced, cstate, cqueue, cjammed>>

(* The same for a buffer of an earlier camera.                             *)
TaskPushOld ==
    /\ thread = "push" /\ old.pending > 0
    /\ thread' = "decide"
    /\ \/ /\ Room
          /\ flow' = Combined("ok")
          /\ old' = [old EXCEPT !.pending = @ - 1, !.down = @ + 1]
       \/ /\ \E ret \in IF flushing THEN {"flushing"} ELSE {"eos", "error"} :
                flow' = Combined(ret)
          /\ old' = [old EXCEPT !.pending = @ - 1]
    /\ UNCHANGED <<gstate, gcall, sessions, task, olock, flushing, pool,
                   frames, pooled, total, own, requests, pending, down, kept,
                   keeps, lost, strays, raced, cameraVars>>

(* The decision, under the object lock.  GST_ELEMENT_FLOW_ERROR posts a    *)
(* message, for which GStreamer takes the object lock again: the thread    *)
(* waits for itself.                                                       *)
TaskDecide ==
    /\ thread = "decide" /\ olock = "free"
    /\ IF flow = "error"
       THEN olock' = "stuck" /\ UNCHANGED <<task, thread>>
       ELSE /\ thread' = "loop"
            /\ task' = IF flow # "ok" THEN "stopped"
                       ELSE IF ~Pending THEN "paused" ELSE task
            /\ UNCHANGED olock
    /\ flow' = "ok"
    /\ UNCHANGED <<gstate, gcall, sessions, flushing, bufferVars, cameraVars>>

(* What is left of n after m were taken away                               *)
Left(n, m) == IF n > m THEN n - m ELSE 0

(* gst_libcamera_src_task_leave(): Camera::stop() has requests that are    *)
(* left completed as cancelled, which drops a wrap for each; the pad keeps *)
(* its pending buffers.                                                    *)
TaskLeave(n) ==
    /\ thread = "leave" /\ Cancel(n)
    /\ n < Len(cqueue) => strays < MaxStrays
    /\ thread' = "none"
    /\ cstate' = StopState
    /\ old' = [old EXCEPT !.wraps = Left(@, n)]
    /\ requests' = SubSeq(requests, Left(n, old.wraps) + 1, Len(requests))
    /\ strays' = strays + Len(cqueue) - n
    /\ pooled' = FALSE /\ total' = 0
    /\ frames' = <<>> /\ pool' = 0 /\ lost' = 0 /\ raced' = FALSE
    /\ UNCHANGED <<pending, down, kept>>
    /\ IF ~pooled THEN UNCHANGED calloc
       ELSE DropAllocator(Held(requests', pending, down, kept))
    /\ UNCHANGED <<gstate, gcall, sessions, task, olock, flushing, flow, own,
                   keeps>>

(* Mistake: the task is resumed for a frame of the first request only.     *)
ResumeFirst == IF task = "paused" /\ pending = <<>> /\ down = {}
               THEN "started" ELSE task

(* The task is resumed if it is paused.                                    *)
Resume == IF task = "paused" THEN "started" ELSE task

(* GstLibcameraSrcState::requestCompleted(), in the manager's thread: the  *)
(* wrap at the front is taken for that of the request, and dropped when it *)
(* is not.                                                                 *)
RequestCompleted ==
    /\ cqueue # <<>> /\ olock = "free"
    /\ cqueue' = Tail(cqueue)
    /\ \/ /\ old.wraps > 0
          /\ old' = [old EXCEPT !.wraps = @ - 1]
          /\ UNCHANGED <<requests, raced, pending, task, frames, pool, pooled,
                         total, calloc>>
       \/ /\ old.wraps = 0 /\ requests # <<>>
          /\ requests' = Tail(requests)
          /\ raced' = (raced \/ (/\ thread = "push" /\ ~Pending
                                 /\ Len(requests) = 1))
          /\ IF Head(requests) = Head(cqueue)
             THEN /\ pending' = Append(pending, Head(requests))
                  /\ task' = Resume
                  /\ UNCHANGED <<frames, pool, pooled, total, calloc>>
             ELSE /\ UNCHANGED <<task, pending, down, kept>>
                  /\ Back(<<Head(requests)>>, 1)
          /\ UNCHANGED old
    /\ UNCHANGED <<gstate, gcall, sessions, thread, olock, flushing, flow,
                   own, down, kept, keeps, lost, strays, cstate, cjammed>>

(* A step of the streaming thread                                          *)
TaskStep ==
    \/ EnterStops \/ (\E n \in {0, NumFrames} : EnterSetsUp(n))
    \/ (\E ok, refused \in BOOLEAN : EnterStarts(ok, refused))
    \/ TaskLoop \/ TaskAcquire \/ TaskQueueRequest \/ TaskPushWrap
    \/ TaskPush \/ TaskPushOld \/ TaskDecide
    \/ (\E n \in 0 .. Len(cqueue) : TaskLeave(n))

GstNext ==
    \/ NullToReady \/ ReadyToPaused \/ PausedToPlaying \/ PlayingToPaused
    \/ PausedToReady \/ JoinStops \/ JoinReturns \/ ReadyToNull
    \/ TaskStep \/ RequestCompleted \/ ReleaseOld
    \/ (\E f \in Frames : ReleaseMemory(f)
                          \/ \E keep \in BOOLEAN : ReleaseDown(f, keep))

-----------------------------------------------------------------------------
(***************************************************************************)
(* Properties.                                                             *)
(***************************************************************************)

InFlight == requests \o pending \o (IF own = 0 THEN <<>> ELSE <<own>>)

(* Whenever the object lock is free there is a wrap for each request that  *)
(* will complete, so that requestCompleted() never looks for one in an     *)
(* empty queue; the others are those of requests that were refused,        *)
(* dropped or forgotten, and as long as there was none the wraps are those *)
(* of the requests in their order, so that it finds the right one at the   *)
(* front.                                                                  *)
WrapsMatch ==
    olock = "free" =>
        /\ old.wraps + Len(requests) = Len(cqueue) + strays
        /\ strays = 0 => requests = cqueue

(* While the pad has a pool every frame is in exactly one place, and a     *)
(* GstBuffer is missing from the pool only when it is in flight or was     *)
(* dropped because downstream had kept the memory of another.              *)
FramesConserved ==
    pooled =>
        /\ Range(frames) \cup Range(InFlight) \cup down \cup kept = 1 .. total
        /\ Len(frames) + Len(InFlight) + Cardinality(down)
              + Cardinality(kept) = total
        /\ pool + Len(InFlight) + Cardinality(down) + lost = total
        /\ lost <= keeps

(* Only requestCompleted() resumes a paused task.  The stream goes on if   *)
(* downstream leaves two frames, and no request comes back so fast that    *)
(* the run that queued it pushes its frame and finds nothing pending.      *)
GoesOn ==
    total >= Hold + lost + Cardinality(kept) + 2 /\ strays = 0 /\ ~raced

Streaming ==
    /\ gstate = "playing" /\ cstate = "running" /\ task # "stopped"
    /\ thread \notin {"none", "enter", "start", "leave"}
    /\ olock # "stuck" /\ GoesOn

(* While the pipeline plays, frames reach downstream again and again.      *)
FramesFlow == Streaming ~> (down # {} \/ ~Streaming)

(* gst_task_join() returns, although task_run() may pause the task that    *)
(* has just been stopped: a request that completes later revives it.  It   *)
(* does not if the thread waits for itself in GST_ELEMENT_FLOW_ERROR.      *)
JoinAsked == gcall # "none" /\ (pooled => GoesOn)
JoinEnded == gcall = "none" \/ olock = "stuck" \/ (pooled /\ ~GoesOn)
=============================================================================
