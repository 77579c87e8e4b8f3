---------------------------- MODULE CaptureApps ----------------------------
(***************************************************************************)
(* The two applications of the repository: cam (src/cam), which captures   *)
(* until it is interrupted, and qcam (src/qcam), which does so in a        *)
(* window.  They do the same things in the same order and differ in what   *)
(* they undo when one of them fails.                                       *)
(*                                                                         *)
(* The main thread goes through appPc.  requestComplete() of either is no  *)
(* slot of an Object and runs in the camera manager's thread, where it     *)
(* queues the buffer again.  Here Camera::queueRequest() is what it is in  *)
(* camera.cpp: a test of the state, and then a message to that thread.  A  *)
(* request is its buffer.                                                  *)
(***************************************************************************)
EXTENDS ClientCamera, SequencesExt

CONSTANTS
    NumBuffers,     \* that the allocator returns
    MaxInterrupts   \* bound: SIGINTs

ASSUME AppAssumption == NumBuffers \in Nat

Buffers == 1 .. NumBuffers

VARIABLES
    app,            \* "cam" or "qcam"
    appPc,          \* what the main thread does next
    unqueued,       \* requests created and not queued yet
    mail,           \* the messages to the manager's thread
    streaming,      \* PipelineHandler::start() was called, and not stop()
    completing,     \* the request requestComplete() was called for
    checked,        \* its queueRequest() has found the camera running
    exit,           \* EventLoop::exit_; for qcam, that Qt was told to quit
    unplugged,      \* Camera::disconnect() was called
    interrupts,     \* bound: SIGINTs so far
    overtaken,      \* history: messages posted after the stop message
    deletedQueued   \* history: requests deleted that the camera had

appVars == <<app, appPc, unqueued, mail, streaming, completing, checked, exit,
             unplugged, interrupts, overtaken, deletedQueued>>

NoBuffer == 0
StopMessage == NumBuffers + 1

AppInit ==
    /\ app \in {"cam", "qcam"}
    /\ appPc = "open"
    /\ unqueued = <<>> /\ mail = <<>>
    /\ streaming = FALSE
    /\ completing = NoBuffer /\ checked = FALSE
    /\ exit = FALSE /\ unplugged = FALSE /\ interrupts = 0
    /\ overtaken = {} /\ deletedQueued = {}

AppTypeOK ==
    /\ unqueued \in Seq(Buffers) /\ mail \in Seq(Buffers \cup {StopMessage})
    /\ completing \in Buffers \cup {NoBuffer}
    /\ overtaken \subseteq Buffers /\ deletedQueued \subseteq Buffers
    /\ {streaming, checked, exit, unplugged} \subseteq BOOLEAN

Goto(pc) == appPc' = pc /\ UNCHANGED <<app, interrupts>>

ManagerIdle ==
    UNCHANGED <<mail, streaming, completing, checked, cqueue, cjammed>>

Untouched == UNCHANGED <<exit, unplugged, overtaken, deletedQueued>>

-----------------------------------------------------------------------------
(***************************************************************************)
(* The main thread.                                                        *)
(***************************************************************************)

(* CamApp::init(), MainWindow::openCamera(): without a camera cam returns  *)
(* and qcam's window asks Qt to quit.                                      *)
OpenCamera(ok) ==
    /\ appPc = "open"
    /\ LET opened == ok /\ MayAcquire /\ ~unplugged IN
       /\ cstate' = IF opened THEN "acquired" ELSE cstate
       /\ Goto(IF opened THEN "configure" ELSE "done")
    /\ ManagerIdle /\ Untouched /\ UNCHANGED <<calloc, unqueued>>

(* prepareConfig() and Camera::configure(): an invalid configuration makes *)
(* init() return with the camera acquired.  qcam creates the allocator     *)
(* before it configures the camera, cam after.                             *)
ConfigureCamera(valid, ok) ==
    /\ appPc = "configure"
    /\ LET done == valid /\ ok /\ MayConfigure /\ ~unplugged IN
       /\ cstate' = IF done THEN "configured" ELSE cstate
       /\ calloc' = IF app = "qcam" \/ done THEN "new" ELSE calloc
       /\ Goto(CASE done -> "allocate"
                 [] app = "cam" /\ ~valid -> "done"
                 [] OTHER -> "free")
    /\ ManagerIdle /\ Untouched /\ UNCHANGED unqueued

(* FrameBufferAllocator::allocate() and the requests for the buffers it    *)
(* returned; what fails in between leaves requests that were not queued.   *)
AllocateBuffers(ok) ==
    /\ appPc = "allocate"
    /\ LET done == ok /\ ~unplugged IN
       /\ calloc' = IF done THEN "allocated" ELSE "empty"
       /\ unqueued' = IF done THEN [i \in Buffers |-> i] ELSE <<>>
       /\ Goto(IF done THEN "start" ELSE "free")
    /\ ManagerIdle /\ Untouched /\ UNCHANGED cstate

(* Camera::start().  On failure cam forgets its requests and qcam deletes  *)
(* them.                                                                   *)
StartCamera(ok) ==
    /\ appPc = "start"
    /\ LET done == ok /\ MayStart /\ ~unplugged IN
       /\ cstate' = IF done THEN "running" ELSE cstate
       /\ streaming' = done
       /\ unqueued' = IF done THEN unqueued ELSE <<>>
       /\ Goto(IF done THEN "queue" ELSE "free")
    /\ Untouched
    /\ UNCHANGED <<calloc, mail, completing, checked, cqueue, cjammed>>

(* isAccessAllowed(CameraRunning) of Camera::queueRequest()                *)
MayQueueNow == MayQueue /\ ~unplugged

QueueFirst ==
    /\ appPc = "queue" /\ unqueued # <<>> /\ MayQueueNow
    /\ mail' = Append(mail, Head(unqueued))
    /\ unqueued' = Tail(unqueued)
    /\ UNCHANGED <<appPc, app, interrupts, streaming, completing, checked,
                   cqueue, cjammed, cstate, calloc>>
    /\ Untouched

(* A request is refused: cam calls Camera::stop(), which is refused like   *)
(* the request; qcam deletes its requests, those it has queued too.        *)
QueueFails ==
    /\ appPc = "queue" /\ unqueued # <<>> /\ ~MayQueueNow
    /\ deletedQueued' = IF app = "cam" THEN deletedQueued
                        ELSE ToSet(cqueue) \cup (ToSet(mail) \cap Buffers)
    /\ unqueued' = <<>>
    /\ Goto("free")
    /\ ManagerIdle
    /\ UNCHANGED <<cstate, calloc, exit, unplugged, overtaken>>

(* EventLoop::exec() clears exit_ before it looks at it.                   *)
Exec ==
    /\ appPc = "queue" /\ unqueued = <<>>
    /\ exit' = FALSE
    /\ Goto("loop")
    /\ ManagerIdle
    /\ UNCHANGED <<unqueued, cstate, calloc, unplugged, overtaken,
                   deletedQueued>>

(* Mistake: the loop returns and the camera is not stopped.                *)
LeaveRunning ==
    /\ appPc = "loop" /\ exit
    /\ Goto("free")
    /\ ManagerIdle /\ Untouched /\ UNCHANGED <<unqueued, cstate, calloc>>

(* The loop returns, and Camera::stop() is called: unless it is refused,   *)
(* the state changes and then the manager's thread is told, and waited for.*)
CallStop ==
    /\ appPc = "loop" /\ exit
    /\ IF MayQueueNow
         THEN /\ cstate' = "configured"
              /\ mail' = Append(mail, StopMessage)
              /\ Goto("stopping")
         ELSE Goto("free") /\ UNCHANGED <<cstate, mail>>
    /\ Untouched
    /\ UNCHANGED <<unqueued, calloc, streaming, completing, checked, cqueue,
                   cjammed>>

StopReturns ==
    /\ appPc = "stopping" /\ StopMessage \notin ToSet(mail)
    /\ Goto("free")
    /\ ManagerIdle /\ Untouched /\ UNCHANGED <<unqueued, cstate, calloc>>

(* delete allocator, then CamApp::cleanup() or the rest of ~MainWindow():  *)
(* Camera::release(), which refuses a camera that is running.              *)
FreeBuffers ==
    /\ appPc = "free"
    /\ calloc' = "none"
    /\ cstate' = IF cstate = "running" THEN cstate ELSE "available"
    /\ Goto("done")
    /\ ManagerIdle /\ Untouched /\ UNCHANGED unqueued

-----------------------------------------------------------------------------
(***************************************************************************)
(* The camera manager's thread, and the world.                             *)
(***************************************************************************)

(* A request completes, and requestComplete() looks at its frame.          *)
Complete ==
    /\ streaming /\ completing = NoBuffer /\ cqueue # <<>>
    /\ completing' = Head(cqueue)
    /\ cqueue' = Tail(cqueue)
    /\ UNCHANGED <<app, appPc, interrupts, unqueued, mail, streaming, checked,
                   cstate, cjammed, calloc>>
    /\ Untouched

(* createRequest() and the test of queueRequest(): a request that is       *)
(* refused is forgotten, with its buffer.                                  *)
CheckState ==
    /\ completing # NoBuffer /\ ~checked
    /\ checked' = MayQueueNow
    /\ completing' = IF MayQueueNow THEN completing ELSE NoBuffer
    /\ UNCHANGED <<app, appPc, interrupts, unqueued, mail, streaming, cqueue,
                   cjammed, cstate, calloc>>
    /\ Untouched

PostRequest ==
    /\ checked
    /\ checked' = FALSE /\ completing' = NoBuffer
    /\ mail' = Append(mail, completing)
    /\ overtaken' = IF MayQueue THEN overtaken ELSE overtaken \cup {completing}
    /\ UNCHANGED <<app, appPc, interrupts, unqueued, streaming, cqueue,
                   cjammed, cstate, calloc, exit, unplugged, deletedQueued>>

(* PipelineHandler::queueRequest(), or stop(): requests that are left      *)
(* complete as cancelled, and requestComplete() ignores them.              *)
Dispatch ==
    /\ mail # <<>> /\ completing = NoBuffer
    /\ mail' = Tail(mail)
    /\ IF Head(mail) = StopMessage
         THEN /\ \E n \in 0 .. Len(cqueue) : Cancel(n)
              /\ streaming' = FALSE
         ELSE /\ \E keep \in BOOLEAN : Enqueue(Head(mail), keep)
              /\ UNCHANGED streaming
    /\ UNCHANGED <<app, appPc, interrupts, unqueued, completing, checked,
                   cstate, calloc>>
    /\ Untouched

Unplug ==
    /\ ~unplugged /\ appPc # "done"
    /\ unplugged' = TRUE
    /\ ManagerIdle
    /\ UNCHANGED <<app, appPc, interrupts, unqueued, cstate, calloc, exit,
                   overtaken, deletedQueued>>

(* Mistake: the loop is woken up, but not told to end.                     *)
OnlyWake == exit

(* EventLoop::exit().  Qt ignores quit() while no event loop runs.         *)
Exited == IF app = "cam" THEN TRUE ELSE exit \/ appPc = "loop"

(* SIGINT: cam installs its handler when init() has returned.              *)
Interrupt ==
    /\ appPc \notin {"open", "done"} /\ interrupts < MaxInterrupts
    /\ interrupts' = interrupts + 1
    /\ exit' = Exited
    /\ ManagerIdle
    /\ UNCHANGED <<app, appPc, unqueued, cstate, calloc, unplugged, overtaken,
                   deletedQueued>>

-----------------------------------------------------------------------------

MainStep ==
    \/ \E ok \in BOOLEAN :
         \/ OpenCamera(ok) \/ AllocateBuffers(ok) \/ StartCamera(ok)
         \/ \E valid \in BOOLEAN : ConfigureCamera(valid, ok)
    \/ QueueFirst \/ QueueFails \/ Exec \/ CallStop \/ StopReturns
    \/ FreeBuffers

ManagerStep == CheckState \/ PostRequest \/ Dispatch

AppNext == MainStep \/ ManagerStep \/ Complete \/ Unplug \/ Interrupt

-----------------------------------------------------------------------------
(***************************************************************************)
(* Properties.                                                             *)
(***************************************************************************)

(* Unless the camera is unplugged, the buffers are freed when the camera   *)
(* has no request any more that it would complete, except for one whose    *)
(* queueRequest() found the camera running just before stop() was called;  *)
(* none is deleted by the application while the camera has it; and none is *)
(* queued twice.  A request that the handler dropped or forgot does not    *)
(* count: its buffers have left the devices when stop() has returned.      *)
BuffersOutliveRequests ==
    /\ AppTypeOK
    /\ appPc = "done" /\ ~unplugged =>
         ToSet(cqueue) \cup ToSet(mail) \cup {completing}
             \subseteq overtaken \cup {NoBuffer}
    /\ ~unplugged => deletedQueued = {}
    /\ IsInjective(unqueued \o cqueue \o mail \o
                   IF completing = NoBuffer THEN <<>> ELSE <<completing>>)

(* "Capture until user interrupts by SIGINT" (capture.cpp): an interrupt   *)
(* during the capture ends it, though the camera was unplugged.            *)
InterruptAsked == appPc = "loop" /\ exit
InterruptEnded == appPc = "done"
=============================================================================
