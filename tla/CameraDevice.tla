---------------------------- MODULE CameraDevice ----------------------------
(***************************************************************************)
(* The Android camera HAL (src/android): a CameraDevice as the framework   *)
(* drives it through hal_dev_ops.  The framework calls from one thread;    *)
(* requestComplete() runs in the camera manager's thread and calls the     *)
(* framework back.  The framework configures a device before it sends a    *)
(* request, and sends none after a configuration that left the device      *)
(* without one (the code would go through a null config_).                 *)
(*                                                                         *)
(* A request is its frame number; the descriptor that carries it through   *)
(* libcamera is the request's cookie.                                      *)
(***************************************************************************)
EXTENDS ClientCamera, CameraMetadata

CONSTANT MaxFrames      \* bound on capture requests

VARIABLES
    open,           \* between open() and close()
    running,        \* running_
    config,         \* config_: "null", "unset" (without a stream) or "set"
    descriptors,    \* Camera3RequestDescriptors that are not deleted
    frameNumber,    \* the framework's frames so far
    crashed,        \* the frame for which requestComplete() went through a
                    \* null pointer, 0 for none
    accepted,       \* history: requests that were not refused
    forgotten,      \* history: those of them that the camera drops
    sent            \* history: notify() and process_capture_result() calls

halVars == <<open, running, config, descriptors, frameNumber, crashed,
             accepted, forgotten, sent>>

HalInit ==
    /\ open = FALSE /\ running = FALSE /\ config = "null"
    /\ descriptors = {} /\ frameNumber = 0 /\ crashed = 0
    /\ accepted = {} /\ forgotten = {} /\ sent = <<>>

-----------------------------------------------------------------------------
(* hal_dev_open(), CameraHalManager::open() and CameraDevice::open()       *)
HalOpen ==
    /\ MayAcquire
    /\ open' = TRUE
    /\ cstate' = "acquired"
    /\ UNCHANGED <<running, config, descriptors, frameNumber, crashed,
                   accepted, forgotten, sent, cqueue, cjammed, calloc>>

(* configureStreams(): config_ is replaced first.  An adjusted or invalid  *)
(* configuration resets it; when Camera::configure() refuses, as it does   *)
(* for a camera that is running, the new one stays without a stream.       *)
ConfigureStreams(valid, ok) ==
    /\ open
    /\ LET done == valid /\ ok /\ MayConfigure IN
       /\ config' = IF ~valid THEN "null" ELSE IF done THEN "set" ELSE "unset"
       /\ cstate' = IF done THEN "configured" ELSE cstate
    /\ UNCHANGED <<open, running, descriptors, frameNumber, crashed,
                   accepted, forgotten, sent, cqueue, cjammed, calloc>>

(* processCaptureRequest(): the first request starts the camera.  A        *)
(* request for a null stream, or for a camera that is not running, is      *)
(* refused by Camera::queueRequest(): the request and its descriptor are   *)
(* deleted, the buffer is not.                                             *)
CaptureRequest(starts, keep) ==
    /\ open /\ config # "null" /\ frameNumber < MaxFrames
    /\ frameNumber' = frameNumber + 1
    /\ LET up == running \/ (MayStart /\ starts)
           queued == up /\ cstate' = "running" /\ config = "set" IN
       /\ cstate' = IF ~running /\ up THEN "running" ELSE cstate
       /\ running' = up
       /\ IF queued
          THEN /\ Enqueue(frameNumber', keep)
               /\ accepted' = accepted \cup {frameNumber'}
               /\ forgotten' = IF keep THEN forgotten
                               ELSE forgotten \cup {frameNumber'}
               /\ descriptors' = descriptors \cup {frameNumber'}
          ELSE /\ keep
               /\ UNCHANGED <<cqueue, cjammed, accepted, forgotten, descriptors>>
    /\ UNCHANGED <<open, config, crashed, sent, calloc>>

(* getStaticMetadata(), constructDefaultRequestSettings(), for each type   *)
(* of template, and getResultMetadata(): the capacities, the number of     *)
(* values that fit their entry and the bytes of those that do not.         *)
StaticMetadata ==
    Fits(50, 700, 33, <<8, 8, 8, 12, 8, 8, 16, 8, 16, 8, 12, 48, 32, 96,
                        188, 48, 48>>)

RequestTemplate == Fits(15, 20, 12, <<>>)

ResultMetadata == Fits(15, 50, 8, <<16, 8, 8, 8>>)

(* requestComplete() of a request whose buffer has its image: a shutter    *)
(* message, an error message too if the metadata do not fit, the result.   *)
(* Without memory for the metadata the shutter message is all that comes.  *)
HalRequestComplete(allocated) ==
    /\ cqueue # <<>>
    /\ cqueue' = Tail(cqueue)
    /\ LET f == Head(cqueue) IN
       IF allocated
       THEN /\ sent' = sent \o
                 IF ResultMetadata
                 THEN <<<<"shutter", f>>, <<"result", f>>>>
                 ELSE <<<<"shutter", f>>, <<"error", f>>, <<"result", f>>>>
            /\ descriptors' = descriptors \ {f}
            /\ UNCHANGED crashed
       ELSE /\ sent' = Append(sent, <<"shutter", f>>)
            /\ crashed' = f
            /\ UNCHANGED descriptors
    /\ UNCHANGED <<open, running, config, frameNumber, accepted, forgotten,
                   cstate, cjammed, calloc>>

(* Mistake: the camera is released without being stopped.                  *)
HalCloseRunning(n) ==
    /\ open /\ n = Len(cqueue)
    /\ open' = FALSE
    /\ running' = FALSE
    /\ cstate' = Release(cstate)
    /\ UNCHANGED <<config, descriptors, frameNumber, crashed, accepted,
                   forgotten, sent, cqueue, cjammed, calloc>>

(* Mistake: the result is sent first.                                      *)
ResultFirst(n) ==
    [k \in 1 .. 2 * n |-> <<IF k % 2 = 0 THEN "error" ELSE "result",
                            cqueue[(k + 1) \div 2]>>]

(* What requestComplete() sends for n requests that were cancelled.        *)
Cancelled(n) ==
    [k \in 1 .. 2 * n |-> <<IF k % 2 = 1 THEN "error" ELSE "result",
                            cqueue[(k + 1) \div 2]>>]

(* close(): requests that are left complete as cancelled while             *)
(* Camera::stop() waits.  config_ stays.                                   *)
HalClose(n) ==
    /\ open /\ Cancel(n)
    /\ open' = FALSE
    /\ running' = FALSE
    /\ cstate' = "available"
    /\ sent' = sent \o Cancelled(n)
    /\ descriptors' = descriptors \ {cqueue[i] : i \in 1 .. n}
    /\ forgotten' = forgotten \cup {cqueue[i] : i \in n + 1 .. Len(cqueue)}
    /\ UNCHANGED <<config, frameNumber, crashed, accepted, calloc>>

HalNext ==
    /\ crashed = 0
    /\ \/ HalOpen \/ (\E n \in 0 .. Len(cqueue) : HalClose(n))
       \/ \E valid, ok \in BOOLEAN : ConfigureStreams(valid, ok)
       \/ \E starts, keep \in BOOLEAN : CaptureRequest(starts, keep)
       \/ \E allocated \in BOOLEAN : HalRequestComplete(allocated)

-----------------------------------------------------------------------------
(***************************************************************************)
(* Properties.                                                             *)
(***************************************************************************)

IsResult(i) == sent[i][1] = "result"

(* The frames of which the framework has a result.                         *)
Answered == {sent[i][2] : i \in {k \in DOMAIN sent : IsResult(k)}}

(* The framework hears of one frame after another, in the order of its     *)
(* requests, and of each with one or more messages and then one result,    *)
(* without another frame in between; only a crash of the process leaves a  *)
(* message without a result.                                               *)
SentInOrder ==
    /\ \A i, j \in DOMAIN sent :
         i < j => \/ sent[i][2] < sent[j][2]
                  \/ sent[i][2] = sent[j][2] /\ ~IsResult(i)
    /\ \A i \in DOMAIN sent :
         IF IsResult(i)
         THEN i > 1 /\ sent[i - 1][2] = sent[i][2]
         ELSE IF i < Len(sent) THEN sent[i + 1][2] = sent[i][2]
         ELSE crashed = sent[i][2]

(* Every request that was accepted has its result, unless the camera has   *)
(* it or has forgotten it or the process crashed; once close() has         *)
(* returned the camera has none.  A request with the camera still has its  *)
(* descriptor, and the result is what deletes it.                          *)
ResultsMatch ==
    /\ SentInOrder
    /\ Answered = accepted \ (Range(cqueue) \cup forgotten \cup {crashed})
    /\ descriptors = accepted \ Answered
    /\ Range(cqueue) \subseteq descriptors
    /\ ~open => cqueue = <<>>

(* The packs of metadata the device offers hold all that is put into them: *)
(* one entry or byte too many and the device would have none to show.      *)
PacksFit == StaticMetadata /\ RequestTemplate /\ ResultMetadata
=============================================================================
