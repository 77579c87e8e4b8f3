------------------------ MODULE CameraSession_proofs ------------------------
(***************************************************************************)
(* Proofs about CameraSession: a camera whose application keeps            *)
(* queueRequest() apart from start() and stop() never queues a buffer      *)
(* without a cache, and is quiet once stop() has returned.                 *)
(***************************************************************************)
EXTENDS CameraSession, TLAPS

P == INSTANCE PipelineHandler_proofs WITH
         Buffers <- Dev!FrameBuffers,
         StreamOf <- [b \in Dev!FrameBuffers |-> "stream"],
         device <- Dev!Queued

(* The message a blocked call waits for.                                   *)
Awaited(where) ==
    IF where \in {"configure", "start", "stop", "export"} THEN where
    ELSE IF where \in {"stopFree", "allocatorFree", "allocatorDelete"}
      THEN "free"
      ELSE "none"

RequestMessages ==
    {i \in 1 .. Len(messages) : messages[i].op = "queueRequest"}

(* The message of the blocked call is the last one: nothing is posted      *)
(* behind it, and there is none when no call is blocked.                   *)
CallIsLast ==
    \A i \in 1 .. Len(messages) :
        messages[i].op # "queueRequest" =>
            i = Len(messages) /\ messages[i].op = Awaited(control)

(* The calls exclude each other: the camera is not in the Running state    *)
(* while a call is in progress, and no request is being queued.            *)
CallsExclude ==
    control # "idle" => state # "Running" /\ queueing = NoRequest

(* Whoever may lead to queueBuffer() holds on to the cache, which covers   *)
(* the buffers the driver has.                                             *)
CacheHeld ==
    /\ \/ state = "Running" \/ control = "started"
       \/ queueing # NoRequest \/ RequestMessages # {}
       => hasCache
    /\ ~unplugged /\ ~hasCache => \A s \in Dev!Slots : kernel[s] = "absent"

(* As long as the hardware is there, the driver streams only between       *)
(* start() and stop(), and only then is a request on its way.              *)
StreamingInside ==
    ~unplugged =>
        /\ streaming => state = "Running" \/ control \in {"started", "stop"}
        /\ \/ queueing # NoRequest \/ RequestMessages # {} \/ Dev!Queued # {}
           => state = "Running" \/ control = "stop"

(* The type of what the threads exchange, and of the camera's own state.   *)
ThreadsTyped ==
    /\ messages \in Seq(Messages)
    /\ control \in ControlStates
    /\ queueing \in Requests \cup {NoRequest}

CameraTyped ==
    /\ state \in States
    /\ disconnected \in BOOLEAN
    /\ allocator \in AllocatorStates

(* The invariant that is inductive, next to P!PipeInv.                     *)
SessionInv ==
    /\ Dev!TypeOK
    /\ CameraTyped
    /\ ThreadsTyped
    /\ crashed = FALSE
    /\ CallIsLast
    /\ CallsExclude
    /\ CacheHeld
    /\ StreamingInside

USE ComponentAssumption, FlagAssumption

CallOps == {"configure", "start", "stop", "export", "free"}

-----------------------------------------------------------------------------
(***************************************************************************)
(* The messages.                                                           *)
(***************************************************************************)

(* What a message is.                                                      *)
LEMMA MessageType ==
  /\ \A m \in Messages :
       /\ m.op \in CallOps \cup {"queueRequest"}
       /\ m.op = "queueRequest" => m.request \in Requests
  /\ \A r \in Requests : Message("queueRequest", r) \in Messages
  /\ \A op \in CallOps : Message(op, NoRequest) \in Messages
  /\ \A op, r : Message(op, r).op = op
  BY DEF Messages, Message, CallOps

(* When no call is blocked, every message is a queueRequest().             *)
LEMMA OnlyRequests ==
  ASSUME ThreadsTyped, CallIsLast, Awaited(control) = "none"
  PROVE  \A i \in 1 .. Len(messages) : messages[i].op = "queueRequest"
  BY MessageType DEF ThreadsTyped, CallIsLast, CallOps

(* A call posts its message behind them.                                   *)
LEMMA BlockFacts ==
  ASSUME ThreadsTyped, CallIsLast, Awaited(control) = "none",
         NEW op \in CallOps, NEW where \in ControlStates,
         Awaited(where) = op, Block(op, where)
  PROVE  /\ ThreadsTyped'
         /\ CallIsLast'
         /\ RequestMessages' = RequestMessages
  <1>1. messages \in Seq(Messages) /\ Message(op, NoRequest) \in Messages
    BY MessageType DEF ThreadsTyped
  <1>2. messages' = Append(messages, Message(op, NoRequest))
    BY DEF Block, Post
  <1>3. /\ messages' \in Seq(Messages)
        /\ Len(messages') = Len(messages) + 1
        /\ messages'[Len(messages) + 1] = Message(op, NoRequest)
        /\ \A i \in 1 .. Len(messages) : messages'[i] = messages[i]
    BY <1>1, <1>2
  <1>4. messages'[Len(messages) + 1].op = op /\ op # "queueRequest"
    BY <1>3, MessageType DEF CallOps
  <1>5. \A i \in 1 .. Len(messages) : messages[i].op = "queueRequest"
    BY OnlyRequests
  <1>6. Len(messages) \in Nat
    BY <1>1
  <1>7. CallIsLast'
    BY <1>3, <1>4, <1>5, <1>6 DEF CallIsLast, Block
  <1>8. RequestMessages' = RequestMessages
    BY <1>3, <1>4, <1>6 DEF RequestMessages
  <1> QED
    BY <1>3, <1>7, <1>8 DEF ThreadsTyped, Block

(* So does queueRequest(), which nobody blocks on.                         *)
LEMMA QueueFacts ==
  ASSUME ThreadsTyped, CallIsLast, Awaited(control) = "none",
         NEW r \in Requests, Post("queueRequest", r), control' = control,
         queueing' = NoRequest
  PROVE  /\ ThreadsTyped'
         /\ CallIsLast'
         /\ RequestMessages' # {}
  <1>1. messages \in Seq(Messages) /\ Message("queueRequest", r) \in Messages
    BY MessageType DEF ThreadsTyped
  <1>2. messages' = Append(messages, Message("queueRequest", r))
    BY DEF Post
  <1>3. /\ messages' \in Seq(Messages)
        /\ Len(messages') = Len(messages) + 1
        /\ messages'[Len(messages) + 1] = Message("queueRequest", r)
        /\ \A i \in 1 .. Len(messages) : messages'[i] = messages[i]
    BY <1>1, <1>2
  <1>4. messages'[Len(messages) + 1].op = "queueRequest"
    BY <1>3, MessageType
  <1>5. \A i \in 1 .. Len(messages) : messages[i].op = "queueRequest"
    BY OnlyRequests
  <1>6. Len(messages) \in Nat
    BY <1>1
  <1>7. CallIsLast'
    BY <1>3, <1>4, <1>5, <1>6 DEF CallIsLast
  <1>8. Len(messages) + 1 \in RequestMessages'
    BY <1>3, <1>4, <1>6 DEF RequestMessages
  <1> QED
    BY <1>3, <1>7, <1>8 DEF ThreadsTyped

(* The message of a call is handled last, after every request posted       *)
(* before it.                                                              *)
LEMMA HandleCallFacts ==
  ASSUME ThreadsTyped, CallIsLast, messages # <<>>,
         NEW op \in CallOps, Head(messages).op = op,
         messages' = Tail(messages)
  PROVE  /\ messages' = <<>>
         /\ RequestMessages = {}
         /\ RequestMessages' = {}
         /\ Awaited(control) = op
         /\ CallIsLast'
  <1>1. messages \in Seq(Messages) /\ Len(messages) \in Nat
    BY DEF ThreadsTyped
  <1>2. 1 \in 1 .. Len(messages) /\ messages[1].op = op /\ op # "queueRequest"
    BY <1>1 DEF CallOps
  <1>3. Len(messages) = 1 /\ Awaited(control) = op
    BY <1>2 DEF CallIsLast
  <1>4. messages' \in Seq(Messages) /\ Len(messages') = Len(messages) - 1
    BY <1>1
  <1>5. Len(messages') = 0
    BY <1>3, <1>4
  <1>6. messages' = <<>>
    BY <1>4, <1>5
  <1> QED
    <2>1. RequestMessages = {}
      BY <1>2, <1>3 DEF RequestMessages
    <2>2. 1 .. Len(messages') = {}
      BY <1>5
    <2>3. RequestMessages' = {}
      BY <2>2, Zenon DEF RequestMessages
    <2>4. CallIsLast'
      BY <2>2, Zenon DEF CallIsLast
    <2> QED
      BY <1>3, <1>6, <2>1, <2>3, <2>4

(* A request is handled and the call behind it stays.                      *)
LEMMA HandleRequestFacts ==
  ASSUME ThreadsTyped, CallIsLast, messages # <<>>,
         Head(messages).op = "queueRequest", messages' = Tail(messages),
         UNCHANGED <<control, queueing>>
  PROVE  /\ Head(messages).request \in Requests
         /\ RequestMessages # {}
         /\ ThreadsTyped'
         /\ CallIsLast'
  <1>1. messages \in Seq(Messages) /\ Len(messages) \in Nat
    BY DEF ThreadsTyped
  <1>2. 1 \in RequestMessages /\ Head(messages) \in Messages
    BY <1>1 DEF RequestMessages
  <1>3. /\ messages' \in Seq(Messages)
        /\ Len(messages') = Len(messages) - 1
        /\ \A i \in 1 .. Len(messages') : messages'[i] = messages[i + 1]
    BY <1>1
  <1>4. CallIsLast'
    <2> SUFFICES ASSUME NEW i \in 1 .. Len(messages'),
                        messages'[i].op # "queueRequest"
                 PROVE  /\ i = Len(messages')
                        /\ messages'[i].op = Awaited(control)
      BY DEF CallIsLast
    <2>1. i + 1 \in 1 .. Len(messages) /\ messages'[i] = messages[i + 1]
      BY <1>1, <1>3
    <2>2. i + 1 = Len(messages) /\ messages[i + 1].op = Awaited(control)
      BY <2>1 DEF CallIsLast
    <2>3. i = Len(messages')
      <3>1. i \in Int /\ i + 1 = Len(messages)
        BY <2>2
      <3>2. i = Len(messages) - 1
        BY <3>1
      <3> QED
        BY <1>3, <3>2, Zenon
    <2> QED
      BY <2>1, <2>2, <2>3
  <1> QED
    BY <1>2, <1>3, <1>4, MessageType DEF ThreadsTyped

-----------------------------------------------------------------------------
(***************************************************************************)
(* The requests of a session.                                              *)
(***************************************************************************)

(* Messages and thread states stay of their types.                         *)
LEMMA ThreadsTypedStep ==
  ASSUME ThreadsTyped, [Next]_vars
  PROVE  ThreadsTyped'
  <1>1. ASSUME NEW op \in CallOps, NEW where \in ControlStates,
               Block(op, where)
        PROVE  ThreadsTyped'
    <2>1. messages' = Append(messages, Message(op, NoRequest))
      BY <1>1 DEF Block, Post
    <2>2. Message(op, NoRequest) \in Messages
      BY MessageType
    <2> QED
      BY <1>1, <2>1, <2>2 DEF Block, ThreadsTyped
  <1>2. ASSUME messages # <<>>, messages' = Tail(messages),
               control' \in ControlStates, queueing' = queueing
        PROVE  ThreadsTyped'
    BY <1>2 DEF ThreadsTyped
  <1>3. CASE UNCHANGED <<messages, queueing>> /\ control' \in ControlStates
    BY <1>3 DEF ThreadsTyped
  <1>4. CASE ControlThread
    <2>1. CASE \/ Acquire \/ Release \/ ConfigureReturn \/ StartReturn
               \/ AllocatorCreate \/ AllocatorFreed
      BY <1>3, <2>1
         DEF Acquire, Release, ConfigureReturn, StartReturn, AllocatorCreate,
             AllocatorFreed, threadVars, ThreadsTyped, ControlStates
    <2>2. CASE Configure \/ Start \/ Stop \/ AllocatorFree
      BY <1>1, <2>2
         DEF Configure, Start, Stop, AllocatorFree, CallOps, ControlStates
    <2>3. CASE StopFree \/ AllocatorAllocate \/ AllocatorDelete
      BY <1>1, <1>3, <2>3
         DEF StopFree, AllocatorAllocate, AllocatorDelete, CallOps,
             ControlStates, threadVars, ThreadsTyped
    <2> QED
      BY <1>4, <2>1, <2>2, <2>3 DEF ControlThread
  <1>5. CASE RequestThread
    <2>1. ASSUME NEW r \in Requests,
                 \/ CreateRequest(r)
                 \/ \E b \in AppBuffers : AddBuffer(r, b)
                 \/ DeleteRequest(r)
          PROVE  ThreadsTyped'
      BY <1>3, <2>1 DEF CreateRequest, AddBuffer, DeleteRequest, threadVars,
                        ThreadsTyped
    <2>2. ASSUME NEW r \in Requests, QueueRequestCheck(r)
          PROVE  ThreadsTyped'
      BY <2>2 DEF QueueRequestCheck, ThreadsTyped
    <2>3. CASE QueueRequestPost
      <3>1. queueing \in Requests
            /\ messages' = Append(messages, Message("queueRequest", queueing))
        BY <2>3 DEF QueueRequestPost, Post, ThreadsTyped
      <3>2. Message("queueRequest", queueing) \in Messages
        BY <3>1, MessageType
      <3> QED
        BY <2>3, <3>1, <3>2 DEF QueueRequestPost, ThreadsTyped
    <2> QED
      BY <1>5, <2>1, <2>2, <2>3 DEF RequestThread
  <1>6. CASE HandleMessage
    BY <1>2, <1>6 DEF HandleMessage, HandleConfigure, HandleStart, HandleStop,
                      HandleExport, HandleFree, HandleQueueRequest, Handle,
                      Resume, ThreadsTyped, ControlStates
  <1>7. CASE \/ \E b \in Dev!FrameBuffers : BufferAvailable(b)
             \/ Disconnect
             \/ \E s \in Dev!Slots : Fill(s)
             \/ Unplug
             \/ UNCHANGED vars
    BY <1>3, <1>7 DEF BufferAvailable, Disconnect, Fill, Unplug, vars,
                      threadVars, ThreadsTyped
  <1> QED
    BY <1>4, <1>5, <1>6, <1>7 DEF Next

(* The two instances of the request queue agree on completions.            *)
LEMMA SameCompletions ==
  ASSUME NEW S, NEW isCancelled, Pipe!CompleteBuffers(S, isCancelled)
  PROVE  P!CompleteBuffers(S, isCancelled)
  BY DEF Pipe!CompleteBuffers, P!CompleteBuffers, Pipe!PopCount, P!PopCount,
         Pipe!Popped, P!Popped, Pipe!Touched, P!Touched,
         Pipe!StatusOf, P!StatusOf

(* What the requests see of a step.                                        *)
LEMMA RequestsStep ==
  ASSUME ThreadsTyped, [Next]_vars
  PROVE  [P!Next]_P!pipeVars
  <1>1. ASSUME UNCHANGED <<reqVars, queuedBuffers>>
        PROVE  UNCHANGED P!pipeVars
    BY <1>1 DEF reqVars, P!pipeVars, P!requestVars, Dev!Queued, Dev!InQueue
  <1>2. CASE ControlThread
    <2>1. UNCHANGED <<reqVars, queuedBuffers>>
      BY <1>2 DEF ControlThread, Acquire, Release, Configure, ConfigureReturn,
                  Start, StartReturn, Stop, StopFree, AllocatorCreate,
                  AllocatorAllocate, AllocatorFree, AllocatorFreed,
                  AllocatorDelete, ImportForStart, Dev!ImportBuffers,
                  Dev!SetupBuffers, devVars
    <2> QED
      BY <1>1, <2>1
  <1>3. CASE RequestThread
    <2>1. ASSUME NEW r \in Requests, CreateRequest(r)
          PROVE  P!Next
      BY <2>1 DEF CreateRequest, Pipe!CreateRequest, P!CreateRequest, P!Next
    <2>2. ASSUME NEW r \in Requests, NEW b \in AppBuffers, AddBuffer(r, b)
          PROVE  P!Next
      <3>1. b \in Dev!FrameBuffers
        BY DEF AppBuffers, Dev!FrameBuffers
      <3>2. P!AddBuffer(r, b)
        BY <2>2 DEF AddBuffer, Pipe!AddBuffer, P!AddBuffer
      <3> QED
        BY <3>1, <3>2 DEF P!Next
    <2>3. ASSUME NEW r \in Requests, DeleteRequest(r)
          PROVE  P!Next
      BY <2>3 DEF DeleteRequest, Pipe!DeleteRequest, P!DeleteRequest, P!Next
    <2>4. ASSUME NEW r \in Requests, QueueRequestCheck(r)
          PROVE  UNCHANGED P!pipeVars
      BY <1>1, <2>4 DEF QueueRequestCheck, devVars
    <2>5. CASE QueueRequestPost
      <3>1. queueing \in Requests /\ Pipe!PostRequest(queueing)
        BY <2>5 DEF QueueRequestPost, ThreadsTyped
      <3> QED
        BY <3>1 DEF Pipe!PostRequest, P!PostRequest, P!Next
    <2> QED
      BY <1>3, <2>1, <2>2, <2>3, <2>4, <2>5 DEF RequestThread
  <1>4. CASE HandleConfigure \/ HandleStart \/ HandleExport \/ HandleFree
    <2>1. UNCHANGED <<reqVars, queuedBuffers>>
      BY <1>4 DEF HandleConfigure, HandleStart, HandleExport, HandleFree,
                  Dev!StreamOn, Dev!ExportBuffers, Dev!SetupBuffers,
                  Dev!ReleaseBuffers, devVars
    <2> QED
      BY <1>1, <2>1
  <1>5. CASE HandleStop
    <2>1. CASE unplugged
      BY <1>1, <1>5, <2>1 DEF HandleStop, Dev!StreamOff, Dev!deviceVars
    <2>2. CASE ~unplugged
      <3>1. Pipe!Stop
        BY <1>5, <2>2 DEF HandleStop
      <3>2. CASE UNCHANGED Pipe!pipeVars
        BY <3>2 DEF Pipe!pipeVars, Pipe!requestVars, P!pipeVars, P!requestVars
      <3>3. CASE /\ Dev!Queued # {}
                 /\ Pipe!CompleteBuffers(Dev!Queued, TRUE)
                 /\ Dev!Queued' = {}
        <4>1. P!CompleteBuffers(Dev!Queued, TRUE)
          BY <3>3, SameCompletions
        <4> QED
          BY <3>3, <4>1 DEF P!Stop, P!Next
      <3> QED
        BY <3>1, <3>2, <3>3 DEF Pipe!Stop
    <2> QED
      BY <2>1, <2>2
  <1>6. CASE HandleQueueRequest
    <2> DEFINE r == Head(messages).request
    <2>1. r \in Requests
      BY <1>6, MessageType DEF HandleQueueRequest, Handle, ThreadsTyped
    <2>2. \/ Pipe!QueueRequest(r, {})
          \/ Pipe!QueueRequest(r, pending[r])
          \/ UNCHANGED <<devVars, reqVars>>
      BY <1>6 DEF HandleQueueRequest
    <2> HIDE DEF r
    <2>3. CASE Pipe!QueueRequest(r, {})
      <3>1. {} \in SUBSET pending[r]
        OBVIOUS
      <3>2. P!QueueRequest(r, {})
        BY <2>3 DEF Pipe!QueueRequest, P!QueueRequest
      <3> QED
        BY <2>1, <3>1, <3>2 DEF P!Next, P!Handle
    <2>4. CASE Pipe!QueueRequest(r, pending[r])
      <3>1. P!QueueRequest(r, pending[r])
        BY <2>4 DEF Pipe!QueueRequest, P!QueueRequest
      <3> QED
        BY <2>1, <3>1 DEF P!Next, P!Handle
    <2>5. CASE UNCHANGED <<devVars, reqVars>>
      BY <1>1, <2>5 DEF devVars
    <2> QED
      BY <2>2, <2>3, <2>4, <2>5
  <1>7. ASSUME NEW b \in Dev!FrameBuffers, BufferAvailable(b)
        PROVE  P!Next
    <2>1. P!BufferReady(b)
      BY <1>7, SameCompletions
         DEF BufferAvailable, Pipe!BufferReady, P!BufferReady
    <2> QED
      BY <2>1 DEF P!Next
  <1>8. CASE \/ Disconnect
             \/ \E s \in Dev!Slots : Fill(s)
             \/ Unplug
             \/ UNCHANGED vars
    <2>1. UNCHANGED <<reqVars, queuedBuffers>>
      BY <1>8 DEF Disconnect, Fill, Unplug, Dev!Fill, Dev!Unplug, vars,
                  devVars
    <2> QED
      BY <1>1, <2>1
  <1> QED
    BY <1>2, <1>3, <1>4, <1>5, <1>6, <1>7, <1>8 DEF Next, HandleMessage

(* The requests of a session live as PipelineHandler says, whatever the    *)
(* threads, the driver and the hot-plugging do.                            *)
THEOREM RequestsAreAnAspect == Spec => P!Spec
  <1>1. Init => P!Init /\ ThreadsTyped
    BY DEF Init, Pipe!Init, P!Init, ThreadsTyped, ControlStates
  <1>2. ThreadsTyped /\ [Next]_vars => ThreadsTyped'
    BY ThreadsTypedStep
  <1>3. ThreadsTyped /\ [Next]_vars => [P!Next]_P!pipeVars
    BY RequestsStep
  <1> QED
    BY <1>1, <1>2, <1>3, PTL DEF Spec, P!Spec

-----------------------------------------------------------------------------
(***************************************************************************)
(* The threads, the cache and the driver.                                  *)
(***************************************************************************)

(* What follows from the messages when they do not change.                 *)
LEMMA MessagesUnchanged ==
  ASSUME CallIsLast, UNCHANGED messages, Awaited(control') = Awaited(control)
  PROVE  CallIsLast' /\ RequestMessages' = RequestMessages
  BY DEF CallIsLast, RequestMessages

(* The same for the buffers in the device.                                 *)
LEMMA QueuedUnchanged ==
  ASSUME UNCHANGED queuedBuffers
  PROVE  UNCHANGED Dev!Queued
  BY DEF Dev!Queued, Dev!InQueue

(* The control thread's steps.                                             *)
LEMMA ControlStep ==
  ASSUME Synchronised, SessionInv, ControlThread
  PROVE  SessionInv'
  <1>1. ThreadsTyped'
    BY ThreadsTypedStep DEF SessionInv, Next
  <1>2. UNCHANGED <<streaming, unplugged, Dev!Queued, crashed>>
    <2>1. UNCHANGED <<streaming, unplugged, queuedBuffers, crashed>>
      BY DEF ControlThread, Acquire, Release, Configure, ConfigureReturn,
             Start, StartReturn, Stop, StopFree, AllocatorCreate,
             AllocatorAllocate, AllocatorFree, AllocatorFreed,
             AllocatorDelete, ImportForStart, Dev!ImportBuffers,
             Dev!SetupBuffers, devVars, threadVars, Block
    <2> QED
      BY <2>1, QueuedUnchanged
  <1>3. CASE \/ Acquire \/ Release \/ ConfigureReturn \/ StartReturn
             \/ AllocatorCreate \/ AllocatorFreed
    <2>1. UNCHANGED messages /\ Awaited(control') = Awaited(control)
      BY <1>3 DEF Acquire, Release, ConfigureReturn, StartReturn,
                  AllocatorCreate, AllocatorFreed, threadVars, Awaited
    <2>2. CallIsLast' /\ RequestMessages' = RequestMessages
      BY <2>1, MessagesUnchanged DEF SessionInv
    <2> QED
      BY <1>1, <1>2, <1>3, <2>1, <2>2
         DEF Acquire, Release, ConfigureReturn, StartReturn, AllocatorCreate,
             AllocatorFreed, Calls, AccessAllowed, SessionInv, devVars,
             threadVars, Dev!TypeOK, CameraTyped, States, AllocatorStates,
             CallsExclude, CacheHeld, StreamingInside
  <1>4. ASSUME NEW op \in CallOps, NEW where \in ControlStates,
               Awaited(where) = op, Awaited(control) = "none",
               Block(op, where)
        PROVE  /\ CallIsLast'
               /\ RequestMessages' = RequestMessages
               /\ control' = where
               /\ UNCHANGED queueing
    BY <1>4, BlockFacts DEF SessionInv, Block
  <1>5. CASE Configure \/ Stop \/ AllocatorFree
    <2>1. /\ CallIsLast'
          /\ RequestMessages' = RequestMessages
          /\ control' \in {"configure", "stop", "allocatorFree"}
          /\ Stop => control' = "stop"
          /\ control = "idle"
          /\ queueing = NoRequest
          /\ UNCHANGED queueing
      BY <1>4, <1>5 DEF Configure, Stop, AllocatorFree, Calls, CallOps,
                        ControlStates, Awaited
    <2> QED
      BY <1>1, <1>2, <1>5, <2>1
         DEF Configure, Stop, StopState, AllocatorFree, AccessAllowed,
             cameraVars, SessionInv, devVars,
             Dev!TypeOK, CameraTyped, States, AllocatorStates, CallsExclude,
             CacheHeld, StreamingInside
  <1>6. CASE StopFree
    <2>1. CASE allocator = "buffers"
      <3>1. UNCHANGED messages /\ Awaited(control') = Awaited(control)
        BY <1>6, <2>1 DEF StopFree, Awaited
      <3>2. CallIsLast' /\ RequestMessages' = RequestMessages
        BY <3>1, MessagesUnchanged DEF SessionInv
      <3> QED
        BY <1>1, <1>2, <1>6, <2>1, <3>2
           DEF StopFree, cameraVars, SessionInv, devVars,
             Dev!TypeOK, CameraTyped, States, AllocatorStates, CallsExclude,
             CacheHeld, StreamingInside
    <2>2. CASE allocator # "buffers"
      <3>1. /\ CallIsLast'
            /\ RequestMessages' = RequestMessages
            /\ control' = "stopFree"
            /\ UNCHANGED queueing
        BY <1>4, <1>6, <2>2 DEF StopFree, CallOps, ControlStates, Awaited
      <3> QED
        BY <1>1, <1>2, <1>6, <2>2, <3>1
           DEF StopFree, cameraVars, SessionInv, devVars,
             Dev!TypeOK, CameraTyped, States, AllocatorStates, CallsExclude,
             CacheHeld, StreamingInside
    <2> QED
      BY <2>1, <2>2
  <1>7. CASE AllocatorAllocate \/ AllocatorDelete
    <2>1. control = "idle" /\ queueing = NoRequest
      BY <1>7 DEF AllocatorAllocate, AllocatorDelete, Calls
    <2>2. \/ UNCHANGED threadVars
          \/ Block("export", "export")
          \/ Block("free", "allocatorDelete")
      BY <1>7 DEF AllocatorAllocate, AllocatorDelete
    <2>3. UNCHANGED threadVars => UNCHANGED messages /\ UNCHANGED control
      BY DEF threadVars
    <2>4. /\ CallIsLast'
          /\ RequestMessages' = RequestMessages
          /\ control' \in {"idle", "export", "allocatorDelete"}
          /\ UNCHANGED queueing
      <3>1. CASE UNCHANGED threadVars
        BY <2>1, <2>3, <3>1, MessagesUnchanged DEF SessionInv, threadVars
      <3>2. CASE Block("export", "export")
        BY <1>4, <2>1, <3>2 DEF CallOps, ControlStates, Awaited
      <3>3. CASE Block("free", "allocatorDelete")
        BY <1>4, <2>1, <3>3 DEF CallOps, ControlStates, Awaited
      <3> QED
        BY <2>2, <3>1, <3>2, <3>3
    <2>5. control' # "idle" => state # "Running"
      <3>1. CASE AllocatorAllocate
        BY <2>1, <2>3, <3>1
           DEF AllocatorAllocate, AccessAllowed, threadVars
      <3>2. CASE AllocatorDelete
        BY <2>1, <2>3, <3>2
           DEF AllocatorDelete, AccessAllowed, threadVars
      <3> QED
        BY <1>7, <3>1, <3>2
    <2>6. /\ UNCHANGED devVars /\ UNCHANGED <<state, disconnected>>
          /\ allocator' \in AllocatorStates
      <3>1. CASE AllocatorAllocate
        BY <3>1 DEF AllocatorAllocate, EntryBeforeExport, AllocatorStates
      <3>2. CASE AllocatorDelete
        BY <3>2 DEF AllocatorDelete, AllocatorStates
      <3> QED
        BY <1>7, <3>1, <3>2
    <2>7. Dev!TypeOK' /\ CameraTyped'
      BY <1>2, <2>6 DEF SessionInv, devVars, Dev!TypeOK, CameraTyped
    <2>8. CallsExclude' /\ CacheHeld' /\ StreamingInside'
      BY <1>1, <1>2, <2>1, <2>4, <2>5, <2>6
         DEF SessionInv, devVars, CameraTyped, States, CallsExclude,
             CacheHeld, StreamingInside
    <2> QED
      BY <1>1, <1>2, <2>4, <2>7, <2>8 DEF SessionInv
  <1>8. CASE Start
    <2>1. /\ CallIsLast'
          /\ RequestMessages' = RequestMessages
          /\ control' = "start"
          /\ control = "idle" /\ state = "Configured"
          /\ queueing = NoRequest
          /\ UNCHANGED queueing
      BY <1>4, <1>8 DEF Start, Calls, AccessAllowed, CallOps, ControlStates,
                        Awaited
    <2>2. CASE UNCHANGED devVars
      BY <1>1, <1>2, <1>8, <2>1, <2>2
         DEF Start, cameraVars, SessionInv, devVars,
             Dev!TypeOK, CameraTyped, States, AllocatorStates, CallsExclude,
             CacheHeld, StreamingInside
    <2>3. ASSUME NEW ok \in BOOLEAN, Dev!ImportBuffers(ok)
          PROVE  SessionInv'
      <3>1. /\ ~hasCache
            /\ Dev!TypeOK'
        BY <2>3 DEF Dev!ImportBuffers, Dev!SetupBuffers, Dev!KernelRequest,
                    SessionInv, Dev!TypeOK, Dev!EmptyQueue, Dev!KernelStates
      <3>2. ~unplugged /\ ~hasCache' =>
                \A s \in Dev!Slots : kernel'[s] = "absent"
        BY <2>3, <3>1 DEF Dev!ImportBuffers, Dev!SetupBuffers,
                          Dev!KernelRequest, SessionInv, CacheHeld
      <3> QED
        BY <1>1, <1>2, <1>8, <2>1, <3>1, <3>2
           DEF Start, cameraVars, SessionInv, CameraTyped, CallsExclude,
               CacheHeld, StreamingInside
    <2> QED
      BY <1>8, <2>2, <2>3 DEF Start, ImportForStart
  <1> QED
    BY <1>3, <1>5, <1>6, <1>7, <1>8 DEF ControlThread

(* The request thread's steps.                                             *)
LEMMA RequestThreadStep ==
  ASSUME Synchronised, SessionInv, RequestThread
  PROVE  SessionInv'
  <1>1. ThreadsTyped'
    BY ThreadsTypedStep DEF SessionInv, Next
  <1>2. /\ UNCHANGED <<devVars, cameraVars, control, crashed>>
        /\ UNCHANGED Dev!Queued
    <2>1. UNCHANGED <<devVars, cameraVars, control, crashed>>
      BY DEF RequestThread, CreateRequest, AddBuffer, DeleteRequest,
             QueueRequestCheck, QueueRequestPost, threadVars
    <2> QED
      BY <2>1, QueuedUnchanged DEF devVars
  <1>3. ASSUME UNCHANGED messages
        PROVE  CallIsLast' /\ RequestMessages' = RequestMessages
    BY <1>2, <1>3, MessagesUnchanged DEF SessionInv
  <1>4. ASSUME NEW r \in Requests,
               \/ CreateRequest(r)
               \/ \E b \in AppBuffers : AddBuffer(r, b)
               \/ DeleteRequest(r)
        PROVE  SessionInv'
    <2>1. UNCHANGED <<messages, queueing>>
      BY <1>4 DEF CreateRequest, AddBuffer, DeleteRequest, threadVars
    <2> QED
      BY <1>1, <1>2, <1>3, <2>1
         DEF SessionInv, devVars, cameraVars, Dev!TypeOK, CameraTyped,
             CallsExclude, CacheHeld, StreamingInside
  <1>5. ASSUME NEW r \in Requests, QueueRequestCheck(r)
        PROVE  SessionInv'
    <2>1. UNCHANGED messages /\ control = "idle" /\ state = "Running"
      BY <1>5 DEF QueueRequestCheck, AccessAllowed
    <2> QED
      BY <1>1, <1>2, <1>3, <2>1
         DEF SessionInv, devVars, cameraVars, Dev!TypeOK, CameraTyped,
             CallsExclude, CacheHeld, StreamingInside
  <1>6. CASE QueueRequestPost
    <2>1. /\ queueing \in Requests
          /\ Post("queueRequest", queueing)
          /\ control' = control
          /\ queueing' = NoRequest
      BY <1>6 DEF QueueRequestPost, SessionInv, ThreadsTyped
    <2>2. control = "idle" /\ Awaited(control) = "none"
      BY <1>6 DEF QueueRequestPost, SessionInv, CallsExclude, Awaited
    <2>3. CallIsLast' /\ RequestMessages' # {}
      BY <2>1, <2>2, QueueFacts DEF SessionInv
    <2> QED
      BY <1>1, <1>2, <1>6, <2>1, <2>2, <2>3
         DEF QueueRequestPost, SessionInv, devVars, cameraVars, Dev!TypeOK,
             CameraTyped, CallsExclude, CacheHeld, StreamingInside
  <1> QED
    BY <1>4, <1>5, <1>6 DEF RequestThread

(* The calls handled in the camera manager thread.                         *)
LEMMA HandleCallStep ==
  ASSUME Synchronised, SessionInv,
         \/ HandleConfigure \/ HandleStart \/ HandleStop
         \/ HandleExport \/ HandleFree
  PROVE  SessionInv'
  <1>1. ThreadsTyped'
    BY ThreadsTypedStep DEF SessionInv, Next, HandleMessage
  <1>2. ASSUME NEW op \in CallOps, messages # <<>>, Head(messages).op = op,
               messages' = Tail(messages)
        PROVE  /\ RequestMessages = {}
               /\ RequestMessages' = {}
               /\ Awaited(control) = op
               /\ CallIsLast'
               /\ state # "Running"
               /\ queueing = NoRequest
    <2>1. /\ RequestMessages = {}
          /\ RequestMessages' = {}
          /\ Awaited(control) = op
          /\ CallIsLast'
      BY <1>2, HandleCallFacts DEF SessionInv
    <2>2. control # "idle"
      BY <2>1 DEF CallOps, Awaited
    <2> QED
      BY <2>1, <2>2 DEF SessionInv, CallsExclude
  <1>3. UNCHANGED <<state, disconnected, queueing>> /\ crashed' = FALSE
    BY DEF HandleConfigure, HandleStart, HandleStop, HandleExport, HandleFree,
           Handle, Resume, cameraVars, SessionInv
  <1>4. CASE HandleConfigure
    <2>1. /\ RequestMessages' = {}
          /\ CallIsLast'
          /\ state # "Running"
          /\ queueing = NoRequest
          /\ control = "configure"
          /\ control' \in {"configured", "idle"}
      BY <1>2, <1>4 DEF HandleConfigure, Handle, Resume, CallOps, Awaited
    <2>2. UNCHANGED devVars /\ UNCHANGED Dev!Queued
      BY <1>4, QueuedUnchanged DEF HandleConfigure, devVars
    <2> QED
      BY <1>1, <1>3, <1>4, <2>1, <2>2
         DEF HandleConfigure, Handle, SessionInv, devVars, cameraVars,
             Dev!TypeOK, CameraTyped, CallsExclude, CacheHeld, StreamingInside
  <1>5. CASE HandleStart
    <2> PICK ok \in BOOLEAN :
          Dev!StreamOn(ok) /\ Resume(IF ok THEN "started" ELSE "idle")
      BY <1>5 DEF HandleStart
    <2>1. /\ RequestMessages' = {}
          /\ CallIsLast'
          /\ state # "Running"
          /\ queueing = NoRequest
          /\ control = "start"
          /\ control' = IF ok THEN "started" ELSE "idle"
      BY <1>2, <1>5 DEF HandleStart, Handle, Resume, CallOps, Awaited
    <2>2. UNCHANGED <<opened, memoryType, hasCache, free, planes,
                      queuedBuffers, fdEnabled, kernel, unplugged>>
          /\ UNCHANGED Dev!Queued
          /\ streaming' = (streaming \/ ok)
      BY QueuedUnchanged DEF Dev!StreamOn
    <2>3. ok => hasCache
      <3>1. 0 \in Dev!Slots
        BY DEF Dev!Slots
      <3> QED
        BY <3>1 DEF Dev!StreamOn, SessionInv, CacheHeld
    <2>4. ~streaming \/ unplugged
      BY <2>1 DEF SessionInv, StreamingInside
    <2> QED
      BY <1>1, <1>3, <1>5, <2>1, <2>2, <2>3, <2>4
         DEF HandleStart, Handle, SessionInv, cameraVars,
             Dev!TypeOK, CameraTyped, CallsExclude, CacheHeld, StreamingInside
  <1>6. CASE HandleStop
    <2>1. /\ RequestMessages' = {}
          /\ CallIsLast'
          /\ state # "Running"
          /\ queueing = NoRequest
          /\ control' = "stopped"
      BY <1>2, <1>6 DEF HandleStop, Handle, Resume, CallOps
    <2>2. CASE unplugged
      <3>1. UNCHANGED Dev!deviceVars
        BY <1>6, <2>2 DEF HandleStop, Dev!StreamOff
      <3> QED
        BY <1>1, <1>3, <1>6, <2>1, <2>2, <3>1
           DEF HandleStop, Handle, SessionInv, cameraVars, Dev!deviceVars,
               Dev!TypeOK, CameraTyped, CallsExclude, CacheHeld,
               StreamingInside
    <2>3. CASE ~unplugged
      <3>1. /\ streaming' = FALSE
            /\ kernel' = [s \in Dev!Slots |->
                            IF Dev!KernelOwned(s) THEN "dequeued"
                                                  ELSE kernel[s]]
            /\ queuedBuffers' = Dev!EmptyQueue
            /\ fdEnabled' = FALSE
            /\ UNCHANGED <<opened, memoryType, hasCache, free, planes,
                           unplugged>>
        BY <1>6, <2>3 DEF HandleStop, Dev!StreamOff, Dev!FreeAfterStreamOff
      <3>2. Dev!Queued' = {}
        BY <3>1 DEF Dev!Queued, Dev!InQueue, Dev!EmptyQueue
      <3>3. Dev!TypeOK'
        BY <3>1 DEF SessionInv, Dev!TypeOK, Dev!KernelStates, Dev!EmptyQueue
      <3>4. ~hasCache' => \A s \in Dev!Slots : kernel'[s] = "absent"
        BY <2>3, <3>1 DEF SessionInv, CacheHeld, Dev!KernelOwned
      <3> QED
        BY <1>1, <1>3, <1>6, <2>1, <3>1, <3>2, <3>3, <3>4
           DEF HandleStop, Handle, SessionInv, cameraVars, CameraTyped,
               CallsExclude, CacheHeld, StreamingInside
    <2> QED
      BY <2>2, <2>3
  <1>7. CASE HandleExport
    <2>1. /\ RequestMessages' = {}
          /\ CallIsLast'
          /\ state # "Running"
          /\ queueing = NoRequest
          /\ control = "export"
          /\ control' = "idle"
      BY <1>2, <1>7 DEF HandleExport, Resume, CallOps, Awaited
    <2>2. CASE UNCHANGED <<devVars, allocator>>
      <3>1. UNCHANGED Dev!Queued
        BY <2>2, QueuedUnchanged DEF devVars
      <3> QED
        BY <1>1, <1>3, <2>1, <2>2, <3>1
           DEF SessionInv, devVars, Dev!TypeOK, CameraTyped, CallsExclude,
               CacheHeld, StreamingInside
    <2>3. ASSUME NEW ok \in BOOLEAN, Dev!ExportBuffers(ok),
                 allocator' = IF ok THEN "buffers" ELSE allocator
          PROVE  SessionInv'
      <3>1. /\ Dev!TypeOK'
            /\ UNCHANGED <<streaming, unplugged, queuedBuffers>>
        BY <2>3 DEF Dev!ExportBuffers, Dev!SetupBuffers, Dev!KernelRequest,
                    SessionInv, Dev!TypeOK, Dev!FrameBuffers, Dev!KernelStates
      <3>2. ~unplugged /\ ~hasCache' =>
                \A s \in Dev!Slots : kernel'[s] = "absent"
        BY <2>3 DEF Dev!ExportBuffers, Dev!SetupBuffers,
                    Dev!KernelRequest, SessionInv, CacheHeld
      <3>3. UNCHANGED Dev!Queued
        BY <3>1, QueuedUnchanged
      <3> QED
        BY <1>1, <1>3, <2>1, <2>3, <3>1, <3>2, <3>3
           DEF SessionInv, CameraTyped, AllocatorStates, CallsExclude,
               CacheHeld, StreamingInside
    <2> QED
      BY <1>7, <2>2, <2>3 DEF HandleExport
  <1>8. CASE HandleFree
    <2>1. /\ RequestMessages' = {}
          /\ CallIsLast'
          /\ state # "Running"
          /\ queueing = NoRequest
          /\ control \in {"stopFree", "allocatorFree", "allocatorDelete"}
          /\ control' \in {"allocatorFreed", "idle"}
      <3>1. Awaited(control) = "free"
        BY <1>2, <1>8 DEF HandleFree, Handle, CallOps
      <3>2. control \in {"stopFree", "allocatorFree", "allocatorDelete"}
        BY <3>1 DEF Awaited
      <3> QED
        BY <1>2, <1>8, <3>2 DEF HandleFree, Handle, Resume, CallOps
    <2>2. /\ UNCHANGED <<opened, memoryType, queuedBuffers, fdEnabled,
                         streaming, unplugged>>
          /\ UNCHANGED Dev!Queued
      BY <1>8, QueuedUnchanged DEF HandleFree, Dev!ReleaseBuffers
    <2>3. Dev!TypeOK'
      BY <1>8 DEF HandleFree, Dev!ReleaseBuffers, Dev!DeleteCache,
                  Dev!KernelFree, SessionInv, Dev!TypeOK, Dev!EmptyQueue,
                  Dev!KernelStates
    <2>4. ~unplugged => ~streaming
      BY <2>1 DEF SessionInv, StreamingInside
    <2>5. ~unplugged => \A s \in Dev!Slots : kernel'[s] = "absent"
      BY <1>8, <2>4 DEF HandleFree, Dev!ReleaseBuffers, Dev!KernelFree
    <2> QED
      BY <1>1, <1>3, <1>8, <2>1, <2>2, <2>3, <2>4, <2>5
         DEF HandleFree, Handle, SessionInv, cameraVars, CameraTyped,
             CallsExclude, CacheHeld, StreamingInside
  <1> QED
    BY <1>4, <1>5, <1>6, <1>7, <1>8

(* queueRequest() handled in the camera manager thread: the cache is       *)
(* there, since the request was posted while the camera was running.       *)
LEMMA HandleQueueRequestStep ==
  ASSUME SessionInv, P!PipeInv, HandleQueueRequest
  PROVE  SessionInv'
  <1> DEFINE r == Head(messages).request
  <1>1. /\ r \in Requests
        /\ RequestMessages # {}
        /\ ThreadsTyped'
        /\ CallIsLast'
        /\ UNCHANGED <<control, queueing>>
    BY HandleRequestFacts DEF SessionInv, HandleQueueRequest, Handle
  <1>2. hasCache
    BY <1>1 DEF SessionInv, CacheHeld
  <1>3. ~unplugged => state = "Running" \/ control = "stop"
    BY <1>1 DEF SessionInv, StreamingInside
  <1>4. UNCHANGED cameraVars
    BY DEF HandleQueueRequest, Handle
  <1>5. \/ UNCHANGED devVars
        \/ /\ \E ok \in BOOLEAN : Dev!QueueBuffer(PendingBuffer(r), ok)
           /\ stage[r] = "posted"
    BY <1>2 DEF HandleQueueRequest, Pipe!QueueRequest
  <1>6. crashed' = FALSE
    BY <1>2 DEF HandleQueueRequest, SessionInv
  <1> HIDE DEF r
  <1>7. CASE UNCHANGED devVars
    <2>1. UNCHANGED Dev!Queued
      BY <1>7, QueuedUnchanged DEF devVars
    <2> QED
      BY <1>1, <1>2, <1>3, <1>4, <1>6, <1>7, <2>1
         DEF SessionInv, devVars, cameraVars, Dev!TypeOK, CameraTyped,
             CallsExclude, CacheHeld, StreamingInside
  <1>8. ASSUME NEW ok \in BOOLEAN, Dev!QueueBuffer(PendingBuffer(r), ok),
               stage[r] = "posted"
        PROVE  SessionInv'
    <2>1. PendingBuffer(r) \in Dev!FrameBuffers
      <3>1. pending[r] # {} /\ pending[r] \subseteq Dev!FrameBuffers
        BY <1>1, <1>8 DEF P!PipeInv, P!TypeOK, P!StagesAgree
      <3> QED
        BY <3>1 DEF PendingBuffer
    <2> DEFINE b == PendingBuffer(r)
    <2> HIDE DEF b
    <2>2. Dev!TypeOK'
      BY <1>8, <2>1 DEF b, Dev!QueueBuffer, Dev!CacheTake, Dev!ArmOnQueue,
                        SessionInv, Dev!TypeOK, Dev!KernelStates
    <2>3. UNCHANGED <<hasCache, streaming, unplugged>>
      BY <1>8 DEF Dev!QueueBuffer
    <2> QED
      BY <1>1, <1>2, <1>3, <1>4, <1>6, <2>2, <2>3
         DEF SessionInv, cameraVars, CameraTyped, CallsExclude, CacheHeld,
             StreamingInside
  <1> QED
    BY <1>5, <1>7, <1>8

(* Device events.                                                          *)
LEMMA EventStep ==
  ASSUME SessionInv,
         \/ \E b \in Dev!FrameBuffers : BufferAvailable(b)
         \/ Disconnect
         \/ \E s \in Dev!Slots : Fill(s)
         \/ Unplug
         \/ UNCHANGED vars
  PROVE  SessionInv'
  <1>1. /\ UNCHANGED <<messages, control, queueing, crashed>>
        /\ UNCHANGED <<disconnected, allocator>> \/ disconnected' = TRUE
        /\ UNCHANGED allocator
    BY DEF BufferAvailable, Disconnect, Fill, Unplug, vars, threadVars,
           cameraVars
  <1>2. CallIsLast' /\ RequestMessages' = RequestMessages
    BY <1>1, MessagesUnchanged DEF SessionInv
  <1>3. ThreadsTyped'
    BY <1>1 DEF SessionInv, ThreadsTyped
  <1>4. ASSUME NEW b \in Dev!FrameBuffers, BufferAvailable(b)
        PROVE  SessionInv'
    <2>1. Dev!TypeOK'
      BY <1>4 DEF BufferAvailable, Dev!BufferAvailable, Dev!CachePut,
                  Dev!DisarmOnDequeue, SessionInv, Dev!TypeOK,
                  Dev!KernelStates
    <2>2. UNCHANGED <<cameraVars, hasCache, streaming, unplugged>>
      BY <1>4 DEF BufferAvailable, Dev!BufferAvailable
    <2>3. b \in Dev!Queued
      BY <1>4 DEF BufferAvailable, Pipe!BufferReady
    <2>4. ~hasCache' /\ ~unplugged' =>
              \A s \in Dev!Slots : kernel'[s] = "absent"
      BY <1>4 DEF BufferAvailable, Dev!BufferAvailable, SessionInv, CacheHeld
    <2> QED
      BY <1>1, <1>2, <1>3, <2>1, <2>2, <2>3, <2>4
         DEF SessionInv, cameraVars, CameraTyped, CallsExclude, CacheHeld,
             StreamingInside
  <1>5. CASE Disconnect
    <2>1. UNCHANGED devVars /\ UNCHANGED Dev!Queued
      BY <1>5, QueuedUnchanged DEF Disconnect, devVars
    <2> QED
      BY <1>1, <1>2, <1>3, <1>5, <2>1
         DEF Disconnect, SessionInv, devVars, Dev!TypeOK, CameraTyped, States,
             CallsExclude, CacheHeld, StreamingInside
  <1>6. ASSUME NEW s \in Dev!Slots, Fill(s)
        PROVE  SessionInv'
    <2>1. /\ UNCHANGED <<opened, memoryType, hasCache, free, planes,
                         queuedBuffers, fdEnabled, streaming, unplugged,
                         cameraVars>>
          /\ UNCHANGED Dev!Queued
      BY <1>6, QueuedUnchanged DEF Fill, Dev!Fill
    <2>2. kernel' \in [Dev!Slots -> Dev!KernelStates]
      BY <1>6 DEF Fill, Dev!Fill, SessionInv, Dev!TypeOK, Dev!KernelStates
    <2>3. ~unplugged => hasCache
      BY <1>6 DEF Fill, Dev!Fill, SessionInv, CacheHeld
    <2> QED
      BY <1>1, <1>2, <1>3, <2>1, <2>2, <2>3
         DEF SessionInv, cameraVars, Dev!TypeOK, CameraTyped, CallsExclude,
             CacheHeld, StreamingInside
  <1>7. CASE Unplug
    <2>1. /\ UNCHANGED <<opened, memoryType, hasCache, free, planes,
                         queuedBuffers, fdEnabled, kernel, streaming,
                         cameraVars>>
          /\ unplugged' = TRUE
      BY <1>7 DEF Unplug, Dev!Unplug
    <2> QED
      BY <1>1, <1>2, <1>3, <2>1
         DEF SessionInv, cameraVars, Dev!TypeOK, CameraTyped, CallsExclude,
             CacheHeld, StreamingInside
  <1>8. CASE UNCHANGED vars
    <2>1. UNCHANGED Dev!Queued
      BY <1>8, QueuedUnchanged DEF vars, devVars
    <2> QED
      BY <1>1, <1>2, <1>3, <1>8, <2>1
         DEF vars, SessionInv, devVars, cameraVars, Dev!TypeOK, CameraTyped,
             CallsExclude, CacheHeld, StreamingInside
  <1> QED
    BY <1>4, <1>5, <1>6, <1>7, <1>8

-----------------------------------------------------------------------------
(* The invariant of a session, for an application that keeps               *)
(* queueRequest() apart from start() and stop().                           *)
THEOREM SessionInvariance ==
    ASSUME Synchronised
    PROVE  Spec => [](SessionInv /\ P!PipeInv)
  <1>1. Init => SessionInv
    <2> SUFFICES ASSUME Init PROVE SessionInv
      OBVIOUS
    <2>1. Dev!TypeOK
      BY DEF Init, Dev!TypeOK, Dev!EmptyQueue, Dev!KernelStates
    <2>2. Dev!Queued = {} /\ RequestMessages = {} /\ CallIsLast
      <3>1. Dev!InQueue = {}
        BY DEF Init, Dev!InQueue, Dev!EmptyQueue
      <3>2. Len(messages) = 0 /\ 1 .. Len(messages) = {}
        BY DEF Init
      <3>3. Dev!Queued = {}
        BY <3>1 DEF Dev!Queued
      <3>4. RequestMessages = {}
        BY <3>2, Zenon DEF RequestMessages
      <3>5. CallIsLast
        BY <3>2, Zenon DEF CallIsLast
      <3> QED
        BY <3>3, <3>4, <3>5
    <2>3. ThreadsTyped /\ CameraTyped
      <3>1. messages \in Seq(Messages)
        BY DEF Init
      <3> QED
        BY <3>1 DEF Init, ThreadsTyped, CameraTyped, States, AllocatorStates,
                    ControlStates
    <2>4. CallsExclude /\ CacheHeld /\ StreamingInside
      BY <2>2 DEF Init, CallsExclude, CacheHeld, StreamingInside
    <2> QED
      BY <2>1, <2>2, <2>3, <2>4 DEF Init, SessionInv
  <1>2. SessionInv /\ P!PipeInv /\ [Next]_vars => SessionInv'
    BY ControlStep, RequestThreadStep, HandleCallStep, HandleQueueRequestStep,
       EventStep DEF Next, HandleMessage
  <1> QED
    BY <1>1, <1>2, RequestsAreAnAspect, P!PipelineInvariance, PTL DEF Spec

(* queueBuffer() is never reached without a cache.                         *)
THEOREM SessionIsSafe ==
    ASSUME Synchronised
    PROVE  Spec => []SessionSafe
  <1>1. SessionInv /\ P!PipeInv => SessionSafe
    BY DEF SessionInv, P!PipeInv, P!TypeOK, Pipe!TypeOK, SessionSafe, TypeOK,
           NoNullCache, CameraTyped, ThreadsTyped
  <1> QED
    BY <1>1, SessionInvariance, PTL

(* A request goes back to the application only in a completion, for        *)
(* buffers the driver held.                                                *)
LEMMA ReturnsAreCompletions ==
  ASSUME P!PipeInv, ThreadsTyped, Next, NEW r \in Requests,
         stage[r] = "camera", stage'[r] = "app"
  PROVE  \/ HandleStop
         \/ \E b \in Dev!FrameBuffers : BufferAvailable(b)
  <1>1. stage \in [Requests -> {"app", "posted", "camera"}]
    BY DEF P!PipeInv, P!TypeOK
  <1>2. CASE ControlThread
    BY <1>2 DEF ControlThread, Acquire, Release, Configure, ConfigureReturn,
                Start, StartReturn, Stop, StopFree, AllocatorCreate,
                AllocatorAllocate, AllocatorFree, AllocatorFreed,
                AllocatorDelete, reqVars
  <1>3. CASE RequestThread
    BY <1>1, <1>3 DEF RequestThread, CreateRequest, AddBuffer, DeleteRequest,
                QueueRequestCheck, QueueRequestPost, Pipe!CreateRequest,
                Pipe!AddBuffer, Pipe!DeleteRequest, Pipe!PostRequest, reqVars
  <1>4. CASE HandleConfigure \/ HandleStart \/ HandleExport \/ HandleFree
    BY <1>4 DEF HandleConfigure, HandleStart, HandleExport, HandleFree,
                reqVars
  <1>5. CASE HandleQueueRequest
    BY <1>1, <1>5 DEF HandleQueueRequest, Pipe!QueueRequest, reqVars
  <1>6. CASE Disconnect \/ (\E s \in Dev!Slots : Fill(s)) \/ Unplug
    BY <1>6 DEF Disconnect, Fill, Unplug, reqVars
  <1> QED
    BY <1>2, <1>3, <1>4, <1>5, <1>6 DEF Next, HandleMessage

(* Once stop() has returned, nothing of the session is left in a message,  *)
(* in the queue or in the driver, and no request completes any more.       *)
THEOREM StoppedIsQuiet ==
    ASSUME Synchronised
    PROVE  Spec => StoppedMeansQuiet
  <1> DEFINE Drained == Dev!Queued = {} => queuedRequests = <<>>
             Quiet ==
               /\ StoppedMeansDrained'
               /\ (\E r \in Requests : stage[r] = "camera" /\ stage'[r] = "app")
                     => state = "Running" \/ control = "stop"
  <1>1. SessionInv /\ Drained => StoppedMeansDrained
    <2> SUFFICES ASSUME SessionInv, Drained, control = "idle",
                        state # "Running", ~unplugged
                 PROVE  /\ messages = <<>>
                        /\ queuedRequests = <<>>
                        /\ Dev!Queued = {}
      BY DEF StoppedMeansDrained
    <2>1. RequestMessages = {} /\ Dev!Queued = {}
      BY DEF SessionInv, StreamingInside
    <2>2. \A i \in 1 .. Len(messages) : messages[i].op = "queueRequest"
      BY OnlyRequests DEF SessionInv, Awaited
    <2>3. messages \in Seq(Messages)
      BY DEF SessionInv, ThreadsTyped
    <2>4. Len(messages) = 0
      BY <2>1, <2>2, <2>3 DEF RequestMessages
    <2> QED
      BY <2>1, <2>3, <2>4
  <1>2. SessionInv /\ P!PipeInv /\ [Next]_vars /\ StoppedMeansDrained'
          => [Quiet]_vars
    <2> SUFFICES ASSUME SessionInv, P!PipeInv, Next, StoppedMeansDrained'
                 PROVE  Quiet
      OBVIOUS
    <2>1. ASSUME NEW r \in Requests, stage[r] = "camera", stage'[r] = "app"
          PROVE  state = "Running" \/ control = "stop"
      <3>1. CASE HandleStop
        <4>1. Awaited(control) = "stop"
          BY <3>1, HandleCallFacts
             DEF HandleStop, Handle, SessionInv, CallOps
        <4> QED
          BY <4>1 DEF Awaited
      <3>2. ASSUME NEW b \in Dev!FrameBuffers, BufferAvailable(b)
            PROVE  state = "Running" \/ control = "stop"
        <4>1. b \in Dev!Queued /\ ~unplugged
          BY <3>2 DEF BufferAvailable, Dev!BufferAvailable, Pipe!BufferReady
        <4> QED
          BY <4>1 DEF SessionInv, StreamingInside
      <3> QED
        BY <2>1, <3>1, <3>2, ReturnsAreCompletions DEF SessionInv
    <2> QED
      BY <2>1
  <1>3. Spec => []Drained
    BY RequestsAreAnAspect, P!EmptyHardwareEmptyQueue, PTL
  <1> QED
    BY <1>1, <1>2, <1>3, SessionInvariance, PTL DEF Spec, StoppedMeansQuiet
=============================================================================
