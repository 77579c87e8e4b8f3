----------------------- MODULE PipelineHandler_proofs -----------------------
(***************************************************************************)
(* The safety of the request queue for any set of requests and buffers,    *)
(* and the proof that it implements RequestFifo.                           *)
(***************************************************************************)
EXTENDS PipelineHandler, TLAPS

(* A buffer a request waits for points back to it, and the request has not *)
(* been completed.                                                         *)
PendingOwned ==
    \A r \in Requests : \A b \in pending[r] :
        requestOf[b] = r /\ status[r] = "Pending"

(* Where a request is.  The queue holds a request once.                    *)
StagesAgree ==
    /\ \A r \in Queue : stage[r] = "camera"
    /\ \A r \in Requests : stage[r] = "posted" => pending[r] # {}
    /\ \A r \in Requests : status[r] = "None" => stage[r] = "app"

QueuedOnce ==
    \A i, j \in 1 .. Len(queuedRequests) :
        queuedRequests[i] = queuedRequests[j] => i = j

(* The inductive invariant.                                                *)
PipeInv ==
    /\ TypeOK
    /\ PendingOwned
    /\ DeviceBuffersOwned
    /\ QueuedRequestsAdvance
    /\ StagesAgree
    /\ QueuedOnce

USE RequestAssumption

-----------------------------------------------------------------------------
(***************************************************************************)
(* Requests and the queue.                                                 *)
(***************************************************************************)

(* A pipeline handler without requests satisfies the invariant.            *)
LEMMA InitInv == Init => PipeInv
  <1> SUFFICES ASSUME Init PROVE PipeInv
    OBVIOUS
  <1>1. Queue = {}
    BY DEF Init, Queue
  <1>2. TypeOK
    BY DEF Init, TypeOK
  <1> QED
    BY <1>1, <1>2 DEF Init, PipeInv, PendingOwned, DeviceBuffersOwned,
                      QueuedRequestsAdvance, StagesAgree, QueuedOnce

(* The application's calls leave the queue and the hardware alone.         *)
LEMMA CreateRequestInv ==
  ASSUME PipeInv, NEW r \in Requests, CreateRequest(r)
  PROVE  PipeInv'
  <1>1. r \notin Queue /\ pending[r] = {} /\ stage[r] = "app"
    BY DEF CreateRequest, PipeInv, StagesAgree, PendingOwned
  <1>2. TypeOK'
    BY DEF CreateRequest, PipeInv, TypeOK
  <1>3. Queue' = Queue
    BY DEF CreateRequest, Queue
  <1> USE DEF CreateRequest, PipeInv, TypeOK
  <1>4. PendingOwned'
    BY <1>1 DEF PendingOwned
  <1>5. DeviceBuffersOwned'
    BY <1>1 DEF DeviceBuffersOwned
  <1>6. QueuedRequestsAdvance'
    BY <1>1, <1>3 DEF QueuedRequestsAdvance, Queue
  <1>7. StagesAgree'
    BY <1>1, <1>3 DEF StagesAgree
  <1>8. QueuedOnce'
    BY DEF QueuedOnce
  <1> QED
    BY <1>2, <1>4, <1>5, <1>6, <1>7, <1>8

(* addBuffer() moves the pointer of a buffer that no request waits for and *)
(* that the hardware therefore does not hold.                              *)
LEMMA AddBufferInv ==
  ASSUME PipeInv, NEW r \in Requests, NEW b \in Buffers, AddBuffer(r, b)
  PROVE  PipeInv'
  <1>1. r \notin Queue /\ b \notin device
    BY DEF AddBuffer, PipeInv, StagesAgree, DeviceBuffersOwned
  <1>2. TypeOK'
    BY DEF AddBuffer, PipeInv, TypeOK
  <1>3. Queue' = Queue
    BY DEF AddBuffer, Queue
  <1> USE DEF AddBuffer, PipeInv, TypeOK
  <1>4. PendingOwned'
    BY <1>1 DEF PendingOwned
  <1>5. DeviceBuffersOwned'
    BY <1>1 DEF DeviceBuffersOwned
  <1>6. QueuedRequestsAdvance'
    BY <1>1, <1>3 DEF QueuedRequestsAdvance, Queue
  <1>7. StagesAgree'
    BY <1>1, <1>3 DEF StagesAgree
  <1>8. QueuedOnce'
    BY DEF QueuedOnce
  <1> QED
    BY <1>2, <1>4, <1>5, <1>6, <1>7, <1>8

(* A request that was not queued has no buffer in the hardware.            *)
LEMMA DeleteRequestInv ==
  ASSUME PipeInv, NEW r \in Requests, DeleteRequest(r)
  PROVE  PipeInv'
  <1>1. r \notin Queue /\ \A b \in device : requestOf[b] # r
    BY DEF DeleteRequest, PipeInv, StagesAgree, DeviceBuffersOwned
  <1>2. TypeOK'
    BY DEF DeleteRequest, PipeInv, TypeOK
  <1>3. Queue' = Queue
    BY DEF DeleteRequest, Queue
  <1> USE DEF DeleteRequest, PipeInv, TypeOK
  <1>4. PendingOwned'
    BY <1>1 DEF PendingOwned
  <1>5. DeviceBuffersOwned'
    BY <1>1 DEF DeviceBuffersOwned
  <1>6. QueuedRequestsAdvance'
    BY <1>1, <1>3 DEF QueuedRequestsAdvance, Queue
  <1>7. StagesAgree'
    BY <1>1, <1>3 DEF StagesAgree
  <1>8. QueuedOnce'
    BY DEF QueuedOnce
  <1> QED
    BY <1>2, <1>4, <1>5, <1>6, <1>7, <1>8

(* Camera::queueRequest() changes who holds the request, nothing else.     *)
LEMMA PostRequestInv ==
  ASSUME PipeInv, NEW r \in Requests, PostRequest(r)
  PROVE  PipeInv'
  <1>1. r \notin Queue /\ \A b \in device : requestOf[b] # r
    BY DEF PostRequest, PipeInv, StagesAgree, DeviceBuffersOwned
  <1>2. TypeOK'
    BY DEF PostRequest, PipeInv, TypeOK
  <1>3. Queue' = Queue
    BY DEF PostRequest, Queue
  <1> USE DEF PostRequest, PipeInv, TypeOK
  <1>4. PendingOwned'
    BY <1>1 DEF PendingOwned
  <1>5. DeviceBuffersOwned'
    BY <1>1 DEF DeviceBuffersOwned
  <1>6. QueuedRequestsAdvance'
    BY <1>1, <1>3 DEF QueuedRequestsAdvance, Queue
  <1>7. StagesAgree'
    BY <1>1, <1>3 DEF StagesAgree
  <1>8. QueuedOnce'
    BY DEF QueuedOnce
  <1> QED
    BY <1>2, <1>4, <1>5, <1>6, <1>7, <1>8

(* The queue holds requests.                                               *)
LEMMA QueueType == TypeOK => Queue \subseteq Requests
  BY DEF TypeOK, Queue

(* Appending a request that is not in the queue.                           *)
LEMMA AppendQueue ==
  ASSUME TypeOK, QueuedOnce, NEW r \in Requests, r \notin Queue,
         queuedRequests' = Append(queuedRequests, r)
  PROVE  /\ queuedRequests' \in Seq(Requests)
         /\ Queue' = Queue \cup {r}
         /\ QueuedOnce'
  <1>1. queuedRequests \in Seq(Requests)
    BY DEF TypeOK
  <1>2. /\ Len(queuedRequests') = Len(queuedRequests) + 1
        /\ queuedRequests'[Len(queuedRequests) + 1] = r
        /\ \A i \in 1 .. Len(queuedRequests) :
              queuedRequests'[i] = queuedRequests[i]
    BY <1>1
  <1>3. queuedRequests' \in Seq(Requests)
    BY <1>1
  <1>4. Queue' = Queue \cup {r}
    <2>1. Queue' \subseteq Queue \cup {r}
      BY <1>1, <1>2 DEF Queue
    <2>2. Queue \cup {r} \subseteq Queue'
      BY <1>1, <1>2 DEF Queue
    <2> QED
      BY <2>1, <2>2
  <1>5. QueuedOnce'
    BY <1>1, <1>2 DEF QueuedOnce, Queue
  <1> QED
    BY <1>3, <1>4, <1>5

(* queueRequest(): on the list with all of its buffers in the hardware, or *)
(* off the list with some of them.                                         *)
LEMMA QueueRequestInv ==
  ASSUME PipeInv, NEW r \in Requests, NEW accepted \in SUBSET pending[r],
         QueueRequest(r, accepted)
  PROVE  PipeInv'
  <1>1. r \notin Queue /\ pending[r] # {} /\ status[r] = "Pending"
    BY DEF QueueRequest, PipeInv, StagesAgree, PendingOwned
  <1>2. /\ stage' = [stage EXCEPT ![r] = "camera"]
        /\ device' = device \cup accepted
        /\ UNCHANGED <<status, cancelled, pending, requestOf>>
    BY DEF QueueRequest
  <1>3. CASE accepted = pending[r]
    <2>1. /\ queuedRequests' \in Seq(Requests)
          /\ Queue' = Queue \cup {r}
          /\ QueuedOnce'
      BY <1>1, <1>3, AppendQueue DEF QueueRequest, PipeInv
    <2>2. TypeOK'
      BY <1>2, <2>1 DEF PipeInv, TypeOK
    <2> USE <1>1, <1>2, <1>3, <2>1 DEF PipeInv, TypeOK
    <2>3. PendingOwned'
      BY DEF PendingOwned
    <2>4. DeviceBuffersOwned'
      BY DEF DeviceBuffersOwned, PendingOwned
    <2>5. QueuedRequestsAdvance'
      BY DEF QueuedRequestsAdvance
    <2>6. StagesAgree'
      BY QueueType DEF StagesAgree
    <2> QED
      BY <2>2, <2>3, <2>4, <2>5, <2>6
  <1>4. CASE accepted # pending[r]
    <2>1. queuedRequests' = queuedRequests /\ Queue' = Queue
      BY <1>4 DEF QueueRequest, Queue
    <2>2. TypeOK'
      BY <1>2, <2>1 DEF PipeInv, TypeOK
    <2> USE <1>1, <1>2, <1>4, <2>1 DEF PipeInv, TypeOK
    <2>3. PendingOwned'
      BY DEF PendingOwned
    <2>4. DeviceBuffersOwned'
      BY DEF DeviceBuffersOwned, PendingOwned
    <2>5. QueuedRequestsAdvance'
      BY DEF QueuedRequestsAdvance
    <2>6. StagesAgree'
      BY QueueType DEF StagesAgree
    <2>7. QueuedOnce'
      BY DEF QueuedOnce
    <2> QED
      BY <2>2, <2>3, <2>4, <2>5, <2>6, <2>7
  <1> QED
    BY <1>3, <1>4

-----------------------------------------------------------------------------
(***************************************************************************)
(* Completion.                                                             *)
(***************************************************************************)

Statuses == {"None", "Pending", "Complete", "Cancelled"}

(* What completing the buffers in S does, with the statuses st before the  *)
(* first n requests of the queue are returned and deleted.                 *)
Completion(S, st, n) ==
    /\ PopCount(st, n)
    /\ \A r \in Requests :
         IF Touched(r, S) /\ pending[r] \subseteq S
           THEN st[r] \in {"Complete", "Cancelled"}
           ELSE st[r] = status[r]
    /\ pending' = [r \in Requests |-> pending[r] \ S]
    /\ requestOf' = [b \in Buffers |->
                        IF b \in S THEN NoRequest ELSE requestOf[b]]
    /\ status' = [r \in Requests |->
                        IF r \in Popped(n) THEN "None" ELSE st[r]]
    /\ stage' = [r \in Requests |->
                        IF r \in Popped(n) THEN "app" ELSE stage[r]]
    /\ queuedRequests' = SubSeq(queuedRequests, n + 1, Len(queuedRequests))

(* CompleteBuffers is a Completion, and cancelled_ stays a flag.           *)
LEMMA CompletionOf ==
  ASSUME TypeOK, NEW S, NEW isCancelled \in BOOLEAN,
         CompleteBuffers(S, isCancelled)
  PROVE  /\ cancelled' \in [Requests -> BOOLEAN]
         /\ \E n \in 0 .. Len(queuedRequests), st \in [Requests -> Statuses] :
               Completion(S, st, n)
  <1> DEFINE left == [r \in Requests |-> pending[r] \ S]
             canc == [r \in Requests |->
                        cancelled[r] \/ (isCancelled /\ Touched(r, S))]
             st == [r \in Requests |->
                        IF Touched(r, S) /\ left[r] = {}
                          THEN StatusOf(canc[r])
                          ELSE status[r]]
  <1>1. PICK n \in 0 .. Len(queuedRequests) :
          /\ PopCount(st, n)
          /\ pending' = left
          /\ cancelled' = [r \in Requests |-> r \notin Popped(n) /\ canc[r]]
          /\ requestOf' = [b \in Buffers |->
                              IF b \in S THEN NoRequest ELSE requestOf[b]]
          /\ status' = [r \in Requests |->
                              IF r \in Popped(n) THEN "None" ELSE st[r]]
          /\ stage' = [r \in Requests |->
                              IF r \in Popped(n) THEN "app" ELSE stage[r]]
          /\ queuedRequests' = SubSeq(queuedRequests, n + 1,
                                      Len(queuedRequests))
    BY Zenon DEF CompleteBuffers
  <1>2. cancelled' \in [Requests -> BOOLEAN]
    BY <1>1, Zenon
  <1>3. \A x : StatusOf(x) \in {"Complete", "Cancelled"}
    BY DEF StatusOf
  <1> HIDE DEF canc
  <1>4. st \in [Requests -> Statuses]
    BY <1>3 DEF TypeOK, Statuses
  <1>5. \A r \in Requests :
          IF Touched(r, S) /\ pending[r] \subseteq S
            THEN st[r] \in {"Complete", "Cancelled"}
            ELSE st[r] = status[r]
    <2> SUFFICES ASSUME NEW r \in Requests
                 PROVE  IF Touched(r, S) /\ pending[r] \subseteq S
                          THEN st[r] \in {"Complete", "Cancelled"}
                          ELSE st[r] = status[r]
      OBVIOUS
    <2>1. (left[r] = {}) <=> (pending[r] \subseteq S)
      OBVIOUS
    <2> HIDE DEF left
    <2> QED
      BY <2>1, <1>3
  <1>6. Completion(S, st, n)
    <2> HIDE DEF st
    <2> QED
      BY <1>1, <1>5 DEF Completion
  <1> QED
    BY <1>2, <1>4, <1>6

(* What is left of the queue when its first n requests are popped.         *)
LEMMA PopQueue ==
  ASSUME TypeOK, QueuedOnce, NEW n \in 0 .. Len(queuedRequests),
         queuedRequests' = SubSeq(queuedRequests, n + 1, Len(queuedRequests))
  PROVE  /\ queuedRequests' \in Seq(Requests)
         /\ Queue' = Queue \ Popped(n)
         /\ Popped(n) \subseteq Queue
         /\ QueuedOnce'
  <1>1. queuedRequests \in Seq(Requests)
    BY DEF TypeOK
  <1>2. /\ Len(queuedRequests') = Len(queuedRequests) - n
        /\ \A i \in 1 .. Len(queuedRequests) - n :
              queuedRequests'[i] = queuedRequests[n + i]
    BY <1>1
  <1>3. queuedRequests' \in Seq(Requests)
    BY <1>1
  <1>4. Popped(n) \subseteq Queue
    BY <1>1 DEF Popped, Queue
  <1>5. Queue' = Queue \ Popped(n)
    <2>1. ASSUME NEW i \in 1 .. Len(queuedRequests')
          PROVE  queuedRequests'[i] \in Queue \ Popped(n)
      BY <1>1, <1>2 DEF QueuedOnce, Queue, Popped
    <2>2. ASSUME NEW r \in Queue, r \notin Popped(n)
          PROVE  r \in Queue'
      <3>1. PICK i \in 1 .. Len(queuedRequests) : r = queuedRequests[i]
        BY DEF Queue
      <3>2. i - n \in 1 .. Len(queuedRequests')
        BY <1>1, <1>2, <3>1, <2>2 DEF Popped
      <3>3. queuedRequests'[i - n] = r
        BY <1>1, <1>2, <3>1, <3>2
      <3> QED
        BY <3>2, <3>3 DEF Queue
    <2>3. Queue' = {queuedRequests'[i] : i \in 1 .. Len(queuedRequests')}
      BY DEF Queue
    <2> QED
      BY <2>1, <2>2, <2>3
  <1>6. QueuedOnce'
    BY <1>1, <1>2 DEF QueuedOnce
  <1> QED
    BY <1>3, <1>4, <1>5, <1>6

(* A request is finished exactly when it waits for nothing outside of S,   *)
(* so the requests popped wait for nothing.                                *)
LEMMA CompletionFacts ==
  ASSUME PipeInv, NEW S \in SUBSET device,
         NEW n \in 0 .. Len(queuedRequests), NEW st \in [Requests -> Statuses],
         Completion(S, st, n)
  PROVE  /\ \A r \in Requests :
               ~(pending[r] \subseteq S) => st[r] = "Pending"
         /\ \A r \in Queue : pending[r] \subseteq S => st[r] # "Pending"
         /\ \A r \in Popped(n) : pending[r] \subseteq S /\ st[r] # "Pending"
         /\ Popped(n) \subseteq Queue
         /\ Queue' = Queue \ Popped(n)
  <1>1. ASSUME NEW r \in Requests, ~(pending[r] \subseteq S)
        PROVE  st[r] = "Pending"
    BY <1>1 DEF Completion, PipeInv, PendingOwned
  <1>2. ASSUME NEW r \in Queue, pending[r] \subseteq S
        PROVE  st[r] # "Pending"
    <2>1. r \in Requests
      BY QueueType DEF PipeInv
    <2>2. CASE pending[r] = {}
      BY <2>1, <2>2 DEF Completion, PipeInv, QueuedRequestsAdvance
    <2>3. CASE pending[r] # {}
      <3>1. Touched(r, S)
        BY <1>2, <2>1, <2>3 DEF Touched, PipeInv, PendingOwned
      <3> QED
        BY <1>2, <2>1, <3>1 DEF Completion
    <2> QED
      BY <2>2, <2>3
  <1>3. Popped(n) \subseteq Queue /\ Queue' = Queue \ Popped(n)
    BY PopQueue DEF Completion, PipeInv
  <1>4. ASSUME NEW r \in Popped(n)
        PROVE  pending[r] \subseteq S /\ st[r] # "Pending"
    <2>1. r \in Requests
      BY <1>3, QueueType DEF PipeInv
    <2>2. st[r] # "Pending"
      BY DEF Completion, PopCount, Popped
    <2> QED
      BY <1>1, <2>1, <2>2
  <1> QED
    BY <1>1, <1>2, <1>3, <1>4

(* bufferReady slots and stop(), for any set of buffers returned at once.  *)
LEMMA CompleteBuffersInv ==
  ASSUME PipeInv, NEW S \in SUBSET device, NEW isCancelled \in BOOLEAN,
         CompleteBuffers(S, isCancelled), device' = device \ S
  PROVE  PipeInv'
  <1>1. PICK n \in 0 .. Len(queuedRequests), st \in [Requests -> Statuses] :
          Completion(S, st, n)
    BY CompletionOf DEF PipeInv
  <1>2. /\ \A r \in Requests : ~(pending[r] \subseteq S) => st[r] = "Pending"
        /\ \A r \in Queue : pending[r] \subseteq S => st[r] # "Pending"
        /\ \A r \in Popped(n) : pending[r] \subseteq S /\ st[r] # "Pending"
        /\ Popped(n) \subseteq Queue
        /\ Queue' = Queue \ Popped(n)
    BY <1>1, CompletionFacts
  <1>3. Queue \subseteq Requests
    BY QueueType DEF PipeInv
  <1>4. queuedRequests' \in Seq(Requests) /\ QueuedOnce'
    BY <1>1, PopQueue DEF Completion, PipeInv
  <1>5. TypeOK'
    <2>1. cancelled' \in [Requests -> BOOLEAN]
      BY CompletionOf DEF PipeInv
    <2>2. /\ pending' \in [Requests -> SUBSET Buffers]
          /\ requestOf' \in [Buffers -> Requests \cup {NoRequest}]
      BY <1>1 DEF Completion, PipeInv, TypeOK
    <2>3. /\ status' \in [Requests -> Statuses]
          /\ stage' \in [Requests -> {"app", "posted", "camera"}]
      BY <1>1 DEF Completion, PipeInv, TypeOK, Statuses
    <2>4. device' \in SUBSET Buffers
      BY DEF PipeInv, TypeOK
    <2> QED
      BY <1>4, <2>1, <2>2, <2>3, <2>4 DEF TypeOK, Statuses
  <1>6. PendingOwned'
    <2> SUFFICES ASSUME NEW r \in Requests, NEW b \in pending'[r]
                 PROVE  requestOf'[b] = r /\ status'[r] = "Pending"
      BY DEF PendingOwned
    <2>1. b \in pending[r] /\ b \notin S /\ b \in Buffers
      BY <1>1 DEF Completion, PipeInv, TypeOK
    <2>2. st[r] = "Pending" /\ r \notin Popped(n)
      BY <1>2, <2>1
    <2> QED
      BY <1>1, <2>1, <2>2 DEF Completion, PipeInv, PendingOwned
  <1>7. DeviceBuffersOwned'
    <2> SUFFICES ASSUME NEW b \in device'
                 PROVE  /\ requestOf'[b] \in Requests
                        /\ stage'[requestOf'[b]] = "camera"
                        /\ status'[requestOf'[b]] = "Pending"
                        /\ b \in pending'[requestOf'[b]]
      BY DEF DeviceBuffersOwned
    <2> DEFINE r == requestOf[b]
    <2>1. b \in device /\ b \notin S /\ b \in Buffers
      BY DEF PipeInv, TypeOK
    <2>2. /\ r \in Requests
          /\ stage[r] = "camera"
          /\ b \in pending[r]
      BY <2>1 DEF PipeInv, DeviceBuffersOwned
    <2>3. requestOf'[b] = r
      BY <1>1, <2>1 DEF Completion
    <2> HIDE DEF r
    <2>4. st[r] = "Pending" /\ r \notin Popped(n)
      BY <1>2, <2>1, <2>2
    <2> QED
      BY <1>1, <2>1, <2>2, <2>3, <2>4 DEF Completion
  <1>8. QueuedRequestsAdvance'
    <2> SUFFICES ASSUME NEW r \in Queue'
                 PROVE  /\ pending'[r] \subseteq device'
                        /\ (pending'[r] = {}) <=> (status'[r] # "Pending")
      BY DEF QueuedRequestsAdvance
    <2>1. r \in Queue /\ r \notin Popped(n) /\ r \in Requests
      BY <1>2, <1>3
    <2>2. pending'[r] = pending[r] \ S /\ status'[r] = st[r]
      BY <1>1, <2>1 DEF Completion
    <2>3. pending[r] \subseteq device
      BY <2>1 DEF PipeInv, QueuedRequestsAdvance
    <2> QED
      BY <1>2, <2>1, <2>2, <2>3
  <1>9. StagesAgree'
    <2>1. ASSUME NEW r \in Queue' PROVE stage'[r] = "camera"
      BY <1>1, <1>2, <1>3 DEF Completion, PipeInv, StagesAgree
    <2>2. ASSUME NEW r \in Requests, stage'[r] = "posted"
          PROVE  pending'[r] # {}
      <3>1. stage[r] = "posted"
        BY <1>1, <2>2 DEF Completion
      <3>2. \A b \in S : b \notin pending[r]
        BY <3>1 DEF PipeInv, DeviceBuffersOwned, PendingOwned
      <3> QED
        BY <1>1, <3>1, <3>2 DEF Completion, PipeInv, StagesAgree
    <2>3. ASSUME NEW r \in Requests, status'[r] = "None"
          PROVE  stage'[r] = "app"
      BY <1>1, <2>3 DEF Completion, PipeInv, StagesAgree
    <2> QED
      BY <2>1, <2>2, <2>3 DEF StagesAgree
  <1> QED
    BY <1>4, <1>5, <1>6, <1>7, <1>8, <1>9 DEF PipeInv

-----------------------------------------------------------------------------
(* The invariant of the request queue.                                     *)
THEOREM PipelineInvariance == Spec => []PipeInv
  <1>1. PipeInv /\ [Next]_pipeVars => PipeInv'
    <2> SUFFICES ASSUME PipeInv, [Next]_pipeVars PROVE PipeInv'
      OBVIOUS
    <2>1. CASE \E r \in Requests :
                  \/ CreateRequest(r)
                  \/ \E b \in Buffers : AddBuffer(r, b)
                  \/ DeleteRequest(r)
                  \/ PostRequest(r)
      BY <2>1, CreateRequestInv, AddBufferInv, DeleteRequestInv,
         PostRequestInv
    <2>2. CASE \E r \in Requests : \E S \in SUBSET pending[r] :
                  QueueRequest(r, S)
      BY <2>2, QueueRequestInv
    <2>3. CASE \E b \in Buffers : BufferReady(b)
      <3>1. PICK b \in device :
              CompleteBuffers({b}, FALSE) /\ device' = device \ {b}
        BY <2>3 DEF BufferReady
      <3> QED
        BY <3>1, CompleteBuffersInv
    <2>4. CASE CompleteBuffers(device, TRUE) /\ device' = {}
      BY <2>4, CompleteBuffersInv
    <2>5. CASE UNCHANGED pipeVars
      BY <2>5 DEF pipeVars, requestVars, PipeInv, TypeOK, PendingOwned,
                  DeviceBuffersOwned, QueuedRequestsAdvance, StagesAgree,
                  QueuedOnce, Queue
    <2> QED
      BY <2>1, <2>2, <2>3, <2>4, <2>5 DEF Next, Stop, Handle
  <1> QED
    BY InitInv, <1>1, PTL DEF Spec

(* No video device returns a buffer of a request that is gone, and the     *)
(* assertion of Request::completeBuffer() holds.                           *)
THEOREM BuffersOwned == Spec => []DeviceBuffersOwned
  BY PipelineInvariance, PTL DEF PipeInv

(* No request in the queue waits for a buffer that is not in the hardware. *)
THEOREM RequestsAdvance == Spec => []QueuedRequestsAdvance
  BY PipelineInvariance, PTL DEF PipeInv

(* completeRequest() pops until it meets a request that is still pending,  *)
(* so the oldest request in the queue always waits for a buffer.           *)
OldestWaits == queuedRequests # <<>> => pending[queuedRequests[1]] # {}

(* After a completion the oldest request left is one that still waits.     *)
LEMMA OldestAfterCompletion ==
  ASSUME PipeInv, NEW S \in SUBSET device, NEW isCancelled \in BOOLEAN,
         CompleteBuffers(S, isCancelled)
  PROVE  OldestWaits'
  <1>1. queuedRequests \in Seq(Requests) /\ Queue \subseteq Requests
    BY QueueType DEF PipeInv, TypeOK
  <1>2. PICK n \in 0 .. Len(queuedRequests), st \in [Requests -> Statuses] :
          Completion(S, st, n)
    BY CompletionOf DEF PipeInv
  <1>3. /\ \A r \in Requests : ~(pending[r] \subseteq S) => st[r] = "Pending"
        /\ \A r \in Queue : pending[r] \subseteq S => st[r] # "Pending"
        /\ \A r \in Popped(n) : pending[r] \subseteq S /\ st[r] # "Pending"
        /\ Popped(n) \subseteq Queue
        /\ Queue' = Queue \ Popped(n)
    BY <1>2, CompletionFacts
  <1>4. SUFFICES ASSUME queuedRequests' # <<>>
                 PROVE  pending'[queuedRequests'[1]] # {}
    BY DEF OldestWaits
  <1>5. queuedRequests' = SubSeq(queuedRequests, n + 1,
                                 Len(queuedRequests))
    BY <1>2 DEF Completion
  <1>6. n < Len(queuedRequests)
        /\ queuedRequests'[1] = queuedRequests[n + 1]
    BY <1>1, <1>4, <1>5
  <1>7. n + 1 \in 1 .. Len(queuedRequests)
    BY <1>1, <1>6
  <1>8. queuedRequests[n + 1] \in Queue
    BY <1>7 DEF Queue
  <1>9. st[queuedRequests[n + 1]] = "Pending"
    BY <1>2, <1>6 DEF Completion, PopCount
  <1>10. ~(pending[queuedRequests[n + 1]] \subseteq S)
    BY <1>3, <1>8, <1>9
  <1>11. pending'[queuedRequests[n + 1]]
           = pending[queuedRequests[n + 1]] \ S
    BY <1>1, <1>2, <1>8 DEF Completion
  <1> QED
    BY <1>6, <1>10, <1>11

(* A step keeps it: an append leaves the oldest request or makes one that  *)
(* waits, the application's calls do not touch the requests in the queue.  *)
LEMMA OldestWaitsStep ==
  ASSUME PipeInv, OldestWaits, [Next]_pipeVars
  PROVE  OldestWaits'
  <1>1. queuedRequests \in Seq(Requests) /\ Queue \subseteq Requests
    BY QueueType DEF PipeInv, TypeOK
  <1>2. queuedRequests # <<>> => queuedRequests[1] \in Queue
    BY <1>1 DEF Queue
  <1>3. ASSUME NEW r \in Requests,
               \/ CreateRequest(r)
               \/ \E b \in Buffers : AddBuffer(r, b)
               \/ DeleteRequest(r)
               \/ PostRequest(r)
        PROVE  OldestWaits'
    <2>1. r \notin Queue
      BY <1>3 DEF CreateRequest, AddBuffer, DeleteRequest, PostRequest,
                  PipeInv, StagesAgree
    <2>2. /\ queuedRequests' = queuedRequests
          /\ \A q \in Queue : pending'[q] = pending[q]
      BY <1>1, <1>3, <2>1 DEF CreateRequest, AddBuffer, DeleteRequest,
                              PostRequest, PipeInv, TypeOK
    <2> QED
      BY <1>2, <2>2 DEF OldestWaits
  <1>4. ASSUME NEW r \in Requests, NEW S \in SUBSET pending[r],
               QueueRequest(r, S)
        PROVE  OldestWaits'
    <2>1. pending' = pending /\ pending[r] # {}
      BY <1>4 DEF QueueRequest, PipeInv, StagesAgree
    <2>2. CASE queuedRequests' = Append(queuedRequests, r)
      <3>1. queuedRequests'[1] = IF queuedRequests = <<>> THEN r
                                                  ELSE queuedRequests[1]
        BY <1>1, <2>2
      <3> QED
        BY <2>1, <3>1 DEF OldestWaits
    <2> QED
      BY <1>4, <2>1, <2>2 DEF QueueRequest, OldestWaits
  <1>5. CASE \E b \in Buffers : BufferReady(b)
    <2>1. PICK b \in device : CompleteBuffers({b}, FALSE)
      BY <1>5 DEF BufferReady
    <2> QED
      BY <2>1, OldestAfterCompletion
  <1>6. CASE CompleteBuffers(device, TRUE)
    BY <1>6, OldestAfterCompletion
  <1>7. CASE UNCHANGED pipeVars
    BY <1>7 DEF pipeVars, requestVars, OldestWaits
  <1> QED
    BY <1>3, <1>4, <1>5, <1>6, <1>7 DEF Next, Stop, Handle

(* The queue never stalls: when the hardware holds no buffer, as after     *)
(* stop(), every request accepted has gone back to the application.        *)
THEOREM EmptyHardwareEmptyQueue ==
    Spec => [](PipeInv /\ (device = {} => queuedRequests = <<>>))
  <1>1. Init => OldestWaits
    BY DEF Init, OldestWaits
  <1>2. PipeInv /\ OldestWaits /\ [Next]_pipeVars => OldestWaits'
    BY OldestWaitsStep
  <1>3. PipeInv /\ OldestWaits => (device = {} => queuedRequests = <<>>)
    <2> SUFFICES ASSUME PipeInv, OldestWaits, queuedRequests # <<>>
                 PROVE  device # {}
      OBVIOUS
    <2>1. queuedRequests[1] \in Queue
      BY DEF Queue, PipeInv, TypeOK
    <2> QED
      BY <2>1 DEF OldestWaits, PipeInv, QueuedRequestsAdvance
  <1> QED
    BY <1>1, <1>2, <1>3, PipelineInvariance, PTL DEF Spec

-----------------------------------------------------------------------------
(***************************************************************************)
(* The refinement.                                                         *)
(***************************************************************************)

(* A step that leaves the queue and the buffers its requests wait for      *)
(* alone is a stutter of the FIFO.                                         *)
LEMMA FifoStutter ==
  ASSUME queuedRequests' = queuedRequests,
         \A r \in Queue : pending'[r] = pending[r]
  PROVE  UNCHANGED <<queuedRequests, Busy>>
  <1>1. Queue' = Queue
    BY DEF Queue
  <1> QED
    BY <1>1 DEF Busy

(* queueRequest() that succeeds is Submit.                                 *)
LEMMA FifoSubmit ==
  ASSUME PipeInv, NEW r \in Requests, QueueRequest(r, pending[r])
  PROVE  Fifo!Submit(r)
  <1>1. r \notin Queue /\ pending[r] # {}
    BY DEF QueueRequest, PipeInv, StagesAgree
  <1>2. queuedRequests' = Append(queuedRequests, r) /\ pending' = pending
    BY DEF QueueRequest
  <1>3. Queue' = Queue \cup {r}
    BY <1>1, <1>2, AppendQueue DEF PipeInv
  <1>4. Busy' = Busy \cup {r}
    BY <1>1, <1>2, <1>3 DEF Busy
  <1> QED
    BY <1>1, <1>2, <1>4 DEF Fifo!Submit, Fifo!InOrder, Queue

(* Completing buffers is Finish of the requests that wait for no other.    *)
LEMMA FifoFinish ==
  ASSUME PipeInv, NEW S \in SUBSET device, NEW isCancelled \in BOOLEAN,
         CompleteBuffers(S, isCancelled)
  PROVE  Fifo!Next
  <1>1. PICK n \in 0 .. Len(queuedRequests), st \in [Requests -> Statuses] :
          Completion(S, st, n)
    BY CompletionOf DEF PipeInv
  <1>2. /\ \A r \in Requests : ~(pending[r] \subseteq S) => st[r] = "Pending"
        /\ \A r \in Queue : pending[r] \subseteq S => st[r] # "Pending"
        /\ \A r \in Popped(n) : pending[r] \subseteq S /\ st[r] # "Pending"
        /\ Popped(n) \subseteq Queue
        /\ Queue' = Queue \ Popped(n)
    BY <1>1, CompletionFacts
  <1>3. \A r \in Queue : r \in Requests /\ pending'[r] = pending[r] \ S
    BY <1>1, QueueType DEF Completion, PipeInv
  <1> DEFINE F == {r \in Busy : pending[r] \subseteq S}
  <1>4. Busy' = Busy \ F
    BY <1>2, <1>3 DEF Busy
  <1>5. \A i \in 1 .. n : queuedRequests[i] \notin Busy'
    BY <1>2, <1>4 DEF Popped, Busy
  <1>6. n < Len(queuedRequests) => queuedRequests[n + 1] \in Busy'
    <2> SUFFICES ASSUME n < Len(queuedRequests)
                 PROVE  queuedRequests[n + 1] \in Busy'
      OBVIOUS
    <2> DEFINE q == queuedRequests[n + 1]
    <2>1. q \in Queue
      BY DEF Queue, PipeInv, TypeOK
    <2>2. st[q] = "Pending"
      BY <1>1 DEF Completion, PopCount
    <2>3. ~(pending[q] \subseteq S)
      BY <1>2, <2>1, <2>2
    <2> HIDE DEF q
    <2>4. q \in Busy
      BY <2>1, <2>3 DEF Busy
    <2>5. q \in Busy'
      BY <1>4, <2>3, <2>4
    <2> QED
      BY <2>5 DEF q
  <1>7. queuedRequests' = SubSeq(queuedRequests, n + 1, Len(queuedRequests))
    BY <1>1 DEF Completion
  <1>8. Fifo!Finish(F, n)
    <2> HIDE DEF F
    <2> QED
      BY <1>4, <1>5, <1>6, <1>7 DEF Fifo!Finish
  <1> QED
    BY <1>8 DEF Fifo!Next

(* Requests leave in the order in which they were queued, when the         *)
(* hardware is done with them and the ones before.                         *)
THEOREM InOrderCompletion == Spec => ImplementsFifo
  <1>1. Init => Fifo!Init
    BY DEF Init, Fifo!Init, Busy, Queue
  <1>2. PipeInv /\ [Next]_pipeVars => [Fifo!Next]_<<queuedRequests, Busy>>
    <2> SUFFICES ASSUME PipeInv, [Next]_pipeVars
                 PROVE  Fifo!Next \/ UNCHANGED <<queuedRequests, Busy>>
      OBVIOUS
    <2>1. ASSUME NEW r \in Requests,
                 \/ CreateRequest(r)
                 \/ \E b \in Buffers : AddBuffer(r, b)
                 \/ DeleteRequest(r)
                 \/ PostRequest(r)
          PROVE  UNCHANGED <<queuedRequests, Busy>>
      <3>1. r \notin Queue
        BY <2>1 DEF CreateRequest, AddBuffer, DeleteRequest, PostRequest,
                    PipeInv, StagesAgree
      <3>2. \A q \in Queue : q \in Requests
        BY QueueType DEF PipeInv
      <3>3. /\ queuedRequests' = queuedRequests
            /\ \A q \in Queue : pending'[q] = pending[q]
        BY <2>1, <3>1, <3>2 DEF CreateRequest, AddBuffer, DeleteRequest,
                                PostRequest, PipeInv, TypeOK
      <3> QED
        BY <3>3, FifoStutter
    <2>2. ASSUME NEW r \in Requests, NEW S \in SUBSET pending[r],
                 QueueRequest(r, S)
          PROVE  Fifo!Next \/ UNCHANGED <<queuedRequests, Busy>>
      <3>1. CASE S = pending[r]
        BY <2>2, <3>1, FifoSubmit DEF Fifo!Next
      <3>2. CASE S # pending[r]
        BY <2>2, <3>2, FifoStutter DEF QueueRequest
      <3> QED
        BY <3>1, <3>2
    <2>3. CASE \E b \in Buffers : BufferReady(b)
      <3>1. PICK b \in device : CompleteBuffers({b}, FALSE)
        BY <2>3 DEF BufferReady
      <3> QED
        BY <3>1, FifoFinish
    <2>4. CASE CompleteBuffers(device, TRUE)
      BY <2>4, FifoFinish
    <2>5. CASE UNCHANGED pipeVars
      BY <2>5, FifoStutter DEF pipeVars, requestVars
    <2> QED
      BY <2>1, <2>2, <2>3, <2>4, <2>5 DEF Next, Stop, Handle
  <1> QED
    BY <1>1, <1>2, PipelineInvariance, PTL DEF Spec, ImplementsFifo, Fifo!Spec
=============================================================================
