-------------------------- MODULE Devices_proofs ---------------------------
(***************************************************************************)
(* The safety of devices.  Of V4L2Devices: of the buffers, for any number  *)
(* of slots and any buffers, and of the controls, for any controls, values *)
(* and order in which the kernel goes through them.  Of PipelineLock: the  *)
(* exclusive use of media devices, for any number of instances and         *)
(* devices.  Of DeviceEnumerator: what it lists is complete and its tables *)
(* are sound, for any media devices and topology.                          *)
(***************************************************************************)
EXTENDS V4L2Devices, DeviceEnumerator, ListFacts, FiniteSetTheorems, TLAPS

-----------------------------------------------------------------------------
(***************************************************************************)
(* V4L2VideoDevice.                                                        *)
(***************************************************************************)

(* The notifier is armed whenever queuedBuffers_ has an entry.             *)
ArmedWhileQueued == InQueue # {} => fdEnabled

(* open() disarms the notifier of a device without queued buffers.         *)
ClosedIsIdle == ~opened => InQueue = {}

(* The inductive invariant.  KernelBuffersTracked alone is not: whether    *)
(* the notifier stays armed depends on entries of queuedBuffers_ that the  *)
(* driver may not hold, QBUF of a slot that the driver already owns is     *)
(* excluded by FreeSlotsIdle, and open() by ClosedIsIdle.                  *)
DeviceInv ==
    /\ TypeOK
    /\ KernelBuffersTracked
    /\ FreeSlotsIdle
    /\ ArmedWhileQueued
    /\ ClosedIsIdle

USE NumSlotsAssumption, BufferAssumption

-----------------------------------------------------------------------------
(* One lemma per operation: what it leaves of the invariant.               *)

(* A device that was never opened satisfies the invariant.                 *)
LEMMA InitInv == Init => DeviceInv
  BY DEF Init, DeviceInv, TypeOK, KernelBuffersTracked, FreeSlotsIdle,
         ArmedWhileQueued, ClosedIsIdle, InQueue, EmptyQueue, KernelOwned,
         KernelStates, Slots, FrameBuffers

(* The emptied cache and queue are well-typed.                             *)
LEMMA EmptyType == EmptyQueue \in [Slots -> FrameBuffers \cup {NoBuffer}]
  BY DEF EmptyQueue

(* exportBuffers() and importBuffers(): REQBUFS leaves the driver nothing. *)
LEMMA SetupBuffersInv ==
  ASSUME DeviceInv, NEW type \in {"MMAP", "DMABUF"}, NEW ok \in BOOLEAN,
         SetupBuffers(type, ok)
  PROVE  DeviceInv'
  <1>1. TypeOK'
    <2>1. CASE ok
      <3>1. planes' \in [Slots -> FrameBuffers \cup {NoBuffer}]
        BY <2>1, EmptyType DEF SetupBuffers, FrameBuffers
      <3> QED
        BY <2>1, <3>1 DEF DeviceInv, TypeOK, SetupBuffers, KernelRequest,
                          KernelStates
    <2>2. CASE ~ok
      BY <2>2 DEF DeviceInv, TypeOK, SetupBuffers, KernelRequest,
                  KernelStates
    <2> QED
      BY <2>1, <2>2
  <1>2. \A s \in Slots : ~KernelOwned(s)'
    BY DEF DeviceInv, KernelBuffersTracked, KernelOwned, SetupBuffers,
           KernelRequest
  <1>3. KernelBuffersTracked'
    BY <1>2 DEF KernelBuffersTracked
  <1>4. FreeSlotsIdle'
    BY DEF DeviceInv, FreeSlotsIdle, SetupBuffers, KernelRequest
  <1>5. ArmedWhileQueued' /\ ClosedIsIdle'
    BY DEF DeviceInv, ArmedWhileQueued, ClosedIsIdle, InQueue, SetupBuffers
  <1> QED
    BY <1>1, <1>3, <1>4, <1>5 DEF DeviceInv

(* queueBuffer(), whether QBUF succeeds or not.                            *)
LEMMA QueueBufferInv ==
  ASSUME DeviceInv, opened, NEW b \in FrameBuffers, NEW ok \in BOOLEAN,
         QueueBuffer(b, ok)
  PROVE  DeviceInv'
  <1>1. PICK s \in Slots :
          /\ CacheGet(b, s)
          /\ CacheTake(b, s)
          /\ IF ok
               THEN /\ ~unplugged
                    /\ kernel[s] = "dequeued"
                    /\ kernel' = [kernel EXCEPT ![s] = "queued"]
                    /\ ArmOnQueue
                    /\ queuedBuffers' = [queuedBuffers EXCEPT ![s] = b]
               ELSE /\ unplugged \/ DriverErrors \/ kernel[s] # "dequeued"
                    /\ UNCHANGED <<kernel, fdEnabled, queuedBuffers>>
    BY DEF QueueBuffer
  <1>2. UNCHANGED <<opened, memoryType, hasCache, streaming, unplugged>>
    BY DEF QueueBuffer
  <1>3. hasCache /\ free' = free \ {s}
    BY <1>1 DEF QueueBuffer, CacheTake
  <1>4. TypeOK'
    <2>1. CASE ok
      <3>1. fdEnabled' \in BOOLEAN
        BY <1>1, <2>1 DEF ArmOnQueue, DeviceInv, TypeOK
      <3> QED
        BY <1>1, <1>2, <2>1, <3>1
        DEF DeviceInv, TypeOK, CacheTake, KernelStates
    <2>2. CASE ~ok
      BY <1>1, <1>2, <2>2 DEF DeviceInv, TypeOK, CacheTake
    <2> QED
      BY <2>1, <2>2
  <1>5. CASE ok
    <2>1. fdEnabled'
      BY <1>1, <1>5 DEF ArmOnQueue, DeviceInv, ArmedWhileQueued
    <2>2. KernelBuffersTracked'
      BY <1>1, <1>2, <1>3, <1>5, <2>1
      DEF DeviceInv, TypeOK, KernelBuffersTracked, KernelOwned
    <2>3. FreeSlotsIdle'
      BY <1>1, <1>2, <1>3, <1>5 DEF DeviceInv, TypeOK, FreeSlotsIdle
    <2>4. ArmedWhileQueued' /\ ClosedIsIdle'
      BY <1>2, <2>1 DEF ArmedWhileQueued, ClosedIsIdle
    <2> QED
      BY <1>4, <2>2, <2>3, <2>4 DEF DeviceInv
  <1>6. CASE ~ok
    BY <1>1, <1>2, <1>3, <1>4, <1>6
    DEF DeviceInv, KernelBuffersTracked, KernelOwned, FreeSlotsIdle,
        ArmedWhileQueued, ClosedIsIdle, InQueue
  <1> QED
    BY <1>5, <1>6

(* bufferAvailable(): the notifier is disarmed by the last buffer only.    *)
LEMMA BufferAvailableInv ==
  ASSUME DeviceInv, NEW b \in FrameBuffers, BufferAvailable(b)
  PROVE  DeviceInv'
  <1>1. PICK s \in Slots :
          /\ kernel[s] = "done"
          /\ queuedBuffers[s] = b
          /\ kernel' = [kernel EXCEPT ![s] = "dequeued"]
          /\ CachePut(s)
          /\ queuedBuffers' = [queuedBuffers EXCEPT ![s] = NoBuffer]
          /\ DisarmOnDequeue(s)
    BY DEF BufferAvailable
  <1>2. fdEnabled /\ UNCHANGED <<opened, memoryType, hasCache, planes,
                                 streaming, unplugged>>
    BY DEF BufferAvailable
  <1>3. free' = free \cup {s}
    BY <1>1 DEF CachePut
  <1>4. InQueue' = InQueue \ {s}
    BY <1>1 DEF InQueue, DeviceInv, TypeOK
  <1>5. s \in InQueue
    BY <1>1 DEF InQueue
  <1>6. InQueue' # {} => fdEnabled'
    BY <1>1, <1>2, <1>4, <1>5 DEF DisarmOnDequeue
  <1>7. TypeOK'
    <2>1. fdEnabled' \in BOOLEAN
      BY <1>1, <1>2 DEF DisarmOnDequeue
    <2> QED
      BY <1>1, <1>2, <1>3, <2>1 DEF DeviceInv, TypeOK, KernelStates
  <1>8. KernelBuffersTracked'
    <2> SUFFICES ASSUME NEW t \in Slots, KernelOwned(t)'
                 PROVE  queuedBuffers'[t] # NoBuffer /\ hasCache' /\ fdEnabled'
      BY DEF KernelBuffersTracked
    <2>1. t # s /\ KernelOwned(t)
      BY <1>1 DEF KernelOwned, DeviceInv, TypeOK
    <2>2. queuedBuffers[t] # NoBuffer /\ hasCache
      BY <2>1 DEF DeviceInv, KernelBuffersTracked
    <2>3. t \in InQueue'
      BY <2>1, <2>2, <1>4 DEF InQueue
    <2> QED
      BY <1>1, <1>2, <1>6, <2>1, <2>2, <2>3 DEF DeviceInv, TypeOK
  <1>9. FreeSlotsIdle'
    BY <1>1, <1>2, <1>3 DEF DeviceInv, TypeOK, FreeSlotsIdle
  <1> QED
    BY <1>2, <1>6, <1>7, <1>8, <1>9
    DEF DeviceInv, ArmedWhileQueued, ClosedIsIdle, BufferAvailable

(* streamOff(): the driver gives up every buffer and the queue is cleared. *)
LEMMA StreamOffInv ==
  ASSUME DeviceInv, NEW cancelled, StreamOff(cancelled)
  PROVE  DeviceInv'
  <1>1. CASE unplugged
    BY <1>1 DEF StreamOff, deviceVars, DeviceInv, TypeOK, KernelBuffersTracked,
                FreeSlotsIdle, ArmedWhileQueued, ClosedIsIdle, InQueue,
                KernelOwned
  <1>2. CASE ~unplugged
    <2>1. TypeOK'
      BY <1>2, EmptyType DEF StreamOff, DeviceInv, TypeOK, KernelStates,
                             FreeAfterStreamOff
    <2>2. \A s \in Slots : ~KernelOwned(s)'
      BY <1>2 DEF StreamOff, KernelOwned
    <2>3. FreeSlotsIdle'
      BY <1>2 DEF StreamOff, DeviceInv, TypeOK, FreeSlotsIdle,
                  FreeAfterStreamOff, KernelOwned
    <2>4. InQueue' = {}
      BY <1>2 DEF StreamOff, InQueue, EmptyQueue
    <2> QED
      BY <2>1, <2>2, <2>3, <2>4
      DEF DeviceInv, KernelBuffersTracked, ArmedWhileQueued, ClosedIsIdle
  <1> QED
    BY <1>1, <1>2

(* releaseBuffers() and close() of an idle device: nothing is left in the  *)
(* driver that the cache would be needed for.                              *)
LEMMA ReleaseInv ==
  ASSUME DeviceInv, Idle, ReleaseBuffers \/ Close
  PROVE  DeviceInv'
  <1>1. \A s \in Slots : ~KernelOwned(s)
    BY DEF DeviceInv, KernelBuffersTracked, Idle, InQueue
  <1>2. hasCache' = FALSE /\ free' = {} /\ planes' = EmptyQueue
    BY DEF ReleaseBuffers, Close, DeleteCache
  <1>3. UNCHANGED <<memoryType, queuedBuffers, unplugged>>
    BY DEF ReleaseBuffers, Close
  <1>4. /\ kernel' \in [Slots -> KernelStates]
        /\ \A s \in Slots : ~KernelOwned(s)'
    BY <1>1 DEF ReleaseBuffers, Close, KernelFree, KernelOwned, KernelStates,
                DeviceInv, TypeOK
  <1>5. TypeOK'
    <2>1. CASE ReleaseBuffers
      BY <2>1, <1>2, <1>3, <1>4, EmptyType
      DEF ReleaseBuffers, DeviceInv, TypeOK
    <2>2. CASE Close
      BY <2>2, <1>2, <1>3, <1>4, EmptyType DEF Close, DeviceInv, TypeOK
    <2> QED
      BY <2>1, <2>2
  <1>6. InQueue' = {}
    BY <1>3 DEF Idle, InQueue
  <1> QED
    BY <1>2, <1>4, <1>5, <1>6
    DEF DeviceInv, KernelBuffersTracked, FreeSlotsIdle, ArmedWhileQueued,
        ClosedIsIdle

(* open() disarms the notifier of an idle device.                          *)
LEMMA OpenInv == ASSUME DeviceInv, Open PROVE DeviceInv'
  <1>1. TypeOK'
    BY DEF Open, DeviceInv, TypeOK
  <1> QED
    BY <1>1 DEF Open, DeviceInv, KernelBuffersTracked, FreeSlotsIdle,
                ArmedWhileQueued, ClosedIsIdle, InQueue, KernelOwned

(* streamOn() changes the driver's state only.                             *)
LEMMA StreamOnInv ==
  ASSUME DeviceInv, NEW ok \in BOOLEAN, StreamOn(ok)
  PROVE  DeviceInv'
  <1>1. TypeOK'
    BY DEF StreamOn, DeviceInv, TypeOK
  <1> QED
    BY <1>1 DEF StreamOn, DeviceInv, KernelBuffersTracked, FreeSlotsIdle,
                ArmedWhileQueued, ClosedIsIdle, InQueue, KernelOwned

(* The steps of the driver.                                                *)
LEMMA FillInv == ASSUME DeviceInv, NEW s \in Slots, Fill(s) PROVE DeviceInv'
  <1>1. TypeOK'
    BY DEF Fill, DeviceInv, TypeOK, KernelStates
  <1>2. KernelBuffersTracked'
    BY DEF Fill, DeviceInv, TypeOK, KernelBuffersTracked, KernelOwned
  <1>3. FreeSlotsIdle'
    BY DEF Fill, DeviceInv, TypeOK, FreeSlotsIdle
  <1>4. ArmedWhileQueued' /\ ClosedIsIdle'
    BY DEF Fill, DeviceInv, ArmedWhileQueued, ClosedIsIdle, InQueue
  <1> QED
    BY <1>1, <1>2, <1>3, <1>4 DEF DeviceInv

(* Removal of the hardware, and steps that change nothing.                 *)
LEMMA SameInv ==
  ASSUME DeviceInv, Unplug \/ UNCHANGED deviceVars
  PROVE  DeviceInv'
  <1>1. TypeOK'
    BY DEF Unplug, deviceVars, DeviceInv, TypeOK
  <1> QED
    BY <1>1 DEF Unplug, deviceVars, DeviceInv, KernelBuffersTracked,
                FreeSlotsIdle, ArmedWhileQueued, ClosedIsIdle, InQueue,
                KernelOwned

(* The buffers a client may queue are frame buffers.                       *)
LEMMA ClientType == ClientBuffers \subseteq FrameBuffers
  BY DEF ClientBuffers, FrameBuffers

-----------------------------------------------------------------------------
(* The invariant of every operation sequence of a client that releases the *)
(* buffers of an idle device only.                                         *)
THEOREM DeviceInvariance == Spec => []DeviceInv
  <1>1. DeviceInv /\ [Next]_deviceVars => DeviceInv'
    <2> SUFFICES ASSUME DeviceInv, [Next]_deviceVars PROVE DeviceInv'
      OBVIOUS
    <2>1. CASE Open
      BY <2>1, OpenInv
    <2>2. CASE Idle /\ (Close \/ ReleaseBuffers)
      BY <2>2, ReleaseInv
    <2>3. CASE \E ok \in BOOLEAN : ExportBuffers(ok) \/ ImportBuffers(ok)
      BY <2>3, SetupBuffersInv DEF ExportBuffers, ImportBuffers
    <2>4. CASE /\ opened
               /\ \E b \in ClientBuffers, ok \in BOOLEAN : QueueBuffer(b, ok)
      BY <2>4, ClientType, QueueBufferInv
    <2>5. CASE \E b \in FrameBuffers : BufferAvailable(b)
      BY <2>5, BufferAvailableInv
    <2>6. CASE \E ok \in BOOLEAN : StreamOn(ok)
      BY <2>6, StreamOnInv
    <2>7. CASE StreamOff(IF unplugged THEN {} ELSE Queued)
      BY <2>7, StreamOffInv
    <2>8. CASE \E s \in Slots : Fill(s)
      BY <2>8, FillInv
    <2>9. CASE Unplug \/ QueueBufferFull \/ UNCHANGED deviceVars
      BY <2>9, SameInv DEF QueueBufferFull
    <2> QED
      BY <2>1, <2>2, <2>3, <2>4, <2>5, <2>6, <2>7, <2>8, <2>9 DEF Next
  <1> QED
    BY InitInv, <1>1, PTL DEF Spec

(* dequeueBuffer() finds the cache, the queue entry and an armed notifier  *)
(* for every buffer the driver returns.                                    *)
THEOREM DequeueIsSafe == Spec => []KernelBuffersTracked
  BY DeviceInvariance, PTL DEF DeviceInv

(* queueBuffer() is never given a slot that the driver owns.               *)
THEOREM SlotsAreIdle == Spec => []FreeSlotsIdle
  BY DeviceInvariance, PTL DEF DeviceInv

(* V4L2Devices has the device as one of its aspects.                       *)
THEOREM BuffersAreAnAspect == V4L2DeviceSpec => Spec
  <1>1. V4L2DeviceInit => Init
    BY DEF V4L2DeviceInit
  <1>2. [V4L2DeviceNext]_v4l2DeviceVars => [Next]_deviceVars
    BY DEF V4L2DeviceNext, v4l2DeviceVars, WithBuffers, WithControls,
           WithExposure, WithLocks, WithEnumerator
  <1> QED
    BY <1>1, <1>2, PTL DEF V4L2DeviceSpec, Spec

-----------------------------------------------------------------------------
(***************************************************************************)
(* V4L2Controls.                                                           *)
(***************************************************************************)

USE ControlsAssumption, CameraIdsAssumption

(* The inductive invariant: the result of the last call, with the types of *)
(* what the next one starts from.                                          *)
ControlsInv ==
    /\ supported \in ControlDevices
    /\ current \in [supported -> Int]
    /\ DOMAIN wanted \subseteq CameraIds
    /\ \A c \in DOMAIN wanted : wanted[c] \in Int
    /\ ControlsSound

(* A list of controls in the order of an unordered map has each of them    *)
(* once.                                                                   *)
LEMMA OrderIsBijection ==
  ASSUME NEW S, IsFiniteSet(S), NEW ids \in Orders(S)
  PROVE  /\ ids \in Seq(S) /\ IsInjective(ids)
         /\ \A x \in S : \E i \in DOMAIN ids : ids[i] = x
  <1> DEFINE n == Cardinality(S)
  <1>1. n \in Nat
    BY FS_CardinalityType
  <1>2. ids \in [1 .. n -> S] /\ IsInjective(ids)
    BY DEF Orders
  <1>3. IsFiniteSet(1 .. n) /\ Cardinality(1 .. n) = n
    BY <1>1, FS_Interval
  <1>4. ids \in Injection(1 .. n, S)
    BY <1>2 DEF Injection, IsInjective
  <1>5. ids \in Surjection(1 .. n, S)
    BY <1>3, <1>4, FS_Injection
  <1> HIDE DEF n
  <1> QED
    BY <1>1, <1>2, <1>5 DEF Surjection

(* The lists of the UVC pipeline handler have finitely many controls.      *)
LEMMA ListIdsFinite ==
  ASSUME NEW list, DOMAIN list \subseteq CameraIds
  PROVE  IsFiniteSet(ListIds(list))
  <1> DEFINE all == <<"BRIGHTNESS", "CONTRAST", "SATURATION",
                      "EXPOSURE_ABSOLUTE", "GAIN", "EXPOSURE_AUTO">>
             A == {all[k] : k \in 1 .. 6}
  <1>1. IsFiniteSet(A)
    <2>1. all \in Seq(A) /\ Len(all) = 6
      OBVIOUS
    <2>2. \A x \in A : \E k \in 1 .. Len(all) : all[k] = x
      BY <2>1
    <2> QED
      BY <2>1, <2>2 DEF IsFiniteSet
  <1>2. ListIds(list) \subseteq A
    BY DEF ListIds, MainId
  <1> QED
    BY <1>1, <1>2, FS_Subset

(* How far the kernel gets and how much of the list is updated, for each   *)
(* result: an error index says that as many controls are done, all but one *)
(* of them also in the list, -EINVAL that none is.                         *)
LEMMA ProgressOfTransfer ==
  ASSUME NEW count \in Nat, NEW e \in -1 .. count, NEW refused \in BOOLEAN,
         NEW i \in 1 .. count
  PROVE  LET reached == IF refused THEN 0
                        ELSE IF e < 0 THEN count ELSE Reached(e, count)
             updated == IF refused THEN 0
                        ELSE IF e < 0 THEN count ELSE Updated(e, count)
             ret == IF refused THEN -22
                    ELSE IF e < 0 THEN 0 ELSE Result(e, count)
             done == IF ret = 0 THEN count ELSE IF ret < 0 THEN 0 ELSE ret
         IN  /\ i <= done <=> i <= reached
             /\ i > updated <=> ~(ret = 0 \/ i < ret)
             /\ ~(i > updated) => i <= reached
             /\ ret = 0 => ~refused /\ i <= reached
  <1>1. CASE refused
    BY <1>1
  <1>2. CASE ~refused /\ e < 0
    BY <1>2
  <1>3. CASE ~refused /\ e >= 0
    BY <1>3 DEF Reached, Updated, Result
  <1> QED
    BY <1>1, <1>2, <1>3

(* setControls() and getControls(), whatever the list and the outcome.     *)
LEMMA TransferIsSound ==
  ASSUME ControlsInv, UNCHANGED supported,
         NEW S, NEW ids \in Seq(S), IsInjective(ids), NEW sent,
         NEW writes \in BOOLEAN, NEW e \in -1 .. Len(ids),
         Transfer(ids, sent, writes, e)
  PROVE  /\ ResultMeansWhatItSays'
         /\ call'.writes = writes /\ call'.wanted = wanted
         /\ call'.ret = 0 /\ writes =>
                /\ ToSet(ids) \subseteq supported
                /\ \A i \in DOMAIN ids : current'[ids[i]] = InLimit(sent[i])
         /\ (\A i \in DOMAIN ids : sent[i] \in Int) =>
                current' \in [supported -> Int]
  <1> DEFINE count == Len(ids)
             refused == ~Known(ids)
             reached == IF refused THEN 0
                        ELSE IF e < 0 THEN count ELSE Reached(e, count)
             updated == IF refused THEN 0
                        ELSE IF e < 0 THEN count ELSE Updated(e, count)
             ret == IF refused THEN -22
                    ELSE IF e < 0 THEN 0 ELSE Result(e, count)
             done == IF ret = 0 THEN count ELSE IF ret < 0 THEN 0 ELSE ret
             written == {i \in 1 .. reached : writes}
  <1>1. /\ current' = [id \in supported |->
                          IF \E i \in written : ids[i] = id
                            THEN InLimit(sent[CHOOSE i \in written :
                                                  ids[i] = id])
                            ELSE current[id]]
        /\ call' = [ids |-> ids, sent |-> sent, writes |-> writes,
                    values |-> [i \in 1 .. count |->
                                   IF i > updated THEN sent[i]
                                   ELSE IF i <= reached THEN current'[ids[i]]
                                   ELSE IF writes THEN sent[i] ELSE 0],
                    ret |-> ret, before |-> current, wanted |-> wanted]
    BY DEF Transfer
  <1>2. count \in Nat /\ DOMAIN ids = 1 .. count /\ e \in -1 .. count
    OBVIOUS
  <1>3. refused \in BOOLEAN
    BY DEF Known
  <1>4. reached \in 0 .. count
    BY <1>2 DEF Reached
  <1>5. \A i \in 1 .. count :
           /\ i <= done <=> i <= reached
           /\ i > updated <=> ~(ret = 0 \/ i < ret)
           /\ ~(i > updated) => i <= reached
           /\ ret = 0 => ~refused /\ i <= reached
    BY <1>2, <1>3, ProgressOfTransfer
  <1>6. refused => reached = 0
    OBVIOUS
  <1> HIDE DEF count, reached, updated, ret, done
  <1>7. ASSUME NEW i \in written
        PROVE  /\ i \in 1 .. count /\ writes
               /\ ids[i] \in supported
               /\ current'[ids[i]] = InLimit(sent[i])
    <2>1. i \in 1 .. count /\ writes /\ ~refused
      BY <1>2, <1>4, <1>6
    <2>2. ids[i] \in supported
      BY <1>2, <2>1 DEF Known, ToSet
    <2>3. (CHOOSE k \in written : ids[k] = ids[i]) = i
      BY <1>2, <1>4 DEF IsInjective
    <2> QED
      BY <1>1, <2>1, <2>2, <2>3
  <1>8. ASSUME NEW i \in 1 .. count, ids[i] \in supported, i \notin written
        PROVE  current'[ids[i]] = current[ids[i]]
    <2>1. ~\E k \in written : ids[k] = ids[i]
      BY <1>2, <1>4, <1>8 DEF IsInjective
    <2> QED
      BY <1>1, <1>8, <2>1
  <1>9. ResultMeansWhatItSays'
    <2>1. /\ call'.ids = ids /\ call'.sent = sent /\ call'.ret = ret
          /\ call'.before = current /\ call'.writes = writes
          /\ Done' = done
      BY <1>1 DEF Done, done, count
    <2>2. \A i \in 1 .. count : call'.values[i] =
             IF i > updated THEN sent[i]
             ELSE IF i <= reached THEN current'[ids[i]]
             ELSE IF writes THEN sent[i] ELSE 0
      BY <1>1
    <2>3. ASSUME NEW i \in DOMAIN ids
          PROVE  /\ i <= done /\ writes => current'[ids[i]] = InLimit(sent[i])
                 /\ i > done /\ ids[i] \in supported =>
                        current'[ids[i]] = current[ids[i]]
                 /\ call'.values[i] = IF ret = 0 \/ i < ret
                                        THEN current'[ids[i]] ELSE sent[i]
      <3>1. i \in 1 .. count /\ i \in Int /\ reached \in Int
        BY <1>2, <1>4
      <3>2. done \in Int
        BY <1>2 DEF done, ret, Result
      <3>3. ASSUME i <= done, writes PROVE current'[ids[i]] = InLimit(sent[i])
        <4>1. i \in written
          BY <1>5, <3>1, <3>3
        <4> QED
          BY <1>7, <4>1
      <3>4. ASSUME i > done, ids[i] \in supported
            PROVE  current'[ids[i]] = current[ids[i]]
        <4>1. i \notin written
          BY <1>5, <3>1, <3>2, <3>4
        <4> QED
          BY <1>8, <3>1, <3>4, <4>1
      <3>5. call'.values[i] = IF ret = 0 \/ i < ret
                               THEN current'[ids[i]] ELSE sent[i]
        BY <1>5, <2>2, <3>1
      <3> QED
        BY <3>3, <3>4, <3>5
    <2> QED
      BY <2>1, <2>3 DEF ResultMeansWhatItSays
  <1>10. ASSUME ret = 0, writes
         PROVE  /\ ToSet(ids) \subseteq supported
                /\ \A i \in DOMAIN ids : current'[ids[i]] = InLimit(sent[i])
    <2>1. \A i \in DOMAIN ids : i \in written
      BY <1>2, <1>4, <1>5, <1>10
    <2> QED
      BY <1>7, <2>1 DEF ToSet
  <1>11. ASSUME \A i \in DOMAIN ids : sent[i] \in Int
         PROVE  current' \in [supported -> Int]
    <2>1. ASSUME NEW id \in supported PROVE current'[id] \in Int
      <3>1. CASE \E i \in written : ids[i] = id
        <4>1. PICK i \in written : ids[i] = id
          BY <3>1
        <4> QED
          BY <1>2, <1>7, <1>11, <4>1 DEF InLimit
      <3>2. CASE ~\E i \in written : ids[i] = id
        BY <1>1, <3>2 DEF ControlsInv
      <3> QED
        BY <3>1, <3>2
    <2> QED
      BY <1>1, <2>1
  <1> QED
    BY <1>1, <1>9, <1>10, <1>11

(* Every call preserves the invariant of the controls.                     *)
LEMMA ControlsStep ==
  ASSUME ControlsInv, ControlsNext
  PROVE  ControlsInv'
  <1>1. ASSUME NEW c \in CameraIds, NEW v \in ControlValues,
               SetRequestControl(c, v)
        PROVE  ControlsInv'
    <2>1. /\ UNCHANGED <<supported, current>> /\ call' = NoCall
          /\ DOMAIN wanted' \subseteq CameraIds
          /\ \A d \in DOMAIN wanted' : wanted'[d] \in Int
      BY <1>1 DEF SetRequestControl, ControlsInv
    <2>2. /\ call'.ids = <<>> /\ call'.writes = FALSE
      BY <2>1 DEF NoCall
    <2>3. ControlsSound'
      BY <2>2 DEF ControlsSound, ResultMeansWhatItSays,
                  RequestControlsInEffect
    <2> QED
      BY <2>1, <2>3 DEF ControlsInv
  <1>2. ASSUME NEW ids \in Orders(ListIds(wanted)), NEW e \in -1 .. Len(ids),
               ProcessControls(ids, e)
        PROVE  ControlsInv'
    <2> DEFINE sent == [i \in DOMAIN ids |-> ListValue(wanted, ids[i])]
    <2>1. /\ ids \in Seq(ListIds(wanted)) /\ IsInjective(ids)
          /\ \A x \in ListIds(wanted) : \E i \in DOMAIN ids : ids[i] = x
      BY ListIdsFinite, OrderIsBijection DEF ControlsInv
    <2>2. ASSUME NEW c \in DOMAIN wanted
          PROVE  /\ MainId[c] \in ListIds(wanted)
                 /\ ListValue(wanted, MainId[c]) = wanted[c]
                 /\ c = "ManualExposure" => "EXPOSURE_AUTO" \in ListIds(wanted)
      <3>1. c \in DOMAIN MainId
        BY DEF ControlsInv
      <3>2. \A d \in DOMAIN wanted : MainId[d] = MainId[c] => d = c
        BY <3>1 DEF ControlsInv, MainId
      <3>3. MainId[c] # "EXPOSURE_AUTO"
        BY <3>1 DEF MainId
      <3> QED
        BY <3>2, <3>3 DEF ListIds, ListValue
    <2>3. ListValue(wanted, "EXPOSURE_AUTO") = 1
      BY DEF ListValue
    <2>4. \A i \in DOMAIN ids : sent[i] \in Int
      <3> SUFFICES ASSUME NEW i \in DOMAIN ids PROVE sent[i] \in Int
        OBVIOUS
      <3>1. ids[i] \in ListIds(wanted)
        BY <2>1
      <3>2. CASE ids[i] = "EXPOSURE_AUTO"
        BY <2>3, <3>2
      <3>3. CASE ids[i] # "EXPOSURE_AUTO"
        <4>1. PICK c \in DOMAIN wanted : ids[i] = MainId[c]
          BY <3>1, <3>3 DEF ListIds
        <4>2. sent[i] = wanted[c]
          BY <2>2, <4>1
        <4> QED
          BY <4>2 DEF ControlsInv
      <3> QED
        BY <3>2, <3>3
    <2>5. /\ Transfer(ids, sent, TRUE, e)
          /\ wanted' = <<>> /\ UNCHANGED supported
      BY <1>2 DEF ProcessControls
    <2> HIDE DEF sent
    <2>6. /\ ResultMeansWhatItSays' /\ current' \in [supported -> Int]
          /\ call'.writes = TRUE /\ call'.wanted = wanted
          /\ call'.ret = 0 =>
                /\ ToSet(ids) \subseteq supported
                /\ \A i \in DOMAIN ids : current'[ids[i]] = InLimit(sent[i])
      <3> DEFINE writes == TRUE
      <3>1. writes \in BOOLEAN /\ Transfer(ids, sent, writes, e)
        BY <2>5
      <3> HIDE DEF writes
      <3>2. /\ ResultMeansWhatItSays'
            /\ call'.writes = writes /\ call'.wanted = wanted
            /\ call'.ret = 0 /\ writes =>
                  /\ ToSet(ids) \subseteq supported
                  /\ \A i \in DOMAIN ids : current'[ids[i]] = InLimit(sent[i])
            /\ (\A i \in DOMAIN ids : sent[i] \in Int) =>
                  current' \in [supported -> Int]
        BY <2>1, <2>5, <3>1, TransferIsSound
      <3> QED
        BY <2>4, <3>2 DEF writes
    <2>7. ASSUME call'.ret = 0, NEW x \in ListIds(wanted)
          PROVE  current'[x] = InLimit(ListValue(wanted, x))
      <3>1. PICK i \in DOMAIN ids : ids[i] = x
        BY <2>1
      <3> QED
        BY <2>6, <2>7, <3>1 DEF sent
    <2>8. InLimit(1) = 1
      BY DEF InLimit
    <2>9. RequestControlsInEffect'
      BY <2>2, <2>3, <2>6, <2>7, <2>8 DEF RequestControlsInEffect
    <2> QED
      BY <2>5, <2>6, <2>9 DEF ControlsInv, ControlsSound
  <1>3. ASSUME NEW ids \in Orders(supported), NEW e \in -1 .. Len(ids),
               GetControls(ids, e)
        PROVE  ControlsInv'
    <2> DEFINE sent == [i \in DOMAIN ids |-> Unread]
    <2>1. ids \in Seq(supported) /\ IsInjective(ids)
      BY OrderIsBijection DEF ControlsInv
    <2>2. \A i \in DOMAIN ids : sent[i] \in Int
      BY DEF Unread
    <2>3. Transfer(ids, sent, FALSE, e) /\ UNCHANGED <<supported, wanted>>
      BY <1>3 DEF GetControls
    <2> HIDE DEF sent
    <2>4. /\ ResultMeansWhatItSays' /\ current' \in [supported -> Int]
          /\ call'.writes = FALSE
      BY <2>1, <2>2, <2>3, TransferIsSound
    <2> QED
      BY <2>3, <2>4 DEF ControlsInv, ControlsSound, RequestControlsInEffect
  <1> QED
    BY <1>1, <1>2, <1>3 DEF ControlsNext

(* The result of setControls() and getControls() says which controls the   *)
(* device was given and which of them the list shows, all but the last     *)
(* after an error, and a request whose controls were accepted has them in  *)
(* the device, for any controls, values and outcome of the ioctls.         *)
THEOREM ControlsAreSound == V4L2DeviceSpec => []ControlsSound
  <1>1. V4L2DeviceInit => ControlsInv
    <2> SUFFICES ASSUME V4L2DeviceInit PROVE ControlsInv
      OBVIOUS
    <2>1. /\ supported \in ControlDevices
          /\ current = [id \in supported |-> 0]
          /\ wanted = <<>> /\ call = NoCall
      BY DEF V4L2DeviceInit, ControlsInit
    <2>2. call.ids = <<>> /\ call.writes = FALSE
      BY <2>1 DEF NoCall
    <2> QED
      BY <2>1, <2>2 DEF ControlsInv, ControlsSound, ResultMeansWhatItSays,
                        RequestControlsInEffect
  <1>2. ControlsInv /\ [V4L2DeviceNext]_v4l2DeviceVars => ControlsInv'
    <2>1. ASSUME ControlsInv, UNCHANGED controlVars PROVE ControlsInv'
      BY <2>1 DEF controlVars, ControlsInv, ControlsSound, Done,
                  ResultMeansWhatItSays, RequestControlsInEffect
    <2>2. [V4L2DeviceNext]_v4l2DeviceVars => [ControlsNext]_controlVars
      BY DEF V4L2DeviceNext, v4l2DeviceVars, WithBuffers, WithControls,
             WithExposure, WithLocks, WithEnumerator
    <2> QED
      BY <2>1, <2>2, ControlsStep
  <1>3. ControlsInv => ControlsSound
    BY DEF ControlsInv
  <1> QED
    BY <1>1, <1>2, <1>3, PTL DEF V4L2DeviceSpec

-----------------------------------------------------------------------------
(***************************************************************************)
(* PipelineLock.  No lock is left behind whatever the number of cameras of *)
(* an instance, if one thread drives each of them.  Exclusion holds when   *)
(* every instance has one Camera object of the pipeline handler (Apart),   *)
(* and fails without that hypothesis: TLC refutes it on the instance of    *)
(* MCPipelineLock, where one has two.                                      *)
(***************************************************************************)

(* One thread and one Camera object per instance.                          *)
Apart ==
    /\ \A t, u \in Threads : Home(t) = Home(u) => t = u
    /\ \A c, e \in Cameras : InstanceOf[c] = InstanceOf[e] => c = e

(* Threads drive cameras, and run in the instances of those.               *)
LEMMA HomeType == \A t \in Threads : CameraOf[t] \in Cameras /\ Home(t) \in Instances
  BY TopologyAssumption DEF Home

(* The initial states satisfy the inductive invariant: nothing is locked.  *)
LEMMA LockInitInv == LockInit => LockInv
  <1> SUFFICES ASSUME LockInit PROVE LockInv
    OBVIOUS
  <1> USE TopologyAssumption, DevicesAssumption, HomeType
  <1>1. LockTypeOK
    BY DEF LockInit, LockTypeOK, Devices
  <1>2. OwnersAgree /\ NobodyElse
    BY DEF LockInit, OwnersAgree, NobodyElse
  <1>3. \A t \in Threads : LoopAt(t) /\ StateAt(t)
    BY DEF LockInit, LoopAt, StateAt
  <1> QED
    BY <1>1, <1>2, <1>3 DEF LockInv

(* A thread that calls lockf() has a device to lock.                       *)
BeforeEnd(t) == pc[t] = "lockf" => dev[t] <= NumDevices

(* Every step of a thread, and a crash, preserves the type invariant.      *)
LEMMA LockTypeStep ==
    ASSUME LockTypeOK, \A t \in Threads : BeforeEnd(t), [LockNext]_lockVars
    PROVE  LockTypeOK'
  <1> USE TopologyAssumption, DevicesAssumption, HomeType
  <1> USE DEF LockTypeOK, Goto, Devices
  <1>1. ASSUME NEW t \in Threads, Acquire(t) PROVE LockTypeOK'
    BY <1>1 DEF Acquire
  <1>2. ASSUME NEW t \in Threads, LockCheck(t) PROVE LockTypeOK'
    <2>1. CASE dev[t] \in lockOwner[Home(t)]
      <3>1. Goto(t, "undo", 1) /\ UNCHANGED <<state, lockOwner, kernelLock>>
        BY <1>2, <2>1 DEF LockCheck
      <3> QED
        BY <3>1
    <2>2. CASE dev[t] \notin lockOwner[Home(t)]
      <3>1. /\ Goto(t, "lockf", dev[t])
            /\ UNCHANGED <<state, lockOwner, kernelLock>>
        BY <1>2, <2>2 DEF LockCheck
      <3> QED
        BY <3>1
    <2> QED
      BY <2>1, <2>2
  <1>3. ASSUME NEW t \in Threads, LockF(t) PROVE LockTypeOK'
    <2>1. dev[t] \in Devices /\ dev[t] + 1 \in 1 .. NumDevices + 1
      BY <1>3 DEF LockF, BeforeEnd
    <2>2. CASE TryLockGrants(Home(t), dev[t])
      <3>1. kernelLock' \in [Devices -> Instances \cup {NoInstance}]
        BY <1>3, <2>1, <2>2 DEF LockF
      <3>2. lockOwner' \in [Instances -> SUBSET Devices]
        <4>1. lockOwner[Home(t)] \cup {dev[t]} \in SUBSET Devices
          BY <2>1
        <4> HIDE DEF Devices
        <4> QED
          BY <1>3, <2>2, <4>1 DEF LockF
      <3>3. Goto(t, "lock", dev[t] + 1) /\ UNCHANGED state
        BY <1>3, <2>2 DEF LockF
      <3> QED
        BY <2>1, <3>1, <3>2, <3>3
    <2>3. CASE ~TryLockGrants(Home(t), dev[t])
      <3>1. Goto(t, "undo", 1) /\ UNCHANGED <<state, lockOwner, kernelLock>>
        BY <1>3, <2>3 DEF LockF, AfterFailedLock
      <3> QED
        BY <3>1
    <2> QED
      BY <2>2, <2>3
  <1>4. ASSUME NEW t \in Threads, Acquired(t) PROVE LockTypeOK'
    BY <1>4 DEF Acquired
  <1>5. ASSUME NEW t \in Threads, Release(t) PROVE LockTypeOK'
    BY <1>5 DEF Release
  <1>6. ASSUME NEW t \in Threads, Unlock(t) PROVE LockTypeOK'
    <2>1. dev[t] + 1 \in 1 .. NumDevices + 1
      BY <1>6 DEF Unlock
    <2>2. Goto(t, pc[t], dev[t] + 1) /\ UNCHANGED state
      BY <1>6 DEF Unlock
    <2>3. lockOwner' \in [Instances -> SUBSET Devices]
      <3> HIDE DEF Devices
      <3> QED
        BY <1>6 DEF Unlock
    <2>4. kernelLock' \in [Devices -> Instances \cup {NoInstance}]
      <3> HIDE DEF Devices
      <3> QED
        BY <1>6 DEF Unlock
    <2> QED
      BY <2>1, <2>2, <2>3, <2>4
  <1>7. ASSUME NEW t \in Threads, Unlocked(t) PROVE LockTypeOK'
    BY <1>7 DEF Unlocked
  <1>8. ASSUME NEW t \in Threads, StartStop(t) PROVE LockTypeOK'
    BY <1>8 DEF StartStop
  <1>9. ASSUME NEW i \in Instances, Crash(i) PROVE LockTypeOK'
    BY <1>9 DEF Crash
  <1>10. CASE UNCHANGED lockVars
    BY <1>10 DEF lockVars
  <1> QED
    BY <1>1, <1>2, <1>3, <1>4, <1>5, <1>6, <1>7, <1>8, <1>9, <1>10
    DEF LockNext, Step

(* lockOwner_ changes only together with the kernel's lock.                *)
LEMMA OwnersStep ==
    ASSUME LockTypeOK, OwnersAgree, LockTypeOK', [LockNext]_lockVars
    PROVE  OwnersAgree'
  <1> USE TopologyAssumption, HomeType
  <1> USE DEF LockTypeOK, OwnersAgree, Goto
  <1>1. ASSUME NEW t \in Threads, Acquire(t) PROVE OwnersAgree'
    BY <1>1 DEF Acquire
  <1>2. ASSUME NEW t \in Threads, LockCheck(t) PROVE OwnersAgree'
    BY <1>2 DEF LockCheck
  <1>3. ASSUME NEW t \in Threads, LockF(t) PROVE OwnersAgree'
    BY <1>3 DEF LockF, TryLockGrants, AfterFailedLock
  <1>4. ASSUME NEW t \in Threads, Acquired(t) PROVE OwnersAgree'
    BY <1>4 DEF Acquired
  <1>5. ASSUME NEW t \in Threads, Release(t) PROVE OwnersAgree'
    BY <1>5 DEF Release
  <1>6. ASSUME NEW t \in Threads, Unlock(t) PROVE OwnersAgree'
    BY <1>6 DEF Unlock
  <1>7. ASSUME NEW t \in Threads, Unlocked(t) PROVE OwnersAgree'
    BY <1>7 DEF Unlocked
  <1>8. ASSUME NEW t \in Threads, StartStop(t) PROVE OwnersAgree'
    BY <1>8 DEF StartStop
  <1>9. ASSUME NEW i \in Instances, Crash(i) PROVE OwnersAgree'
    BY <1>9 DEF Crash
  <1>10. CASE UNCHANGED lockVars
    BY <1>10 DEF lockVars
  <1> QED
    BY <1>1, <1>2, <1>3, <1>4, <1>5, <1>6, <1>7, <1>8, <1>9, <1>10
    DEF LockNext, Step

(* A step of thread t changes nothing another thread's invariant speaks    *)
(* of: that thread runs in another instance, on another camera.            *)
LEMMA LockFrame ==
    ASSUME Apart, LockTypeOK, NEW t \in Threads, Step(t),
           NEW u \in Threads, u # t
    PROVE  /\ pc'[u] = pc[u] /\ dev'[u] = dev[u]
           /\ lockOwner'[Home(u)] = lockOwner[Home(u)]
           /\ state'[CameraOf[u]] = state[CameraOf[u]]
  <1>1. Home(u) # Home(t) /\ CameraOf[u] # CameraOf[t]
    BY DEF Apart, Home
  <1> USE HomeType, <1>1 DEF LockTypeOK, Goto
  <1>2. CASE Acquire(t)
    BY <1>2 DEF Acquire
  <1>3. CASE LockCheck(t)
    BY <1>3 DEF LockCheck
  <1>4. CASE LockF(t)
    BY <1>4 DEF LockF
  <1>5. CASE Acquired(t)
    BY <1>5 DEF Acquired
  <1>6. CASE Release(t)
    BY <1>6 DEF Release
  <1>7. CASE Unlock(t)
    BY <1>7 DEF Unlock
  <1>8. CASE Unlocked(t)
    BY <1>8 DEF Unlocked
  <1>9. CASE StartStop(t)
    BY <1>9 DEF StartStop
  <1> QED
    BY <1>2, <1>3, <1>4, <1>5, <1>6, <1>7, <1>8, <1>9 DEF Step

(* The thread that steps keeps its own place: its loop has handled the     *)
(* devices it claims, and its camera's state matches the locks.            *)
LEMMA OwnStep ==
    ASSUME LockInv, LockTypeOK', NEW t \in Threads, Step(t)
    PROVE  LoopAt(t)' /\ StateAt(t)'
  <1> USE TopologyAssumption, DevicesAssumption, HomeType
  <1>0. /\ LoopAt(t) /\ StateAt(t) /\ LockTypeOK
        /\ Devices \subseteq Nat \ {0} /\ \A d \in Devices : d <= NumDevices
    BY DEF LockInv, Devices
  <1> USE <1>0 DEF LockTypeOK, LoopAt, StateAt, Goto
  <1>1. CASE Acquire(t)
    <2>1. LoopAt(t)'
      BY <1>1 DEF Acquire
    <2>2. StateAt(t)'
      BY <1>1 DEF Acquire
    <2> QED
      BY <2>1, <2>2
  <1>2. CASE LockCheck(t)
    <2>1. LoopAt(t)'
      BY <1>2 DEF LockCheck
    <2>2. StateAt(t)'
      BY <1>2 DEF LockCheck
    <2> QED
      BY <2>1, <2>2
  <1>3. CASE LockF(t)
    <2>1. LoopAt(t)'
      BY <1>3 DEF LockF, TryLockGrants, AfterFailedLock
    <2>2. StateAt(t)'
      BY <1>3 DEF LockF, TryLockGrants, AfterFailedLock
    <2> QED
      BY <2>1, <2>2
  <1>4. CASE Acquired(t)
    <2>1. LoopAt(t)'
      BY <1>4 DEF Acquired
    <2>2. StateAt(t)'
      BY <1>4 DEF Acquired
    <2> QED
      BY <2>1, <2>2
  <1>5. CASE Release(t)
    <2>1. LoopAt(t)'
      BY <1>5 DEF Release
    <2>2. StateAt(t)'
      BY <1>5 DEF Release
    <2> QED
      BY <2>1, <2>2
  <1>6. CASE Unlock(t)
    <2>1. LoopAt(t)'
      BY <1>6 DEF Unlock
    <2>2. StateAt(t)'
      BY <1>6 DEF Unlock
    <2> QED
      BY <2>1, <2>2
  <1>7. CASE Unlocked(t)
    <2>1. LoopAt(t)'
      BY <1>7 DEF Unlocked
    <2>2. StateAt(t)'
      BY <1>7 DEF Unlocked
    <2> QED
      BY <2>1, <2>2
  <1>8. CASE StartStop(t)
    <2>1. LoopAt(t)'
      BY <1>8 DEF StartStop
    <2>2. StateAt(t)'
      BY <1>8 DEF StartStop
    <2> QED
      BY <2>1, <2>2
  <1> QED
    BY <1>1, <1>2, <1>3, <1>4, <1>5, <1>6, <1>7, <1>8 DEF Step

(* Every thread keeps its place in every step.                             *)
LEMMA PlaceStep ==
    ASSUME Apart, LockInv, LockTypeOK', [LockNext]_lockVars, NEW u \in Threads
    PROVE  LoopAt(u)' /\ StateAt(u)'
  <1>1. LoopAt(u) /\ StateAt(u) /\ LockTypeOK
    BY DEF LockInv
  <1>2. ASSUME NEW t \in Threads, Step(t), u # t
        PROVE LoopAt(u)' /\ StateAt(u)'
    BY <1>1, <1>2, LockFrame DEF LoopAt, StateAt
  <1>3. ASSUME NEW i \in Instances, Crash(i)
        PROVE LoopAt(u)' /\ StateAt(u)'
    BY <1>1, <1>3, HomeType DEF Crash, LoopAt, StateAt, LockTypeOK, Home
  <1>4. CASE UNCHANGED lockVars
    BY <1>1, <1>4 DEF lockVars, LoopAt, StateAt
  <1> QED
    BY <1>2, <1>3, <1>4, OwnStep DEF LockNext

(* Cameras and instances without a thread stay untouched.                  *)
LEMMA NobodyStep ==
    Apart /\ LockInv /\ LockTypeOK' /\ [LockNext]_lockVars => NobodyElse'
  <1> SUFFICES ASSUME Apart, LockInv, LockTypeOK', [LockNext]_lockVars
               PROVE NobodyElse'
    OBVIOUS
  <1> USE TopologyAssumption, DevicesAssumption, HomeType
  <1> USE DEF LockInv, LockTypeOK, NobodyElse, Goto
  <1>1. ASSUME NEW t \in Threads, Acquire(t) PROVE NobodyElse'
    BY <1>1 DEF Acquire
  <1>2. ASSUME NEW t \in Threads, LockCheck(t) PROVE NobodyElse'
    BY <1>2 DEF LockCheck
  <1>3. ASSUME NEW t \in Threads, LockF(t) PROVE NobodyElse'
    BY <1>3 DEF LockF, TryLockGrants, AfterFailedLock
  <1>4. ASSUME NEW t \in Threads, Acquired(t) PROVE NobodyElse'
    BY <1>4 DEF Acquired
  <1>5. ASSUME NEW t \in Threads, Release(t) PROVE NobodyElse'
    BY <1>5 DEF Release
  <1>6. ASSUME NEW t \in Threads, Unlock(t) PROVE NobodyElse'
    BY <1>6 DEF Unlock
  <1>7. ASSUME NEW t \in Threads, Unlocked(t) PROVE NobodyElse'
    BY <1>7 DEF Unlocked
  <1>8. ASSUME NEW t \in Threads, StartStop(t) PROVE NobodyElse'
    BY <1>8 DEF StartStop
  <1>9. ASSUME NEW i \in Instances, Crash(i) PROVE NobodyElse'
    BY <1>9 DEF Crash
  <1>10. CASE UNCHANGED lockVars
    BY <1>10 DEF lockVars
  <1> QED
    BY <1>1, <1>2, <1>3, <1>4, <1>5, <1>6, <1>7, <1>8, <1>9, <1>10
    DEF LockNext, Step

(* The inductive invariant holds in every reachable state.                 *)
THEOREM LockInvariance == ASSUME Apart PROVE LockSpec => []LockInv
  <1>1. LockInv /\ [LockNext]_lockVars => LockInv'
    <2> SUFFICES ASSUME LockInv, [LockNext]_lockVars PROVE LockInv'
      OBVIOUS
    <2>1. LockTypeOK'
      BY LockTypeStep DEF LockInv, LoopAt, BeforeEnd
    <2>2. OwnersAgree' /\ NobodyElse'
      BY <2>1, OwnersStep, NobodyStep DEF LockInv
    <2>3. \A u \in Threads : LoopAt(u)' /\ StateAt(u)'
      BY <2>1, PlaceStep
    <2> QED
      BY <2>1, <2>2, <2>3 DEF LockInv
  <1> QED
    BY <1>1, LockInitInv, PTL DEF LockSpec

(* Camera::acquire() keeps other instances of libcamera out for as long as *)
(* one holds a camera of the pipeline handler.                             *)
THEOREM Exclusion == ASSUME Apart PROVE LockSpec => []InstanceExclusion
  <1>1. LockInv => InstanceExclusion
    <2> SUFFICES ASSUME LockInv,
                        NEW i \in Instances, NEW j \in Instances,
                        NEW c \in Cameras, InstanceOf[c] = i, Held(c),
                        NEW e \in Cameras, InstanceOf[e] = j, Held(e)
                 PROVE  i = j
      BY DEF InstanceExclusion, InUse
    <2>1. 1 \in Devices
      BY DevicesAssumption DEF Devices
    <2>2. ASSUME NEW x \in Cameras, Held(x) PROVE kernelLock[1] = InstanceOf[x]
      <3>1. PICK t \in Threads : CameraOf[t] = x
        BY <2>2 DEF LockInv, NobodyElse, Held
      <3>2. pc[t] = "idle"
        BY <2>2, <3>1 DEF LockInv, StateAt, Held, LockTypeOK
      <3> QED
        BY <2>1, <2>2, <3>1, <3>2, HomeType
        DEF LockInv, StateAt, Held, OwnersAgree, Home
    <2> QED
      BY <2>2
  <1> QED
    BY <1>1, LockInvariance, PTL

(* One thread drives a Camera object.                                      *)
OneThreadEach == \A t, u \in Threads : CameraOf[t] = CameraOf[u] => t = u

(* Thread t still has the lock of device d to return: it may yet lock it,  *)
(* it has not come to it in unlock(), or it has a camera to release.       *)
Returns(t, d) ==
    \/ pc[t] \in {"lock", "lockf"}
    \/ pc[t] \in {"undo", "release"} /\ dev[t] <= d
    \/ pc[t] = "idle" /\ state[CameraOf[t]] # "Available"

(* Somebody returns every lock, not always the thread that took it.        *)
SharedInv ==
    /\ LockTypeOK /\ OwnersAgree
    /\ \A t \in Threads : BeforeEnd(t)
    /\ \A i \in Instances : \A d \in lockOwner[i] :
          \E t \in Threads : Home(t) = i /\ Returns(t, d)

(* A step of thread t that leaves a device locked leaves somebody to       *)
(* return it, and takes no lock that t does not return.                    *)
LEMMA ReturnsStep ==
    ASSUME OneThreadEach, SharedInv, LockTypeOK', NEW t \in Threads, Step(t),
           NEW i \in Instances, NEW d \in lockOwner'[i]
    PROVE  \E u \in Threads : Home(u) = i /\ Returns(u, d)'
  <1> USE TopologyAssumption, DevicesAssumption, HomeType
  <1>0. /\ LockTypeOK /\ d \in Devices /\ Devices \subseteq Nat \ {0}
        /\ \A e \in Devices : e <= NumDevices
    BY DEF LockTypeOK, SharedInv, Devices
  <1>1. ASSUME NEW u \in Threads, u # t, Returns(u, d) PROVE Returns(u, d)'
    <2>1. CameraOf[u] # CameraOf[t]
      BY <1>1 DEF OneThreadEach
    <2>2. pc'[u] = pc[u] /\ dev'[u] = dev[u]
          /\ state'[CameraOf[u]] = state[CameraOf[u]]
      BY <1>0, <1>1, <2>1
      DEF LockTypeOK, Goto, Step, Acquire, LockCheck, LockF, Acquired,
          Release, Unlock, Unlocked, StartStop
    <2> QED
      BY <1>1, <2>2 DEF Returns
  <1>2. ASSUME Returns(t, d), d \in lockOwner[i], Home(t) = i
        PROVE  Returns(t, d)'
    <2> USE <1>0 DEF LockTypeOK, Goto, Returns
    <2>1. CASE Acquire(t) \/ Release(t)
      BY <1>2, <2>1 DEF Acquire, Release
    <2>2. CASE LockCheck(t) \/ LockF(t)
      BY <1>2, <2>2 DEF LockCheck, LockF, AfterFailedLock
    <2>3. CASE Acquired(t) \/ StartStop(t)
      BY <1>2, <2>3 DEF Acquired, StartStop
    <2>4. CASE Unlock(t)
      BY <1>2, <2>4 DEF Unlock
    <2>5. CASE Unlocked(t)
      BY <1>2, <2>5 DEF Unlocked
    <2> QED
      BY <2>1, <2>2, <2>3, <2>4, <2>5 DEF Step
  <1>3. CASE d \in lockOwner[i]
    BY <1>1, <1>2, <1>3 DEF SharedInv
  <1>4. CASE d \notin lockOwner[i]
    <2>1. LockF(t) /\ Home(t) = i /\ pc'[t] = "lock"
      BY <1>0, <1>4
      DEF LockTypeOK, Goto, Step, Acquire, LockCheck, LockF, Acquired,
          Release, Unlock, Unlocked, StartStop
    <2> QED
      BY <2>1 DEF Returns
  <1> QED
    BY <1>3, <1>4

(* A failed acquire() and a release() return every lock they held, also    *)
(* when cameras of one pipeline handler interfere with each other.         *)
THEOREM NothingLeaks == ASSUME OneThreadEach PROVE LockSpec => []NoLeakedLocks
  <1> USE TopologyAssumption, DevicesAssumption, HomeType
  <1>1. LockInit => SharedInv
    BY LockInitInv DEF LockInv, LockInit, SharedInv, BeforeEnd
  <1>2. SharedInv /\ [LockNext]_lockVars => SharedInv'
    <2> SUFFICES ASSUME SharedInv, [LockNext]_lockVars PROVE SharedInv'
      OBVIOUS
    <2>1. LockTypeOK'
      BY LockTypeStep DEF SharedInv
    <2>2. OwnersAgree'
      BY <2>1, OwnersStep DEF SharedInv
    <2>3. CASE \E t \in Threads : Step(t)
      <3>1. PICK t \in Threads : Step(t)
        BY <2>3
      <3>2. \A u \in Threads : BeforeEnd(u)'
        BY <3>1 DEF SharedInv, LockTypeOK, BeforeEnd, Goto, Step, Acquire,
                    LockCheck, LockF, AfterFailedLock, Acquired, Release,
                    Unlock, Unlocked, StartStop
      <3>3. \A i \in Instances : \A d \in lockOwner'[i] :
               \E u \in Threads : Home(u) = i /\ Returns(u, d)'
        BY <2>1, <3>1, ReturnsStep
      <3> QED
        BY <2>1, <2>2, <3>2, <3>3 DEF SharedInv, Home
    <2>4. ASSUME NEW i \in Instances, Crash(i) PROVE SharedInv'
      <3>1. \A u \in Threads : BeforeEnd(u)'
        BY <2>4 DEF SharedInv, BeforeEnd, Crash
      <3>2. ASSUME NEW j \in Instances, NEW d \in lockOwner'[j]
            PROVE  \E u \in Threads : Home(u) = j /\ Returns(u, d)'
        <4>1. j # i /\ d \in lockOwner[j]
          BY <2>4, <3>2 DEF SharedInv, LockTypeOK, Crash
        <4>2. PICK u \in Threads : Home(u) = j /\ Returns(u, d)
          BY <4>1 DEF SharedInv
        <4> QED
          BY <2>4, <4>1, <4>2 DEF Returns, Crash, Home
      <3> QED
        BY <2>1, <2>2, <3>1, <3>2 DEF SharedInv, Home
    <2>5. CASE UNCHANGED lockVars
      BY <2>5 DEF lockVars, SharedInv, LockTypeOK, OwnersAgree, BeforeEnd, Returns
    <2> QED
      BY <2>3, <2>4, <2>5 DEF LockNext
  <1>3. SharedInv => NoLeakedLocks
    <2> SUFFICES ASSUME SharedInv, NEW i \in Instances, ~InUse(i),
                        \A t \in Threads : Home(t) = i => pc[t] = "idle",
                        NEW d \in Devices
                 PROVE  kernelLock[d] # i
      BY DEF NoLeakedLocks
    <2>1. ASSUME NEW t \in Threads, Home(t) = i PROVE ~Returns(t, d)
      BY <2>1 DEF InUse, Held, Home, Returns, OneThreadEach
    <2> QED
      BY <2>1 DEF SharedInv, OwnersAgree
  <1> QED
    BY <1>1, <1>2, <1>3, PTL DEF LockSpec

(* V4L2Devices has the locks as one of its aspects.                        *)
THEOREM LocksAreAnAspect == V4L2DeviceSpec => LockSpec
  <1>1. V4L2DeviceInit => LockInit
    BY DEF V4L2DeviceInit
  <1>2. [V4L2DeviceNext]_v4l2DeviceVars => [LockNext]_lockVars
    BY DEF V4L2DeviceNext, v4l2DeviceVars, WithBuffers, WithControls,
           WithExposure, WithLocks, WithEnumerator
  <1> QED
    BY <1>1, <1>2, PTL DEF V4L2DeviceSpec, LockSpec

-----------------------------------------------------------------------------
(***************************************************************************)
(* DeviceEnumerator.                                                       *)
(***************************************************************************)

Actions == {"add", "remove"}

(* The announcements of d that the enumerator has not handled: its turn in *)
(* the scan and the "add" events.                                          *)
AddsIn(s) == {i \in 1 .. Len(s) : s[i] = "add"}

ToScan(d) == IF d \in scan THEN 1 ELSE 0

Unhandled(d) == ToScan(d) + Cardinality(AddsIn(events[d]))

(* Before enumerate() nothing was announced and every table is empty.      *)
Untouched ==
    stage = "created" =>
        /\ scan = {} /\ events = [d \in UdevDevices |-> <<>>]
        /\ orphans = {} /\ created = [m \in Media |-> 0]
        /\ devMap = [n \in Nodes |-> NoObject]

(* A node was announced before if it is an orphan or has met a dependency. *)
SeenBefore(n) ==
    n \in orphans \/ (devMap[n] # NoObject /\ n \notin pending[devMap[n]])

(* Each announcement was caused by another time that d was plugged in.  A  *)
(* media device makes an object with each that is handled.                 *)
Announced ==
    /\ \A d \in present : 1 <= plugs[d]
    /\ \A d \in UdevDevices : Unhandled(d) <= plugs[d]
    /\ \A m \in Media : created[m] + Unhandled(m) <= plugs[m]
    /\ \A n \in Nodes : SeenBefore(n) => 1 + Unhandled(n) <= plugs[n]

(* An object that was not made yet is in no table; one that waits is not   *)
(* listed, and its nodes are known or awaited; devMap_ knows a node only   *)
(* for an object that needs it.                                            *)
TablesSound ==
    /\ \A o \in Objects :
         /\ o[2] > created[o[1]] => o \notin ToSet(devices) /\ pending[o] = {}
         /\ pending[o] # {} =>
              /\ o \notin ToSet(devices)
              /\ resolved[o] \cup pending[o] = NodesOf(o[1])
    /\ \A n \in Nodes :
         devMap[n] # NoObject => n \in NodesOf(devMap[n][1])

EnumeratorInv ==
    /\ EnumeratorTypeOK /\ ListedComplete /\ DanglingOnlyByReplug
    /\ Untouched /\ Announced /\ TablesSound

-----------------------------------------------------------------------------
(***************************************************************************)
(* Counting the announcements.                                             *)
(***************************************************************************)

(* The adds in a queue of events are finitely many.                        *)
LEMMA AddsFinite ==
  ASSUME NEW s \in Seq(Actions)
  PROVE  IsFiniteSet(AddsIn(s)) /\ Cardinality(AddsIn(s)) \in Nat
  <1>1. Len(s) \in Nat
    OBVIOUS
  <1>2. IsFiniteSet(1 .. Len(s))
    BY <1>1, FS_Interval
  <1>3. AddsIn(s) \subseteq 1 .. Len(s)
    BY DEF AddsIn
  <1>4. IsFiniteSet(AddsIn(s))
    BY <1>2, <1>3, FS_Subset
  <1> QED
    BY <1>4, FS_CardinalityType

(* udev announces something more.                                          *)
LEMMA AddsAppend ==
  ASSUME NEW s \in Seq(Actions), NEW a \in Actions
  PROVE  Cardinality(AddsIn(Append(s, a))) =
            Cardinality(AddsIn(s)) + (IF a = "add" THEN 1 ELSE 0)
  <1> DEFINE t == Append(s, a)
  <1>1. /\ Len(s) \in Nat /\ Len(t) = Len(s) + 1
        /\ \A j \in 1 .. Len(s) : t[j] = s[j]
        /\ t[Len(s) + 1] = a
    BY AppendProperties
  <1> HIDE DEF t
  <1>2. IsFiniteSet(AddsIn(s)) /\ Cardinality(AddsIn(s)) \in Nat
    BY AddsFinite
  <1>3. Len(s) + 1 \notin AddsIn(s)
    BY <1>1 DEF AddsIn
  <1>4. AddsIn(t) = IF a = "add" THEN AddsIn(s) \cup {Len(s) + 1} ELSE AddsIn(s)
    BY <1>1 DEF AddsIn
  <1>5. CASE a = "add"
    <2>1. Cardinality(AddsIn(s) \cup {Len(s) + 1}) = Cardinality(AddsIn(s)) + 1
      BY <1>2, <1>3, FS_AddElement
    <2> QED
      BY <2>1, <1>4, <1>5 DEF t
  <1>6. CASE a # "add"
    BY <1>2, <1>4, <1>6 DEF t
  <1> QED
    BY <1>5, <1>6

(* The enumerator receives an event.                                       *)
LEMMA AddsTail ==
  ASSUME NEW s \in Seq(Actions), s # <<>>
  PROVE  /\ Tail(s) \in Seq(Actions)
         /\ Cardinality(AddsIn(s)) =
              Cardinality(AddsIn(Tail(s))) + (IF Head(s) = "add" THEN 1 ELSE 0)
  <1> DEFINE t == Tail(s)
             up == {i + 1 : i \in AddsIn(t)}
             f == [i \in AddsIn(t) |-> i + 1]
  <1>1. /\ t \in Seq(Actions) /\ Len(s) \in Nat /\ Len(s) # 0
        /\ Len(t) = Len(s) - 1
        /\ \A j \in 1 .. Len(t) : t[j] = s[j + 1]
        /\ Head(s) = s[1]
    BY HeadTailProperties, EmptySeq
  <1> HIDE DEF t
  <1>2. IsFiniteSet(AddsIn(t)) /\ Cardinality(AddsIn(t)) \in Nat
    BY <1>1, AddsFinite
  <1>3. AddsIn(t) \subseteq Nat
    BY <1>1 DEF AddsIn
  <1>4. f \in Bijection(AddsIn(t), up)
    <2>1. f \in Injection(AddsIn(t), up)
      BY <1>3 DEF Injection, IsInjective
    <2>2. f \in Surjection(AddsIn(t), up)
      BY <1>3 DEF Surjection
    <2> QED
      BY <2>1, <2>2 DEF Bijection
  <1>5. IsFiniteSet(up) /\ Cardinality(up) = Cardinality(AddsIn(t))
    <2>1. ExistsBijection(AddsIn(t), up)
      BY <1>4 DEF ExistsBijection
    <2> HIDE DEF f, up
    <2> QED
      BY <1>2, <2>1, FS_Bijection
  <1>6. 1 \notin up
    BY <1>3, <1>1 DEF AddsIn
  <1>7. AddsIn(s) = IF Head(s) = "add" THEN up \cup {1} ELSE up
    <2>1. ASSUME NEW i \in AddsIn(s), i # 1 PROVE i \in up
      <3>1. i \in 2 .. Len(s) /\ i - 1 \in 1 .. Len(t)
        BY <1>1, <2>1 DEF AddsIn
      <3>2. t[i - 1] = s[(i - 1) + 1] /\ (i - 1) + 1 = i
        BY <1>1, <3>1
      <3>3. i - 1 \in AddsIn(t)
        BY <3>1, <3>2, <2>1 DEF AddsIn
      <3> QED
        BY <3>2, <3>3
    <2>2. ASSUME NEW i \in up PROVE i \in AddsIn(s)
      <3>1. PICK j \in AddsIn(t) : i = j + 1
        OBVIOUS
      <3> QED
        BY <1>1, <3>1 DEF AddsIn
    <2>3. 1 \in AddsIn(s) <=> Head(s) = "add"
      BY <1>1 DEF AddsIn
    <2> HIDE DEF up
    <2>4. up \subseteq AddsIn(s) /\ AddsIn(s) \subseteq up \cup {1}
      BY <2>1, <2>2
    <2> DEFINE A == AddsIn(s)
    <2> HIDE DEF A
    <2>5. CASE Head(s) = "add"
      <3>1. 1 \in A /\ up \subseteq A /\ A \subseteq up \cup {1}
        BY <2>3, <2>4, <2>5 DEF A
      <3>2. A = up \cup {1}
        BY <3>1
      <3> QED
        BY <3>2, <2>5 DEF A
    <2>6. CASE Head(s) # "add"
      <3>1. 1 \notin A /\ up \subseteq A /\ A \subseteq up \cup {1}
        BY <2>3, <2>4, <2>6 DEF A
      <3>2. A = up
        BY <3>1
      <3> QED
        BY <3>2, <2>6 DEF A
    <2> QED
      BY <2>5, <2>6
  <1> HIDE DEF up
  <1>8. Cardinality(up \cup {1}) = Cardinality(up) + 1
    BY <1>5, <1>6, FS_AddElement
  <1>9. CASE Head(s) = "add"
    BY <1>1, <1>2, <1>5, <1>7, <1>8, <1>9 DEF t
  <1>10. CASE Head(s) # "add"
    BY <1>1, <1>2, <1>5, <1>7, <1>10 DEF t
  <1> QED
    BY <1>9, <1>10

(* Unhandled announcements are a number.                                   *)
LEMMA UnhandledType ==
  ASSUME EnumeratorTypeOK
  PROVE  \A d \in UdevDevices : Unhandled(d) \in Nat
  <1> SUFFICES ASSUME NEW d \in UdevDevices PROVE Unhandled(d) \in Nat
    OBVIOUS
  <1>1. events[d] \in Seq(Actions)
    BY DEF EnumeratorTypeOK, Actions
  <1>2. Cardinality(AddsIn(events[d])) \in Nat
    BY <1>1, AddsFinite
  <1>3. ToScan(d) \in Nat
    BY DEF ToScan
  <1> QED
    BY <1>2, <1>3 DEF Unhandled

(* A media device needs nodes only.                                        *)
LEMMA NodesOfMedia ==
  ASSUME NEW m \in Media
  PROVE  NodesOf(m) \subseteq Nodes
  BY DEF NodesOf, DeviceNumbers, Interface, Nodes

(* What removeDevice() finds is listed.                                    *)
LEMMA ListedIndex ==
  ASSUME NEW m, devices \in Seq(Objects), Listed(m) > 0
  PROVE  Listed(m) \in 1 .. Len(devices)
  <1> DEFINE I == {i \in 1 .. Len(devices) : devices[i][1] = m}
  <1>1. Listed(m) = IF I = {} THEN 0 ELSE Min(I)
    BY DEF Listed, SelectInSeq
  <1>2. I \subseteq Nat
    OBVIOUS
  <1> HIDE DEF I
  <1>3. CASE I = {}
    BY <1>1, <1>3
  <1>4. CASE I # {}
    <2>1. Min(I) \in I
      BY <1>2, <1>4, LeastElement
    <2> QED
      BY <1>1, <1>4, <2>1 DEF I
  <1> QED
    BY <1>3, <1>4

-----------------------------------------------------------------------------
(***************************************************************************)
(* What the enumerator does with an announcement.                          *)
(***************************************************************************)

(* A turn of the scan or an event: no announcement is made by it.          *)
Receives ==
    /\ stage \in {"scan", "monitor"}
    /\ stage' \in {"scan", "monitor", "failed"}
    /\ scan' \subseteq UdevDevices
    /\ events' \in [UdevDevices -> Seq(Actions)]
    /\ UNCHANGED <<present, plugs, missed>>
    /\ \A x \in UdevDevices :
         Unhandled(x)' \in Nat /\ Unhandled(x) \in Nat /\ Unhandled(x)' <= Unhandled(x)

(* And one of d is handled.                                                *)
Handles(d) == Receives /\ 1 + Unhandled(d)' <= Unhandled(d)

(* The announcements still match when no node becomes known.               *)
LEMMA AnnouncedSame ==
  ASSUME EnumeratorInv, Receives, created' = created,
         \A n \in Nodes : SeenBefore(n)' <=> SeenBefore(n)
  PROVE  Announced'
  <1>1. \A x \in UdevDevices : /\ plugs'[x] = plugs[x] /\ plugs[x] \in Nat
                            /\ Unhandled(x)' \in Nat /\ Unhandled(x) \in Nat
                            /\ Unhandled(x)' <= Unhandled(x)
    BY DEF EnumeratorInv, EnumeratorTypeOK, Receives
  <1>2. /\ Media \subseteq UdevDevices /\ Nodes \subseteq UdevDevices
        /\ \A m \in Media : created[m] \in Nat
    BY DEF EnumeratorInv, EnumeratorTypeOK, UdevDevices
  <1>4. present' = present /\ present \subseteq UdevDevices /\ created' = created
    BY DEF Receives, EnumeratorInv, EnumeratorTypeOK
  <1>5. \A m \in Media : created'[m] + Unhandled(m)' <= plugs'[m]
    BY <1>1, <1>2, <1>4 DEF EnumeratorInv, Announced
  <1>6. \A n \in Nodes : SeenBefore(n)' => 1 + Unhandled(n)' <= plugs'[n]
    BY <1>1, <1>2 DEF EnumeratorInv, Announced
  <1>7. \A x \in present' : 1 <= plugs'[x]
    BY <1>1, <1>4 DEF EnumeratorInv, Announced
  <1>8. \A x \in UdevDevices : Unhandled(x)' <= plugs'[x]
    BY <1>1 DEF EnumeratorInv, Announced
  <1> QED
    BY <1>5, <1>6, <1>7, <1>8 DEF Announced

(* An announcement is ignored.                                             *)
LEMMA Ignored ==
  ASSUME EnumeratorInv, Receives, UNCHANGED tableVars
  PROVE  EnumeratorInv'
  <1> USE DEF tableVars
  <1>1. EnumeratorTypeOK'
    BY DEF EnumeratorInv, EnumeratorTypeOK, Receives, Actions
  <1>2. ListedComplete'
    BY DEF EnumeratorInv, ListedComplete, ListedObjects
  <1>3. DanglingOnlyByReplug'
    BY DEF EnumeratorInv, DanglingOnlyByReplug, Receives
  <1>4. Untouched'
    BY DEF Untouched, Receives
  <1>5. Announced'
    <2>1. created' = created /\ \A n \in Nodes : SeenBefore(n)' <=> SeenBefore(n)
      BY DEF SeenBefore
    <2> QED
      BY <2>1, AnnouncedSame
  <1>6. TablesSound'
    BY DEF EnumeratorInv, TablesSound
  <1> QED
    BY <1>1, <1>2, <1>3, <1>4, <1>5, <1>6 DEF EnumeratorInv

(* The announcements still match when no node becomes known but d.         *)
LEMMA AnnouncedKept ==
  ASSUME EnumeratorInv, NEW d \in UdevDevices, Handles(d),
         created' \in [Media -> Nat],
         \A m \in Media : \/ created'[m] = created[m]
                          \/ m = d /\ created'[m] = created[m] + 1,
         \A n \in Nodes : SeenBefore(n)' => SeenBefore(n) \/ n = d
  PROVE  Announced'
  <1>1. \A x \in UdevDevices : /\ plugs'[x] = plugs[x] /\ plugs[x] \in Nat
                            /\ Unhandled(x)' \in Nat /\ Unhandled(x) \in Nat
                            /\ Unhandled(x)' <= Unhandled(x)
    BY DEF EnumeratorInv, EnumeratorTypeOK, Handles, Receives
  <1>2. /\ Media \subseteq UdevDevices /\ Nodes \subseteq UdevDevices
        /\ \A m \in Media : created[m] \in Nat
    BY DEF EnumeratorInv, EnumeratorTypeOK, UdevDevices
  <1>3. present' = present /\ 1 + Unhandled(d)' <= Unhandled(d)
    BY DEF Handles, Receives
  <1>4. \A m \in Media : created'[m] + Unhandled(m)' <= plugs'[m]
    BY <1>1, <1>2, <1>3 DEF EnumeratorInv, Announced
  <1>5. \A n \in Nodes : SeenBefore(n)' => 1 + Unhandled(n)' <= plugs'[n]
    BY <1>1, <1>2, <1>3 DEF EnumeratorInv, Announced
  <1>6. \A x \in present' : 1 <= plugs'[x]
    BY <1>3 DEF EnumeratorInv, Announced, EnumeratorTypeOK, Handles, Receives
  <1>7. \A x \in UdevDevices : Unhandled(x)' <= plugs'[x]
    BY <1>1 DEF EnumeratorInv, Announced
  <1> QED
    BY <1>4, <1>5, <1>6, <1>7 DEF Announced

(* addV4L2Device() with a node that nobody waits for.                      *)
LEMMA AddOrphanStep ==
  ASSUME EnumeratorInv, NEW d \in Nodes, Handles(d), AddOrphan(d)
  PROVE  EnumeratorInv'
  <1> USE DEF AddOrphan
  <1>1. EnumeratorTypeOK'
    BY DEF EnumeratorInv, EnumeratorTypeOK, Handles, Receives, Actions
  <1>2. ListedComplete'
    BY DEF EnumeratorInv, ListedComplete, ListedObjects
  <1>3. DanglingOnlyByReplug'
    BY DEF EnumeratorInv, DanglingOnlyByReplug, Handles, Receives
  <1>4. Untouched'
    BY DEF Untouched, Handles, Receives
  <1>5. Announced'
    <2>1. d \in UdevDevices
      BY DEF UdevDevices
    <2>2. created' = created /\ created \in [Media -> Nat]
      BY DEF EnumeratorInv, EnumeratorTypeOK
    <2>3. \A n \in Nodes : SeenBefore(n)' => SeenBefore(n) \/ n = d
      BY DEF SeenBefore
    <2> QED
      BY <2>1, <2>2, <2>3, AnnouncedKept
  <1>6. TablesSound'
    BY DEF EnumeratorInv, TablesSound
  <1> QED
    BY <1>1, <1>2, <1>3, <1>4, <1>5, <1>6 DEF EnumeratorInv

(* addV4L2Device() with a node that has been met before: it was plugged in *)
(* twice.                                                                  *)
LEMMA UseDeletedStep ==
  ASSUME EnumeratorInv, NEW d \in Nodes, Handles(d), UseDeleted(d)
  PROVE  EnumeratorInv'
  <1> USE DEF UseDeleted
  <1>0. d \in UdevDevices
    BY DEF UdevDevices
  <1>1. EnumeratorTypeOK'
    BY DEF EnumeratorInv, EnumeratorTypeOK, Handles, Receives, Actions
  <1>2. ListedComplete'
    BY DEF EnumeratorInv, ListedComplete, ListedObjects
  <1>3. DanglingOnlyByReplug'
    <2>1. SeenBefore(d)
      BY DEF SeenBefore
    <2>2. 1 + Unhandled(d) <= plugs[d]
      BY <2>1 DEF EnumeratorInv, Announced
    <2>3. /\ Unhandled(d)' \in Nat /\ Unhandled(d) \in Nat /\ plugs[d] \in Nat
          /\ 1 + Unhandled(d)' <= Unhandled(d) /\ plugs' = plugs
      BY <1>0 DEF Handles, Receives, EnumeratorInv, EnumeratorTypeOK
    <2>4. plugs'[d] > 1
      BY <2>2, <2>3
    <2> QED
      BY <2>4 DEF DanglingOnlyByReplug
  <1>4. Untouched'
    BY DEF Untouched, Handles, Receives
  <1>5. Announced'
    <2>2. created' = created /\ created \in [Media -> Nat]
      BY DEF EnumeratorInv, EnumeratorTypeOK
    <2>3. \A n \in Nodes : SeenBefore(n)' => SeenBefore(n) \/ n = d
      BY DEF SeenBefore
    <2> QED
      BY <1>0, <2>2, <2>3, AnnouncedKept
  <1>6. TablesSound'
    BY DEF EnumeratorInv, TablesSound
  <1> QED
    BY <1>1, <1>2, <1>3, <1>4, <1>5, <1>6 DEF EnumeratorInv

(* An object that is listed when all of its nodes are known.               *)
LEMMA ListedOnce ==
  ASSUME EnumeratorInv, NEW o \in Objects, o \notin ToSet(devices)
  PROVE  /\ Append(devices, o) \in Seq(Objects)
         /\ IsInjective(Append(devices, o))
         /\ ToSet(Append(devices, o)) = ToSet(devices) \cup {o}
  <1>1. devices \in Seq(Objects) /\ IsInjective(devices)
    BY DEF EnumeratorInv, EnumeratorTypeOK, ListedComplete
  <1>2. /\ ToSet(Append(devices, o)) = ToSet(devices) \cup {o}
        /\ IsInjective(Append(devices, o))
    BY <1>1, AppendInjectiveNew
  <1>3. Append(devices, o) \in Seq(Objects)
    BY <1>1
  <1> QED
    BY <1>2, <1>3

(* addV4L2Device() with a node that an object waits for.                   *)
LEMMA MeetDependencyStep ==
  ASSUME EnumeratorInv, NEW d \in Nodes, Handles(d), MeetDependency(d)
  PROVE  EnumeratorInv'
  <1> DEFINE o == devMap[d]
             left == IF pending[o] = {d} THEN {} ELSE pending[o] \ {d}
  <1>0. /\ o \in Objects /\ o # NoObject /\ pending[o] # {}
        /\ d \in NodesOf(o[1]) /\ d \in UdevDevices
        /\ resolved[o] \cup pending[o] = NodesOf(o[1])
        /\ o \notin ToSet(devices)
    BY DEF MeetDependency, EnumeratorInv, EnumeratorTypeOK, TablesSound, UdevDevices
  <1>1. /\ resolved' = [resolved EXCEPT ![o] = @ \cup {d}]
        /\ pending' = [pending EXCEPT ![o] = left]
        /\ devices' = IF pending[o] = {d} THEN Append(devices, o) ELSE devices
        /\ UNCHANGED <<orphans, devMap, created, dangling>>
    BY DEF MeetDependency, LastDependency, AddDevice
  <1>2. /\ pending \in [Objects -> SUBSET Nodes]
        /\ resolved \in [Objects -> SUBSET Nodes]
        /\ devMap \in [Nodes -> Objects \cup {NoObject}]
    BY DEF EnumeratorInv, EnumeratorTypeOK
  <1> HIDE DEF o
  <1>4. left = pending[o] \ {d} /\ left \subseteq Nodes
    BY <1>2, <1>0
  <1> HIDE DEF left
  <1>5. /\ pending'[o] = left /\ resolved'[o] = resolved[o] \cup {d}
        /\ \A p \in Objects : p # o => pending'[p] = pending[p] /\ resolved'[p] = resolved[p]
    BY <1>0, <1>1, <1>2
  <1>6. /\ devices' \in Seq(Objects) /\ IsInjective(devices')
        /\ ToSet(devices') = IF pending[o] = {d} THEN ToSet(devices) \cup {o}
                                                 ELSE ToSet(devices)
    <2>1. CASE pending[o] = {d}
      BY <2>1, <1>0, <1>1, ListedOnce
    <2>2. CASE pending[o] # {d}
      BY <2>2, <1>1 DEF EnumeratorInv, EnumeratorTypeOK, ListedComplete
    <2> QED
      BY <2>1, <2>2
  <1>7. EnumeratorTypeOK'
    <2>1. pending' \in [Objects -> SUBSET Nodes] /\ resolved' \in [Objects -> SUBSET Nodes]
      BY <1>1, <1>2, <1>4
    <2> QED
      BY <1>1, <1>6, <2>1 DEF EnumeratorInv, EnumeratorTypeOK, Handles, Receives, Actions
  <1>8. ListedComplete'
    <2>1. ASSUME NEW p \in ToSet(devices')
          PROVE  resolved'[p] = NodesOf(p[1]) /\ pending'[p] = {}
      <3>1. CASE p = o
        <4>1. pending[o] = {d}
          BY <1>0, <1>6, <2>1, <3>1
        <4> QED
          BY <4>1, <3>1, <1>0, <1>4, <1>5
      <3>2. CASE p # o
        <4>1. p \in ToSet(devices)
          BY <1>6, <2>1, <3>2
        <4>2. p \in Objects
          BY <4>1 DEF ToSet, EnumeratorInv, EnumeratorTypeOK
        <4> QED
          BY <4>1, <4>2, <3>2, <1>5 DEF EnumeratorInv, ListedComplete, ListedObjects
      <3> QED
        BY <3>1, <3>2
    <2> QED
      BY <2>1, <1>6 DEF ListedComplete, ListedObjects
  <1>9. DanglingOnlyByReplug'
    BY <1>1 DEF EnumeratorInv, DanglingOnlyByReplug, Handles, Receives
  <1>10. Untouched'
    BY DEF Untouched, Handles, Receives
  <1>11. Announced'
    <2>1. created' = created /\ created \in [Media -> Nat]
      BY <1>1 DEF EnumeratorInv, EnumeratorTypeOK
    <2>2. ASSUME NEW n \in Nodes, SeenBefore(n)', n # d PROVE SeenBefore(n)
      <3>1. CASE devMap[n] = o
        BY <3>1, <2>2, <1>1, <1>4, <1>5 DEF SeenBefore
      <3>2. CASE devMap[n] # o
        BY <3>2, <2>2, <1>1, <1>2, <1>5 DEF SeenBefore
      <3> QED
        BY <3>1, <3>2
    <2> QED
      BY <1>0, <2>1, <2>2, AnnouncedKept
  <1>12. TablesSound'
    <2>1. ASSUME NEW p \in Objects
          PROVE  /\ p[2] > created'[p[1]] => p \notin ToSet(devices') /\ pending'[p] = {}
                 /\ pending'[p] # {} =>
                      /\ p \notin ToSet(devices')
                      /\ resolved'[p] \cup pending'[p] = NodesOf(p[1])
      <3>1. CASE p = o
        <4>1. ~(o[2] > created[o[1]])
          BY <1>0 DEF EnumeratorInv, TablesSound
        <4>2. left # {} => pending[o] # {d}
          BY <1>4
        <4> QED
          BY <4>1, <4>2, <3>1, <1>0, <1>1, <1>4, <1>5, <1>6
      <3>2. CASE p # o
        BY <3>2, <1>1, <1>5, <1>6 DEF EnumeratorInv, TablesSound
      <3> QED
        BY <3>1, <3>2
    <2>2. \A n \in Nodes : devMap'[n] # NoObject => n \in NodesOf(devMap'[n][1])
      BY <1>1 DEF EnumeratorInv, TablesSound
    <2> QED
      BY <2>1, <2>2 DEF TablesSound
  <1> QED
    BY <1>7, <1>8, <1>9, <1>10, <1>11, <1>12 DEF EnumeratorInv

(* A media device makes an object, which is listed, waits or is forgotten. *)
LEMMA AddMediaStep ==
  ASSUME EnumeratorInv, NEW d \in Media, Handles(d), AddMedia(d)
  PROVE  EnumeratorInv'
  <1> DEFINE o == <<d, created[d] + 1>>
             nodes == NodesOf(d)
             deps == nodes \ orphans
  <1>0. /\ d \in UdevDevices /\ created \in [Media -> 0 .. MaxPlugs] /\ created[d] \in Nat
        /\ pending \in [Objects -> SUBSET Nodes]
        /\ resolved \in [Objects -> SUBSET Nodes]
        /\ devMap \in [Nodes -> Objects \cup {NoObject}]
        /\ nodes \subseteq Nodes /\ deps \subseteq Nodes
    <2>1. nodes \subseteq Nodes
      BY NodesOfMedia
    <2> QED
      BY <2>1 DEF EnumeratorInv, EnumeratorTypeOK, UdevDevices
  <1>1. created[d] + 1 \in 1 .. MaxPlugs
    <2>1. created[d] + Unhandled(d) <= plugs[d]
      BY DEF EnumeratorInv, Announced
    <2>2. /\ Unhandled(d)' \in Nat /\ Unhandled(d) \in Nat
          /\ 1 + Unhandled(d)' <= Unhandled(d)
      BY <1>0 DEF Handles, Receives
    <2>3. plugs[d] \in 0 .. MaxPlugs /\ MaxPlugs \in Nat
      BY <1>0, EnumeratorAssumption DEF EnumeratorInv, EnumeratorTypeOK
    <2> QED
      BY <1>0, <2>1, <2>2, <2>3
  <1>2. o \in Objects /\ o[1] = d /\ o[2] = created[d] + 1
    BY <1>1 DEF Objects
  <1>3. created' = [created EXCEPT ![d] = @ + 1] /\ created'[d] = created[d] + 1
    BY <1>0 DEF AddMedia
  <1>4. PopulateMediaDevice(o) /\ dangling' = dangling
    BY <1>3 DEF AddMedia
  <1> HIDE DEF o
  <1>5. o \notin ToSet(devices) /\ pending[o] = {} /\ o # NoObject
    BY <1>0, <1>2, EnumeratorAssumption DEF EnumeratorInv, TablesSound
  <1>6. /\ created' \in [Media -> 0 .. MaxPlugs] /\ created' \in [Media -> Nat]
        /\ \A m \in Media : \/ created'[m] = created[m]
                            \/ m = d /\ created'[m] = created[m] + 1
    BY <1>0, <1>1, <1>3
  <1>7. DanglingOnlyByReplug'
    BY <1>4 DEF EnumeratorInv, DanglingOnlyByReplug, Handles, Receives
  <1>8. Untouched'
    BY DEF Untouched, Handles, Receives
  <1>9. CASE UNCHANGED <<orphans, resolved, pending, devMap, devices>>
    <2>1. EnumeratorTypeOK'
      BY <1>9, <1>4, <1>6 DEF EnumeratorInv, EnumeratorTypeOK, Handles, Receives, Actions
    <2>2. ListedComplete'
      BY <1>9 DEF EnumeratorInv, ListedComplete, ListedObjects
    <2>3. Announced'
      <3>1. \A n \in Nodes : SeenBefore(n)' => SeenBefore(n) \/ n = d
        BY <1>9 DEF SeenBefore
      <3> QED
        BY <3>1, <1>0, <1>6, AnnouncedKept
    <2>4. TablesSound'
      <3>1. \A p \in Objects : p[2] > created'[p[1]] => p[2] > created[p[1]]
        <4>1. \A p \in Objects : p[1] \in Media /\ p[2] \in Nat /\ created[p[1]] \in Nat
          BY <1>0 DEF Objects
        <4> QED
          BY <4>1, <1>6
      <3> QED
        BY <3>1, <1>9 DEF EnumeratorInv, TablesSound
    <2> QED
      BY <2>1, <2>2, <2>3, <2>4, <1>7, <1>8 DEF EnumeratorInv
  <1>10. CASE /\ orphans' = orphans \ nodes
              /\ resolved' = [resolved EXCEPT ![o] = nodes \cap orphans]
              /\ pending' = [pending EXCEPT ![o] = deps]
              /\ devMap' = DevMapWith(o, deps)
              /\ IF deps = {} THEN AddDevice(o) ELSE UNCHANGED devices
    <2>1. /\ devices' \in Seq(Objects) /\ IsInjective(devices')
          /\ ToSet(devices') = IF deps = {} THEN ToSet(devices) \cup {o}
                                            ELSE ToSet(devices)
      <3>1. CASE deps = {}
        BY <3>1, <1>2, <1>5, <1>10, ListedOnce DEF AddDevice
      <3>2. CASE deps # {}
        BY <3>2, <1>10 DEF EnumeratorInv, EnumeratorTypeOK, ListedComplete
      <3> QED
        BY <3>1, <3>2
    <2>2. /\ nodes = NodesOf(o[1]) /\ (nodes \cap orphans) \cup deps = nodes
          /\ (deps = {} => nodes \cap orphans = nodes)
      BY <1>2
    <2>3. devMap' = [n \in Nodes |-> IF n \in deps THEN o ELSE devMap[n]]
      BY <1>10 DEF DevMapWith
    <2> HIDE DEF deps, nodes
    <2>4. /\ pending'[o] = deps /\ resolved'[o] = nodes \cap orphans
          /\ \A p \in Objects : p # o => pending'[p] = pending[p] /\ resolved'[p] = resolved[p]
      BY <1>0, <1>2, <1>10
    <2>5. EnumeratorTypeOK'
      <3>1. pending' \in [Objects -> SUBSET Nodes] /\ resolved' \in [Objects -> SUBSET Nodes]
        BY <1>0, <1>2, <1>10
      <3>2. devMap' \in [Nodes -> Objects \cup {NoObject}]
        BY <1>0, <1>2, <2>3
      <3>3. orphans' \subseteq Nodes
        BY <1>10 DEF EnumeratorInv, EnumeratorTypeOK
      <3> QED
        BY <3>1, <3>2, <3>3, <2>1, <1>4, <1>6
           DEF EnumeratorInv, EnumeratorTypeOK, Handles, Receives, Actions
    <2>6. ListedComplete'
      <3>1. ASSUME NEW p \in ToSet(devices')
            PROVE  resolved'[p] = NodesOf(p[1]) /\ pending'[p] = {}
        <4>1. CASE p = o
          <5>1. deps = {}
            BY <4>1, <3>1, <2>1, <1>5
          <5> QED
            BY <5>1, <4>1, <2>2, <2>4
        <4>2. CASE p # o
          <5>1. p \in ToSet(devices)
            BY <2>1, <3>1, <4>2
          <5>2. p \in Objects
            BY <5>1 DEF ToSet, EnumeratorInv, EnumeratorTypeOK
          <5> QED
            BY <5>1, <5>2, <4>2, <2>4 DEF EnumeratorInv, ListedComplete, ListedObjects
        <4> QED
          BY <4>1, <4>2
      <3> QED
        BY <3>1, <2>1 DEF ListedComplete, ListedObjects
    <2>7. Announced'
      <3>1. ASSUME NEW n \in Nodes, SeenBefore(n)' PROVE SeenBefore(n)
        <4>1. CASE n \in deps
          <5>1. devMap'[n] = o /\ n \in pending'[devMap'[n]] /\ n \notin orphans'
            BY <4>1, <2>3, <2>4, <1>10 DEF deps
          <5> QED
            BY <5>1, <3>1 DEF SeenBefore
        <4>2. CASE n \notin deps
          <5>1. devMap'[n] = devMap[n] /\ devMap[n] \in Objects \cup {NoObject}
            BY <4>2, <2>3, <1>0
          <5>2. CASE n \in orphans'
            BY <5>2, <1>10 DEF SeenBefore
          <5>3. CASE devMap[n] = o
            BY <5>1, <5>3, <1>5 DEF SeenBefore
          <5>4. CASE devMap[n] # o /\ n \notin orphans'
            BY <5>1, <5>4, <2>4, <3>1 DEF SeenBefore
          <5> QED
            BY <5>2, <5>3, <5>4
        <4> QED
          BY <4>1, <4>2
      <3> QED
        BY <3>1, <1>0, <1>6, AnnouncedKept
    <2>8. TablesSound'
      <3>1. ASSUME NEW p \in Objects
            PROVE  /\ p[2] > created'[p[1]] => p \notin ToSet(devices') /\ pending'[p] = {}
                   /\ pending'[p] # {} =>
                        /\ p \notin ToSet(devices')
                        /\ resolved'[p] \cup pending'[p] = NodesOf(p[1])
        <4>0. p[1] \in Media /\ p[2] \in Nat /\ created[p[1]] \in Nat /\ created'[p[1]] \in Nat
          BY <1>0, <1>6 DEF Objects
        <4>1. CASE p = o
          <5>1. ~(p[2] > created'[p[1]])
            BY <4>0, <4>1, <1>2, <1>3
          <5>2. deps # {} => p \notin ToSet(devices')
            BY <4>1, <2>1, <1>5
          <5> QED
            BY <5>1, <5>2, <4>1, <2>2, <2>4
        <4>2. CASE p # o
          <5>1. p \in ToSet(devices') <=> p \in ToSet(devices)
            BY <4>2, <2>1
          <5>2. p[2] > created'[p[1]] => p[2] > created[p[1]]
            BY <4>0, <1>6
          <5>3. pending'[p] = pending[p] /\ resolved'[p] = resolved[p]
            BY <4>2, <2>4
          <5> QED
            BY <5>1, <5>2, <5>3 DEF EnumeratorInv, TablesSound
        <4> QED
          BY <4>1, <4>2
      <3>2. ASSUME NEW n \in Nodes, devMap'[n] # NoObject
            PROVE  n \in NodesOf(devMap'[n][1])
        <4>1. CASE n \in deps
          BY <4>1, <2>2, <2>3 DEF deps
        <4>2. CASE n \notin deps
          BY <4>2, <3>2, <2>3 DEF EnumeratorInv, TablesSound
        <4> QED
          BY <4>1, <4>2
      <3> QED
        BY <3>1, <3>2 DEF TablesSound
    <2> QED
      BY <2>5, <2>6, <2>7, <2>8, <1>7, <1>8 DEF EnumeratorInv
  <1> QED
    BY <1>2, <1>4, <1>9, <1>10 DEF PopulateMediaDevice

(* addUdevDevice() keeps the tables sound.                                 *)
LEMMA AddUdevDeviceStep ==
  ASSUME EnumeratorInv, NEW d \in UdevDevices, Handles(d), AddUdevDevice(d)
  PROVE  EnumeratorInv'
  <1>1. CASE d \in Media /\ AddMedia(d)
    BY <1>1, AddMediaStep
  <1>2. CASE d \in Nodes /\ AddOrphan(d)
    BY <1>2, AddOrphanStep
  <1>3. CASE d \in Nodes /\ MeetDependency(d)
    BY <1>3, MeetDependencyStep
  <1>4. CASE d \in Nodes /\ UseDeleted(d)
    BY <1>4, UseDeletedStep
  <1>5. CASE UNCHANGED tableVars
    BY <1>5, Ignored DEF Handles
  <1> QED
    BY <1>1, <1>2, <1>3, <1>4, <1>5 DEF AddUdevDevice, AddV4L2Device

(* removeDevice() takes the first object of the device off the list.       *)
LEMMA RemoveDeviceStep ==
  ASSUME EnumeratorInv, NEW d \in Media, Receives, RemoveDevice(d)
  PROVE  EnumeratorInv'
  <1>1. CASE Listed(d) > 0
    <2> DEFINE i == Listed(d)
               r == RemoveAt(devices, i)
    <2>1. devices \in Seq(Objects) /\ IsInjective(devices)
      BY DEF EnumeratorInv, EnumeratorTypeOK, ListedComplete
    <2>2. i \in 1 .. Len(devices)
      BY <1>1, <2>1, ListedIndex
    <2> HIDE DEF i
    <2>3. r \in Seq(Objects)
      BY <2>1, <2>2, RemoveAtProperties
    <2>4. IsInjective(r) /\ ToSet(r) = ToSet(devices) \ {devices[i]}
      BY <2>1, <2>2, RemoveAtInjective
    <2>5. devices' = r /\ UNCHANGED <<orphans, pending, devMap, resolved, created, dangling>>
      BY <1>1 DEF RemoveDevice, i
    <2> HIDE DEF r
    <2>6. IsInjective(devices') /\ ToSet(devices') \subseteq ToSet(devices)
      BY <2>4, <2>5
    <2>7. EnumeratorTypeOK'
      BY <2>3, <2>5 DEF EnumeratorInv, EnumeratorTypeOK, Receives, Actions
    <2>8. ListedComplete'
      BY <2>5, <2>6 DEF EnumeratorInv, ListedComplete, ListedObjects
    <2>9. DanglingOnlyByReplug'
      BY <2>5 DEF EnumeratorInv, DanglingOnlyByReplug, Receives
    <2>10. Untouched'
      BY DEF Untouched, Receives
    <2>11. Announced'
      <3>1. created' = created /\ \A n \in Nodes : SeenBefore(n)' <=> SeenBefore(n)
        BY <2>5 DEF SeenBefore
      <3> QED
        BY <3>1, AnnouncedSame
    <2>12. TablesSound'
      BY <2>5, <2>6 DEF EnumeratorInv, TablesSound
    <2> QED
      BY <2>7, <2>8, <2>9, <2>10, <2>11, <2>12 DEF EnumeratorInv
  <1>2. CASE ~(Listed(d) > 0)
    BY <1>2, Ignored DEF RemoveDevice, tableVars
  <1> QED
    BY <1>1, <1>2

-----------------------------------------------------------------------------
(***************************************************************************)
(* One lemma per action.                                                   *)
(***************************************************************************)

(* The kernel adds a device or takes one away: tables and scan are left    *)
(* alone, and an announcement is queued for each time it was plugged in.   *)
LEMMA WorldStep ==
  ASSUME EnumeratorInv, NEW d \in UdevDevices, PlugDevice(d) \/ UnplugDevice(d)
  PROVE  EnumeratorInv'
  <1>1. /\ UNCHANGED <<stage, scan, tableVars>>
        /\ present \subseteq UdevDevices /\ present' \subseteq UdevDevices
        /\ present' \subseteq present \cup {d}
        /\ missed' \subseteq UdevDevices
        /\ plugs \in [UdevDevices -> 0 .. MaxPlugs] /\ MaxPlugs \in Nat
        /\ events \in [UdevDevices -> Seq(Actions)]
    BY EnumeratorAssumption DEF PlugDevice, UnplugDevice, EnumeratorInv, EnumeratorTypeOK, Actions
  <1>2. PICK add \in 0 .. 1, a \in Actions :
          /\ (a = "add" => add = 1)
          /\ (d \in present' => add = 1 \/ d \in present)
          /\ plugs' = [plugs EXCEPT ![d] = @ + add]
          /\ plugs[d] + add <= MaxPlugs
          /\ Announce(d, a)
    <2>1. CASE PlugDevice(d)
      <3>1. plugs[d] \in 0 .. MaxPlugs /\ plugs[d] < MaxPlugs
        BY <2>1, <1>1 DEF PlugDevice
      <3>2. plugs[d] + 1 <= MaxPlugs
        BY <3>1, <1>1
      <3> QED
        BY <2>1, <3>2 DEF PlugDevice, Actions
    <2>2. CASE UnplugDevice(d)
      <3>1. plugs[d] \in 0 .. MaxPlugs /\ plugs' = plugs /\ d \notin present'
        BY <2>2, <1>1 DEF UnplugDevice
      <3>2. plugs' = [plugs EXCEPT ![d] = @ + 0] /\ plugs[d] + 0 <= MaxPlugs
        BY <3>1, <1>1
      <3>3. Announce(d, "remove")
        BY <2>2 DEF UnplugDevice
      <3>4. 0 \in 0 .. 1 /\ "remove" \in Actions /\ "remove" # "add"
        BY DEF Actions
      <3> USE DEF Actions
      <3> WITNESS 0 \in 0 .. 1, "remove" \in Actions
      <3> QED
        BY <3>1, <3>2, <3>3, <3>4
    <2> QED
      BY <2>1, <2>2
  <1>3. /\ plugs' \in [UdevDevices -> 0 .. MaxPlugs]
        /\ plugs'[d] = plugs[d] + add
        /\ \A x \in UdevDevices : x # d => plugs'[x] = plugs[x]
        /\ \A x \in UdevDevices : plugs[x] \in Nat /\ plugs'[x] \in Nat /\ plugs[x] <= plugs'[x]
    <2>1. plugs[d] + add \in 0 .. MaxPlugs
      BY <1>1, <1>2
    <2> QED
      BY <2>1, <1>1, <1>2
  <1>4. /\ events' \in [UdevDevices -> Seq(Actions)]
        /\ \A x \in UdevDevices : x # d => events'[x] = events[x]
        /\ events'[d] = events[d] \/ events'[d] = Append(events[d], a)
    <2>1. events[d] \in Seq(Actions)
      BY <1>1
    <2>2. Append(events[d], a) \in Seq(Actions)
      BY <2>1, AppendProperties
    <2> DEFINE e == Append(events[d], a)
    <2>3. events' = [events EXCEPT ![d] = e] \/ events' = events
      BY <1>2 DEF Announce
    <2> HIDE DEF e
    <2>4. e \in Seq(Actions)
      BY <2>2 DEF e
    <2>5. /\ events' \in [UdevDevices -> Seq(Actions)]
          /\ \A x \in UdevDevices : x # d => events'[x] = events[x]
          /\ events'[d] = events[d] \/ events'[d] = e
      BY <1>1, <2>3, <2>4
    <2> QED
      BY <2>5 DEF e
  <1>5. /\ \A x \in UdevDevices : Unhandled(x) \in Nat
        /\ Unhandled(d)' \in Nat /\ Unhandled(d)' <= Unhandled(d) + add
        /\ \A x \in UdevDevices : x # d => Unhandled(x)' = Unhandled(x)
    <2>1. \A x \in UdevDevices : Unhandled(x) \in Nat
      BY UnhandledType DEF EnumeratorInv
    <2>2. \A x \in UdevDevices : ToScan(x)' = ToScan(x)
      BY <1>1 DEF ToScan
    <2>3. \A x \in UdevDevices : x # d => Unhandled(x)' = Unhandled(x)
      BY <1>4, <2>2 DEF Unhandled
    <2> DEFINE c == Cardinality(AddsIn(events[d]))
               k == Cardinality(AddsIn(events'[d]))
    <2>4. c \in Nat
      BY <1>1, AddsFinite
    <2>5. k \in Nat /\ k <= c + add
      <3>1. CASE events'[d] = events[d]
        BY <3>1, <2>4
      <3>2. CASE events'[d] = Append(events[d], a)
        <4>1. events[d] \in Seq(Actions)
          BY <1>1
        <4>2. k = c + (IF a = "add" THEN 1 ELSE 0)
          BY <3>2, <4>1, AddsAppend
        <4> HIDE DEF k, c
        <4> QED
          BY <4>2, <2>4, <1>2
      <3> QED
        BY <3>1, <3>2, <1>4
    <2>6. /\ Unhandled(d) = ToScan(d) + c /\ Unhandled(d)' = ToScan(d) + k
          /\ ToScan(d) \in Nat
      BY <2>2 DEF Unhandled, ToScan
    <2> HIDE DEF k, c
    <2> QED
      BY <2>1, <2>3, <2>4, <2>5, <2>6
  <1> USE DEF tableVars
  <1>6. EnumeratorTypeOK'
    BY <1>1, <1>3, <1>4 DEF EnumeratorInv, EnumeratorTypeOK, Actions
  <1>7. ListedComplete'
    BY <1>1 DEF EnumeratorInv, ListedComplete, ListedObjects
  <1>8. DanglingOnlyByReplug'
    <2>1. \A n \in Nodes : plugs[n] > 1 => plugs'[n] > 1
      BY <1>3 DEF UdevDevices
    <2> QED
      BY <2>1, <1>1 DEF EnumeratorInv, DanglingOnlyByReplug
  <1>9. Untouched'
    <2>1. stage = "created" => events' = events
      BY <1>2 DEF Announce
    <2> QED
      BY <2>1, <1>1 DEF EnumeratorInv, Untouched
  <1>10. Announced'
    <2>1. \A n \in Nodes : SeenBefore(n)' <=> SeenBefore(n)
      BY <1>1 DEF SeenBefore
    <2>2. \A x \in present' : 1 <= plugs'[x]
      BY <1>1, <1>2, <1>3 DEF EnumeratorInv, Announced
    <2>3. \A x \in UdevDevices : Unhandled(x)' <= plugs'[x]
      BY <1>3, <1>5 DEF EnumeratorInv, Announced
    <2>4. /\ Media \subseteq UdevDevices /\ Nodes \subseteq UdevDevices
          /\ \A m \in Media : created[m] \in Nat /\ created' = created
      BY <1>1 DEF EnumeratorInv, EnumeratorTypeOK, UdevDevices
    <2>5. \A m \in Media : created'[m] + Unhandled(m)' <= plugs'[m]
      BY <1>3, <1>5, <2>4 DEF EnumeratorInv, Announced
    <2>6. \A n \in Nodes : SeenBefore(n)' => 1 + Unhandled(n)' <= plugs'[n]
      BY <1>3, <1>5, <2>1, <2>4 DEF EnumeratorInv, Announced
    <2> QED
      BY <2>2, <2>3, <2>5, <2>6 DEF Announced
  <1>11. TablesSound'
    BY <1>1 DEF EnumeratorInv, TablesSound
  <1> QED
    BY <1>6, <1>7, <1>8, <1>9, <1>10, <1>11 DEF EnumeratorInv

(* enumerate() lists what is there: each device was plugged in.            *)
LEMMA EnumerateStep ==
  ASSUME EnumeratorInv, Enumerate
  PROVE  EnumeratorInv'
  <1> USE DEF Enumerate, tableVars, worldVars
  <1>1. EnumeratorTypeOK'
    BY DEF EnumeratorInv, EnumeratorTypeOK
  <1>2. ListedComplete'
    BY DEF EnumeratorInv, ListedComplete, ListedObjects
  <1>3. DanglingOnlyByReplug'
    BY DEF EnumeratorInv, DanglingOnlyByReplug
  <1>4. Untouched'
    BY DEF Untouched
  <1>5. Announced'
    <2>1. /\ events = [x \in UdevDevices |-> <<>>] /\ events' = events
          /\ orphans' = {} /\ created = [m \in Media |-> 0] /\ created' = created
          /\ devMap' = [n \in Nodes |-> NoObject] /\ plugs' = plugs
          /\ present' = present /\ scan' = present
      BY DEF EnumeratorInv, Untouched
    <2>2. \A x \in UdevDevices : plugs[x] \in Nat
      BY DEF EnumeratorInv, EnumeratorTypeOK
    <2>3. Cardinality(AddsIn(<<>>)) = 0
      <3>1. AddsIn(<<>>) = {}
        BY DEF AddsIn
      <3> QED
        BY <3>1, FS_EmptySet
    <2>4. \A x \in UdevDevices : Unhandled(x)' = IF x \in present THEN 1 ELSE 0
      BY <2>1, <2>3 DEF Unhandled, ToScan
    <2>5. \A x \in UdevDevices : Unhandled(x)' <= plugs'[x]
      BY <2>1, <2>2, <2>4 DEF EnumeratorInv, Announced
    <2>6. \A n \in Nodes : ~SeenBefore(n)'
      BY <2>1 DEF SeenBefore
    <2>7. \A m \in Media : created'[m] + Unhandled(m)' <= plugs'[m]
      <3>1. \A m \in Media : m \in UdevDevices /\ created'[m] = 0 /\ Unhandled(m)' \in Nat
        BY <2>1, <2>4 DEF UdevDevices
      <3> QED
        BY <3>1, <2>5
    <2> QED
      BY <2>1, <2>5, <2>6, <2>7 DEF EnumeratorInv, Announced
  <1>6. TablesSound'
    BY DEF EnumeratorInv, TablesSound
  <1> QED
    BY <1>1, <1>2, <1>3, <1>4, <1>5, <1>6 DEF EnumeratorInv

(* A turn of the scan.                                                     *)
LEMMA ScanDeviceStep ==
  ASSUME EnumeratorInv, NEW d \in UdevDevices, ScanDevice(d)
  PROVE  EnumeratorInv'
  <1>1. /\ stage = "scan" /\ d \in scan /\ scan' = scan \ {d} /\ scan \subseteq UdevDevices
        /\ stage' \in {"scan", "failed"}
        /\ UNCHANGED <<present, plugs, events, missed>>
        /\ events \in [UdevDevices -> Seq(Actions)]
    BY DEF ScanDevice, worldVars, EnumeratorInv, EnumeratorTypeOK, Actions
  <1>2. ASSUME NEW x \in UdevDevices
        PROVE  /\ Unhandled(x)' \in Nat /\ Unhandled(x) \in Nat
               /\ x = d => 1 + Unhandled(x)' = Unhandled(x)
               /\ x # d => Unhandled(x)' = Unhandled(x)
    <2> DEFINE c == Cardinality(AddsIn(events[x]))
    <2>1. c \in Nat
      BY <1>1, AddsFinite
    <2>2. Unhandled(x) = ToScan(x) + c /\ Unhandled(x)' = ToScan(x)' + c
      BY <1>1 DEF Unhandled
    <2>3. /\ ToScan(x) \in Nat /\ ToScan(x)' \in Nat
          /\ x = d => ToScan(x) = 1 /\ ToScan(x)' = 0
          /\ x # d => ToScan(x)' = ToScan(x)
      BY <1>1 DEF ToScan
    <2> HIDE DEF c
    <2> QED
      BY <2>1, <2>2, <2>3
  <1>3. Handles(d)
    <2>1. \A x \in UdevDevices : /\ Unhandled(x)' \in Nat /\ Unhandled(x) \in Nat
                              /\ Unhandled(x)' <= Unhandled(x)
      BY <1>2
    <2>2. 1 + Unhandled(d)' <= Unhandled(d)
      BY <1>2
    <2> QED
      BY <1>1, <2>1, <2>2 DEF Handles, Receives
  <1>4. CASE AddUdevDevice(d)
    BY <1>3, <1>4, AddUdevDeviceStep
  <1>5. CASE UNCHANGED tableVars
    BY <1>3, <1>5, Ignored DEF Handles
  <1> QED
    BY <1>4, <1>5 DEF ScanDevice

(* An event of the monitor.                                                *)
LEMMA UdevNotifyStep ==
  ASSUME EnumeratorInv, NEW d \in UdevDevices, UdevNotify(d)
  PROVE  EnumeratorInv'
  <1> DEFINE s == events[d]
             t == Tail(events[d])
             one == IF Head(events[d]) = "add" THEN 1 ELSE 0
  <1>1. /\ stage = "monitor" /\ s # <<>> /\ stage' = stage /\ scan' = scan
        /\ scan \subseteq UdevDevices
        /\ events' = [events EXCEPT ![d] = t]
        /\ events \in [UdevDevices -> Seq(Actions)] /\ s \in Seq(Actions)
        /\ UNCHANGED <<present, plugs, missed>>
    BY DEF UdevNotify, EnumeratorInv, EnumeratorTypeOK, Actions
  <1>2. /\ t \in Seq(Actions)
        /\ Cardinality(AddsIn(s)) = Cardinality(AddsIn(t)) + one
    BY <1>1, AddsTail
  <1>3. Cardinality(AddsIn(t)) \in Nat /\ Cardinality(AddsIn(s)) \in Nat
    BY <1>1, <1>2, AddsFinite
  <1>4. one \in Nat /\ (Head(events[d]) = "add" => one = 1)
    OBVIOUS
  <1> HIDE DEF t, one
  <1>5. /\ events' \in [UdevDevices -> Seq(Actions)] /\ events'[d] = t
        /\ \A x \in UdevDevices : x # d => events'[x] = events[x]
    BY <1>1, <1>2
  <1>6. \A x \in UdevDevices : Unhandled(x) \in Nat
    BY UnhandledType DEF EnumeratorInv
  <1>7. \A x \in UdevDevices : x # d => Unhandled(x)' = Unhandled(x)
    BY <1>1, <1>5 DEF Unhandled, ToScan
  <1>8. Unhandled(d)' \in Nat /\ Unhandled(d)' + one = Unhandled(d)
    <2>1. /\ Unhandled(d) = ToScan(d) + Cardinality(AddsIn(s))
          /\ Unhandled(d)' = ToScan(d) + Cardinality(AddsIn(t))
          /\ ToScan(d) \in Nat
      BY <1>1, <1>5 DEF Unhandled, ToScan
    <2> HIDE DEF s
    <2> QED
      BY <2>1, <1>2, <1>3, <1>4
  <1>9. Receives
    <2>1. \A x \in UdevDevices : /\ Unhandled(x)' \in Nat /\ Unhandled(x) \in Nat
                              /\ Unhandled(x)' <= Unhandled(x)
      BY <1>4, <1>6, <1>7, <1>8
    <2> QED
      BY <1>1, <1>5, <2>1 DEF Receives
  <1>10. CASE Head(events[d]) = "add" /\ AddUdevDevice(d)
    <2>1. 1 + Unhandled(d)' <= Unhandled(d)
      BY <1>4, <1>6, <1>8, <1>10
    <2> QED
      BY <1>9, <1>10, <2>1, AddUdevDeviceStep DEF Handles
  <1>11. CASE UNCHANGED tableVars
    BY <1>9, <1>11, Ignored
  <1>12. CASE d \in Media /\ RemoveDevice(d)
    BY <1>9, <1>12, RemoveDeviceStep
  <1> QED
    BY <1>10, <1>11, <1>12 DEF UdevNotify, HandleRemove

(* The monitor starts.                                                     *)
LEMMA EnableReceivingStep ==
  ASSUME EnumeratorInv, EnableReceiving
  PROVE  EnumeratorInv'
  <1>1. /\ stage = "scan" /\ stage' = "monitor"
        /\ UNCHANGED <<scan, present, plugs, events, missed>> /\ UNCHANGED tableVars
    BY DEF EnableReceiving, worldVars
  <1>2. \A x \in UdevDevices : Unhandled(x) \in Nat /\ Unhandled(x)' = Unhandled(x)
    BY <1>1, UnhandledType DEF EnumeratorInv, Unhandled, ToScan
  <1>3. Receives
    BY <1>1, <1>2 DEF Receives, EnumeratorInv, EnumeratorTypeOK, Actions
  <1> QED
    BY <1>1, <1>3, Ignored

(* In the beginning nothing is there.                                      *)
LEMMA EnumeratorFirst ==
  ASSUME EnumeratorInit
  PROVE  EnumeratorInv
  <1> USE DEF EnumeratorInit
  <1>1. EnumeratorTypeOK
    <2>1. devices \in Seq(Objects) /\ events \in [UdevDevices -> Seq({"add", "remove"})]
      OBVIOUS
    <2>2. plugs \in [UdevDevices -> 0 .. MaxPlugs] /\ created \in [Media -> 0 .. MaxPlugs]
      BY EnumeratorAssumption
    <2> QED
      BY <2>1, <2>2 DEF EnumeratorTypeOK
  <1>2. ToSet(devices) = {} /\ IsInjective(devices)
    BY DEF ToSet, IsInjective
  <1>3. ListedComplete /\ DanglingOnlyByReplug /\ Untouched
    BY <1>2 DEF ListedComplete, ListedObjects, DanglingOnlyByReplug, Untouched
  <1>4. Announced
    <2>1. Cardinality(AddsIn(<<>>)) = 0
      <3>1. AddsIn(<<>>) = {}
        BY DEF AddsIn
      <3> QED
        BY <3>1, FS_EmptySet
    <2>2. \A d \in UdevDevices : Unhandled(d) = 0
      BY <2>1 DEF Unhandled, ToScan
    <2>3. \A n \in Nodes : ~SeenBefore(n)
      BY DEF SeenBefore
    <2> QED
      BY <2>2, <2>3 DEF Announced, UdevDevices
  <1>5. TablesSound
    BY <1>2 DEF TablesSound
  <1> QED
    BY <1>1, <1>3, <1>4, <1>5 DEF EnumeratorInv

(* Every step keeps the tables sound.                                      *)
LEMMA EnumeratorStep ==
  ASSUME EnumeratorInv, [EnumeratorNext]_enumeratorVars
  PROVE  EnumeratorInv'
  <1>1. CASE \E d \in UdevDevices : PlugDevice(d) \/ UnplugDevice(d)
    BY <1>1, WorldStep
  <1>2. CASE \E d \in UdevDevices : ScanDevice(d)
    BY <1>2, ScanDeviceStep
  <1>3. CASE \E d \in UdevDevices : UdevNotify(d)
    BY <1>3, UdevNotifyStep
  <1>4. CASE Enumerate
    BY <1>4, EnumerateStep
  <1>5. CASE EnableReceiving
    BY <1>5, EnableReceivingStep
  <1>6. CASE UNCHANGED enumeratorVars
    <2>1. UNCHANGED <<stage, scan>> /\ UNCHANGED worldVars /\ UNCHANGED tableVars
      BY <1>6 DEF enumeratorVars
    <2> USE <2>1 DEF worldVars, tableVars
    <2>2. EnumeratorTypeOK' /\ ListedComplete' /\ DanglingOnlyByReplug' /\ Untouched'
      BY DEF EnumeratorInv, EnumeratorTypeOK, ListedComplete, ListedObjects,
             DanglingOnlyByReplug, Untouched
    <2>3. Announced'
      BY DEF EnumeratorInv, Announced, Unhandled, ToScan, SeenBefore
    <2>4. TablesSound'
      BY DEF EnumeratorInv, TablesSound
    <2> QED
      BY <2>2, <2>3, <2>4 DEF EnumeratorInv
  <1> QED
    BY <1>1, <1>2, <1>3, <1>4, <1>5, <1>6 DEF EnumeratorNext

(* Whatever the order in which the scan and the monitor announce devices,  *)
(* however often they come and go: a device is listed once, and only when  *)
(* the enumerator knows all of its nodes; addV4L2Device() uses a deleted   *)
(* entry of pending_ only if a node was plugged in twice.                  *)
THEOREM EnumerationSound == EnumeratorSpec => []EnumeratorSound
  <1>1. EnumeratorInv => EnumeratorSound
    BY DEF EnumeratorInv, EnumeratorSound
  <1> QED
    BY <1>1, EnumeratorFirst, EnumeratorStep, PTL DEF EnumeratorSpec

(* V4L2Devices has the enumerator as one of its aspects.                   *)
THEOREM EnumeratorIsAnAspect == V4L2DeviceSpec => EnumeratorSpec
  <1>1. V4L2DeviceInit => EnumeratorInit
    BY DEF V4L2DeviceInit
  <1>2. [V4L2DeviceNext]_v4l2DeviceVars => [EnumeratorNext]_enumeratorVars
    BY DEF V4L2DeviceNext, v4l2DeviceVars, WithBuffers, WithControls,
           WithExposure, WithLocks, WithEnumerator
  <1> QED
    BY <1>1, <1>2, PTL DEF V4L2DeviceSpec, EnumeratorSpec
=============================================================================
