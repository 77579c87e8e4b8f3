-------------------------- MODULE V4L2VideoDevice --------------------------
(***************************************************************************)
(* A V4L2 capture device as the pipeline handlers see it: the file         *)
(* descriptor, the cache that maps dmabufs to V4L2 buffer indexes ("slots" *)
(* below), the map of queued buffers and the event notifier armed while    *)
(* that map is not empty (v4l2_videodevice.cpp).  Every operation runs in  *)
(* the pipeline handler's thread, so an operation is one step.             *)
(*                                                                         *)
(* The kernel side (videobuf2 and the driver) is external and modelled by  *)
(* what the ioctls return: REQBUFS, QBUF and STREAMON may fail (if         *)
(* DriverErrors says so), STREAMOFF and DQBUF of a filled buffer fail only *)
(* once the device is unplugged.                                           *)
(*                                                                         *)
(* A FrameBuffer stands for its planes (dmabuf descriptors and lengths):   *)
(* two buffers are equal when V4L2BufferCache::Entry::operator== says so.  *)
(***************************************************************************)
EXTENDS Integers

CONSTANTS
    Imported,     \* buffers the application allocated elsewhere (DMABUF)
    NumSlots,     \* bufferCount of the stream configuration
    DriverErrors, \* REQBUFS, QBUF and STREAMON may fail on a working device
    NoBuffer

ASSUME NumSlotsAssumption == NumSlots \in Nat \ {0}

ASSUME DriverErrorsAssumption == DriverErrors \in BOOLEAN

Slots == 0 .. NumSlots - 1

(* The buffer exportBuffers() creates around the memory of slot s.         *)
Exported(s) == <<"exported", s>>

FrameBuffers == Imported \cup {Exported(s) : s \in Slots}

ASSUME BufferAssumption ==
    /\ NoBuffer \notin FrameBuffers
    /\ \A s \in Slots : Exported(s) \notin Imported

VARIABLES
    opened,         \* isOpen()
    memoryType,     \* memoryType_: "MMAP" or "DMABUF"
    hasCache,       \* cache_ != nullptr
    free,           \* slots whose cache entry is marked free
    planes,         \* the dmabufs recorded by each cache entry
    queuedBuffers,  \* queuedBuffers_, NoBuffer where the map has no entry
    fdEnabled,      \* fdEvent_->enabled()
    kernel,         \* state of each slot in the driver
    streaming,      \* the driver is streaming
    unplugged       \* the hardware is gone, every ioctl fails

deviceVars == <<opened, memoryType, hasCache, free, planes, queuedBuffers,
                fdEnabled, kernel, streaming, unplugged>>

KernelStates == {"absent", "dequeued", "queued", "done"}

KernelOwned(s) == kernel[s] \in {"queued", "done"}

(* Slots with an entry in queuedBuffers_, and the buffers they hold.       *)
InQueue == {s \in Slots : queuedBuffers[s] # NoBuffer}

Queued == {queuedBuffers[s] : s \in InQueue}

EmptyQueue == [s \in Slots |-> NoBuffer]

TypeOK ==
    /\ opened \in BOOLEAN
    /\ memoryType \in {"MMAP", "DMABUF"}
    /\ hasCache \in BOOLEAN
    /\ free \in SUBSET Slots
    /\ planes \in [Slots -> FrameBuffers \cup {NoBuffer}]
    /\ queuedBuffers \in [Slots -> FrameBuffers \cup {NoBuffer}]
    /\ fdEnabled \in BOOLEAN
    /\ kernel \in [Slots -> KernelStates]
    /\ streaming \in BOOLEAN
    /\ unplugged \in BOOLEAN

Init ==
    /\ opened = FALSE
    /\ memoryType = "MMAP"
    /\ hasCache = FALSE
    /\ free = {}
    /\ planes = EmptyQueue
    /\ queuedBuffers = EmptyQueue
    /\ fdEnabled = FALSE
    /\ kernel = [s \in Slots |-> "absent"]
    /\ streaming = FALSE
    /\ unplugged = FALSE

-----------------------------------------------------------------------------
(***************************************************************************)
(* The kernel (external).                                                  *)
(***************************************************************************)

(* VIDIOC_REQBUFS with a non-zero count.  It is refused while streaming;   *)
(* when too few buffers can be allocated requestBuffers() frees them.      *)
KernelRequest(ok) ==
    IF ok
      THEN /\ ~streaming /\ ~unplugged
           /\ kernel' = [s \in Slots |-> "dequeued"]
      ELSE \/ /\ streaming \/ unplugged
              /\ UNCHANGED kernel
           \/ /\ ~streaming /\ ~unplugged /\ DriverErrors
              /\ kernel' = [s \in Slots |-> "absent"]

(* VIDIOC_REQBUFS with count 0 drops every buffer the driver holds.        *)
KernelFree ==
    kernel' = IF streaming \/ unplugged
                THEN kernel
                ELSE [s \in Slots |-> "absent"]

(* The driver fills a queued buffer.                                       *)
Fill(s) ==
    /\ streaming /\ ~unplugged
    /\ kernel[s] = "queued"
    /\ kernel' = [kernel EXCEPT ![s] = "done"]
    /\ UNCHANGED <<opened, memoryType, hasCache, free, planes, queuedBuffers,
                   fdEnabled, streaming, unplugged>>

(* The hardware is removed.                                                *)
Unplug ==
    /\ ~unplugged
    /\ unplugged' = TRUE
    /\ UNCHANGED <<opened, memoryType, hasCache, free, planes, queuedBuffers,
                   fdEnabled, kernel, streaming>>

-----------------------------------------------------------------------------
(***************************************************************************)
(* The buffer cache.                                                       *)
(***************************************************************************)

(* V4L2BufferCache::get() picks slot s for buffer b: the first free entry  *)
(* recorded with the same planes, else the first free entry.  It returns   *)
(* -ENOENT when no entry is free.                                          *)
CacheGet(b, s) ==
    /\ s \in free
    /\ \/ /\ planes[s] = b
          /\ \A t \in free : planes[t] = b => s <= t
       \/ \A t \in free : planes[t] # b /\ s <= t

CacheFull == free = {}

(* Mistake: the entry is not marked as used.                               *)
CacheTakeKeepsFree(b, s) ==
    /\ free' = free
    /\ planes' = [planes EXCEPT ![s] = b]

CacheTake(b, s) ==
    /\ free' = free \ {s}
    /\ planes' = [planes EXCEPT ![s] = b]

(* V4L2BufferCache::put()                                                  *)
CachePut(s) == free' = free \cup {s}

-----------------------------------------------------------------------------
(***************************************************************************)
(* The operations of V4L2VideoDevice.                                      *)
(***************************************************************************)

(* open(): the notifier is created disabled.  The queue is not reset.      *)
Open ==
    /\ ~opened
    /\ ~unplugged
    /\ opened' = TRUE
    /\ fdEnabled' = FALSE
    /\ UNCHANGED <<memoryType, hasCache, free, planes, queuedBuffers, kernel,
                   streaming, unplugged>>

DeleteCache ==
    /\ hasCache' = FALSE
    /\ free' = {}
    /\ planes' = EmptyQueue

(* releaseBuffers(): the cache goes away whatever REQBUFS(0) returns.      *)
ReleaseBuffers ==
    /\ DeleteCache
    /\ KernelFree
    /\ UNCHANGED <<opened, memoryType, queuedBuffers, fdEnabled, streaming,
                   unplugged>>

(* close() releases the buffers and deletes the notifier; the kernel frees *)
(* everything that is left when the descriptor is closed.                  *)
Close ==
    /\ opened
    /\ opened' = FALSE
    /\ DeleteCache
    /\ fdEnabled' = FALSE
    /\ kernel' = [s \in Slots |-> "absent"]
    /\ streaming' = FALSE
    /\ UNCHANGED <<memoryType, queuedBuffers, unplugged>>

(* exportBuffers() (memory "MMAP") pre-populates the cache with the        *)
(* buffers it creates; importBuffers() ("DMABUF") creates empty entries.   *)
(* memoryType_ is assigned before REQBUFS can fail.                        *)
SetupBuffers(type, ok) ==
    /\ ~hasCache
    /\ memoryType' = type
    /\ KernelRequest(ok)
    /\ hasCache' = ok
    /\ IF ok
         THEN /\ free' = Slots
              /\ planes' = IF type = "MMAP"
                             THEN [s \in Slots |-> Exported(s)]
                             ELSE EmptyQueue
         ELSE UNCHANGED <<free, planes>>
    /\ UNCHANGED <<opened, queuedBuffers, fdEnabled, streaming, unplugged>>

ExportBuffers(ok) == SetupBuffers("MMAP", ok)

ImportBuffers(ok) == SetupBuffers("DMABUF", ok)

(* queueBuffer(): the slot is taken before VIDIOC_QBUF is tried, and stays *)
(* taken when the ioctl fails.  The notifier is armed by the first buffer. *)
ArmOnQueue == fdEnabled' = (fdEnabled \/ InQueue = {})

QueueBuffer(b, ok) ==
    /\ hasCache
    /\ \E s \in Slots :
         /\ CacheGet(b, s)
         /\ CacheTake(b, s)
         /\ IF ok
              THEN /\ ~unplugged
                   /\ kernel[s] = "dequeued"
                   /\ kernel' = [kernel EXCEPT ![s] = "queued"]
                   /\ ArmOnQueue
                   /\ queuedBuffers' = [queuedBuffers EXCEPT ![s] = b]
              ELSE /\ unplugged \/ DriverErrors \/ kernel[s] # "dequeued"
                   /\ UNCHANGED <<kernel, fdEnabled, queuedBuffers>>
    /\ UNCHANGED <<opened, memoryType, hasCache, streaming, unplugged>>

(* The slot is not found: queueBuffer() returns -ENOENT and changes        *)
(* nothing but the miss counter, which is not modelled.                    *)
QueueBufferFull == hasCache /\ CacheFull /\ UNCHANGED deviceVars

(* Mistake: the notifier is disabled by every dequeued buffer.             *)
DisarmAlways(s) == fdEnabled' = FALSE

(* bufferAvailable(), the slot of the notifier: dequeueBuffer() and the    *)
(* emission of bufferReady(b) to the pipeline handler.                     *)
DisarmOnDequeue(s) == fdEnabled' = (fdEnabled /\ InQueue # {s})

BufferAvailable(b) ==
    /\ opened /\ fdEnabled /\ ~unplugged
    /\ \E s \in Slots :
         /\ kernel[s] = "done"
         /\ queuedBuffers[s] = b
         /\ kernel' = [kernel EXCEPT ![s] = "dequeued"]
         /\ CachePut(s)
         /\ queuedBuffers' = [queuedBuffers EXCEPT ![s] = NoBuffer]
         /\ DisarmOnDequeue(s)
    /\ UNCHANGED <<opened, memoryType, hasCache, planes, streaming, unplugged>>

(* streamOn(): the driver refuses to stream without buffers.               *)
StreamOn(ok) ==
    /\ IF ok THEN ~unplugged /\ \A s \in Slots : kernel[s] # "absent"
             ELSE unplugged \/ DriverErrors \/ kernel[0] = "absent"
    /\ streaming' = (streaming \/ ok)
    /\ UNCHANGED <<opened, memoryType, hasCache, free, planes, queuedBuffers,
                   fdEnabled, kernel, unplugged>>

(* streamOff() emits bufferReady with FrameCancelled for every buffer in   *)
(* `cancelled`, then clears the queue.  The cache entries are left as they *)
(* are.  When STREAMOFF fails nothing is returned.                         *)
FreeAfterStreamOff == free

StreamOff(cancelled) ==
    IF unplugged
      THEN cancelled = {} /\ UNCHANGED deviceVars
      ELSE /\ cancelled = Queued
           /\ streaming' = FALSE
           /\ kernel' = [s \in Slots |-> IF KernelOwned(s) THEN "dequeued"
                                                           ELSE kernel[s]]
           /\ queuedBuffers' = EmptyQueue
           /\ fdEnabled' = FALSE
           /\ free' = FreeAfterStreamOff
           /\ UNCHANGED <<opened, memoryType, hasCache, planes, unplugged>>

-----------------------------------------------------------------------------
(***************************************************************************)
(* The component with a well-behaved client: it queues a buffer only after *)
(* the device gave it back, uses the exported buffers after exportBuffers  *)
(* and its own after importBuffers, and releases the buffers or closes the *)
(* device only once streamOff() has emptied the queue.                     *)
(***************************************************************************)

ClientBuffers ==
    (IF memoryType = "MMAP" THEN {Exported(s) : s \in Slots} ELSE Imported)
        \ Queued

Idle == ~streaming /\ InQueue = {}

Next ==
    \/ Open
    \/ Idle /\ Close
    \/ opened /\ \E ok \in BOOLEAN : ExportBuffers(ok)
    \/ opened /\ \E ok \in BOOLEAN : ImportBuffers(ok)
    \/ opened /\ Idle /\ ReleaseBuffers
    \/ opened /\ \E b \in ClientBuffers, ok \in BOOLEAN : QueueBuffer(b, ok)
    \/ opened /\ QueueBufferFull
    \/ \E b \in FrameBuffers : BufferAvailable(b)
    \/ opened /\ \E ok \in BOOLEAN : StreamOn(ok)
    \/ opened /\ StreamOff(IF unplugged THEN {} ELSE Queued)
    \/ \E s \in Slots : Fill(s)
    \/ Unplug

Spec == Init /\ [][Next]_deviceVars

-----------------------------------------------------------------------------
(***************************************************************************)
(* Properties.                                                             *)
(***************************************************************************)

(* dequeueBuffer() dereferences the cache and the iterator it finds        *)
(* unconditionally: every slot the driver can hand back has an entry in    *)
(* queuedBuffers_, the cache exists, and the notifier that leads to the    *)
(* dequeue is armed.                                                       *)
KernelBuffersTracked ==
    \A s \in Slots : KernelOwned(s) =>
        /\ queuedBuffers[s] # NoBuffer
        /\ hasCache
        /\ fdEnabled

(* A slot the cache would offer to queueBuffer() is never one the driver   *)
(* still owns: QBUF is not refused for an index that is in use.            *)
FreeSlotsIdle ==
    hasCache => \A s \in free : kernel[s] = "dequeued"

(* Every buffer queued to a streaming device comes back to the pipeline    *)
(* handler, filled or cancelled, unless the hardware disappears.           *)
BuffersReturn ==
    \A b \in FrameBuffers :
        (b \in Queued /\ streaming) ~> (b \notin Queued \/ unplugged)
=============================================================================
