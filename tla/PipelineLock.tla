---------------------------- MODULE PipelineLock ----------------------------
(***************************************************************************)
(* Exclusive use of the cameras of one pipeline handler by several         *)
(* instances of libcamera (processes): Camera::acquire() and release()     *)
(* (camera.cpp), PipelineHandler::lock() and unlock()                      *)
(* (pipeline_handler.cpp), MediaDevice::lock() and unlock()                *)
(* (media_device.cpp) and the lockf() locks of the kernel (external),      *)
(* which a process owns as a whole and loses when it dies.                 *)
(*                                                                         *)
(* Each thread drives one Camera object, each Camera object lives in one   *)
(* instance, which may have several of them: the IPU3 and RkISP1 pipeline  *)
(* handlers do.  The pipeline handler of every instance uses the same media*)
(* devices 1 .. NumDevices, always in this order.  One step handles one    *)
(* media device, or half of it: MediaDevice::lock() tests lockOwner_       *)
(* before it calls lockf().                                                *)
(***************************************************************************)
EXTENDS Naturals

CONSTANTS
    Threads,
    Cameras,
    Instances,
    CameraOf,       \* the Camera object each thread drives
    InstanceOf,     \* the instance each Camera object belongs to
    NumDevices,
    NoInstance

ASSUME TopologyAssumption ==
    /\ CameraOf \in [Threads -> Cameras]
    /\ InstanceOf \in [Cameras -> Instances]
    /\ NoInstance \notin Instances

ASSUME DevicesAssumption == NumDevices \in Nat \ {0}

Devices == 1 .. NumDevices

(* The instance a thread runs in.                                          *)
Home(t) == InstanceOf[CameraOf[t]]

VARIABLES
    state,        \* Camera::Private::state_, Configured folded in Acquired
    lockOwner,    \* devices whose lockOwner_ is set, in each instance
    kernelLock,   \* the instance that holds the lockf() lock of a device
    pc,           \* where each thread is
    dev           \* media device the thread's loop has come to

lockVars == <<state, lockOwner, kernelLock, pc, dev>>

LockTypeOK ==
    /\ state \in [Cameras -> {"Available", "Acquired", "Running"}]
    /\ lockOwner \in [Instances -> SUBSET Devices]
    /\ kernelLock \in [Devices -> Instances \cup {NoInstance}]
    /\ pc \in [Threads -> {"idle", "lock", "lockf", "undo", "release"}]
    /\ dev \in [Threads -> 1 .. NumDevices + 1]

LockInit ==
    /\ state = [c \in Cameras |-> "Available"]
    /\ lockOwner = [i \in Instances |-> {}]
    /\ kernelLock = [d \in Devices |-> NoInstance]
    /\ pc = [t \in Threads |-> "idle"]
    /\ dev = [t \in Threads |-> 1]

(* Move thread t to `where`, at device d of the loop it is in.             *)
Goto(t, where, d) ==
    /\ pc' = [pc EXCEPT ![t] = where]
    /\ dev' = [dev EXCEPT ![t] = d]

-----------------------------------------------------------------------------
(* Camera::acquire(): the state check.                                     *)
Acquire(t) ==
    /\ pc[t] = "idle"
    /\ state[CameraOf[t]] = "Available"
    /\ Goto(t, "lock", 1)
    /\ UNCHANGED <<state, lockOwner, kernelLock>>

(* MediaDevice::lock() refuses nested locking; PipelineHandler::lock()     *)
(* then unlocks every device, whoever locked it.                           *)
LockCheck(t) ==
    /\ pc[t] = "lock" /\ dev[t] <= NumDevices
    /\ IF dev[t] \in lockOwner[Home(t)]
         THEN Goto(t, "undo", 1)
         ELSE Goto(t, "lockf", dev[t])
    /\ UNCHANGED <<state, lockOwner, kernelLock>>

(* lockf(F_TLOCK) fails when another process holds the lock.               *)
TryLockGrants(i, d) == kernelLock[d] \in {NoInstance, i}

(* Mistake: a failed lock() returns at once.                               *)
ReturnAfterFailedLock == "idle"

(* What a failed lock() does with the devices it already locked.           *)
AfterFailedLock == "undo"

(* Mistake: the result of lockf() is ignored.                              *)
LockFUnchecked(t) ==
    /\ pc[t] = "lockf"
    /\ kernelLock' = IF TryLockGrants(Home(t), dev[t])
                       THEN [kernelLock EXCEPT ![dev[t]] = Home(t)]
                       ELSE kernelLock
    /\ lockOwner' = [lockOwner EXCEPT ![Home(t)] = @ \cup {dev[t]}]
    /\ Goto(t, "lock", dev[t] + 1)
    /\ UNCHANGED state

(* The rest of MediaDevice::lock().                                        *)
LockF(t) ==
    /\ pc[t] = "lockf"
    /\ IF TryLockGrants(Home(t), dev[t])
         THEN /\ kernelLock' = [kernelLock EXCEPT ![dev[t]] = Home(t)]
              /\ lockOwner' = [lockOwner EXCEPT ![Home(t)] = @ \cup {dev[t]}]
              /\ Goto(t, "lock", dev[t] + 1)
         ELSE /\ Goto(t, AfterFailedLock, 1)
              /\ UNCHANGED <<lockOwner, kernelLock>>
    /\ UNCHANGED state

(* Every device is locked: acquire() sets the state.                       *)
Acquired(t) ==
    /\ pc[t] = "lock" /\ dev[t] > NumDevices
    /\ state' = [state EXCEPT ![CameraOf[t]] = "Acquired"]
    /\ Goto(t, "idle", 1)
    /\ UNCHANGED <<lockOwner, kernelLock>>

(* Camera::release() is allowed in the Available state too.                *)
Release(t) ==
    /\ pc[t] = "idle"
    /\ state[CameraOf[t]] \in {"Available", "Acquired"}
    /\ Goto(t, "release", 1)
    /\ UNCHANGED <<state, lockOwner, kernelLock>>

(* One iteration of PipelineHandler::unlock(), for release() and for the   *)
(* error path of lock(): MediaDevice::unlock() does nothing unless this    *)
(* instance owns the lock.                                                 *)
Unlock(t) ==
    /\ pc[t] \in {"undo", "release"} /\ dev[t] <= NumDevices
    /\ IF dev[t] \in lockOwner[Home(t)]
         THEN /\ lockOwner' = [lockOwner EXCEPT ![Home(t)] = @ \ {dev[t]}]
              /\ kernelLock' = [kernelLock EXCEPT ![dev[t]] = NoInstance]
         ELSE UNCHANGED <<lockOwner, kernelLock>>
    /\ Goto(t, pc[t], dev[t] + 1)
    /\ UNCHANGED state

Unlocked(t) ==
    /\ pc[t] \in {"undo", "release"} /\ dev[t] > NumDevices
    /\ state' = IF pc[t] = "release"
                  THEN [state EXCEPT ![CameraOf[t]] = "Available"]
                  ELSE state
    /\ Goto(t, "idle", 1)
    /\ UNCHANGED <<lockOwner, kernelLock>>

(* start() and stop(): a running camera is not released.                   *)
StartStop(t) ==
    /\ pc[t] = "idle"
    /\ \/ /\ state[CameraOf[t]] = "Acquired"
          /\ state' = [state EXCEPT ![CameraOf[t]] = "Running"]
       \/ /\ state[CameraOf[t]] = "Running"
          /\ state' = [state EXCEPT ![CameraOf[t]] = "Acquired"]
    /\ UNCHANGED <<lockOwner, kernelLock, pc, dev>>

(* The process of instance i dies and is started again: the kernel drops   *)
(* its locks.                                                              *)
Crash(i) ==
    /\ state' = [c \in Cameras |->
                    IF InstanceOf[c] = i THEN "Available" ELSE state[c]]
    /\ lockOwner' = [lockOwner EXCEPT ![i] = {}]
    /\ kernelLock' = [d \in Devices |->
                    IF kernelLock[d] = i THEN NoInstance ELSE kernelLock[d]]
    /\ pc' = [t \in Threads |-> IF Home(t) = i THEN "idle" ELSE pc[t]]
    /\ dev' = [t \in Threads |-> IF Home(t) = i THEN 1 ELSE dev[t]]

Step(t) ==
    \/ Acquire(t) \/ LockCheck(t) \/ LockF(t) \/ Acquired(t)
    \/ Release(t) \/ Unlock(t) \/ Unlocked(t)
    \/ StartStop(t)

LockNext ==
    \/ \E t \in Threads : Step(t)
    \/ \E i \in Instances : Crash(i)

LockSpec == LockInit /\ [][LockNext]_lockVars

-----------------------------------------------------------------------------
(***************************************************************************)
(* Properties.                                                             *)
(***************************************************************************)

(* A Camera object gives exclusive access from the return of acquire() to  *)
(* the call of release().                                                  *)
Held(c) ==
    /\ state[c] # "Available"
    /\ \A t \in Threads : CameraOf[t] = c => pc[t] # "release"

InUse(i) == \E c \in Cameras : InstanceOf[c] = i /\ Held(c)

(* "Acquiring a camera will limit usage of any other camera(s) provided by *)
(* the same pipeline handler to the same instance of libcamera ... Other   *)
(* instances of libcamera ... will fail if they attempt to acquire() any   *)
(* of them" (Camera::acquire).                                             *)
InstanceExclusion ==
    \A i, j \in Instances : InUse(i) /\ InUse(j) => i = j

(* A failed acquire() or a completed release() leaves nothing locked: an   *)
(* instance that uses no camera and is in no call holds no device, so that *)
(* others can have them.                                                   *)
NoLeakedLocks ==
    \A i \in Instances :
        (~InUse(i) /\ \A t \in Threads : Home(t) = i => pc[t] = "idle")
            => \A d \in Devices : kernelLock[d] # i

(* The inductive invariant behind the properties above, for instances with *)
(* one Camera object and one thread each: the kernel agrees with           *)
(* lockOwner_, the loops of lock() and unlock() have handled the devices   *)
(* before dev[t] and not the others, and a camera in use owns them all.    *)
OwnersAgree ==
    \A i \in Instances, d \in Devices :
        d \in lockOwner[i] <=> kernelLock[d] = i

LoopAt(t) ==
    /\ pc[t] = "lockf" => dev[t] <= NumDevices
    /\ pc[t] \in {"lock", "lockf"} =>
          \A d \in Devices : d \in lockOwner[Home(t)] <=> d < dev[t]
    /\ pc[t] \in {"undo", "release"} =>
          \A d \in Devices : d < dev[t] => d \notin lockOwner[Home(t)]

StateAt(t) ==
    /\ pc[t] \in {"lock", "lockf", "undo"} => state[CameraOf[t]] = "Available"
    /\ pc[t] = "release" => state[CameraOf[t]] # "Running"
    /\ pc[t] = "idle" =>
          \A d \in Devices :
             d \in lockOwner[Home(t)] <=> state[CameraOf[t]] # "Available"

NobodyElse ==
    /\ \A c \in Cameras :
         (\A t \in Threads : CameraOf[t] # c) => state[c] = "Available"
    /\ \A i \in Instances :
         (\A t \in Threads : Home(t) # i) => lockOwner[i] = {}

LockInv ==
    /\ LockTypeOK
    /\ OwnersAgree
    /\ \A t \in Threads : LoopAt(t) /\ StateAt(t)
    /\ NobodyElse
=============================================================================
