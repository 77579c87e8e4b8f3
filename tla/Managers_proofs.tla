-------------------------- MODULE Managers_proofs --------------------------
(***************************************************************************)
(* The safety of the two managers.  Of CameraManager: its camera list can  *)
(* be trusted, for any media devices, pipeline handlers and faults, and    *)
(* however often the manager is started and stopped.  Of IPAManager: what  *)
(* it creates, for any pipeline handlers, other processes, module          *)
(* directories, control info maps and sizes of queue and pipe, that is the *)
(* list of running processes (Process), the messages of a proxy            *)
(* (IPCUnixSocket) and the control lists of a wrapper (IPAContext).        *)
(***************************************************************************)
EXTENDS CameraThread, IPAManager, ListFacts, FiniteSetTheorems

-----------------------------------------------------------------------------
(***************************************************************************)
(* CameraManager.                                                          *)
(***************************************************************************)

USE ManagerAssumption

Empty ==
    /\ cameras = {} /\ pipes = {} /\ acquired = {}
    /\ registered = {} /\ hotplug = {}

(* start() and stop() frame the thread: only an application that was told  *)
(* that the manager runs has cameras, exit() is not called before it is    *)
(* done with them, and the thread leaves exec() for exit() only.           *)
CallsFrame ==
    /\ app # "started" => held = {}
    /\ exit => app \in {"failing", "joining", "stopped"}
    /\ manager \in {"cleanup", "clear", "reset"} => exit

(* What the thread has created or destroyed at each of its steps.          *)
Lifetimes ==
    /\ manager \in {"off", "enumerate"} => Empty
    /\ manager = "publish" /\ result = -1 => Empty /\ devices = <<>>
    /\ manager = "match" => result = 0
    /\ manager \in {"clear", "reset"} => pipes = {}
    /\ manager = "reset" => Empty
    /\ manager = "enumerate" => held = {}
    /\ acquired \subseteq pipes \cup cameras \cup held

(* What a camera in the list rests on.                                     *)
Served(d) ==
    /\ d \in pipes \cap acquired \cap registered /\ d \notin disconnected
    /\ Removable(d) => d \in hotplug /\ d \in ToSet(devices)

CamerasServed ==
    /\ manager \in {"match", "publish", "exec"} => \A d \in cameras : Served(d)
    /\ manager = "removing" => \A d \in cameras \ {leaving} : Served(d)

(* A device has its camera, or one before it failed.                       *)
Handled(i) ==
    \/ devices[i] \in cameras
    \/ \E j \in 1 .. i : /\ devices[j] \in Faulty \ cameras
                         /\ FactoryOf[devices[j]] = FactoryOf[devices[i]]

(* init() has handled the devices of the factories that it has left.       *)
FactoriesDone ==
    /\ manager \in {"match", "publish"} => pipes \cup held \subseteq cameras
    /\ manager = "match" =>
           \A i \in DOMAIN devices, k \in 1 .. factory - 1 :
               FactoryOf[devices[i]] = Factories[k] => Handled(i)
    /\ manager = "publish" => \A i \in DOMAIN devices : Handled(i)

(* The inductive invariant.  CamerasSound alone is not: that nothing is    *)
(* left at the end rests on the references that keep each pipeline handler *)
(* alive and on the application having returned its own, and a removal     *)
(* finds the camera because its pipeline handler still listens.            *)
ManagerInv ==
    ManagerTypeOK /\ CallsFrame /\ Lifetimes /\ CamerasServed /\ FactoriesDone

-----------------------------------------------------------------------------
FreeFor(f, j) == devices[j] \notin acquired /\ FactoryOf[devices[j]] = f

(* Search(f) is the first device that is free and of the pipeline handler. *)
LEMMA SearchFinds ==
  ASSUME ManagerTypeOK, NEW f
  PROVE  /\ Search(f) = 0 \/ /\ Search(f) \in DOMAIN devices
                             /\ FreeFor(f, Search(f))
         /\ Search(f) = 0 => \A j \in DOMAIN devices : ~FreeFor(f, j)
         /\ Search(f) > 0 => \A j \in 1 .. Search(f) - 1 : ~FreeFor(f, j)
  <1> DEFINE I == {j \in 1 .. Len(devices) : FreeFor(f, j)}
             i == Search(f)
  <1>1. i = IF I # {} THEN Min(I) ELSE 0
    BY DEF Search, SelectInSeq, FreeFor
  <1>2. Len(devices) \in Nat /\ DOMAIN devices = 1 .. Len(devices)
    BY DEF ManagerTypeOK
  <1> HIDE DEF i
  <1>3. CASE I = {}
    <2>1. i = 0
      BY <1>1, <1>3
    <2>2. \A j \in DOMAIN devices : ~FreeFor(f, j)
      BY <1>2, <1>3
    <2> QED
      BY <2>1, <2>2 DEF i
  <1>4. CASE I # {}
    <2>1. I \subseteq Nat
      BY <1>2
    <2>2. i \in I /\ \A j \in I : i <= j
      BY <1>1, <1>4, <2>1, LeastElement
    <2>3. ASSUME NEW j \in 1 .. i - 1 PROVE ~FreeFor(f, j)
      <3>1. j \in 1 .. Len(devices) /\ ~(i <= j)
        BY <1>2, <2>2
      <3> QED
        BY <2>2, <3>1
    <2> QED
      BY <1>2, <2>2, <2>3 DEF i
  <1> QED
    BY <1>3, <1>4

(* The calls of the application preserve the invariant.                    *)
LEMMA ApplicationStep ==
  ASSUME ManagerInv,
         \/ Start \/ StartNext \/ StopManager
         \/ \E d \in Devices : Get(d) \/ Put(d)
  PROVE  ManagerInv'
  <1>1. CASE Start
    <2>1. starts' \in 0 .. MaxStarts
      BY <1>1 DEF Start, ManagerInv, ManagerTypeOK
    <2> QED
      BY <1>1, <2>1 DEF Start, ManagerInv, ManagerTypeOK, CallsFrame, Lifetimes, Empty,
                     CamerasServed, Served, Removable, FactoriesDone, Handled, appVars,
                     initVars, ownerVars
  <1>2. CASE StartWait
    BY <1>2 DEF StartWait, ManagerInv, ManagerTypeOK, CallsFrame, Lifetimes, Empty,
                 CamerasServed, Served, Removable, FactoriesDone, Handled, appVars,
                 initVars, ownerVars
  <1>3. CASE StartStatus
    BY <1>3 DEF StartStatus, ManagerInv, ManagerTypeOK, CallsFrame, Lifetimes,
                 Empty, CamerasServed, Served, Removable, FactoriesDone, Handled,
                 appVars, initVars, ownerVars
  <1>4. CASE StopManager
    BY <1>4 DEF StopManager, ExitSet, ManagerInv, ManagerTypeOK, CallsFrame, Lifetimes,
                 Empty, CamerasServed, Served, Removable, FactoriesDone, Handled,
                 appVars, initVars, ownerVars
  <1>5. CASE Joined
    BY <1>5 DEF Joined, ManagerInv, ManagerTypeOK, CallsFrame, Lifetimes, Empty,
                 CamerasServed, Served, Removable, FactoriesDone, Handled, appVars,
                 initVars, ownerVars
  <1>6. ASSUME NEW d \in Devices, Get(d) PROVE ManagerInv'
    BY <1>6 DEF Get, ManagerInv, ManagerTypeOK, CallsFrame, Lifetimes, Empty,
                 CamerasServed, Served, Removable, FactoriesDone, Handled, appVars,
                 initVars, ownerVars
  <1>7. ASSUME NEW d \in Devices, Put(d) PROVE ManagerInv'
    BY <1>7 DEF Put, Referenced, ManagerInv, ManagerTypeOK, CallsFrame, Lifetimes,
                 Empty, CamerasServed, Served, Removable, FactoriesDone, Handled,
                 appVars, initVars, ownerVars
  <1> QED
    BY <1>1, <1>2, <1>3, <1>4, <1>5, <1>6, <1>7 DEF StartNext

(* The steps of run() and init() preserve the invariant.                   *)
LEMMA InitStep ==
  ASSUME ManagerInv,
         Enumerate \/ EnumerateFails \/ Match \/ MatchFails \/ Publish
  PROVE  ManagerInv'
  <1>1. CASE Enumerate
    <2>1. devices' \in Seq(Devices)
      <3>1. IsFiniteSet(plugged)
        BY FS_Subset DEF ManagerInv, ManagerTypeOK
      <3>2. Cardinality(plugged) \in Nat
        BY <3>1, FS_CardinalityType
      <3>3. devices' \in [1 .. Cardinality(plugged) -> plugged]
        BY <1>1 DEF Enumerate, SetToSeqs
      <3> QED
        BY <3>2, <3>3 DEF ManagerInv, ManagerTypeOK
    <2> QED
      BY <1>1, <2>1 DEF Enumerate, ManagerInv, ManagerTypeOK, CallsFrame, Lifetimes,
                     Empty, CamerasServed, Served, Removable, FactoriesDone, Handled,
                     appVars, initVars, ownerVars
  <1>2. CASE EnumerateFails
    BY <1>2 DEF EnumerateFails, ManagerInv, ManagerTypeOK, CallsFrame, Lifetimes,
                 Empty, CamerasServed, Served, Removable, FactoriesDone, Handled,
                 appVars, initVars, ownerVars
  <1>3. CASE Match
    <2> DEFINE f == Factories[factory]
               i == Search(f)
               d == devices[i]
    <2>1. /\ i \in DOMAIN devices /\ d \notin acquired
          /\ FactoryOf[d] = f
      BY <1>3, SearchFinds DEF Match, ManagerInv, FreeFor
    <2>2. d \in Devices /\ d \in ToSet(devices)
      BY <2>1 DEF ManagerInv, ManagerTypeOK, ToSet
    <2>3. /\ manager = "match" /\ UNCHANGED <<manager, factory, appVars, exit>>
          /\ UNCHANGED <<initialized, initStatus, result, devices, leaving>>
          /\ UNCHANGED <<plugged, starts>>
          /\ acquired' = acquired \cup {d} /\ pipes' = pipes \cup {d}
          /\ registered' = registered \cup {d}
          /\ disconnected' = disconnected \ {d}
          /\ cameras' = cameras \cup {d} /\ hotplug' = HotplugMediaDevice(d)
      BY <1>3 DEF Match, AcquireMedia, RegisterCamera, AddCamera, SameFactory
    <2> HIDE DEF i, d
    <2>3a. /\ hotplug \subseteq hotplug' /\ hotplug' \subseteq hotplug \cup {d}
           /\ Removable(d) => d \in hotplug'
      BY <2>3 DEF HotplugMediaDevice
    <2>4. ManagerTypeOK' /\ CallsFrame' /\ Lifetimes' /\ CamerasServed'
      BY <2>2, <2>3, <2>3a DEF ManagerInv, ManagerTypeOK, CallsFrame, Lifetimes, Empty,
                               CamerasServed, Served, Removable, appVars
    <2>5. FactoriesDone'
      <3>1. ASSUME NEW j \in DOMAIN devices, NEW k \in 1 .. factory - 1,
                   FactoryOf[devices[j]] = Factories[k]
            PROVE  Handled(j)'
        <4>1. Handled(j)
          BY <2>3, <3>1 DEF ManagerInv, FactoriesDone
        <4>2. FactoryOf[devices[j]] # f
          BY <3>1 DEF ManagerInv, ManagerTypeOK, IsInjective
        <4> HIDE DEF f
        <4> QED
          BY <2>1, <2>3, <4>1, <4>2 DEF Handled
      <3> QED
        BY <2>3, <3>1 DEF ManagerInv, FactoriesDone, appVars
    <2> QED
      BY <2>4, <2>5 DEF ManagerInv
  <1>4. CASE MatchFails
    <2> DEFINE f == Factories[factory]
               i == Search(f)
    <2>1. /\ manager = "match"
          /\ i > 0 => devices[i] \in Faulty
          /\ \/ /\ factory < Len(Factories)
                /\ factory' = factory + 1 /\ manager' = "match"
             \/ /\ factory = Len(Factories)
                /\ manager' = "publish" /\ factory' = factory
          /\ UNCHANGED <<appVars, exit, initialized, initStatus, result, devices>>
          /\ UNCHANGED <<ownerVars, leaving, plugged, starts>>
      BY <1>4 DEF MatchFails, NextFactory, ManagerInv, ManagerTypeOK
    <2>2. acquired = cameras
      BY <2>1 DEF ManagerInv, Lifetimes, FactoriesDone, CamerasServed, Served
    <2>3. ASSUME NEW j \in DOMAIN devices, FactoryOf[devices[j]] = f
          PROVE  Handled(j)
      <3>1. /\ i = 0 \/ (i \in DOMAIN devices /\ FreeFor(f, i))
            /\ i = 0 => \A k \in DOMAIN devices : ~FreeFor(f, k)
            /\ i > 0 => \A k \in 1 .. i - 1 : ~FreeFor(f, k)
        <4>1. ManagerTypeOK
          BY DEF ManagerInv
        <4> HIDE DEF f
        <4> QED
          BY <4>1, SearchFinds
      <3>2. DOMAIN devices \subseteq Nat \ {0}
        BY DEF ManagerInv, ManagerTypeOK
      <3> HIDE DEF i
      <3>3. CASE i = 0 \/ j < i
        <4>1. ~FreeFor(f, j)
          BY <3>1, <3>2, <3>3
        <4> QED
          BY <2>2, <2>3, <4>1 DEF Handled, FreeFor
      <3>4. CASE i > 0 /\ i <= j
        <4>1. i \in 1 .. j /\ devices[i] \in Faulty \ cameras
          BY <2>1, <2>2, <3>1, <3>2, <3>4 DEF FreeFor
        <4> QED
          BY <2>3, <3>1, <3>4, <4>1 DEF Handled, FreeFor
      <3> QED
        BY <3>1, <3>2, <3>3, <3>4
    <2>4. ASSUME NEW j \in DOMAIN devices, NEW k \in 1 .. factory,
                 FactoryOf[devices[j]] = Factories[k]
          PROVE  Handled(j)
      <3>1. CASE k = factory
        BY <2>3, <2>4, <3>1
      <3>2. CASE k # factory
        <4>1. k \in 1 .. factory - 1
          BY <3>2 DEF ManagerInv, ManagerTypeOK
        <4> QED
          BY <2>1, <2>4, <4>1 DEF ManagerInv, FactoriesDone
      <3> QED
        BY <3>1, <3>2
    <2>5. ASSUME factory = Len(Factories), NEW j \in DOMAIN devices
          PROVE  Handled(j)
      <3>1. PICK k \in DOMAIN Factories :
                FactoryOf[devices[j]] = Factories[k]
        BY DEF ManagerInv, ManagerTypeOK, ToSet
      <3> QED
        BY <2>4, <2>5, <3>1
    <2>6. \A j \in DOMAIN devices : Handled(j)' <=> Handled(j)
      BY <2>1 DEF Handled, ownerVars
    <2> HIDE DEF f, i
    <2>7. ManagerTypeOK' /\ CallsFrame' /\ Lifetimes' /\ CamerasServed'
      <3>1. factory' \in DOMAIN Factories
        BY <2>1 DEF ManagerInv, ManagerTypeOK
      <3>2. ManagerTypeOK'
        BY <2>1, <3>1 DEF ManagerInv, ManagerTypeOK, appVars, ownerVars
      <3>3. CASE manager' = "match"
        BY <2>1, <3>2, <3>3 DEF ManagerInv, CallsFrame, Lifetimes, Empty,
                 CamerasServed, Served, Removable, appVars, ownerVars
      <3>4. CASE manager' = "publish"
        BY <2>1, <3>2, <3>4 DEF ManagerInv, CallsFrame, Lifetimes,
                 Empty, CamerasServed, Served, Removable, appVars, ownerVars
      <3> QED
        BY <2>1, <3>3, <3>4
    <2>8. FactoriesDone'
      <3>1. pipes' \cup held' \subseteq cameras'
        BY <2>1 DEF ManagerInv, FactoriesDone, appVars, ownerVars
      <3>2. CASE manager' = "match"
        <4>1. 1 .. factory' - 1 = 1 .. factory /\ devices' = devices
          BY <2>1, <3>2 DEF ManagerInv, ManagerTypeOK
        <4> QED
          BY <2>4, <2>6, <3>1, <3>2, <4>1 DEF FactoriesDone
      <3>3. CASE manager' = "publish"
        BY <2>1, <2>5, <2>6, <3>1, <3>3 DEF FactoriesDone
      <3> QED
        BY <2>1, <3>2, <3>3
    <2> QED
      BY <2>7, <2>8 DEF ManagerInv
  <1>5. CASE Publish
    BY <1>5 DEF Publish, PublishAlways, ManagerInv, ManagerTypeOK, CallsFrame,
                 Lifetimes, Empty, CamerasServed, Served, Removable, FactoriesDone,
                 Handled, appVars, initVars, ownerVars
  <1> QED
    BY <1>1, <1>2, <1>3, <1>4, <1>5

(* The steps of exec() and cleanup() preserve the invariant.               *)
LEMMA ExecStep ==
  ASSUME ManagerInv,
         \/ \E d \in Devices : RemoveDevice(d) \/ AddDevice(d)
         \/ RemoveCamera
         \/ ExecReturns \/ CleanupPipes \/ CleanupCameras \/ CleanupEnumerator
  PROVE  ManagerInv'
  <1>1. ASSUME NEW d \in Devices, RemoveDevice(d) PROVE ManagerInv'
    <2>1. /\ devices' \in Seq(Devices)
          /\ ToSet(devices) \ {d} \subseteq ToSet(devices')
      BY <1>1, RemoveFirstProperties DEF RemoveDevice, ManagerInv, ManagerTypeOK
    <2> QED
      BY <1>1, <2>1 DEF RemoveDevice, ManagerInv, ManagerTypeOK, CallsFrame, Lifetimes,
                     Empty, CamerasServed, Served, Removable, FactoriesDone, Handled,
                     appVars, initVars, ownerVars
  <1>2. ASSUME NEW d \in Devices, AddDevice(d) PROVE ManagerInv'
    <2>1. /\ devices' \in Seq(Devices)
          /\ ToSet(devices') = ToSet(devices) \cup {d}
      BY <1>2, AppendInjectiveNew DEF AddDevice, ManagerInv, ManagerTypeOK
    <2> QED
      BY <1>2, <2>1 DEF AddDevice, ManagerInv, ManagerTypeOK, CallsFrame, Lifetimes,
                     Empty, CamerasServed, Served, Removable, FactoriesDone, Handled,
                     appVars, initVars, ownerVars
  <1>3. CASE RemoveCamera
    BY <1>3 DEF RemoveCamera, WithoutCamera, Referenced, ManagerInv, ManagerTypeOK,
                 CallsFrame, Lifetimes, Empty, CamerasServed, Served, Removable,
                 FactoriesDone, Handled, appVars, initVars, ownerVars
  <1>4. CASE ExecReturns
    BY <1>4 DEF ExecReturns, ManagerInv, ManagerTypeOK, CallsFrame, Lifetimes,
                 Empty, CamerasServed, Served, Removable, FactoriesDone, Handled,
                 appVars, initVars, ownerVars
  <1>5. CASE CleanupPipes
    BY <1>5 DEF CleanupPipes, Referenced, ManagerInv, ManagerTypeOK, CallsFrame,
                 Lifetimes, Empty, CamerasServed, Served, Removable, FactoriesDone,
                 Handled, appVars, initVars, ownerVars
  <1>6. CASE CleanupCameras
    BY <1>6 DEF CleanupCameras, CamerasCleared, Referenced, ManagerInv,
                 ManagerTypeOK, CallsFrame, Lifetimes, Empty, CamerasServed, Served, Removable,
                 FactoriesDone, Handled, appVars, initVars, ownerVars
  <1>7. CASE CleanupEnumerator
    BY <1>7 DEF CleanupEnumerator, ManagerInv, ManagerTypeOK, CallsFrame,
                 Lifetimes, Empty, CamerasServed, Served, Removable, FactoriesDone,
                 Handled, appVars, initVars, ownerVars
  <1> QED
    BY <1>1, <1>2, <1>3, <1>4, <1>5, <1>6, <1>7

(* So does the hardware.                                                   *)
LEMMA HardwareStep ==
  ASSUME ManagerInv, NEW d \in Devices, Unplug(d) \/ Plug(d)
  PROVE  ManagerInv'
  <1>1. CASE Unplug(d)
    BY <1>1 DEF Unplug, ManagerInv, ManagerTypeOK, CallsFrame, Lifetimes, Empty,
                 CamerasServed, Served, Removable, FactoriesDone, Handled, appVars,
                 initVars, ownerVars
  <1>2. CASE Plug(d)
    BY <1>2 DEF Plug, ManagerInv, ManagerTypeOK, CallsFrame, Lifetimes, Empty,
                 CamerasServed, Served, Removable, FactoriesDone, Handled, appVars,
                 initVars, ownerVars
  <1> QED
    BY <1>1, <1>2

(* The invariant of the manager holds from one start() to the next.        *)
THEOREM ManagerInvariance == ManagerSpec => []ManagerInv
  <1>1. ManagerInit => ManagerInv
    <2> SUFFICES ASSUME ManagerInit PROVE ManagerInv
      OBVIOUS
    <2>1. /\ 1 \in DOMAIN Factories /\ 0 \in 0 .. MaxStarts
          /\ <<>> \in Seq(Devices)
      OBVIOUS
    <2>2. ManagerTypeOK
      BY <2>1 DEF ManagerInit, ManagerTypeOK
    <2> QED
      BY <2>2 DEF ManagerInit, ManagerInv, CallsFrame, Lifetimes, Empty,
                  CamerasServed, FactoriesDone
  <1>2. ManagerInv /\ [ManagerNext]_managerVars => ManagerInv'
    <2>1. ASSUME ManagerInv, UNCHANGED managerVars PROVE ManagerInv'
      BY <2>1 DEF managerVars, ManagerInv, ManagerTypeOK, CallsFrame, Lifetimes, Empty, CamerasServed,
             Served, Removable, FactoriesDone, Handled, appVars, initVars, ownerVars
    <2> QED
      BY <2>1, ApplicationStep, InitStep, ExecStep, HardwareStep
      DEF ManagerNext, Run
  <1> QED
    BY <1>1, <1>2, PTL DEF ManagerSpec

(* A camera in the list has a pipeline handler that owns its media device, *)
(* is listed, and is connected, until its removal is handled or the        *)
(* manager is cleaned up; and when the thread ends, after a failure too,   *)
(* no camera, pipeline handler or media device in use is left.             *)
THEOREM CameraListIsSound == ManagerSpec => []CamerasSound
  <1>1. ManagerInv => CamerasSound
    BY DEF ManagerInv, CamerasSound, ListedCamerasServed, NothingLeft,
           Lifetimes, Empty, CamerasServed, Served, Removable
  <1> QED
    BY <1>1, ManagerInvariance, PTL

(* init() leaves no device without its camera that it could have had:      *)
(* whatever the order of enumeration, the factories and the faults.        *)
THEOREM EveryDeviceTried == ManagerSpec => []NoCameraMissed
  <1>1. ManagerInv => NoCameraMissed
    BY DEF ManagerInv, NoCameraMissed, FactoriesDone, Handled
  <1> QED
    BY <1>1, ManagerInvariance, PTL

(* CameraThread has the list of cameras as one of its parts.               *)
THEOREM CamerasAreAPart == CameraThreadSpec => ManagerSpec
  <1>1. CameraThreadInit => ManagerInit
    BY DEF CameraThreadInit
  <1>2. [CameraThreadNext]_cameraThreadVars => [ManagerNext]_managerVars
    BY DEF CameraThreadNext, cameraThreadVars, OfCameras, OfRequests
  <1> QED
    BY <1>1, <1>2, PTL DEF CameraThreadSpec, ManagerSpec

(* And the queue of requests as the other.                                 *)
THEOREM RequestsAreAPart == CameraThreadSpec => Spec
  <1>1. CameraThreadInit => Init
    BY DEF CameraThreadInit
  <1>2. [CameraThreadNext]_cameraThreadVars => [Next]_pipeVars
    BY DEF CameraThreadNext, cameraThreadVars, OfCameras, OfRequests
  <1> QED
    BY <1>1, <1>2, PTL DEF CameraThreadSpec, Spec

HIDE ManagerAssumption

-----------------------------------------------------------------------------
(***************************************************************************)
(* IPAManager.                                                             *)
(***************************************************************************)

-----------------------------------------------------------------------------
(***************************************************************************)
(* Process and ProcessManager.                                             *)
(***************************************************************************)

USE IPAAssumption

ProcTypeOK ==
    /\ proc \in [Procs -> {"idle", "forked", "running", "deleted"}]
    /\ pid \in [Procs -> Pids \cup {NoPid}]
    /\ child \in [Pids -> {"none", "alive", "zombie", "reaped"}]
    /\ processes \in Seq(Procs)
    /\ walk \in Nat

(* A pid belongs to one Process, and fork() returned it.                   *)
PidsApart ==
    /\ \A p \in Procs : pid[p] # NoPid => child[pid[p]] # "none"
    /\ \A p, q \in Procs : pid[p] = pid[q] /\ p # q => pid[p] = NoPid

(* A process has a child to wait for from the fork() on, and is listed     *)
(* from registerProcess() on.                                              *)
ForkedLives ==
    \A p \in Procs : proc[p] \in {"forked", "running"} =>
        pid[p] # NoPid /\ child[pid[p]] \in {"alive", "zombie"}

(* The inductive invariant.  RunningListed alone is not: registerProcess() *)
(* comes a step after the fork(), for which ForkedLives remembers that the *)
(* child is there, and waitpid() for one process may not take the child of *)
(* another (PidsApart).                                                    *)
ProcInv == ProcTypeOK /\ RunningListed /\ PidsApart /\ ForkedLives

(* Initially no process was forked and the list is empty.                  *)
LEMMA ProcInitInv == ProcInit => ProcInv
  BY DEF ProcInit, ProcInv, ProcTypeOK, RunningListed, PidsApart, ForkedLives,
         IsInjective, ToSet, NoPid

(* fork() returns a pid that nobody has.                                   *)
LEMMA ForkInv ==
  ASSUME ProcInv, NEW p \in Procs, Fork(p)
  PROVE  ProcInv'
  <1> USE DEF ProcInv
  <1>1. PICK k \in Pids :
            /\ child[k] = "none"
            /\ child' = [child EXCEPT ![k] = "alive"]
            /\ pid' = [pid EXCEPT ![p] = k]
    BY DEF Fork
  <1>2. /\ proc[p] = "idle" /\ proc' = [proc EXCEPT ![p] = "forked"]
        /\ UNCHANGED <<processes, walk>>
    BY DEF Fork
  <1>3. k # NoPid
    BY DEF Pids, NoPid
  <1> USE DEF ProcTypeOK
  <1>4. ProcTypeOK'
    BY <1>1, <1>2
  <1>5. PidsApart'
    BY <1>1, <1>2, <1>3 DEF PidsApart
  <1>6. ForkedLives'
    BY <1>1, <1>2, <1>3 DEF ForkedLives
  <1>7. RunningListed'
    BY <1>1, <1>2, <1>3 DEF RunningListed, ForkedLives
  <1> QED
    BY <1>4, <1>5, <1>6, <1>7

(* registerProcess(): a forked process was not in the list.                *)
LEMMA RegisterInv ==
  ASSUME ProcInv, NEW p \in Procs, Register(p)
  PROVE  ProcInv'
  <1> USE DEF ProcInv, ProcTypeOK
  <1>1. /\ proc[p] = "forked" /\ proc' = [proc EXCEPT ![p] = "running"]
        /\ processes' = Append(processes, p)
        /\ UNCHANGED <<pid, child, walk>>
    BY DEF Register
  <1>2. p \notin ToSet(processes)
    BY <1>1 DEF RunningListed
  <1>3. IsInjective(processes') /\ ToSet(processes') = ToSet(processes) \cup {p}
    BY <1>1, <1>2, AppendInjectiveNew DEF RunningListed
  <1>4. ProcTypeOK'
    BY <1>1
  <1>5. PidsApart' /\ ForkedLives'
    BY <1>1 DEF PidsApart, ForkedLives
  <1>6. RunningListed'
    BY <1>1, <1>3 DEF RunningListed, ForkedLives
  <1> QED
    BY <1>4, <1>5, <1>6

(* A child that ends stays to be waited for.                               *)
LEMMA DiesInv ==
  ASSUME ProcInv, NEW k \in Pids, child[k] = "alive",
         child' = [child EXCEPT ![k] = "zombie"],
         proc' \in [Procs -> {"idle", "forked", "running", "deleted"}],
         \A p \in Procs : proc'[p] = proc[p] \/ proc'[p] = "deleted",
         UNCHANGED <<pid, processes, walk>>
  PROVE  ProcInv'
  <1> USE DEF ProcInv, ProcTypeOK
  <1>1. ProcTypeOK'
    OBVIOUS
  <1>2. PidsApart'
    BY DEF PidsApart
  <1>3. ForkedLives'
    BY DEF ForkedLives
  <1>4. RunningListed'
    BY DEF RunningListed, ForkedLives
  <1> QED
    BY <1>1, <1>2, <1>3, <1>4

(* The end of a child.                                                     *)
LEMMA ChildExitsInv ==
  ASSUME ProcInv, NEW k \in Pids, ChildExits(k)
  PROVE  ProcInv'
  <1>1. /\ child[k] = "alive" /\ child' = [child EXCEPT ![k] = "zombie"]
        /\ UNCHANGED <<proc, pid, processes, walk>>
    BY DEF ChildExits, Dies
  <1> QED
    BY <1>1, DiesInv DEF ProcInv, ProcTypeOK

(* ~Process() leaves its entry in the list.                                *)
LEMMA DeleteInv ==
  ASSUME ProcInv, NEW p \in Procs, Delete(p)
  PROVE  ProcInv'
  <1> USE DEF ProcInv, ProcTypeOK
  <1>1. /\ proc' = [proc EXCEPT ![p] = "deleted"]
        /\ UNCHANGED <<pid, processes, walk>>
    BY DEF Delete
  <1>2. CASE pid[p] # NoPid /\ child[pid[p]] = "alive"
    <2>1. child' = [child EXCEPT ![pid[p]] = "zombie"]
      BY <1>2 DEF Delete, Dies
    <2>2. pid[p] \in Pids
      BY <1>2
    <2> HIDE DEF ProcInv, ProcTypeOK
    <2>3. /\ proc' \in [Procs -> {"idle", "forked", "running", "deleted"}]
          /\ \A q \in Procs : proc'[q] = proc[q] \/ proc'[q] = "deleted"
      BY <1>1 DEF ProcInv, ProcTypeOK
    <2> QED
      BY <1>1, <1>2, <2>1, <2>2, <2>3, DiesInv
  <1>3. CASE ~(pid[p] # NoPid /\ child[pid[p]] = "alive")
    <2>1. child' = child
      BY <1>3 DEF Delete
    <2>2. ProcTypeOK'
      BY <1>1, <2>1
    <2>3. PidsApart' /\ ForkedLives'
      BY <1>1, <2>1 DEF PidsApart, ForkedLives
    <2>4. RunningListed'
      BY <1>1, <2>1 DEF RunningListed
    <2> QED
      BY <2>2, <2>3, <2>4
  <1> QED
    BY <1>2, <1>3

(* sighandler(): the process whose child was waited for leaves the list,   *)
(* and no other does.                                                      *)
LEMMA WalkInv ==
  ASSUME ProcInv, Walk
  PROVE  ProcInv'
  <1> USE DEF ProcInv, ProcTypeOK
  <1> DEFINE p == processes[walk]
  <1>1. walk \in 1 .. Len(processes) /\ p \in Procs /\ pid' = pid
    BY DEF Walk
  <1>2. p \in ToSet(processes)
    BY <1>1 DEF ToSet
  <1>3. CASE UNCHANGED <<proc, child, processes>> /\ walk' \in {walk, walk + 1}
    BY <1>1, <1>3 DEF PidsApart, ForkedLives, RunningListed
  <1>4. CASE WalkReaps /\ proc[p] # "deleted"
    <2>1. /\ child[pid[p]] = "zombie"
          /\ child' = [child EXCEPT ![pid[p]] = "reaped"]
          /\ processes' = RemoveAt(processes, walk)
          /\ walk' = walk
          /\ proc' = [proc EXCEPT ![p] = "idle"]
      BY <1>4 DEF WalkReaps, EraseDead, AfterErase
    <2>2. proc[p] = "running" /\ pid[p] \in Pids
      BY <1>1, <1>2, <1>4 DEF RunningListed, ForkedLives
    <2>3. /\ IsInjective(processes')
          /\ ToSet(processes') = ToSet(processes) \ {p}
          /\ processes' \in Seq(Procs)
      BY <1>1, <2>1, RemoveAtInjective, RemoveAtProperties DEF RunningListed
    <2> HIDE DEF p
    <2>4. ProcTypeOK'
      BY <1>1, <2>1, <2>2, <2>3
    <2>5. PidsApart'
      BY <1>1, <2>1, <2>2 DEF PidsApart
    <2>6. \A q \in Procs : q # p /\ pid[q] # NoPid => pid[q] # pid[p]
      BY <1>1 DEF PidsApart
    <2>7. ForkedLives'
      BY <1>1, <2>1, <2>2, <2>6 DEF ForkedLives
    <2>8. RunningListed'
      BY <1>1, <2>1, <2>2, <2>3, <2>6 DEF RunningListed, ForkedLives
    <2> QED
      BY <2>4, <2>5, <2>7, <2>8
  <1> QED
    BY <1>3, <1>4 DEF Walk, WalkDangles, WalkPasses

(* The rest of the handler of SIGCHLD.                                     *)
LEMMA SighandlerInv ==
  ASSUME ProcInv, Sigact \/ ReadPipe \/ WalkEnds \/ SlotReturns
  PROVE  ProcInv'
  BY DEF ProcInv, ProcTypeOK, PidsApart, ForkedLives, RunningListed, Sigact,
         ReadPipe, WalkEnds, SlotReturns

-----------------------------------------------------------------------------
(***************************************************************************)
(* The messages of a proxy.                                                *)
(***************************************************************************)

SocketTypeOK ==
    /\ queue \in [Handlers -> Seq(Datagrams)]
    /\ header \in [Handlers -> Datagrams \cup {NoMessage}]
    /\ last \in 0 .. MaxMessages
    /\ sending \in [Handlers -> Messages \cup {NoMessage}]
    /\ sent \in [Handlers -> Seq(Messages)]
    /\ received \in [Handlers -> Seq(Datagrams \X Datagrams)]
    /\ peerBound \in [Handlers -> BOOLEAN]
    /\ torn \in [Handlers -> BOOLEAN]
    /\ ipa \in [Handlers -> {"absent", "null", "direct", "wrapper", "proxy"}]

(* A handler has at most one worker in its life, and the end of the socket *)
(* that belongs to the worker is bound while the worker lives.             *)
OneWorker ==
    \A h \in Handlers :
        /\ ipa[h] = "absent" => pid[h] = NoPid
        /\ ipa[h] = "proxy" => pid[h] # NoPid
        /\ peerBound[h] => pid[h] # NoPid /\ child[pid[h]] = "alive"

(* The worker is dead: what it read of the queue is lost.                  *)
Gone(h) == pid[h] # NoPid /\ child[pid[h]] \in {"zombie", "reaped"}

(* The messages whose header was sent.                                     *)
Begun(snt, snd) == IF snd = NoMessage THEN snt ELSE Append(snt, snd)

(* The datagrams that were sent, of which those at odd positions are       *)
(* headers, are the ones received in pairs, then the header the receiver   *)
(* keeps if it has one, then the queue.  Read is how many were read.       *)
Stream(snt, snd, q, hd, rcv) ==
    LET begun == Begun(snt, snd)
        read == 2 * Len(rcv) + IF hd = NoMessage THEN 0 ELSE 1
    IN  /\ read + Len(q) = Len(snt) + Len(begun)
        /\ \A i \in 1 .. Len(rcv) : rcv[i] = Whole(snt[i])
        /\ hd # NoMessage => hd = <<"header", begun[Len(rcv) + 1]>>
        /\ \A i \in 1 .. Len(begun), j \in 1 .. Len(q) :
               read + j = 2 * i - 1 => q[j] = <<"header", begun[i]>>
        /\ \A i \in 1 .. Len(snt), j \in 1 .. Len(q) :
               read + j = 2 * i => q[j] = <<"payload", snt[i]>>

SocketStream(h) == Stream(sent[h], sending[h], queue[h], header[h], received[h])

StreamsWhole == \A h \in Handlers : torn[h] \/ Gone(h) \/ SocketStream(h)

(* The inductive invariant.  MessagesWhole says nothing of what is still   *)
(* in the queue, nor of a header that waits for its payload; and it speaks *)
(* of the worker that reads, of which there may be no second one, since it *)
(* would start with the queue where the first one left it.                 *)
SocketInv == SocketTypeOK /\ OneWorker /\ StreamsWhole

(* send() of a header puts it at the end of the stream.                    *)
LEMMA StreamHeader ==
  ASSUME NEW snt \in Seq(Messages), NEW q \in Seq(Datagrams),
         NEW hd \in Datagrams \cup {NoMessage},
         NEW rcv \in Seq(Datagrams \X Datagrams), NEW m \in Messages,
         Stream(snt, NoMessage, q, hd, rcv)
  PROVE  Stream(snt, m, Append(q, <<"header", m>>), hd, rcv)
  <1> DEFINE d == <<"header", m>>
             q2 == Append(q, d)
             begun == Append(snt, m)
             read == 2 * Len(rcv) + IF hd = NoMessage THEN 0 ELSE 1
  <1>0. d \in Datagrams /\ m # NoMessage
    BY DEF Datagrams
  <1>1. /\ Len(snt) \in Nat /\ Len(q) \in Nat /\ Len(rcv) \in Nat
        /\ Len(q2) = Len(q) + 1 /\ q2[Len(q) + 1] = d
        /\ \A j \in 1 .. Len(q) : q2[j] = q[j]
        /\ Len(begun) = Len(snt) + 1 /\ begun[Len(snt) + 1] = m
        /\ \A j \in 1 .. Len(snt) : begun[j] = snt[j]
        /\ read \in Nat
    BY <1>0, AppendProperties
  <1>2. /\ read + Len(q) = 2 * Len(snt)
        /\ \A i \in 1 .. Len(rcv) : rcv[i] = Whole(snt[i])
        /\ hd # NoMessage => hd = <<"header", snt[Len(rcv) + 1]>>
        /\ \A i \in 1 .. Len(snt), j \in 1 .. Len(q) :
               read + j = 2 * i - 1 => q[j] = <<"header", snt[i]>>
        /\ \A i \in 1 .. Len(snt), j \in 1 .. Len(q) :
               read + j = 2 * i => q[j] = <<"payload", snt[i]>>
    <2>1. Begun(snt, NoMessage) = snt
      BY DEF Begun
    <2>2. read + Len(q) = Len(snt) + Len(snt)
      BY <2>1 DEF Stream
    <2>3. read + Len(q) = 2 * Len(snt)
      <3> HIDE DEF read
      <3> QED
        BY <1>1, <2>2
    <2> QED
      BY <2>1, <2>3 DEF Stream
  <1>a. /\ Len(snt) \in Nat /\ Len(q) \in Nat /\ Len(rcv) \in Nat /\ read \in Nat
        /\ Len(q2) \in Nat /\ Len(begun) \in Nat
        /\ Len(q2) = Len(q) + 1 /\ Len(begun) = Len(snt) + 1
        /\ read + Len(q) = 2 * Len(snt)
    BY <1>1, <1>2
  <1>3. hd # NoMessage => Len(rcv) + 1 \in 1 .. Len(snt)
    BY <1>1, <1>2
  <1> HIDE DEF d, q2, begun, read
  <1>4. hd # NoMessage => hd = <<"header", begun[Len(rcv) + 1]>>
    BY <1>1, <1>2, <1>3
  <1>5. ASSUME NEW i \in 1 .. Len(begun), NEW j \in 1 .. Len(q2),
               read + j = 2 * i - 1
        PROVE  q2[j] = <<"header", begun[i]>>
    <2>1. CASE j = Len(q) + 1
      <3>1. i = Len(snt) + 1
        BY <1>a, <1>5, <2>1
      <3> QED
        BY <1>1, <2>1, <3>1 DEF d
    <2>2. CASE j \in 1 .. Len(q)
      <3>1. i \in 1 .. Len(snt)
        BY <1>a, <1>5, <2>2
      <3> QED
        BY <1>1, <1>2, <1>5, <2>2, <3>1
    <2> QED
      BY <1>1, <2>1, <2>2
  <1>6. ASSUME NEW i \in 1 .. Len(snt), NEW j \in 1 .. Len(q2),
               read + j = 2 * i
        PROVE  q2[j] = <<"payload", snt[i]>>
    <2>1. j \in 1 .. Len(q)
      BY <1>a, <1>6
    <2> QED
      BY <1>1, <1>2, <1>6, <2>1
  <1>7. read + Len(q2) = Len(snt) + Len(begun)
    <2>1. Len(snt) + Len(begun) = 2 * Len(snt) + 1
      BY <1>a
    <2>2. read + Len(q2) = (read + Len(q)) + 1
      BY <1>a
    <2> QED
      BY <1>a, <2>1, <2>2
  <1> QED
    BY <1>0, <1>2, <1>4, <1>5, <1>6, <1>7
    DEF Stream, Begun, d, q2, begun, read

(* send() of the payload completes the last message.                       *)
LEMMA StreamData ==
  ASSUME NEW snt \in Seq(Messages), NEW q \in Seq(Datagrams),
         NEW hd \in Datagrams \cup {NoMessage},
         NEW rcv \in Seq(Datagrams \X Datagrams), NEW m \in Messages,
         Stream(snt, m, q, hd, rcv)
  PROVE  Stream(Append(snt, m), NoMessage, Append(q, <<"payload", m>>), hd, rcv)
  <1> DEFINE d == <<"payload", m>>
             q2 == Append(q, d)
             begun == Append(snt, m)
             read == 2 * Len(rcv) + IF hd = NoMessage THEN 0 ELSE 1
  <1>0. d \in Datagrams /\ m # NoMessage
    BY DEF Datagrams
  <1>1. /\ Len(snt) \in Nat /\ Len(q) \in Nat /\ Len(rcv) \in Nat
        /\ Len(q2) = Len(q) + 1 /\ q2[Len(q) + 1] = d
        /\ \A j \in 1 .. Len(q) : q2[j] = q[j]
        /\ Len(begun) = Len(snt) + 1 /\ begun[Len(snt) + 1] = m
        /\ \A j \in 1 .. Len(snt) : begun[j] = snt[j]
        /\ read \in Nat /\ read >= 2 * Len(rcv)
    BY <1>0, AppendProperties
  <1>2. /\ read + Len(q) = 2 * Len(snt) + 1
        /\ \A i \in 1 .. Len(rcv) : rcv[i] = Whole(snt[i])
        /\ hd # NoMessage => hd = <<"header", begun[Len(rcv) + 1]>>
        /\ \A i \in 1 .. Len(begun), j \in 1 .. Len(q) :
               read + j = 2 * i - 1 => q[j] = <<"header", begun[i]>>
        /\ \A i \in 1 .. Len(snt), j \in 1 .. Len(q) :
               read + j = 2 * i => q[j] = <<"payload", snt[i]>>
    <2>1. Begun(snt, m) = begun
      BY <1>0 DEF Begun
    <2>2. Len(snt) + Len(begun) = 2 * Len(snt) + 1
      BY <1>1
    <2>3. /\ read + Len(q) = Len(snt) + Len(begun)
          /\ \A i \in 1 .. Len(rcv) : rcv[i] = Whole(snt[i])
          /\ hd # NoMessage => hd = <<"header", begun[Len(rcv) + 1]>>
          /\ \A i \in 1 .. Len(begun), j \in 1 .. Len(q) :
                 read + j = 2 * i - 1 => q[j] = <<"header", begun[i]>>
          /\ \A i \in 1 .. Len(snt), j \in 1 .. Len(q) :
                 read + j = 2 * i => q[j] = <<"payload", snt[i]>>
      <3> HIDE DEF begun
      <3> QED
        BY <2>1, Zenon DEF Stream
    <2> QED
      BY <2>2, <2>3, Zenon
  <1> HIDE DEF d, q2, begun, read
  <1>a. /\ Len(snt) \in Nat /\ Len(q) \in Nat /\ Len(rcv) \in Nat /\ read \in Nat
        /\ Len(q2) \in Nat /\ Len(begun) \in Nat
        /\ Len(q2) = Len(q) + 1 /\ Len(begun) = Len(snt) + 1
        /\ read + Len(q) = 2 * Len(snt) + 1 /\ read >= 2 * Len(rcv)
    BY <1>1, <1>2
  <1>3. \A i \in 1 .. Len(rcv) : rcv[i] = Whole(begun[i])
    <2>1. Len(rcv) <= Len(snt)
      BY <1>a
    <2> QED
      BY <1>1, <1>2, <2>1
  <1>4. ASSUME NEW i \in 1 .. Len(begun), NEW j \in 1 .. Len(q2),
               read + j = 2 * i - 1
        PROVE  q2[j] = <<"header", begun[i]>>
    <2>1. j \in 1 .. Len(q)
      BY <1>a, <1>4
    <2> QED
      BY <1>1, <1>2, <1>4, <2>1
  <1>5. ASSUME NEW i \in 1 .. Len(begun), NEW j \in 1 .. Len(q2),
               read + j = 2 * i
        PROVE  q2[j] = <<"payload", begun[i]>>
    <2>1. CASE j = Len(q) + 1
      <3>1. i = Len(snt) + 1
        BY <1>a, <1>5, <2>1
      <3> QED
        BY <1>1, <2>1, <3>1 DEF d
    <2>2. CASE j \in 1 .. Len(q)
      <3>1. i \in 1 .. Len(snt)
        BY <1>a, <1>5, <2>2
      <3> QED
        BY <1>1, <1>2, <1>5, <2>2, <3>1
    <2> QED
      BY <1>1, <2>1, <2>2
  <1>6. read + Len(q2) = Len(begun) + Len(begun)
    <2>1. Len(begun) + Len(begun) = (2 * Len(snt) + 1) + 1
      BY <1>a
    <2>2. read + Len(q2) = (read + Len(q)) + 1
      BY <1>a
    <2> QED
      BY <1>a, <2>1, <2>2
  <1> QED
    BY <1>2, <1>3, <1>4, <1>5, <1>6 DEF Stream, Begun, d, q2, begun, read

(* The receiver keeps a header until there is more.                        *)
LEMMA StreamKeep ==
  ASSUME NEW snt \in Seq(Messages), NEW snd \in Messages \cup {NoMessage},
         NEW q \in Seq(Datagrams), q # <<>>,
         NEW rcv \in Seq(Datagrams \X Datagrams),
         Stream(snt, snd, q, NoMessage, rcv)
  PROVE  Stream(snt, snd, Tail(q), Head(q), rcv)
  <1> DEFINE begun == Begun(snt, snd)
             read == 2 * Len(rcv)
             r == Tail(q)
             hd == Head(q)
  <1>1. /\ Len(snt) \in Nat /\ Len(q) \in Nat \ {0} /\ Len(rcv) \in Nat
        /\ Len(r) = Len(q) - 1 /\ \A j \in 1 .. Len(r) : r[j] = q[j + 1]
        /\ hd = q[1] /\ hd # NoMessage
        /\ Len(begun) \in {Len(snt), Len(snt) + 1}
    <2>1. hd \in Datagrams
      OBVIOUS
    <2>2. Len(begun) \in {Len(snt), Len(snt) + 1}
      BY DEF Begun
    <2> QED
      BY <2>1, <2>2, HeadTailProperties
  <1>2. /\ read + Len(q) = Len(snt) + Len(begun)
        /\ \A i \in 1 .. Len(rcv) : rcv[i] = Whole(snt[i])
        /\ \A i \in 1 .. Len(begun), j \in 1 .. Len(q) :
               read + j = 2 * i - 1 => q[j] = <<"header", begun[i]>>
        /\ \A i \in 1 .. Len(snt), j \in 1 .. Len(q) :
               read + j = 2 * i => q[j] = <<"payload", snt[i]>>
    BY <1>1 DEF Stream
  <1> HIDE DEF begun, r, hd
  <1>a. /\ Len(snt) \in Nat /\ Len(q) \in Nat \ {0} /\ Len(rcv) \in Nat
        /\ Len(r) \in Nat /\ Len(begun) \in Nat
        /\ Len(r) = Len(q) - 1 /\ Len(begun) \in {Len(snt), Len(snt) + 1}
        /\ 2 * Len(rcv) + Len(q) = Len(snt) + Len(begun)
    BY <1>1, <1>2
  <1>3. hd = <<"header", begun[Len(rcv) + 1]>>
    <2>1. Len(rcv) + 1 \in 1 .. Len(begun) /\ 1 \in 1 .. Len(q)
      BY <1>a
    <2>2. read + 1 = 2 * (Len(rcv) + 1) - 1
      BY <1>1
    <2> QED
      BY <1>1, <1>2, <2>1, <2>2
  <1>4. ASSUME NEW i \in 1 .. Len(begun), NEW j \in 1 .. Len(r),
               read + 1 + j = 2 * i - 1
        PROVE  r[j] = <<"header", begun[i]>>
    <2>1. j + 1 \in 1 .. Len(q) /\ read + (j + 1) = 2 * i - 1
      BY <1>a, <1>4
    <2> QED
      BY <1>1, <1>2, <2>1
  <1>5. ASSUME NEW i \in 1 .. Len(snt), NEW j \in 1 .. Len(r),
               read + 1 + j = 2 * i
        PROVE  r[j] = <<"payload", snt[i]>>
    <2>1. j + 1 \in 1 .. Len(q) /\ read + (j + 1) = 2 * i
      BY <1>a, <1>5
    <2> QED
      BY <1>1, <1>2, <2>1
  <1>6. read + 1 + Len(r) = Len(snt) + Len(begun)
    BY <1>a
  <1> DEFINE after == 2 * Len(rcv) + IF hd = NoMessage THEN 0 ELSE 1
  <1>7. after = read + 1
    BY <1>1
  <1> HIDE DEF after, read
  <1>8. /\ after + Len(r) = Len(snt) + Len(begun)
        /\ \A i \in 1 .. Len(rcv) : rcv[i] = Whole(snt[i])
        /\ hd # NoMessage => hd = <<"header", begun[Len(rcv) + 1]>>
        /\ \A i \in 1 .. Len(begun), j \in 1 .. Len(r) :
               after + j = 2 * i - 1 => r[j] = <<"header", begun[i]>>
        /\ \A i \in 1 .. Len(snt), j \in 1 .. Len(r) :
               after + j = 2 * i => r[j] = <<"payload", snt[i]>>
    BY <1>2, <1>3, <1>4, <1>5, <1>6, <1>7
  <1> QED
    BY <1>8 DEF Stream, begun, r, hd, after

(* A header that was kept and the next datagram are one message.           *)
LEMMA StreamReceive ==
  ASSUME NEW snt \in Seq(Messages), NEW snd \in Messages \cup {NoMessage},
         NEW q \in Seq(Datagrams), q # <<>>, NEW hd \in Datagrams,
         NEW rcv \in Seq(Datagrams \X Datagrams),
         Stream(snt, snd, q, hd, rcv)
  PROVE  Stream(snt, snd, Tail(q), NoMessage, Append(rcv, <<hd, Head(q)>>))
  <1> DEFINE begun == Begun(snt, snd)
             n == Len(rcv)
             r == Tail(q)
             rcv2 == Append(rcv, <<hd, Head(q)>>)
  <1>1. /\ Len(snt) \in Nat /\ Len(q) \in Nat \ {0} /\ n \in Nat
        /\ Len(r) = Len(q) - 1 /\ \A j \in 1 .. Len(r) : r[j] = q[j + 1]
        /\ Head(q) = q[1] /\ hd # NoMessage
        /\ Len(begun) \in {Len(snt), Len(snt) + 1}
        /\ \A i \in 1 .. Len(snt) : begun[i] = snt[i]
    <2>1. /\ Len(begun) \in {Len(snt), Len(snt) + 1}
          /\ \A i \in 1 .. Len(snt) : begun[i] = snt[i]
      BY DEF Begun
    <2>2. /\ Len(snt) \in Nat /\ Len(q) \in Nat \ {0} /\ n \in Nat
          /\ Len(r) = Len(q) - 1 /\ \A j \in 1 .. Len(r) : r[j] = q[j + 1]
      BY HeadTailProperties
    <2>3. Head(q) = q[1] /\ hd # NoMessage
      OBVIOUS
    <2> HIDE DEF begun, r, n
    <2> QED
      BY <2>1, <2>2, <2>3
  <1>2. /\ 2 * n + 1 + Len(q) = Len(snt) + Len(begun)
        /\ \A i \in 1 .. n : rcv[i] = Whole(snt[i])
        /\ hd = <<"header", begun[n + 1]>>
        /\ \A i \in 1 .. Len(begun), j \in 1 .. Len(q) :
               2 * n + 1 + j = 2 * i - 1 => q[j] = <<"header", begun[i]>>
        /\ \A i \in 1 .. Len(snt), j \in 1 .. Len(q) :
               2 * n + 1 + j = 2 * i => q[j] = <<"payload", snt[i]>>
    BY <1>1 DEF Stream
  <1>3. /\ Len(rcv2) = n + 1 /\ rcv2[n + 1] = <<hd, q[1]>>
        /\ \A i \in 1 .. n : rcv2[i] = rcv[i]
    <2>1. <<hd, Head(q)>> \in Datagrams \X Datagrams
      OBVIOUS
    <2> QED
      BY <1>1, <2>1, AppendProperties
  <1> HIDE DEF begun, r, n, rcv2
  <1>a. /\ Len(snt) \in Nat /\ Len(q) \in Nat \ {0} /\ n \in Nat
        /\ Len(r) \in Nat /\ Len(begun) \in Nat
        /\ Len(r) = Len(q) - 1 /\ Len(begun) \in {Len(snt), Len(snt) + 1}
        /\ 2 * n + 1 + Len(q) = Len(snt) + Len(begun)
        /\ Len(rcv2) \in Nat /\ Len(rcv2) = n + 1
    BY <1>1, <1>2, <1>3
  <1>4. n + 1 \in 1 .. Len(snt)
    BY <1>a
  <1>5. q[1] = <<"payload", snt[n + 1]>>
    <2>1. 1 \in 1 .. Len(q) /\ 2 * n + 1 + 1 = 2 * (n + 1)
      BY <1>1
    <2> QED
      BY <1>2, <1>4, <2>1
  <1>6. rcv2[n + 1] = Whole(snt[n + 1])
    BY <1>1, <1>2, <1>3, <1>4, <1>5 DEF Whole
  <1>7. ASSUME NEW i \in 1 .. Len(rcv2) PROVE rcv2[i] = Whole(snt[i])
    <2>1. i = n + 1 \/ i \in 1 .. n
      BY <1>a
    <2> QED
      BY <1>2, <1>3, <1>6, <2>1
  <1>8. ASSUME NEW i \in 1 .. Len(begun), NEW j \in 1 .. Len(r),
               2 * Len(rcv2) + j = 2 * i - 1
        PROVE  r[j] = <<"header", begun[i]>>
    <2>1. j + 1 \in 1 .. Len(q) /\ 2 * n + 1 + (j + 1) = 2 * i - 1
      BY <1>a, <1>8
    <2> QED
      BY <1>1, <1>2, <2>1
  <1>9. ASSUME NEW i \in 1 .. Len(snt), NEW j \in 1 .. Len(r),
               2 * Len(rcv2) + j = 2 * i
        PROVE  r[j] = <<"payload", snt[i]>>
    <2>1. j + 1 \in 1 .. Len(q) /\ 2 * n + 1 + (j + 1) = 2 * i
      BY <1>a, <1>9
    <2> QED
      BY <1>1, <1>2, <2>1
  <1>10. 2 * Len(rcv2) + Len(r) = Len(snt) + Len(begun)
    <2>1. 2 * Len(rcv2) + Len(r) = 2 * n + 1 + Len(q)
      BY <1>a
    <2> QED
      BY <1>a, <2>1
  <1>11. 2 * Len(rcv2) + (IF NoMessage = NoMessage THEN 0 ELSE 1) = 2 * Len(rcv2)
    BY <1>a
  <1> QED
    <2>1. \A i \in 1 .. Len(rcv2) : rcv2[i] = Whole(snt[i])
      BY <1>7
    <2> DEFINE read == 2 * Len(rcv2) + IF NoMessage = NoMessage THEN 0 ELSE 1
    <2>2. read = 2 * Len(rcv2)
      BY <1>11
    <2> HIDE DEF read
    <2>3. /\ read + Len(r) = Len(snt) + Len(begun)
          /\ \A i \in 1 .. Len(begun), j \in 1 .. Len(r) :
                 read + j = 2 * i - 1 => r[j] = <<"header", begun[i]>>
          /\ \A i \in 1 .. Len(snt), j \in 1 .. Len(r) :
                 read + j = 2 * i => r[j] = <<"payload", snt[i]>>
      BY <1>8, <1>9, <1>10, <2>2
    <2> SUFFICES Stream(snt, snd, r, NoMessage, rcv2)
      BY DEF r, rcv2
    <2> QED
      BY <2>1, <2>3, Zenon DEF Stream, begun, read

(* What is left of the stream when a header is read together with its      *)
(* payload.                                                                *)
LEMMA StreamReceiveBoth ==
  ASSUME NEW snt \in Seq(Messages), NEW snd \in Messages \cup {NoMessage},
         NEW q \in Seq(Datagrams), q # <<>>, Tail(q) # <<>>,
         NEW rcv \in Seq(Datagrams \X Datagrams),
         Stream(snt, snd, q, NoMessage, rcv)
  PROVE  Stream(snt, snd, Tail(Tail(q)), NoMessage,
                Append(rcv, <<Head(q), Head(Tail(q))>>))
  <1>1. Tail(q) \in Seq(Datagrams) /\ Head(q) \in Datagrams
    BY HeadTailProperties
  <1>2. Stream(snt, snd, Tail(q), Head(q), rcv)
    BY StreamKeep
  <1> QED
    BY <1>1, <1>2, StreamReceive

(* Of datagrams read in pairs there are at most as many pairs as messages. *)
LEMMA HalfBound ==
  ASSUME NEW r \in Nat, NEW k \in {0, 1}, NEW q \in Nat, NEW n \in Nat,
         NEW b \in {n, n + 1}, 2 * r + k + q = n + b
  PROVE  r <= n
  OBVIOUS

(* What a stream says of the messages received.                            *)
LEMMA StreamReceived ==
  ASSUME NEW snt \in Seq(Messages), NEW snd \in Messages \cup {NoMessage},
         NEW q \in Seq(Datagrams), NEW hd,
         NEW rcv \in Seq(Datagrams \X Datagrams),
         Stream(snt, snd, q, hd, rcv)
  PROVE  /\ Len(rcv) <= Len(snt)
         /\ \A i \in DOMAIN rcv : rcv[i] = Whole(snt[i])
  <1> DEFINE begun == Begun(snt, snd)
             kept == IF hd = NoMessage THEN 0 ELSE 1
  <1>1. /\ 2 * Len(rcv) + kept + Len(q) = Len(snt) + Len(begun)
        /\ \A i \in 1 .. Len(rcv) : rcv[i] = Whole(snt[i])
    BY DEF Stream
  <1>2. /\ Len(snt) \in Nat /\ Len(rcv) \in Nat /\ Len(q) \in Nat
        /\ DOMAIN rcv = 1 .. Len(rcv)
    OBVIOUS
  <1>3. Len(begun) \in {Len(snt), Len(snt) + 1} /\ kept \in {0, 1}
    BY DEF Begun
  <1> HIDE DEF begun, kept
  <1>4. Len(rcv) <= Len(snt)
    BY <1>1, <1>2, <1>3, HalfBound
  <1> QED
    BY <1>1, <1>2, <1>4

(* Nothing was sent, and there is no worker.                               *)
LEMMA SocketInitInv == IPAInit => SocketInv
  <1> SUFFICES ASSUME IPAInit PROVE SocketInv
    OBVIOUS
  <1> USE DEF IPAInit, ProcInit, SocketInit
  <1>1. SocketTypeOK
    BY DEF SocketTypeOK
  <1>2. OneWorker
    BY DEF OneWorker
  <1>3. \A h \in Handlers : SocketStream(h)
    BY DEF SocketStream, Stream, Begun
  <1> QED
    BY <1>1, <1>2, <1>3 DEF SocketInv, StreamsWhole

(* What a step that is not about the proxy of a handler leaves of it.      *)
WorkerKept(h) ==
    /\ pid'[h] = pid[h]
    /\ peerBound[h] => child'[pid[h]] = "alive"
    /\ Gone(h) => Gone(h)'

(* The child of one process ends, or is waited for: the workers of the     *)
(* other processes are kept.                                               *)
LEMMA OthersKept ==
  ASSUME ProcInv, SocketInv, NEW p \in Procs, NEW h \in Handlers, h # p,
         pid' = pid,
         \A k \in Pids : k # pid[p] => child'[k] = child[k]
  PROVE  WorkerKept(h)
  <1>1. pid[h] # NoPid => pid[h] \in Pids /\ pid[h] # pid[p]
    BY DEF ProcInv, ProcTypeOK, PidsApart
  <1>2. pid[h] # NoPid => child'[pid[h]] = child[pid[h]]
    BY <1>1
  <1>3. peerBound[h] => pid[h] # NoPid /\ child[pid[h]] = "alive"
    BY DEF SocketInv, OneWorker
  <1> QED
    BY <1>2, <1>3 DEF WorkerKept, Gone

(* fork() for another process leaves a worker alone.                       *)
LEMMA ForkKeeps ==
  ASSUME ProcInv, SocketInv, NEW p \in Procs, Fork(p),
         NEW h \in Handlers, h # p
  PROVE  WorkerKept(h)
  <1>1. PICK k \in Pids :
            /\ child[k] = "none"
            /\ child' = [child EXCEPT ![k] = "alive"]
            /\ pid' = [pid EXCEPT ![p] = k]
    BY DEF Fork
  <1>2. pid[h] # NoPid => pid[h] \in Pids /\ pid[h] # k
    BY <1>1 DEF ProcInv, ProcTypeOK, PidsApart
  <1>3. pid'[h] = pid[h] /\ (pid[h] # NoPid => child'[pid[h]] = child[pid[h]])
    BY <1>1, <1>2 DEF ProcInv, ProcTypeOK
  <1>4. peerBound[h] => pid[h] # NoPid /\ child[pid[h]] = "alive"
    BY DEF SocketInv, OneWorker
  <1> QED
    BY <1>3, <1>4 DEF WorkerKept, Gone

(* ~Process() of another process leaves a worker alone.                    *)
LEMMA DeleteKeeps ==
  ASSUME ProcInv, SocketInv, NEW p \in Procs, Delete(p),
         NEW h \in Handlers, h # p
  PROVE  WorkerKept(h)
  <1>1. /\ pid' = pid
        /\ \A k \in Pids : k # pid[p] => child'[k] = child[k]
    BY DEF Delete, Dies, ProcInv, ProcTypeOK
  <1> QED
    BY <1>1, OthersKept

(* waitpid() takes a child that is dead.                                   *)
LEMMA WalkKeeps ==
  ASSUME ProcInv, SocketInv, Walk, NEW h \in Handlers
  PROVE  WorkerKept(h)
  <1> DEFINE p == processes[walk]
  <1> USE DEF ProcInv, ProcTypeOK
  <1>1. p \in Procs /\ pid' = pid
    BY DEF Walk
  <1>2. peerBound[h] => pid[h] # NoPid /\ child[pid[h]] = "alive"
    BY DEF SocketInv, OneWorker
  <1>3. CASE child' = child
    BY <1>1, <1>2, <1>3 DEF WorkerKept, Gone
  <1>4. CASE /\ child[pid[p]] = "zombie"
             /\ child' = [child EXCEPT ![pid[p]] = "reaped"]
    <2>1. pid[h] # NoPid =>
              child'[pid[h]] = IF pid[h] = pid[p] THEN "reaped" ELSE child[pid[h]]
      BY <1>1, <1>4
    <2> HIDE DEF p
    <2> QED
      BY <1>1, <1>2, <1>4, <2>1 DEF WorkerKept, Gone
  <1> QED
    BY <1>3, <1>4 DEF Walk, WalkReaps, WalkPasses, WalkDangles

(* The invariant needs no more than that the workers are kept, and that a  *)
(* handler without a worker gets none unnoticed.                           *)
LEMMA KeptInv ==
  ASSUME SocketInv, UNCHANGED socketVars, \A h \in Handlers : WorkerKept(h),
         ipa' \in [Handlers -> {"absent", "null", "direct", "wrapper", "proxy"}],
         \A h \in Handlers :
             ipa'[h] = ipa[h] \/ ipa'[h] \in {"null", "direct", "wrapper"}
  PROVE  SocketInv'
  <1> USE DEF socketVars
  <1>1. SocketTypeOK'
    BY DEF SocketInv, SocketTypeOK
  <1>2. OneWorker'
    BY DEF SocketInv, OneWorker, WorkerKept
  <1>3. StreamsWhole'
    <2>1. \A h \in Handlers : SocketStream(h)' <=> SocketStream(h)
      BY DEF SocketStream
    <2> QED
      BY <2>1 DEF SocketInv, StreamsWhole, WorkerKept
  <1> QED
    BY <1>1, <1>2, <1>3 DEF SocketInv

(* A step of this process that leaves the children and the sockets alone.  *)
LEMMA IdleInv ==
  ASSUME SocketInv, UNCHANGED <<procVars, socketVars>>,
         \/ ipa' = ipa
         \/ \E h \in Handlers : \E r \in {"null", "direct", "wrapper"} :
                Returns(h, r)
  PROVE  SocketInv'
  <1>1. \A h \in Handlers : WorkerKept(h)
    BY DEF WorkerKept, Gone, procVars, SocketInv, OneWorker
  <1>2. /\ ipa' \in [Handlers -> {"absent", "null", "direct", "wrapper", "proxy"}]
        /\ \A h \in Handlers :
               ipa'[h] = ipa[h] \/ ipa'[h] \in {"null", "direct", "wrapper"}
    BY DEF SocketInv, SocketTypeOK, Returns
  <1> QED
    BY <1>1, <1>2, KeptInv

(* The calls of the other processes, and the handler of SIGCHLD.           *)
LEMMA ProcessStepInv ==
  ASSUME ProcInv, SocketInv,
         (\E o \in Others : ProcessCall(o)) \/ ManagerThread \/ Reaper
  PROVE  SocketInv'
  <1>1. UNCHANGED <<ipa, socketVars>>
    BY DEF ProcessCall, ManagerThread, Reaper
  <1>2. \A h \in Handlers : WorkerKept(h)
    <2>1. ASSUME NEW o \in Others, ProcessCall(o), NEW h \in Handlers
          PROVE  WorkerKept(h)
      BY <2>1, ForkKeeps, DeleteKeeps DEF ProcessCall
    <2>2. CASE Walk
      BY <2>2, WalkKeeps
    <2>3. CASE UNCHANGED <<pid, child>>
      BY <2>3 DEF WorkerKept, Gone, SocketInv, OneWorker
    <2>4. ManagerThread => UNCHANGED <<pid, child>>
      BY DEF ManagerThread, InstallHandler, Register
    <2>5. Reaper => Walk \/ UNCHANGED <<pid, child>>
      BY DEF Reaper, Sigact, ReadPipe, WalkEnds, SlotReturns
    <2> QED
      BY <2>1, <2>2, <2>3, <2>4, <2>5
  <1> QED
    BY <1>1, <1>2, KeptInv DEF SocketInv, SocketTypeOK

(* The invariant of one handler, and what it needs of the others.          *)
LEMMA OneHandlerInv ==
  ASSUME SocketInv, SocketTypeOK', NEW h \in Handlers,
         \A g \in Handlers \ {h} :
             /\ WorkerKept(g)
             /\ ipa'[g] = ipa[g] /\ peerBound'[g] = peerBound[g]
             /\ torn'[g] = torn[g] /\ SocketStream(g)' = SocketStream(g),
         ipa'[h] = "absent" => pid'[h] = NoPid,
         ipa'[h] = "proxy" => pid'[h] # NoPid,
         peerBound'[h] => pid'[h] # NoPid /\ child'[pid'[h]] = "alive",
         torn'[h] \/ Gone(h)' \/ SocketStream(h)'
  PROVE  SocketInv'
  <1>1. OneWorker'
    BY DEF SocketInv, OneWorker, WorkerKept
  <1>2. StreamsWhole'
    BY DEF SocketInv, StreamsWhole, WorkerKept
  <1> QED
    BY <1>1, <1>2 DEF SocketInv

(* IPAProxyLinux(): the handler has had no worker before.                  *)
LEMMA CreateProxyInv ==
  ASSUME ProcInv, ProcInv', SocketInv, NEW h \in Handlers, CreateProxy(h)
  PROVE  SocketInv'
  <1>1. /\ Fork(h) /\ ipa[h] = "absent" /\ ipa' = [ipa EXCEPT ![h] = "proxy"]
        /\ UNCHANGED <<peerBound, queue, header, last, sending, sent, received, torn>>
    BY DEF CreateProxy, Asks, Returns, Create
  <1>2. SocketTypeOK'
    BY <1>1 DEF SocketInv, SocketTypeOK
  <1>3. \A g \in Handlers : SocketStream(g)' = SocketStream(g)
    BY <1>1 DEF SocketStream
  <1>4. \A g \in Handlers \ {h} :
            WorkerKept(g) /\ ipa'[g] = ipa[g]
    BY <1>1, ForkKeeps DEF SocketInv, SocketTypeOK
  <1>5. ~peerBound[h] /\ pid[h] = NoPid
    BY <1>1 DEF SocketInv, OneWorker
  <1>6. torn[h] \/ SocketStream(h)
    BY <1>5 DEF SocketInv, StreamsWhole, Gone
  <1>7. pid'[h] # NoPid
    BY <1>1 DEF ProcInv, ProcTypeOK, Fork, Pids, NoPid
  <1>8. ipa'[h] = "proxy"
    BY <1>1 DEF SocketInv, SocketTypeOK
  <1> QED
    BY <1>1, <1>2, <1>3, <1>4, <1>5, <1>6, <1>7, <1>8, OneHandlerInv

(* fork() failed: there was no worker to kill.                             *)
LEMMA ForkFailsInv ==
  ASSUME ProcInv, SocketInv, NEW h \in Handlers, CreateProxyForkFails(h)
  PROVE  SocketInv'
  <1>1. /\ Delete(h) /\ ipa[h] = "absent" /\ Returns(h, "null")
        /\ UNCHANGED socketVars
    BY DEF CreateProxyForkFails, Asks
  <1>2. pid[h] = NoPid
    BY <1>1 DEF SocketInv, OneWorker
  <1>3. UNCHANGED <<pid, child>>
    BY <1>1, <1>2 DEF Delete
  <1>4. \A g \in Handlers : WorkerKept(g)
    BY <1>3 DEF WorkerKept, Gone, SocketInv, OneWorker
  <1>5. /\ ipa' \in [Handlers -> {"absent", "null", "direct", "wrapper", "proxy"}]
        /\ \A g \in Handlers : ipa'[g] = ipa[g] \/ ipa'[g] = "null"
    BY <1>1 DEF SocketInv, SocketTypeOK, Returns
  <1> QED
    BY <1>1, <1>4, <1>5, KeptInv

(* bind() by a worker that lives.                                          *)
LEMMA WorkerBindsInv ==
  ASSUME SocketInv, NEW h \in Handlers, WorkerBinds(h)
  PROVE  SocketInv'
  <1>1. /\ pid[h] # NoPid /\ child[pid[h]] = "alive"
        /\ peerBound' = [peerBound EXCEPT ![h] = TRUE]
        /\ UNCHANGED <<ipa, pid, child, queue, header, last, sending, sent,
                       received, torn>>
    BY DEF WorkerBinds, Bind, procVars
  <1>2. SocketTypeOK'
    BY <1>1 DEF SocketInv, SocketTypeOK
  <1>3. OneWorker'
    BY <1>1 DEF SocketInv, SocketTypeOK, OneWorker
  <1>4. StreamsWhole'
    BY <1>1 DEF SocketInv, StreamsWhole, SocketStream, Gone
  <1> QED
    BY <1>2, <1>3, <1>4 DEF SocketInv

(* A worker that exits is gone, and its end of the socket is closed.       *)
LEMMA WorkerExitsInv ==
  ASSUME ProcInv, SocketInv, NEW k \in Pids, WorkerExits(k)
  PROVE  SocketInv'
  <1>1. /\ ChildExits(k) /\ child[k] = "alive"
        /\ child' = [child EXCEPT ![k] = "zombie"]
        /\ UNCHANGED <<pid, ipa>>
    BY DEF WorkerExits, ChildExits, Dies
  <1>2. \A i \in Pids : child'[i] = IF i = k THEN "zombie" ELSE child[i]
    BY <1>1 DEF ProcInv, ProcTypeOK
  <1>3. k # NoPid
    BY DEF Pids, NoPid
  <1>4. \A g \in Handlers : pid[g] # k => WorkerKept(g)
    BY <1>1, <1>2 DEF WorkerKept, Gone, SocketInv, OneWorker, ProcInv, ProcTypeOK
  <1>5. CASE UNCHANGED socketVars /\ \A h \in Handlers : ~(pid[h] = k /\ peerBound[h])
    <2>1. ASSUME NEW g \in Handlers PROVE WorkerKept(g)
      BY <1>1, <1>2, <1>3, <1>4, <1>5 DEF WorkerKept, Gone
    <2> QED
      BY <1>1, <1>5, <2>1, KeptInv DEF SocketInv, SocketTypeOK
  <1>6. ASSUME NEW h \in Handlers, pid[h] = k, peerBound[h], ClosePeer(h)
        PROVE  SocketInv'
    <2>1. /\ peerBound' = [peerBound EXCEPT ![h] = FALSE]
          /\ header' = [header EXCEPT ![h] = NoMessage]
          /\ UNCHANGED <<queue, last, sending, sent, received, torn>>
      BY <1>6 DEF ClosePeer
    <2>2. SocketTypeOK'
      BY <1>1, <2>1 DEF SocketInv, SocketTypeOK
    <2>3. ASSUME NEW g \in Handlers \ {h}
          PROVE  /\ WorkerKept(g) /\ peerBound'[g] = peerBound[g]
                 /\ SocketStream(g)' = SocketStream(g)
      <3>1. pid[g] # k
        BY <1>3, <1>6, <2>3 DEF ProcInv, PidsApart
      <3>2. peerBound'[g] = peerBound[g] /\ header'[g] = header[g]
        BY <2>1, <2>3 DEF SocketInv, SocketTypeOK
      <3> QED
        BY <1>4, <2>1, <3>1, <3>2 DEF SocketStream
    <2>4. ~peerBound'[h] /\ Gone(h)'
      BY <1>1, <1>2, <1>3, <1>6, <2>1 DEF SocketInv, SocketTypeOK, Gone
    <2>5. ipa[h] = "absent" => pid[h] = NoPid
      BY DEF SocketInv, OneWorker
    <2>6. ipa[h] = "proxy" => pid[h] # NoPid
      BY DEF SocketInv, OneWorker
    <2> QED
      BY <1>1, <2>1, <2>2, <2>3, <2>4, <2>5, <2>6, OneHandlerInv
  <1> QED
    BY <1>5, <1>6 DEF WorkerExits

(* ~IPAProxyLinux(): the worker is gone from then on.                      *)
LEMMA DestroyProxyInv ==
  ASSUME ProcInv, SocketInv, NEW h \in Handlers, DestroyProxy(h)
  PROVE  SocketInv'
  <1>1. /\ ipa[h] = "proxy" /\ Delete(h) /\ ipa' = [ipa EXCEPT ![h] = "null"]
        /\ peerBound' = [peerBound EXCEPT ![h] = FALSE]
        /\ header' = [header EXCEPT ![h] = NoMessage]
        /\ UNCHANGED <<queue, last, sending, sent, received, torn>>
    BY DEF DestroyProxy, Returns
  <1>2. SocketTypeOK'
    BY <1>1 DEF SocketInv, SocketTypeOK
  <1>3. ASSUME NEW g \in Handlers \ {h}
        PROVE  /\ WorkerKept(g) /\ peerBound'[g] = peerBound[g]
               /\ ipa'[g] = ipa[g] /\ SocketStream(g)' = SocketStream(g)
    <2>1. /\ peerBound'[g] = peerBound[g] /\ header'[g] = header[g]
          /\ ipa'[g] = ipa[g]
      BY <1>1, <1>3 DEF SocketInv, SocketTypeOK
    <2>2. WorkerKept(g)
      BY <1>1, <1>3, DeleteKeeps
    <2> QED
      BY <1>1, <2>1, <2>2 DEF SocketStream
  <1>4. pid[h] \in Pids /\ pid[h] # NoPid /\ pid'[h] = pid[h]
    BY <1>1 DEF SocketInv, OneWorker, ProcInv, ProcTypeOK, Delete
  <1>5. child'[pid[h]] \in {"zombie", "reaped"}
    <2>1. CASE child[pid[h]] = "alive"
      BY <1>1, <1>4, <2>1 DEF Delete, Dies, ProcInv, ProcTypeOK
    <2>2. CASE child[pid[h]] # "alive"
      <3>1. child' = child
        BY <1>1, <2>2 DEF Delete
      <3>2. child[pid[h]] # "none"
        BY <1>4 DEF ProcInv, PidsApart
      <3> QED
        BY <1>4, <2>2, <3>1, <3>2 DEF ProcInv, ProcTypeOK
    <2> QED
      BY <2>1, <2>2
  <1>6. ~peerBound'[h] /\ ipa'[h] = "null" /\ Gone(h)'
    BY <1>1, <1>4, <1>5 DEF SocketInv, SocketTypeOK, Gone
  <1> QED
    BY <1>1, <1>2, <1>3, <1>6, OneHandlerInv

(* send(), the two halves of it.                                           *)
LEMMA SenderInv ==
  ASSUME SocketInv, NEW h \in Handlers, Sender(h)
  PROVE  SocketInv'
  <1> USE DEF SocketInv, SocketTypeOK
  <1>0. UNCHANGED <<ipa, pid, child, peerBound, header, received>>
    BY DEF Sender, SendHeader, SendData, procVars
  <1>1. OneWorker'
    BY <1>0 DEF OneWorker
  <1>2. CASE SendHeader(h)
    <2> DEFINE m == last + 1
    <2>1. /\ m \in Messages /\ last' = m /\ sending[h] = NoMessage
          /\ queue' = [queue EXCEPT ![h] = Append(@, <<"header", m>>)]
          /\ sending' = [sending EXCEPT ![h] = m]
          /\ UNCHANGED <<sent, torn>>
      BY <1>2 DEF SendHeader, Messages
    <2>2. m \in 0 .. MaxMessages
      BY <2>1 DEF Messages
    <2> HIDE DEF m
    <2>3. <<"header", m>> \in Datagrams
      BY <2>1 DEF Datagrams
    <2>4. SocketTypeOK'
      BY <1>0, <2>1, <2>2, <2>3
    <2>5. ASSUME NEW g \in Handlers, SocketStream(g) PROVE SocketStream(g)'
      <3>1. CASE g = h
        <4>1. Stream(sent[h], NoMessage, queue[h], header[h], received[h])
          BY <2>1, <2>5, <3>1 DEF SocketStream
        <4>2. Stream(sent[h], m, Append(queue[h], <<"header", m>>), header[h],
                     received[h])
          BY <2>1, <4>1, StreamHeader
        <4> QED
          BY <1>0, <2>1, <3>1, <4>2 DEF SocketStream
      <3>2. CASE g # h
        BY <1>0, <2>1, <2>5, <3>2 DEF SocketStream
      <3> QED
        BY <3>1, <3>2
    <2>6. StreamsWhole'
      BY <1>0, <2>1, <2>5 DEF StreamsWhole, Gone
    <2> QED
      BY <1>1, <2>4, <2>6
  <1>3. CASE SendData(h) /\ Fits(h)
    <2> DEFINE m == sending[h]
    <2>1. /\ m \in Messages /\ sending' = [sending EXCEPT ![h] = NoMessage]
          /\ queue' = [queue EXCEPT ![h] = Append(@, <<"payload", m>>)]
          /\ sent' = [sent EXCEPT ![h] = Append(@, m)]
          /\ UNCHANGED <<last, torn>>
      BY <1>3 DEF SendData
    <2> HIDE DEF m
    <2>3. <<"payload", m>> \in Datagrams
      BY <2>1 DEF Datagrams
    <2>4. SocketTypeOK'
      BY <1>0, <2>1, <2>3
    <2>5. ASSUME NEW g \in Handlers, SocketStream(g) PROVE SocketStream(g)'
      <3>1. CASE g = h
        <4>1. Stream(sent[h], m, queue[h], header[h], received[h])
          BY <2>5, <3>1 DEF SocketStream, m
        <4>2. Stream(Append(sent[h], m), NoMessage,
                     Append(queue[h], <<"payload", m>>), header[h], received[h])
          BY <2>1, <4>1, StreamData
        <4> QED
          BY <1>0, <2>1, <3>1, <4>2 DEF SocketStream
      <3>2. CASE g # h
        BY <1>0, <2>1, <2>5, <3>2 DEF SocketStream
      <3> QED
        BY <3>1, <3>2
    <2>6. StreamsWhole'
      BY <1>0, <2>1, <2>5 DEF StreamsWhole, Gone
    <2> QED
      BY <1>1, <2>4, <2>6
  <1>4. CASE SendData(h) /\ ~Fits(h)
    <2>1. /\ sending' = [sending EXCEPT ![h] = NoMessage]
          /\ torn' = [torn EXCEPT ![h] = TRUE]
          /\ UNCHANGED <<queue, sent, last>>
      BY <1>4 DEF SendData
    <2>2. SocketTypeOK'
      BY <1>0, <2>1
    <2>3. StreamsWhole'
      BY <1>0, <2>1 DEF StreamsWhole, Gone, SocketStream
    <2> QED
      BY <1>1, <2>2, <2>3
  <1> QED
    BY <1>2, <1>3, <1>4 DEF Sender

(* dataNotifier() and receive(): a header is kept or read with its payload.*)
LEMMA ReceiverInv ==
  ASSUME SocketInv, NEW h \in Handlers, Receiver(h)
  PROVE  SocketInv'
  <1> USE DEF SocketInv, SocketTypeOK
  <1> DEFINE first == IF header[h] = NoMessage THEN Head(queue[h]) ELSE header[h]
             rest == IF header[h] = NoMessage THEN Tail(queue[h]) ELSE queue[h]
  <1>0. /\ UNCHANGED <<ipa, pid, child, peerBound, last, sending, sent, torn>>
        /\ queue[h] # <<>>
        /\ \/ /\ rest = <<>> /\ header' = [header EXCEPT ![h] = first]
              /\ queue' = [queue EXCEPT ![h] = rest]
              /\ UNCHANGED received
           \/ /\ rest # <<>> /\ header' = [header EXCEPT ![h] = NoMessage]
              /\ queue' = [queue EXCEPT ![h] = Tail(rest)]
              /\ received' = [received EXCEPT ![h] = Append(@, <<first, Head(rest)>>)]
    BY DEF Receiver, DataNotifier, HeaderExpected, HeaderAfterReceive, procVars
  <1>1. OneWorker'
    BY <1>0 DEF OneWorker
  <1>2. /\ queue[h] \in Seq(Datagrams) /\ sent[h] \in Seq(Messages)
        /\ sending[h] \in Messages \cup {NoMessage}
        /\ received[h] \in Seq(Datagrams \X Datagrams)
    OBVIOUS
  <1>3. first \in Datagrams /\ rest \in Seq(Datagrams)
    BY <1>0, <1>2, HeadTailProperties
  <1>4. rest # <<>> => Tail(rest) \in Seq(Datagrams) /\ Head(rest) \in Datagrams
    BY <1>3, HeadTailProperties
  <1>5. rest = <<>> => header[h] = NoMessage
    BY <1>0
  <1>6. CASE rest = <<>>
    <2>1. /\ header[h] = NoMessage /\ header' = [header EXCEPT ![h] = Head(queue[h])]
          /\ queue' = [queue EXCEPT ![h] = Tail(queue[h])]
          /\ UNCHANGED received
      BY <1>0, <1>5, <1>6
    <2>2. SocketTypeOK'
      BY <1>0, <1>3, <2>1
    <2>3. ASSUME NEW g \in Handlers, SocketStream(g) PROVE SocketStream(g)'
      <3>1. CASE g = h
        <4>1. Stream(sent[h], sending[h], Tail(queue[h]), Head(queue[h]), received[h])
          BY <1>0, <1>2, <2>1, <2>3, <3>1, StreamKeep DEF SocketStream
        <4> QED
          BY <1>0, <2>1, <3>1, <4>1 DEF SocketStream
      <3>2. CASE g # h
        BY <1>0, <2>1, <2>3, <3>2 DEF SocketStream
      <3> QED
        BY <3>1, <3>2
    <2>4. StreamsWhole'
      BY <1>0, <2>3 DEF StreamsWhole, Gone
    <2> QED
      BY <1>1, <2>2, <2>4
  <1>7. CASE rest # <<>>
    <2>1. /\ header' = [header EXCEPT ![h] = NoMessage]
          /\ queue' = [queue EXCEPT ![h] = Tail(rest)]
          /\ received' = [received EXCEPT ![h] = Append(@, <<first, Head(rest)>>)]
      BY <1>0, <1>7
    <2>2. <<first, Head(rest)>> \in Datagrams \X Datagrams
      BY <1>3, <1>4, <1>7
    <2>3. ASSUME SocketStream(h)
          PROVE  Stream(sent[h], sending[h], Tail(rest), NoMessage,
                        Append(received[h], <<first, Head(rest)>>))
      <3>1. CASE header[h] = NoMessage
        BY <1>0, <1>2, <1>7, <2>3, <3>1, StreamReceiveBoth DEF SocketStream
      <3>2. CASE header[h] # NoMessage
        BY <1>0, <1>2, <2>3, <3>2, StreamReceive DEF SocketStream
      <3> QED
        BY <3>1, <3>2
    <2> HIDE DEF first, rest
    <2>4. SocketTypeOK'
      BY <1>0, <1>4, <1>7, <2>1, <2>2
    <2>5. ASSUME NEW g \in Handlers, SocketStream(g) PROVE SocketStream(g)'
      <3>1. CASE g = h
        BY <1>0, <2>1, <2>3, <2>5, <3>1 DEF SocketStream
      <3>2. CASE g # h
        BY <1>0, <2>1, <2>5, <3>2 DEF SocketStream
      <3> QED
        BY <3>1, <3>2
    <2>6. StreamsWhole'
      BY <1>0, <2>5 DEF StreamsWhole, Gone
    <2> QED
      BY <1>1, <2>4, <2>6
  <1> QED
    BY <1>6, <1>7

-----------------------------------------------------------------------------
(***************************************************************************)
(* The lists of a wrapper.                                                 *)
(***************************************************************************)

(* A map that has a handle in this process is the one that the IPA's       *)
(* serializer has under that handle.                                       *)
HandlesAgree ==
    \A m \in Maps :
        handles[m] # 0 => /\ handles[m] \in DOMAIN infoMaps
                          /\ infoMaps[handles[m]] = m

(* The inductive invariant: ListsKeepTheirMap depends on what the last     *)
(* configure() left on the two sides.                                      *)
ContextInv ==
    /\ handles \in [Maps -> Nat]
    /\ infoMaps \in Seq(Maps)
    /\ HandlesAgree
    /\ ListsKeepTheirMap

(* Initially neither side knows an info map and no list was sent.          *)
LEMMA ContextInitInv == ContextInit => ContextInv
  BY DEF ContextInit, ContextInv, HandlesAgree, ListsKeepTheirMap

(* A list by itself is read with its map or with none.                     *)
LEMMA OneListRead ==
  ASSUME ContextInv, NEW queued, Len(queued) = 1, 1 \in DOMAIN queued,
         NEW known, known \in {infoMaps, <<>>},
         queued[1] \in Maps \cup {Global} \/ known = <<>>
  PROVE  Read(known, Written(queued[1])) \in {queued[1], NoMap}
  <1> DEFINE m == queued[1]
  <1>0. 0 \notin DOMAIN known /\ Zeros \notin DOMAIN known /\ Zeros # 0
    BY DEF ContextInv, Zeros
  <1>1. CASE m = Global
    <2>1. Written(m) = 0
      BY <1>1 DEF Written
    <2> QED
      BY <1>0, <1>1, <2>1 DEF Read
  <1>2. CASE m # Global /\ m \in Maps /\ handles[m] # 0
    <2>1. /\ Written(m) = handles[m] /\ handles[m] \in Nat
          /\ handles[m] \in DOMAIN infoMaps /\ infoMaps[handles[m]] = m
      BY <1>2 DEF Written, ContextInv, HandlesAgree
    <2>2. handles[m] # Zeros /\ handles[m] # 0
      BY <1>2, <2>1 DEF Zeros
    <2> QED
      BY <2>1, <2>2 DEF Read
  <1>3. CASE m # Global /\ ~(m \in Maps /\ handles[m] # 0)
    <2>1. Written(m) = Zeros
      BY <1>3 DEF Written
    <2> QED
      BY <1>0, <2>1 DEF Read
  <1> QED
    BY <1>1, <1>2, <1>3

(* The orders of a set of maps are sequences.                              *)
LEMMA SetToSeqsType ==
  ASSUME NEW S \in SUBSET Maps, NEW order \in SetToSeqs(S)
  PROVE  order \in Seq(Maps) /\ DOMAIN order \subseteq Nat
  <1>1. order \in [1 .. Cardinality(S) -> S]
    BY DEF SetToSeqs
  <1>2. Cardinality(S) \in Nat
    BY FS_Subset, FS_CardinalityType
  <1> QED
    BY <1>1, <1>2

(* configure() numbers the maps alike on both sides.                       *)
LEMMA ConfigureInv ==
  ASSUME ContextInv, ConfigureIPA
  PROVE  ContextInv'
  <1>1. PICK S \in SUBSET Maps : \E order \in SetToSeqs(S) :
            handles' = SerializeMaps(order) /\ infoMaps' = order
    BY DEF ConfigureIPA, ConfigureInterface, DeserializeMaps
  <1>2. PICK order \in SetToSeqs(S) :
            handles' = SerializeMaps(order) /\ infoMaps' = order
    BY <1>1
  <1>3. \A m \in Maps :
            handles'[m] = IF m \in ToSet(order)
                          THEN CHOOSE i \in DOMAIN order : order[i] = m
                          ELSE 0
    BY <1>2 DEF SerializeMaps, ResetHandles
  <1>4. ASSUME NEW m \in Maps, m \in ToSet(order)
        PROVE  handles'[m] \in DOMAIN order /\ order[handles'[m]] = m
    <2>1. \E i \in DOMAIN order : order[i] = m
      BY <1>4 DEF ToSet
    <2> QED
      BY <1>3, <1>4, <2>1
  <1>5. order \in Seq(Maps) /\ DOMAIN order \subseteq Nat
    BY SetToSeqsType
  <1>6. handles' \in [Maps -> Nat]
    <2>1. \A m \in Maps : handles'[m] \in Nat
      BY <1>3, <1>4, <1>5
    <2> QED
      BY <1>2, <2>1 DEF SerializeMaps
  <1>7. HandlesAgree'
    BY <1>2, <1>3, <1>4 DEF HandlesAgree
  <1>8. ListsKeepTheirMap'
    BY DEF ConfigureIPA, ContextInv, ListsKeepTheirMap
  <1> QED
    BY <1>2, <1>5, <1>6, <1>7, <1>8 DEF ContextInv

(* processEvent() and queueFrameAction().                                  *)
LEMMA EventInv ==
  ASSUME ContextInv, NEW known, known \in {infoMaps, <<>>},
         NEW from, from = Maps \cup {Global} \/ known = <<>>,
         NEW queued \in SomeLists(from), lists' = queued,
         arrived' = [i \in DOMAIN queued |->
                        IF Passed(queued)[i] = Garbage THEN Garbage
                        ELSE Read(known, Written(Passed(queued)[i]))],
         UNCHANGED <<handles, infoMaps>>
  PROVE  ContextInv'
  <1>1. PICK n \in 0 .. MaxLists : queued \in [1 .. n -> from]
    BY DEF SomeLists
  <1>2. ASSUME Len(arrived') = 1 PROVE arrived'[1] \in {queued[1], NoMap}
    <2>1. n \in Nat /\ DOMAIN arrived' = 1 .. n /\ DOMAIN queued = 1 .. n
      BY <1>1
    <2>2. n = 1 /\ Len(queued) = 1
      BY <1>2, <2>1, <1>1
    <2>3. 1 \in DOMAIN queued /\ queued[1] \in from
      BY <1>1, <2>2
    <2>4. Passed(queued)[1] = queued[1]
      BY <2>2, <2>3 DEF Passed, Last
    <2>5. Read(known, Written(queued[1])) \in {queued[1], NoMap}
      BY <2>2, <2>3, OneListRead
    <2> QED
      BY <2>3, <2>4, <2>5
  <1>3. ListsKeepTheirMap'
    BY <1>2 DEF ListsKeepTheirMap
  <1> QED
    BY <1>3 DEF ContextInv, HandlesAgree

(* Every call of the wrappers preserves the invariant.                     *)
LEMMA ContextStepInv ==
  ASSUME ContextInv, ContextStep
  PROVE  ContextInv'
  <1>1. ASSUME UNCHANGED <<handles, infoMaps, lists, arrived>> PROVE ContextInv'
    BY <1>1 DEF ContextInv, HandlesAgree, ListsKeepTheirMap
  <1>2. ASSUME NEW b \in SUBSET {1}, MapBuffers(b) \/ UnmapBuffers(b)
        PROVE  ContextInv'
    BY <1>1, <1>2 DEF MapBuffers, UnmapBuffers
  <1>3. ASSUME NEW queued \in SomeLists(Maps \cup {Global}), ProcessEvent(queued)
        PROVE  ContextInv'
    BY <1>3, EventInv DEF ProcessEvent, EventRead
  <1>4. ASSUME NEW queued \in SomeLists({Copy, Global}), QueueFrameAction(queued)
        PROVE  ContextInv'
    BY <1>4, EventInv DEF QueueFrameAction, FrameActionRead
  <1>5. CASE InitIPA
    BY <1>1, <1>5 DEF InitIPA
  <1>6. CASE ConfigureIPA
    BY <1>6, ConfigureInv
  <1> QED
    BY <1>2, <1>3, <1>4, <1>5, <1>6 DEF ContextStep

(* createIPA() and the destructor of the wrapper.                          *)
LEMMA WrapperLifeInv ==
  ASSUME ContextInv, NEW h \in Handlers,
         CreateIPAWrapped(h) \/ DestroyWrapper(h)
  PROVE  ContextInv'
  <1>1. CASE UNCHANGED <<handles, infoMaps, lists, arrived>>
    BY <1>1 DEF ContextInv, HandlesAgree, ListsKeepTheirMap
  <1>2. CASE /\ handles' = [m \in Maps |-> 0] /\ infoMaps' = <<>>
             /\ lists' = <<>> /\ arrived' = <<>>
    BY <1>2 DEF ContextInv, HandlesAgree, ListsKeepTheirMap
  <1> QED
    BY <1>1, <1>2 DEF CreateIPAWrapped, DestroyWrapper, CreateContext, contextVars

-----------------------------------------------------------------------------
(***************************************************************************)
(* The composition.                                                        *)
(***************************************************************************)

IPAInv == ProcInv /\ SocketInv /\ ContextInv

(* Every step of the composition keeps what is known of the processes.     *)
LEMMA ProcStep == ProcInv /\ [IPANext]_ipaVars => ProcInv'
  <1> SUFFICES ASSUME ProcInv, [IPANext]_ipaVars PROVE ProcInv'
    OBVIOUS
  <1>1. CASE UNCHANGED procVars
    BY <1>1 DEF procVars, ProcInv, ProcTypeOK, RunningListed, PidsApart,
                ForkedLives
  <1>2. ASSUME NEW h \in Handlers, CreateProxy(h) PROVE ProcInv'
    BY <1>2, ForkInv DEF CreateProxy
  <1>3. ASSUME NEW h \in Handlers, CreateProxyForkFails(h) \/ DestroyProxy(h)
        PROVE  ProcInv'
    BY <1>3, DeleteInv DEF CreateProxyForkFails, DestroyProxy
  <1>4. ASSUME NEW k \in Pids, WorkerExits(k) PROVE ProcInv'
    BY <1>4, ChildExitsInv DEF WorkerExits
  <1>5. ASSUME NEW o \in Others, ProcessCall(o) PROVE ProcInv'
    BY <1>5, ForkInv, DeleteInv DEF ProcessCall
  <1>6. CASE ManagerThread
    <2>1. ASSUME NEW p \in Procs, InstallHandler(p) PROVE ProcInv'
      BY <2>1 DEF InstallHandler, ProcInv, ProcTypeOK, RunningListed, PidsApart,
                  ForkedLives
    <2> QED
      BY <1>6, <2>1, RegisterInv DEF ManagerThread
  <1>7. CASE Reaper
    BY <1>7, WalkInv, SighandlerInv DEF Reaper
  <1>8. ASSUME NEW h \in Handlers,
               \/ CreateIPANoModule(h) \/ CreateIPAWrapped(h)
               \/ CreateProxyFails(h) \/ WorkerBinds(h) \/ DestroyWrapper(h)
               \/ Sender(h) \/ Receiver(h)
        PROVE  UNCHANGED procVars
    BY <1>8 DEF CreateIPANoModule, CreateIPAWrapped, CreateProxyFails,
                WorkerBinds, DestroyWrapper, Sender, Receiver
  <1>9. LoadModules \/ WrapperCall \/ UNCHANGED ipaVars => UNCHANGED procVars
    BY DEF LoadModules, WrapperCall, ipaVars
  <1> QED
    BY <1>1, <1>2, <1>3, <1>4, <1>5, <1>6, <1>7, <1>8, <1>9 DEF IPANext

(* Every step of the composition keeps what is known of the sockets.       *)
LEMMA SocketStep == ProcInv /\ ProcInv' /\ SocketInv /\ [IPANext]_ipaVars => SocketInv'
  <1> SUFFICES ASSUME ProcInv, ProcInv', SocketInv, [IPANext]_ipaVars PROVE SocketInv'
    OBVIOUS
  <1>1. ASSUME NEW h \in Handlers,
               \/ CreateIPANoModule(h) \/ CreateIPAWrapped(h)
               \/ CreateProxyFails(h) \/ DestroyWrapper(h)
        PROVE  SocketInv'
    <2>1. UNCHANGED <<procVars, socketVars>>
      BY <1>1 DEF CreateIPANoModule, CreateIPAWrapped, CreateProxyFails,
                  DestroyWrapper
    <2>2. \E r \in {"null", "direct", "wrapper"} : Returns(h, r)
      BY <1>1 DEF CreateIPANoModule, CreateIPAWrapped, CreateProxyFails,
                  DestroyWrapper
    <2> QED
      BY <2>1, <2>2, IdleInv
  <1>2. CASE LoadModules \/ WrapperCall \/ UNCHANGED ipaVars
    <2>1. UNCHANGED <<procVars, socketVars, ipa>>
      BY <1>2 DEF LoadModules, WrapperCall, ipaVars
    <2> QED
      BY <2>1, IdleInv
  <1> QED
    BY <1>1, <1>2, CreateProxyInv, ForkFailsInv, WorkerBindsInv, WorkerExitsInv,
       DestroyProxyInv, SenderInv, ReceiverInv, ProcessStepInv DEF IPANext

(* Every step of the composition keeps what is known of the wrappers.      *)
LEMMA WrapperStep == ContextInv /\ [IPANext]_ipaVars => ContextInv'
  <1> SUFFICES ASSUME ContextInv, [IPANext]_ipaVars PROVE ContextInv'
    OBVIOUS
  <1>1. CASE UNCHANGED contextVars
    BY <1>1 DEF contextVars, ContextInv, HandlesAgree, ListsKeepTheirMap
  <1>2. ASSUME NEW h \in Handlers,
               \/ CreateIPANoModule(h) \/ CreateProxy(h) \/ CreateProxyFails(h)
               \/ CreateProxyForkFails(h) \/ WorkerBinds(h) \/ DestroyProxy(h)
               \/ Sender(h) \/ Receiver(h)
        PROVE  UNCHANGED contextVars
    BY <1>2 DEF CreateIPANoModule, CreateProxy, CreateProxyFails,
                CreateProxyForkFails, WorkerBinds, DestroyProxy, Sender, Receiver
  <1>3. (\E k \in Pids : WorkerExits(k)) => UNCHANGED contextVars
    BY DEF WorkerExits
  <1>4. (\E o \in Others : ProcessCall(o)) => UNCHANGED contextVars
    BY DEF ProcessCall
  <1>5. \/ LoadModules \/ ManagerThread \/ Reaper \/ UNCHANGED ipaVars
        => UNCHANGED contextVars
    BY DEF LoadModules, ManagerThread, Reaper, ipaVars
  <1>6. CASE WrapperCall
    BY <1>6, ContextStepInv DEF WrapperCall
  <1> QED
    BY <1>1, <1>2, <1>3, <1>4, <1>5, <1>6, WrapperLifeInv DEF IPANext

(* The inductive invariant holds: the three components interact only       *)
(* through the children, whose end a socket and a Process both see.        *)
THEOREM IPAInvariance == IPASpec => []IPAInv
  <1>1. IPAInit => IPAInv
    BY ProcInitInv, SocketInitInv, ContextInitInv DEF IPAInit, IPAInv
  <1>2. IPAInv /\ [IPANext]_ipaVars => IPAInv'
    BY ProcStep, SocketStep, WrapperStep DEF IPAInv
  <1> QED
    BY <1>1, <1>2, PTL DEF IPASpec

(* processes_ holds the processes that run and no other, each once, and    *)
(* nobody has waited for their children before: for any number of          *)
(* processes, in whatever order they die, are deleted and are reported.    *)
THEOREM ProcessesListed == IPASpec => []RunningListed
  <1>1. IPAInv => RunningListed
    BY DEF IPAInv, ProcInv
  <1> QED
    BY <1>1, IPAInvariance, PTL

(* What a worker receives is what its proxy sent, whole and in order until *)
(* a message is torn, and a control list that is alone in its event is not *)
(* read with another info map.                                             *)
THEOREM InterfaceIsSound == IPASpec => []InterfaceSound
  <1>1. ASSUME IPAInv PROVE InterfaceSound
    <2>1. ASSUME NEW s \in Socks, ~torn[s] /\ peerBound[s]
          PROVE  /\ Len(received[s]) <= Len(sent[s])
                 /\ \A i \in DOMAIN received[s] :
                        received[s][i] = Whole(sent[s][i])
      <3>1. /\ sent[s] \in Seq(Messages) /\ queue[s] \in Seq(Datagrams)
            /\ received[s] \in Seq(Datagrams \X Datagrams)
            /\ sending[s] \in Messages \cup {NoMessage}
        BY <1>1 DEF IPAInv, SocketInv, SocketTypeOK
      <3>2. SocketStream(s)
        BY <1>1, <2>1 DEF IPAInv, SocketInv, OneWorker, StreamsWhole, Gone
      <3> QED
        BY <3>1, <3>2, StreamReceived DEF SocketStream
    <2>2. MessagesWhole
      BY <2>1 DEF MessagesWhole
    <2>3. ListsKeepTheirMap
      BY <1>1 DEF IPAInv, ContextInv
    <2> QED
      BY <2>2, <2>3 DEF InterfaceSound
  <1> QED
    BY <1>1, IPAInvariance, PTL
=============================================================================
