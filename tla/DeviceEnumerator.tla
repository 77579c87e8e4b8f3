-------------------------- MODULE DeviceEnumerator --------------------------
(***************************************************************************)
(* DeviceEnumeratorUdev (device_enumerator_udev.cpp) and its base class.   *)
(* A media device is announced by one udev event, the nodes its entities   *)
(* need by events of their own.  The enumerator lists a media device once  *)
(* it knows all of its nodes, in whatever order they are announced: a node *)
(* that comes first is an orphan, a media device that comes first waits in *)
(* pending_, where devMap_ finds it by the device number of each node.     *)
(*                                                                         *)
(* Devices come and go at any time.  The events of one device arrive in    *)
(* order, those of different devices do not.  What is there before         *)
(* enumerate() is found by its scan; what comes between the scan and       *)
(* udev_monitor_enable_receiving() is not announced.                       *)
(*                                                                         *)
(* A media device that is plugged in twice makes two MediaDevice objects.  *)
(* The entries of pending_ are named by their object; devMap_ holds        *)
(* pointers to them, and nothing clears it.                                *)
(***************************************************************************)
EXTENDS FiniteSets, Naturals, Sequences, SequencesExt

CONSTANTS
    Media,          \* media devices
    Topology,       \* what the kernel reports for each of them
    Inaccessible,   \* the nodes that access() refuses
    MaxPlugs,       \* bound: how often a device is plugged in
    MaxTotal,       \* bound: how often devices are plugged in altogether
    NoObject

-----------------------------------------------------------------------------
(***************************************************************************)
(* MediaDevice::populate() (media_device.cpp): what the topology that the  *)
(* kernel reports for a media device becomes.  A topology has              *)
(*   entities    their ids,                                                *)
(*   interfaces  records of an id and of the device number of the node,    *)
(*   pads        records of an id and of the id of the entity,             *)
(*   links       records of an id, a source, a sink and whether it is an   *)
(*               interface link (from an interface to an entity) or joins  *)
(*               two pads.                                                 *)
(* The topology does not change while it is read.                          *)
(***************************************************************************)

PadLinks(t) == {l \in t.links : ~l.interface}

(* addObject() refuses an id that is in use: the ids of entities, pads and *)
(* links between pads share one table.                                     *)
ObjectIds(t) ==
    t.entities \cup {p.id : p \in t.pads} \cup {l.id : l \in PadLinks(t)}

IdsUnique(t) ==
    Cardinality(ObjectIds(t)) =
        Cardinality(t.entities) + Cardinality(t.pads)
                                + Cardinality(PadLinks(t))

(* populatePads(): a pad belongs to an entity that was populated.          *)
PopulatePads(t) == \A p \in t.pads : p.entity \in t.entities

(* populateLinks(): a link joins two pads that were populated.             *)
PopulateLinks(t) ==
    \A l \in PadLinks(t) : {l.source, l.sink} \subseteq {p.id : p \in t.pads}

(* populate()                                                              *)
Valid(t) == IdsUnique(t) /\ PopulatePads(t) /\ PopulateLinks(t)

(* findInterface(): the device numbers of an entity, at most one.          *)
Interface(t, e) ==
    {i.devnum : i \in {j \in t.interfaces :
        \E l \in t.links : l.interface /\ l.sink = e /\ l.source = j.id}}

(* The nodes that the entities of the media device need.                   *)
DeviceNumbers(t) == UNION {Interface(t, e) : e \in t.entities}

-----------------------------------------------------------------------------
(***************************************************************************)
(* The state of the enumerator.                                            *)
(***************************************************************************)

Nodes == UNION {{i.devnum : i \in Topology[m].interfaces} : m \in Media}

UdevDevices == Media \cup Nodes

Objects == Media \X (1 .. MaxPlugs)

ASSUME EnumeratorAssumption ==
    /\ MaxPlugs \in Nat \ {0} /\ MaxTotal \in Nat
    /\ Inaccessible \subseteq Nodes
    /\ Media \cap Nodes = {}
    /\ NoObject \notin Objects

NodesOf(m) == DeviceNumbers(Topology[m])

VARIABLES
    stage,      \* "created", "scan", "monitor" or "failed"
    scan,       \* what the loop of enumerate() has not visited
    present,    \* the devices that exist
    plugs,      \* how often each was plugged in
    events,     \* the events of each device that were not received yet
    missed,     \* the devices that came while nobody listened
    orphans,    \* orphans_
    pending,    \* pending_: the unmet dependencies, none if not listed
    devMap,     \* devMap_
    resolved,   \* the nodes known to the entities of each object
    devices,    \* devices_
    created,    \* how many objects each media device has made
    dangling    \* addV4L2Device() used an entry that was deleted

tableVars == <<orphans, pending, devMap, resolved, devices, created, dangling>>
worldVars == <<present, plugs, events, missed>>
enumeratorVars == <<stage, scan, worldVars, tableVars>>

EnumeratorTypeOK ==
    /\ stage \in {"created", "scan", "monitor", "failed"}
    /\ scan \subseteq UdevDevices
    /\ present \subseteq UdevDevices
    /\ plugs \in [UdevDevices -> 0 .. MaxPlugs]
    /\ events \in [UdevDevices -> Seq({"add", "remove"})]
    /\ missed \subseteq UdevDevices
    /\ orphans \subseteq Nodes
    /\ pending \in [Objects -> SUBSET Nodes]
    /\ devMap \in [Nodes -> Objects \cup {NoObject}]
    /\ resolved \in [Objects -> SUBSET Nodes]
    /\ devices \in Seq(Objects)
    /\ created \in [Media -> 0 .. MaxPlugs]
    /\ dangling \in BOOLEAN

EnumeratorInit ==
    /\ stage = "created"
    /\ scan = {}
    /\ present = {} /\ missed = {}
    /\ plugs = [d \in UdevDevices |-> 0]
    /\ events = [d \in UdevDevices |-> <<>>]
    /\ orphans = {}
    /\ pending = [o \in Objects |-> {}]
    /\ devMap = [n \in Nodes |-> NoObject]
    /\ resolved = [o \in Objects |-> {}]
    /\ devices = <<>>
    /\ created = [m \in Media |-> 0]
    /\ dangling = FALSE

-----------------------------------------------------------------------------
(***************************************************************************)
(* The kernel and udev.                                                    *)
(***************************************************************************)

Announce(d, action) ==
    events' = IF stage = "monitor" THEN [events EXCEPT ![d] = Append(@, action)]
                                   ELSE events

PlugDevice(d) ==
    /\ d \notin present
    /\ plugs[d] < MaxPlugs
    /\ SumFunction(plugs) < MaxTotal
    /\ present' = present \cup {d}
    /\ plugs' = [plugs EXCEPT ![d] = @ + 1]
    /\ Announce(d, "add")
    /\ missed' = IF stage = "scan" THEN missed \cup {d} ELSE missed \ {d}
    /\ UNCHANGED <<stage, scan, tableVars>>

(* A media device disappears after its nodes.                              *)
UnplugDevice(d) ==
    /\ d \in present
    /\ d \in Media => NodesOf(d) \cap present = {}
    /\ present' = present \ {d}
    /\ Announce(d, "remove")
    /\ missed' = IF stage = "scan" THEN missed \cup {d} ELSE missed
    /\ UNCHANGED <<stage, scan, plugs, tableVars>>

-----------------------------------------------------------------------------
(***************************************************************************)
(* DeviceEnumerator.                                                       *)
(***************************************************************************)

(* createDevice(): the device can be opened and its topology makes sense.  *)
CanCreate(m) == m \in present /\ Valid(Topology[m])

(* lookupDeviceNode() and MediaEntity::setDeviceNode().                    *)
CanSet(n) == n \in present /\ n \notin Inaccessible

AddDevice(o) == devices' = Append(devices, o)

(* The first listed object of a media device, 0 if there is none.          *)
Listed(m) == SelectInSeq(devices, LAMBDA o : o[1] = m)

(* removeDevice()                                                          *)
RemoveDevice(m) ==
    /\ devices' = IF Listed(m) > 0 THEN RemoveAt(devices, Listed(m)) ELSE devices
    /\ UNCHANGED <<orphans, pending, devMap, resolved, created, dangling>>

-----------------------------------------------------------------------------
(***************************************************************************)
(* DeviceEnumeratorUdev.                                                   *)
(***************************************************************************)

(* Mistake: the unmet dependencies are not entered in devMap_.             *)
DevMapUnchanged(o, deps) == devMap

DevMapWith(o, deps) == [n \in Nodes |-> IF n \in deps THEN o ELSE devMap[n]]

(* populateMediaDevice(), and addDevice() if no dependency is unmet.  The  *)
(* object is forgotten when a node that is known cannot be set.            *)
PopulateMediaDevice(o) ==
    LET nodes == NodesOf(o[1])
        deps == nodes \ orphans
    IN  \/ /\ \A n \in nodes \cap orphans : CanSet(n)
           /\ orphans' = orphans \ nodes
           /\ resolved' = [resolved EXCEPT ![o] = nodes \cap orphans]
           /\ pending' = [pending EXCEPT ![o] = deps]
           /\ devMap' = DevMapWith(o, deps)
           /\ IF deps = {} THEN AddDevice(o) ELSE UNCHANGED devices
        \/ /\ \E n \in nodes \cap orphans : ~CanSet(n)
           /\ UNCHANGED <<orphans, resolved, pending, devMap, devices>>

AddMedia(m) ==
    /\ created' = [created EXCEPT ![m] = @ + 1]
    /\ PopulateMediaDevice(<<m, created'[m]>>)
    /\ UNCHANGED dangling

(* Mistake: a media device is listed with the first node that arrives.     *)
MetByOne(o, n) == TRUE

LastDependency(o, n) == pending[o] = {n}

(* addV4L2Device()                                                         *)
AddOrphan(n) ==
    /\ devMap[n] = NoObject
    /\ orphans' = orphans \cup {n}
    /\ UNCHANGED <<pending, devMap, resolved, devices, created, dangling>>

MeetDependency(n) ==
    LET o == devMap[n] IN
    /\ o # NoObject
    /\ pending[o] # {}
    /\ CanSet(n)
    /\ resolved' = [resolved EXCEPT ![o] = @ \cup {n}]
    /\ pending' = [pending EXCEPT ![o] = IF LastDependency(o, n) THEN {}
                                                                ELSE @ \ {n}]
    /\ IF LastDependency(o, n) THEN AddDevice(o) ELSE UNCHANGED devices
    /\ UNCHANGED <<orphans, devMap, created, dangling>>

(* The entry that devMap_ points to was deleted.                           *)
UseDeleted(n) ==
    LET o == devMap[n] IN
    /\ o # NoObject
    /\ pending[o] = {}
    /\ CanSet(n)
    /\ dangling' = TRUE
    /\ UNCHANGED <<orphans, pending, devMap, resolved, devices, created>>

AddV4L2Device(n) ==
    \/ AddOrphan(n)
    \/ MeetDependency(n)
    \/ UseDeleted(n)
    \/ devMap[n] # NoObject /\ ~CanSet(n) /\ UNCHANGED tableVars

(* addUdevDevice() that succeeds.                                          *)
AddUdevDevice(d) ==
    \/ d \in Media /\ CanCreate(d) /\ AddMedia(d)
    \/ d \in Nodes /\ AddV4L2Device(d)

(* enumerate(): the list of the devices there are, in an order of udev's.  *)
Enumerate ==
    /\ stage = "created"
    /\ stage' = "scan"
    /\ scan' = present
    /\ UNCHANGED <<worldVars, tableVars>>

(* One turn of the loop.  A device that has gone is skipped; a media       *)
(* device that cannot be created, as it has a broken topology or goes in   *)
(* this moment, ends the enumeration with an error.                        *)
ScanDevice(d) ==
    /\ stage = "scan" /\ ~dangling
    /\ d \in scan
    /\ scan' = scan \ {d}
    /\ \/ d \notin present /\ UNCHANGED <<stage, tableVars>>
       \/ d \in present /\ AddUdevDevice(d) /\ UNCHANGED stage
       \/ /\ d \in Media /\ ~CanCreate(d)
          /\ stage' = "failed"
          /\ UNCHANGED tableVars
    /\ UNCHANGED worldVars

(* udev_monitor_enable_receiving(), and the notifier is created.           *)
EnableReceiving ==
    /\ stage = "scan" /\ scan = {} /\ ~dangling
    /\ stage' = "monitor"
    /\ UNCHANGED <<scan, worldVars, tableVars>>

(* The removal of a node is ignored.                                       *)
HandleRemove(d) ==
    IF d \in Media THEN RemoveDevice(d) ELSE UNCHANGED tableVars

(* udevNotify()                                                            *)
UdevNotify(d) ==
    /\ stage = "monitor" /\ ~dangling
    /\ events[d] # <<>>
    /\ events' = [events EXCEPT ![d] = Tail(@)]
    /\ \/ Head(events[d]) = "add" /\ AddUdevDevice(d)
       \/ /\ Head(events[d]) = "add" /\ d \in Media /\ ~CanCreate(d)
          /\ UNCHANGED tableVars
       \/ Head(events[d]) = "remove" /\ HandleRemove(d)
    /\ UNCHANGED <<stage, scan, present, plugs, missed>>

-----------------------------------------------------------------------------

EnumeratorNext ==
    \/ \E d \in UdevDevices :
          PlugDevice(d) \/ UnplugDevice(d) \/ ScanDevice(d) \/ UdevNotify(d)
    \/ Enumerate \/ EnableReceiving

EnumeratorSpec == EnumeratorInit /\ [][EnumeratorNext]_enumeratorVars

-----------------------------------------------------------------------------
(***************************************************************************)
(* Properties.                                                             *)
(***************************************************************************)

ListedObjects == ToSet(devices)

(* A device that is listed has a node for each entity that needs one, is   *)
(* listed once and no longer waits.                                        *)
ListedComplete ==
    /\ IsInjective(devices)
    /\ \A o \in ListedObjects : resolved[o] = NodesOf(o[1]) /\ pending[o] = {}

(* A deleted entry is used only when a node comes for a second time.       *)
DanglingOnlyByReplug == dangling => \E n \in Nodes : plugs[n] > 1

(* What the enumerator lists can be used, and its tables are sound.        *)
EnumeratorSound == EnumeratorTypeOK /\ ListedComplete /\ DanglingOnlyByReplug

(* "Individual media devices that can't be properly enumerated shall be    *)
(* skipped with a warning message logged, without returning an error"      *)
(* (DeviceEnumerator::enumerate).                                          *)
BadDevicesSkipped == stage # "failed"

(* The media device is there with all of its nodes, each plugged in for    *)
(* the first time, and can be used.                                        *)
Complete(m) ==
    /\ stage # "created"
    /\ Valid(Topology[m])
    /\ \A d \in {m} \cup NodesOf(m) : d \in present /\ plugs[d] = 1
    /\ ({m} \cup NodesOf(m)) \cap (missed \cup Inaccessible) = {}

(* enumerate() has failed, because of another media device that has a      *)
(* broken topology or has been unplugged.                                  *)
FailedByOther(m) ==
    /\ stage = "failed"
    /\ \E e \in Media \ {m} :
          plugs[e] > 0 /\ (Valid(Topology[e]) => e \notin present \/ plugs[e] > 1)

(* A media device that is complete is listed if it stays, whatever the     *)
(* order in which the scan and the events announce it and its nodes; the   *)
(* one exception is that another media device has made the whole           *)
(* enumeration fail.                                                       *)
DevicesListed ==
    \A m \in Media :
        Complete(m) ~> (\/ Listed(m) > 0 \/ ~Complete(m)
                        \/ dangling \/ FailedByOther(m))
=============================================================================
