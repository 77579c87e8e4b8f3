----------------------------- MODULE IPAContext -----------------------------
(***************************************************************************)
(* The two wrappers through which a pipeline handler talks to an IPA in C: *)
(* IPAContextWrapper (ipa_context_wrapper.cpp) on the side of the pipeline *)
(* handler and IPAInterfaceWrapper (ipa_interface_wrapper.cpp) on the side *)
(* of the IPA, each with a ControlSerializer (control_serializer.cpp).     *)
(*                                                                         *)
(* configure() sends control info maps and gives each of them a handle.    *)
(* A control list that belongs to a map is sent with the map's handle, one *)
(* that belongs to none with handle 0, and is read with the map that has   *)
(* the handle on the other side.  A list is modelled by the map it belongs *)
(* to, what is sent of it by the handle in its header.                     *)
(***************************************************************************)
EXTENDS Integers, Sequences, SequencesExt

CONSTANTS
    Maps,           \* the control info maps of the pipeline handler
    MaxLists,       \* bound: the lists of one event
    Global,         \* the map of libcamera's own controls
    NoMap           \* the list came out empty

VARIABLES
    cStage,     \* "absent", "created", "initialised" or "configured"
    handles,    \* infoMapHandles_ of the pipeline handler's serializer, or 0
    infoMaps,   \* infoMaps_ of the IPA's serializer, in the order of handles
    lists,      \* the lists of the last event
    arrived,    \* the lists the other side made of them
    mapped      \* the buffers mapped in the IPA

contextVars == <<cStage, handles, infoMaps, lists, arrived, mapped>>

ContextInit ==
    /\ cStage = "absent"
    /\ handles = [m \in Maps |-> 0]
    /\ infoMaps = <<>>
    /\ lists = <<>> /\ arrived = <<>>
    /\ mapped = {}

(* The constructors: the callbacks are registered.                         *)
CreateContext ==
    /\ cStage' = "created"
    /\ UNCHANGED <<handles, infoMaps, lists, arrived, mapped>>

InitIPA ==
    /\ cStage = "created"
    /\ cStage' = "initialised"
    /\ UNCHANGED <<handles, infoMaps, lists, arrived, mapped>>

(* Mistake: reset() leaves the associations of the maps.                   *)
KeepHandles == handles

(* ControlSerializer::reset()                                              *)
ResetHandles == [m \in Maps |-> 0]

(* serialize() of the maps in the order of their entities: ++serial_.      *)
SerializeMaps(order) ==
    [m \in Maps |-> IF m \in ToSet(order)
                    THEN CHOOSE i \in DOMAIN order : order[i] = m
                    ELSE ResetHandles[m]]

(* deserialize<ControlInfoMap>() enters each map under the handle of its   *)
(* header.                                                                 *)
DeserializeMaps(order) == order

(* IPAInterfaceWrapper::configure(), after a reset() of its own.           *)
ConfigureInterface(order) == infoMaps' = DeserializeMaps(order)

(* IPAContextWrapper::configure()                                          *)
ConfigureIPA ==
    /\ cStage \in {"initialised", "configured"}
    /\ \E S \in SUBSET Maps : \E order \in SetToSeqs(S) :
        /\ handles' = SerializeMaps(order)
        /\ ConfigureInterface(order)
    /\ cStage' = "configured"
    /\ UNCHANGED <<lists, arrived, mapped>>

(* mapBuffers() and unmapBuffers() hand the buffers on by number.          *)
MapBuffers(buffers) ==
    /\ cStage = "configured"
    /\ mapped' = mapped \cup buffers
    /\ UNCHANGED <<cStage, handles, infoMaps, lists, arrived>>

UnmapBuffers(buffers) ==
    /\ cStage = "configured"
    /\ mapped' = mapped \ buffers
    /\ UNCHANGED <<cStage, handles, infoMaps, lists, arrived>>

-----------------------------------------------------------------------------

(* serialize(ControlList) fails for a map without a handle; the wrappers   *)
(* do not look at its result and the buffer keeps its zeros.               *)
Zeros == -1

Written(m) ==
    CASE m = Global -> 0
      [] m \in Maps -> IF handles[m] # 0 THEN handles[m] ELSE Zeros
      [] OTHER -> Zeros

(* deserialize<ControlList>(): zeros have no version, and an unknown       *)
(* handle no map.                                                          *)
Read(known, h) ==
    CASE h = Zeros -> NoMap
      [] h = 0 -> Global
      [] h \in DOMAIN known -> known[h]
      [] OTHER -> NoMap

(* What the array of ipa_control_list holds when every list was written to *)
(* its first element: the last list, and elements that were not set.       *)
Garbage == "garbage"

Passed(queued) ==
    [i \in DOMAIN queued |-> IF i = 1 THEN Last(queued) ELSE Garbage]

(* IPAInterfaceWrapper::process_event() reads the lists.                   *)
EventRead(queued) ==
    arrived' = [i \in DOMAIN queued |->
                   IF Passed(queued)[i] = Garbage THEN Garbage
                   ELSE Read(infoMaps, Written(Passed(queued)[i]))]

(* IPAContextWrapper::processEvent()                                       *)
ProcessEvent(queued) ==
    /\ cStage = "configured"
    /\ lists' = queued
    /\ EventRead(queued)
    /\ UNCHANGED <<cStage, handles, infoMaps, mapped>>

(* What the IPA builds its lists from: libcamera's controls, or a copy of  *)
(* a map it was configured with, which its serializer does not know: the   *)
(* maps passed to configure() are copies of those the serializer keeps.    *)
Copy == "copy"

(* IPAContextWrapper::queue_frame_action() searches its own handles, among *)
(* which a list of the IPA never has one.                                  *)
FrameActionRead(queued) ==
    arrived' = [i \in DOMAIN queued |->
                   IF Passed(queued)[i] = Garbage THEN Garbage
                   ELSE Read(<<>>, Written(Passed(queued)[i]))]

(* IPAInterfaceWrapper::queueFrameAction()                                 *)
QueueFrameAction(queued) ==
    /\ cStage = "configured"
    /\ lists' = queued
    /\ FrameActionRead(queued)
    /\ UNCHANGED <<cStage, handles, infoMaps, mapped>>

SomeLists(from) == UNION {[1 .. n -> from] : n \in 0 .. MaxLists}

ContextStep ==
    \/ InitIPA \/ ConfigureIPA
    \/ \E b \in SUBSET {1} : MapBuffers(b) \/ UnmapBuffers(b)
    \/ \E queued \in SomeLists(Maps \cup {Global}) : ProcessEvent(queued)
    \/ \E queued \in SomeLists({Copy, Global}) : QueueFrameAction(queued)

-----------------------------------------------------------------------------
(***************************************************************************)
(* Properties.                                                             *)
(***************************************************************************)

(* A list that is alone in its event is never read with another map than   *)
(* its own, however often and with whatever maps configure() was called:   *)
(* handles are reused by every configuration.                              *)
ListsKeepTheirMap ==
    Len(arrived) = 1 => arrived[1] \in {lists[1], NoMap}
=============================================================================
