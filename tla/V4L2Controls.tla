---------------------------- MODULE V4L2Controls ----------------------------
(***************************************************************************)
(* The controls of a V4L2 device (v4l2_device.cpp, controls.cpp,           *)
(* v4l2_controls.cpp), and how the UVC pipeline handler takes the controls *)
(* of a request to it (pipeline/uvcvideo.cpp, camera_controls.cpp).        *)
(*                                                                         *)
(* The kernel is external: S_EXT_CTRLS and G_EXT_CTRLS go through the      *)
(* controls in the order of the list, which is that of an unordered map.   *)
(* Either they are refused as a whole (error_idx is their number), or the  *)
(* control at error_idx fails and those before it are done.  A value out   *)
(* of range is changed to one that is not.  Every control is an integer.   *)
(***************************************************************************)
EXTENDS Integers, Sequences, FiniteSets, SequencesExt

CONSTANTS
    ControlDevices, \* the controls of a device, for several devices
    CameraIds,      \* the controls that a request may have
    ControlValues,  \* values that an application may ask for
    ControlLimit    \* the largest value of a control

ASSUME ControlsAssumption ==
    /\ \A ids \in ControlDevices : IsFiniteSet(ids)
    /\ ControlValues \subseteq Int /\ ControlLimit \in Nat \ {0}

VARIABLES
    supported,      \* V4L2Device::controls_ of the device
    current,        \* the values in the device
    wanted,         \* Request::controls(): a function of some CameraIds
    call            \* the setControls() or getControls() that has returned

controlVars == <<supported, current, wanted, call>>

NoCall == [ids |-> <<>>, sent |-> <<>>, values |-> <<>>, ret |-> 0,
           before |-> <<>>, writes |-> FALSE, wanted |-> <<>>]

ControlsInit ==
    /\ supported \in ControlDevices
    /\ current = [id \in supported |-> 0]
    /\ wanted = <<>>
    /\ call = NoCall

-----------------------------------------------------------------------------
(***************************************************************************)
(* The controls of the camera.                                             *)
(***************************************************************************)

MainId ==
    [Brightness |-> "BRIGHTNESS", Contrast |-> "CONTRAST",
     Saturation |-> "SATURATION", ManualExposure |-> "EXPOSURE_ABSOLUTE",
     ManualGain |-> "GAIN"]

ASSUME CameraIdsAssumption == CameraIds \subseteq DOMAIN MainId

(* UVCCameraData::init(): controlInfo_ has a control of the camera where   *)
(* the device has the one it stands for.                                   *)
ControlInfo == {c \in CameraIds : MainId[c] \in supported}

(* ControlList::set() with the CameraControlValidator of a request         *)
SetRequestControl(c, value) ==
    /\ wanted' = IF c \in ControlInfo
                   THEN [d \in DOMAIN wanted \cup {c} |->
                            IF d = c THEN value ELSE wanted[d]]
                   ELSE wanted
    /\ call' = NoCall
    /\ UNCHANGED <<supported, current>>

(* The list that PipelineHandlerUVC::processControls() makes of it: manual *)
(* exposure also turns the automatic one off.                              *)
ListIds(list) ==
    {MainId[c] : c \in DOMAIN list}
        \cup (IF "ManualExposure" \in DOMAIN list THEN {"EXPOSURE_AUTO"}
                                                  ELSE {})

ListValue(list, id) ==
    IF id = "EXPOSURE_AUTO" THEN 1
    ELSE list[CHOOSE c \in DOMAIN list : MainId[c] = id]

-----------------------------------------------------------------------------
(***************************************************************************)
(* V4L2Device::setControls() and getControls().                            *)
(***************************************************************************)

Orders(ids) == {s \in [1 .. Cardinality(ids) -> ids] : IsInjective(s)}

InLimit(v) == IF v > ControlLimit THEN ControlLimit ELSE v

(* The number of controls the kernel has gone through.                     *)
Reached(errorIdx, count) == IF errorIdx < count THEN errorIdx ELSE 0

(* What is returned for an error; -22 is -EINVAL.                          *)
Result(errorIdx, count) ==
    IF errorIdx = 0 \/ errorIdx >= count THEN -22 ELSE errorIdx

(* Mistake: the list is updated as if every control had been written.      *)
AllUpdated(errorIdx, count) == count

(* The number of values that updateControls() writes back to the list.     *)
Updated(errorIdx, count) ==
    IF Result(errorIdx, count) < 0 THEN 0 ELSE errorIdx - 1

(* The call with a list whose controls are in the order ids and have the   *)
(* values sent.  errorIdx is -1 when the ioctl succeeds.                   *)
Known(ids) == ToSet(ids) \subseteq supported

Transfer(ids, sent, writes, errorIdx) ==
    LET count == Len(ids)
        refused == ~Known(ids)
        reached == IF refused THEN 0
                   ELSE IF errorIdx < 0 THEN count ELSE Reached(errorIdx, count)
        updated == IF refused THEN 0
                   ELSE IF errorIdx < 0 THEN count ELSE Updated(errorIdx, count)
        written == {i \in 1 .. reached : writes}
    IN  /\ current' = [id \in supported |->
                          IF \E i \in written : ids[i] = id
                            THEN InLimit(sent[CHOOSE i \in written :
                                                  ids[i] = id])
                            ELSE current[id]]
        /\ call' = [ids |-> ids, sent |-> sent, writes |-> writes,
                    values |-> [i \in 1 .. count |->
                                   IF i > updated THEN sent[i]
                                   ELSE IF i <= reached THEN current'[ids[i]]
                                   ELSE IF writes THEN sent[i] ELSE 0],
                    ret |-> IF refused THEN -22
                            ELSE IF errorIdx < 0 THEN 0
                            ELSE Result(errorIdx, count),
                    before |-> current,
                    wanted |-> wanted]

(* PipelineHandlerUVC::queueRequestDevice(): the request is refused unless *)
(* setControls() returns 0.                                                *)
ProcessControls(ids, errorIdx) ==
    /\ Transfer(ids, [i \in DOMAIN ids |-> ListValue(wanted, ids[i])], TRUE,
                errorIdx)
    /\ wanted' = <<>>
    /\ UNCHANGED supported

(* What a list holds before it is read: no value of a control.             *)
Unread == -1

GetControls(ids, errorIdx) ==
    /\ Transfer(ids, [i \in DOMAIN ids |-> Unread], FALSE, errorIdx)
    /\ UNCHANGED <<supported, wanted>>

ControlsNext ==
    \/ \E c \in CameraIds, v \in ControlValues : SetRequestControl(c, v)
    \/ \E ids \in Orders(ListIds(wanted)) : \E e \in -1 .. Len(ids) :
         ids # <<>> /\ ProcessControls(ids, e)
    \/ \E ids \in Orders(supported) : \E e \in -1 .. Len(ids) :
         ids # <<>> /\ GetControls(ids, e)

-----------------------------------------------------------------------------
(***************************************************************************)
(* Properties.                                                             *)
(***************************************************************************)

(* How many controls of the list have been written or read, by the result: *)
(* an index counts from zero.                                              *)
Done ==
    IF call.ret = 0 THEN Len(call.ids) ELSE IF call.ret < 0 THEN 0 ELSE call.ret

(* "If an error occurs while writing the controls, the index of the first  *)
(* control that couldn't be written is returned" (V4L2Device::setControls):*)
(* the device has been given the controls below that index and no other,   *)
(* and -EINVAL means that nothing was done.  The list has the values of    *)
(* the device for those controls except the last, and is otherwise as it   *)
(* was: updateControls() is told one control less than were done.          *)
ResultMeansWhatItSays ==
    \A i \in DOMAIN call.ids :
        /\ i <= Done /\ call.writes =>
             current[call.ids[i]] = InLimit(call.sent[i])
        /\ i > Done /\ call.ids[i] \in supported =>
             current[call.ids[i]] = call.before[call.ids[i]]
        /\ call.values[i] = IF call.ret = 0 \/ i < call.ret
                              THEN current[call.ids[i]] ELSE call.sent[i]

(* A request whose controls were accepted has them in the device, manual   *)
(* exposure with the automatic one off.                                    *)
RequestControlsInEffect ==
    call.ret = 0 /\ call.writes =>
        \A c \in DOMAIN call.wanted :
            /\ current[MainId[c]] = InLimit(call.wanted[c])
            /\ c = "ManualExposure" => current["EXPOSURE_AUTO"] = 1

ControlsSound == ResultMeansWhatItSays /\ RequestControlsInEffect
=============================================================================
