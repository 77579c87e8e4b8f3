---------------------------- MODULE ExposureLoop ----------------------------
(***************************************************************************)
(* Automatic exposure of the RkISP1: IPARkISP1 (ipa/rkisp1/rkisp1.cpp)     *)
(* computes exposure time and gain from the statistics of a frame,         *)
(* RkISP1ActionSetSensor hands them to the sensor through the timeline,    *)
(* and the sensor uses them some frames later: a control loop with a dead  *)
(* time, closed by a scene that does not change.                           *)
(*                                                                         *)
(* The timeline schedules the action one frame before the one it is for,   *)
(* at a time estimated from the end of the last frame: it runs before the  *)
(* next frame ends.  The sensor exposes up to MaxLatency frames after that *)
(* one with its former settings.                                           *)
(***************************************************************************)
EXTENDS Integers, Sequences

CONSTANTS
    MinExposure, MaxExposure,   \* limits of the sensor's controls
    MinGain, MaxGain,
    MaxLatency,
    Scenes,     \* the exposure, at the least gain, that a scene asks for
    MaxSkips,   \* bound on frames without statistics
    MaxToggles  \* bound on changes of AeEnable

ASSUME LoopAssumption ==
    /\ {MinExposure, MinGain} \cup Scenes \subseteq Nat \ {0}
    /\ MinExposure <= MaxExposure /\ MinGain <= MaxGain /\ MaxLatency \in Nat

VARIABLES
    scene,
    turn,       \* frame % 3
    settings,   \* IPARkISP1's exposure_ and gain_
    sensor,     \* the settings of the next frames
    ae,         \* AeLocked of the last metadata: 0 (none), 1 (no) or 2 (yes)
    enabled,    \* statistics hold the means of the exposure
    crashed,    \* the division by zero was fatal
    skips, toggles

loopVars == <<scene, turn, settings, sensor, ae, enabled, crashed, skips, toggles>>

Target == 60
Lowest == <<MinExposure, MinGain>>
Highest == <<MaxExposure, MaxGain>>

(* IPARkISP1::configure(): the loop starts with the least exposure, which  *)
(* is on its way to the sensor; what the sensor uses until it arrives is   *)
(* left from an earlier session.                                           *)
LoopInit ==
    /\ scene \in Scenes
    /\ turn = 0
    /\ settings = Lowest
    /\ \E n \in 0 .. MaxLatency, old \in {Lowest, Highest} :
          sensor = [i \in 1 .. n |-> old] \o <<Lowest>>
    /\ ae = 0 /\ enabled = TRUE /\ crashed = FALSE
    /\ skips = 0 /\ toggles = 0

-----------------------------------------------------------------------------
(* What the ISP measures: the same mean in each part of a frame that was   *)
(* exposed with settings s, Target for the exposure that the scene asks.   *)
Mean(s) ==
    LET mean == (Target * s[1] * s[2]) \div (scene * MinGain) IN
    IF mean > 255 THEN 255 ELSE mean

(* The average that updateStatistics() takes of the means: a mean of at    *)
(* most 15 does not count.  Without one that does it divides by zero:      *)
(* fatal, or zero with the division instruction of the SoCs that have this *)
(* ISP.                                                                    *)
Dark(s) == Mean(s) <= 15

Average(s) == IF Dark(s) THEN 0 ELSE Mean(s)

Clamp(x, min, max) == IF x < min THEN min ELSE IF x > max THEN max ELSE x

(* The new settings for an average; a factor that is infinite asks for     *)
(* all that the sensor has.                                                *)
Corrected(value) ==
    LET exposure == Clamp((Target * settings[1] * settings[2]) \div (value * MinGain),
                          MinExposure, MaxExposure)
        gain == Clamp((Target * settings[1] * settings[2]) \div (value * exposure),
                      MinGain, MaxGain) IN
    IF value = 0 THEN Highest ELSE <<exposure, gain>>

(* fabs(factor - 1.0f) < 0.05f                                             *)
Locked(value) ==
    LET difference == 20 * (Target - value) IN
    value > 0 /\ difference < value /\ -difference < value

(* Mistake: the settings are corrected with the statistics of every frame. *)
UpdateAlways(t) == TRUE

(* Statistics show the effect of the last correction after three frames.   *)
UpdateDue(t) == t = 0

(* setControls() and RkISP1ActionSetSensor: the settings reach the sensor  *)
(* behind those of the frames to come.                                     *)
SetSensor(s) == sensor' = Append(Tail(sensor), s)

(* updateStatistics() and metadataReady() for the next frame.              *)
Statistics ==
    /\ ~crashed
    /\ turn' = (turn + 1) % 3
    /\ LET value == Average(Head(sensor)) IN
       IF ~enabled
       THEN ae' = 0 /\ UNCHANGED settings
       ELSE /\ settings' = IF UpdateDue(turn) THEN Corrected(value) ELSE settings
            /\ ae' = IF Locked(value) THEN 2 ELSE 1
    /\ SetSensor(settings')
    /\ UNCHANGED <<scene, enabled, crashed, skips, toggles>>

DivisionTraps ==
    /\ ~crashed /\ enabled /\ Dark(Head(sensor))
    /\ crashed' = TRUE
    /\ UNCHANGED <<scene, turn, settings, sensor, ae, enabled, skips, toggles>>

(* A frame that no request was queued for.                                 *)
SkipFrame ==
    /\ ~crashed /\ skips < MaxSkips
    /\ skips' = skips + 1
    /\ turn' = (turn + 1) % 3
    /\ SetSensor(settings)
    /\ UNCHANGED <<scene, settings, ae, enabled, crashed, toggles>>

(* IPARkISP1::queueRequest() with an AeEnable control                      *)
ToggleAe ==
    /\ ~crashed /\ toggles < MaxToggles
    /\ toggles' = toggles + 1
    /\ enabled' = ~enabled
    /\ UNCHANGED <<scene, turn, settings, sensor, ae, crashed, skips>>

LoopNext == Statistics \/ DivisionTraps \/ SkipFrame \/ ToggleAe

-----------------------------------------------------------------------------
(***************************************************************************)
(* Property.                                                               *)
(***************************************************************************)

(* The sensor uses the settings, which are as good as they get: the        *)
(* exposure of the scene, the limit of the sensor on the side of a scene   *)
(* too bright or too dark for it, or, where the exposure time is at its    *)
(* limit, the last step of the gain that does not exceed the target.       *)
(* AeLocked is true if and only if the mean is within 5% of the target.    *)
Settled ==
    LET value == Average(settings) IN
    /\ \A i \in DOMAIN sensor : sensor[i] = settings
    /\ ae = IF Locked(value) THEN 2 ELSE 1
    /\ \/ Locked(value)
       \/ settings = Highest /\ value < Target
       \/ settings = Lowest /\ value > Target
       \/ /\ settings[1] = MaxExposure
          /\ value < Target /\ Mean(<<settings[1], settings[2] + 1>>) >= Target

(* Whatever the scene is, however many frames up to MaxLatency the sensor  *)
(* takes, whatever it was set to, whichever frames are missed and however  *)
(* often the application switches it, automatic exposure that stays on     *)
(* settles: corrections every third frame do not overtake their own        *)
(* effect.  The process may die of the division by zero on its way.        *)
Settles == <>[]enabled => <>[](crashed \/ Settled)
=============================================================================
