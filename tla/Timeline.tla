------------------------------ MODULE Timeline ------------------------------
(***************************************************************************)
(* The timeline of the RkISP1 pipeline handler                             *)
(* (pipeline/rkisp1/timeline.cpp): frame actions are run at a time that is *)
(* computed from the starts of exposure seen so far, by one timer that is  *)
(* set for the earliest of them.  Time is counted in ticks; the timer      *)
(* expires through the event dispatcher, some time after its deadline.     *)
(***************************************************************************)
EXTENDS Integers, Sequences, FiniteSets

CONSTANTS
    HistoryDepth,   \* HISTORY_DEPTH
    FrameOffset,    \* the delay of each type of action, in frames,
    TimeOffset,     \* and in time
    LastTick,       \* bound on time
    MaxActions      \* bound on actions

VARIABLES
    tick,           \* the time
    history,        \* history_: frames and the start of their exposure
    interval,       \* frameInterval_
    pendingActions, \* actions_: an action is its number and its deadline
    alarm,          \* deadline of timer_, or NotRunning
    ran,            \* history: the actions that were run, and if too early
    made            \* actions so far

timelineVars == <<tick, history, interval, pendingActions, alarm, ran, made>>

NotRunning == -100

TimelineInit ==
    /\ tick = 0 /\ history = <<>> /\ interval = 0
    /\ pendingActions = {} /\ alarm = NotRunning
    /\ ran = {} /\ made = 0

First(A) == CHOOSE d \in {a.deadline : a \in A} : \A a \in A : d <= a.deadline

RunNow(A) == {[number |-> a.number, early |-> a.deadline > tick] : a \in A}

-----------------------------------------------------------------------------
(* notifyStartOfExposure(): the interval is the average over the history,  *)
(* once it is half full.                                                   *)
StartOfExposure(frame) ==
    LET all == Append(history, [frame |-> frame, time |-> tick - 1])
        kept == SubSeq(all, IF Len(all) > HistoryDepth
                            THEN Len(all) - HistoryDepth + 1 ELSE 1,
                       Len(all)) IN
    /\ frame <= LastTick
    /\ IF Len(all) <= HistoryDepth \div 2
       THEN history' = all /\ UNCHANGED interval
       ELSE /\ history' = kept
            /\ interval' = IF Len(kept) = 1 THEN 0
                           ELSE (kept[Len(kept)].time - kept[1].time)
                                    \div (Len(kept) - 1)
    /\ UNCHANGED <<tick, pendingActions, alarm, ran, made>>

(* The deadline of an action; without a history it counts from now.        *)
LastStart ==
    IF history = <<>> THEN [frame |-> 0, time |-> tick]
    ELSE history[Len(history)]

ActionDeadline(type, frame) ==
    LastStart.time + (frame - LastStart.frame + FrameOffset[type]) * interval
        + TimeOffset[type]

(* updateDeadline(), when no action is due: the timer is restarted for an  *)
(* earlier deadline only.                                                  *)
UpdateAlarm(rest, old) ==
    IF rest # {} /\ (old = NotRunning \/ First(rest) < old)
    THEN First(rest) ELSE old

(* timeout(): all that is due is run, and the timer set for the rest.      *)
RunDue(actions, old) ==
    LET due == {a \in actions : a.deadline <= tick} IN
    /\ ran' = ran \cup RunNow(due)
    /\ pendingActions' = actions \ due
    /\ alarm' = UpdateAlarm(actions \ due, old)

(* scheduleAction(): an action whose time has passed is run at once, and   *)
(* one whose time is now with all that is due, unless the timer is about   *)
(* to expire anyway.                                                       *)
ScheduleAction(type, frame) ==
    LET a == [number |-> made, deadline |-> ActionDeadline(type, frame)]
        actions == pendingActions \cup {a} IN
    /\ made < MaxActions
    /\ made' = made + 1
    /\ IF a.deadline < tick
       THEN ran' = ran \cup RunNow({a}) /\ UNCHANGED <<pendingActions, alarm>>
       ELSE IF alarm # NotRunning /\ First(actions) >= alarm
       THEN pendingActions' = actions /\ UNCHANGED <<ran, alarm>>
       ELSE RunDue(actions, alarm)
    /\ UNCHANGED <<tick, history, interval>>

(* The event dispatcher stops the timer and emits its signal.              *)
AlarmExpires ==
    /\ alarm # NotRunning /\ alarm <= tick
    /\ RunDue(pendingActions, NotRunning)
    /\ UNCHANGED <<tick, history, interval, made>>

(* reset(), in stop() of the pipeline handler: the interval stays.         *)
ResetTimeline ==
    /\ alarm' = NotRunning /\ pendingActions' = {} /\ history' = <<>>
    /\ UNCHANGED <<tick, interval, ran, made>>

TimePasses ==
    /\ tick < LastTick
    /\ tick' = tick + 1
    /\ UNCHANGED <<history, interval, pendingActions, alarm, ran, made>>

(* The next frame, or one later when the driver had no buffer for it.      *)
TimelineNext ==
    \/ \E skipped \in {0, 1} : StartOfExposure(LastStart.frame + 1 + skipped)
    \/ \E type \in DOMAIN FrameOffset, ahead \in 0..2 :
          ScheduleAction(type, LastStart.frame + ahead)
    \/ AlarmExpires \/ ResetTimeline \/ TimePasses

-----------------------------------------------------------------------------
(***************************************************************************)
(* Property.                                                               *)
(***************************************************************************)

(* No action is run twice or before its time, and none is forgotten: while *)
(* one is scheduled the timer runs, for a deadline no later than its own,  *)
(* so that it is run as soon as the dispatcher is called after its time or *)
(* dropped by a reset().                                                   *)
RunOnceInTime ==
    /\ \A r \in ran :
          /\ ~r.early
          /\ \A a \in pendingActions : a.number # r.number
    /\ \A a \in pendingActions : alarm # NotRunning /\ alarm <= a.deadline

Waiting == \E a \in pendingActions : a.deadline <= LastTick

ActionsRun == []RunOnceInTime /\ (Waiting ~> ~Waiting)
=============================================================================
