------------------------------- MODULE Events -------------------------------
(***************************************************************************)
(* The event machinery of a thread: EventDispatcher, which decides when    *)
(* the signals of timers and notifiers are emitted, Signal, which says     *)
(* what an emission does, and Timeline, the user of a timer.  They share   *)
(* no state: part says which of them a behaviour is about.                 *)
(***************************************************************************)
EXTENDS EventDispatcher, Signal, Timeline

VARIABLE part

eventVars == <<dispatcherVars, signalVars, timelineVars, part>>

EventsInit ==
    /\ DispatcherInit /\ SignalInit /\ TimelineInit
    /\ part \in {"dispatcher", "signals", "timeline"}

Dispatching(A) ==
    part = "dispatcher" /\ A /\ UNCHANGED <<signalVars, timelineVars, part>>

Signalling(A) ==
    part = "signals" /\ A /\ UNCHANGED <<dispatcherVars, timelineVars, part>>

Scheduling(A) ==
    part = "timeline" /\ A /\ UNCHANGED <<dispatcherVars, signalVars, part>>

EventsNext ==
    Dispatching(DispatcherNext) \/ Signalling(SignalNext) \/ Scheduling(TimelineNext)

(* Time passes, the loop is called again and again, and every handler      *)
(* returns.  Nothing obliges other threads to interrupt poll().  emit()    *)
(* and ~Object() walk to the end of their lists, and the other thread      *)
(* dispatches its messages.  A timer that has expired is signalled         *)
(* sometime.                                                               *)
EventsFairness ==
    /\ WF_eventVars(Dispatching(Tick))
    /\ WF_eventVars(Dispatching(ProcessEvents))
    /\ WF_eventVars(Signalling(Emission))
    /\ WF_eventVars(Signalling(Destructor))
    /\ WF_eventVars(Signalling(Invoke))
    /\ WF_eventVars(Scheduling(AlarmExpires))
    /\ WF_eventVars(Scheduling(TimePasses))

EventsSpec == EventsInit /\ [][EventsNext]_eventVars /\ EventsFairness

-----------------------------------------------------------------------------

(* No signal is lost on its way from poll() to the slots: a timer that     *)
(* runs fires, a notifier is activated, an emission reaches every slot,    *)
(* a message about a slot of another thread is delivered or goes away with *)
(* its object, and the actions of the timeline are run by their one timer. *)
EventsArrive == SignalsArrive /\ EmissionEnds /\ ActionsRun

-----------------------------------------------------------------------------
(***************************************************************************)
(* The instance that is checked.  Two timers, and four notifiers on two    *)
(* descriptors: two of them for the same events.  Two signals, an object   *)
(* of the emitting thread and one of another, with two slots each.  The    *)
(* two types of actions of the timeline, a few milliseconds after a start  *)
(* of exposure.                                                            *)
(***************************************************************************)

CONSTANTS fd1, fd2, read1, again1, write1, read2

SomeNotifiers == {read1, again1, write1, read2}

SomeFdOf == [n \in SomeNotifiers |-> IF n = read2 THEN fd2 ELSE fd1]

SomeTypeOf == [n \in SomeNotifiers |-> IF n = write1 THEN "write" ELSE "read"]

SomeFds == <<fd1, fd2>>

SomeTypes == <<"read", "write">>

SomeFrameOffset == [SetSensor |-> -1, QueueBuffers |-> -1]

SomeTimeOffset == [SetSensor |-> 1, QueueBuffers |-> 2]
=============================================================================
