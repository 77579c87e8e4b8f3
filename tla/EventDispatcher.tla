-------------------------- MODULE EventDispatcher --------------------------
(***************************************************************************)
(* EventDispatcherPoll (event_dispatcher_poll.cpp) with the timers         *)
(* (timer.cpp) and event notifiers (event_notifier.cpp) of its thread.     *)
(*                                                                         *)
(* Timers, notifiers and dispatcher are only used from the thread, in a    *)
(* handler: a message handler, a slot connected to activated or one        *)
(* connected to timeout.  Time and the descriptors change at any moment.   *)
(* Messages are those of MessageLoop; here they only interrupt poll().     *)
(***************************************************************************)
EXTENDS Lists, SequencesExt

CONSTANTS
    Timers,
    MaxTime,         \* bound: the last deadline, and the last tick
    RestartEarlier,  \* may a running timer be restarted to an earlier time?
    Notifiers,
    FdOf, TypeOf,    \* the descriptor and event type of each notifier
    Fds,             \* the descriptors in the order of the notifiers_ map
    Types,           \* the event types in the order they are processed
    MaxOps,          \* bound: operations of handlers, and failures of poll()
    None

ASSUME DispatcherAssumption ==
    /\ MaxTime \in Nat /\ MaxOps \in Nat /\ RestartEarlier \in BOOLEAN
    /\ FdOf \in [Notifiers -> ToSet(Fds)]
    /\ TypeOf \in [Notifiers -> ToSet(Types)]
    /\ Fds \in Seq(ToSet(Fds)) /\ IsInjective(Fds)
    /\ Types \in Seq(ToSet(Types))
    /\ None \notin Timers \cup Notifiers /\ Timers \cap Notifiers = {}

VARIABLES
    now,         \* utils::clock::now()
    deadline,    \* Timer::deadline_
    running,     \* the timers whose running_ is set
    timers,      \* EventDispatcherPoll::timers_
    enabled,     \* the notifiers whose enabled_ is set
    registered,  \* the notifiers stored in the sets of notifiers_
    entries,     \* the descriptors with an entry in notifiers_
    ready,       \* <<fd, type>>: the events the kernel would report
    closed,      \* the descriptors that are not open
    pc,          \* the part of processEvents() being executed
    current,     \* the timer or notifier whose signal is being emitted
    todo,        \* the entries that processNotifiers() has yet to leave
    round,       \* the event type that it visits next in the first of them
    revents,     \* <<fd, type>>: what poll() returned
    invalid,     \* the descriptors poll() returned POLLNVAL for
    cutoff,      \* the time read by processTimers()
    ops          \* bound: operations so far

timerVars == <<deadline, running, timers>>
notifierVars == <<enabled, registered, entries>>
kernelVars == <<now, ready, closed>>
pollVars == <<pc, current, todo, round, revents, invalid, cutoff>>
dispatcherVars == <<timerVars, notifierVars, kernelVars, pollVars, ops>>

Slots == ToSet(Fds) \X ToSet(Types)

SlotOf(n) == <<FdOf[n], TypeOf[n]>>

DispatcherTypeOK ==
    /\ now \in 0 .. MaxTime
    /\ deadline \in [Timers -> 0 .. MaxTime]
    /\ running \subseteq Timers
    /\ timers \in Seq(Timers)
    /\ enabled \subseteq Notifiers
    /\ registered \subseteq Notifiers
    /\ entries \subseteq ToSet(Fds)
    /\ ready \subseteq Slots
    /\ closed \subseteq ToSet(Fds)
    /\ pc \in {"dispatch", "poll", "notifiers", "timers"}
    /\ current \in Timers \cup Notifiers \cup {None}
    /\ todo \in Seq(ToSet(Fds)) /\ round \in 1 .. Len(Types) + 1
    /\ revents \subseteq Slots
    /\ invalid \subseteq ToSet(Fds)
    /\ cutoff \in 0 .. MaxTime
    /\ ops \in 0 .. MaxOps

DispatcherInit ==
    /\ now = 0
    /\ deadline = [t \in Timers |-> 0]
    /\ running = {} /\ timers = <<>>
    /\ enabled = {} /\ registered = {} /\ entries = {}
    /\ ready = {} /\ closed = {}
    /\ pc = "dispatch" /\ current = None /\ todo = <<>> /\ round = 1
    /\ revents = {} /\ invalid = {}
    /\ cutoff = 0
    /\ ops = 0

-----------------------------------------------------------------------------
(***************************************************************************)
(* The list of timers.  due is the function of deadlines to go by.         *)
(***************************************************************************)

RegisterTimer(list, t, due) ==
    LET later == SelectInSeq(list, LAMBDA u : due[u] > due[t])
    IN  IF later = 0 THEN Append(list, t) ELSE InsertAt(list, later, t)

(* The search stops at the first timer with a later deadline.              *)
UnregisterTimer(list, t, due) ==
    LET stop == SelectInSeq(list, LAMBDA u : u = t \/ due[u] > due[t])
    IN  IF stop > 0 /\ list[stop] = t THEN RemoveAt(list, stop) ELSE list

-----------------------------------------------------------------------------
(***************************************************************************)
(* Operations of the handlers.                                             *)
(***************************************************************************)

InHandler == pc = "dispatch" \/ current # None

Operation ==
    /\ InHandler
    /\ ops < MaxOps
    /\ ops' = ops + 1

(* Timer::start(duration).                                                 *)
Deadline(delay) == now + delay

(* Timer::start(): deadline_ is assigned before the timer is taken off the *)
(* list.                                                                   *)
TimerStart(t, delay) ==
    LET due == [deadline EXCEPT ![t] = Deadline(delay)]
        rest == IF t \in running THEN UnregisterTimer(timers, t, due)
                                 ELSE timers
    IN  /\ Operation
        /\ now + delay <= MaxTime
        /\ RestartEarlier \/ t \notin running \/ due[t] >= deadline[t]
        /\ deadline' = due
        /\ timers' = RegisterTimer(rest, t, due)
        /\ running' = running \cup {t}
        /\ UNCHANGED <<notifierVars, kernelVars, pollVars>>

TimerStop(t) ==
    /\ Operation
    /\ t \in running
    /\ running' = running \ {t}
    /\ timers' = UnregisterTimer(timers, t, deadline)
    /\ UNCHANGED <<deadline, notifierVars, kernelVars, pollVars>>

(* registerEventNotifier(): a second notifier for the same events of a     *)
(* descriptor is ignored.                                                  *)
Taken(n) == \E m \in registered \ {n} : SlotOf(m) = SlotOf(n)

Enable(n) ==
    /\ Operation
    /\ n \notin enabled
    /\ enabled' = enabled \cup {n}
    /\ entries' = entries \cup {FdOf[n]}
    /\ registered' = IF Taken(n) THEN registered ELSE registered \cup {n}
    /\ UNCHANGED <<timerVars, kernelVars, pollVars>>

(* An entry stays while processNotifiers() walks the map.                  *)
Empty(fd, notifiers) == \A m \in notifiers : FdOf[m] # fd

(* Mistake: the entry is erased whatever the dispatcher is doing.          *)
EraseAtOnce(fd, notifiers) ==
    IF Empty(fd, notifiers) THEN entries \ {fd} ELSE entries

EntriesAfter(fd, notifiers) ==
    IF pc # "notifiers" /\ Empty(fd, notifiers)
      THEN entries \ {fd} ELSE entries

(* Mistake: the notifier stays in the set while events are processed.      *)
UnregisterLater(n) == IF pc = "notifiers" THEN registered ELSE registered \ {n}

(* unregisterEventNotifier(), for a notifier that is registered.           *)
Unregister(n) == registered \ {n}

Disable(n) ==
    /\ Operation
    /\ n \in enabled
    /\ enabled' = enabled \ {n}
    /\ registered' = Unregister(n)
    /\ entries' = IF n \in registered
                    THEN EntriesAfter(FdOf[n], registered') ELSE entries
    /\ UNCHANGED <<timerVars, kernelVars, pollVars>>

(* A slot reads or writes what its descriptor was ready for.               *)
Consume(e) ==
    /\ InHandler
    /\ e \in ready
    /\ ready' = ready \ {e}
    /\ UNCHANGED <<timerVars, notifierVars, now, closed, pollVars, ops>>

(* A slot closes a descriptor, with or without disabling its notifiers.    *)
Close(fd) ==
    /\ Operation
    /\ fd \notin closed
    /\ closed' = closed \cup {fd}
    /\ ready' = {e \in ready : e[1] # fd}
    /\ UNCHANGED <<timerVars, notifierVars, now, pollVars>>

-----------------------------------------------------------------------------
(***************************************************************************)
(* processEvents().                                                        *)
(***************************************************************************)

(* dispatchMessages() has handled every message.                           *)
MessagesDispatched ==
    /\ pc = "dispatch"
    /\ pc' = "poll"
    /\ UNCHANGED <<timerVars, notifierVars, kernelVars, current, todo,
                   round, revents, invalid, cutoff, ops>>

(* EventNotifierSetPoll::events() of every entry.                          *)
Events == {SlotOf(n) : n \in registered}

(* The array of pollfd has the entries in the order of the map.            *)
PollFds == Without(Fds, ToSet(Fds) \ entries)

(* poll() returned a positive number.                                      *)
Returned ==
    /\ pc = "poll"
    /\ pc' = "notifiers"
    /\ todo' = PollFds
    /\ revents' = Events \cap ready
    /\ invalid' = entries \cap closed
    /\ UNCHANGED <<timerVars, notifierVars, kernelVars, current, round, cutoff,
                   ops>>

PollReady == (Events \cap ready # {} \/ entries \cap closed # {}) /\ Returned

(* Another thread wrote to the event descriptor.                           *)
PollInterrupted == Returned

ToTimers ==
    /\ pc' = "timers"
    /\ cutoff' = now
    /\ revents' = {} /\ invalid' = {}

(* Mistake: the timeout is computed for lists of two timers and more.      *)
TwoTimers == Len(timers) > 1

HasNextTimer == timers # <<>>

(* The timeout of poll() has expired.                                      *)
PollTimeout ==
    /\ pc = "poll"
    /\ HasNextTimer
    /\ deadline[Head(timers)] <= now
    /\ Events \cap ready = {} /\ entries \cap closed = {}
    /\ ToTimers
    /\ UNCHANGED <<timerVars, notifierVars, kernelVars, current, todo, round,
                   ops>>

PollFailed ==
    /\ pc = "poll"
    /\ ops < MaxOps
    /\ ops' = ops + 1
    /\ ToTimers
    /\ UNCHANGED <<timerVars, notifierVars, kernelVars, current, todo, round>>

(* One round of the inner loop of processNotifiers().                      *)
VisitSlot ==
    LET e == <<Head(todo), Types[round]>>
        here == {n \in registered : SlotOf(n) = e}
        signal == {n \in here : FdOf[n] \notin invalid /\ e \in revents}
    IN  /\ pc = "notifiers" /\ current = None
        /\ todo # <<>> /\ round <= Len(Types)
        /\ round' = round + 1
        /\ registered' = registered \ {n \in here : FdOf[n] \in invalid}
        /\ current' \in IF signal = {} THEN {None} ELSE signal
        /\ UNCHANGED <<timerVars, enabled, entries, kernelVars, pc, todo,
                       revents, invalid, cutoff, ops>>

(* The end of the outer loop: an entry that has become empty is erased.    *)
EndVisit ==
    LET fd == Head(todo)
    IN  /\ pc = "notifiers" /\ current = None
        /\ todo # <<>> /\ round > Len(Types)
        /\ todo' = Tail(todo) /\ round' = 1
        /\ entries' = IF Empty(fd, registered) THEN entries \ {fd} ELSE entries
        /\ UNCHANGED <<timerVars, enabled, registered, kernelVars, pc,
                       current, revents, invalid, cutoff, ops>>

NotifiersDone ==
    /\ pc = "notifiers" /\ current = None /\ todo = <<>>
    /\ ToTimers
    /\ UNCHANGED <<timerVars, notifierVars, kernelVars, current, todo, round,
                   ops>>

Due(t) == deadline[t] <= cutoff

(* processTimers(): pop_front(), then Timer::stop(), then the signal.      *)
FireTimer ==
    LET t == Head(timers)
    IN  /\ pc = "timers" /\ current = None
        /\ timers # <<>> /\ Due(t)
        /\ timers' = IF t \in running
                       THEN UnregisterTimer(Tail(timers), t, deadline)
                       ELSE Tail(timers)
        /\ running' = running \ {t}
        /\ current' = t
        /\ UNCHANGED <<deadline, notifierVars, kernelVars, pc, todo, round, revents,
                       invalid, cutoff, ops>>

TimersDone ==
    /\ pc = "timers" /\ current = None
    /\ timers # <<>> => ~Due(Head(timers))
    /\ pc' = "dispatch"
    /\ cutoff' = 0
    /\ UNCHANGED <<timerVars, notifierVars, kernelVars, current, todo, round,
                   revents, invalid, ops>>

HandlerReturns ==
    /\ current # None
    /\ current' = None
    /\ UNCHANGED <<timerVars, notifierVars, kernelVars, pc, todo, round, revents,
                   invalid, cutoff, ops>>

-----------------------------------------------------------------------------
(***************************************************************************)
(* The world.                                                              *)
(***************************************************************************)

Tick ==
    /\ now < MaxTime
    /\ now' = now + 1
    /\ UNCHANGED <<timerVars, notifierVars, ready, closed, pollVars, ops>>

BecomeReady(e) ==
    /\ e \notin ready /\ e[1] \notin closed
    /\ ready' = ready \cup {e}
    /\ UNCHANGED <<timerVars, notifierVars, now, closed, pollVars, ops>>

HandlerNext ==
    \/ \E t \in Timers :
         TimerStop(t) \/ \E delay \in 0 .. MaxTime : TimerStart(t, delay)
    \/ \E n \in Notifiers : Enable(n) \/ Disable(n)
    \/ \E e \in {SlotOf(n) : n \in Notifiers} : Consume(e)
    \/ \E fd \in ToSet(Fds) : Close(fd)

ProcessEvents ==
    \/ MessagesDispatched \/ PollReady \/ PollTimeout
    \/ VisitSlot \/ EndVisit \/ NotifiersDone
    \/ FireTimer \/ TimersDone \/ HandlerReturns

DispatcherNext ==
    \/ ProcessEvents \/ PollInterrupted \/ PollFailed
    \/ HandlerNext
    \/ Tick \/ \E e \in {SlotOf(n) : n \in Notifiers} : BecomeReady(e)

DispatcherSpec == DispatcherInit /\ [][DispatcherNext]_dispatcherVars

-----------------------------------------------------------------------------
(***************************************************************************)
(* Properties.                                                             *)
(***************************************************************************)

(* The list holds the running timers, each once and ordered by deadline:   *)
(* poll() takes its timeout from the first one, processTimers() stops at   *)
(* the first one that is not due.                                          *)
TimersListed ==
    /\ IsInjective(timers)
    /\ ToSet(timers) = running
    /\ \A i, j \in DOMAIN timers :
         i < j => deadline[timers[i]] <= deadline[timers[j]]

(* ASSERT(iter != notifiers_.end()) of processNotifiers(): whatever the    *)
(* slots do, the entries to be visited are still there.                    *)
EntriesRemain == ToSet(todo) \subseteq entries

(* The two tables stay sound while the slots they call change them.        *)
TablesSound == DispatcherTypeOK /\ TimersListed /\ EntriesRemain

(* A timer fires when it is running and due, never after it was stopped    *)
(* ("After this function returns the timer is guaranteed not to emit the   *)
(* timeout signal", Timer::stop) nor before its deadline.                  *)
FiresWhenDue ==
    [][\A t \in Timers : (current # t /\ current' = t) =>
         t \in running /\ deadline[t] <= now]_dispatcherVars

(* A notifier is activated when it is enabled, though a slot called        *)
(* earlier for the same poll() may just have disabled it ("When the        *)
(* notifier is disabled it ignores events and does not emit the activated  *)
(* signal", event_notifier.cpp).                                           *)
ActivatedWhenEnabled ==
    [][\A n \in Notifiers : (current # n /\ current' = n) =>
         n \in enabled /\ SlotOf(n) \in revents]_dispatcherVars

(* No signal comes early, or to an object that was told to be quiet.       *)
SignalsWanted == FiresWhenDue /\ ActivatedWhenEnabled

(* Every timer that runs fires, unless it is stopped.                      *)
TimersFire == \A t \in Timers : (t \in running) ~> (t \notin running)

(* Every event on a descriptor with a notifier is signalled, unless it is  *)
(* consumed or the notifier disabled first.                                *)
NotifiersActivated ==
    \A n \in Notifiers :
        (n \in registered /\ SlotOf(n) \in ready)
            ~> (current = n \/ n \notin registered \/ SlotOf(n) \notin ready)

(* No signal is lost.                                                      *)
SignalsArrive == TimersFire /\ NotifiersActivated
=============================================================================
