---------------------------- MODULE MessageLoop ----------------------------
(***************************************************************************)
(* Messages between threads: Thread and its event loop (thread.cpp),       *)
(* Object (object.cpp), method calls through BoundMethodBase               *)
(* (bound_method.cpp) and Semaphore, and the interrupt descriptor of       *)
(* EventDispatcherPoll, the only thing that wakes an idle loop here.       *)
(*                                                                         *)
(* Each member of Calls is one invokeMethod() made by an application       *)
(* thread that is not one of the object's: ConnectionTypeBlocking if it is *)
(* in Blocking, else ConnectionTypeQueued (in the object's own thread both *)
(* would be plain calls).  The object list mutex makes pushing, popping,   *)
(* removing and moving messages single steps; what happens before and      *)
(* after the lock is a step of its own.                                    *)
(***************************************************************************)
EXTENDS Naturals, FiniteSets, Sequences, SequencesExt, Lists

CONSTANTS
    Threads,        \* threads that run an event loop
    Objects,
    Calls,
    Blocking,       \* the calls that wait for the method to return
    ReceiverOf,     \* the object each call is made on
    ChildrenOf,     \* Object::children_ (children have no children here)
    HomeOf,         \* the thread each object is created in
    Synchronised,   \* an object is not moved during a call made on it
    MaxStarts,      \* bound: how often a thread is started
    MaxMoves,       \* bound: how often objects are moved
    NoCall,
    NoThread

(* An object has one parent, and is created in its thread: the constructor *)
(* takes thread_ from the parent.                                          *)
ASSUME CallAssumption ==
    /\ Blocking \subseteq Calls /\ NoCall \notin Calls
    /\ ReceiverOf \in [Calls -> Objects]
    /\ IsFiniteSet(Calls)
    /\ ChildrenOf \in [Objects -> Seq(Objects)]
    /\ \A o \in Objects : IsInjective(ChildrenOf[o])
    /\ \A o \in Objects : \A k \in ToSet(ChildrenOf[o]) :
         /\ ChildrenOf[k] = <<>> /\ HomeOf[k] = HomeOf[o]
         /\ \A p \in Objects : k \in ToSet(ChildrenOf[p]) => p = o
    /\ HomeOf \in [Objects -> Threads] /\ NoThread \notin Threads
    /\ Synchronised \in BOOLEAN
    /\ MaxStarts \in Nat /\ MaxMoves \in Nat

VARIABLES
    thread,       \* Object::thread_, NoThread once the object is deleted
    pending,      \* Object::pendingMessages_
    list,         \* ThreadData::messages_.list_, NoCall for a null pointer
    dispatcher,   \* the threads that have an event dispatcher
    eventfd,      \* the threads whose interrupt descriptor is readable
    exit,         \* the threads whose exit_ is set
    exiting,      \* the threads exit() has yet to interrupt
    loop,         \* where each thread is in its event loop
    handling,     \* the message each thread has taken off its list
    call,         \* how far each call has come
    target,       \* the thread each call has read from its object
    released,     \* the calls whose semaphore was released
    order,        \* history: each object's messages, as they were posted
    starts,       \* bound: starts of each thread so far
    moves         \* bound: moves so far

objectVars == <<thread, pending, list, order>>
loopVars == <<dispatcher, eventfd, exit, exiting, loop, handling, released,
              starts>>
callVars == <<call, target>>
vars == <<objectVars, loopVars, callVars, moves>>

TypeOK ==
    /\ thread \in [Objects -> Threads \cup {NoThread}]
    /\ pending \in [Objects -> 0 .. Cardinality(Calls)]
    /\ list \in [Threads -> Seq(Calls \cup {NoCall})]
    /\ order \in [Objects -> Seq(Calls)]
    /\ dispatcher \subseteq Threads
    /\ eventfd \subseteq dispatcher
    /\ exit \subseteq Threads
    /\ exiting \subseteq Threads
    /\ loop \in [Threads -> {"off", "run", "check", "dispatch", "handler",
                             "poll"}]
    /\ handling \in [Threads -> Calls \cup {NoCall}]
    /\ released \subseteq Blocking
    /\ call \in [Calls -> {"idle", "read", "pushed", "sent", "returned"}]
    /\ target \in [Calls -> Threads \cup {NoThread}]
    /\ starts \in [Threads -> 0 .. MaxStarts]
    /\ moves \in 0 .. MaxMoves

Init ==
    /\ thread = HomeOf
    /\ pending = [o \in Objects |-> 0]
    /\ list = [t \in Threads |-> <<>>]
    /\ order = [o \in Objects |-> <<>>]
    /\ dispatcher = {} /\ eventfd = {} /\ exit = {} /\ exiting = {}
    /\ loop = [t \in Threads |-> "off"]
    /\ handling = [t \in Threads |-> NoCall]
    /\ released = {}
    /\ call = [c \in Calls |-> "idle"]
    /\ target = [c \in Calls |-> NoThread]
    /\ starts = [t \in Threads |-> 0]
    /\ moves = 0

-----------------------------------------------------------------------------
(***************************************************************************)
(* The caller.                                                             *)
(***************************************************************************)

CallStep(c, from, to) ==
    /\ call[c] = from
    /\ call' = [call EXCEPT ![c] = to]

(* Object::postMessage() reads thread(), and Thread::postMessage() asserts *)
(* that the object is still bound to it.                                   *)
ReadThread(c) ==
    /\ thread[ReceiverOf[c]] # NoThread
    /\ CallStep(c, "idle", "read")
    /\ target' = [target EXCEPT ![c] = thread[ReceiverOf[c]]]
    /\ UNCHANGED <<objectVars, loopVars, moves>>

(* Mistake: the message overtakes the ones that wait.                      *)
PushFront(messages, c) == <<c>> \o messages

(* The message is pushed with the list's mutex held.                       *)
PushBack(messages, c) == Append(messages, c)

Push(c) ==
    /\ CallStep(c, "read", "pushed")
    /\ list' = [list EXCEPT ![target[c]] = PushBack(@, c)]
    /\ pending' = [pending EXCEPT ![ReceiverOf[c]] = @ + 1]
    /\ order' = [order EXCEPT ![ReceiverOf[c]] = Append(@, c)]
    /\ UNCHANGED <<thread, loopVars, target, moves>>

(* EventDispatcherPoll::interrupt(), if the thread has a dispatcher.       *)
WakeUp(t) == eventfd' = eventfd \cup ({t} \cap dispatcher)

Interrupt(c) ==
    /\ CallStep(c, "pushed", IF c \in Blocking THEN "sent" ELSE "returned")
    /\ target' = [target EXCEPT ![c] = NoThread]
    /\ WakeUp(target[c])
    /\ UNCHANGED <<objectVars, dispatcher, exit, exiting, loop, handling,
                   released, starts, moves>>

(* Semaphore::acquire() returns in the caller.                             *)
Acquired(c) ==
    /\ c \in released
    /\ CallStep(c, "sent", "returned")
    /\ UNCHANGED <<objectVars, loopVars, target, moves>>

-----------------------------------------------------------------------------
(***************************************************************************)
(* The event loop.                                                         *)
(***************************************************************************)

LoopStep(t, from, to) ==
    /\ loop[t] = from
    /\ loop' = [loop EXCEPT ![t] = to]

(* Thread::start() and the beginning of run().                             *)
Start(t) ==
    /\ starts[t] < MaxStarts
    /\ LoopStep(t, "off", "run")
    /\ exit' = exit \ {t}
    /\ starts' = [starts EXCEPT ![t] = @ + 1]
    /\ UNCHANGED <<objectVars, dispatcher, eventfd, exiting, handling,
                   released, callVars, moves>>

(* Thread::exec() creates the dispatcher if there is none.                 *)
Exec(t) ==
    /\ LoopStep(t, "run", "check")
    /\ dispatcher' = dispatcher \cup {t}
    /\ UNCHANGED <<objectVars, eventfd, exit, exiting, handling, released,
                   starts, callVars, moves>>

(* The condition of exec()'s loop; finishThread() when it is left.         *)
CheckExit(t) ==
    /\ LoopStep(t, "check", IF t \in exit THEN "off" ELSE "dispatch")
    /\ UNCHANGED <<objectVars, dispatcher, eventfd, exit, exiting, handling,
                   released, starts, callVars, moves>>

(* dispatchMessages() takes the first message off the list, skipping null  *)
(* pointers.                                                               *)
FirstMessage(t) == SelectInSeq(list[t], LAMBDA c : c # NoCall)

Take(t) ==
    LET i == FirstMessage(t)
        o == ReceiverOf[list[t][i]]
    IN  /\ i > 0
        /\ LoopStep(t, "dispatch", "handler")
        /\ handling' = [handling EXCEPT ![t] = list[t][i]]
        /\ list' = [list EXCEPT ![t] = SubSeq(@, i + 1, Len(@))]
        /\ pending' = [pending EXCEPT ![o] = @ - 1]
        /\ order' = [order EXCEPT ![o] = Without(@, {list[t][i]})]
        /\ UNCHANGED <<thread, dispatcher, eventfd, exit, exiting, released,
                       starts, callVars, moves>>

NothingToDispatch(t) ==
    /\ FirstMessage(t) = 0
    /\ LoopStep(t, "dispatch", "poll")
    /\ list' = [list EXCEPT ![t] = <<>>]
    /\ UNCHANGED <<thread, pending, order, dispatcher, eventfd, exit, exiting,
                   handling, released, starts, callVars, moves>>

(* Object::message(): the method has run, the semaphore is released.       *)
Release(c) == {c} \cap Blocking

Handled(t) ==
    /\ LoopStep(t, "handler", "dispatch")
    /\ handling' = [handling EXCEPT ![t] = NoCall]
    /\ released' = released \cup Release(handling[t])
    /\ UNCHANGED <<objectVars, dispatcher, eventfd, exit, exiting, starts,
                   callVars, moves>>

(* poll() blocks until the descriptor is readable; processInterrupt()      *)
(* resets it.                                                              *)
Poll(t) ==
    /\ t \in eventfd
    /\ LoopStep(t, "poll", "check")
    /\ eventfd' = eventfd \ {t}
    /\ UNCHANGED <<objectVars, dispatcher, exit, exiting, handling, released,
                   starts, callVars, moves>>

(* Thread::exit(): the flag first, then the interrupt.                     *)
ExitFlag(t) ==
    /\ loop[t] # "off" /\ t \notin exit
    /\ exit' = exit \cup {t}
    /\ exiting' = exiting \cup {t}
    /\ UNCHANGED <<objectVars, dispatcher, eventfd, loop, handling, released,
                   starts, callVars, moves>>

ExitInterrupt(t) ==
    /\ t \in exiting
    /\ exiting' = exiting \ {t}
    /\ WakeUp(t)
    /\ UNCHANGED <<objectVars, dispatcher, exit, loop, handling, released,
                   starts, callVars, moves>>

-----------------------------------------------------------------------------
(***************************************************************************)
(* Objects moved and deleted by code that runs in their thread: run()      *)
(* before exec(), or a message handler.                                    *)
(***************************************************************************)

RunsIn(t) == loop[t] \in {"run", "handler"}

(* No call on the object is between reading its thread and the interrupt.  *)
NoCallInFlight(o) ==
    \A c \in Calls : ReceiverOf[c] = o => call[c] \notin {"read", "pushed"}

(* The objects moveObject() visits, in order.  Deleted children have left  *)
(* children_, the children of a deleted object are orphans.                *)
Deleted == {o \in Objects : thread[o] = NoThread}

Family(o) == <<o>> \o Without(ChildrenOf[o], Deleted)

HasParent(o) ==
    \E p \in Objects : thread[p] # NoThread /\ o \in ToSet(ChildrenOf[p])

(* The messages for the object o, in list order.                           *)
ForOthers(o) == {NoCall} \cup {c \in Calls : ReceiverOf[c] # o}

MessagesFor(o, S) == Without(S, ForOthers(o))

(* Mistake: the old list keeps what was moved.                             *)
Kept(S, gone) == S

(* Moved and removed messages leave a null pointer in the list.            *)
Nulled(S, gone) == [i \in DOMAIN S |-> IF S[i] \in gone THEN NoCall ELSE S[i]]

(* Mistake: the thread that sleeps is left asleep.                         *)
LeaveAsleep(t, moved) == UNCHANGED eventfd

(* The new thread is interrupted if messages moved.                        *)
WakeNewThread(t, moved) ==
    IF moved = <<>> THEN UNCHANGED eventfd ELSE WakeUp(t)

(* Object::moveToThread() and Thread::moveObject().  Both lists are locked *)
(* for the whole move.                                                     *)
MoveToThread(o, t) ==
    LET from == thread[o]
        family == Family(o)
        moved == FlattenSeq([i \in DOMAIN family |->
                                MessagesFor(family[i], list[from])])
    IN  /\ moves < MaxMoves
        /\ from \in Threads \ {t}
        /\ RunsIn(from)
        /\ ~HasParent(o)
        /\ Synchronised => \A k \in ToSet(family) : NoCallInFlight(k)
        /\ thread' = [k \in Objects |->
                        IF k \in ToSet(family) THEN t ELSE thread[k]]
        /\ list' = [list EXCEPT ![from] = Nulled(@, ToSet(moved)),
                                ![t] = @ \o moved]
        /\ WakeNewThread(t, moved)
        /\ moves' = moves + 1
        /\ UNCHANGED <<pending, order, dispatcher, exit, exiting, loop,
                       handling, released, starts, callVars>>

(* Object::~Object() and removeMessages().  The application deletes an     *)
(* object on which nobody makes or waits for a call, and not the one whose *)
(* message is being handled.                                               *)
Delete(o) ==
    LET t == thread[o]
        removed == MessagesFor(o, list[t])
    IN  /\ t # NoThread
        /\ RunsIn(t)
        /\ \A c \in Calls : ReceiverOf[c] = o =>
             /\ call[c] \in {"idle", "returned"}
             /\ \A u \in Threads : handling[u] # c
        /\ thread' = [thread EXCEPT ![o] = NoThread]
        /\ list' = [list EXCEPT ![t] = Nulled(@, ToSet(removed))]
        /\ pending' = [pending EXCEPT ![o] = @ - Len(removed)]
        /\ order' = [order EXCEPT ![o] = <<>>]
        /\ UNCHANGED <<loopVars, callVars, moves>>

-----------------------------------------------------------------------------
CallNext(c) ==
    ReadThread(c) \/ Push(c) \/ Interrupt(c) \/ Acquired(c)

LoopNext(t) ==
    \/ Exec(t) \/ CheckExit(t) \/ Take(t) \/ NothingToDispatch(t)
    \/ Handled(t) \/ Poll(t)

Next ==
    \/ \E c \in Calls : CallNext(c)
    \/ \E t \in Threads :
        \/ LoopNext(t) \/ Start(t) \/ ExitFlag(t) \/ ExitInterrupt(t)
        \/ \E o \in Objects : MoveToThread(o, t)
    \/ \E o \in Objects : Delete(o)

(* A call that was begun goes on, a thread that was started reaches exec() *)
(* and goes round its loop, and every handler returns.  Nothing obliges    *)
(* the application to make a call, to start a thread or to stop it.        *)
Fairness ==
    /\ \A c \in Calls :
         WF_vars(Push(c) \/ Interrupt(c) \/ Acquired(c))
    /\ \A t \in Threads : WF_vars(LoopNext(t)) /\ WF_vars(ExitInterrupt(t))

Spec == Init /\ [][Next]_vars

FairSpec == Spec /\ Fairness

-----------------------------------------------------------------------------
(***************************************************************************)
(* Properties.                                                             *)
(***************************************************************************)

(* Every message waits in the list of the thread its object is bound to,   *)
(* and is handled there: the assertion of dispatchMessages() holds, and an *)
(* object is only ever used by its own thread.                             *)
MessagesWithTheirObject ==
    \A t \in Threads : \A i \in DOMAIN list[t] :
        list[t][i] # NoCall => thread[ReceiverOf[list[t][i]]] = t

(* The lists and counters are well formed, and messages are with their     *)
(* object.                                                                 *)
MessagesAtHome == TypeOK /\ MessagesWithTheirObject

(* The messages that wait for an object are, in that order, the ones       *)
(* posted to it and not yet handled, across moves from thread to thread,   *)
(* and pendingMessages_ counts them: the destructor and moveObject() skip  *)
(* the list when it is zero, and removeMessages() asserts that it becomes  *)
(* zero.                                                                   *)
PendingInOrder ==
    \A o \in Objects :
        /\ pending[o] = Len(order[o])
        /\ order[o] = IF thread[o] = NoThread
                        THEN <<>> ELSE MessagesFor(o, list[thread[o]])

(* No wake-up is lost: a message posted to an object is handled, unless    *)
(* the loop of its thread is stopped or never started, or the object is    *)
(* deleted.                                                                *)
Stopped(o) ==
    thread[o] = NoThread \/ thread[o] \in exit \/ loop[thread[o]] = "off"

Waits(c) == c \in ToSet(order[ReceiverOf[c]])

MessagesHandled ==
    \A c \in Calls : Waits(c) ~> (~Waits(c) \/ Stopped(ReceiverOf[c]))

(* A blocking call returns on the same conditions, although its object     *)
(* moves while the caller waits.                                           *)
BlockingCallsReturn ==
    \A c \in Blocking : (call[c] = "sent") ~>
        (call[c] = "returned" \/ Stopped(ReceiverOf[c]))

(* exit() ends the loop, whether it finds it busy, blocked in poll() or    *)
(* not yet begun ("This method interrupts the event loop started by the    *)
(* exec() method, causing exec() to return", Thread::exit).                *)
ExitEndsLoop == \A t \in Threads : (t \in exit) ~> (loop[t] = "off")

(* Threads make progress: messages are handled, blocking calls return and  *)
(* exit() ends a loop.                                                     *)
LoopProgress == MessagesHandled /\ BlockingCallsReturn /\ ExitEndsLoop
=============================================================================
