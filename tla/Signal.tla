------------------------------- MODULE Signal -------------------------------
(***************************************************************************)
(* Signals and the slots connected to them (signal.h, signal.cpp,          *)
(* bound_method.h), and the part of Object that disconnects them when the  *)
(* object is destroyed (object.cpp).                                       *)
(*                                                                         *)
(* Signals are emitted by one thread.  A slot of an object of that thread  *)
(* is called at once, one of an object of another thread by a message.     *)
(* Slots and other threads may connect, disconnect, and destroy objects    *)
(* and signals at any time; signalsLock makes each access to the lists one *)
(* step.  An object is destroyed by the thread it is bound to ("Deleting   *)
(* an object from a thread other than the one the object is bound to is    *)
(* unsafe", object.cpp).  A BoundMethod is never reused: using it, or the  *)
(* Object or Signal it names, after it was deleted sets misused.  What     *)
(* happens then is undefined, and ends the behaviour.                      *)
(***************************************************************************)
EXTENDS Lists, SequencesExt

CONSTANTS
    Signals,
    Receivers,      \* Objects that have slots
    Remote,         \* those that are bound to another thread
    Functions,      \* the slots of each
    MaxMethods,     \* bound: connections made
    MaxEmissions,   \* bound: calls of emit()
    NoMethod, NoReceiver

ASSUME SignalAssumption ==
    /\ Remote \subseteq Receivers /\ NoReceiver \notin Receivers
    /\ Signals \cap Receivers = {}
    /\ MaxMethods \in Nat /\ MaxEmissions \in Nat

VARIABLES
    slots,      \* SignalBase::slots_
    signals,    \* Object::signals_; that it may name one twice is left out
    undeleted,  \* the signals and receivers that were not deleted
    emission,   \* what is left of the copy emit() walks
    inSlot,     \* the method that it has called
    posted,     \* the methods of the InvokeMessages in the other thread
    dying,      \* the receiver that is in its destructor
    leaving,    \* what is left of the destructor's private list of signals
    methods,    \* bound: connections made so far
    emissions,  \* bound: signals emitted so far
    misused,
    pulled,     \* history: what was still to be used has been deleted
    stranded    \* history: the slots of a signal that their object forgot

signalVars == <<slots, signals, undeleted, emission, inSlot, posted, dying,
                leaving, methods, emissions, misused, pulled, stranded>>

Methods == [id : 1 .. MaxMethods, object : Receivers, func : Functions]

SignalTypeOK ==
    /\ slots \in [Signals -> Seq(Methods)]
    /\ signals \in [Receivers -> SUBSET Signals]
    /\ undeleted \subseteq Signals \cup Receivers
    /\ emission \in Seq(Methods)
    /\ inSlot \in Methods \cup {NoMethod}
    /\ posted \in Seq(Methods)
    /\ dying \in Receivers \cup {NoReceiver}
    /\ leaving \subseteq Signals
    /\ methods \in 0 .. MaxMethods
    /\ emissions \in 0 .. MaxEmissions
    /\ {misused, pulled} \subseteq BOOLEAN
    /\ stranded \in [Signals -> SUBSET Methods]

SignalInit ==
    /\ slots = [s \in Signals |-> <<>>]
    /\ signals = [o \in Receivers |-> {}]
    /\ undeleted = Signals \cup Receivers
    /\ emission = <<>> /\ inSlot = NoMethod /\ posted = <<>>
    /\ dying = NoReceiver /\ leaving = {}
    /\ methods = 0 /\ emissions = 0
    /\ misused = FALSE /\ pulled = FALSE
    /\ stranded = [s \in Signals |-> {}]

-----------------------------------------------------------------------------
(***************************************************************************)
(* Connections.                                                            *)
(***************************************************************************)

Connected == UNION {ToSet(slots[s]) : s \in Signals}

SlotsOf(s, o) == {m \in ToSet(slots[s]) : m.object = o}

(* The application uses signals and objects that are there, and leaves an  *)
(* object that is being destroyed alone.                                   *)
Usable(s, o) == {s, o} \subseteq undeleted /\ o # dying

(* SignalBase::connect() and Object::connect(): the object knows of the    *)
(* signal again, and so of all its slots there.                            *)
Connect(s, o, f) ==
    /\ ~misused
    /\ Usable(s, o)
    /\ methods < MaxMethods
    /\ methods' = methods + 1
    /\ slots' = [slots EXCEPT ![s] =
                    Append(@, [id |-> methods + 1, object |-> o, func |-> f])]
    /\ signals' = [signals EXCEPT ![o] = @ \cup {s}]
    /\ stranded' = [stranded EXCEPT ![s] = @ \ SlotsOf(s, o)]
    /\ UNCHANGED <<undeleted, emission, inSlot, posted, dying, leaving,
                   emissions, misused, pulled>>

(* Mistake: SignalBase::disconnect() does not tell the object.             *)
ForgetNothing(s, objects) == signals

(* Object::disconnect() removes every mention of the signal, whether or    *)
(* not another slot of the object stays connected to it.                   *)
Forget(s, objects) ==
    [o \in Receivers |-> IF o \in objects THEN signals[o] \ {s}
                                          ELSE signals[o]]

(* The slots that a disconnection leaves although it makes their object    *)
(* forget the signal.                                                      *)
LeftBehind(s, matched) ==
    {m \in ToSet(slots[s]) \ matched : \E n \in matched : n.object = m.object}

(* SignalBase::disconnect(match): the objects of the matching methods are  *)
(* told, and the methods are deleted.                                      *)
Disconnect(s, matched) ==
    /\ slots' = [slots EXCEPT ![s] = Without(@, matched)]
    /\ signals' = Forget(s, {m.object : m \in matched})
    /\ misused' = (s \notin undeleted
                    \/ \E m \in matched : m.object \notin undeleted)
    /\ stranded' = [stranded EXCEPT ![s] =
                       (@ \ {m \in matched : m.object \in undeleted})
                           \cup LeftBehind(s, matched)]

(* disconnect(), disconnect(object) and disconnect(object, func)           *)
DisconnectSlots(s, matched) ==
    /\ ~misused
    /\ s \in undeleted
    /\ Disconnect(s, matched)
    /\ pulled' = (pulled \/ matched \cap (ToSet(emission) \cup ToSet(posted)) # {})
    /\ UNCHANGED <<undeleted, emission, inSlot, posted, dying, leaving,
                   methods, emissions>>

DisconnectAll(s) == DisconnectSlots(s, ToSet(slots[s]))

DisconnectObject(s, o) ==
    Usable(s, o) /\ DisconnectSlots(s, SlotsOf(s, o))

DisconnectFunction(s, o, f) ==
    /\ Usable(s, o)
    /\ DisconnectSlots(s, {m \in SlotsOf(s, o) : m.func = f})

(* ~Signal()                                                               *)
DeleteSignal(s) ==
    /\ ~misused
    /\ s \in undeleted
    /\ Disconnect(s, ToSet(slots[s]))
    /\ undeleted' = undeleted \ {s}
    /\ pulled' = (\/ pulled \/ s \in leaving
                  \/ ToSet(slots[s]) \cap (ToSet(emission) \cup ToSet(posted)) # {})
    /\ UNCHANGED <<emission, inSlot, posted, dying, leaving, methods,
                   emissions>>

-----------------------------------------------------------------------------
(***************************************************************************)
(* Object::~Object().                                                      *)
(***************************************************************************)

(* The receivers of the thread that emits.                                 *)
Local == Receivers \ Remote

(* The signals move to a private list.                                     *)
DeleteReceiver(o) ==
    /\ ~misused
    /\ o \in undeleted
    /\ dying = NoReceiver
    /\ dying' = o
    /\ leaving' = signals[o]
    /\ signals' = [signals EXCEPT ![o] = {}]
    /\ UNCHANGED <<slots, undeleted, emission, inSlot, posted, methods,
                   emissions, misused, pulled, stranded>>

(* signal->disconnect(this) for the next signal of the list.  Messages     *)
(* about its slots will be removed before the thread sees them.            *)
LeaveSignal(s) ==
    /\ ~misused
    /\ s \in leaving
    /\ leaving' = leaving \ {s}
    /\ Disconnect(s, SlotsOf(s, dying))
    /\ pulled' = (pulled \/ SlotsOf(s, dying) \cap ToSet(emission) # {})
    /\ UNCHANGED <<undeleted, emission, inSlot, posted, dying, methods,
                   emissions>>

(* Thread::removeMessages(), and the object is gone.                       *)
ReceiverDeleted ==
    /\ ~misused
    /\ dying # NoReceiver /\ leaving = {}
    /\ posted' = Without(posted, {m \in ToSet(posted) : m.object = dying})
    /\ undeleted' = undeleted \ {dying}
    /\ dying' = NoReceiver
    /\ UNCHANGED <<slots, signals, emission, inSlot, leaving, methods,
                   emissions, misused, pulled, stranded>>

-----------------------------------------------------------------------------
(***************************************************************************)
(* Signal::emit().                                                         *)
(***************************************************************************)

(* slots() returns a copy "as the slot could call the disconnect           *)
(* operation": a copy of the pointers, to methods that disconnect() deletes.*)
Emit(s) ==
    /\ ~misused
    /\ s \in undeleted
    /\ emission = <<>> /\ inSlot = NoMethod /\ dying \notin Local
    /\ emissions < MaxEmissions
    /\ emissions' = emissions + 1
    /\ emission' = slots[s]
    /\ UNCHANGED <<slots, signals, undeleted, inSlot, posted, dying, leaving,
                   methods, misused, pulled, stranded>>

(* The method is still there, and so is its object.                        *)
Callable(m) == m \in Connected /\ m.object \in undeleted

(* BoundMethodMember::activate() and BoundMethodBase::activatePack(): a    *)
(* slot of this thread is invoked, another one is posted a message.        *)
Activate ==
    LET m == Head(emission) IN
    /\ ~misused
    /\ emission # <<>> /\ inSlot = NoMethod /\ dying \notin Local
    /\ emission' = Tail(emission)
    /\ misused' = ~Callable(m)
    /\ IF m.object \in Remote
         THEN posted' = Append(posted, m) /\ UNCHANGED inSlot
         ELSE inSlot' = m /\ UNCHANGED posted
    /\ UNCHANGED <<slots, signals, undeleted, dying, leaving, methods,
                   emissions, pulled, stranded>>

SlotReturns ==
    /\ ~misused
    /\ inSlot # NoMethod /\ dying \notin Local
    /\ inSlot' = NoMethod
    /\ UNCHANGED <<slots, signals, undeleted, emission, posted, dying, leaving,
                   methods, emissions, misused, pulled, stranded>>

(* InvokeMessage::invoke() in the other thread                             *)
Invoke ==
    LET m == Head(posted) IN
    /\ ~misused
    /\ posted # <<>> /\ dying \notin Remote
    /\ posted' = Tail(posted)
    /\ misused' = ~Callable(m)
    /\ UNCHANGED <<slots, signals, undeleted, emission, inSlot, dying, leaving,
                   methods, emissions, pulled, stranded>>

-----------------------------------------------------------------------------

Emission == Activate \/ SlotReturns

Destructor == (\E s \in Signals : LeaveSignal(s)) \/ ReceiverDeleted

SignalNext ==
    \/ \E s \in Signals, o \in Receivers :
         \/ DisconnectObject(s, o)
         \/ \E f \in Functions : Connect(s, o, f) \/ DisconnectFunction(s, o, f)
    \/ \E s \in Signals : DisconnectAll(s) \/ DeleteSignal(s) \/ Emit(s)
    \/ \E o \in Receivers : DeleteReceiver(o)
    \/ Destructor \/ Emission \/ Invoke

-----------------------------------------------------------------------------
(***************************************************************************)
(* Properties.                                                             *)
(***************************************************************************)

(* The documentation of Signal and Object: emit() copies the list "as the  *)
(* slot could call the disconnect operation" (signal.h), and its           *)
(* "thread-safety is guaranteed against concurrent connect() and           *)
(* disconnect() calls" (signal.cpp); an object "is automatically           *)
(* disconnected from all connected signals when it gets destroyed"         *)
(* (object.cpp).  So no emission, message, disconnection or destructor     *)
(* uses a method, an object or a signal that was deleted.                  *)
NothingDeletedUsed == ~misused

(* What the code does give.  The lists of the signals and of the objects   *)
(* agree, so that a slot is connected only as long as its object is there  *)
(* and will be disconnected by its destructor, unless                      *)
(* Object::disconnect() made the object forget the signal while this slot  *)
(* stayed (stranded); an object names no signal that is gone; and          *)
(* something deleted is used only by the call of a slot that was           *)
(* disconnected after the emission began or the message was posted, by a   *)
(* destructor whose signal was deleted under it (pulled), or for a         *)
(* stranded slot whose object is gone.                                     *)
SlotsConnected ==
    /\ SignalTypeOK
    /\ \A s \in Signals : \A m \in ToSet(slots[s]) \ stranded[s] :
         /\ {s, m.object} \subseteq undeleted
         /\ s \in signals[m.object] \/ (m.object = dying /\ s \in leaving)
    /\ \A o \in Receivers : signals[o] \subseteq undeleted
    /\ misused =>
         pulled \/ \E s \in Signals : \E m \in stranded[s] :
                      m.object \notin undeleted

(* Every slot that was connected when a signal was emitted is called, and  *)
(* a message about it is delivered or goes away with its object, unless    *)
(* something that was deleted is used.                                     *)
EmissionEnds ==
    /\ (emission # <<>>) ~> (misused \/ (emission = <<>> /\ inSlot = NoMethod))
    /\ \A i \in 1 .. MaxMethods :
         (\E m \in ToSet(posted) : m.id = i)
             ~> (misused \/ ~(\E m \in ToSet(posted) : m.id = i))
=============================================================================
