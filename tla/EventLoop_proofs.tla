-------------------------- MODULE EventLoop_proofs --------------------------
(***************************************************************************)
(* The safety of what the event loop of a thread serves.  Of MessageLoop:  *)
(* the message lists, for any threads, objects, calls and families of      *)
(* objects, and any number of moves.  Its theorems hold when an object is  *)
(* not moved while another thread is between reading its thread and        *)
(* pushing a message (Synchronised): a call that read a thread the object  *)
(* has left since would push to the wrong list.  Of Events: the lists of   *)
(* timers and notifiers stay sound whatever the slots do, no signal is     *)
(* emitted early or to an object that was told to be quiet, and the slots  *)
(* of an object go away with it.                                           *)
(***************************************************************************)
EXTENDS MessageLoop, Events, ListFacts, FiniteSetTheorems

-----------------------------------------------------------------------------
(***************************************************************************)
(* MessageLoop.                                                            *)
(***************************************************************************)

(* A message is posted once, so that taking one off the list removes no    *)
(* other of its object.                                                    *)
PostedOnce ==
    \A o \in Objects :
        /\ IsInjective(order[o])
        /\ \A c \in ToSet(order[o]) : call[c] \notin {"idle", "read"}

(* An object and its children are bound to one thread: moveObject() looks  *)
(* for the messages of all of them in one list.                            *)
FamiliesTogether ==
    \A p \in Objects : \A k \in ToSet(ChildrenOf[p]) :
        thread[p] # NoThread /\ thread[k] # NoThread => thread[k] = thread[p]

(* The thread that a call has read is still the thread of its object.      *)
TargetsCurrent ==
    \A c \in Calls : call[c] = "read" =>
        target[c] \in Threads /\ target[c] = thread[ReceiverOf[c]]

(* The inductive invariant.  PendingInOrder alone is not: a move would     *)
(* lose the messages of a child in another thread, a call could push to a  *)
(* list the object has left, and a message that was there twice would be   *)
(* counted twice.                                                          *)
LoopInv ==
    /\ TypeOK /\ MessagesWithTheirObject /\ PendingInOrder /\ PostedOnce
    /\ FamiliesTogether /\ TargetsCurrent

(* What a list holds: messages and null pointers.                          *)
Entries == Calls \cup {NoCall}

(* What MessagesFor selects.                                               *)
LEMMA Selected ==
  ASSUME NEW o \in Objects, NEW S \in Seq(Entries)
  PROVE  /\ MessagesFor(o, S) \in Seq(Calls)
         /\ ToSet(MessagesFor(o, S)) =
                {c \in ToSet(S) : c # NoCall /\ ReceiverOf[c] = o}
  <1> DEFINE m == MessagesFor(o, S)
  <1>1. m \in Seq(Entries) /\ ToSet(m) = ToSet(S) \ ForOthers(o)
    BY WithoutProperties DEF MessagesFor
  <1> HIDE DEF m
  <1>2. ToSet(S) \subseteq Entries
    BY DEF ToSet
  <1>3. ToSet(m) \subseteq Calls
    BY <1>1, <1>2 DEF Entries, ForOthers
  <1>4. m \in Seq(Calls)
    BY <1>1, <1>3, ListOf
  <1>5. ToSet(m) = {c \in ToSet(S) : c # NoCall /\ ReceiverOf[c] = o}
    BY <1>1, <1>2 DEF Entries, ForOthers
  <1> QED
    BY <1>4, <1>5 DEF m

(* The message that postMessage() pushes is the last of its object, and    *)
(* none of another.                                                        *)
LEMMA SelectedPush ==
  ASSUME NEW o \in Objects, NEW S \in Seq(Entries), NEW c \in Calls
  PROVE  MessagesFor(o, Append(S, c)) =
            IF ReceiverOf[c] = o THEN Append(MessagesFor(o, S), c)
            ELSE MessagesFor(o, S)
  <1>1. c \in Entries /\ (c \in ForOthers(o) <=> ReceiverOf[c] # o)
    BY CallAssumption DEF Entries, ForOthers
  <1> DEFINE G == ForOthers(o)
  <1> HIDE DEF G
  <1>2. Without(Append(S, c), G) =
            IF c \in G THEN Without(S, G) ELSE Append(Without(S, G), c)
    BY <1>1, WithoutAppend
  <1> QED
    BY <1>1, <1>2 DEF MessagesFor, G

(* dispatchMessages() takes the first message: the first of its object,    *)
(* and none of another.                                                    *)
LEMMA SelectedTake ==
  ASSUME NEW o \in Objects, NEW S \in Seq(Entries), NEW i \in 1 .. Len(S),
         S[i] # NoCall, \A j \in 1 .. i - 1 : S[j] = NoCall
  PROVE  LET rest == MessagesFor(o, SubSeq(S, i + 1, Len(S)))
         IN  MessagesFor(o, S) = IF ReceiverOf[S[i]] = o THEN <<S[i]>> \o rest
                                 ELSE rest
  <1> DEFINE G == ForOthers(o)
             rest == Without(SubSeq(S, i + 1, Len(S)), G)
  <1>1. S[i] \in Calls
    BY DEF Entries
  <1>2. S[i] \in G <=> ReceiverOf[S[i]] # o
    BY <1>1, CallAssumption DEF ForOthers
  <1>3. \A j \in 1 .. i - 1 : S[j] \in G
    BY DEF ForOthers
  <1> HIDE DEF G
  <1>4. Without(S, G) = IF S[i] \in G THEN rest ELSE <<S[i]>> \o rest
    BY <1>3, WithoutPrefix
  <1> HIDE DEF rest
  <1> QED
    BY <1>2, <1>4 DEF MessagesFor, G, rest

(* Replacing messages of others by null pointers changes nothing for o,    *)
(* replacing all of its own leaves none.                                   *)
LEMMA SelectedNulled ==
  ASSUME NEW o \in Objects, NEW S \in Seq(Entries), NEW gone
  PROVE  /\ Nulled(S, gone) \in Seq(Entries)
         /\ Len(Nulled(S, gone)) = Len(S)
         /\ (\A c \in ToSet(S) \cap gone : c = NoCall \/ ReceiverOf[c] # o)
              => MessagesFor(o, Nulled(S, gone)) = MessagesFor(o, S)
         /\ ToSet(MessagesFor(o, S)) \subseteq gone
              => MessagesFor(o, Nulled(S, gone)) = <<>>
  <1> DEFINE N == Nulled(S, gone)
  <1>0. Len(S) \in Nat /\ DOMAIN S = 1 .. Len(S)
        /\ \A i \in 1 .. Len(S) : S[i] \in Entries
    OBVIOUS
  <1>1. N = [i \in 1 .. Len(S) |-> IF S[i] \in gone THEN NoCall ELSE S[i]]
    BY <1>0 DEF Nulled
  <1>2. N \in [1 .. Len(S) -> Entries]
    BY <1>0, <1>1 DEF Entries
  <1>3. N \in Seq(Entries) /\ Len(N) = Len(S)
    BY <1>0, <1>2, SeqDef
  <1>4. \A i \in 1 .. Len(S) : N[i] = IF S[i] \in gone THEN NoCall ELSE S[i]
    BY <1>1
  <1> HIDE DEF N
  <1>5. ASSUME \A c \in ToSet(S) \cap gone : c = NoCall \/ ReceiverOf[c] # o
        PROVE  MessagesFor(o, N) = MessagesFor(o, S)
    <2> DEFINE G == ForOthers(o)
    <2>1. \A i \in 1 .. Len(S) : S[i] \in gone => S[i] \in G
      BY <1>0, <1>5 DEF ToSet, ForOthers, Entries
    <2>2. NoCall \in G
      BY DEF ForOthers
    <2> HIDE DEF G
    <2>3. \A i \in 1 .. Len(N) : \/ N[i] \in G /\ S[i] \in G
                                 \/ N[i] \notin G /\ S[i] \notin G /\ N[i] = S[i]
      BY <1>3, <1>4, <2>1, <2>2
    <2>4. Without(N, G) = Without(S, G)
      BY <1>3, <2>3, WithoutSame
    <2> QED
      BY <2>4 DEF MessagesFor, G
  <1>6. ASSUME ToSet(MessagesFor(o, S)) \subseteq gone
        PROVE  MessagesFor(o, N) = <<>>
    <2>1. \A c \in ToSet(S) : c # NoCall /\ ReceiverOf[c] = o => c \in gone
      BY <1>6, Selected
    <2>2. ASSUME NEW i \in 1 .. Len(N) PROVE N[i] \in ForOthers(o)
      <3>1. S[i] \in ToSet(S) /\ S[i] \in Entries
        BY <1>0, <1>3 DEF ToSet
      <3>2. N[i] = IF S[i] \in gone THEN NoCall ELSE S[i]
        BY <1>3, <1>4
      <3> QED
        BY <2>1, <3>1, <3>2 DEF ForOthers, Entries
    <2>3. ToSet(N) \subseteq ForOthers(o)
      <3>1. DOMAIN N = 1 .. Len(N)
        BY <1>3
      <3> QED
        BY <2>2, <3>1 DEF ToSet
    <2> QED
      BY <1>3, <2>3, WithoutAll DEF MessagesFor
  <1> QED
    BY <1>3, <1>5, <1>6 DEF N

(* Of the messages for g, all are for g.                                   *)
LEMMA SelectedTwice ==
  ASSUME NEW k \in Objects, NEW g \in Objects, NEW S \in Seq(Entries)
  PROVE  MessagesFor(k, MessagesFor(g, S)) =
            IF k = g THEN MessagesFor(k, S) ELSE <<>>
  <1> DEFINE m == MessagesFor(g, S)
  <1>1. /\ m \in Seq(Calls)
        /\ ToSet(m) = {c \in ToSet(S) : c # NoCall /\ ReceiverOf[c] = g}
    BY Selected
  <1> HIDE DEF m
  <1>2. ToSet(m) \subseteq Calls
    BY <1>1 DEF ToSet
  <1>3. CASE k = g
    <2>1. ToSet(m) \cap ForOthers(k) = {}
      BY <1>1, <1>3 DEF ForOthers
    <2>2. MessagesFor(k, m) = m
      BY <1>1, <2>1, WithoutNone DEF MessagesFor
    <2> QED
      BY <1>3, <2>2 DEF m
  <1>4. CASE k # g
    <2>1. ToSet(m) \subseteq ForOthers(k)
      BY <1>1, <1>2, <1>4 DEF ForOthers
    <2>2. MessagesFor(k, m) = <<>>
      BY <1>1, <2>1, WithoutAll DEF MessagesFor
    <2> QED
      BY <1>4, <2>2 DEF m
  <1> QED
    BY <1>3, <1>4

(* What moveObject() appends to the list of the new thread: the messages   *)
(* of the objects it visits, and those of each in their order.             *)
LEMMA MovedMessages ==
  ASSUME NEW S \in Seq(Entries), NEW family \in Seq(Objects),
         family # <<>>, IsInjective(family),
         NEW moved,
         moved = FlattenSeq([i \in DOMAIN family |-> MessagesFor(family[i], S)])
  PROVE  /\ moved \in Seq(Calls)
         /\ ToSet(moved) = {c \in ToSet(S) :
                c # NoCall /\ ReceiverOf[c] \in ToSet(family)}
         /\ \A k \in Objects : MessagesFor(k, moved) =
                IF k \in ToSet(family) THEN MessagesFor(k, S) ELSE <<>>
  <1> DEFINE n == Len(family)
             parts == [i \in DOMAIN family |-> MessagesFor(family[i], S)]
  <1>0. /\ n \in Nat \ {0} /\ DOMAIN family = 1 .. n
        /\ \A i \in 1 .. n : family[i] \in Objects
    BY EmptySeq
  <1>1. /\ DOMAIN parts = 1 .. n
        /\ \A i \in 1 .. n : /\ parts[i] = MessagesFor(family[i], S)
                             /\ parts[i] \in Seq(Calls)
    BY <1>0, Selected
  <1>2. parts \in Seq(Seq(Calls)) /\ Len(parts) = n
    <2>1. parts \in [1 .. n -> Seq(Calls)]
      <3> HIDE DEF n
      <3> QED
        BY <1>0, Selected
    <2> HIDE DEF parts
    <2> QED
      BY <1>0, <1>1, <2>1, SeqDef
  <1> HIDE DEF parts
  <1>3. parts # <<>>
    BY <1>0, <1>2
  <1>4. PICK f : /\ FlattenSeq(parts) = f[n] /\ f[1] = parts[1]
                 /\ \A i \in 2 .. n : f[i] = f[i - 1] \o parts[i]
    <2> HIDE DEF n
    <2>1. \E f : /\ FlattenSeq(parts) = f[Len(parts)] /\ f[1] = parts[1]
                 /\ \A i \in 2 .. Len(parts) : f[i] = f[i - 1] \o parts[i]
      BY <1>2, <1>3, FlattenComputed
    <2> QED
      BY <1>2, <2>1
  <1> DEFINE Visited(i) == {family[j] : j \in 1 .. i}
             Right(i) ==
               /\ f[i] \in Seq(Calls)
               /\ ToSet(f[i]) = {c \in ToSet(S) :
                      c # NoCall /\ ReceiverOf[c] \in Visited(i)}
               /\ \A k \in Objects : MessagesFor(k, f[i]) =
                      IF k \in Visited(i) THEN MessagesFor(k, S) ELSE <<>>
             good == {i \in 0 .. n : i = 0 \/ Right(i)}
  <1>5. ASSUME NEW i \in 1 .. n
        PROVE  /\ ToSet(parts[i]) = {c \in ToSet(S) :
                      c # NoCall /\ ReceiverOf[c] = family[i]}
               /\ \A k \in Objects : MessagesFor(k, parts[i]) =
                      IF k = family[i] THEN MessagesFor(k, S) ELSE <<>>
    <2>1. family[i] \in Objects /\ parts[i] = MessagesFor(family[i], S)
      BY <1>0, <1>1
    <2>2. ToSet(MessagesFor(family[i], S)) = {c \in ToSet(S) :
                      c # NoCall /\ ReceiverOf[c] = family[i]}
      BY <2>1, Selected
    <2>3. \A k \in Objects : MessagesFor(k, MessagesFor(family[i], S)) =
                      IF k = family[i] THEN MessagesFor(k, S) ELSE <<>>
      BY <2>1, SelectedTwice
    <2> QED
      BY <2>1, <2>2, <2>3
  <1> HIDE DEF n
  <1>6. 0 \in good
    BY <1>0
  <1>7. ASSUME NEW i \in 1 .. n, i - 1 \in good PROVE i \in good
    <2>0. i \in 0 .. n /\ i \in Nat /\ i \in DOMAIN family
      BY <1>0
    <2>1. CASE i = 1
      <3>1. Visited(i) = {family[i]}
        BY <2>1
      <3>2. f[i] = parts[i] /\ parts[i] \in Seq(Calls)
        BY <1>1, <1>4, <2>1
      <3> HIDE DEF Visited
      <3>3. Right(i)
        BY <1>5, <3>1, <3>2
      <3> QED
        BY <2>0, <3>3
    <2>2. CASE i # 1
      <3>0. i \in 2 .. n /\ i - 1 # 0
        BY <2>0, <2>2
      <3>1. Right(i - 1) /\ f[i] = f[i - 1] \o parts[i]
        BY <1>4, <1>7, <3>0
      <3>2. Visited(i) = Visited(i - 1) \cup {family[i]}
        BY <2>0
      <3>3. family[i] \notin Visited(i - 1)
        BY <1>0, <2>0 DEF IsInjective
      <3> DEFINE a == f[i - 1]
                 b == parts[i]
                 V == Visited(i - 1)
      <3>4. /\ a \in Seq(Calls) /\ b \in Seq(Calls)
            /\ a \in Seq(Entries) /\ b \in Seq(Entries)
        <4>1. a \in Seq(Calls) /\ b \in Seq(Calls)
          BY <1>1, <3>1
        <4> HIDE DEF a, b
        <4> QED
          BY <4>1, SeqMonotonic DEF Entries
      <3>5. /\ ToSet(a) = {c \in ToSet(S) : c # NoCall /\ ReceiverOf[c] \in V}
            /\ \A k \in Objects : MessagesFor(k, a) =
                      IF k \in V THEN MessagesFor(k, S) ELSE <<>>
        BY <3>1
      <3>6. /\ ToSet(b) = {c \in ToSet(S) :
                      c # NoCall /\ ReceiverOf[c] = family[i]}
            /\ \A k \in Objects : MessagesFor(k, b) =
                      IF k = family[i] THEN MessagesFor(k, S) ELSE <<>>
        BY <1>5
      <3> HIDE DEF a, b, V, Visited
      <3>7. a \o b \in Seq(Calls) /\ ToSet(a \o b) = ToSet(a) \cup ToSet(b)
        BY <3>4, ConcatElements
      <3>8. ASSUME NEW k \in Objects
            PROVE  MessagesFor(k, a \o b) =
                      IF k \in V \cup {family[i]} THEN MessagesFor(k, S) ELSE <<>>
        <4> DEFINE M == MessagesFor(k, S)
        <4>1. MessagesFor(k, a \o b) = MessagesFor(k, a) \o MessagesFor(k, b)
          BY <3>4, WithoutConcat DEF MessagesFor
        <4>2. M \in Seq(Calls)
          BY Selected
        <4> HIDE DEF M
        <4>3. M \o <<>> = M /\ <<>> \o M = M
          BY <4>2, ConcatEmptySeq
        <4>4. <<>> \o <<>> = <<>>
          OBVIOUS
        <4>5. MessagesFor(k, a) = IF k \in V THEN M ELSE <<>>
          BY <3>5 DEF M
        <4>6. MessagesFor(k, b) = IF k = family[i] THEN M ELSE <<>>
          BY <3>6 DEF M
        <4>7. family[i] \notin V
          BY <3>3 DEF V
        <4>8. CASE k \in V
          <5>1. MessagesFor(k, a) = M /\ MessagesFor(k, b) = <<>>
            BY <4>5, <4>6, <4>7, <4>8
          <5> QED
            BY <4>1, <4>3, <4>8, <5>1 DEF M
        <4>9. CASE k = family[i]
          <5>1. MessagesFor(k, a) = <<>> /\ MessagesFor(k, b) = M
            BY <4>5, <4>6, <4>7, <4>9
          <5> QED
            BY <4>1, <4>3, <4>9, <5>1 DEF M
        <4>10. CASE k \notin V \cup {family[i]}
          <5>1. MessagesFor(k, a) = <<>> /\ MessagesFor(k, b) = <<>>
            BY <4>5, <4>6, <4>10
          <5> QED
            BY <4>1, <4>4, <4>10, <5>1 DEF M
        <4> QED
          BY <4>8, <4>9, <4>10
      <3>9. f[i] = a \o b /\ Visited(i) = V \cup {family[i]}
        BY <3>1, <3>2 DEF a, b, V
      <3>10. ToSet(f[i]) = {c \in ToSet(S) :
                      c # NoCall /\ ReceiverOf[c] \in Visited(i)}
        <4>1. ToSet(a) \cup ToSet(b) = {c \in ToSet(S) :
                      c # NoCall /\ ReceiverOf[c] \in V \cup {family[i]}}
          BY <3>5, <3>6
        <4> QED
          BY <3>7, <3>9, <4>1
      <3>11. Right(i)
        BY <3>7, <3>8, <3>9, <3>10
      <3> QED
        BY <2>0, <3>11
    <2> QED
      BY <2>1, <2>2
  <1> HIDE DEF good
  <1>8. \A i \in 0 .. n : i \in good
    <2>1. n \in Nat
      BY <1>0
    <2> QED
      BY <1>6, <1>7, <2>1, UpTo
  <1>9. Right(n)
    <2>1. n \in good /\ n # 0
      BY <1>0, <1>8
    <2> QED
      BY <2>1 DEF good
  <1>10. Visited(n) = ToSet(family)
    BY <1>0 DEF ToSet
  <1>11. moved = f[n]
    BY <1>4 DEF parts
  <1> HIDE DEF Visited
  <1> QED
    BY <1>9, <1>10, <1>11

(* Messages that are posted once are not more than the calls.              *)
LEMMA Counted ==
  ASSUME NEW S \in Seq(Calls), IsInjective(S)
  PROVE  Len(S) \in 0 .. Cardinality(Calls)
  <1>1. Len(S) \in Nat /\ DOMAIN S = 1 .. Len(S)
        /\ S \in [1 .. Len(S) -> Calls]
    BY LenProperties
  <1>2. S \in Injection(1 .. Len(S), Calls)
    BY <1>1 DEF IsInjective, Injection
  <1>3. Cardinality(1 .. Len(S)) <= Cardinality(Calls)
    BY <1>2, CallAssumption, FS_Injection
  <1>4. Cardinality(1 .. Len(S)) = Len(S)
    BY <1>1, FS_Interval
  <1>5. Cardinality(Calls) \in Nat
    BY CallAssumption, FS_CardinalityType
  <1> QED
    BY <1>1, <1>3, <1>4, <1>5

(* Counters of such messages are in their range.                           *)
LEMMA CountersTyped ==
  ASSUME NEW ord \in [Objects -> Seq(Calls)], NEW pend,
         pend = [o \in Objects |-> pend[o]],
         \A o \in Objects : IsInjective(ord[o]) /\ pend[o] = Len(ord[o])
  PROVE  pend \in [Objects -> 0 .. Cardinality(Calls)]
  <1>1. ASSUME NEW o \in Objects PROVE pend[o] \in 0 .. Cardinality(Calls)
    <2>1. ord[o] \in Seq(Calls) /\ IsInjective(ord[o]) /\ pend[o] = Len(ord[o])
      OBVIOUS
    <2> QED
      BY <2>1, Counted
  <1> QED
    BY <1>1

(* A step that leaves objects and lists alone.                             *)
LEMMA FrameInv ==
  ASSUME LoopInv, UNCHANGED objectVars, TypeOK', TargetsCurrent',
         \A c \in Calls : call[c] \notin {"idle", "read"}
                            => call'[c] \notin {"idle", "read"}
  PROVE  LoopInv'
  <1>1. MessagesWithTheirObject' /\ PendingInOrder' /\ FamiliesTogether'
    BY DEF LoopInv, objectVars, MessagesWithTheirObject, PendingInOrder,
           FamiliesTogether, MessagesFor, ForOthers
  <1>2. PostedOnce'
    <2>1. \A o \in Objects : ToSet(order[o]) \subseteq Calls
      BY DEF LoopInv, TypeOK, ToSet
    <2> QED
      BY <2>1 DEF LoopInv, PostedOnce, objectVars
  <1> QED
    BY <1>1, <1>2 DEF LoopInv

(* The steps of callers that do not touch a list.                          *)
LEMMA CallerInv ==
  ASSUME LoopInv, NEW c \in Calls, ReadThread(c) \/ Interrupt(c) \/ Acquired(c)
  PROVE  LoopInv'
  <1>1. UNCHANGED objectVars
    BY DEF ReadThread, Interrupt, Acquired
  <1>2. TypeOK'
    <2>1. CASE ReadThread(c)
      BY <1>1, <2>1, CallAssumption DEF LoopInv, TypeOK, ReadThread, CallStep,
             objectVars, loopVars
    <2>2. CASE Interrupt(c)
      BY <1>1, <2>2, CallAssumption DEF LoopInv, TypeOK, Interrupt, CallStep,
             WakeUp, objectVars
    <2>3. CASE Acquired(c)
      BY <1>1, <2>3, CallAssumption DEF LoopInv, TypeOK, Acquired, CallStep,
             objectVars, loopVars
    <2> QED
      BY <2>1, <2>2, <2>3
  <1>3. TargetsCurrent'
    <2>1. CASE ReadThread(c)
      <3>1. ReceiverOf[c] \in Objects /\ thread' = thread
        BY <1>1, CallAssumption DEF objectVars
      <3>2. thread[ReceiverOf[c]] \in Threads
        BY <2>1, <3>1 DEF LoopInv, TypeOK, ReadThread
      <3>3. /\ target' = [target EXCEPT ![c] = thread[ReceiverOf[c]]]
            /\ call' = [call EXCEPT ![c] = "read"]
        BY <2>1 DEF ReadThread, CallStep
      <3> SUFFICES ASSUME NEW d \in Calls, call'[d] = "read"
                   PROVE  target'[d] \in Threads
                          /\ target'[d] = thread[ReceiverOf[d]]
        BY <3>1 DEF TargetsCurrent
      <3>4. CASE d = c
        BY <3>2, <3>3, <3>4 DEF LoopInv, TypeOK
      <3>5. CASE d # c
        BY <3>3, <3>5 DEF LoopInv, TypeOK, TargetsCurrent
      <3> QED
        BY <3>4, <3>5
    <2>2. CASE Interrupt(c)
      BY <1>1, <2>2 DEF LoopInv, TypeOK, TargetsCurrent, Interrupt, CallStep,
             objectVars
    <2>3. CASE Acquired(c)
      BY <1>1, <2>3 DEF LoopInv, TypeOK, TargetsCurrent, Acquired, CallStep,
             objectVars
    <2> QED
      BY <2>1, <2>2, <2>3
  <1>4. \A d \in Calls : call[d] \notin {"idle", "read"}
                            => call'[d] \notin {"idle", "read"}
    BY DEF LoopInv, TypeOK, ReadThread, Interrupt, Acquired, CallStep
  <1> QED
    BY <1>1, <1>2, <1>3, <1>4, FrameInv

(* The steps of an event loop that do not touch a list, and exit().        *)
LEMMA LoopTurnInv ==
  ASSUME LoopInv, NEW t \in Threads,
         \/ Start(t) \/ Exec(t) \/ CheckExit(t) \/ Handled(t) \/ Poll(t)
         \/ ExitFlag(t) \/ ExitInterrupt(t)
  PROVE  LoopInv'
  <1>1. UNCHANGED objectVars /\ UNCHANGED callVars
    BY DEF Start, Exec, CheckExit, Handled, Poll, ExitFlag, ExitInterrupt
  <1>2. TypeOK'
    <2>1. CASE Start(t)
      BY <1>1, <2>1, CallAssumption DEF LoopInv, TypeOK, Start, LoopStep,
             objectVars, callVars
    <2>2. CASE ~Start(t)
      BY <1>1, <2>2 DEF LoopInv, TypeOK, Exec, CheckExit, Handled, Poll,
             ExitFlag, ExitInterrupt, LoopStep, WakeUp, Release,
             objectVars, callVars
    <2> QED
      BY <2>1, <2>2
  <1>3. TargetsCurrent'
    BY <1>1 DEF LoopInv, TargetsCurrent, objectVars, callVars
  <1>4. \A d \in Calls : call'[d] = call[d]
    BY <1>1 DEF callVars
  <1> QED
    BY <1>1, <1>2, <1>3, <1>4, FrameInv

(* Thread::postMessage().                                                  *)
LEMMA PushInv ==
  ASSUME LoopInv, NEW c \in Calls, Push(c)
  PROVE  LoopInv'
  <1> DEFINE t == target[c]
             o == ReceiverOf[c]
  <1>1. /\ call[c] = "read" /\ call' = [call EXCEPT ![c] = "pushed"]
        /\ list' = [list EXCEPT ![t] = Append(@, c)]
        /\ pending' = [pending EXCEPT ![o] = @ + 1]
        /\ order' = [order EXCEPT ![o] = Append(@, c)]
        /\ UNCHANGED <<thread, loopVars, target, moves>>
    BY DEF Push, CallStep, PushBack
  <1>2. o \in Objects /\ t \in Threads /\ thread[o] = t /\ t # NoThread
    BY <1>1, CallAssumption DEF LoopInv, TargetsCurrent
  <1>3. \A u \in Threads : list[u] \in Seq(Entries)
    BY DEF LoopInv, TypeOK, Entries
  <1>4. \A k \in Objects : order[k] \in Seq(Calls) /\ pending[k] \in Nat
    <2>1. Cardinality(Calls) \in Nat
      BY CallAssumption, FS_CardinalityType
    <2> QED
      BY <2>1 DEF LoopInv, TypeOK
  <1> HIDE DEF t, o
  <1>5. /\ list' = [u \in Threads |-> IF u = t THEN Append(list[u], c)
                                               ELSE list[u]]
        /\ order' = [k \in Objects |-> IF k = o THEN Append(order[k], c)
                                                ELSE order[k]]
        /\ pending' = [k \in Objects |-> IF k = o THEN pending[k] + 1
                                                  ELSE pending[k]]
    BY <1>1, <1>2 DEF LoopInv, TypeOK
  <1>6. list' \in [Threads -> Seq(Entries)] /\ order' \in [Objects -> Seq(Calls)]
    <2>1. c \in Entries
      BY DEF Entries
    <2>2. \A u \in Threads : Append(list[u], c) \in Seq(Entries)
      BY <1>3, <2>1
    <2>3. \A k \in Objects : Append(order[k], c) \in Seq(Calls)
      BY <1>4
    <2> QED
      BY <1>3, <1>4, <1>5, <2>2, <2>3
  <1>7. MessagesWithTheirObject'
    <2> SUFFICES ASSUME NEW u \in Threads, NEW i \in DOMAIN list'[u],
                        list'[u][i] # NoCall
                 PROVE  thread[ReceiverOf[list'[u][i]]] = u
      BY <1>1 DEF MessagesWithTheirObject
    <2>1. CASE u = t
      <3>1. list'[u] = Append(list[u], c)
        BY <1>5, <2>1
      <3>2. /\ DOMAIN list'[u] = 1 .. Len(list[u]) + 1
            /\ DOMAIN list[u] = 1 .. Len(list[u]) /\ Len(list[u]) \in Nat
            /\ \A j \in 1 .. Len(list[u]) : list'[u][j] = list[u][j]
            /\ list'[u][Len(list[u]) + 1] = c
        BY <1>3, <3>1
      <3>3. CASE i \in 1 .. Len(list[u])
        BY <3>2, <3>3 DEF LoopInv, MessagesWithTheirObject
      <3>4. CASE i = Len(list[u]) + 1
        BY <1>2, <2>1, <3>2, <3>4 DEF o
      <3> QED
        BY <3>2, <3>3, <3>4
    <2>2. CASE u # t
      BY <1>5, <2>2 DEF LoopInv, MessagesWithTheirObject
    <2> QED
      BY <2>1, <2>2
  <1>8. PendingInOrder'
    <2> SUFFICES ASSUME NEW k \in Objects
                 PROVE  /\ pending'[k] = Len(order'[k])
                        /\ order'[k] = IF thread[k] = NoThread THEN <<>>
                                       ELSE MessagesFor(k, list'[thread[k]])
      <3>1. thread' = thread
        BY <1>1
      <3> QED
        BY <3>1 DEF PendingInOrder
    <2>1. /\ pending[k] = Len(order[k])
          /\ order[k] = IF thread[k] = NoThread THEN <<>>
                        ELSE MessagesFor(k, list[thread[k]])
      BY DEF LoopInv, PendingInOrder
    <2>2. MessagesFor(k, Append(list[t], c)) =
            IF o = k THEN Append(MessagesFor(k, list[t]), c)
            ELSE MessagesFor(k, list[t])
      BY <1>2, <1>3, SelectedPush DEF o
    <2>3. CASE k = o
      <3>1. order'[k] = Append(order[k], c) /\ pending'[k] = pending[k] + 1
        BY <1>5, <2>3
      <3>2. Len(Append(order[k], c)) = Len(order[k]) + 1
        BY <1>4
      <3>3. order'[k] = MessagesFor(k, list'[t])
        BY <1>2, <1>5, <2>1, <2>2, <2>3, <3>1
      <3> QED
        BY <1>2, <2>1, <2>3, <3>1, <3>2, <3>3
    <2>4. CASE k # o
      <3>1. order'[k] = order[k] /\ pending'[k] = pending[k]
        BY <1>5, <2>4
      <3>2. thread[k] # NoThread => thread[k] \in Threads
        BY DEF LoopInv, TypeOK
      <3>3. thread[k] = t => MessagesFor(k, list'[t]) = MessagesFor(k, list[t])
        BY <1>2, <1>5, <2>2, <2>4
      <3>4. thread[k] # NoThread /\ thread[k] # t
               => list'[thread[k]] = list[thread[k]]
        BY <1>5, <3>2
      <3> QED
        BY <2>1, <3>1, <3>3, <3>4
    <2> QED
      BY <2>3, <2>4
  <1>9. PostedOnce'
    <2> SUFFICES ASSUME NEW k \in Objects
                 PROVE  /\ IsInjective(order'[k])
                        /\ \A d \in ToSet(order'[k]) :
                              call'[d] \notin {"idle", "read"}
      BY DEF PostedOnce
    <2>1. /\ IsInjective(order[k]) /\ ToSet(order[k]) \subseteq Calls
          /\ \A d \in ToSet(order[k]) : call[d] \notin {"idle", "read"}
      BY <1>4 DEF LoopInv, PostedOnce, ToSet
    <2>2. \A d \in ToSet(order[k]) : d # c /\ call'[d] = call[d]
      BY <1>1, <2>1 DEF LoopInv, TypeOK
    <2>3. call'[c] = "pushed"
      BY <1>1 DEF LoopInv, TypeOK
    <2>4. CASE k = o
      <3>1. order'[k] = Append(order[k], c)
        BY <1>5, <2>4
      <3>2. /\ ToSet(Append(order[k], c)) = ToSet(order[k]) \cup {c}
            /\ IsInjective(order[k]) /\ c \notin ToSet(order[k])
                 => IsInjective(Append(order[k], c))
        BY <1>4, AppendInjectiveNew
      <3> QED
        BY <2>1, <2>2, <2>3, <3>1, <3>2
    <2>5. CASE k # o
      BY <1>5, <2>1, <2>2, <2>5
    <2> QED
      BY <2>4, <2>5
  <1>10. TypeOK'
    <2>1. pending' \in [Objects -> 0 .. Cardinality(Calls)]
      <3>1. \A k \in Objects : IsInjective(order'[k])
                                /\ pending'[k] = Len(order'[k])
        BY <1>8, <1>9 DEF PostedOnce, PendingInOrder
      <3>2. pending' = [k \in Objects |-> pending'[k]]
        BY <1>5
      <3> QED
        BY <1>6, <3>1, <3>2, CountersTyped
    <2> QED
      BY <1>1, <1>6, <2>1 DEF LoopInv, TypeOK, Entries, loopVars
  <1>11. FamiliesTogether' /\ TargetsCurrent'
    BY <1>1 DEF LoopInv, FamiliesTogether, TargetsCurrent, TypeOK
  <1> QED
    BY <1>7, <1>8, <1>9, <1>10, <1>11 DEF LoopInv

(* What dispatchMessages() finds in a list.                                *)
LEMMA FirstFound ==
  ASSUME NEW t \in Threads, list[t] \in Seq(Entries)
  PROVE  \/ /\ FirstMessage(t) = 0
            /\ \A j \in 1 .. Len(list[t]) : list[t][j] = NoCall
         \/ /\ FirstMessage(t) \in 1 .. Len(list[t])
            /\ list[t][FirstMessage(t)] # NoCall
            /\ \A j \in 1 .. FirstMessage(t) - 1 : list[t][j] = NoCall
  <1> DEFINE I == {i \in 1 .. Len(list[t]) : list[t][i] # NoCall}
  <1>1. FirstMessage(t) = IF I # {} THEN Min(I) ELSE 0
    BY DEF FirstMessage, SelectInSeq
  <1>2. Len(list[t]) \in Nat
    OBVIOUS
  <1>3. CASE I = {}
    BY <1>1, <1>3
  <1>4. CASE I # {}
    <2>1. I \subseteq Nat
      OBVIOUS
    <2>2. Min(I) \in I /\ \A y \in I : Min(I) <= y
      BY <1>4, <2>1, LeastElement
    <2> DEFINE m == Min(I)
    <2> HIDE DEF m
    <2>3. m \in I /\ \A y \in I : m <= y
      BY <2>2 DEF m
    <2>4. /\ m \in 1 .. Len(list[t]) /\ list[t][m] # NoCall
          /\ \A j \in 1 .. m - 1 : list[t][j] = NoCall
      <3>1. m \in 1 .. Len(list[t]) /\ list[t][m] # NoCall
        BY <2>3
      <3>2. ASSUME NEW j \in 1 .. m - 1 PROVE list[t][j] = NoCall
        <4>1. j \in 1 .. Len(list[t]) /\ ~(m <= j)
          BY <1>2, <3>1
        <4>2. j \notin I
          <5> HIDE DEF I
          <5> QED
            BY <2>3, <4>1
        <4> QED
          BY <4>1, <4>2
      <3> QED
        BY <3>1, <3>2
    <2> QED
      BY <1>1, <1>4, <2>4 DEF m
  <1> QED
    BY <1>3, <1>4

(* Taking the first of messages that are there once.                       *)
LEMMA FirstTaken ==
  ASSUME NEW c \in Calls, NEW rest \in Seq(Calls), IsInjective(<<c>> \o rest)
  PROVE  /\ Without(<<c>> \o rest, {c}) = rest
         /\ Len(<<c>> \o rest) = Len(rest) + 1
         /\ IsInjective(rest)
         /\ ToSet(rest) \subseteq ToSet(<<c>> \o rest)
  <1> DEFINE one == <<c>>
             all == one \o rest
  <1>1. one \in Seq(Calls) /\ Len(one) = 1 /\ one[1] = c /\ ToSet(one) = {c}
    BY DEF ToSet
  <1> HIDE DEF one
  <1>2. /\ all \in Seq(Calls) /\ Len(all) = Len(one) + Len(rest)
        /\ \A i \in 1 .. Len(one) + Len(rest) :
              all[i] = IF i <= Len(one) THEN one[i] ELSE rest[i - Len(one)]
    BY <1>1, ConcatProperties
  <1>3. Without(all, {c}) = Without(one, {c}) \o Without(rest, {c})
    BY <1>1, WithoutConcat
  <1>4. IsInjective(all)
    BY DEF one
  <1>5. ToSet(rest) \subseteq ToSet(all)
    BY <1>1, ConcatElements
  <1> HIDE DEF all
  <1>6. /\ Len(rest) \in Nat /\ DOMAIN rest = 1 .. Len(rest)
        /\ DOMAIN all = 1 .. Len(rest) + 1 /\ all[1] = c
        /\ \A i \in 1 .. Len(rest) : all[i + 1] = rest[i]
    <2>1. /\ Len(rest) \in Nat /\ DOMAIN rest = 1 .. Len(rest)
          /\ DOMAIN all = 1 .. Len(rest) + 1 /\ all[1] = c
      BY <1>1, <1>2
    <2>2. ASSUME NEW i \in 1 .. Len(rest) PROVE all[i + 1] = rest[i]
      <3>1. i + 1 \in 1 .. Len(one) + Len(rest) /\ ~(i + 1 <= Len(one))
            /\ i + 1 - Len(one) = i
        BY <1>1, <2>1
      <3> QED
        BY <1>2, <3>1
    <2> QED
      BY <2>1, <2>2
  <1>7. ASSUME NEW i \in 1 .. Len(rest), NEW j \in 1 .. Len(rest),
               rest[i] = rest[j]
        PROVE  i = j
    <2>1. i + 1 \in DOMAIN all /\ j + 1 \in DOMAIN all /\ all[i + 1] = all[j + 1]
      BY <1>6, <1>7
    <2>2. i + 1 = j + 1
      BY <1>4, <2>1 DEF IsInjective
    <2> QED
      BY <2>2
  <1>8. c \notin ToSet(rest)
    <2> SUFFICES ASSUME NEW i \in 1 .. Len(rest), rest[i] = c PROVE FALSE
      BY <1>6 DEF ToSet
    <2>1. i + 1 \in DOMAIN all /\ 1 \in DOMAIN all /\ all[i + 1] = all[1]
      BY <1>6
    <2>2. i + 1 = 1
      BY <1>4, <2>1 DEF IsInjective
    <2> QED
      BY <1>6, <2>2
  <1>9. Without(one, {c}) = <<>>
    BY <1>1, WithoutAll
  <1>10. Without(rest, {c}) = rest
    BY <1>8, WithoutNone
  <1>11. <<>> \o rest = rest
    BY ConcatEmptySeq
  <1>12. Without(all, {c}) = rest
    BY <1>3, <1>9, <1>10, <1>11
  <1>13. IsInjective(rest)
    BY <1>6, <1>7 DEF IsInjective
  <1>14. Len(all) = Len(rest) + 1
    BY <1>1, <1>2, <1>6
  <1> QED
    BY <1>5, <1>12, <1>13, <1>14 DEF all, one

(* dispatchMessages() takes a message off the list.                        *)
LEMMA TakeInv ==
  ASSUME LoopInv, NEW t \in Threads, Take(t)
  PROVE  LoopInv'
  <1> DEFINE i == FirstMessage(t)
             c == list[t][i]
             o == ReceiverOf[c]
             left == SubSeq(list[t], i + 1, Len(list[t]))
  <1>0. \A u \in Threads : list[u] \in Seq(Entries)
    BY DEF LoopInv, TypeOK, Entries
  <1>1. /\ i \in 1 .. Len(list[t]) /\ c # NoCall
        /\ \A j \in 1 .. i - 1 : list[t][j] = NoCall
    BY <1>0, FirstFound DEF Take
  <1>2. /\ LoopStep(t, "dispatch", "handler")
        /\ handling' = [handling EXCEPT ![t] = c]
        /\ list' = [list EXCEPT ![t] = left]
        /\ pending' = [pending EXCEPT ![o] = @ - 1]
        /\ order' = [order EXCEPT ![o] = Without(@, {c})]
        /\ UNCHANGED <<thread, dispatcher, eventfd, exit, exiting, released,
                       starts, callVars, moves>>
    BY DEF Take
  <1> HIDE DEF i
  <1>3. c \in Calls /\ c \in ToSet(list[t])
    BY <1>0, <1>1 DEF Entries, ToSet
  <1>4. o \in Objects /\ thread[o] = t /\ t # NoThread
    <2>1. thread[o] = t
      BY <1>0, <1>1 DEF LoopInv, MessagesWithTheirObject
    <2> QED
      BY <1>3, <2>1, CallAssumption
  <1>5. left \in Seq(Entries) /\ ToSet(left) \subseteq ToSet(list[t])
    <2> DEFINE L == list[t]
    <2>1. L \in Seq(Entries) /\ i \in 1 .. Len(L)
      BY <1>0, <1>1
    <2> HIDE DEF L
    <2>2. /\ SubSeq(L, i + 1, Len(L)) \in Seq(Entries)
          /\ ToSet(SubSeq(L, i + 1, Len(L))) \subseteq ToSet(L)
      BY <2>1, SuffixProperties
    <2> QED
      BY <2>2 DEF L
  <1>6. \A k \in Objects : MessagesFor(k, list[t]) =
            IF o = k THEN <<c>> \o MessagesFor(k, left) ELSE MessagesFor(k, left)
    BY <1>0, <1>1, SelectedTake
  <1>7. \A k \in Objects :
            /\ pending[k] = Len(order[k])
            /\ order[k] = IF thread[k] = NoThread THEN <<>>
                          ELSE MessagesFor(k, list[thread[k]])
            /\ order[k] \in Seq(Calls) /\ IsInjective(order[k])
    BY DEF LoopInv, PendingInOrder, PostedOnce, TypeOK
  <1> DEFINE rest == MessagesFor(o, left)
  <1>8. rest \in Seq(Calls)
    BY <1>4, <1>5, Selected
  <1> HIDE DEF c, o, left
  <1>9. order[o] = <<c>> \o rest
    BY <1>4, <1>6, <1>7
  <1> HIDE DEF rest
  <1>10. /\ Without(order[o], {c}) = rest /\ Len(order[o]) = Len(rest) + 1
         /\ IsInjective(rest) /\ ToSet(rest) \subseteq ToSet(order[o])
    <2>1. IsInjective(<<c>> \o rest)
      BY <1>4, <1>7, <1>9
    <2>2. /\ Without(<<c>> \o rest, {c}) = rest
          /\ Len(<<c>> \o rest) = Len(rest) + 1
          /\ IsInjective(rest) /\ ToSet(rest) \subseteq ToSet(<<c>> \o rest)
      BY <1>3, <1>8, <2>1, FirstTaken
    <2> QED
      BY <1>9, <2>2
  <1>11. /\ list' = [u \in Threads |-> IF u = t THEN left ELSE list[u]]
         /\ order' = [k \in Objects |-> IF k = o THEN rest ELSE order[k]]
         /\ pending' = [k \in Objects |-> IF k = o THEN pending[k] - 1
                                                   ELSE pending[k]]
    BY <1>2, <1>4, <1>10 DEF LoopInv, TypeOK
  <1>12. MessagesWithTheirObject'
    <2> SUFFICES ASSUME NEW u \in Threads, NEW j \in DOMAIN list'[u],
                        list'[u][j] # NoCall
                 PROVE  thread[ReceiverOf[list'[u][j]]] = u
      BY <1>2 DEF MessagesWithTheirObject
    <2>1. list'[u][j] \in ToSet(list[u])
      <3>1. CASE u = t
        <4>1. list'[u] = left
          BY <1>11, <3>1
        <4>2. list'[u][j] \in ToSet(left)
          BY <4>1 DEF ToSet
        <4> QED
          BY <1>5, <3>1, <4>2
      <3>2. CASE u # t
        <4>1. list'[u] = list[u]
          BY <1>11, <3>2
        <4> QED
          BY <4>1 DEF ToSet
      <3> QED
        BY <3>1, <3>2
    <2>2. PICK n \in DOMAIN list[u] : list[u][n] = list'[u][j]
      BY <2>1 DEF ToSet
    <2> QED
      BY <2>2 DEF LoopInv, MessagesWithTheirObject
  <1>13. PendingInOrder'
    <2> SUFFICES ASSUME NEW k \in Objects
                 PROVE  /\ pending'[k] = Len(order'[k])
                        /\ order'[k] = IF thread[k] = NoThread THEN <<>>
                                       ELSE MessagesFor(k, list'[thread[k]])
      <3>1. thread' = thread
        BY <1>2
      <3> QED
        BY <3>1 DEF PendingInOrder
    <2>1. CASE k = o
      <3>1. /\ order'[k] = rest /\ list'[t] = left
            /\ pending'[k] = pending[k] - 1
        BY <1>11, <2>1
      <3>2. pending[k] = Len(rest) + 1 /\ Len(rest) \in Nat
        BY <1>7, <1>8, <1>10, <2>1
      <3>3. rest = MessagesFor(k, left)
        BY <2>1 DEF rest
      <3> QED
        BY <1>4, <2>1, <3>1, <3>2, <3>3
    <2>2. CASE k # o
      <3>1. order'[k] = order[k] /\ pending'[k] = pending[k]
        BY <1>11, <2>2
      <3>2. thread[k] # NoThread => thread[k] \in Threads
        BY DEF LoopInv, TypeOK
      <3>3. thread[k] = t => MessagesFor(k, list'[t]) = MessagesFor(k, list[t])
        BY <1>6, <1>11, <2>2
      <3>4. thread[k] # NoThread /\ thread[k] # t
               => list'[thread[k]] = list[thread[k]]
        BY <1>11, <3>2
      <3> QED
        BY <1>7, <3>1, <3>3, <3>4
    <2> QED
      BY <2>1, <2>2
  <1>14. PostedOnce'
    <2>1. call' = call
      BY <1>2 DEF callVars
    <2>2. ASSUME NEW k \in Objects
          PROVE  IsInjective(order'[k]) /\ ToSet(order'[k]) \subseteq ToSet(order[k])
      BY <1>7, <1>10, <1>11
    <2> QED
      BY <2>1, <2>2 DEF LoopInv, PostedOnce
  <1>15. TypeOK'
    <2>1. list' \in [Threads -> Seq(Entries)] /\ order' \in [Objects -> Seq(Calls)]
      BY <1>0, <1>5, <1>7, <1>8, <1>11
    <2>2. pending' \in [Objects -> 0 .. Cardinality(Calls)]
      <3>1. \A k \in Objects : IsInjective(order'[k])
                                /\ pending'[k] = Len(order'[k])
        BY <1>13, <1>14 DEF PostedOnce, PendingInOrder
      <3>2. pending' = [k \in Objects |-> pending'[k]]
        BY <1>11
      <3> QED
        BY <2>1, <3>1, <3>2, CountersTyped
    <2> QED
      BY <1>2, <1>3, <2>1, <2>2 DEF LoopInv, TypeOK, Entries, LoopStep, callVars
  <1>16. FamiliesTogether' /\ TargetsCurrent'
    BY <1>2 DEF LoopInv, FamiliesTogether, TargetsCurrent, callVars
  <1> QED
    BY <1>12, <1>13, <1>14, <1>15, <1>16 DEF LoopInv

(* dispatchMessages() has removed the null pointers.                       *)
LEMMA NothingInv ==
  ASSUME LoopInv, NEW t \in Threads, NothingToDispatch(t)
  PROVE  LoopInv'
  <1>0. \A u \in Threads : list[u] \in Seq(Entries)
    BY DEF LoopInv, TypeOK, Entries
  <1>1. /\ LoopStep(t, "dispatch", "poll")
        /\ list' = [list EXCEPT ![t] = <<>>]
        /\ UNCHANGED <<thread, pending, order, dispatcher, eventfd, exit,
                       exiting, handling, released, starts, callVars, moves>>
    BY DEF NothingToDispatch
  <1>2. \A j \in 1 .. Len(list[t]) : list[t][j] = NoCall
    BY <1>0, FirstFound DEF NothingToDispatch
  <1>3. ASSUME NEW k \in Objects
        PROVE  MessagesFor(k, list[t]) = <<>> /\ MessagesFor(k, <<>>) = <<>>
    <2>1. ToSet(list[t]) \subseteq ForOthers(k) /\ <<>> \in Seq(Entries)
          /\ ToSet(<<>>) \subseteq ForOthers(k)
      <3>1. DOMAIN list[t] = 1 .. Len(list[t])
        BY <1>0
      <3> QED
        BY <1>2, <3>1 DEF ToSet, ForOthers
    <2> QED
      BY <1>0, <2>1, WithoutAll DEF MessagesFor
  <1>4. list' = [u \in Threads |-> IF u = t THEN <<>> ELSE list[u]]
    BY <1>1 DEF LoopInv, TypeOK
  <1>5. MessagesWithTheirObject'
    BY <1>1, <1>4 DEF LoopInv, MessagesWithTheirObject
  <1>6. PendingInOrder'
    <2> SUFFICES ASSUME NEW k \in Objects
                 PROVE  /\ pending[k] = Len(order[k])
                        /\ order[k] = IF thread[k] = NoThread THEN <<>>
                                      ELSE MessagesFor(k, list'[thread[k]])
      <3>1. thread' = thread /\ pending' = pending /\ order' = order
        BY <1>1
      <3> QED
        BY <3>1 DEF PendingInOrder
    <2>1. /\ pending[k] = Len(order[k])
          /\ order[k] = IF thread[k] = NoThread THEN <<>>
                        ELSE MessagesFor(k, list[thread[k]])
      BY DEF LoopInv, PendingInOrder
    <2>2. thread[k] # NoThread => thread[k] \in Threads
      BY DEF LoopInv, TypeOK
    <2>3. thread[k] # NoThread
            => MessagesFor(k, list'[thread[k]]) = MessagesFor(k, list[thread[k]])
      BY <1>3, <1>4, <2>2
    <2> QED
      BY <2>1, <2>3
  <1>7. PostedOnce' /\ FamiliesTogether' /\ TargetsCurrent'
    BY <1>1 DEF LoopInv, PostedOnce, FamiliesTogether, TargetsCurrent, callVars
  <1>8. TypeOK'
    BY <1>1, <1>4 DEF LoopInv, TypeOK, LoopStep, callVars
  <1> QED
    BY <1>5, <1>6, <1>7, <1>8 DEF LoopInv

(* The objects that moveToThread() visits: the object and its children, in *)
(* one thread, each once.                                                  *)
LEMMA FamilyVisited ==
  ASSUME LoopInv, NEW o \in Objects, thread[o] # NoThread
  PROVE  /\ Family(o) \in Seq(Objects) /\ Family(o) # <<>>
         /\ IsInjective(Family(o))
         /\ ToSet(Family(o)) =
              {o} \cup {k \in ToSet(ChildrenOf[o]) : thread[k] # NoThread}
         /\ \A k \in ToSet(Family(o)) : thread[k] = thread[o]
  <1> DEFINE kids == Without(ChildrenOf[o], Deleted)
             one == <<o>>
             all == one \o kids
  <1>1. ChildrenOf[o] \in Seq(Objects) /\ IsInjective(ChildrenOf[o])
    BY CallAssumption
  <1>2. /\ kids \in Seq(Objects) /\ ToSet(kids) = ToSet(ChildrenOf[o]) \ Deleted
        /\ IsInjective(kids)
    BY <1>1, WithoutProperties
  <1>3. ToSet(ChildrenOf[o]) \subseteq Objects
    BY <1>1 DEF ToSet
  <1>4. ToSet(kids) = {k \in ToSet(ChildrenOf[o]) : thread[k] # NoThread}
    BY <1>2, <1>3 DEF Deleted
  <1>5. o \notin ToSet(ChildrenOf[o])
    <2> SUFFICES ASSUME o \in ToSet(ChildrenOf[o]) PROVE FALSE
      OBVIOUS
    <2>1. ChildrenOf[o] = <<>>
      BY CallAssumption
    <2> QED
      BY <2>1 DEF ToSet
  <1>6. one \in Seq(Objects) /\ Len(one) = 1 /\ one[1] = o /\ ToSet(one) = {o}
    BY DEF ToSet
  <1> HIDE DEF kids, one
  <1>7. /\ all \in Seq(Objects) /\ Len(all) = Len(one) + Len(kids)
        /\ \A i \in 1 .. Len(one) + Len(kids) :
              all[i] = IF i <= Len(one) THEN one[i] ELSE kids[i - Len(one)]
    <2>1. kids \in Seq(Objects) /\ one \in Seq(Objects)
      BY <1>2, <1>6
    <2> QED
      BY <2>1, ConcatProperties
  <1>8. ToSet(all) = {o} \cup ToSet(kids)
    BY <1>2, <1>6, ConcatElements
  <1> HIDE DEF all
  <1>9. /\ Len(kids) \in Nat /\ DOMAIN kids = 1 .. Len(kids)
        /\ DOMAIN all = 1 .. Len(kids) + 1 /\ all[1] = o
    BY <1>2, <1>6, <1>7
  <1>10. ASSUME NEW i \in 2 .. Len(kids) + 1
         PROVE  i - 1 \in DOMAIN kids /\ all[i] = kids[i - 1]
    <2>1. i \in 1 .. Len(one) + Len(kids) /\ ~(i <= Len(one)) /\ Len(one) = 1
      BY <1>6, <1>9
    <2>2. all[i] = kids[i - Len(one)]
      BY <1>7, <2>1
    <2> QED
      BY <1>9, <2>1, <2>2
  <1>11. IsInjective(all)
    <2> SUFFICES ASSUME NEW i \in DOMAIN all, NEW j \in DOMAIN all,
                        all[i] = all[j]
                 PROVE  i = j
      BY DEF IsInjective
    <2>1. \A n \in 2 .. Len(kids) + 1 : all[n] \in ToSet(kids)
      BY <1>10 DEF ToSet
    <2>2. o \notin ToSet(kids)
      BY <1>2, <1>5
    <2>3. i \in {1} \cup (2 .. Len(kids) + 1) /\ j \in {1} \cup (2 .. Len(kids) + 1)
      BY <1>9
    <2>4. CASE i = 1 \/ j = 1
      BY <1>9, <2>1, <2>2, <2>3, <2>4
    <2>5. CASE i \in 2 .. Len(kids) + 1 /\ j \in 2 .. Len(kids) + 1
      <3>1. /\ i - 1 \in DOMAIN kids /\ all[i] = kids[i - 1]
            /\ j - 1 \in DOMAIN kids /\ all[j] = kids[j - 1]
        BY <1>10, <2>5
      <3>2. i - 1 = j - 1
        BY <1>2, <3>1 DEF IsInjective
      <3> QED
        BY <2>5, <3>2
    <2> QED
      BY <2>3, <2>4, <2>5
  <1>12. all # <<>>
    BY <1>7, <1>9
  <1>13. \A k \in ToSet(all) : thread[k] = thread[o]
    BY <1>4, <1>8 DEF LoopInv, FamiliesTogether
  <1> QED
    BY <1>4, <1>7, <1>8, <1>11, <1>12, <1>13 DEF all, one, kids, Family

(* Object::moveToThread(), with the messages.                              *)
LEMMA MoveInv ==
  ASSUME LoopInv, Synchronised, NEW o \in Objects, NEW t \in Threads,
         MoveToThread(o, t)
  PROVE  LoopInv'
  <1> DEFINE from == thread[o]
             family == Family(o)
             F == ToSet(family)
             moved == FlattenSeq([i \in DOMAIN family |->
                                     MessagesFor(family[i], list[from])])
             old == Nulled(list[from], ToSet(moved))
             new == list[t] \o moved
  <1>1. /\ from \in Threads /\ from # t /\ from # NoThread
        /\ ~HasParent(o)
        /\ \A k \in F : NoCallInFlight(k)
        /\ thread' = [k \in Objects |-> IF k \in F THEN t ELSE thread[k]]
        /\ list' = [list EXCEPT ![from] = old, ![t] = new]
        /\ eventfd' \subseteq eventfd \cup dispatcher
        /\ moves < MaxMoves /\ moves' = moves + 1
        /\ UNCHANGED <<pending, order, dispatcher, exit, exiting, loop,
                       handling, released, starts, callVars>>
    BY CallAssumption DEF MoveToThread, WakeNewThread, WakeUp
  <1>2. \A u \in Threads : list[u] \in Seq(Entries)
    BY DEF LoopInv, TypeOK, Entries
  <1>3. /\ family \in Seq(Objects) /\ family # <<>> /\ IsInjective(family)
        /\ F = {o} \cup {k \in ToSet(ChildrenOf[o]) : thread[k] # NoThread}
        /\ \A k \in F : thread[k] = from
    BY <1>1, FamilyVisited
  <1> HIDE DEF family
  <1>4. /\ moved \in Seq(Calls)
        /\ ToSet(moved) = {c \in ToSet(list[from]) :
               c # NoCall /\ ReceiverOf[c] \in F}
        /\ \A k \in Objects : MessagesFor(k, moved) =
               IF k \in F THEN MessagesFor(k, list[from]) ELSE <<>>
    <2> DEFINE S == list[from]
    <2>1. S \in Seq(Entries)
      BY <1>1, <1>2
    <2> HIDE DEF S
    <2>2. moved = FlattenSeq([i \in DOMAIN family |-> MessagesFor(family[i], S)])
      BY DEF S
    <2> HIDE DEF moved
    <2>3. /\ moved \in Seq(Calls)
          /\ ToSet(moved) = {c \in ToSet(S) :
                 c # NoCall /\ ReceiverOf[c] \in ToSet(family)}
          /\ \A k \in Objects : MessagesFor(k, moved) =
                 IF k \in ToSet(family) THEN MessagesFor(k, S) ELSE <<>>
      BY <1>3, <2>1, <2>2, MovedMessages
    <2> QED
      BY <2>3 DEF S
  <1> HIDE DEF moved, F
  <1>5. moved \in Seq(Entries)
    BY <1>4, SeqMonotonic DEF Entries
  <1>6. \A k \in Objects :
          /\ old \in Seq(Entries) /\ Len(old) = Len(list[from])
          /\ (\A c \in ToSet(list[from]) \cap ToSet(moved) :
                    c = NoCall \/ ReceiverOf[c] # k)
               => MessagesFor(k, old) = MessagesFor(k, list[from])
    BY <1>1, <1>2, SelectedNulled
  <1>7. /\ new \in Seq(Entries) /\ ToSet(new) = ToSet(list[t]) \cup ToSet(moved)
        /\ \A k \in Objects :
             MessagesFor(k, new) = MessagesFor(k, list[t]) \o MessagesFor(k, moved)
    <2> DEFINE L == list[t]
    <2>1. L \in Seq(Entries)
      BY <1>2
    <2> HIDE DEF L
    <2>2. L \o moved \in Seq(Entries) /\ ToSet(L \o moved) = ToSet(L) \cup ToSet(moved)
      BY <1>5, <2>1, ConcatElements
    <2>3. \A k \in Objects : MessagesFor(k, L \o moved) =
             MessagesFor(k, L) \o MessagesFor(k, moved)
      BY <1>5, <2>1, WithoutConcat DEF MessagesFor
    <2> QED
      BY <2>2, <2>3 DEF L
  <1>8. \A i \in DOMAIN old :
          /\ i \in DOMAIN list[from]
          /\ old[i] # NoCall =>
               old[i] = list[from][i] /\ list[from][i] \notin ToSet(moved)
    BY DEF Nulled
  <1> HIDE DEF old, new
  <1>9. list' = [u \in Threads |-> IF u = t THEN new ELSE
                                   IF u = from THEN old ELSE list[u]]
    BY <1>1 DEF LoopInv, TypeOK
  <1> HIDE DEF from
  <1>10. MessagesWithTheirObject'
    <2> SUFFICES ASSUME NEW u \in Threads, NEW j \in DOMAIN list'[u],
                        list'[u][j] # NoCall
                 PROVE  thread'[ReceiverOf[list'[u][j]]] = u
      BY DEF MessagesWithTheirObject
    <2> DEFINE c == list'[u][j]
    <2>0. \A v \in Threads : \A d \in ToSet(list[v]) :
             d # NoCall => thread[ReceiverOf[d]] = v /\ ReceiverOf[d] \in Objects
      <3> SUFFICES ASSUME NEW v \in Threads, NEW n \in DOMAIN list[v],
                          list[v][n] # NoCall
                   PROVE  /\ thread[ReceiverOf[list[v][n]]] = v
                          /\ ReceiverOf[list[v][n]] \in Objects
        BY DEF ToSet
      <3>1. list[v][n] \in Calls
        BY <1>2 DEF Entries
      <3> QED
        BY <3>1, CallAssumption DEF LoopInv, MessagesWithTheirObject
    <2>1. CASE u = t
      <3>1. c \in ToSet(list[t]) \cup ToSet(moved)
        <4>1. list'[u] = new
          BY <1>9, <2>1
        <4>2. c \in ToSet(new)
          BY <4>1 DEF ToSet
        <4> QED
          BY <1>7, <4>2
      <3>2. CASE c \in ToSet(list[t])
        <4>1. thread[ReceiverOf[c]] = t /\ ReceiverOf[c] \in Objects
          BY <2>0, <3>2
        <4>2. ReceiverOf[c] \notin F
          BY <1>1, <1>3, <4>1 DEF F
        <4> QED
          BY <1>1, <2>1, <4>1, <4>2
      <3>3. CASE c \in ToSet(moved)
        <4>1. ReceiverOf[c] \in F /\ ReceiverOf[c] \in Objects
          BY <1>1, <1>4, <2>0, <3>3
        <4> QED
          BY <1>1, <2>1, <4>1
      <3> QED
        BY <3>1, <3>2, <3>3
    <2>2. CASE u = from
      <3>1. list'[u] = old
        BY <1>1, <1>9, <2>2
      <3>2. /\ c = list[from][j] /\ c \notin ToSet(moved) /\ c \in ToSet(list[from])
        BY <1>8, <3>1 DEF ToSet
      <3>3. ReceiverOf[c] \notin F
        BY <1>4, <3>2
      <3>4. thread[ReceiverOf[c]] = from /\ ReceiverOf[c] \in Objects
        BY <1>1, <2>0, <3>2
      <3> QED
        BY <1>1, <2>2, <3>3, <3>4
    <2>3. CASE u # t /\ u # from
      <3>1. list'[u] = list[u] /\ c \in ToSet(list[u])
        BY <1>9, <2>3 DEF ToSet
      <3>2. thread[ReceiverOf[c]] = u /\ ReceiverOf[c] \in Objects
        BY <2>0, <3>1
      <3>3. ReceiverOf[c] \notin F
        BY <1>3, <2>3, <3>2 DEF F, from
      <3> QED
        BY <1>1, <3>2, <3>3
    <2> QED
      BY <2>1, <2>2, <2>3
  <1>11. PendingInOrder'
    <2> SUFFICES ASSUME NEW k \in Objects
                 PROVE  /\ pending[k] = Len(order[k])
                        /\ order[k] = IF thread'[k] = NoThread THEN <<>>
                                      ELSE MessagesFor(k, list'[thread'[k]])
      <3>1. pending' = pending /\ order' = order
        BY <1>1
      <3> QED
        BY <3>1 DEF PendingInOrder
    <2>1. /\ pending[k] = Len(order[k])
          /\ order[k] = IF thread[k] = NoThread THEN <<>>
                        ELSE MessagesFor(k, list[thread[k]])
      BY DEF LoopInv, PendingInOrder
    <2>2. \A u \in Threads : MessagesFor(k, list[u]) \in Seq(Calls)
      BY <1>2, Selected
    <2>3. CASE k \in F
      <3>1. thread'[k] = t /\ thread[k] = from /\ t # NoThread /\ from # NoThread
        BY <1>1, <1>3, <2>3, CallAssumption DEF F
      <3>2. MessagesFor(k, list[t]) = <<>>
        <4>1. ToSet(list[t]) \subseteq ForOthers(k)
          <5> SUFFICES ASSUME NEW j \in DOMAIN list[t]
                       PROVE  list[t][j] \in ForOthers(k)
            BY DEF ToSet
          <5>1. list[t][j] \in Entries
            BY <1>2
          <5>2. list[t][j] # NoCall => thread[ReceiverOf[list[t][j]]] = t
            BY DEF LoopInv, MessagesWithTheirObject
          <5>3. thread[k] # t
            BY <1>1, <3>1
          <5> QED
            BY <5>1, <5>2, <5>3 DEF ForOthers, Entries
        <4> QED
          BY <1>2, <4>1, WithoutAll DEF MessagesFor
      <3>3. MessagesFor(k, moved) = MessagesFor(k, list[from])
        BY <1>4, <2>3
      <3>4. MessagesFor(k, new) = MessagesFor(k, list[from])
        <4> DEFINE M == MessagesFor(k, list[from])
        <4>1. M \in Seq(Calls)
          BY <1>1, <2>2
        <4> HIDE DEF M
        <4>2. <<>> \o M = M
          BY <4>1, ConcatEmptySeq
        <4> QED
          BY <1>7, <3>2, <3>3, <4>2 DEF M
      <3> QED
        BY <1>9, <2>1, <3>1, <3>4
    <2>4. CASE k \notin F
      <3>1. thread'[k] = thread[k]
        BY <1>1, <2>4
      <3>2. thread[k] # NoThread => thread[k] \in Threads
        BY DEF LoopInv, TypeOK
      <3>3. MessagesFor(k, new) = MessagesFor(k, list[t])
        <4> DEFINE M == MessagesFor(k, list[t])
        <4>1. M \in Seq(Calls)
          BY <2>2
        <4> HIDE DEF M
        <4>2. M \o <<>> = M
          BY <4>1, ConcatEmptySeq
        <4>3. MessagesFor(k, moved) = <<>>
          BY <1>4, <2>4
        <4> QED
          BY <1>7, <4>2, <4>3 DEF M
      <3>4. MessagesFor(k, old) = MessagesFor(k, list[from])
        BY <1>4, <1>6, <2>4
      <3>5. thread[k] # NoThread => MessagesFor(k, list'[thread[k]]) =
                                    MessagesFor(k, list[thread[k]])
        BY <1>9, <3>2, <3>3, <3>4
      <3> QED
        BY <2>1, <3>1, <3>5
    <2> QED
      BY <2>3, <2>4
  <1>12. PostedOnce'
    BY <1>1 DEF LoopInv, PostedOnce, callVars
  <1>13. FamiliesTogether'
    <2> SUFFICES ASSUME NEW p \in Objects, NEW k \in ToSet(ChildrenOf[p]),
                        thread'[p] # NoThread, thread'[k] # NoThread
                 PROVE  thread'[k] = thread'[p]
      BY DEF FamiliesTogether
    <2>1. k \in Objects
      BY CallAssumption DEF ToSet
    <2>2. thread[p] # NoThread /\ thread[k] # NoThread
      BY <1>1, <1>3, <2>1 DEF F, from
    <2>3. thread[k] = thread[p]
      BY <2>2 DEF LoopInv, FamiliesTogether
    <2>4. k # o
      BY <1>1, <2>2 DEF HasParent
    <2>5. p \in F => p = o
      <3> SUFFICES ASSUME p \in ToSet(ChildrenOf[o]) PROVE FALSE
        BY <1>3 DEF F
      <3>1. ChildrenOf[p] = <<>>
        BY CallAssumption
      <3> QED
        BY <3>1 DEF ToSet
    <2>6. k \in F => p = o
      BY <1>3, <2>4, CallAssumption DEF F
    <2>7. p = o => k \in F /\ p \in F
      BY <1>3, <2>2 DEF F
    <2> QED
      BY <1>1, <2>1, <2>3, <2>5, <2>6, <2>7
  <1>14. TargetsCurrent'
    <2> SUFFICES ASSUME NEW c \in Calls, call[c] = "read"
                 PROVE  target[c] \in Threads /\ target[c] = thread'[ReceiverOf[c]]
      BY <1>1 DEF TargetsCurrent, callVars
    <2>1. ReceiverOf[c] \in Objects /\ ReceiverOf[c] \notin F
      BY <1>1, CallAssumption DEF NoCallInFlight
    <2> QED
      BY <1>1, <2>1 DEF LoopInv, TargetsCurrent
  <1>15. TypeOK'
    <2>1. list' \in [Threads -> Seq(Entries)]
      BY <1>2, <1>6, <1>7, <1>9
    <2>2. thread' \in [Objects -> Threads \cup {NoThread}]
      BY <1>1 DEF LoopInv, TypeOK
    <2>3. moves' \in 0 .. MaxMoves
      BY <1>1, CallAssumption DEF LoopInv, TypeOK
    <2> QED
      BY <1>1, <2>1, <2>2, <2>3 DEF LoopInv, TypeOK, Entries, callVars
  <1> QED
    BY <1>10, <1>11, <1>12, <1>13, <1>14, <1>15 DEF LoopInv

(* ~Object() removes what is left for the object.                          *)
LEMMA DeleteInv ==
  ASSUME LoopInv, NEW o \in Objects, Delete(o)
  PROVE  LoopInv'
  <1> DEFINE t == thread[o]
             removed == MessagesFor(o, list[t])
             old == Nulled(list[t], ToSet(removed))
  <1>1. /\ t # NoThread
        /\ \A c \in Calls : ReceiverOf[c] = o => call[c] \in {"idle", "returned"}
        /\ thread' = [thread EXCEPT ![o] = NoThread]
        /\ list' = [list EXCEPT ![t] = old]
        /\ pending' = [pending EXCEPT ![o] = @ - Len(removed)]
        /\ order' = [order EXCEPT ![o] = <<>>]
        /\ UNCHANGED <<loopVars, callVars, moves>>
    BY DEF Delete
  <1>2. t \in Threads
    BY <1>1 DEF LoopInv, TypeOK
  <1>3. \A u \in Threads : list[u] \in Seq(Entries)
    BY DEF LoopInv, TypeOK, Entries
  <1>4. /\ removed \in Seq(Calls)
        /\ ToSet(removed) =
             {c \in ToSet(list[t]) : c # NoCall /\ ReceiverOf[c] = o}
    BY <1>2, <1>3, Selected
  <1>5. \A k \in Objects :
          /\ old \in Seq(Entries)
          /\ (\A c \in ToSet(list[t]) \cap ToSet(removed) :
                    c = NoCall \/ ReceiverOf[c] # k)
               => MessagesFor(k, old) = MessagesFor(k, list[t])
    BY <1>2, <1>3, SelectedNulled
  <1>6. \A i \in DOMAIN old :
          /\ i \in DOMAIN list[t]
          /\ old[i] # NoCall =>
               old[i] = list[t][i] /\ list[t][i] \notin ToSet(removed)
    BY DEF Nulled
  <1>7. pending[o] = Len(order[o]) /\ order[o] = removed
    BY <1>1 DEF LoopInv, PendingInOrder
  <1> HIDE DEF old
  <1>8. /\ thread' = [k \in Objects |-> IF k = o THEN NoThread ELSE thread[k]]
        /\ list' = [u \in Threads |-> IF u = t THEN old ELSE list[u]]
        /\ pending' = [k \in Objects |-> IF k = o THEN 0 ELSE pending[k]]
        /\ order' = [k \in Objects |-> IF k = o THEN <<>> ELSE order[k]]
    <2>1. pending[o] - Len(removed) = 0
      <3>1. Len(removed) \in Nat
        BY <1>4
      <3> QED
        BY <1>7, <3>1
    <2> HIDE DEF removed
    <2> QED
      BY <1>1, <1>2, <2>1 DEF LoopInv, TypeOK
  <1> HIDE DEF t, removed
  <1>9. MessagesWithTheirObject'
    <2> SUFFICES ASSUME NEW u \in Threads, NEW j \in DOMAIN list'[u],
                        list'[u][j] # NoCall
                 PROVE  thread'[ReceiverOf[list'[u][j]]] = u
      BY DEF MessagesWithTheirObject
    <2>1. PICK c \in Calls : c = list'[u][j] /\ c \in ToSet(list[u])
                             /\ (u = t => c \notin ToSet(removed))
      <3>1. CASE u = t
        <4>1. list'[u] = old
          BY <1>8, <3>1
        <4>2. /\ j \in DOMAIN list[u] /\ old[j] = list[u][j]
              /\ list[u][j] \notin ToSet(removed)
          BY <1>6, <3>1, <4>1
        <4> QED
          BY <1>3, <4>1, <4>2 DEF Entries, ToSet
      <3>2. CASE u # t
        <4>1. list'[u] = list[u]
          BY <1>8, <3>2
        <4> QED
          BY <1>3, <3>2, <4>1 DEF Entries, ToSet
      <3> QED
        BY <3>1, <3>2
    <2>2. ReceiverOf[c] \in Objects /\ thread[ReceiverOf[c]] = u /\ c # NoCall
      <3>1. PICK n \in DOMAIN list[u] : list[u][n] = c
        BY <2>1 DEF ToSet
      <3>2. c # NoCall
        BY CallAssumption
      <3> QED
        BY <3>1, <3>2, CallAssumption DEF LoopInv, MessagesWithTheirObject
    <2>3. ReceiverOf[c] # o
      BY <1>4, <2>1, <2>2 DEF t
    <2> QED
      BY <1>8, <2>1, <2>2, <2>3
  <1>10. PendingInOrder'
    <2> SUFFICES ASSUME NEW k \in Objects
                 PROVE  /\ pending'[k] = Len(order'[k])
                        /\ order'[k] = IF thread'[k] = NoThread THEN <<>>
                                       ELSE MessagesFor(k, list'[thread'[k]])
      BY DEF PendingInOrder
    <2>1. CASE k = o
      BY <1>8, <2>1
    <2>2. CASE k # o
      <3>1. /\ order'[k] = order[k] /\ pending'[k] = pending[k]
            /\ thread'[k] = thread[k]
        BY <1>8, <2>2
      <3>2. thread[k] # NoThread => thread[k] \in Threads
        BY DEF LoopInv, TypeOK
      <3>3. MessagesFor(k, old) = MessagesFor(k, list[t])
        BY <1>4, <1>5, <2>2
      <3>4. thread[k] # NoThread => MessagesFor(k, list'[thread[k]]) =
                                    MessagesFor(k, list[thread[k]])
        BY <1>8, <3>2, <3>3
      <3>5. /\ pending[k] = Len(order[k])
            /\ order[k] = IF thread[k] = NoThread THEN <<>>
                          ELSE MessagesFor(k, list[thread[k]])
        BY DEF LoopInv, PendingInOrder
      <3> QED
        BY <3>1, <3>4, <3>5
    <2> QED
      BY <2>1, <2>2
  <1>11. PostedOnce'
    <2>1. call' = call
      BY <1>1 DEF callVars
    <2>2. IsInjective(<<>>) /\ ToSet(<<>>) = {}
      BY DEF IsInjective, ToSet
    <2> QED
      BY <1>8, <2>1, <2>2 DEF LoopInv, PostedOnce
  <1>12. FamiliesTogether'
    <2>1. \A p \in Objects : ToSet(ChildrenOf[p]) \subseteq Objects
      BY CallAssumption DEF ToSet
    <2> QED
      BY <1>8, <2>1 DEF LoopInv, FamiliesTogether
  <1>13. TargetsCurrent'
    <2> SUFFICES ASSUME NEW c \in Calls, call[c] = "read"
                 PROVE  target[c] \in Threads /\ target[c] = thread'[ReceiverOf[c]]
      BY <1>1 DEF TargetsCurrent, callVars
    <2>1. ReceiverOf[c] \in Objects /\ ReceiverOf[c] # o
      BY <1>1, CallAssumption
    <2> QED
      BY <1>8, <2>1 DEF LoopInv, TargetsCurrent
  <1>14. TypeOK'
    <2>1. list' \in [Threads -> Seq(Entries)] /\ order' \in [Objects -> Seq(Calls)]
      BY <1>3, <1>5, <1>8 DEF LoopInv, TypeOK
    <2>2. pending' \in [Objects -> 0 .. Cardinality(Calls)]
      <3>1. Cardinality(Calls) \in Nat
        BY CallAssumption, FS_CardinalityType
      <3> QED
        BY <1>8, <3>1 DEF LoopInv, TypeOK
    <2>3. thread' \in [Objects -> Threads \cup {NoThread}]
      BY <1>8 DEF LoopInv, TypeOK
    <2> QED
      BY <1>1, <2>1, <2>2, <2>3 DEF LoopInv, TypeOK, Entries, loopVars, callVars
  <1> QED
    BY <1>9, <1>10, <1>11, <1>12, <1>13, <1>14 DEF LoopInv

(* The inductive invariant holds: callers post, loops dispatch, and        *)
(* objects move and are deleted, in any order.                             *)
THEOREM LoopInvariance ==
  ASSUME Synchronised
  PROVE  Spec => []LoopInv
  <1>1. Init => LoopInv
    <2> SUFFICES ASSUME Init PROVE LoopInv
      OBVIOUS
    <2> USE DEF Init
    <2>1. TypeOK
      <3>1. Cardinality(Calls) \in Nat
        BY CallAssumption, FS_CardinalityType
      <3> QED
        BY <3>1, CallAssumption DEF TypeOK
    <2>2. \A k \in Objects : MessagesFor(k, <<>>) = <<>>
      <3>1. <<>> \in Seq(Entries) /\ ToSet(<<>>) = {}
        BY DEF ToSet
      <3> QED
        BY <3>1, WithoutAll DEF MessagesFor
    <2>3. MessagesWithTheirObject
      BY DEF MessagesWithTheirObject
    <2>4. PendingInOrder
      BY <2>2, CallAssumption DEF PendingInOrder
    <2>5. PostedOnce
      BY DEF PostedOnce, IsInjective, ToSet
    <2>6. FamiliesTogether /\ TargetsCurrent
      BY CallAssumption DEF FamiliesTogether, TargetsCurrent
    <2> QED
      BY <2>1, <2>3, <2>4, <2>5, <2>6 DEF LoopInv
  <1>2. LoopInv /\ [Next]_vars => LoopInv'
    <2> SUFFICES ASSUME LoopInv, [Next]_vars PROVE LoopInv'
      OBVIOUS
    <2>1. CASE \E c \in Calls : CallNext(c)
      BY <2>1, PushInv, CallerInv DEF CallNext
    <2>2. CASE \E t \in Threads : LoopNext(t) \/ Start(t) \/ ExitFlag(t)
                                  \/ ExitInterrupt(t)
      BY <2>2, LoopTurnInv, TakeInv, NothingInv DEF LoopNext
    <2>3. CASE \E t \in Threads : \E o \in Objects : MoveToThread(o, t)
      BY <2>3, MoveInv
    <2>4. CASE \E o \in Objects : Delete(o)
      BY <2>4, DeleteInv
    <2>5. CASE UNCHANGED vars
      <3>1. TypeOK' /\ TargetsCurrent'
        BY <2>5 DEF LoopInv, TypeOK, TargetsCurrent, vars, objectVars, loopVars,
               callVars
      <3> QED
        BY <2>5, <3>1, FrameInv DEF vars, callVars
    <2> QED
      BY <2>1, <2>2, <2>3, <2>4, <2>5 DEF Next
  <1> QED
    BY <1>1, <1>2, PTL DEF Spec

(* Messages wait and are handled in the thread of their object: the        *)
(* assertion of dispatchMessages() holds, with objects moved while         *)
(* messages wait.                                                          *)
THEOREM MessagesAreAtHome ==
  ASSUME Synchronised
  PROVE  Spec => []MessagesAtHome
  <1>1. LoopInv => MessagesAtHome
    BY DEF LoopInv, MessagesAtHome
  <1> QED
    BY <1>1, LoopInvariance, PTL

(* An object gets its messages in the order of the calls across moves, and *)
(* pendingMessages_ counts them, which makes the shortcuts of moveObject() *)
(* and of the destructor sound.                                            *)
THEOREM MessagesInOrder ==
  ASSUME Synchronised
  PROVE  Spec => []PendingInOrder
  <1>1. LoopInv => PendingInOrder
    BY DEF LoopInv
  <1> QED
    BY <1>1, LoopInvariance, PTL

-----------------------------------------------------------------------------
(***************************************************************************)
(* Events.                                                                 *)
(***************************************************************************)

(***************************************************************************)
(* The list of timers.                                                     *)
(***************************************************************************)

Ordered(line, due) ==
    \A i, j \in DOMAIN line : i < j => due[line[i]] <= due[line[j]]

(* registerTimer() keeps the list in the order of the deadlines.           *)
LEMMA RegisterTimerSound ==
  ASSUME NEW line \in Seq(Timers), NEW t \in Timers,
         NEW due \in [Timers -> Nat],
         IsInjective(line), t \notin ToSet(line), Ordered(line, due)
  PROVE  /\ RegisterTimer(line, t, due) \in Seq(Timers)
         /\ IsInjective(RegisterTimer(line, t, due))
         /\ ToSet(RegisterTimer(line, t, due)) = ToSet(line) \cup {t}
         /\ Ordered(RegisterTimer(line, t, due), due)
  <1> DEFINE r == RegisterTimer(line, t, due)
             I == {i \in 1 .. Len(line) : due[line[i]] > due[t]}
  <1>0. /\ Len(line) \in Nat /\ DOMAIN line = 1 .. Len(line)
        /\ \A i \in 1 .. Len(line) : line[i] \in Timers /\ due[line[i]] \in Nat
        /\ due[t] \in Nat
    OBVIOUS
  <1>1. CASE I = {}
    <2>1. r = Append(line, t)
      BY <1>1 DEF RegisterTimer, SelectInSeq
    <2>2. \A i \in 1 .. Len(line) : due[line[i]] <= due[t]
      BY <1>0, <1>1
    <2>3. /\ r \in Seq(Timers) /\ DOMAIN r = 1 .. Len(line) + 1
          /\ \A i \in 1 .. Len(line) : r[i] = line[i]
          /\ r[Len(line) + 1] = t
      BY <2>1, AppendProperties
    <2>4. /\ ToSet(Append(line, t)) = ToSet(line) \cup {t}
          /\ IsInjective(line) /\ t \notin ToSet(line)
               => IsInjective(Append(line, t))
      BY AppendInjectiveNew
    <2> HIDE DEF r, I
    <2>5. Ordered(r, due)
      <3> SUFFICES ASSUME NEW i \in DOMAIN r, NEW j \in DOMAIN r, i < j
                   PROVE  due[r[i]] <= due[r[j]]
        BY DEF Ordered
      <3>1. /\ i \in 1 .. Len(line) /\ r[i] = line[i]
            /\ j \in 1 .. Len(line) \/ j = Len(line) + 1
        BY <1>0, <2>3
      <3>2. CASE j \in 1 .. Len(line)
        <4>1. r[j] = line[j] /\ i \in DOMAIN line /\ j \in DOMAIN line
          BY <1>0, <2>3, <3>1, <3>2
        <4> QED
          BY <3>1, <4>1 DEF Ordered
      <3>3. CASE j = Len(line) + 1
        BY <2>2, <2>3, <3>1, <3>3
      <3> QED
        BY <3>1, <3>2, <3>3
    <2> QED
      BY <2>1, <2>3, <2>4, <2>5 DEF r
  <1>2. CASE I # {}
    <2> DEFINE k == Min(I)
    <2>0. I \subseteq Nat
      BY <1>0
    <2>1. k \in I /\ \A y \in I : k <= y
      BY <1>2, <2>0, LeastElement
    <2>2. k \in 1 .. Len(line) /\ due[line[k]] > due[t]
      BY <2>1
    <2>3. r = InsertAt(line, k, t)
      <3>1. k # 0
        BY <2>2
      <3> QED
        BY <1>2, <3>1 DEF RegisterTimer, SelectInSeq
    <2>4. \A i \in 1 .. Len(line) : i < k => due[line[i]] <= due[t]
      <3> HIDE DEF k
      <3>1. \A i \in 1 .. Len(line) : i < k => i \notin I
        BY <2>0, <2>1, <2>2
      <3> QED
        BY <1>0, <3>1
    <2> HIDE DEF k, I, r
    <2>5. /\ InsertAt(line, k, t) \in Seq(Timers)
          /\ Len(InsertAt(line, k, t)) = Len(line) + 1
          /\ \A j \in 1 .. Len(line) + 1 :
               InsertAt(line, k, t)[j] =
                   IF j < k THEN line[j] ELSE IF j = k THEN t ELSE line[j - 1]
      <3>1. k \in 1 .. Len(line)
        BY <2>2
      <3>2. /\ InsertAt(line, k, t) \in Seq(Timers)
            /\ Len(InsertAt(line, k, t)) = Len(line) + 1
        BY <3>1, InsertAtProperties
      <3>3. \A j \in 1 .. Len(line) + 1 :
              InsertAt(line, k, t)[j] =
                  IF j < k THEN line[j] ELSE IF j = k THEN t ELSE line[j - 1]
        BY <3>1, InsertAtProperties
      <3> QED
        BY <3>2, <3>3
    <2>6. /\ IsInjective(InsertAt(line, k, t))
          /\ ToSet(InsertAt(line, k, t)) = ToSet(line) \cup {t}
      BY <2>2, InsertAtInjective
    <2>7. /\ r \in Seq(Timers) /\ DOMAIN r = 1 .. Len(line) + 1
          /\ \A j \in 1 .. Len(line) + 1 :
               r[j] = IF j < k THEN line[j] ELSE IF j = k THEN t ELSE line[j - 1]
      BY <1>0, <2>3, <2>5
    <2>8. ASSUME NEW i \in DOMAIN r, NEW j \in DOMAIN r, i < j
          PROVE  due[r[i]] <= due[r[j]]
      <3>0. i \in 1 .. Len(line) + 1 /\ j \in 1 .. Len(line) + 1
        BY <2>7
      <3>1. CASE j < k
        <4>1. i \in DOMAIN line /\ j \in DOMAIN line /\ i < k
          BY <1>0, <2>2, <2>8, <3>0, <3>1
        <4>2. r[i] = line[i] /\ r[j] = line[j]
          BY <2>7, <3>0, <3>1, <4>1
        <4> QED
          BY <2>8, <4>1, <4>2 DEF Ordered
      <3>2. CASE j = k
        <4>1. i \in 1 .. Len(line) /\ i < k
          BY <1>0, <2>2, <2>8, <3>0, <3>2
        <4>2. r[i] = line[i] /\ r[j] = t
          BY <2>7, <3>0, <3>2, <4>1
        <4> QED
          BY <2>4, <4>1, <4>2
      <3>3. CASE j > k
        <4>1. j - 1 \in DOMAIN line /\ r[j] = line[j - 1] /\ k <= j - 1
              /\ k \in DOMAIN line
          BY <1>0, <2>2, <2>7, <3>0, <3>3
        <4>2. due[line[k]] <= due[line[j - 1]]
          <5>1. CASE k = j - 1
            BY <5>1, <1>0, <2>2
          <5>2. CASE k # j - 1
            <6>1. k < j - 1
              BY <5>2, <4>1, <2>2, <3>0, <1>0
            <6> QED
              BY <4>1, <6>1 DEF Ordered
          <5> QED
            BY <5>1, <5>2
        <4>3. CASE i < k
          <5>1. i \in DOMAIN line /\ r[i] = line[i] /\ i < j - 1
            BY <1>0, <2>2, <2>7, <3>0, <4>1, <4>3
          <5> QED
            BY <4>1, <5>1 DEF Ordered
        <4>4. CASE i = k
          <5>1. r[i] = t
            BY <2>7, <3>0, <4>4
          <5>2. due[t] < due[line[k]] /\ due[line[k]] \in Nat
                /\ due[line[j - 1]] \in Nat
            BY <1>0, <2>2, <4>1
          <5> QED
            BY <1>0, <4>1, <4>2, <5>1, <5>2
        <4>5. CASE i > k
          <5>1. i - 1 \in DOMAIN line /\ r[i] = line[i - 1] /\ i - 1 < j - 1
            <6>1. i - 1 \in 1 .. Len(line) /\ i - 1 < j - 1
              BY <1>0, <2>2, <2>8, <3>0, <4>5
            <6>2. ~(i < k) /\ i # k
              BY <2>2, <3>0, <4>5
            <6> QED
              BY <1>0, <2>7, <3>0, <6>1, <6>2
          <5> QED
            BY <4>1, <5>1 DEF Ordered
        <4> QED
          BY <2>2, <3>0, <4>3, <4>4, <4>5
      <3> QED
        BY <2>2, <3>0, <3>1, <3>2, <3>3
    <2>9. Ordered(r, due)
      BY <2>8 DEF Ordered
    <2> QED
      BY <2>3, <2>6, <2>7, <2>9 DEF r
  <1> QED
    BY <1>1, <1>2

(* unregisterTimer() finds the timer if no timer before it has a later     *)
(* deadline.                                                               *)
LEMMA UnregisterTimerSound ==
  ASSUME NEW line \in Seq(Timers), NEW t \in Timers,
         NEW due \in [Timers -> Nat], IsInjective(line),
         \A i, j \in DOMAIN line :
             i < j /\ line[i] # t => due[line[i]] <= due[line[j]]
  PROVE  /\ UnregisterTimer(line, t, due) \in Seq(Timers)
         /\ IsInjective(UnregisterTimer(line, t, due))
         /\ ToSet(UnregisterTimer(line, t, due)) = ToSet(line) \ {t}
         /\ Ordered(UnregisterTimer(line, t, due), due)
  <1> DEFINE r == UnregisterTimer(line, t, due)
             I == {i \in 1 .. Len(line) : line[i] = t \/ due[line[i]] > due[t]}
             stop == IF I # {} THEN Min(I) ELSE 0
  <1>0. /\ Len(line) \in Nat /\ DOMAIN line = 1 .. Len(line)
        /\ \A i \in 1 .. Len(line) : line[i] \in Timers /\ due[line[i]] \in Nat
        /\ due[t] \in Nat
    OBVIOUS
  <1>1. r = IF stop > 0 /\ line[stop] = t THEN RemoveAt(line, stop) ELSE line
    BY DEF UnregisterTimer, SelectInSeq
  <1>2. I \subseteq Nat
    BY <1>0
  <1>3. I # {} => stop \in I /\ \A y \in I : stop <= y
    BY <1>2, LeastElement
  <1>4. I = {} => stop = 0
    OBVIOUS
  <1> HIDE DEF stop, r
  <1>5. CASE t \notin ToSet(line)
    <2>1. \A i \in 1 .. Len(line) : line[i] # t
      BY <1>0, <1>5 DEF ToSet
    <2>2. ~(stop > 0 /\ line[stop] = t)
      BY <1>3, <1>4, <2>1
    <2>3. r = line
      BY <1>1, <2>2
    <2>4. Ordered(line, due)
      BY <1>0, <2>1 DEF Ordered
    <2> QED
      BY <1>5, <2>3, <2>4 DEF r
  <1>6. CASE t \in ToSet(line)
    <2>1. PICK k \in 1 .. Len(line) : line[k] = t
      BY <1>0, <1>6 DEF ToSet
    <2>2. k \in I
      BY <2>1
    <2>3. \A i \in 1 .. Len(line) : i < k => i \notin I
      <3> SUFFICES ASSUME NEW i \in 1 .. Len(line), i < k PROVE i \notin I
        OBVIOUS
      <3>1. line[i] # t
        BY <1>0, <2>1 DEF IsInjective
      <3>2. due[line[i]] <= due[t]
        BY <1>0, <2>1, <3>1
      <3> QED
        BY <1>0, <3>1, <3>2
    <2>4. stop = k
      <3>1. stop \in 1 .. Len(line) /\ stop <= k /\ stop \in I
        BY <1>3, <2>2
      <3> HIDE DEF I
      <3> QED
        BY <1>0, <2>3, <3>1
    <2> HIDE DEF I
    <2>5. r = RemoveAt(line, k)
      BY <1>0, <1>1, <2>1, <2>4
    <2>6. /\ RemoveAt(line, k) \in Seq(Timers)
          /\ Len(RemoveAt(line, k)) = Len(line) - 1
          /\ \A j \in 1 .. Len(line) - 1 :
                RemoveAt(line, k)[j] = IF j < k THEN line[j] ELSE line[j + 1]
      BY RemoveAtProperties
    <2>7. /\ IsInjective(RemoveAt(line, k))
          /\ ToSet(RemoveAt(line, k)) = ToSet(line) \ {line[k]}
      BY RemoveAtInjective
    <2>8. /\ r \in Seq(Timers) /\ DOMAIN r = 1 .. Len(line) - 1
          /\ \A j \in 1 .. Len(line) - 1 :
                r[j] = IF j < k THEN line[j] ELSE line[j + 1]
      <3>1. DOMAIN RemoveAt(line, k) = 1 .. Len(RemoveAt(line, k))
        BY <2>6
      <3> QED
        BY <2>5, <2>6, <3>1
    <2>9. ASSUME NEW i \in DOMAIN r, NEW j \in DOMAIN r, i < j
          PROVE  due[r[i]] <= due[r[j]]
      <3> DEFINE a == IF i < k THEN i ELSE i + 1
                 b == IF j < k THEN j ELSE j + 1
      <3>1. /\ a \in DOMAIN line /\ b \in DOMAIN line /\ a < b /\ a # k
            /\ r[i] = line[a] /\ r[j] = line[b]
        <4>1. i \in 1 .. Len(line) - 1 /\ j \in 1 .. Len(line) - 1
          BY <2>8
        <4>2. a \in 1 .. Len(line) /\ b \in 1 .. Len(line) /\ a < b /\ a # k
          <5> DEFINE n == Len(line)
          <5>1. /\ n \in Nat /\ k \in 1 .. n
                /\ i \in 1 .. n - 1 /\ j \in 1 .. n - 1 /\ i < j
            BY <1>0, <2>9, <4>1
          <5> HIDE DEF n, r
          <5>2. a \in 1 .. n /\ b \in 1 .. n /\ a < b /\ a # k
            BY <5>1
          <5> QED
            BY <5>2 DEF n
        <4>3. r[i] = line[a] /\ r[j] = line[b]
          BY <2>8, <4>1
        <4> QED
          BY <1>0, <4>2, <4>3
      <3> HIDE DEF a, b
      <3>2. line[a] # t
        BY <1>0, <2>1, <3>1 DEF IsInjective
      <3> QED
        BY <3>1, <3>2
    <2> QED
      BY <2>1, <2>5, <2>6, <2>7, <2>9 DEF r, Ordered
  <1> QED
    BY <1>5, <1>6

(***************************************************************************)
(* The dispatcher.                                                         *)
(***************************************************************************)

(* processNotifiers() visits an entry once, and is over when the timers    *)
(* are processed.                                                          *)
VisitsOnce == IsInjective(todo) /\ (pc # "notifiers" => todo = <<>>)

(* The inductive invariant.  That a signal is wanted rests on two more     *)
(* facts: what is in the tables is enabled, and the time that              *)
(* processTimers() goes by has come.                                       *)
DispatcherInv ==
    /\ DispatcherTypeOK /\ TimersListed /\ EntriesRemain
    /\ VisitsOnce
    /\ registered \subseteq enabled
    /\ cutoff <= now

(* A step that leaves the tables and the loop of processNotifiers() alone. *)
LEMMA TablesUnchanged ==
  ASSUME DispatcherInv, UNCHANGED <<timerVars, notifierVars, todo, round>>,
         now' \in 0 .. MaxTime, now <= now', ready' \subseteq Slots,
         closed' \subseteq ToSet(Fds), ops' \in 0 .. MaxOps,
         pc' \in {"dispatch", "poll", "notifiers", "timers"},
         pc' # "notifiers" => todo = <<>>,
         current' \in Timers \cup Notifiers \cup {None},
         revents' \subseteq Slots, invalid' \subseteq ToSet(Fds),
         cutoff' \in 0 .. MaxTime, cutoff' <= now'
  PROVE  DispatcherInv'
  BY DEF DispatcherInv, DispatcherTypeOK, TimersListed, EntriesRemain, VisitsOnce,
         timerVars, notifierVars

(* Timer::start() and stop() leave the list of timers as it should be,     *)
(* unless a running timer was restarted to an earlier time.                *)
LEMMA TimersStep ==
  ASSUME DispatcherInv, ~RestartEarlier, NEW t \in Timers,
         \/ TimerStop(t)
         \/ \E delay \in 0 .. MaxTime : TimerStart(t, delay)
  PROVE  DispatcherInv'
  <1>0. /\ timers \in Seq(Timers) /\ IsInjective(timers)
        /\ ToSet(timers) = running /\ running \subseteq Timers
        /\ deadline \in [Timers -> 0 .. MaxTime] /\ MaxTime \in Nat
        /\ deadline \in [Timers -> Nat] /\ now \in Nat
        /\ Ordered(timers, deadline)
        /\ DOMAIN timers = 1 .. Len(timers) /\ Len(timers) \in Nat
    BY DispatcherAssumption DEF DispatcherInv, DispatcherTypeOK, TimersListed, Ordered
  <1>1. SUFFICES ASSUME /\ deadline' \in [Timers -> 0 .. MaxTime]
                        /\ timers' \in Seq(Timers) /\ IsInjective(timers')
                        /\ ToSet(timers') = running'
                        /\ Ordered(timers', deadline')
                        /\ running' \subseteq Timers /\ ops' \in 0 .. MaxOps
                        /\ UNCHANGED <<notifierVars, kernelVars, pollVars>>
                 PROVE  DispatcherInv'
    <2>1. CASE TimerStop(t)
      <3>1. /\ UnregisterTimer(timers, t, deadline) \in Seq(Timers)
            /\ IsInjective(UnregisterTimer(timers, t, deadline))
            /\ ToSet(UnregisterTimer(timers, t, deadline))
                   = ToSet(timers) \ {t}
            /\ Ordered(UnregisterTimer(timers, t, deadline), deadline)
        <4>1. \A i, j \in DOMAIN timers :
                i < j /\ timers[i] # t
                    => deadline[timers[i]] <= deadline[timers[j]]
          BY <1>0 DEF Ordered
        <4> QED
          BY <1>0, <4>1, UnregisterTimerSound
      <3>2. /\ timers' = UnregisterTimer(timers, t, deadline)
            /\ running' = running \ {t} /\ deadline' = deadline
            /\ UNCHANGED <<notifierVars, kernelVars, pollVars>>
            /\ ops' \in 0 .. MaxOps
        BY <2>1, DispatcherAssumption
           DEF TimerStop, Operation, DispatcherInv, DispatcherTypeOK
      <3> QED
        BY <1>0, <1>1, <3>1, <3>2
    <2>2. ASSUME NEW delay \in 0 .. MaxTime, TimerStart(t, delay)
          PROVE  DispatcherInv'
      <3> DEFINE due == [deadline EXCEPT ![t] = Deadline(delay)]
                 rest == IF t \in running THEN UnregisterTimer(timers, t, due)
                                          ELSE timers
      <3>1. /\ deadline' = due /\ timers' = RegisterTimer(rest, t, due)
            /\ running' = running \cup {t}
            /\ UNCHANGED <<notifierVars, kernelVars, pollVars>>
            /\ ops' \in 0 .. MaxOps
        BY <2>2, DispatcherAssumption
           DEF TimerStart, Operation, DispatcherInv, DispatcherTypeOK
      <3>2. /\ due \in [Timers -> 0 .. MaxTime] /\ due \in [Timers -> Nat]
            /\ \A u \in Timers : u # t => due[u] = deadline[u]
            /\ t \in running => due[t] >= deadline[t]
        BY <1>0, <2>2 DEF TimerStart, Deadline
      <3> HIDE DEF due
      <3>3. /\ rest \in Seq(Timers) /\ IsInjective(rest)
            /\ ToSet(rest) = running \ {t} /\ Ordered(rest, due)
        <4>0. \A i \in DOMAIN timers : timers[i] \in Timers
          BY <1>0
        <4>1. CASE t \in running
          <5>1. ASSUME NEW i \in DOMAIN timers, NEW j \in DOMAIN timers,
                       i < j, timers[i] # t
                PROVE  due[timers[i]] <= due[timers[j]]
            <6>1. /\ deadline[timers[i]] <= deadline[timers[j]]
                  /\ due[timers[i]] = deadline[timers[i]]
                  /\ timers[i] \in Timers /\ timers[j] \in Timers
              BY <1>0, <3>2, <4>0, <5>1 DEF Ordered
            <6>2. due[timers[j]] >= deadline[timers[j]]
              <7>1. CASE timers[j] = t
                BY <3>2, <4>1, <7>1
              <7>2. CASE timers[j] # t
                <8>1. /\ due[timers[j]] = deadline[timers[j]]
                      /\ deadline[timers[j]] \in Nat
                  BY <1>0, <3>2, <6>1, <7>2
                <8> QED
                  BY <8>1
              <7> QED
                BY <7>1, <7>2
            <6>3. /\ deadline[timers[i]] \in Nat /\ due[timers[j]] \in Nat
                  /\ deadline[timers[j]] \in Nat
              BY <1>0, <3>2, <6>1
            <6> QED
              BY <6>1, <6>2, <6>3
          <5>2. /\ UnregisterTimer(timers, t, due) \in Seq(Timers)
                /\ IsInjective(UnregisterTimer(timers, t, due))
                /\ ToSet(UnregisterTimer(timers, t, due)) = ToSet(timers) \ {t}
                /\ Ordered(UnregisterTimer(timers, t, due), due)
            BY <1>0, <3>2, <5>1, UnregisterTimerSound
          <5> QED
            BY <1>0, <4>1, <5>2
        <4>2. CASE t \notin running
          <5>1. \A i \in DOMAIN timers : timers[i] # t
            BY <1>0, <4>2 DEF ToSet
          <5>2. Ordered(timers, due)
            BY <1>0, <3>2, <4>0, <5>1 DEF Ordered
          <5> QED
            BY <1>0, <4>2, <5>2
        <4> QED
          BY <4>1, <4>2
      <3> HIDE DEF rest
      <3>4. /\ RegisterTimer(rest, t, due) \in Seq(Timers)
            /\ IsInjective(RegisterTimer(rest, t, due))
            /\ ToSet(RegisterTimer(rest, t, due)) = ToSet(rest) \cup {t}
            /\ Ordered(RegisterTimer(rest, t, due), due)
        BY <3>2, <3>3, RegisterTimerSound
      <3> QED
        BY <1>0, <1>1, <3>1, <3>2, <3>3, <3>4
    <2> QED
      BY <2>1, <2>2
  <1> QED
    BY <1>1 DEF DispatcherInv, DispatcherTypeOK, TimersListed, EntriesRemain,
                VisitsOnce, Ordered, notifierVars, kernelVars, pollVars

(* Enabling and disabling a notifier from a slot keeps the entries that    *)
(* processNotifiers() has yet to leave.                                    *)
LEMMA NotifiersStep ==
  ASSUME DispatcherInv, NEW n \in Notifiers, Enable(n) \/ Disable(n)
  PROVE  DispatcherInv'
  <1>0. FdOf[n] \in ToSet(Fds)
    BY DispatcherAssumption
  <1>1. UNCHANGED <<timerVars, kernelVars, pollVars>> /\ ops' \in 0 .. MaxOps
    BY DispatcherAssumption
       DEF Enable, Disable, Operation, DispatcherInv, DispatcherTypeOK
  <1>2. /\ enabled' \subseteq Notifiers /\ registered' \subseteq enabled'
        /\ entries' \subseteq ToSet(Fds)
    BY <1>0 DEF Enable, Disable, Unregister, EntriesAfter, DispatcherInv,
                DispatcherTypeOK
  <1>3. pc = "notifiers" => entries \subseteq entries'
    BY DEF Enable, Disable, EntriesAfter
  <1>4. pc # "notifiers" => ToSet(todo) = {}
    BY DEF DispatcherInv, VisitsOnce, ToSet
  <1> QED
    BY <1>1, <1>2, <1>3, <1>4
       DEF DispatcherInv, DispatcherTypeOK, TimersListed, EntriesRemain, VisitsOnce,
           timerVars, kernelVars, pollVars

(* poll() returns: the entries of the map are visited, each once.          *)
LEMMA ReturnedStep ==
  ASSUME DispatcherInv, Returned
  PROVE  DispatcherInv'
  <1>1. /\ PollFds \in Seq(ToSet(Fds))
        /\ ToSet(PollFds) = ToSet(Fds) \ (ToSet(Fds) \ entries)
        /\ IsInjective(Fds) => IsInjective(PollFds)
    BY DispatcherAssumption, WithoutProperties DEF PollFds
  <1>2. Events \subseteq Slots
    BY DispatcherAssumption DEF Events, Slots, SlotOf, DispatcherInv, DispatcherTypeOK
  <1> QED
    BY <1>1, <1>2, DispatcherAssumption
       DEF Returned, DispatcherInv, DispatcherTypeOK, TimersListed, EntriesRemain,
           VisitsOnce, timerVars, notifierVars, kernelVars

(* The loops of processNotifiers(): the entry that is erased is the one    *)
(* that is left.                                                           *)
LEMMA VisitStep ==
  ASSUME DispatcherInv, VisitSlot \/ EndVisit
  PROVE  DispatcherInv'
  <1>0. /\ todo \in Seq(ToSet(Fds)) /\ Len(Types) \in Nat
        /\ round \in 1 .. Len(Types) + 1
    BY DispatcherAssumption DEF DispatcherInv, DispatcherTypeOK
  <1>1. CASE VisitSlot
    <2>1. /\ registered' \subseteq registered /\ round' \in 1 .. Len(Types) + 1
          /\ UNCHANGED <<timerVars, enabled, entries, kernelVars, pc, todo,
                         revents, invalid, cutoff, ops>>
      BY <1>0, <1>1 DEF VisitSlot
    <2>2. current' \in Notifiers \cup {None}
      BY <1>1 DEF VisitSlot, DispatcherInv, DispatcherTypeOK
    <2> QED
      BY <2>1, <2>2
         DEF DispatcherInv, DispatcherTypeOK, TimersListed, EntriesRemain, VisitsOnce,
             timerVars, kernelVars
  <1>2. CASE EndVisit
    <2>1. /\ todo # <<>> /\ todo' = Tail(todo) /\ round' = 1
          /\ entries \ {Head(todo)} \subseteq entries'
          /\ entries' \subseteq entries
          /\ UNCHANGED <<timerVars, enabled, registered, kernelVars, pc,
                         current, revents, invalid, cutoff, ops>>
          /\ pc = "notifiers"
      BY <1>2 DEF EndVisit
    <2>2. /\ todo' \in Seq(ToSet(Fds)) /\ Len(todo) \in Nat
          /\ DOMAIN todo = 1 .. Len(todo) /\ DOMAIN todo' = 1 .. Len(todo) - 1
          /\ \A i \in 1 .. Len(todo) - 1 : todo'[i] = todo[i + 1]
          /\ Head(todo) = todo[1] /\ 1 \in DOMAIN todo
      BY <1>0, <2>1
    <2>3. IsInjective(todo')
      <3>1. \A i \in DOMAIN todo' :
                i + 1 \in DOMAIN todo /\ todo'[i] = todo[i + 1] /\ i \in Nat
        BY <2>2
      <3>2. IsInjective(todo)
        BY DEF DispatcherInv, VisitsOnce
      <3> QED
        BY <3>1, <3>2 DEF IsInjective
    <2>4. ToSet(todo') \subseteq ToSet(todo) \ {Head(todo)}
      <3>1. \A i \in DOMAIN todo' :
                i + 1 \in DOMAIN todo /\ todo'[i] = todo[i + 1] /\ i + 1 # 1
        BY <2>2
      <3>2. IsInjective(todo)
        BY DEF DispatcherInv, VisitsOnce
      <3>3. \A i \in DOMAIN todo' : todo'[i] # Head(todo)
        BY <2>2, <3>1, <3>2 DEF IsInjective
      <3> QED
        BY <3>1, <3>3 DEF ToSet
    <2>5. 1 \in 1 .. Len(Types) + 1
      BY <1>0
    <2> QED
      BY <2>1, <2>2, <2>3, <2>4, <2>5
         DEF DispatcherInv, DispatcherTypeOK, TimersListed, EntriesRemain, VisitsOnce,
             timerVars, kernelVars
  <1> QED
    BY <1>1, <1>2

(* processTimers() takes the first timer off the list.                     *)
LEMMA FireStep ==
  ASSUME DispatcherInv, FireTimer
  PROVE  /\ DispatcherInv'
         /\ Head(timers) \in running /\ deadline[Head(timers)] <= now
  <1> DEFINE t == Head(timers)
             rest == Tail(timers)
  <1>0. /\ timers \in Seq(Timers) /\ IsInjective(timers) /\ timers # <<>>
        /\ ToSet(timers) = running /\ running \subseteq Timers
        /\ deadline \in [Timers -> 0 .. MaxTime] /\ MaxTime \in Nat
        /\ deadline \in [Timers -> Nat] /\ cutoff <= now /\ deadline[t] <= cutoff
        /\ now \in Nat /\ cutoff \in Nat
        /\ Ordered(timers, deadline)
    BY DispatcherAssumption
       DEF DispatcherInv, DispatcherTypeOK, TimersListed, Ordered, FireTimer, Due
  <1>1. /\ rest \in Seq(Timers) /\ Len(timers) \in Nat
        /\ DOMAIN timers = 1 .. Len(timers) /\ DOMAIN rest = 1 .. Len(timers) - 1
        /\ \A i \in 1 .. Len(timers) - 1 : rest[i] = timers[i + 1]
        /\ t = timers[1] /\ 1 \in DOMAIN timers
    BY <1>0
  <1>2. t \in running /\ t \in Timers /\ deadline[t] \in Nat
    BY <1>0, <1>1 DEF ToSet
  <1>3. deadline[t] <= now
    BY <1>0, <1>2
  <1> HIDE DEF rest, t
  <1>4. \A i \in DOMAIN rest :
            i + 1 \in DOMAIN timers /\ rest[i] = timers[i + 1] /\ i \in Nat
            /\ i + 1 # 1
    BY <1>1
  <1>5. IsInjective(rest)
    BY <1>0, <1>4 DEF IsInjective
  <1>6. ToSet(rest) = running \ {t}
    <2>1. \A i \in DOMAIN rest : rest[i] # t
      BY <1>0, <1>1, <1>4 DEF IsInjective
    <2>2. ToSet(rest) \subseteq running \ {t}
      BY <1>0, <1>4, <2>1 DEF ToSet
    <2>3. ASSUME NEW u \in running \ {t} PROVE u \in ToSet(rest)
      <3>1. PICK k \in DOMAIN timers : u = timers[k]
        BY <1>0, <2>3 DEF ToSet
      <3>2. k # 1
        BY <1>1, <2>3, <3>1
      <3>3. k - 1 \in DOMAIN rest /\ rest[k - 1] = u
        BY <1>1, <3>1, <3>2
      <3> QED
        BY <3>3 DEF ToSet
    <2> QED
      BY <2>2, <2>3
  <1>7. \A i, j \in DOMAIN rest :
            i < j /\ rest[i] # t => deadline[rest[i]] <= deadline[rest[j]]
    <2>1. \A i, j \in DOMAIN rest : i < j => i + 1 < j + 1
      BY <1>1
    <2> QED
      BY <1>0, <1>4, <2>1 DEF Ordered
  <1>8. /\ UnregisterTimer(rest, t, deadline) \in Seq(Timers)
        /\ IsInjective(UnregisterTimer(rest, t, deadline))
        /\ ToSet(UnregisterTimer(rest, t, deadline)) = ToSet(rest) \ {t}
        /\ Ordered(UnregisterTimer(rest, t, deadline), deadline)
    BY <1>0, <1>1, <1>2, <1>5, <1>7, UnregisterTimerSound
  <1>9. /\ timers' = UnregisterTimer(rest, t, deadline)
        /\ running' = running \ {t} /\ current' = t
        /\ UNCHANGED <<deadline, notifierVars, kernelVars, pc, todo, round,
                       revents, invalid, cutoff, ops>>
    BY <1>2 DEF FireTimer, rest, t
  <1>10. DispatcherInv'
    BY <1>0, <1>2, <1>6, <1>8, <1>9
       DEF DispatcherInv, DispatcherTypeOK, TimersListed, EntriesRemain, VisitsOnce,
           Ordered, notifierVars, kernelVars
  <1> QED
    BY <1>2, <1>3, <1>10 DEF t

(* Every step of the thread, of its slots and of the world keeps the       *)
(* invariant.                                                              *)
LEMMA DispatcherStep ==
  ASSUME DispatcherInv, ~RestartEarlier, [DispatcherNext]_dispatcherVars
  PROVE  DispatcherInv'
  <1>0. /\ MaxTime \in Nat /\ MaxOps \in Nat /\ now \in 0 .. MaxTime
        /\ cutoff \in 0 .. MaxTime /\ cutoff <= now /\ now <= now
        /\ ready \subseteq Slots /\ closed \subseteq ToSet(Fds)
        /\ ops \in 0 .. MaxOps /\ revents \subseteq Slots
        /\ invalid \subseteq ToSet(Fds) /\ 0 \in 0 .. MaxTime /\ 0 <= now
        /\ current \in Timers \cup Notifiers \cup {None}
        /\ pc \in {"dispatch", "poll", "notifiers", "timers"}
        /\ pc # "notifiers" => todo = <<>>
        /\ {SlotOf(n) : n \in Notifiers} \subseteq Slots
    BY DispatcherAssumption
       DEF DispatcherInv, DispatcherTypeOK, VisitsOnce, Slots, SlotOf
  <1>1. ASSUME MessagesDispatched PROVE DispatcherInv'
    BY <1>0, <1>1, TablesUnchanged
       DEF MessagesDispatched, timerVars, notifierVars, kernelVars
  <1>2. ASSUME PollReady \/ PollInterrupted PROVE DispatcherInv'
    BY <1>2, ReturnedStep DEF PollReady, PollInterrupted
  <1>3. ASSUME PollTimeout PROVE DispatcherInv'
    BY <1>0, <1>3, TablesUnchanged
       DEF PollTimeout, ToTimers, timerVars, notifierVars, kernelVars
  <1>4. ASSUME PollFailed PROVE DispatcherInv'
    BY <1>0, <1>4, TablesUnchanged
       DEF PollFailed, ToTimers, timerVars, notifierVars, kernelVars
  <1>5. ASSUME VisitSlot \/ EndVisit PROVE DispatcherInv'
    BY <1>5, VisitStep
  <1>6. ASSUME NotifiersDone PROVE DispatcherInv'
    BY <1>0, <1>6, TablesUnchanged
       DEF NotifiersDone, ToTimers, timerVars, notifierVars, kernelVars
  <1>7. ASSUME FireTimer PROVE DispatcherInv'
    BY <1>7, FireStep
  <1>8. ASSUME TimersDone PROVE DispatcherInv'
    BY <1>0, <1>8, TablesUnchanged
       DEF TimersDone, timerVars, notifierVars, kernelVars
  <1>9. ASSUME HandlerReturns PROVE DispatcherInv'
    BY <1>0, <1>9, TablesUnchanged
       DEF HandlerReturns, timerVars, notifierVars, kernelVars
  <1>10. ASSUME NEW t \in Timers,
                \/ TimerStop(t)
                \/ \E delay \in 0 .. MaxTime : TimerStart(t, delay)
         PROVE  DispatcherInv'
    BY <1>10, TimersStep
  <1>11. ASSUME NEW n \in Notifiers, Enable(n) \/ Disable(n)
         PROVE  DispatcherInv'
    BY <1>11, NotifiersStep
  <1>12. ASSUME NEW e \in {SlotOf(n) : n \in Notifiers},
                Consume(e) \/ BecomeReady(e)
         PROVE  DispatcherInv'
    BY <1>0, <1>12, TablesUnchanged
       DEF Consume, BecomeReady, timerVars, notifierVars, pollVars
  <1>13. ASSUME NEW fd \in ToSet(Fds), Close(fd) PROVE DispatcherInv'
    BY <1>0, <1>13, TablesUnchanged
       DEF Close, Operation, timerVars, notifierVars, pollVars
  <1>14. ASSUME Tick PROVE DispatcherInv'
    BY <1>0, <1>14, TablesUnchanged
       DEF Tick, timerVars, notifierVars, pollVars
  <1>15. ASSUME UNCHANGED dispatcherVars PROVE DispatcherInv'
    BY <1>0, <1>15, TablesUnchanged
       DEF dispatcherVars, timerVars, notifierVars, kernelVars, pollVars
  <1> QED
    BY <1>1, <1>2, <1>3, <1>4, <1>5, <1>6, <1>7, <1>8, <1>9, <1>10, <1>11,
       <1>12, <1>13, <1>14, <1>15 DEF DispatcherNext, ProcessEvents, HandlerNext

(* The first state.                                                        *)
LEMMA DispatcherStart ==
  ASSUME DispatcherInit
  PROVE  DispatcherInv
  <1>1. /\ MaxTime \in Nat /\ MaxOps \in Nat /\ Len(Types) \in Nat
        /\ 0 \in 0 .. MaxTime /\ 0 \in 0 .. MaxOps /\ 1 \in 1 .. Len(Types) + 1
    BY DispatcherAssumption
  <1>2. /\ ToSet(<<>>) = {} /\ IsInjective(<<>>)
        /\ <<>> \in Seq(Timers) /\ <<>> \in Seq(ToSet(Fds))
    BY DEF ToSet, IsInjective
  <1>3. \A i, j \in DOMAIN timers : i < j => FALSE
    BY DEF DispatcherInit
  <1> QED
    BY <1>1, <1>2, <1>3
       DEF DispatcherInit, DispatcherInv, DispatcherTypeOK, TimersListed, EntriesRemain, VisitsOnce

(* What the dispatcher does in a thread that also emits signals and runs a *)
(* timeline is what it does by itself.                                     *)
LEMMA DispatcherAspect == EventsSpec => DispatcherSpec
  <1>1. EventsInit => DispatcherInit
    BY DEF EventsInit
  <1>2. [EventsNext]_eventVars => [DispatcherNext]_dispatcherVars
    BY DEF EventsNext, eventVars, Dispatching, Signalling, Scheduling
  <1> QED
    BY <1>1, <1>2, PTL DEF EventsSpec, DispatcherSpec

(* The lists of timers and of notifiers stay sound while the slots that    *)
(* processEvents() calls start, stop, enable and disable what is in them:  *)
(* the timers that run are listed once and in the order of their           *)
(* deadlines, and an entry that is yet to be visited is there.  Starting a *)
(* timer that runs to an earlier time is excluded: it breaks the list.     *)
THEOREM TablesAreSound ==
  ASSUME ~RestartEarlier
  PROVE  EventsSpec => []TablesSound
  <1>1. DispatcherInv => TablesSound
    BY DEF DispatcherInv, TablesSound
  <1>2. DispatcherInit => DispatcherInv
    BY DispatcherStart
  <1>3. DispatcherInv /\ [DispatcherNext]_dispatcherVars => DispatcherInv'
    BY DispatcherStep
  <1> QED
    BY <1>1, <1>2, <1>3, DispatcherAspect, PTL DEF DispatcherSpec

(* A timer fires when it is running and due, and a notifier is activated   *)
(* when it is enabled and poll() has returned its event, though an earlier *)
(* slot of the same round may have stopped or disabled it.                 *)
THEOREM SignalsAreWanted ==
  ASSUME ~RestartEarlier
  PROVE  EventsSpec => SignalsWanted
  <1> DEFINE Fires == \A t \in Timers : (current # t /\ current' = t) =>
                          t \in running /\ deadline[t] <= now
             Activates == \A n \in Notifiers : (current # n /\ current' = n) =>
                              n \in enabled /\ SlotOf(n) \in revents
  <1>1. ASSUME DispatcherInv, [DispatcherNext]_dispatcherVars PROVE Fires /\ Activates
    <2>0. None \notin Timers \cup Notifiers /\ Timers \cap Notifiers = {}
      BY DispatcherAssumption
    <2>1. CASE FireTimer
      <3>1. /\ current' = Head(timers) /\ Head(timers) \in running
            /\ deadline[Head(timers)] <= now
        BY <1>1, <2>1, FireStep DEF FireTimer
      <3>2. Head(timers) \in Timers
        BY <1>1, <3>1 DEF DispatcherInv, DispatcherTypeOK
      <3> QED
        BY <2>0, <3>1, <3>2
    <2>2. CASE VisitSlot
      <3>1. \/ current' = None
            \/ /\ current' \in registered /\ SlotOf(current') \in revents
        BY <2>2 DEF VisitSlot
      <3>2. registered \subseteq enabled /\ enabled \subseteq Notifiers
        BY <1>1 DEF DispatcherInv, DispatcherTypeOK
      <3> QED
        BY <2>0, <3>1, <3>2
    <2>3. CASE HandlerReturns
      BY <2>0, <2>3 DEF HandlerReturns
    <2>4. ASSUME ~FireTimer, ~VisitSlot, ~HandlerReturns
          PROVE  current' = current
      BY <1>1, <2>4
         DEF DispatcherNext, ProcessEvents, HandlerNext, dispatcherVars, pollVars,
             MessagesDispatched, PollReady, PollInterrupted, Returned,
             PollTimeout, PollFailed, EndVisit, NotifiersDone, TimersDone,
             TimerStart, TimerStop, Enable, Disable, Consume, Close, Tick,
             BecomeReady
    <2> QED
      BY <2>1, <2>2, <2>3, <2>4
  <1>2. DispatcherInit => DispatcherInv
    BY DispatcherStart
  <1>3. DispatcherInv /\ [DispatcherNext]_dispatcherVars => DispatcherInv'
    BY DispatcherStep
  <1> QED
    BY <1>1, <1>2, <1>3, DispatcherAspect, PTL
       DEF DispatcherSpec, SignalsWanted, FiresWhenDue, ActivatedWhenEnabled

(***************************************************************************)
(* The signals.                                                            *)
(***************************************************************************)

(* What emit() is about to call is connected, if nothing was pulled away.  *)
EmissionAlive == pulled \/ \A m \in ToSet(emission) : m \in Connected

(* What a message is about to call is connected, or its object is in its   *)
(* destructor, which removes the message, if nothing was pulled away.      *)
PostedAlive ==
    \A m \in ToSet(posted) :
        m.object \in Remote /\ (pulled \/ m \in Connected \/ m.object = dying)

(* An object in its destructor is still there, and has handed its signals  *)
(* over to the private list; they are there if nothing was pulled away.    *)
DestructorSound ==
    /\ pulled \/ leaving \subseteq undeleted
    /\ dying = NoReceiver => leaving = {}
    /\ dying # NoReceiver => dying \in undeleted /\ signals[dying] = {}

(* An object names a signal only as long as it has a slot on it.           *)
SignalsNamed ==
    \A o \in Receivers : \A s \in signals[o] : SlotsOf(s, o) # {}

(* The inductive invariant: what is about to be called must be known to be *)
(* alive, and a signal that is deleted must not be named by an object that *)
(* has no slot on it any more.                                             *)
SignalInv ==
    /\ SlotsConnected /\ SignalsNamed
    /\ EmissionAlive /\ PostedAlive /\ DestructorSound

(* What the lists hold.                                                    *)
LEMMA ListedMethods ==
  ASSUME SignalInv
  PROVE  /\ \A u \in Signals : ToSet(slots[u]) \subseteq Methods
         /\ Connected \subseteq Methods
         /\ ToSet(emission) \subseteq Methods
         /\ ToSet(posted) \subseteq Methods
         /\ \A m \in Methods : m.object \in Receivers
  <1>1. /\ slots \in [Signals -> Seq(Methods)]
        /\ emission \in Seq(Methods) /\ posted \in Seq(Methods)
    BY DEF SignalInv, SlotsConnected, SignalTypeOK
  <1>2. ASSUME NEW u \in Signals PROVE ToSet(slots[u]) \subseteq Methods
    <2>1. slots[u] \in Seq(Methods)
      BY <1>1
    <2> QED
      BY <2>1 DEF ToSet
  <1>3. ToSet(emission) \subseteq Methods /\ ToSet(posted) \subseteq Methods
    BY <1>1 DEF ToSet
  <1>4. \A m \in Methods : m.object \in Receivers
    BY DEF Methods
  <1> QED
    BY <1>2, <1>3, <1>4 DEF Connected

(* disconnect() keeps the two lists in step but for the slots it strands,  *)
(* and meets an object that is gone only for a stranded slot.              *)
LEMMA DisconnectSound ==
  ASSUME SignalInv, NEW s \in Signals, NEW matched, Disconnect(s, matched),
         matched \subseteq ToSet(slots[s])
  PROVE  /\ slots' \in [Signals -> Seq(Methods)]
         /\ signals' \in [Receivers -> SUBSET Signals]
         /\ stranded' \in [Signals -> SUBSET Methods]
         /\ misused' \in BOOLEAN
         /\ \A u \in Signals : ToSet(slots'[u]) \subseteq ToSet(slots[u])
         /\ ToSet(slots'[s]) = ToSet(slots[s]) \ matched
         /\ \A m \in Connected \ matched : m \in Connected'
         /\ \A o \in Receivers : signals'[o] \subseteq signals[o]
         /\ \A u \in Signals : \A m \in ToSet(slots'[u]) \ stranded'[u] :
                /\ m \in ToSet(slots[u]) \ stranded[u]
                /\ u \in signals[m.object] => u \in signals'[m.object]
         /\ SignalsNamed'
         /\ misused' => s \notin undeleted \/ \E m \in stranded'[s] :
                           m.object \in Receivers /\ m.object \notin undeleted
  <1>0. /\ slots \in [Signals -> Seq(Methods)]
        /\ signals \in [Receivers -> SUBSET Signals]
        /\ stranded \in [Signals -> SUBSET Methods]
    BY DEF SignalInv, SlotsConnected, SignalTypeOK
  <1>1. /\ slots[s] \in Seq(Methods)
        /\ \A u \in Signals : ToSet(slots[u]) \subseteq Methods
        /\ \A m \in Methods : m.object \in Receivers
    BY <1>0, ListedMethods
  <1>2. /\ Without(slots[s], matched) \in Seq(Methods)
        /\ ToSet(Without(slots[s], matched)) = ToSet(slots[s]) \ matched
        /\ IsInjective(slots[s]) => IsInjective(Without(slots[s], matched))
    BY <1>1, WithoutProperties
  <1>3. slots' = [slots EXCEPT ![s] = Without(slots[s], matched)]
    BY DEF Disconnect
  <1>4. /\ slots' \in [Signals -> Seq(Methods)]
        /\ ToSet(slots'[s]) = ToSet(slots[s]) \ matched
        /\ \A u \in Signals : u # s => slots'[u] = slots[u]
    BY <1>0, <1>2, <1>3
  <1>5. \A u \in Signals : ToSet(slots'[u]) \subseteq ToSet(slots[u])
    <2>1. ASSUME NEW u \in Signals
          PROVE  ToSet(slots'[u]) \subseteq ToSet(slots[u])
      <3>1. CASE u = s
        BY <1>4, <3>1
      <3>2. CASE u # s
        BY <1>4, <3>2
      <3> QED
        BY <3>1, <3>2
    <2> QED
      BY <2>1
  <1>6. ASSUME NEW m \in Connected \ matched PROVE m \in Connected'
    <2>1. PICK u \in Signals : m \in ToSet(slots[u])
      BY <1>6 DEF Connected
    <2>2. m \in ToSet(slots'[u])
      <3>1. CASE u = s
        BY <1>4, <1>6, <2>1, <3>1
      <3>2. CASE u # s
        BY <1>4, <2>1, <3>2
      <3> QED
        BY <3>1, <3>2
    <2> QED
      BY <2>2 DEF Connected
  <1>7. /\ signals' \in [Receivers -> SUBSET Signals]
        /\ \A o \in Receivers : signals'[o] =
             IF o \in {k.object : k \in matched} THEN signals[o] \ {s}
                                                 ELSE signals[o]
    BY <1>0 DEF Disconnect, Forget
  <1>8. \A o \in Receivers : signals'[o] \subseteq signals[o]
    BY <1>7
  <1> DEFINE left == LeftBehind(s, matched)
             safe == {m \in matched : m.object \in undeleted}
  <1>9. /\ left \subseteq Methods
        /\ \A m \in ToSet(slots[s]) \ matched :
              m.object \in {k.object : k \in matched} => m \in left
        /\ safe \subseteq matched
        /\ \A m \in matched : m.object \notin undeleted => m \notin safe
    BY <1>1 DEF LeftBehind
  <1>10. stranded' = [stranded EXCEPT ![s] = (stranded[s] \ safe) \cup left]
    BY DEF Disconnect
  <1> HIDE DEF left, safe
  <1>11. /\ stranded' \in [Signals -> SUBSET Methods]
         /\ stranded'[s] = (stranded[s] \ safe) \cup left
         /\ \A u \in Signals : u # s => stranded'[u] = stranded[u]
    BY <1>0, <1>9, <1>10
  <1>12. ASSUME NEW u \in Signals, NEW m \in ToSet(slots'[u]) \ stranded'[u]
         PROVE  /\ m \in ToSet(slots[u]) \ stranded[u]
                /\ u \in signals[m.object] => u \in signals'[m.object]
    <2>1. m \in ToSet(slots[u])
      BY <1>5
    <2>2. m.object \in Receivers
      BY <1>1, <2>1
    <2>3. CASE u = s
      <3>1. m \notin matched
        BY <1>4, <2>3
      <3>2. m \notin stranded[s] /\ m \notin left
        BY <1>9, <1>11, <2>3, <3>1
      <3>3. m.object \notin {k.object : k \in matched}
        BY <1>9, <2>1, <2>3, <3>1, <3>2
      <3> QED
        BY <1>7, <2>1, <2>2, <2>3, <3>2, <3>3
    <2>4. CASE u # s
      BY <1>7, <1>11, <1>12, <2>1, <2>2, <2>4
    <2> QED
      BY <2>3, <2>4
  <1>13. ASSUME NEW o \in Receivers, NEW u \in signals'[o]
         PROVE  SlotsOf(u, o)' # {}
    <2>1. u \in signals[o] /\ u \in Signals
      BY <1>0, <1>8
    <2>2. PICK m \in ToSet(slots[u]) : m.object = o
      BY <2>1 DEF SignalInv, SignalsNamed, SlotsOf
    <2>3. m \in ToSet(slots'[u])
      <3>1. CASE u = s
        <4>1. o \notin {k.object : k \in matched}
          BY <1>7, <1>13, <3>1
        <4>2. m \notin matched
          BY <2>2, <4>1
        <4> QED
          BY <1>4, <2>2, <3>1, <4>2
      <3>2. CASE u # s
        BY <1>4, <2>1, <2>2, <3>2
      <3> QED
        BY <3>1, <3>2
    <2> QED
      BY <2>2, <2>3 DEF SlotsOf
  <1>14. SignalsNamed'
    BY <1>13 DEF SignalsNamed
  <1>15. ASSUME misused', s \in undeleted
         PROVE  \E m \in stranded'[s] :
                   m.object \in Receivers /\ m.object \notin undeleted
    <2>1. PICK m \in matched : m.object \notin undeleted
      BY <1>15 DEF Disconnect
    <2>2. m \in stranded[s] /\ m.object \in Receivers
      BY <1>1, <2>1 DEF SignalInv, SlotsConnected
    <2>3. m \in stranded'[s]
      BY <1>9, <1>11, <2>1, <2>2
    <2> QED
      BY <2>1, <2>2, <2>3
  <1>16. misused' \in BOOLEAN
    BY DEF Disconnect
  <1> QED
    BY <1>4, <1>5, <1>6, <1>7, <1>8, <1>11, <1>12, <1>14, <1>15, <1>16

(* disconnect() and ~Signal(): what they pull away is noted.               *)
LEMMA DisconnectStep ==
  ASSUME SignalInv, NEW s \in Signals, NEW matched, s \in undeleted,
         matched \subseteq ToSet(slots[s]),
         Disconnect(s, matched),
         pulled' \in BOOLEAN, pulled => pulled',
         ~pulled' => matched \cap (ToSet(emission) \cup ToSet(posted)) = {},
         \/ undeleted' = undeleted
         \/ /\ undeleted' = undeleted \ {s} /\ matched = ToSet(slots[s])
            /\ ~pulled' => s \notin leaving,
         UNCHANGED <<emission, inSlot, posted, dying, leaving, methods,
                     emissions>>
  PROVE  SignalInv'
  <1>1. /\ slots' \in [Signals -> Seq(Methods)]
        /\ signals' \in [Receivers -> SUBSET Signals]
        /\ stranded' \in [Signals -> SUBSET Methods]
        /\ misused' \in BOOLEAN
        /\ \A u \in Signals : ToSet(slots'[u]) \subseteq ToSet(slots[u])
        /\ ToSet(slots'[s]) = ToSet(slots[s]) \ matched
        /\ \A m \in Connected \ matched : m \in Connected'
        /\ \A o \in Receivers : signals'[o] \subseteq signals[o]
        /\ \A u \in Signals : \A m \in ToSet(slots'[u]) \ stranded'[u] :
               /\ m \in ToSet(slots[u]) \ stranded[u]
               /\ u \in signals[m.object] => u \in signals'[m.object]
        /\ SignalsNamed'
        /\ misused' => s \notin undeleted \/ \E m \in stranded'[s] :
                          m.object \in Receivers /\ m.object \notin undeleted
    BY DisconnectSound
  <1>3. /\ \A u \in Signals : ToSet(slots[u]) \subseteq Methods
        /\ \A m \in Methods : m.object \in Receivers
    BY ListedMethods
  <1>4. /\ dying \in Receivers \cup {NoReceiver} /\ leaving \subseteq Signals
        /\ Signals \cap Receivers = {}
        /\ \A o \in Receivers : o \in undeleted => o \in undeleted'
        /\ \A u \in Signals : u # s /\ u \in undeleted => u \in undeleted'
        /\ undeleted' \subseteq undeleted
    BY SignalAssumption DEF SignalInv, SlotsConnected, SignalTypeOK
  <1>5. undeleted' = undeleted \/ ToSet(slots'[s]) = {}
    BY <1>1
  <1>6. ASSUME NEW u \in Signals, NEW m \in ToSet(slots'[u]) \ stranded'[u]
        PROVE  /\ {u, m.object} \subseteq undeleted'
               /\ u \in signals'[m.object]
                  \/ (m.object = dying' /\ u \in leaving')
    <2>1. /\ m \in ToSet(slots[u]) \ stranded[u] /\ m.object \in Receivers
          /\ u \in signals[m.object] => u \in signals'[m.object]
      BY <1>1, <1>3
    <2>2. /\ {u, m.object} \subseteq undeleted
          /\ u \in signals[m.object] \/ (m.object = dying /\ u \in leaving)
      BY <2>1 DEF SignalInv, SlotsConnected
    <2>3. u \in undeleted'
      BY <1>4, <1>5, <2>2
    <2> QED
      BY <1>4, <2>1, <2>2, <2>3
  <1>7. \A o \in Receivers : signals'[o] \subseteq undeleted'
    <2>1. CASE undeleted' = undeleted
      BY <1>1, <2>1 DEF SignalInv, SlotsConnected
    <2>2. CASE undeleted' # undeleted
      <3>1. ASSUME NEW o \in Receivers, s \in signals'[o] PROVE FALSE
        <4>1. SlotsOf(s, o)' # {}
          BY <1>1, <3>1 DEF SignalsNamed
        <4> QED
          BY <1>5, <2>2, <4>1 DEF SlotsOf
      <3> QED
        BY <1>1, <1>4, <3>1 DEF SignalInv, SlotsConnected
    <2> QED
      BY <2>1, <2>2
  <1>8. SlotsConnected'
    <2>1. SignalTypeOK'
      BY <1>1, <1>4 DEF SignalInv, SlotsConnected, SignalTypeOK
    <2>2. misused' => \E u \in Signals : \E m \in stranded'[u] :
                         m.object \notin undeleted'
      BY <1>1, <1>4
    <2> QED
      BY <1>6, <1>7, <2>1, <2>2 DEF SlotsConnected
  <1>9. EmissionAlive'
    BY <1>1 DEF SignalInv, EmissionAlive
  <1>10. PostedAlive'
    BY <1>1 DEF SignalInv, PostedAlive
  <1>11. DestructorSound'
    BY <1>1, <1>4 DEF SignalInv, DestructorSound
  <1> QED
    BY <1>1, <1>8, <1>9, <1>10, <1>11 DEF SignalInv

(* connect() adds to both lists.                                           *)
LEMMA ConnectStep ==
  ASSUME SignalInv, NEW s \in Signals, NEW o \in Receivers,
         NEW f \in Functions, Connect(s, o, f)
  PROVE  SignalInv'
  <1> DEFINE new == [id |-> methods + 1, object |-> o, func |-> f]
  <1>0. /\ slots \in [Signals -> Seq(Methods)]
        /\ signals \in [Receivers -> SUBSET Signals]
        /\ methods \in 0 .. MaxMethods /\ MaxMethods \in Nat
        /\ methods < MaxMethods /\ s \in undeleted /\ o \in undeleted
        /\ o # dying /\ methods' = methods + 1
        /\ slots' = [slots EXCEPT ![s] = Append(slots[s], new)]
        /\ signals' = [signals EXCEPT ![o] = signals[o] \cup {s}]
        /\ stranded \in [Signals -> SUBSET Methods] /\ misused = FALSE
        /\ stranded' = [stranded EXCEPT ![s] = stranded[s] \ SlotsOf(s, o)]
        /\ UNCHANGED <<undeleted, emission, inSlot, posted, dying, leaving,
                       emissions, misused, pulled>>
    BY SignalAssumption
       DEF SignalInv, SlotsConnected, SignalTypeOK, Connect, Usable
  <1>1. new \in Methods /\ new.object = o /\ methods' \in 0 .. MaxMethods
    BY <1>0 DEF Methods
  <1> HIDE DEF new
  <1>2. slots[s] \in Seq(Methods)
    BY <1>0
  <1>3. /\ ToSet(Append(slots[s], new)) = ToSet(slots[s]) \cup {new}
        /\ IsInjective(slots[s]) /\ new \notin ToSet(slots[s])
             => IsInjective(Append(slots[s], new))
    BY <1>1, <1>2, AppendInjectiveNew
  <1>4. /\ slots' \in [Signals -> Seq(Methods)]
        /\ ToSet(slots'[s]) = ToSet(slots[s]) \cup {new}
        /\ \A u \in Signals : u # s => slots'[u] = slots[u]
        /\ signals' \in [Receivers -> SUBSET Signals]
        /\ \A p \in Receivers : signals[p] \subseteq signals'[p]
        /\ \A p \in Receivers : p # o => signals'[p] = signals[p]
        /\ signals'[o] = signals[o] \cup {s}
    BY <1>0, <1>1, <1>2, <1>3
  <1>5. \A u \in Signals : ToSet(slots[u]) \subseteq ToSet(slots'[u])
    BY <1>4
  <1>6. \A m \in Connected : m \in Connected'
    BY <1>5 DEF Connected
  <1>60. /\ stranded' \in [Signals -> SUBSET Methods]
         /\ stranded'[s] = stranded[s] \ SlotsOf(s, o)
         /\ \A u \in Signals : u # s => stranded'[u] = stranded[u]
    BY <1>0
  <1>7. ASSUME NEW u \in Signals, NEW m \in ToSet(slots'[u]) \ stranded'[u]
        PROVE  /\ {u, m.object} \subseteq undeleted'
               /\ u \in signals'[m.object]
                  \/ (m.object = dying' /\ u \in leaving')
    <2>1. CASE m \in ToSet(slots[u]) \ stranded[u]
      <3>1. /\ {u, m.object} \subseteq undeleted
            /\ u \in signals[m.object] \/ (m.object = dying /\ u \in leaving)
        BY <2>1 DEF SignalInv, SlotsConnected
      <3>2. m.object \in Receivers
        BY <2>1, ListedMethods
      <3> QED
        BY <1>0, <1>4, <3>1, <3>2
    <2>3. CASE m \in ToSet(slots[u]) /\ m \in stranded[u]
      <3>1. u = s /\ m.object = o
        BY <1>60, <1>7, <2>3 DEF SlotsOf
      <3> QED
        BY <1>0, <1>4, <3>1
    <2>2. CASE m \notin ToSet(slots[u])
      <3>1. u = s /\ m = new
        BY <1>4, <1>7, <2>2
      <3> QED
        BY <1>0, <1>1, <1>4, <3>1
    <2> QED
      BY <2>1, <2>2, <2>3
  <1>8. \A p \in Receivers : signals'[p] \subseteq undeleted'
    BY <1>0, <1>4 DEF SignalInv, SlotsConnected
  <1>9. SlotsConnected'
    BY <1>0, <1>1, <1>4, <1>60, <1>7, <1>8
       DEF SignalInv, SlotsConnected, SignalTypeOK
  <1>10. ASSUME NEW p \in Receivers, NEW u \in signals'[p]
         PROVE  SlotsOf(u, p)' # {}
    <2>1. CASE u \in signals[p]
      <3>1. u \in Signals /\ SlotsOf(u, p) # {}
        BY <1>0, <2>1 DEF SignalInv, SignalsNamed
      <3> QED
        BY <1>5, <3>1 DEF SlotsOf
    <2>2. CASE u \notin signals[p]
      <3>1. p = o /\ u = s
        BY <1>4, <1>10, <2>2
      <3> QED
        BY <1>1, <1>4, <3>1 DEF SlotsOf
    <2> QED
      BY <2>1, <2>2
  <1>11. EmissionAlive' /\ PostedAlive'
    BY <1>0, <1>6 DEF SignalInv, EmissionAlive, PostedAlive
  <1>12. DestructorSound'
    BY <1>0, <1>4 DEF SignalInv, SlotsConnected, SignalTypeOK, DestructorSound
  <1> QED
    BY <1>9, <1>10, <1>11, <1>12 DEF SignalInv, SignalsNamed

(* ~Object() begins.                                                       *)
LEMMA DeleteReceiverStep ==
  ASSUME SignalInv, NEW o \in Receivers, DeleteReceiver(o)
  PROVE  SignalInv'
  <1>0. /\ signals \in [Receivers -> SUBSET Signals]
        /\ o \in undeleted /\ dying = NoReceiver /\ leaving = {}
        /\ NoReceiver \notin Receivers
        /\ dying' = o /\ leaving' = signals[o]
        /\ signals' = [signals EXCEPT ![o] = {}]
        /\ misused = FALSE
        /\ UNCHANGED <<slots, undeleted, emission, inSlot, posted, methods,
                       emissions, misused, pulled, stranded>>
    BY SignalAssumption
       DEF SignalInv, SlotsConnected, SignalTypeOK, DestructorSound,
           DeleteReceiver
  <1>1. /\ signals' \in [Receivers -> SUBSET Signals] /\ signals'[o] = {}
        /\ \A p \in Receivers : p # o => signals'[p] = signals[p]
        /\ signals[o] \subseteq Signals
    BY <1>0
  <1>2. /\ \A u \in Signals : ToSet(slots[u]) \subseteq Methods
        /\ ToSet(posted) \subseteq Methods
        /\ \A m \in Methods : m.object \in Receivers
    BY ListedMethods
  <1>3. Connected' = Connected
    BY <1>0 DEF Connected
  <1>4. ASSUME NEW u \in Signals, NEW m \in ToSet(slots'[u]) \ stranded'[u]
        PROVE  /\ {u, m.object} \subseteq undeleted'
               /\ u \in signals'[m.object]
                  \/ (m.object = dying' /\ u \in leaving')
    <2>1. m \in ToSet(slots[u]) \ stranded[u] /\ m.object \in Receivers
      BY <1>0, <1>2
    <2>2. {u, m.object} \subseteq undeleted /\ u \in signals[m.object]
      BY <1>0, <2>1 DEF SignalInv, SlotsConnected
    <2> QED
      BY <1>0, <1>1, <2>1, <2>2
  <1>5. SlotsConnected'
    BY <1>0, <1>1, <1>4 DEF SignalInv, SlotsConnected, SignalTypeOK
  <1>6. SignalsNamed'
    BY <1>0, <1>1 DEF SignalInv, SignalsNamed, SlotsOf
  <1>7. EmissionAlive'
    BY <1>0, <1>3 DEF SignalInv, EmissionAlive
  <1>8. PostedAlive'
    BY <1>0, <1>2, <1>3 DEF SignalInv, PostedAlive
  <1>9. DestructorSound'
    BY <1>0, <1>1 DEF SignalInv, SlotsConnected, DestructorSound
  <1> QED
    BY <1>5, <1>6, <1>7, <1>8, <1>9 DEF SignalInv

(* ~Object() disconnects the slots of the object from one signal.          *)
LEMMA LeaveSignalStep ==
  ASSUME SignalInv, NEW s \in Signals, LeaveSignal(s)
  PROVE  SignalInv'
  <1> DEFINE matched == SlotsOf(s, dying)
  <1>0. /\ s \in leaving /\ leaving' = leaving \ {s}
        /\ dying # NoReceiver /\ dying \in Receivers /\ dying \in undeleted
        /\ Disconnect(s, matched)
        /\ pulled' \in BOOLEAN /\ (pulled => pulled')
        /\ ~pulled' => matched \cap ToSet(emission) = {}
        /\ UNCHANGED <<undeleted, emission, inSlot, posted, dying, methods,
                       emissions>>
    BY DEF SignalInv, SlotsConnected, SignalTypeOK, DestructorSound,
           LeaveSignal
  <1>1. matched \subseteq ToSet(slots[s])
    BY DEF SlotsOf
  <1>3. \A m \in matched : m.object = dying
    BY DEF SlotsOf
  <1>4. \A m \in ToSet(slots[s]) : m.object = dying => m \in matched
    BY DEF SlotsOf
  <1> HIDE DEF matched
  <1>5. /\ slots' \in [Signals -> Seq(Methods)]
        /\ signals' \in [Receivers -> SUBSET Signals]
        /\ stranded' \in [Signals -> SUBSET Methods]
        /\ misused' \in BOOLEAN
        /\ \A u \in Signals : ToSet(slots'[u]) \subseteq ToSet(slots[u])
        /\ ToSet(slots'[s]) = ToSet(slots[s]) \ matched
        /\ \A m \in Connected \ matched : m \in Connected'
        /\ \A o \in Receivers : signals'[o] \subseteq signals[o]
        /\ \A u \in Signals : \A m \in ToSet(slots'[u]) \ stranded'[u] :
               /\ m \in ToSet(slots[u]) \ stranded[u]
               /\ u \in signals[m.object] => u \in signals'[m.object]
        /\ SignalsNamed'
        /\ misused' => s \notin undeleted \/ \E m \in stranded'[s] :
                          m.object \in Receivers /\ m.object \notin undeleted
    BY <1>0, <1>1, DisconnectSound
  <1>6. ASSUME NEW u \in Signals, NEW m \in ToSet(slots'[u]) \ stranded'[u]
        PROVE  /\ {u, m.object} \subseteq undeleted'
               /\ u \in signals'[m.object]
                  \/ (m.object = dying' /\ u \in leaving')
    <2>1. /\ m \in ToSet(slots[u]) \ stranded[u]
          /\ u \in signals[m.object] => u \in signals'[m.object]
      BY <1>5
    <2>2. /\ {u, m.object} \subseteq undeleted
          /\ u \in signals[m.object] \/ (m.object = dying /\ u \in leaving)
      BY <2>1 DEF SignalInv, SlotsConnected
    <2>3. u = s => m.object # dying
      BY <1>4, <1>5, <1>6
    <2> QED
      BY <1>0, <2>1, <2>2, <2>3
  <1>7. SlotsConnected'
    <2>1. SignalTypeOK'
      BY <1>0, <1>5 DEF SignalInv, SlotsConnected, SignalTypeOK
    <2>2. \A o \in Receivers : signals'[o] \subseteq undeleted'
      BY <1>0, <1>5 DEF SignalInv, SlotsConnected
    <2>3. misused' => pulled' \/ \E u \in Signals : \E m \in stranded'[u] :
                                     m.object \notin undeleted'
      BY <1>0, <1>5 DEF SignalInv, DestructorSound
    <2> QED
      BY <1>6, <2>1, <2>2, <2>3 DEF SlotsConnected
  <1>8. EmissionAlive'
    BY <1>0, <1>5 DEF SignalInv, EmissionAlive
  <1>9. PostedAlive'
    BY <1>0, <1>3, <1>5 DEF SignalInv, PostedAlive
  <1>10. DestructorSound'
    BY <1>0, <1>5 DEF SignalInv, DestructorSound
  <1> QED
    BY <1>5, <1>7, <1>8, <1>9, <1>10 DEF SignalInv

(* ~Object() ends: the messages for the object go, and no slot of it is    *)
(* left.                                                                   *)
LEMMA ReceiverDeletedStep ==
  ASSUME SignalInv, ReceiverDeleted
  PROVE  SignalInv'
  <1> DEFINE gone == {m \in ToSet(posted) : m.object = dying}
  <1>0. /\ dying \in Receivers /\ dying # NoReceiver /\ leaving = {}
        /\ signals[dying] = {} /\ posted \in Seq(Methods)
        /\ Signals \cap Receivers = {} /\ NoReceiver \notin Receivers
        /\ signals \in [Receivers -> SUBSET Signals]
        /\ posted' = Without(posted, gone)
        /\ undeleted' = undeleted \ {dying} /\ dying' = NoReceiver
        /\ misused = FALSE
        /\ UNCHANGED <<slots, signals, emission, inSlot, leaving, methods,
                       emissions, misused, pulled, stranded>>
    BY SignalAssumption
       DEF SignalInv, SlotsConnected, SignalTypeOK, DestructorSound,
           ReceiverDeleted
  <1>1. /\ Without(posted, gone) \in Seq(Methods)
        /\ ToSet(Without(posted, gone)) = ToSet(posted) \ gone
        /\ IsInjective(posted) => IsInjective(Without(posted, gone))
    BY <1>0, WithoutProperties
  <1>2. /\ posted' \in Seq(Methods)
        /\ \A m \in ToSet(posted') : m \in ToSet(posted) /\ m.object # dying
    BY <1>0, <1>1
  <1> HIDE DEF gone
  <1>3. /\ \A u \in Signals : ToSet(slots[u]) \subseteq Methods
        /\ ToSet(emission) \subseteq Methods
        /\ ToSet(posted) \subseteq Methods
        /\ \A m \in Methods : m.object \in Receivers
    BY ListedMethods
  <1>4. \A u \in Signals : \A m \in ToSet(slots[u]) \ stranded[u] :
            /\ {u, m.object} \subseteq undeleted /\ u \in signals[m.object]
            /\ m.object # dying /\ u # dying
    BY <1>0, <1>3 DEF SignalInv, SlotsConnected
  <1>5. \A o \in Receivers : signals[o] \subseteq undeleted \ {dying}
    BY <1>0 DEF SignalInv, SlotsConnected
  <1>6. Connected' = Connected
    BY <1>0 DEF Connected
  <1>7. SlotsConnected'
    BY <1>0, <1>2, <1>4, <1>5 DEF SignalInv, SlotsConnected, SignalTypeOK
  <1>8. SignalsNamed'
    BY <1>0 DEF SignalInv, SignalsNamed, SlotsOf
  <1>9. EmissionAlive'
    BY <1>0, <1>3, <1>6 DEF SignalInv, EmissionAlive
  <1>10. PostedAlive'
    BY <1>0, <1>2, <1>6 DEF SignalInv, PostedAlive
  <1>11. DestructorSound'
    BY <1>0 DEF SignalInv, DestructorSound
  <1> QED
    BY <1>7, <1>8, <1>9, <1>10, <1>11 DEF SignalInv

(* emit() copies the list of a signal.                                     *)
LEMMA EmitStep ==
  ASSUME SignalInv, NEW s \in Signals, Emit(s)
  PROVE  SignalInv'
  <1>0. /\ slots \in [Signals -> Seq(Methods)]
        /\ emission' = slots[s] /\ misused = FALSE
        /\ emissions' \in 0 .. MaxEmissions
        /\ UNCHANGED <<slots, signals, undeleted, inSlot, posted, dying,
                       leaving, methods, misused, pulled, stranded>>
    BY SignalAssumption
       DEF SignalInv, SlotsConnected, SignalTypeOK, Emit
  <1>1. emission' \in Seq(Methods)
    BY <1>0
  <1>2. Connected' = Connected
    BY <1>0 DEF Connected
  <1>3. \A m \in ToSet(slots[s]) : m \in Connected
    BY DEF Connected
  <1>4. EmissionAlive'
    BY <1>0, <1>2, <1>3 DEF EmissionAlive
  <1>5. SlotsConnected'
    BY <1>0, <1>1 DEF SignalInv, SlotsConnected, SignalTypeOK
  <1> QED
    BY <1>0, <1>2, <1>4, <1>5
       DEF SignalInv, SignalsNamed, SlotsOf, PostedAlive, DestructorSound

(* activate() calls a slot or posts a message about it, and the message is *)
(* delivered.                                                              *)
LEMMA DeliverStep ==
  ASSUME SignalInv, Activate \/ Invoke
  PROVE  SignalInv'
  <1>0. /\ emission \in Seq(Methods) /\ posted \in Seq(Methods)
        /\ Remote \subseteq Receivers
    BY SignalAssumption DEF SignalInv, SlotsConnected, SignalTypeOK
  <1>1. UNCHANGED <<slots, signals, undeleted, dying, leaving, methods,
                    emissions, pulled, stranded>>
    BY DEF Activate, Invoke
  <1>2. Connected' = Connected
    BY <1>1 DEF Connected
  <1> DEFINE Excused == pulled \/ \E s \in Signals : \E k \in stranded[s] :
                                     k.object \notin undeleted
  <1>20. ASSUME NEW m, pulled \/ m \in Connected, ~Callable(m)
         PROVE  Excused
    <2>1. CASE pulled
      BY <2>1
    <2>2. CASE m \in Connected
      <3>1. m.object \notin undeleted
        BY <1>20, <2>2 DEF Callable
      <3>2. PICK s \in Signals : m \in ToSet(slots[s])
        BY <2>2 DEF Connected
      <3>3. m \in stranded[s]
        BY <3>1, <3>2 DEF SignalInv, SlotsConnected
      <3> QED
        BY <3>1, <3>3
    <2> QED
      BY <1>20, <2>1, <2>2
  <1> HIDE DEF Excused
  <1>3. /\ emission' \in Seq(Methods) /\ posted' \in Seq(Methods)
        /\ inSlot' \in Methods \cup {NoMethod} /\ misused' \in BOOLEAN
        /\ EmissionAlive' /\ PostedAlive' /\ (misused' => Excused)
    <2>1. CASE Activate
      <3> DEFINE m == Head(emission)
      <3>1. /\ emission # <<>> /\ emission' = Tail(emission)
            /\ misused' = ~Callable(m)
            /\ IF m.object \in Remote
                 THEN posted' = Append(posted, m) /\ UNCHANGED inSlot
                 ELSE inSlot' = m /\ UNCHANGED posted
        BY <2>1 DEF Activate
      <3>2. /\ m \in ToSet(emission) /\ m \in Methods
            /\ Tail(emission) \in Seq(Methods)
            /\ ToSet(Tail(emission)) \subseteq ToSet(emission)
        BY <1>0, <3>1 DEF ToSet
      <3>3. pulled \/ m \in Connected
        BY <3>2 DEF SignalInv, EmissionAlive
      <3> HIDE DEF m
      <3>4. /\ ToSet(Append(posted, m)) = ToSet(posted) \cup {m}
            /\ IsInjective(posted) /\ m \notin ToSet(posted)
                 => IsInjective(Append(posted, m))
        BY <1>0, <3>2, AppendInjectiveNew
      <3>5. Append(posted, m) \in Seq(Methods)
        BY <1>0, <3>2
      <3>6. EmissionAlive'
        BY <1>1, <1>2, <3>1, <3>2 DEF SignalInv, EmissionAlive
      <3>7. PostedAlive'
        <4>1. ASSUME NEW k \in ToSet(posted')
              PROVE  k \in ToSet(posted) \/ (k = m /\ m.object \in Remote)
          BY <3>1, <3>4
        <4> QED
          BY <1>1, <1>2, <3>3, <4>1 DEF SignalInv, PostedAlive
      <3>8. inSlot' \in Methods \cup {NoMethod}
        BY <3>1, <3>2 DEF SignalInv, SlotsConnected, SignalTypeOK
      <3>9. posted' \in Seq(Methods)
        BY <1>0, <3>1, <3>5
      <3>10. misused' \in BOOLEAN /\ (misused' => Excused)
        BY <1>20, <3>1, <3>3
      <3> QED
        BY <3>1, <3>2, <3>6, <3>7, <3>8, <3>9, <3>10
    <2>2. CASE Invoke
      <3> DEFINE m == Head(posted)
      <3>1. /\ posted # <<>> /\ posted' = Tail(posted) /\ dying \notin Remote
            /\ misused' = ~Callable(m)
            /\ emission' = emission /\ inSlot' = inSlot
        BY <2>2 DEF Invoke
      <3>2. /\ m \in ToSet(posted) /\ Tail(posted) \in Seq(Methods)
            /\ ToSet(Tail(posted)) \subseteq ToSet(posted)
        BY <1>0, <3>1 DEF ToSet
      <3>3. pulled \/ m \in Connected
        BY <3>1, <3>2 DEF SignalInv, PostedAlive
      <3> HIDE DEF m
      <3>4. EmissionAlive' /\ PostedAlive'
        BY <1>1, <1>2, <3>1, <3>2 DEF SignalInv, EmissionAlive, PostedAlive
      <3>5. misused' \in BOOLEAN /\ (misused' => Excused)
        BY <1>20, <3>1, <3>3
      <3> QED
        BY <1>0, <3>1, <3>2, <3>4, <3>5
           DEF SignalInv, SlotsConnected, SignalTypeOK
    <2> QED
      BY <2>1, <2>2
  <1>4. SlotsConnected'
    <2>1. SignalTypeOK'
      BY <1>1, <1>3 DEF SignalInv, SlotsConnected, SignalTypeOK
    <2> QED
      BY <1>1, <1>3, <2>1 DEF SignalInv, SlotsConnected, Excused
  <1> QED
    BY <1>1, <1>3, <1>4
       DEF SignalInv, SignalsNamed, SlotsOf, DestructorSound

(* A step that touches nothing but the slot that runs.                     *)
LEMMA SlotReturnsStep ==
  ASSUME SignalInv, SlotReturns \/ UNCHANGED signalVars
  PROVE  SignalInv'
  BY DEF SlotReturns, signalVars, SignalInv, SlotsConnected, SignalTypeOK,
         SignalsNamed, SlotsOf, EmissionAlive, PostedAlive, DestructorSound,
         Connected

(* Every step of the emitting thread, of the other one and of the          *)
(* application keeps the invariant.                                        *)
LEMMA SignalStep ==
  ASSUME SignalInv, [SignalNext]_signalVars
  PROVE  SignalInv'
  <1>0. pulled \in BOOLEAN
    BY DEF SignalInv, SlotsConnected, SignalTypeOK
  <1>1. ASSUME NEW s \in Signals, NEW matched,
               matched \subseteq ToSet(slots[s]),
               DisconnectSlots(s, matched)
        PROVE  SignalInv'
    <2>1. /\ s \in undeleted /\ Disconnect(s, matched)
          /\ pulled' \in BOOLEAN /\ (pulled => pulled')
          /\ ~pulled' => matched \cap (ToSet(emission) \cup ToSet(posted)) = {}
          /\ undeleted' = undeleted
          /\ UNCHANGED <<emission, inSlot, posted, dying, leaving, methods,
                         emissions>>
      BY <1>0, <1>1 DEF DisconnectSlots
    <2> QED
      BY <1>1, <2>1, DisconnectStep
  <1>2. ASSUME NEW s \in Signals, NEW o \in Receivers, DisconnectObject(s, o)
        PROVE  SignalInv'
    <2>1. SlotsOf(s, o) \subseteq ToSet(slots[s])
      BY DEF SlotsOf
    <2> QED
      BY <1>1, <1>2, <2>1 DEF DisconnectObject
  <1>3. ASSUME NEW s \in Signals, NEW o \in Receivers, NEW f \in Functions,
               DisconnectFunction(s, o, f)
        PROVE  SignalInv'
    <2> DEFINE matched == {m \in SlotsOf(s, o) : m.func = f}
    <2>1. matched \subseteq ToSet(slots[s])
      BY DEF SlotsOf
    <2>2. DisconnectSlots(s, matched)
      BY <1>3 DEF DisconnectFunction
    <2> HIDE DEF matched
    <2> QED
      BY <1>1, <2>1, <2>2
  <1>4. ASSUME NEW s \in Signals, DisconnectAll(s) PROVE SignalInv'
    BY <1>1, <1>4 DEF DisconnectAll
  <1>5. ASSUME NEW s \in Signals, DeleteSignal(s) PROVE SignalInv'
    <2> DEFINE matched == ToSet(slots[s])
    <2>1. /\ matched \subseteq ToSet(slots[s]) /\ s \in undeleted
          /\ Disconnect(s, matched)
          /\ pulled' \in BOOLEAN /\ (pulled => pulled')
          /\ ~pulled' => matched \cap (ToSet(emission) \cup ToSet(posted)) = {}
          /\ ~pulled' => s \notin leaving
          /\ undeleted' = undeleted \ {s} /\ matched = ToSet(slots[s])
          /\ UNCHANGED <<emission, inSlot, posted, dying, leaving, methods,
                         emissions>>
      BY <1>0, <1>5 DEF DeleteSignal
    <2> HIDE DEF matched
    <2> QED
      BY <2>1, DisconnectStep
  <1>6. ASSUME NEW s \in Signals, NEW o \in Receivers, NEW f \in Functions,
               Connect(s, o, f)
        PROVE  SignalInv'
    BY <1>6, ConnectStep
  <1>7. ASSUME NEW s \in Signals, Emit(s) PROVE SignalInv'
    BY <1>7, EmitStep
  <1>8. ASSUME NEW o \in Receivers, DeleteReceiver(o) PROVE SignalInv'
    BY <1>8, DeleteReceiverStep
  <1>9. ASSUME NEW s \in Signals, LeaveSignal(s) PROVE SignalInv'
    BY <1>9, LeaveSignalStep
  <1>10. ASSUME ReceiverDeleted PROVE SignalInv'
    BY <1>10, ReceiverDeletedStep
  <1>11. ASSUME Activate \/ Invoke PROVE SignalInv'
    BY <1>11, DeliverStep
  <1>12. ASSUME SlotReturns \/ UNCHANGED signalVars PROVE SignalInv'
    BY <1>12, SlotReturnsStep
  <1> QED
    BY <1>2, <1>3, <1>4, <1>5, <1>6, <1>7, <1>8, <1>9, <1>10, <1>11, <1>12
       DEF SignalNext, Destructor, Emission

(* Nothing is connected at first.                                          *)
LEMMA SignalStart ==
  ASSUME SignalInit
  PROVE  SignalInv
  <1>1. /\ ToSet(<<>>) = {} /\ <<>> \in Seq(Methods)
        /\ NoReceiver \notin Receivers
        /\ 0 \in 0 .. MaxMethods /\ 0 \in 0 .. MaxEmissions
    BY SignalAssumption DEF ToSet
  <1>2. \A s \in Signals : slots[s] = <<>>
    BY DEF SignalInit
  <1>3. \A o \in Receivers : signals[o] = {}
    BY DEF SignalInit
  <1> QED
    BY <1>1, <1>2, <1>3
       DEF SignalInit, SignalInv, SlotsConnected, SignalTypeOK, SignalsNamed,
           SlotsOf, EmissionAlive, PostedAlive, DestructorSound

(* Whatever the application connects, disconnects and destroys, and        *)
(* whenever, for any number of signals, objects, slots and connections:    *)
(* the lists of the signals and of the objects agree but for the slots     *)
(* that disconnect(object, func) strands, and something that was deleted   *)
(* is used only after it was pulled away from an emission, a message or a  *)
(* destructor, or for a stranded slot whose object is gone.                *)
THEOREM SlotsAreConnected == EventsSpec => []SlotsConnected
  <1>1. EventsInit => SignalInv
    BY SignalStart DEF EventsInit
  <1>2. [EventsNext]_eventVars => [SignalNext]_signalVars
    BY DEF EventsNext, eventVars, Dispatching, Signalling, Scheduling
  <1>3. SignalInv /\ [SignalNext]_signalVars => SignalInv'
    BY SignalStep
  <1>4. SignalInv => SlotsConnected
    BY DEF SignalInv
  <1> QED
    BY <1>1, <1>2, <1>3, <1>4, PTL DEF EventsSpec
=============================================================================
