---------------------------- MODULE Clients_proofs ----------------------------
(***************************************************************************)
(* Proofs about the applications and the adaptation layers, for every      *)
(* number of buffers, frames, descriptors and sessions: the buffers of cam *)
(* and qcam, VIDIOC_DQBUF of the V4L2 layer, the frames of the GStreamer   *)
(* element, and the results and the packets of metadata of the Android     *)
(* HAL.                                                                    *)
(***************************************************************************)
EXTENDS Clients, ListFacts, FiniteSetTheorems

-----------------------------------------------------------------------------
(***************************************************************************)
(* cam and qcam.                                                           *)
(***************************************************************************)

AppTypes ==
    /\ AppTypeOK
    /\ cqueue \in Seq(Buffers)
    /\ app \in {"cam", "qcam"}
    /\ checked => completing # NoBuffer

(* A request is in one place.                                              *)
Apart ==
    /\ IsInjective(unqueued) /\ IsInjective(cqueue) /\ IsInjective(mail)
    /\ ToSet(unqueued) \cap ToSet(cqueue) = {}
    /\ ToSet(unqueued) \cap ToSet(mail) = {}
    /\ ToSet(cqueue) \cap ToSet(mail) = {}
    /\ completing \notin ToSet(unqueued) \cup ToSet(cqueue) \cup ToSet(mail)

Quiet == ~streaming /\ completing = NoBuffer

(* What the camera has was posted after stop() changed the state.          *)
OnlyOvertaken == Quiet /\ ToSet(cqueue) \cup ToSet(mail) \subseteq overtaken

(* Before start() the camera has nothing; while the main thread waits in   *)
(* stop(), what was posted before its message is dispatched before it and  *)
(* cancelled by it; then only what was posted behind it is left.           *)
Course ==
    /\ appPc \in {"open", "configure", "allocate", "start"} =>
         Quiet /\ cqueue = <<>> /\ mail = <<>> /\ cstate # "running"
    /\ appPc \in {"open", "configure", "allocate"} => unqueued = <<>>
    /\ appPc \in {"queue", "loop"} => cstate = "running"
    /\ appPc = "stopping" => cstate = "configured"
    /\ StopMessage \in ToSet(mail) => appPc = "stopping"
    /\ \A i, j \in 1 .. Len(mail) :
         i < j /\ mail[i] = StopMessage => mail[j] \in overtaken
    /\ appPc = "stopping" /\ StopMessage \notin ToSet(mail) => OnlyOvertaken
    /\ appPc \in {"free", "done"} /\ ~unplugged => OnlyOvertaken
    /\ ~unplugged => deletedQueued = {}

AppInv == AppTypes /\ Apart /\ Course

(* The invariant holds what is claimed.                                    *)
LEMMA AppInvImplies ==
  ASSUME AppInv
  PROVE  BuffersOutliveRequests
  <1> DEFINE last == IF completing = NoBuffer THEN <<>> ELSE <<completing>>
             All == Buffers \cup {StopMessage}
             a == unqueued \o cqueue
             b == a \o mail
  <1>0. AppTypes /\ Apart /\ Course
    BY DEF AppInv
  <1>1. AppTypeOK
    BY <1>0 DEF AppTypes
  <1>2. ASSUME appPc = "done", ~unplugged
        PROVE  ToSet(cqueue) \cup ToSet(mail) \cup {completing}
                   \subseteq overtaken \cup {NoBuffer}
    BY <1>0, <1>2 DEF Course, OnlyOvertaken, Quiet
  <1>3. ~unplugged => deletedQueued = {}
    BY <1>0 DEF Course
  <1>4. /\ unqueued \in Seq(All) /\ cqueue \in Seq(All) /\ mail \in Seq(All)
        /\ last \in Seq(All)
    <2>1. unqueued \in Seq(Buffers) /\ cqueue \in Seq(Buffers) /\ mail \in Seq(All)
      BY <1>0 DEF AppTypes, AppTypeOK
    <2>2. ToSet(unqueued) \subseteq All /\ ToSet(cqueue) \subseteq All
      BY <2>1 DEF ToSet
    <2>3. unqueued \in Seq(All) /\ cqueue \in Seq(All)
      BY <2>1, <2>2, ListOf
    <2>4. last \in Seq(All)
      <3>1. completing # NoBuffer => completing \in All
        BY <1>0 DEF AppTypes, AppTypeOK
      <3> HIDE DEF All
      <3> QED
        BY <3>1
    <2> QED
      BY <2>1, <2>3, <2>4
  <1>5. IsInjective(last) /\ (ToSet(last) = {} \/ ToSet(last) = {completing})
    BY DEF IsInjective, ToSet
  <1> HIDE DEF last, All
  <1>6. /\ a \in Seq(All) /\ ToSet(a) = ToSet(unqueued) \cup ToSet(cqueue)
        /\ IsInjective(a)
    BY <1>0, <1>4, ConcatElements, ConcatInjective DEF Apart
  <1> HIDE DEF a
  <1>7. /\ b \in Seq(All) /\ ToSet(b) = ToSet(a) \cup ToSet(mail)
        /\ IsInjective(b)
    <2>1. ToSet(a) \cap ToSet(mail) = {}
      BY <1>0, <1>6 DEF Apart
    <2>2. b \in Seq(All) /\ ToSet(b) = ToSet(a) \cup ToSet(mail)
      BY <1>4, <1>6, ConcatElements
    <2>3. IsInjective(b)
      BY <1>0, <1>4, <1>6, <2>1, ConcatInjective DEF Apart
    <2> QED
      BY <2>2, <2>3
  <1> HIDE DEF b
  <1>8. IsInjective(b \o last)
    <2>1. ToSet(b) \cap ToSet(last) = {}
      BY <1>0, <1>5, <1>6, <1>7 DEF Apart
    <2> QED
      BY <1>4, <1>5, <1>7, <2>1, ConcatInjective
  <1> QED
    BY <1>1, <1>2, <1>3, <1>8 DEF BuffersOutliveRequests, a, b, last

(* The steps of the main thread that do not concern the requests.          *)
LEMMA AppQuietStep ==
  ASSUME AppInv, ManagerIdle, UNCHANGED <<app, unqueued, overtaken, deletedQueued>>,
         {exit', unplugged'} \subseteq BOOLEAN, unplugged => unplugged', Course'
  PROVE  AppInv'
  <1> USE DEF AppInv, ManagerIdle
  <1>1. AppTypes'
    BY DEF AppTypes, AppTypeOK
  <1>2. Apart'
    BY DEF Apart
  <1> QED
    BY <1>1, <1>2

(* The main thread opens and configures the camera and gets its buffers.   *)
LEMMA AppSetUp ==
  ASSUME AppInv, NEW ok \in BOOLEAN,
         \/ OpenCamera(ok) \/ \E valid \in BOOLEAN : ConfigureCamera(valid, ok)
  PROVE  AppInv'
  <1>1. Course'
    BY DEF OpenCamera, ConfigureCamera, MayAcquire, Goto, ManagerIdle,
           Untouched, AppInv, Course, OnlyOvertaken, Quiet, ToSet
  <1>2. /\ ManagerIdle /\ UNCHANGED <<app, unqueued, overtaken, deletedQueued>>
        /\ exit' = exit /\ unplugged' = unplugged
    BY DEF OpenCamera, ConfigureCamera, Goto, Untouched
  <1>3. {exit', unplugged'} \subseteq BOOLEAN
    BY <1>2 DEF AppInv, AppTypes, AppTypeOK
  <1> QED
    BY <1>1, <1>2, <1>3, AppQuietStep

(* allocate(): each buffer once.                                           *)
LEMMA AppAllocate ==
  ASSUME AppInv, NEW ok \in BOOLEAN, AllocateBuffers(ok)
  PROVE  AppInv'
  <1> DEFINE new == [i \in Buffers |-> i]
  <1>1. /\ appPc = "allocate" /\ appPc' \in {"start", "free"}
        /\ unqueued' \in {new, <<>>} /\ (appPc' = "free" => unqueued' = <<>>)
        /\ UNCHANGED <<app, interrupts, mail, streaming, completing, checked, cqueue,
                       exit, unplugged, overtaken, deletedQueued, cstate>>
    BY DEF AllocateBuffers, Goto, ManagerIdle, Untouched
  <1>2. /\ new \in Seq(Buffers) /\ <<>> \in Seq(Buffers)
        /\ IsInjective(new) /\ IsInjective(<<>>)
    BY AppAssumption DEF Buffers, IsInjective
  <1>3. unqueued' \in Seq(Buffers) /\ IsInjective(unqueued')
    BY <1>1, <1>2
  <1>4. Quiet /\ cqueue = <<>> /\ mail = <<>> /\ cstate # "running" /\ completing = 0
    BY <1>1 DEF AppInv, Course, Quiet, NoBuffer
  <1>5. ToSet(<<>>) = {} /\ 0 \notin ToSet(unqueued')
    <2>1. 0 \notin Buffers
      BY DEF Buffers
    <2> QED
      BY <1>3, <2>1 DEF ToSet
  <1>6. AppTypes'
    BY <1>1, <1>3 DEF AppInv, AppTypes, AppTypeOK
  <1>7. Apart'
    BY <1>1, <1>2, <1>3, <1>4, <1>5 DEF Apart
  <1>8. Course'
    BY <1>1, <1>4, <1>5 DEF AppInv, Course, OnlyOvertaken, Quiet
  <1> QED
    BY <1>6, <1>7, <1>8 DEF AppInv

(* start()                                                                 *)
LEMMA AppStart ==
  ASSUME AppInv, NEW ok \in BOOLEAN, StartCamera(ok)
  PROVE  AppInv'
  <1>1. /\ appPc = "start" /\ appPc' \in {"queue", "free"}
        /\ unqueued' \in {unqueued, <<>>} /\ streaming' \in BOOLEAN
        /\ (appPc' = "free" => ~streaming' /\ cstate' = cstate)
        /\ (appPc' = "queue" => cstate' = "running")
        /\ UNCHANGED <<app, interrupts, mail, completing, checked, cqueue,
                       exit, unplugged, overtaken, deletedQueued>>
    BY DEF StartCamera, Goto, Untouched
  <1>2. Quiet /\ cqueue = <<>> /\ mail = <<>> /\ cstate # "running"
    BY <1>1 DEF AppInv, Course
  <1>3. <<>> \in Seq(Buffers) /\ ToSet(<<>>) = {} /\ IsInjective(<<>>)
    BY DEF ToSet, IsInjective
  <1>4. AppTypes'
    BY <1>1, <1>3 DEF AppInv, AppTypes, AppTypeOK
  <1>5. Apart'
    BY <1>1, <1>3 DEF AppInv, Apart
  <1>6. Course'
    BY <1>1, <1>2, <1>3 DEF AppInv, Course, OnlyOvertaken, Quiet
  <1> QED
    BY <1>4, <1>5, <1>6 DEF AppInv

(* A message that was not there is posted: it is the last one.             *)
LEMMA Posted ==
  ASSUME AppInv, NEW x \in Buffers \cup {StopMessage}, x \notin ToSet(mail)
  PROVE  /\ Append(mail, x) \in Seq(Buffers \cup {StopMessage})
         /\ ToSet(Append(mail, x)) = ToSet(mail) \cup {x}
         /\ IsInjective(Append(mail, x))
         /\ \A i, j \in 1 .. Len(Append(mail, x)) :
              i < j /\ Append(mail, x)[i] = StopMessage =>
                \/ Append(mail, x)[j] \in overtaken
                \/ Append(mail, x)[j] = x /\ StopMessage \in ToSet(mail)
  <1> DEFINE All == Buffers \cup {StopMessage}
             m == Append(mail, x)
  <1>1. mail \in Seq(All) /\ IsInjective(mail) /\ x \in All
    BY DEF AppInv, AppTypes, AppTypeOK, Apart
  <1>2. \A i, j \in 1 .. Len(mail) :
          i < j /\ mail[i] = StopMessage => mail[j] \in overtaken
    BY DEF AppInv, Course
  <1> HIDE DEF All
  <1>3. ToSet(m) = ToSet(mail) \cup {x} /\ IsInjective(m)
    BY <1>1, AppendInjectiveNew
  <1>4. /\ m \in Seq(All) /\ Len(m) = Len(mail) + 1 /\ Len(mail) \in Nat
        /\ \A i \in 1 .. Len(mail) : m[i] = mail[i]
        /\ m[Len(mail) + 1] = x
    BY <1>1, AppendProperties
  <1> HIDE DEF m
  <1>5. ASSUME NEW i \in 1 .. Len(m), NEW j \in 1 .. Len(m), i < j, m[i] = StopMessage
        PROVE  m[j] \in overtaken \/ (m[j] = x /\ StopMessage \in ToSet(mail))
    <2>1. i \in 1 .. Len(mail) /\ m[i] = mail[i]
      BY <1>4, <1>5
    <2>2. StopMessage \in ToSet(mail)
      BY <1>1, <1>5, <2>1 DEF ToSet
    <2>3. CASE j \in 1 .. Len(mail)
      BY <1>2, <1>4, <1>5, <2>1, <2>3
    <2>4. CASE j \notin 1 .. Len(mail)
      <3>1. j = Len(mail) + 1
        BY <1>4, <2>4
      <3> QED
        BY <3>1, <1>4, <2>2
    <2> QED
      BY <2>3, <2>4
  <1> QED
    BY <1>3, <1>4, <1>5 DEF m, All

(* queueRequest() by the main thread                                       *)
LEMMA AppQueueFirst ==
  ASSUME AppInv, QueueFirst
  PROVE  AppInv'
  <1> DEFINE x == Head(unqueued)
             t == Tail(unqueued)
             m == Append(mail, x)
  <1>1. /\ appPc = "queue" /\ appPc' = appPc /\ unqueued # <<>>
        /\ mail' = m /\ unqueued' = t
        /\ UNCHANGED <<app, streaming, completing, checked, cqueue, cstate,
                       exit, unplugged, overtaken, deletedQueued>>
    BY DEF QueueFirst, Untouched
  <1>2. unqueued \in Seq(Buffers) /\ Apart
    BY DEF AppInv, AppTypes, AppTypeOK
  <1>3. /\ x \in Buffers /\ t \in Seq(Buffers) /\ x \in ToSet(unqueued)
        /\ ToSet(unqueued) = {x} \cup ToSet(t)
        /\ IsInjective(t) /\ x \notin ToSet(t)
    BY <1>1, <1>2, PopFront DEF Apart
  <1>4. x \notin ToSet(mail) /\ x \notin ToSet(cqueue) /\ x # completing
    BY <1>2, <1>3 DEF Apart
  <1> HIDE DEF x, t
  <1>5. /\ m \in Seq(Buffers \cup {StopMessage})
        /\ ToSet(m) = ToSet(mail) \cup {x} /\ IsInjective(m)
        /\ \A i, j \in 1 .. Len(m) :
             i < j /\ m[i] = StopMessage =>
                m[j] \in overtaken \/ (m[j] = x /\ StopMessage \in ToSet(mail))
    BY <1>3, <1>4, Posted
  <1> HIDE DEF m
  <1>6. AppTypes'
    BY <1>1, <1>3, <1>5 DEF AppInv, AppTypes, AppTypeOK
  <1>7. Apart'
    <2>1. IsInjective(unqueued') /\ IsInjective(cqueue') /\ IsInjective(mail')
      BY <1>1, <1>2, <1>3, <1>5 DEF Apart
    <2>2. /\ ToSet(unqueued') = ToSet(t) /\ ToSet(cqueue') = ToSet(cqueue)
          /\ ToSet(mail') = ToSet(mail) \cup {x} /\ completing' = completing
      BY <1>1, <1>5
    <2> QED
      BY <1>2, <1>3, <1>4, <2>1, <2>2 DEF Apart
  <1>8. Course'
    <2>1. StopMessage \notin ToSet(mail) /\ x # StopMessage
      <3>1. StopMessage \notin Buffers
        BY AppAssumption DEF StopMessage, Buffers
      <3> QED
        BY <1>1, <1>3, <3>1 DEF AppInv, Course
    <2>2. StopMessage \notin ToSet(mail')
      BY <1>1, <1>5, <2>1
    <2>3. \A i, j \in 1 .. Len(mail') :
            i < j /\ mail'[i] = StopMessage => mail'[j] \in overtaken'
      BY <1>1, <1>5, <2>1
    <2> QED
      BY <1>1, <2>2, <2>3 DEF AppInv, Course
  <1> QED
    BY <1>6, <1>7, <1>8 DEF AppInv

(* A request is refused: the camera was unplugged.                         *)
LEMMA AppQueueFails ==
  ASSUME AppInv, QueueFails
  PROVE  AppInv'
  <1>1. /\ appPc = "queue" /\ appPc' = "free" /\ unqueued' = <<>>
        /\ deletedQueued' \in {deletedQueued, ToSet(cqueue) \cup (ToSet(mail) \cap Buffers)}
        /\ UNCHANGED <<app, streaming, completing, checked, cqueue, cstate, mail,
                       exit, unplugged, overtaken>>
    BY DEF QueueFails, Goto, ManagerIdle
  <1>2. unplugged
    BY <1>1 DEF QueueFails, MayQueueNow, MayQueue, AppInv, Course
  <1>3. <<>> \in Seq(Buffers) /\ ToSet(<<>>) = {} /\ IsInjective(<<>>)
    BY DEF ToSet, IsInjective
  <1>4. ToSet(cqueue) \subseteq Buffers
    BY DEF AppInv, AppTypes, ToSet
  <1>5. AppTypes'
    BY <1>1, <1>3, <1>4 DEF AppInv, AppTypes, AppTypeOK
  <1>6. Apart'
    BY <1>1, <1>3 DEF AppInv, Apart
  <1>7. Course'
    BY <1>1, <1>2 DEF AppInv, Course
  <1> QED
    BY <1>5, <1>6, <1>7 DEF AppInv

(* The other steps of the main thread, the interrupt and the unplugging.   *)
LEMMA AppMain ==
  ASSUME AppInv, Exec \/ StopReturns \/ FreeBuffers \/ Interrupt \/ Unplug
  PROVE  AppInv'
  <1>1. /\ ManagerIdle /\ UNCHANGED <<app, unqueued, overtaken, deletedQueued>>
        /\ {exit', unplugged'} \subseteq BOOLEAN /\ (unplugged => unplugged')
    <2>1. exit \in BOOLEAN /\ unplugged \in BOOLEAN
      BY DEF AppInv, AppTypes, AppTypeOK
    <2>2. exit' \in BOOLEAN
      <3>1. CASE Interrupt
        BY <3>1, <2>1 DEF Interrupt, Exited
      <3>2. CASE ~Interrupt
        BY <3>2, <2>1 DEF Exec, StopReturns, FreeBuffers, Unplug, Untouched
      <3> QED
        BY <3>1, <3>2
    <2>3. unplugged' \in {unplugged, TRUE}
      BY DEF Exec, StopReturns, FreeBuffers, Interrupt, Unplug, Untouched
    <2>4. ManagerIdle /\ UNCHANGED <<app, unqueued, overtaken, deletedQueued>>
      BY DEF Exec, StopReturns, FreeBuffers, Interrupt, Unplug, Goto, Untouched
    <2> QED
      BY <2>1, <2>2, <2>3, <2>4
  <1>2. Course'
    <2>1. CASE Exec
      BY <2>1 DEF Exec, Goto, ManagerIdle, AppInv, Course, OnlyOvertaken, Quiet
    <2>2. CASE StopReturns
      BY <2>2 DEF StopReturns, Goto, ManagerIdle, Untouched, AppInv, Course,
                  OnlyOvertaken, Quiet
    <2>3. CASE FreeBuffers
      BY <2>3 DEF FreeBuffers, Goto, ManagerIdle, Untouched, AppInv, Course,
                  OnlyOvertaken, Quiet
    <2>4. CASE Interrupt
      BY <2>4 DEF Interrupt, ManagerIdle, AppInv, Course, OnlyOvertaken, Quiet
    <2>5. CASE Unplug
      BY <2>5 DEF Unplug, ManagerIdle, AppInv, Course, OnlyOvertaken, Quiet
    <2> QED
      BY <2>1, <2>2, <2>3, <2>4, <2>5
  <1> QED
    BY <1>1, <1>2, AppQuietStep

(* stop() tells the manager's thread, unless the camera was unplugged.     *)
LEMMA AppCallStop ==
  ASSUME AppInv, CallStop
  PROVE  AppInv'
  <1>1. /\ appPc = "loop"
        /\ UNCHANGED <<app, unqueued, streaming, completing, checked, cqueue, cjammed,
                       exit, unplugged, overtaken, deletedQueued>>
    BY DEF CallStop, Goto, Untouched
  <1>2. CASE ~MayQueueNow
    <2>1. /\ unplugged /\ appPc' = "free" /\ UNCHANGED <<cstate, mail>>
      BY <1>1, <1>2 DEF CallStop, Goto, MayQueueNow, MayQueue, AppInv, Course
    <2>2. Course'
      BY <1>1, <2>1 DEF AppInv, Course
    <2>3. ManagerIdle /\ {exit', unplugged'} \subseteq BOOLEAN /\ (unplugged => unplugged')
      BY <1>1, <2>1 DEF ManagerIdle, AppInv, AppTypes, AppTypeOK
    <2> QED
      BY <1>1, <2>2, <2>3, AppQuietStep
  <1>3. CASE MayQueueNow
    <2> DEFINE m == Append(mail, StopMessage)
    <2>1. cstate' = "configured" /\ mail' = m /\ appPc' = "stopping"
      BY <1>3 DEF CallStop, Goto
    <2>2. StopMessage \notin ToSet(mail)
      BY <1>1 DEF AppInv, Course
    <2>3. /\ StopMessage \notin Buffers /\ StopMessage # NoBuffer
          /\ StopMessage \in Buffers \cup {StopMessage}
      BY AppAssumption DEF StopMessage, Buffers, NoBuffer
    <2>4. /\ m \in Seq(Buffers \cup {StopMessage})
          /\ ToSet(m) = ToSet(mail) \cup {StopMessage} /\ IsInjective(m)
          /\ \A i, j \in 1 .. Len(m) :
               i < j /\ m[i] = StopMessage =>
                  m[j] \in overtaken \/ (m[j] = StopMessage /\ StopMessage \in ToSet(mail))
      BY <2>2, <2>3, Posted
    <2> HIDE DEF m
    <2>5. /\ ToSet(unqueued) \subseteq Buffers /\ ToSet(cqueue) \subseteq Buffers
          /\ completing # StopMessage
      BY <2>3 DEF AppInv, AppTypes, AppTypeOK, ToSet
    <2>6. AppTypes'
      BY <1>1, <2>1, <2>4 DEF AppInv, AppTypes, AppTypeOK
    <2>7. Apart'
      <3>1. IsInjective(unqueued') /\ IsInjective(cqueue') /\ IsInjective(mail')
        BY <1>1, <2>1, <2>4 DEF AppInv, Apart
      <3>2. /\ ToSet(unqueued') = ToSet(unqueued) /\ ToSet(cqueue') = ToSet(cqueue)
            /\ ToSet(mail') = ToSet(mail) \cup {StopMessage} /\ completing' = completing
        BY <1>1, <2>1, <2>4
      <3> QED
        BY <3>1, <3>2, <2>3, <2>5 DEF AppInv, Apart
    <2>8. Course'
      <3>1. StopMessage \in ToSet(mail')
        BY <2>1, <2>4
      <3>2. \A i, j \in 1 .. Len(mail') :
              i < j /\ mail'[i] = StopMessage => mail'[j] \in overtaken'
        BY <1>1, <2>1, <2>2, <2>4
      <3> QED
        BY <1>1, <2>1, <3>1, <3>2 DEF AppInv, Course
    <2> QED
      BY <2>6, <2>7, <2>8 DEF AppInv
  <1> QED
    BY <1>2, <1>3

(* A request completes.                                                    *)
LEMMA AppComplete ==
  ASSUME AppInv, Complete
  PROVE  AppInv'
  <1> DEFINE x == Head(cqueue)
             t == Tail(cqueue)
  <1>1. /\ streaming /\ completing = NoBuffer /\ cqueue # <<>>
        /\ completing' = x /\ cqueue' = t
        /\ UNCHANGED <<app, appPc, unqueued, mail, streaming, checked, cstate,
                       exit, unplugged, overtaken, deletedQueued>>
    BY DEF Complete, Untouched
  <1>2. cqueue \in Seq(Buffers) /\ Apart
    BY DEF AppInv, AppTypes
  <1>3. /\ x \in Buffers /\ t \in Seq(Buffers) /\ x \in ToSet(cqueue)
        /\ ToSet(cqueue) = {x} \cup ToSet(t)
        /\ IsInjective(t) /\ x \notin ToSet(t)
    BY <1>1, <1>2, PopFront DEF Apart
  <1> HIDE DEF x, t
  <1>4. ~checked
    BY <1>1 DEF AppInv, AppTypes
  <1>5. AppTypes'
    BY <1>1, <1>3, <1>4 DEF AppInv, AppTypes, AppTypeOK
  <1>6. Apart'
    <2>1. IsInjective(unqueued') /\ IsInjective(cqueue') /\ IsInjective(mail')
      BY <1>1, <1>2, <1>3 DEF Apart
    <2>2. /\ ToSet(unqueued') = ToSet(unqueued) /\ ToSet(cqueue') = ToSet(t)
          /\ ToSet(mail') = ToSet(mail) /\ completing' = x
      BY <1>1
    <2> QED
      BY <1>2, <1>3, <2>1, <2>2 DEF Apart
  <1>7. Course'
    <2>1. /\ appPc \notin {"open", "configure", "allocate", "start"}
          /\ ~(appPc = "stopping" /\ StopMessage \notin ToSet(mail))
          /\ ~(appPc \in {"free", "done"} /\ ~unplugged)
      BY <1>1 DEF AppInv, Course, OnlyOvertaken, Quiet
    <2> QED
      BY <1>1, <2>1 DEF AppInv, Course
  <1> QED
    BY <1>5, <1>6, <1>7 DEF AppInv

(* queueRequest() of requestComplete() looks at the state.                 *)
LEMMA AppCheckState ==
  ASSUME AppInv, CheckState
  PROVE  AppInv'
  <1>1. /\ completing # NoBuffer /\ completing' \in {completing, NoBuffer}
        /\ checked' \in BOOLEAN /\ (checked' => completing' = completing)
        /\ UNCHANGED <<app, appPc, unqueued, mail, streaming, cqueue, cstate,
                       exit, unplugged, overtaken, deletedQueued>>
    BY DEF CheckState, Untouched, MayQueueNow, MayQueue
  <1>2. /\ NoBuffer \notin ToSet(unqueued) /\ NoBuffer \notin ToSet(cqueue)
        /\ NoBuffer \notin ToSet(mail)
    <2>1. NoBuffer \notin Buffers \cup {StopMessage}
      BY AppAssumption DEF NoBuffer, Buffers, StopMessage
    <2> QED
      BY <2>1 DEF AppInv, AppTypes, AppTypeOK, ToSet
  <1>3. AppTypes'
    BY <1>1 DEF AppInv, AppTypes, AppTypeOK
  <1>4. Apart'
    BY <1>1, <1>2 DEF AppInv, Apart
  <1>5. Course'
    BY <1>1 DEF AppInv, Course, OnlyOvertaken, Quiet
  <1> QED
    BY <1>3, <1>4, <1>5 DEF AppInv

(* And posts the message, behind that of stop() perhaps.                   *)
LEMMA AppPostRequest ==
  ASSUME AppInv, PostRequest
  PROVE  AppInv'
  <1> DEFINE x == completing
             m == Append(mail, x)
  <1>1. /\ checked /\ checked' = FALSE /\ completing' = NoBuffer /\ mail' = m
        /\ overtaken' \in {overtaken, overtaken \cup {x}}
        /\ (cstate # "running" => overtaken' = overtaken \cup {x})
        /\ UNCHANGED <<app, appPc, unqueued, streaming, cqueue, cstate,
                       exit, unplugged, deletedQueued>>
    BY DEF PostRequest, MayQueue
  <1>2. x # NoBuffer /\ x \in Buffers /\ x \notin ToSet(mail)
    BY <1>1 DEF AppInv, AppTypes, AppTypeOK, Apart
  <1>3. x # StopMessage /\ NoBuffer \notin Buffers \cup {StopMessage}
    BY <1>2, AppAssumption DEF StopMessage, Buffers, NoBuffer
  <1>4. /\ m \in Seq(Buffers \cup {StopMessage})
        /\ ToSet(m) = ToSet(mail) \cup {x} /\ IsInjective(m)
        /\ \A i, j \in 1 .. Len(m) :
             i < j /\ m[i] = StopMessage =>
                m[j] \in overtaken \/ (m[j] = x /\ StopMessage \in ToSet(mail))
    BY <1>2, Posted
  <1> HIDE DEF m, x
  <1>5. x = completing
    BY DEF x
  <1>6. AppTypes'
    BY <1>1, <1>2, <1>4 DEF AppInv, AppTypes, AppTypeOK
  <1>7. Apart'
    <2>1. IsInjective(unqueued') /\ IsInjective(cqueue') /\ IsInjective(mail')
      BY <1>1, <1>4 DEF AppInv, Apart
    <2>2. /\ ToSet(unqueued') = ToSet(unqueued) /\ ToSet(cqueue') = ToSet(cqueue)
          /\ ToSet(mail') = ToSet(mail) \cup {x} /\ completing' = NoBuffer
      BY <1>1, <1>4
    <2>3. ToSet(unqueued) \subseteq Buffers /\ ToSet(cqueue) \subseteq Buffers
          /\ ToSet(mail') \subseteq Buffers \cup {StopMessage}
      BY <1>1, <1>4 DEF AppInv, AppTypes, AppTypeOK, ToSet
    <2> QED
      BY <1>3, <1>5, <2>1, <2>2, <2>3 DEF AppInv, Apart
  <1>8. Course'
    <2>1. /\ appPc \notin {"open", "configure", "allocate", "start"}
          /\ ~(appPc = "stopping" /\ StopMessage \notin ToSet(mail))
          /\ ~(appPc \in {"free", "done"} /\ ~unplugged)
      BY <1>2, <1>5 DEF AppInv, Course, OnlyOvertaken, Quiet
    <2>2. StopMessage \in ToSet(mail') <=> StopMessage \in ToSet(mail)
      BY <1>1, <1>3, <1>4
    <2>3. StopMessage \in ToSet(mail) => x \in overtaken'
      BY <1>1 DEF AppInv, Course
    <2>4. \A i, j \in 1 .. Len(mail') :
            i < j /\ mail'[i] = StopMessage => mail'[j] \in overtaken'
      BY <1>1, <1>4, <2>3
    <2> QED
      BY <1>1, <2>1, <2>2, <2>4 DEF AppInv, Course
  <1> QED
    BY <1>6, <1>7, <1>8 DEF AppInv

(* The manager's thread takes the first message.                           *)
LEMMA AppDispatch ==
  ASSUME AppInv, Dispatch
  PROVE  AppInv'
  <1> DEFINE x == Head(mail)
             t == Tail(mail)
             q == Append(cqueue, x)
             All == Buffers \cup {StopMessage}
  <1>1. /\ mail # <<>> /\ completing = NoBuffer /\ mail' = t
        /\ IF x = StopMessage THEN cqueue' = <<>> /\ streaming' = FALSE
                              ELSE cqueue' \in {q, cqueue} /\ streaming' = streaming
        /\ UNCHANGED <<app, appPc, unqueued, completing, checked, cstate,
                       exit, unplugged, overtaken, deletedQueued>>
    BY DEF Dispatch, Untouched, Cancel, Enqueue
  <1>2. mail \in Seq(All) /\ cqueue \in Seq(Buffers) /\ Apart /\ Course /\ AppTypes
    BY DEF AppInv, AppTypes, AppTypeOK
  <1> HIDE DEF All
  <1>3. /\ x \in All /\ t \in Seq(All) /\ x \in ToSet(mail)
        /\ ToSet(mail) = {x} \cup ToSet(t)
        /\ IsInjective(t) /\ x \notin ToSet(t)
    BY <1>1, <1>2, PopFront DEF Apart
  <1>4. /\ Len(mail) \in Nat /\ Len(mail) # 0 /\ x = mail[1]
        /\ Len(t) = Len(mail) - 1 /\ \A i \in 1 .. Len(t) : t[i] = mail[i + 1]
    BY <1>1, <1>2, HeadTailProperties, EmptySeq
  <1> HIDE DEF x, t
  <1>5. \A i, j \in 1 .. Len(t) : i < j /\ t[i] = StopMessage => t[j] \in overtaken
    <2>1. \A i, j \in 1 .. Len(mail) :
            i < j /\ mail[i] = StopMessage => mail[j] \in overtaken
      BY <1>2 DEF Course
    <2>2. ASSUME NEW i \in 1 .. Len(t), NEW j \in 1 .. Len(t), i < j, t[i] = StopMessage
          PROVE  t[j] \in overtaken
      <3>1. i + 1 \in 1 .. Len(mail) /\ j + 1 \in 1 .. Len(mail) /\ i + 1 < j + 1
        BY <1>4, <2>2
      <3>2. mail[i + 1] = StopMessage /\ t[j] = mail[j + 1]
        BY <1>4, <2>2
      <3> QED
        BY <2>1, <3>1, <3>2
    <2> QED
      BY <2>2
  <1>6. CASE x = StopMessage
    <2>1. appPc = "stopping"
      BY <1>2, <1>3, <1>6 DEF Course
    <2>2. ToSet(t) \subseteq overtaken
      <3>1. ASSUME NEW y \in ToSet(t) PROVE y \in overtaken
        <4>1. PICK i \in 1 .. Len(t) : y = t[i]
          BY <1>3 DEF ToSet
        <4>2. i + 1 \in 1 .. Len(mail) /\ 1 \in 1 .. Len(mail) /\ 1 < i + 1 /\ y = mail[i + 1]
          BY <1>4, <4>1
        <4>3. mail[1] = StopMessage
          BY <1>4, <1>6
        <4> QED
          BY <4>2, <4>3, <1>2 DEF Course
      <3> QED
        BY <3>1
    <2>3. cqueue' = <<>> /\ ToSet(<<>>) = {} /\ IsInjective(<<>>) /\ <<>> \in Seq(Buffers)
      BY <1>1, <1>6 DEF ToSet, IsInjective
    <2>4. AppTypes'
      BY <1>1, <1>2, <1>3, <1>6, <2>3 DEF AppTypes, AppTypeOK, All
    <2>5. Apart'
      <3>1. IsInjective(unqueued') /\ IsInjective(cqueue') /\ IsInjective(mail')
        BY <1>1, <1>2, <1>3, <2>3 DEF Apart
      <3>2. /\ ToSet(unqueued') = ToSet(unqueued) /\ ToSet(cqueue') = {}
            /\ ToSet(mail') = ToSet(t) /\ completing' = completing
        BY <1>1, <2>3
      <3> QED
        BY <1>2, <1>3, <3>1, <3>2 DEF Apart
    <2>6. Course'
      <3>1. OnlyOvertaken'
        BY <1>1, <1>6, <2>2, <2>3 DEF OnlyOvertaken, Quiet
      <3>2. \A i, j \in 1 .. Len(mail') :
              i < j /\ mail'[i] = StopMessage => mail'[j] \in overtaken'
        BY <1>1, <1>5
      <3> QED
        BY <1>1, <1>2, <2>1, <3>1, <3>2 DEF Course
    <2> QED
      BY <2>4, <2>5, <2>6 DEF AppInv
  <1>7. CASE x # StopMessage
    <2>1. x \in Buffers /\ x \notin ToSet(cqueue)
      BY <1>2, <1>3, <1>7 DEF All, Apart
    <2>2. q \in Seq(Buffers) /\ ToSet(q) = ToSet(cqueue) \cup {x} /\ IsInjective(q)
      BY <1>2, <2>1, AppendInjectiveNew DEF Apart
    <2> HIDE DEF q
    <2>3. /\ cqueue' \in Seq(Buffers) /\ IsInjective(cqueue')
          /\ ToSet(cqueue') \subseteq ToSet(cqueue) \cup {x} /\ streaming' = streaming
      <3>1. CASE cqueue' = q
        BY <1>1, <1>7, <2>2, <3>1
      <3>2. CASE cqueue' = cqueue
        BY <1>1, <1>2, <1>7, <3>2 DEF Apart
      <3> QED
        BY <1>1, <1>7, <3>1, <3>2
    <2>4. AppTypes'
      BY <1>1, <1>2, <1>3, <2>3 DEF AppTypes, AppTypeOK, All
    <2>5. Apart'
      <3>1. IsInjective(unqueued') /\ IsInjective(cqueue') /\ IsInjective(mail')
        BY <1>1, <1>2, <1>3, <2>3 DEF Apart
      <3>2. /\ ToSet(unqueued') = ToSet(unqueued)
            /\ ToSet(cqueue') \subseteq ToSet(cqueue) \cup {x}
            /\ ToSet(mail') = ToSet(t) /\ completing' = completing
        BY <1>1, <2>3
      <3> QED
        BY <1>2, <1>3, <3>1, <3>2 DEF Apart
    <2>6. Course'
      <3>1. StopMessage \in ToSet(mail') <=> StopMessage \in ToSet(mail)
        BY <1>1, <1>3, <1>7
      <3>2. OnlyOvertaken => OnlyOvertaken'
        BY <1>1, <1>3, <2>3 DEF OnlyOvertaken, Quiet
      <3>3. appPc \notin {"open", "configure", "allocate", "start"}
        BY <1>1, <1>2 DEF Course
      <3>4. \A i, j \in 1 .. Len(mail') :
              i < j /\ mail'[i] = StopMessage => mail'[j] \in overtaken'
        BY <1>1, <1>5
      <3> QED
        BY <1>1, <1>2, <3>1, <3>2, <3>3, <3>4 DEF Course
    <2> QED
      BY <2>4, <2>5, <2>6 DEF AppInv
  <1> QED
    BY <1>6, <1>7

(* Every step of cam, of qcam and of the manager's thread.                 *)
LEMMA AppStep ==
  ASSUME AppInv, AppNext
  PROVE  AppInv'
  BY AppSetUp, AppAllocate, AppStart, AppQueueFirst, AppQueueFails, AppMain,
     AppCallStop, AppComplete, AppCheckState, AppPostRequest, AppDispatch
     DEF AppNext, MainStep, ManagerStep

(* In the beginning.                                                       *)
LEMMA AppFirst ==
  ASSUME CameraInit, AppInit
  PROVE  AppInv
  <1> USE DEF CameraInit, AppInit
  <1>1. <<>> \in Seq(Buffers) /\ <<>> \in Seq(Buffers \cup {StopMessage})
        /\ ToSet(<<>>) = {} /\ IsInjective(<<>>)
    BY DEF ToSet, IsInjective
  <1>2. AppTypes
    BY <1>1 DEF AppTypes, AppTypeOK
  <1>3. Apart
    BY <1>1 DEF Apart
  <1>4. Course
    BY <1>1 DEF Course, Quiet
  <1> QED
    BY <1>2, <1>3, <1>4 DEF AppInv

(* cam and qcam free their buffers when the camera has none of their       *)
(* requests any more that it would complete, but for one whose             *)
(* queueRequest() found the camera running just before stop() was called,  *)
(* and none is in two places.                                              *)
THEOREM CaptureBuffersSafe == Spec => []CaptureSafe
  <1> DEFINE Inv == client = "application" => AppInv
  <1>1. Init => Inv
    BY AppFirst DEF Init
  <1>2. Inv /\ [Next]_vars => Inv'
    <2> SUFFICES ASSUME Inv, [Next]_vars, client' = "application" PROVE AppInv'
      OBVIOUS
    <2>1. CASE App(AppNext)
      BY <2>1, AppStep DEF App, Only
    <2>2. CASE UNCHANGED vars
      <3>1. client' = client /\ UNCHANGED cameraVars /\ UNCHANGED appVars
        BY <2>2 DEF vars
      <3> QED
        BY <3>1 DEF AppInv, AppTypes, AppTypeOK, Apart, Course, OnlyOvertaken,
                    Quiet, cameraVars, appVars
    <2>3. client' = client
      BY <2>2 DEF Next, Gst, V4L2, Hal, Metadata, App, Only, vars
    <2> QED
      BY <2>1, <2>2, <2>3 DEF Next, Gst, V4L2, Hal, Metadata, Only
  <1>3. Inv => CaptureSafe
    BY AppInvImplies DEF CaptureSafe
  <1> QED
    BY <1>1, <1>2, <1>3, PTL DEF Spec

-----------------------------------------------------------------------------
(***************************************************************************)
(* The V4L2 compatibility layer.                                           *)
(***************************************************************************)

(* The remainder is the only number below n that differs from x by a       *)
(* multiple of n.                                                          *)
LEMMA Remainder ==
  ASSUME NEW n \in Nat, n > 0, NEW x \in Nat
  PROVE  /\ x % n \in 0 .. n - 1
         /\ \E q \in Nat : x = n * q + (x % n)
         /\ \A q, r \in Nat : x = n * q + r /\ r < n => x % n = r
  <1>1. x % n \in 0 .. n - 1
    OBVIOUS
  <1>2. \E q \in Int : x = n * q + (x % n)
    OBVIOUS
  <1>3. \E q \in Nat : x = n * q + (x % n)
    <2>1. PICK q \in Int : x = n * q + (x % n)
      BY <1>2
    <2> DEFINE r == x % n
    <2>2. x = n * q + r /\ r \in 0 .. n - 1
      BY <1>1, <2>1
    <2> HIDE DEF r
    <2>3. q >= 0
      BY <2>2
    <2> QED
      BY <2>2, <2>3 DEF r
  <1>4. ASSUME NEW q \in Nat, NEW r \in Nat, x = n * q + r, r < n PROVE x % n = r
    BY <1>4
  <1> QED
    BY <1>1, <1>3, <1>4

(* Counting on from a remainder.                                           *)
LEMMA RemainderPlus ==
  ASSUME NEW n \in Nat, n > 0, NEW x \in Nat, NEW k \in Nat
  PROVE  ((x % n) + k) % n = (x + k) % n
  <1> DEFINE r == x % n
             s == (r + k) % n
  <1>1. PICK q \in Nat : x = n * q + r
    BY Remainder
  <1>2. r \in Nat
    BY Remainder
  <1> HIDE DEF r
  <1>3. s \in 0 .. n - 1 /\ r + k \in Nat
    BY <1>2, Remainder
  <1>4. PICK p \in Nat : r + k = n * p + s
    BY <1>2, <1>3, Remainder
  <1> HIDE DEF s
  <1>5. x + k = n * (q + p) + s
    <2>1. n * (q + p) = n * q + n * p
      OBVIOUS
    <2>2. n * q \in Nat /\ n * p \in Nat
      OBVIOUS
    <2> QED
      BY <1>1, <1>2, <1>3, <1>4, <2>1, <2>2
  <1>6. s \in Nat /\ s < n /\ q + p \in Nat /\ x + k \in Nat
    BY <1>3
  <1>7. (x + k) % n = s
    BY <1>5, <1>6, Remainder
  <1> QED
    BY <1>7 DEF s, r

(* The indices in s go round, from that of the given turn on.              *)
Follows(s, turn) ==
    \A i \in 1 .. Len(s) : s[i] = (turn + (i - 1)) % bufferCount

V4L2Types ==
    /\ ready \in Seq(Nat) /\ cqueue \in Seq(Nat) /\ pendingReqs \in Seq(Nat)
    /\ sema \in Nat /\ bufferCount \in Nat /\ currentBuf \in Nat /\ nextIndex \in Nat
    /\ nonBlocking \in BOOLEAN /\ regular \in BOOLEAN

(* The requests wait while the camera is not streaming, and are queued by  *)
(* VIDIOC_STREAMON.                                                        *)
Streams ==
    /\ isRunning <=> cstate = "running"
    /\ isRunning /\ pendingReqs # <<>> => call = "streamon"
    /\ ~isRunning => cqueue = <<>>
    /\ call = "streamon" => isRunning
    /\ call = "dqbuf" => bufferCount > 0

(* What completed, what the camera has, what waits and what is queued next *)
(* follow one another; a stopped camera leaves nothing to dequeue.  With   *)
(* O_NONBLOCK the semaphore falls behind, but not once all is dequeued.    *)
InTurn ==
    /\ sema <= Len(ready) /\ (~nonBlocking => sema = Len(ready))
    /\ cstate # "running" => ready = <<>>
    /\ bufferCount = 0 => ready = <<>> /\ cqueue = <<>> /\ pendingReqs = <<>>
    /\ bufferCount > 0 =>
         /\ Follows(ready, currentBuf)
         /\ Follows(cqueue, currentBuf + Len(ready))
         /\ Follows(pendingReqs, currentBuf + Len(ready) + Len(cqueue))
         /\ nextIndex = (currentBuf + Len(ready) + Len(cqueue) + Len(pendingReqs))
                            % bufferCount

V4L2Inv == V4L2Types /\ Streams /\ (regular => InTurn)

(* What no call but those that queue, dequeue, allocate or stop changes.   *)
LEMMA V4L2Kept ==
  ASSUME V4L2Inv,
         UNCHANGED <<ready, cqueue, pendingReqs, sema, bufferCount, currentBuf,
                     nextIndex, nonBlocking, regular, isRunning>>,
         cstate' = "running" <=> cstate = "running",
         call' = call
  PROVE  V4L2Inv'
  <1>1. V4L2Types' /\ Streams'
    BY DEF V4L2Inv, V4L2Types, Streams
  <1>2. ASSUME regular' PROVE InTurn'
    BY <1>2 DEF V4L2Inv, InTurn, Follows
  <1> QED
    BY <1>1, <1>2 DEF V4L2Inv

(* openat() and a camera that is available: nothing is left to dequeue.    *)
LEMMA V4L2Open ==
  ASSUME V4L2Inv, NEW fd, NEW nb \in BOOLEAN, Openat(fd, nb)
  PROVE  V4L2Inv'
  <1>1. /\ nonBlocking' = nb /\ cstate = "available" /\ cstate' = "acquired"
        /\ UNCHANGED <<ready, cqueue, pendingReqs, sema, bufferCount, currentBuf,
                       nextIndex, regular, isRunning, call>>
    BY DEF Openat, MayAcquire, vcamVars, history
  <1>2. V4L2Types' /\ Streams'
    BY <1>1 DEF V4L2Inv, V4L2Types, Streams
  <1>3. ASSUME regular' PROVE InTurn'
    <2>1. InTurn /\ ready = <<>> /\ Len(ready) = 0
      BY <1>1, <1>3 DEF V4L2Inv, InTurn
    <2>2. sema = 0
      BY <2>1 DEF V4L2Inv, V4L2Types, InTurn
    <2> QED
      BY <1>1, <2>1, <2>2 DEF InTurn, Follows
  <1> QED
    BY <1>2, <1>3 DEF V4L2Inv

(* The calls that do not concern the queues.                               *)
LEMMA V4L2Others ==
  ASSUME V4L2Inv, NEW fd, NEW newfd, NEW f,
         \/ Dup(fd, newfd) \/ Close(fd) \/ VidiocSFmt(f) \/ VidiocQuerybuf
  PROVE  V4L2Inv'
  <1>1. /\ UNCHANGED <<ready, cqueue, pendingReqs, sema, bufferCount, currentBuf,
                       nextIndex, nonBlocking, regular, isRunning, call>>
        /\ cstate' = "running" <=> cstate = "running"
    BY DEF Dup, Close, VidiocSFmt, VidiocQuerybuf, MayConfigure, vcamVars, history,
           cameraVars
  <1> QED
    BY <1>1, V4L2Kept

(* VIDIOC_REQBUFS and VIDIOC_STREAMOFF: an application that keeps to the   *)
(* order has dequeued everything.                                          *)
LEMMA V4L2Stops ==
  ASSUME V4L2Inv, NEW n, VidiocReqbufsZero(n) \/ VidiocStreamoff(n)
  PROVE  V4L2Inv'
  <1>1. /\ UNCHANGED <<ready, pendingReqs, sema, currentBuf, nextIndex, nonBlocking, call>>
        /\ cqueue' = <<>>
        /\ ~isRunning' /\ cstate' # "running" /\ Calling
        /\ (regular' => regular) /\ regular' \in BOOLEAN
        /\ bufferCount' \in {0, bufferCount}
        /\ (regular' => cqueue = <<>> /\ ready = <<>>)
        /\ (regular' /\ bufferCount' # bufferCount => pendingReqs = <<>>)
    BY DEF VidiocReqbufsZero, VidiocStreamoff, Cancel, StopState, V4L2Inv, V4L2Types
  <1>2. call = "none" /\ <<>> \in Seq(Nat) /\ Len(<<>>) = 0
    BY <1>1 DEF Calling
  <1>3. V4L2Types'
    <2>1. cqueue \in Seq(Nat) /\ bufferCount \in Nat
      BY DEF V4L2Inv, V4L2Types
    <2>2. cqueue' \in Seq(Nat)
      BY <1>1, <1>2, <2>1
    <2>3. bufferCount' \in Nat
      BY <1>1, <2>1
    <2> QED
      BY <1>1, <2>2, <2>3 DEF V4L2Inv, V4L2Types
  <1>4. Streams'
    BY <1>1, <1>2 DEF V4L2Inv, Streams
  <1>5. ASSUME regular' PROVE InTurn'
    <2>1. InTurn /\ cqueue = <<>> /\ cqueue' = <<>> /\ ready = <<>>
      BY <1>1, <1>5 DEF V4L2Inv
    <2>2. CASE bufferCount' = bufferCount
      BY <1>1, <2>1, <2>2 DEF InTurn, Follows
    <2>3. CASE bufferCount' # bufferCount
      BY <1>1, <1>5, <2>1, <2>3 DEF InTurn
    <2> QED
      BY <2>2, <2>3
  <1> QED
    BY <1>3, <1>4, <1>5 DEF V4L2Inv

(* VIDIOC_REQBUFS: the first buffer is the next to be queued and dequeued. *)
LEMMA V4L2Allocates ==
  ASSUME V4L2Inv, NEW n \in Counts, NEW ok \in BOOLEAN, VidiocReqbufs(n, ok)
  PROVE  V4L2Inv'
  <1>1. /\ UNCHANGED <<currentBuf, ready, cqueue, pendingReqs, sema, isRunning,
                       nonBlocking, call>>
        /\ cstate # "running" /\ cstate' # "running" /\ call # "dqbuf"
    BY DEF VidiocReqbufs, MayConfigure, vcamVars, Calling
  <1>2. CASE UNCHANGED <<bufferCount, nextIndex, regular>>
    BY <1>1, <1>2, V4L2Kept
  <1>3. CASE /\ bufferCount' = n /\ nextIndex' = 0
             /\ regular' = (/\ regular /\ ok /\ currentBuf = 0
                            /\ pendingReqs = <<>> /\ ready = <<>>)
    <2>1. n \in Nat
      BY V4L2Assumption
    <2>2. V4L2Types'
      BY <1>1, <1>3, <2>1 DEF V4L2Inv, V4L2Types
    <2>3. Streams'
      BY <1>1, <1>3 DEF V4L2Inv, Streams
    <2>4. ASSUME regular' PROVE InTurn'
      <3>1. /\ InTurn /\ currentBuf = 0 /\ pendingReqs = <<>> /\ ready = <<>> /\ cqueue = <<>>
        BY <1>1, <1>3, <2>4 DEF V4L2Inv, Streams
      <3>2. n > 0 => 0 % n = 0
        BY <2>1
      <3> QED
        BY <1>1, <1>3, <2>1, <3>1, <3>2 DEF InTurn, Follows
    <2> QED
      BY <2>2, <2>3, <2>4 DEF V4L2Inv
  <1> QED
    BY <1>2, <1>3 DEF VidiocReqbufs

(* VIDIOC_QBUF: the buffer goes behind all others.                         *)
LEMMA V4L2Queues ==
  ASSUME V4L2Inv, NEW i \in Nat, NEW keep \in BOOLEAN, VidiocQbuf(i, keep)
  PROVE  V4L2Inv'
  <1> DEFINE n == bufferCount
             N == currentBuf + Len(ready) + Len(cqueue) + Len(pendingReqs)
  <1>1. /\ UNCHANGED <<ready, sema, bufferCount, currentBuf, nonBlocking, isRunning,
                       call, cstate>>
        /\ i < n /\ call = "none"
        /\ nextIndex' = (i + 1) % n /\ regular' = (regular /\ i = nextIndex /\ keep)
        /\ IF isRunning
           THEN /\ cqueue' = IF keep THEN Append(cqueue, i) ELSE cqueue
                /\ pendingReqs' = pendingReqs
           ELSE pendingReqs' = Append(pendingReqs, i) /\ cqueue' = cqueue
    BY DEF VidiocQbuf, Calling, Enqueue, proxyVars
  <1>2. V4L2Types /\ Streams /\ n \in Nat /\ n > 0
    BY <1>1 DEF V4L2Inv, V4L2Types
  <1>3. Len(ready) \in Nat /\ Len(cqueue) \in Nat /\ Len(pendingReqs) \in Nat /\ N \in Nat
    BY <1>2 DEF V4L2Types
  <1>4. nextIndex' \in Nat
    <2>1. (i + 1) % n \in 0 .. n - 1
      BY <1>2, Remainder
    <2> QED
      BY <1>1, <1>2, <2>1
  <1>5. V4L2Types'
    <2>1. Append(cqueue, i) \in Seq(Nat) /\ Append(pendingReqs, i) \in Seq(Nat)
      BY <1>2, AppendProperties DEF V4L2Types
    <2> QED
      BY <1>1, <1>2, <1>4, <2>1 DEF V4L2Types
  <1>6. Streams'
    BY <1>1, <1>2 DEF Streams
  <1>7. ASSUME regular' PROVE InTurn'
    <2>1. InTurn /\ i = nextIndex /\ keep
      BY <1>1, <1>7 DEF V4L2Inv
    <2>2. i = N % n
      BY <1>2, <2>1 DEF InTurn
    <2>3. nextIndex' = (N + 1) % n
      <3>1. nextIndex' = ((N % n) + 1) % n
        BY <1>1, <2>2
      <3>2. n \in Nat /\ n > 0 /\ N \in Nat
        BY <1>2, <1>3
      <3> HIDE DEF n, N
      <3>3. ((N % n) + 1) % n = (N + 1) % n
        BY <3>2, RemainderPlus
      <3> QED
        BY <3>1, <3>3
    <2>4. CASE isRunning
      <3> DEFINE q == Append(cqueue, i)
                 t == currentBuf + Len(ready)
      <3>1. /\ Len(q) = Len(cqueue) + 1 /\ q[Len(cqueue) + 1] = i
            /\ \A j \in 1 .. Len(cqueue) : q[j] = cqueue[j]
        BY <1>2, AppendProperties DEF V4L2Types
      <3>2. /\ pendingReqs = <<>> /\ Len(pendingReqs) = 0 /\ pendingReqs' = pendingReqs
            /\ cqueue' = q /\ t \in Nat /\ N = t + Len(cqueue)
        BY <1>1, <1>2, <1>3, <2>1, <2>4 DEF Streams, V4L2Types
      <3> HIDE DEF q
      <3>3. Follows(cqueue, t)
        BY <1>2, <2>1 DEF InTurn
      <3>4. \A j \in 1 .. Len(q) : q[j] = (t + (j - 1)) % n
        <4>1. ASSUME NEW j \in 1 .. Len(q) PROVE q[j] = (t + (j - 1)) % n
          <5>1. CASE j \in 1 .. Len(cqueue)
            BY <3>1, <3>3, <5>1 DEF Follows
          <5>2. CASE j \notin 1 .. Len(cqueue)
            <6>1. j = Len(cqueue) + 1 /\ j - 1 = Len(cqueue)
              BY <1>3, <3>1, <5>2
            <6> QED
              BY <2>2, <3>1, <3>2, <6>1
          <5> QED
            BY <5>1, <5>2
        <4> QED
          BY <4>1
      <3>5. N + 1 = currentBuf + Len(ready) + Len(q) + Len(pendingReqs)
        BY <1>2, <1>3, <3>1 DEF V4L2Types
      <3> HIDE DEF N
      <3>6. /\ nextIndex' = (currentBuf' + Len(ready') + Len(cqueue') + Len(pendingReqs'))
                                % bufferCount'
        BY <1>1, <2>3, <3>2, <3>5
      <3>7. Follows(cqueue, t)' /\ Follows(ready, currentBuf)' /\ pendingReqs' = <<>>
        BY <1>1, <1>2, <2>1, <3>2, <3>4 DEF Follows, InTurn
      <3>8. cstate' = "running"
        BY <1>1, <1>2, <2>4 DEF Streams
      <3> QED
        BY <1>1, <1>2, <2>1, <3>6, <3>7, <3>8 DEF InTurn, Follows
    <2>5. CASE ~isRunning
      <3> DEFINE q == Append(pendingReqs, i)
                 t == currentBuf + Len(ready) + Len(cqueue)
      <3>1. /\ Len(q) = Len(pendingReqs) + 1 /\ q[Len(pendingReqs) + 1] = i
            /\ \A j \in 1 .. Len(pendingReqs) : q[j] = pendingReqs[j]
        BY <1>2, AppendProperties DEF V4L2Types
      <3>2. cqueue' = cqueue /\ pendingReqs' = q /\ t \in Nat /\ N = t + Len(pendingReqs)
        BY <1>1, <1>2, <1>3, <2>5 DEF V4L2Types
      <3> HIDE DEF q
      <3>3. Follows(pendingReqs, t)
        BY <1>2, <2>1 DEF InTurn
      <3>4. \A j \in 1 .. Len(q) : q[j] = (t + (j - 1)) % n
        <4>1. ASSUME NEW j \in 1 .. Len(q) PROVE q[j] = (t + (j - 1)) % n
          <5>1. CASE j \in 1 .. Len(pendingReqs)
            BY <3>1, <3>3, <5>1 DEF Follows
          <5>2. CASE j \notin 1 .. Len(pendingReqs)
            <6>1. j = Len(pendingReqs) + 1 /\ j - 1 = Len(pendingReqs)
              BY <1>3, <3>1, <5>2
            <6> QED
              BY <2>2, <3>1, <3>2, <6>1
          <5> QED
            BY <5>1, <5>2
        <4> QED
          BY <4>1
      <3>5. N + 1 = currentBuf + Len(ready) + Len(cqueue) + Len(q)
        BY <1>2, <1>3, <3>1 DEF V4L2Types
      <3> HIDE DEF N
      <3>6. /\ nextIndex' = (currentBuf' + Len(ready') + Len(cqueue') + Len(pendingReqs'))
                                % bufferCount'
        BY <1>1, <2>3, <3>2, <3>5
      <3>7. Follows(pendingReqs, t)' /\ Follows(ready, currentBuf)'
            /\ Follows(cqueue, currentBuf + Len(ready))'
        BY <1>1, <1>2, <2>1, <3>2, <3>4 DEF Follows, InTurn
      <3> QED
        BY <1>1, <1>2, <2>1, <3>6, <3>7 DEF InTurn
    <2> QED
      BY <2>4, <2>5
  <1> QED
    BY <1>5, <1>6, <1>7 DEF V4L2Inv

(* VIDIOC_DQBUF, up to acquire()                                           *)
LEMMA V4L2Waits ==
  ASSUME V4L2Inv, VidiocDqbuf
  PROVE  V4L2Inv'
  <1>1. /\ UNCHANGED <<ready, cqueue, pendingReqs, bufferCount, currentBuf, nextIndex,
                       nonBlocking, regular, isRunning, cstate>>
        /\ bufferCount > 0 /\ (nonBlocking => sema > 0)
        /\ sema' = (IF nonBlocking THEN sema - 1 ELSE sema)
        /\ call = "none" /\ call' = "dqbuf"
    BY DEF VidiocDqbuf, Calling, proxyVars, history, cameraVars
  <1>2. sema \in Nat /\ sema' \in Nat /\ sema' <= sema
    BY <1>1 DEF V4L2Inv, V4L2Types
  <1>3. V4L2Types'
    BY <1>1, <1>2 DEF V4L2Inv, V4L2Types
  <1>4. Streams'
    BY <1>1 DEF V4L2Inv, Streams
  <1>5. ASSUME regular' PROVE InTurn'
    <2>1. InTurn /\ Len(ready) \in Nat
      BY <1>1, <1>5 DEF V4L2Inv, V4L2Types
    <2>2. sema' <= Len(ready') /\ (~nonBlocking' => sema' = Len(ready'))
      BY <1>1, <1>2, <2>1 DEF InTurn
    <2>3. /\ Follows(ready, currentBuf)'
          /\ Follows(cqueue, currentBuf + Len(ready))'
          /\ Follows(pendingReqs, currentBuf + Len(ready) + Len(cqueue))'
      BY <1>1, <2>1 DEF InTurn, Follows
    <2> QED
      BY <1>1, <2>1, <2>2, <2>3 DEF InTurn
  <1> QED
    BY <1>3, <1>4, <1>5 DEF V4L2Inv

(* What comes i places behind the one that is dequeued.                    *)
LEMMA TurnOn ==
  ASSUME NEW n \in Nat, n > 0, NEW c \in Nat, NEW k \in Nat, k > 0
  PROVE  (((c + 1) % n) + (k - 1)) % n = (c + k) % n
  <1>1. c + 1 \in Nat /\ k - 1 \in Nat /\ (c + 1) + (k - 1) = c + k
    OBVIOUS
  <1> DEFINE x == c + 1
             j == k - 1
  <1>2. ((x % n) + j) % n = (x + j) % n
    BY <1>1, RemainderPlus
  <1> QED
    BY <1>1, <1>2

(* VIDIOC_DQBUF returns: the oldest is the one in turn, and everything     *)
(* else moves up.                                                          *)
LEMMA V4L2Dequeues ==
  ASSUME V4L2Inv, DqbufReturns
  PROVE  V4L2Inv'
  <1> DEFINE n == bufferCount
             c == currentBuf
             d == (currentBuf + 1) % bufferCount
  <1>1. /\ call = "dqbuf" /\ call' = "none" /\ sema > 0 /\ sema' = sema - 1
        /\ currentBuf' = d
        /\ ready' = IF ready # <<>> THEN Tail(ready) ELSE ready
        /\ UNCHANGED <<cqueue, pendingReqs, bufferCount, nextIndex, nonBlocking, regular,
                       isRunning, cstate>>
    BY DEF DqbufReturns, cameraVars
  <1>2. V4L2Types /\ Streams /\ n \in Nat /\ n > 0 /\ c \in Nat
    BY <1>1 DEF V4L2Inv, V4L2Types, Streams
  <1>3. d \in Nat
    <2>1. d \in 0 .. n - 1
      BY <1>2, Remainder
    <2> QED
      BY <1>2, <2>1
  <1>4. ready' \in Seq(Nat)
    <2>1. ready \in Seq(Nat)
      BY <1>2 DEF V4L2Types
    <2>2. CASE ready # <<>>
      BY <1>1, <2>1, <2>2, HeadTailProperties
    <2>3. CASE ready = <<>>
      BY <1>1, <2>1, <2>3
    <2> QED
      BY <2>2, <2>3
  <1>5. V4L2Types'
    <2>1. sema' \in Nat
      BY <1>1, <1>2 DEF V4L2Types
    <2> HIDE DEF d
    <2> QED
      BY <1>1, <1>2, <1>3, <1>4, <2>1 DEF V4L2Types
  <1>6. Streams'
    BY <1>1, <1>2 DEF Streams
  <1>7. ASSUME regular' PROVE InTurn'
    <2> DEFINE a == Len(ready)
               b == Len(cqueue)
               t == Tail(ready)
    <2>1. InTurn /\ sema \in Nat /\ a \in Nat /\ b \in Nat /\ Len(pendingReqs) \in Nat
      BY <1>1, <1>2, <1>7 DEF V4L2Inv, V4L2Types
    <2>2. ready # <<>> /\ a > 0
      BY <1>1, <2>1 DEF InTurn
    <2>3. /\ ready' = t /\ Len(t) = a - 1
          /\ \A j \in 1 .. a - 1 : t[j] = ready[j + 1]
      <3>1. ready \in Seq(Nat)
        BY <1>2 DEF V4L2Types
      <3>2. Len(t) = a - 1 /\ \A j \in 1 .. Len(t) : t[j] = ready[j + 1]
        BY <2>2, <3>1, HeadTailProperties
      <3> QED
        BY <1>1, <2>2, <3>2
    <2>4. /\ \A j \in 1 .. a : ready[j] = (c + (j - 1)) % n
          /\ \A j \in 1 .. b : cqueue[j] = (c + a + (j - 1)) % n
          /\ \A j \in 1 .. Len(pendingReqs) : pendingReqs[j] = (c + a + b + (j - 1)) % n
          /\ nextIndex = (c + a + b + Len(pendingReqs)) % n
      BY <1>2, <2>1 DEF InTurn, Follows
    <2> HIDE DEF t, a, b
    <2>5. \A k \in Nat : k > 0 => (d + (k - 1)) % n = (c + k) % n
      BY <1>2, TurnOn
    <2> HIDE DEF d, c, n
    <2>6. \A j \in 1 .. a - 1 : t[j] = (d + (j - 1)) % n
      <3>1. ASSUME NEW j \in 1 .. a - 1 PROVE t[j] = (d + (j - 1)) % n
        <4>1. j + 1 \in 1 .. a /\ (j + 1) - 1 = j /\ j \in Nat /\ j > 0
          BY <2>1, <3>1
        <4>2. t[j] = (c + ((j + 1) - 1)) % n
          BY <2>3, <2>4, <4>1
        <4> QED
          BY <2>5, <4>1, <4>2
      <3> QED
        BY <3>1
    <2>7. \A j \in 1 .. b : cqueue[j] = (d + (a - 1) + (j - 1)) % n
      <3>1. ASSUME NEW j \in 1 .. b PROVE cqueue[j] = (d + (a - 1) + (j - 1)) % n
        <4> DEFINE k == a + (j - 1)
        <4>1. k \in Nat /\ k > 0 /\ c + a + (j - 1) = c + k
              /\ d + (a - 1) + (j - 1) = d + (k - 1)
          BY <1>2, <1>3, <2>1, <2>2, <3>1
        <4> HIDE DEF k
        <4> QED
          BY <2>4, <2>5, <4>1
      <3> QED
        BY <3>1
    <2>8. \A j \in 1 .. Len(pendingReqs) :
            pendingReqs[j] = (d + (a - 1) + b + (j - 1)) % n
      <3>1. ASSUME NEW j \in 1 .. Len(pendingReqs)
            PROVE  pendingReqs[j] = (d + (a - 1) + b + (j - 1)) % n
        <4> DEFINE k == a + b + (j - 1)
        <4>1. k \in Nat /\ k > 0 /\ c + a + b + (j - 1) = c + k
              /\ d + (a - 1) + b + (j - 1) = d + (k - 1)
          BY <1>2, <1>3, <2>1, <2>2, <3>1
        <4> HIDE DEF k
        <4> QED
          BY <2>4, <2>5, <4>1
      <3> QED
        BY <3>1
    <2>9. nextIndex = (d + (a - 1) + b + Len(pendingReqs)) % n
      <3> DEFINE k == a + b + Len(pendingReqs)
      <3>1. k \in Nat /\ k > 0 /\ c + a + b + Len(pendingReqs) = c + k
            /\ d + (a - 1) + b + Len(pendingReqs) = d + (k - 1)
        BY <1>2, <1>3, <2>1, <2>2
      <3> HIDE DEF k
      <3> QED
        BY <2>4, <2>5, <3>1
    <2>10. /\ currentBuf' = d /\ bufferCount' = n /\ Len(ready') = a - 1 /\ ready' = t
           /\ cqueue' = cqueue /\ Len(cqueue') = b /\ pendingReqs' = pendingReqs
           /\ nextIndex' = nextIndex /\ n # 0
      BY <1>1, <1>2, <2>3 DEF n, b
    <2>11. /\ Follows(ready, currentBuf)'
           /\ Follows(cqueue, currentBuf + Len(ready))'
           /\ Follows(pendingReqs, currentBuf + Len(ready) + Len(cqueue))'
           /\ nextIndex' = (currentBuf' + Len(ready') + Len(cqueue') + Len(pendingReqs'))
                              % bufferCount'
      BY <2>6, <2>7, <2>8, <2>9, <2>10 DEF Follows, b
    <2>12. sema' <= Len(ready') /\ (~nonBlocking' => sema' = Len(ready'))
      BY <1>1, <2>1, <2>10 DEF InTurn, a
    <2>13. cstate' = "running"
      BY <1>1, <2>1, <2>2 DEF InTurn
    <2> QED
      BY <2>10, <2>11, <2>12, <2>13 DEF InTurn
  <1> QED
    BY <1>5, <1>6, <1>7 DEF V4L2Inv

(* VIDIOC_STREAMON starts the camera.                                      *)
LEMMA V4L2Starts ==
  ASSUME V4L2Inv, VidiocStreamon
  PROVE  V4L2Inv'
  <1>1. /\ isRunning' = TRUE /\ cstate' = "running"
        /\ call' = (IF pendingReqs = <<>> THEN call ELSE "streamon") /\ call = "none"
        /\ UNCHANGED <<ready, cqueue, pendingReqs, sema, bufferCount, currentBuf,
                       nextIndex, nonBlocking, regular>>
    BY DEF VidiocStreamon, Calling, proxyVars, history
  <1>2. V4L2Types' /\ Streams'
    BY <1>1 DEF V4L2Inv, V4L2Types, Streams
  <1>3. ASSUME regular' PROVE InTurn'
    BY <1>1, <1>3 DEF V4L2Inv, InTurn, Follows
  <1> QED
    BY <1>2, <1>3 DEF V4L2Inv

(* The camera gets the first request that waits, behind those it has.      *)
LEMMA V4L2QueuesPending ==
  ASSUME V4L2Inv, NEW keep \in BOOLEAN, StreamonQueues(keep)
  PROVE  V4L2Inv'
  <1> DEFINE x == Head(pendingReqs)
             q == Append(cqueue, x)
             t == Tail(pendingReqs)
             b == Len(cqueue)
             k == Len(pendingReqs)
  <1>1. /\ call = "streamon" /\ pendingReqs # <<>> /\ pendingReqs' = t
        /\ cqueue' = (IF keep THEN q ELSE cqueue)
        /\ call' = (IF k = 1 THEN "none" ELSE call)
        /\ regular' = (regular /\ keep)
        /\ UNCHANGED <<ready, sema, bufferCount, currentBuf, nextIndex, nonBlocking,
                       isRunning, cstate>>
    BY DEF StreamonQueues, FirstFirst, Enqueue, proxyVars
  <1>2. V4L2Types /\ Streams /\ isRunning /\ cstate = "running"
    BY <1>1 DEF V4L2Inv, Streams
  <1>3. /\ x \in Nat /\ x = pendingReqs[1] /\ t \in Seq(Nat) /\ Len(t) = k - 1
        /\ k \in Nat /\ k > 0 /\ \A j \in 1 .. k - 1 : t[j] = pendingReqs[j + 1]
    <2>1. pendingReqs \in Seq(Nat) /\ pendingReqs # <<>>
      BY <1>1, <1>2 DEF V4L2Types
    <2>2. /\ x \in Nat /\ x = pendingReqs[1] /\ t \in Seq(Nat) /\ Len(t) = k - 1
          /\ \A j \in 1 .. Len(t) : t[j] = pendingReqs[j + 1]
      BY <2>1, HeadTailProperties
    <2>3. k \in Nat /\ k # 0
      BY <2>1, EmptySeq
    <2> HIDE DEF t
    <2> QED
      BY <2>2, <2>3
  <1> HIDE DEF x, t
  <1>4. /\ q \in Seq(Nat) /\ Len(q) = b + 1 /\ b \in Nat /\ q[b + 1] = x
        /\ \A j \in 1 .. b : q[j] = cqueue[j]
    BY <1>2, <1>3, AppendProperties DEF V4L2Types
  <1> HIDE DEF q
  <1>5. V4L2Types'
    <2>1. cqueue' \in Seq(Nat)
      BY <1>1, <1>2, <1>4 DEF V4L2Types
    <2> QED
      BY <1>1, <1>2, <1>3, <2>1 DEF V4L2Types
  <1>6. Streams'
    <2>1. k = 1 => t = <<>>
      BY <1>3, EmptySeq
    <2> QED
      BY <1>1, <1>2, <2>1 DEF Streams
  <1>7. ASSUME regular' PROVE InTurn'
    <2>1. /\ InTurn /\ keep /\ currentBuf \in Nat /\ bufferCount \in Nat
          /\ Len(ready) \in Nat /\ bufferCount # 0
      BY <1>1, <1>2, <1>7 DEF V4L2Inv, V4L2Types, InTurn
    <2> DEFINE n == bufferCount
               c == currentBuf + Len(ready)
    <2>2. /\ c \in Nat /\ \A j \in 1 .. b : cqueue[j] = (c + (j - 1)) % n
          /\ \A j \in 1 .. k : pendingReqs[j] = (c + b + (j - 1)) % n
          /\ nextIndex = (c + b + k) % n
      BY <2>1 DEF InTurn, Follows
    <2> HIDE DEF n, c, b, k
    <2>3. \A j \in 1 .. b + 1 : q[j] = (c + (j - 1)) % n
      <3>1. ASSUME NEW j \in 1 .. b + 1 PROVE q[j] = (c + (j - 1)) % n
        <4>1. CASE j \in 1 .. b
          BY <1>4, <2>2, <4>1
        <4>2. CASE j \notin 1 .. b
          <5>1. j = b + 1 /\ 1 \in 1 .. k /\ c + b + (1 - 1) = c + (j - 1)
            BY <1>3, <1>4, <2>2, <4>2
          <5>2. pendingReqs[1] = (c + b + (1 - 1)) % n
            BY <2>2, <5>1
          <5> QED
            BY <1>3, <1>4, <5>1, <5>2
        <4> QED
          BY <4>1, <4>2
      <3> QED
        BY <3>1
    <2>4. \A j \in 1 .. k - 1 : t[j] = (c + (b + 1) + (j - 1)) % n
      <3>1. ASSUME NEW j \in 1 .. k - 1 PROVE t[j] = (c + (b + 1) + (j - 1)) % n
        <4>1. j + 1 \in 1 .. k /\ c + b + ((j + 1) - 1) = c + (b + 1) + (j - 1)
          BY <1>3, <1>4, <2>2
        <4> QED
          BY <1>3, <2>2, <4>1
      <3> QED
        BY <3>1
    <2>5. c + (b + 1) + (k - 1) = c + b + k
      BY <1>3, <1>4, <2>2
    <2>6. /\ bufferCount' = n /\ currentBuf' + Len(ready') = c /\ cqueue' = q
          /\ Len(cqueue') = b + 1 /\ pendingReqs' = t /\ Len(pendingReqs') = k - 1
          /\ nextIndex' = nextIndex /\ n # 0
      BY <1>1, <1>3, <1>4, <2>1 DEF n, c
    <2>7. /\ Follows(cqueue, currentBuf + Len(ready))'
          /\ Follows(pendingReqs, currentBuf + Len(ready) + Len(cqueue))'
      BY <2>3, <2>4, <2>6 DEF Follows
    <2>8. nextIndex' = (currentBuf' + Len(ready') + Len(cqueue') + Len(pendingReqs'))
                          % bufferCount'
      BY <2>2, <2>5, <2>6
    <2>9. Follows(ready, currentBuf)'
      BY <1>1, <2>1 DEF InTurn, Follows
    <2> QED
      BY <1>1, <1>2, <2>1, <2>6, <2>7, <2>8, <2>9 DEF InTurn
  <1> QED
    BY <1>5, <1>6, <1>7 DEF V4L2Inv

(* requestComplete(): the oldest request of the camera is the youngest to  *)
(* be dequeued.                                                            *)
LEMMA V4L2Completes ==
  ASSUME V4L2Inv, RequestComplete
  PROVE  V4L2Inv'
  <1> DEFINE x == Head(cqueue)
             q == Tail(cqueue)
             r == Append(ready, x)
             a == Len(ready)
             b == Len(cqueue)
  <1>1. /\ cqueue # <<>> /\ cqueue' = q /\ ready' = r /\ sema' = sema + 1
        /\ UNCHANGED <<pendingReqs, bufferCount, currentBuf, nextIndex, nonBlocking,
                       regular, isRunning, call, cstate>>
    BY DEF RequestComplete, ReleaseSema, proxyVars
  <1>2. V4L2Types /\ Streams
    BY DEF V4L2Inv
  <1>3. /\ x \in Nat /\ x = cqueue[1] /\ q \in Seq(Nat) /\ Len(q) = b - 1 /\ b \in Nat /\ b > 0
        /\ \A j \in 1 .. b - 1 : q[j] = cqueue[j + 1]
    <2>1. cqueue \in Seq(Nat) /\ cqueue # <<>>
      BY <1>1, <1>2 DEF V4L2Types
    <2>2. /\ x \in Nat /\ x = cqueue[1] /\ q \in Seq(Nat) /\ Len(q) = b - 1
          /\ \A j \in 1 .. Len(q) : q[j] = cqueue[j + 1]
      BY <2>1, HeadTailProperties
    <2>3. b \in Nat /\ b # 0
      BY <2>1, EmptySeq
    <2> HIDE DEF q
    <2> QED
      BY <2>2, <2>3
  <1> HIDE DEF x, q
  <1>4. /\ r \in Seq(Nat) /\ Len(r) = a + 1 /\ a \in Nat /\ r[a + 1] = x
        /\ \A j \in 1 .. a : r[j] = ready[j]
    BY <1>2, <1>3, AppendProperties DEF V4L2Types
  <1> HIDE DEF r
  <1>5. V4L2Types'
    BY <1>1, <1>2, <1>3, <1>4 DEF V4L2Types
  <1>6. isRunning /\ cstate = "running"
    BY <1>1, <1>2 DEF Streams
  <1>7. Streams'
    BY <1>1, <1>2, <1>6 DEF Streams
  <1>8. ASSUME regular' PROVE InTurn'
    <2>1. /\ InTurn /\ sema \in Nat /\ currentBuf \in Nat /\ bufferCount \in Nat
          /\ bufferCount # 0 /\ Len(pendingReqs) \in Nat
      BY <1>1, <1>2, <1>8 DEF V4L2Inv, V4L2Types, InTurn
    <2> DEFINE n == bufferCount
               c == currentBuf
    <2>2. /\ \A j \in 1 .. a : ready[j] = (c + (j - 1)) % n
          /\ \A j \in 1 .. b : cqueue[j] = (c + a + (j - 1)) % n
          /\ Follows(pendingReqs, c + a + b)
          /\ nextIndex = (c + a + b + Len(pendingReqs)) % n
      BY <2>1 DEF InTurn, Follows
    <2> HIDE DEF n, c
    <2>3. \A j \in 1 .. a + 1 : r[j] = (c + (j - 1)) % n
      <3>1. ASSUME NEW j \in 1 .. a + 1 PROVE r[j] = (c + (j - 1)) % n
        <4>1. CASE j \in 1 .. a
          BY <1>4, <2>2, <4>1
        <4>2. CASE j \notin 1 .. a
          <5>1. j = a + 1
            BY <1>4, <4>2
          <5>2. 1 \in 1 .. b
            BY <1>3
          <5>3. c \in Nat
            BY <2>1 DEF c
          <5>4. c + a + (1 - 1) = c + (j - 1)
            BY <1>4, <5>1, <5>3
          <5>5. cqueue[1] = (c + a + (1 - 1)) % n
            BY <2>2, <5>2
          <5> QED
            BY <1>3, <1>4, <5>1, <5>4, <5>5
        <4> QED
          BY <4>1, <4>2
      <3> QED
        BY <3>1
    <2>4. \A j \in 1 .. b - 1 : q[j] = (c + (a + 1) + (j - 1)) % n
      <3>1. ASSUME NEW j \in 1 .. b - 1 PROVE q[j] = (c + (a + 1) + (j - 1)) % n
        <4>1. j + 1 \in 1 .. b /\ c + a + ((j + 1) - 1) = c + (a + 1) + (j - 1)
          BY <1>3, <1>4, <2>1 DEF c
        <4> QED
          BY <1>3, <2>2, <4>1
      <3> QED
        BY <3>1
    <2>5. c + (a + 1) + (b - 1) = c + a + b
      BY <1>3, <1>4, <2>1 DEF c
    <2>6. /\ currentBuf' = c /\ bufferCount' = n /\ ready' = r /\ Len(ready') = a + 1
          /\ cqueue' = q /\ Len(cqueue') = b - 1 /\ pendingReqs' = pendingReqs
          /\ nextIndex' = nextIndex /\ n # 0
      BY <1>1, <1>3, <1>4, <2>1 DEF n, c
    <2>7. Follows(ready, currentBuf)' /\ Follows(cqueue, currentBuf + Len(ready))'
      BY <2>3, <2>4, <2>6 DEF Follows
    <2>8. Follows(pendingReqs, currentBuf + Len(ready) + Len(cqueue))'
      BY <2>2, <2>5, <2>6 DEF Follows, n
    <2>9. nextIndex' = (currentBuf' + Len(ready') + Len(cqueue') + Len(pendingReqs'))
                          % bufferCount'
      BY <2>2, <2>5, <2>6
    <2>10. sema' <= Len(ready') /\ (~nonBlocking' => sema' = Len(ready'))
      BY <1>1, <1>4, <2>1, <2>6 DEF InTurn
    <2> QED
      BY <1>1, <1>6, <2>6, <2>7, <2>8, <2>9, <2>10 DEF InTurn
  <1> QED
    BY <1>5, <1>7, <1>8 DEF V4L2Inv

(* Every step of a V4L2 application and of the camera it uses.             *)
LEMMA V4L2Step ==
  ASSUME V4L2Inv, V4L2Next
  PROVE  V4L2Inv'
  <1>1. CASE \E fd \in Fds, nb \in BOOLEAN : Openat(fd, nb)
    BY <1>1, V4L2Open
  <1>2. CASE \E fd, newfd \in Fds : Dup(fd, newfd) \/ Close(fd)
    BY <1>2, V4L2Others
  <1>3. CASE VidiocQuerybuf \/ \E f \in PixelFormats : VidiocSFmt(f)
    BY <1>3, V4L2Others
  <1>4. CASE \E n \in Counts, ok \in BOOLEAN : VidiocReqbufs(n, ok)
    BY <1>4, V4L2Allocates
  <1>5. CASE \E i \in 0 .. MaxCompleted, keep \in BOOLEAN : VidiocQbuf(i, keep)
    BY <1>5, V4L2Queues
  <1>6. CASE \E n \in 0 .. Len(cqueue) : VidiocReqbufsZero(n) \/ VidiocStreamoff(n)
    BY <1>6, V4L2Stops
  <1>8. CASE \E keep \in BOOLEAN : StreamonQueues(keep)
    BY <1>8, V4L2QueuesPending
  <1>7. CASE VidiocDqbuf \/ DqbufReturns \/ VidiocStreamon \/ RequestComplete
    BY <1>7, V4L2Waits, V4L2Dequeues, V4L2Starts, V4L2Completes
  <1> QED
    BY <1>1, <1>2, <1>3, <1>4, <1>5, <1>6, <1>7, <1>8 DEF V4L2Next

(* VIDIOC_DQBUF hands out the buffer that completed first, although the    *)
(* proxy only counts: for every number of buffers, as long as a blocking   *)
(* application queues them in turn and stops when it has dequeued them,    *)
(* and the camera drops none.                                              *)
THEOREM DequeuesInOrder == Spec => []DequeuesOldest
  <1> DEFINE Inv == IF client = "v4l2" THEN V4L2Inv ELSE sema = 0 /\ ready = <<>>
  <1>1. Init => Inv
    <2> SUFFICES ASSUME Init PROVE Inv
      OBVIOUS
    <2> USE DEF Init, V4L2Init, CameraInit
    <2>1. <<>> \in Seq(Nat) /\ Len(<<>>) = 0
      OBVIOUS
    <2>2. V4L2Types /\ Streams
      BY <2>1 DEF V4L2Types, Streams
    <2>3. InTurn
      BY <2>1 DEF InTurn
    <2> QED
      BY <2>2, <2>3 DEF V4L2Inv
  <1>2. Inv /\ [Next]_vars => Inv'
    <2> SUFFICES ASSUME Inv, [Next]_vars PROVE Inv'
      OBVIOUS
    <2>1. CASE V4L2(V4L2Next)
      BY <2>1, V4L2Step DEF V4L2, Only
    <2>2. CASE UNCHANGED vars
      <3>1. client' = client /\ UNCHANGED cameraVars /\ UNCHANGED v4l2Vars
        BY <2>2 DEF vars
      <3>2. /\ UNCHANGED <<ready, cqueue, pendingReqs, sema, bufferCount, currentBuf,
                           nextIndex, nonBlocking, regular, isRunning>>
            /\ cstate' = cstate /\ call' = call
        BY <3>1 DEF cameraVars, v4l2Vars, proxyVars, vcamVars, history
      <3>3. V4L2Inv => V4L2Inv'
        BY <3>2, V4L2Kept
      <3> QED
        BY <3>1, <3>2, <3>3
    <2>3. CASE client' = client /\ client # "v4l2" /\ UNCHANGED v4l2Vars
      BY <2>3 DEF v4l2Vars, vcamVars, history
    <2> QED
      BY <2>1, <2>2, <2>3 DEF Next, Gst, V4L2, Hal, Metadata, App, Only
  <1>3. Inv => DequeuesOldest
    <2> SUFFICES ASSUME Inv, regular, ~nonBlocking
                 PROVE  /\ sema = Len(ready)
                        /\ \A i \in DOMAIN ready :
                             ready[i] = (currentBuf + i - 1) % bufferCount
      BY DEF DequeuesOldest
    <2>1. CASE client # "v4l2"
      BY <2>1
    <2>2. CASE client = "v4l2"
      <3>1. InTurn /\ ready \in Seq(Nat) /\ bufferCount \in Nat /\ currentBuf \in Nat
        BY <2>2 DEF V4L2Inv, V4L2Types
      <3>2. sema = Len(ready) /\ DOMAIN ready = 1 .. Len(ready) /\ Len(ready) \in Nat
        BY <3>1 DEF InTurn
      <3>3. CASE bufferCount = 0
        BY <3>1, <3>2, <3>3 DEF InTurn
      <3>4. CASE bufferCount # 0
        <4>1. \A i \in 1 .. Len(ready) : ready[i] = (currentBuf + (i - 1)) % bufferCount
          BY <3>1, <3>4 DEF InTurn, Follows
        <4>2. \A i \in 1 .. Len(ready) : currentBuf + (i - 1) = currentBuf + i - 1
          BY <3>1
        <4> QED
          BY <3>2, <4>1, <4>2
      <3> QED
        BY <3>3, <3>4
    <2> QED
      BY <2>1, <2>2
  <1> QED
    BY <1>1, <1>2, <1>3, PTL DEF Spec

-----------------------------------------------------------------------------
(***************************************************************************)
(* The GStreamer element.                                                  *)
(***************************************************************************)

GstTypes ==
    /\ frames \in Seq(Frames) /\ requests \in Seq(Frames)
    /\ pending \in Seq(Frames) /\ cqueue \in Seq(Frames)
    /\ own \in Frames \cup {0} /\ down \subseteq Frames /\ kept \subseteq Frames
    /\ pool \in Nat /\ total \in {0, NumFrames} /\ keeps \in Nat /\ lost \in Nat
    /\ pooled \in BOOLEAN /\ strays \in Nat
    /\ old \in [wraps : Nat, pending : Nat, down : Nat]

(* The task holds the object lock from Camera::queueRequest() until the    *)
(* wrap is pushed, and has a frame of its own until then.                  *)
Locking ==
    /\ thread = "wrap" <=> olock = "task"
    /\ own # 0 <=> thread \in {"queue", "wrap"}
    /\ own # 0 => pooled

(* In between the camera has one request more than there are wraps; each   *)
(* request that does not complete leaves a wrap behind.                    *)
Unpushed == IF thread = "wrap" THEN 1 ELSE 0

Wraps ==
    /\ old.wraps + Len(requests) + Unpushed = Len(cqueue) + strays
    /\ strays = 0 =>
          cqueue = (IF thread = "wrap" THEN Append(requests, own) ELSE requests)

OwnFrame == IF own = 0 THEN {} ELSE {own}

OwnCount == IF own = 0 THEN 0 ELSE 1

(* A frame is in one place.                                                *)
OnePlace ==
    /\ IsInjective(frames) /\ IsInjective(requests) /\ IsInjective(pending)
    /\ ToSet(frames) \cap (ToSet(requests) \cup ToSet(pending) \cup OwnFrame \cup down \cup kept) = {}
    /\ ToSet(requests) \cap (ToSet(pending) \cup OwnFrame \cup down \cup kept) = {}
    /\ ToSet(pending) \cap (OwnFrame \cup down \cup kept) = {}
    /\ OwnFrame \cap (down \cup kept) = {}
    /\ down \cap kept = {}

(* The frames and the GstBuffers of the pool are all somewhere.            *)
Counted ==
    IF pooled
    THEN /\ ToSet(frames) \cup ToSet(requests) \cup ToSet(pending) \cup OwnFrame
              \cup down \cup kept = 1 .. total
         /\ Len(frames) + Len(requests) + Len(pending) + OwnCount
              + Cardinality(down) + Cardinality(kept) = total
         /\ pool + Len(requests) + Len(pending) + OwnCount
              + Cardinality(down) + lost = total
         /\ lost <= keeps
    ELSE frames = <<>> /\ pool = 0 /\ lost = 0

(* The allocator lives as long as the pool or a frame that is not back,    *)
(* so that the camera is not configured anew before that.                  *)
Drained ==
    calloc \in {"none", "new"} =>
        ~pooled /\ requests = <<>> /\ pending = <<>> /\ down = {} /\ kept = {}

KeptFew == Cardinality(kept) <= keeps

(* An element in NULL or READY has no streaming thread, and so neither a   *)
(* pool nor requests with the camera.                                      *)
Idle ==
    /\ gstate \in {"null", "ready"} => thread = "none"
    /\ gcall # "none" => gstate = "paused"
    /\ thread \in {"none", "enter"} => ~pooled /\ cqueue = <<>>

GstInv ==
    GstTypes /\ Locking /\ Wraps /\ OnePlace /\ Counted /\ Drained /\ KeptFew

(* The frames downstream has, and those that it keeps, are finitely many.  *)
LEMMA FramesFinite ==
  ASSUME NEW S, S \subseteq Frames
  PROVE  /\ IsFiniteSet(S) /\ Cardinality(S) \in Nat
         /\ \A f \in Frames \ S : Cardinality(S \cup {f}) = Cardinality(S) + 1
         /\ \A f \in S : Cardinality(S \ {f}) = Cardinality(S) - 1
  <1>1. NumFrames \in Nat
    BY GstAssumption
  <1>2. IsFiniteSet(1 .. NumFrames)
    BY <1>1, FS_Interval
  <1>3. IsFiniteSet(S)
    BY <1>2, FS_Subset DEF Frames
  <1>4. Cardinality(S) \in Nat
    BY <1>3, FS_CardinalityType
  <1>5. \A f \in Frames \ S : Cardinality(S \cup {f}) = Cardinality(S) + 1
    BY <1>3, FS_AddElement
  <1>6. \A f \in S : Cardinality(S \ {f}) = Cardinality(S) - 1
    BY <1>3, FS_RemoveElement
  <1> QED
    BY <1>3, <1>4, <1>5, <1>6

(* The invariant holds what is claimed.                                    *)
LEMMA GstInvImplies ==
  ASSUME GstInv
  PROVE  WrapsMatch /\ FramesConserved
  <1> DEFINE o == IF own = 0 THEN <<>> ELSE <<own>>
             a == requests \o pending
             b == a \o o
  <1>1. WrapsMatch
    <2>1. ASSUME olock = "free" PROVE thread # "wrap" /\ Unpushed = 0
      BY <2>1 DEF GstInv, Locking, Unpushed
    <2>2. old.wraps \in Nat /\ Len(requests) \in Nat
      BY DEF GstInv, GstTypes
    <2> QED
      BY <2>1, <2>2 DEF GstInv, Wraps, WrapsMatch
  <1>2. /\ requests \in Seq(Frames) /\ pending \in Seq(Frames) /\ own \in Frames \cup {0}
        /\ frames \in Seq(Frames)
    BY DEF GstInv, GstTypes
  <1>3. o \in Seq(Frames) /\ ToSet(o) = OwnFrame /\ Len(o) = OwnCount
    <2>1. CASE own = 0
      BY <2>1 DEF ToSet, OwnFrame, OwnCount
    <2>2. CASE own # 0
      BY <1>2, <2>2 DEF ToSet, OwnFrame, OwnCount
    <2> QED
      BY <2>1, <2>2
  <1> HIDE DEF o
  <1>4. /\ a \in Seq(Frames) /\ ToSet(a) = ToSet(requests) \cup ToSet(pending)
        /\ Len(a) = Len(requests) + Len(pending)
    BY <1>2, ConcatElements, ConcatProperties
  <1> HIDE DEF a
  <1>5. /\ b \in Seq(Frames) /\ ToSet(b) = ToSet(a) \cup ToSet(o)
        /\ Len(b) = Len(a) + Len(o)
    <2>1. o \in Seq(Frames) /\ a \in Seq(Frames)
      BY <1>3, <1>4
    <2> QED
      BY <2>1, ConcatElements, ConcatProperties
  <1>6. InFlight = b
    BY DEF InFlight, a, b, o
  <1> HIDE DEF b
  <1>7. Range(frames) = ToSet(frames) /\ Range(b) = ToSet(b)
    BY DEF Range, ToSet
  <1>8. /\ Len(frames) \in Nat /\ Len(requests) \in Nat /\ Len(pending) \in Nat
        /\ OwnCount \in Nat /\ total \in Nat /\ pool \in Nat /\ lost \in Nat
        /\ Cardinality(down) \in Nat /\ Cardinality(kept) \in Nat
    BY <1>2, FramesFinite, GstAssumption DEF GstInv, GstTypes, OwnCount
  <1>9. ASSUME pooled
        PROVE  /\ Range(frames) \cup Range(InFlight) \cup down \cup kept = 1 .. total
               /\ Len(frames) + Len(InFlight) + Cardinality(down)
                     + Cardinality(kept) = total
               /\ pool + Len(InFlight) + Cardinality(down) + lost = total
               /\ lost <= keeps
    <2>1. Counted
      BY DEF GstInv
    <2>2. Range(frames) \cup Range(InFlight) \cup down \cup kept = 1 .. total
      BY <1>3, <1>4, <1>5, <1>6, <1>7, <1>9, <2>1 DEF Counted
    <2>3. Len(InFlight) = Len(requests) + Len(pending) + OwnCount
      BY <1>3, <1>4, <1>5, <1>6
    <2> HIDE DEF OwnCount
    <2> QED
      BY <1>8, <1>9, <2>1, <2>2, <2>3 DEF Counted
  <1> QED
    BY <1>1, <1>9 DEF FramesConserved

(* The state changes and the task's own course do not move frames.         *)
LEMMA GstKept ==
  ASSUME GstInv, UNCHANGED bufferVars, cqueue' = cqueue, Locking',
         thread' = "wrap" <=> thread = "wrap",
         calloc' = calloc \/ calloc' \notin {"none", "new"}
  PROVE  GstInv'
  <1> USE DEF bufferVars
  <1>1. GstTypes' /\ Wraps' /\ Drained' /\ KeptFew'
    BY DEF GstInv, GstTypes, Wraps, Unpushed, Drained, KeptFew
  <1>2. OnePlace' /\ Counted'
    BY DEF GstInv, OnePlace, Counted, OwnFrame, OwnCount
  <1> QED
    BY <1>1, <1>2 DEF GstInv

(* The calls of the application.                                           *)
LEMMA GstCalls ==
  ASSUME GstInv,
         \/ ReadyToPaused \/ PausedToPlaying \/ PlayingToPaused
         \/ PausedToReady \/ JoinStops \/ JoinReturns \/ ReadyToNull
  PROVE  GstInv'
  <1>1. /\ UNCHANGED bufferVars /\ cqueue' = cqueue /\ olock' = olock /\ calloc' = calloc
        /\ thread' = thread \/ (thread = "none" /\ thread' = "enter")
    BY DEF ReadyToPaused, PausedToPlaying, PlayingToPaused,
           PausedToReady, JoinStops, JoinReturns, ReadyToNull, SetTask, cameraVars
  <1>2. Locking'
    BY <1>1 DEF GstInv, Locking, bufferVars
  <1> QED
    BY <1>1, <1>2, GstKept

(* A new camera: what is left of the one before is counted apart.          *)
LEMMA GstOpens ==
  ASSUME GstInv, Idle, NullToReady
  PROVE  GstInv'
  <1>1. /\ thread = "none" /\ ~pooled /\ cqueue = <<>> /\ cqueue' = <<>>
        /\ requests' = <<>>
        /\ pending' = <<>> /\ down' = {} /\ kept' = {} /\ calloc' = "none"
        /\ old' = [wraps |-> old.wraps + Len(requests),
                   pending |-> old.pending + Len(pending),
                   down |-> old.down + Cardinality(down)]
        /\ UNCHANGED <<thread, olock, pool, frames, pooled, total, own, keeps,
                       lost, strays>>
    BY DEF NullToReady, Idle
  <1>2. GstTypes /\ Locking /\ Wraps /\ OnePlace /\ Counted /\ KeptFew
    BY DEF GstInv
  <1>3. ToSet(<<>>) = {} /\ IsInjective(<<>>) /\ <<>> \in Seq(Frames)
        /\ Cardinality({}) = 0 /\ Len(<<>>) = 0
    BY FS_EmptySet DEF ToSet, IsInjective
  <1>4. /\ old.wraps \in Nat /\ old.pending \in Nat /\ old.down \in Nat
        /\ Len(requests) \in Nat /\ Len(pending) \in Nat
        /\ Cardinality(down) \in Nat
    BY <1>2, FramesFinite DEF GstTypes
  <1>5. old' \in [wraps : Nat, pending : Nat, down : Nat]
    BY <1>1, <1>4
  <1>6. GstTypes'
    BY <1>1, <1>2, <1>3, <1>5 DEF GstTypes
  <1>7. Locking' /\ Counted' /\ Drained'
    BY <1>1, <1>2 DEF Locking, Counted, Drained
  <1>8. KeptFew'
    BY <1>1, <1>2, <1>3 DEF KeptFew, GstTypes
  <1>9. OnePlace'
    <2>1. OwnFrame' = OwnFrame /\ ToSet(frames') = ToSet(frames)
      BY <1>1 DEF OwnFrame
    <2>2. IsInjective(frames')
      BY <1>1, <1>2 DEF OnePlace
    <2> HIDE DEF OwnFrame
    <2> QED
      BY <1>1, <1>2, <1>3, <2>1, <2>2 DEF OnePlace
  <1>10. Wraps'
    <2>1. old.wraps + Len(requests) = strays
      BY <1>1, <1>2, <1>3, <1>4 DEF Wraps, Unpushed, GstTypes
    <2>2. old'.wraps = old.wraps + Len(requests)
      BY <1>1
    <2>3. strays \in Nat
      BY <1>2 DEF GstTypes
    <2> QED
      BY <1>1, <1>3, <2>1, <2>2, <2>3 DEF Wraps, Unpushed
  <1> QED
    BY <1>6, <1>7, <1>8, <1>9, <1>10 DEF GstInv

(* The steps of the task between its queueing and its pushing.             *)
LEMMA GstCourse ==
  ASSUME GstInv,
         \/ EnterStops \/ (\E ok, refused \in BOOLEAN : EnterStarts(ok, refused))
         \/ TaskLoop \/ TaskDecide
  PROVE  GstInv'
  <1>1. /\ UNCHANGED bufferVars /\ cqueue' = cqueue
        /\ calloc' = calloc \/ calloc' \notin {"none", "new"}
        /\ thread \notin {"queue", "wrap"} /\ thread' \notin {"queue", "wrap"}
        /\ olock' = olock \/ olock' = "stuck"
    BY DEF EnterStops, EnterStarts, TaskLoop, TaskDecide, cameraVars
  <1>2. Locking'
    BY <1>1 DEF GstInv, Locking, bufferVars
  <1> QED
    BY <1>1, <1>2, GstKept

(* A frame goes back to the allocator, if there still is a pool.           *)
LEMMA GivenBack ==
  ASSUME GstInv, NEW f \in Frames, f \notin ToSet(frames), NEW n \in Nat,
         Back(<<f>>, n), requests' \in Seq(Frames), pending' \in Seq(Frames)
  PROVE  /\ frames' \in Seq(Frames) /\ IsInjective(frames') /\ pool' \in Nat
         /\ UNCHANGED <<pooled, total>>
         /\ pooled => /\ ToSet(frames') = ToSet(frames) \cup {f}
                      /\ Len(frames') = Len(frames) + 1 /\ pool' = pool + n
         /\ ~pooled => frames' = <<>> /\ pool' = 0
         /\ calloc' = calloc \/ Drained'
  <1>1. /\ frames \in Seq(Frames) /\ IsInjective(frames) /\ pool \in Nat
        /\ (~pooled => frames = <<>> /\ pool = 0)
    BY DEF GstInv, GstTypes, OnePlace, Counted
  <1>2. UNCHANGED <<pooled, total>>
    BY DEF Back
  <1>3. calloc' = calloc \/ Drained'
    <2>1. CASE ~pooled' /\ Held(requests', pending', down', kept') = {}
      <3>1. ToSet(requests') = {} /\ ToSet(pending') = {} /\ down' = {} /\ kept' = {}
        BY <2>1 DEF Held, Range, ToSet
      <3>2. DOMAIN requests' = {} /\ DOMAIN pending' = {}
        BY <3>1 DEF ToSet
      <3>3. Len(requests') = 0 /\ Len(pending') = 0
        BY <3>2
      <3>4. requests' = <<>> /\ pending' = <<>>
        BY <3>3
      <3> QED
        BY <2>1, <3>1, <3>4 DEF Drained
    <2>2. CASE ~(~pooled' /\ Held(requests', pending', down', kept') = {})
      BY <2>2 DEF Back, DropAllocator
    <2> QED
      BY <2>1, <2>2
  <1>4. CASE pooled
    <2> DEFINE s == frames \o <<f>>
               e == <<f>>
    <2>1. frames' = s /\ pool' = pool + n
      BY <1>4 DEF Back, GiveBack
    <2>2. e \in Seq(Frames) /\ Len(e) = 1 /\ ToSet(e) = {f} /\ IsInjective(e)
      BY DEF ToSet, IsInjective
    <2>3. s = frames \o e
      OBVIOUS
    <2> HIDE DEF e, s
    <2>4. ToSet(frames) \cap ToSet(e) = {}
      BY <2>2
    <2>5. e \in Seq(Frames)
      BY <2>2
    <2>6. s \in Seq(Frames) /\ ToSet(s) = ToSet(frames) \cup ToSet(e)
      BY <1>1, <2>3, <2>5, ConcatElements
    <2>7. Len(s) = Len(frames) + Len(e)
      BY <1>1, <2>3, <2>5, ConcatProperties
    <2>8. IsInjective(s)
      BY <1>1, <2>2, <2>3, <2>4, ConcatInjective
    <2> QED
      BY <1>1, <1>2, <1>3, <1>4, <2>1, <2>2, <2>6, <2>7, <2>8
  <1>5. CASE ~pooled
    BY <1>1, <1>2, <1>3, <1>5 DEF Back, GiveBack
  <1> QED
    BY <1>4, <1>5 DEF GstInv, GstTypes

(* Downstream gives a buffer back with its memory.                         *)
LEMMA GstReleases ==
  ASSUME GstInv, NEW f \in Frames, ReleaseDown(f, FALSE)
  PROVE  GstInv'
  <1>1. /\ f \in down /\ down' = down \ {f} /\ Back(<<f>>, 1)
        /\ UNCHANGED <<keeps, kept, requests, pending, thread, olock, own, lost,
                       old, strays, cqueue>>
    BY DEF ReleaseDown
  <1>2. GstTypes /\ Locking /\ Wraps /\ OnePlace /\ Counted /\ Drained /\ KeptFew
    BY DEF GstInv
  <1>3. f \notin ToSet(frames) /\ requests' \in Seq(Frames) /\ pending' \in Seq(Frames)
    BY <1>1, <1>2 DEF OnePlace, GstTypes
  <1>4. /\ frames' \in Seq(Frames) /\ IsInjective(frames') /\ pool' \in Nat
        /\ UNCHANGED <<pooled, total>>
        /\ pooled => /\ ToSet(frames') = ToSet(frames) \cup {f}
                     /\ Len(frames') = Len(frames) + 1 /\ pool' = pool + 1
        /\ ~pooled => frames' = <<>> /\ pool' = 0
        /\ calloc' = calloc \/ Drained'
    BY <1>1, <1>3, GivenBack
  <1>5. GstTypes' /\ Locking' /\ Wraps' /\ KeptFew'
    BY <1>1, <1>2, <1>4 DEF GstTypes, Locking, Wraps, Unpushed, KeptFew
  <1>6. Drained'
    BY <1>1, <1>2, <1>4 DEF Drained
  <1>7. ToSet(<<>>) = {}
    BY DEF ToSet
  <1>8. /\ ToSet(requests') = ToSet(requests) /\ ToSet(pending') = ToSet(pending)
        /\ OwnFrame' = OwnFrame /\ OwnCount' = OwnCount
    BY <1>1 DEF OwnFrame, OwnCount
  <1>9. OnePlace'
    <2>1. ToSet(frames') \subseteq ToSet(frames) \cup {f}
      BY <1>4, <1>7
    <2>2. IsInjective(requests') /\ IsInjective(pending')
      BY <1>1, <1>2 DEF OnePlace
    <2> HIDE DEF OwnFrame
    <2> QED
      BY <1>1, <1>2, <1>4, <1>8, <2>1, <2>2 DEF OnePlace
  <1>10. Counted'
    <2>1. /\ Cardinality(down') = Cardinality(down) - 1 /\ Cardinality(down) \in Nat
          /\ Cardinality(kept) \in Nat /\ total \in Nat
          /\ Len(frames) \in Nat /\ Len(requests) \in Nat /\ Len(pending) \in Nat
          /\ OwnCount \in Nat /\ pool \in Nat /\ lost \in Nat
      BY <1>1, <1>2, FramesFinite, GstAssumption DEF GstTypes, OwnCount
    <2> HIDE DEF OwnFrame, OwnCount
    <2>2. CASE pooled
      <3>1. ToSet(frames') \cup ToSet(requests') \cup ToSet(pending') \cup OwnFrame'
              \cup down' \cup kept' = 1 .. total'
        BY <1>1, <1>2, <1>4, <1>8, <2>2 DEF Counted
      <3>2. /\ Len(frames') + Len(requests') + Len(pending') + OwnCount'
                + Cardinality(down') + Cardinality(kept') = total'
            /\ pool' + Len(requests') + Len(pending') + OwnCount'
                + Cardinality(down') + lost' = total'
            /\ lost' <= keeps'
        <4>1. /\ Len(frames) + Len(requests) + Len(pending) + OwnCount
                  + Cardinality(down) + Cardinality(kept) = total
              /\ pool + Len(requests) + Len(pending) + OwnCount
                  + Cardinality(down) + lost = total
              /\ lost <= keeps
          BY <1>2, <2>2 DEF Counted
        <4>2. /\ Len(frames') = Len(frames) + 1 /\ pool' = pool + 1
              /\ Len(requests') = Len(requests) /\ Len(pending') = Len(pending)
              /\ OwnCount' = OwnCount /\ total' = total
              /\ Cardinality(down') = Cardinality(down) - 1
              /\ Cardinality(kept') = Cardinality(kept)
              /\ lost' = lost /\ keeps' = keeps
          BY <1>1, <1>2, <1>4, <1>8, <2>1, <2>2
        <4>3. Len(frames') + Len(requests') + Len(pending') + OwnCount'
                + Cardinality(down') + Cardinality(kept') = total'
          BY <2>1, <4>1, <4>2
        <4>4. pool' + Len(requests') + Len(pending') + OwnCount'
                + Cardinality(down') + lost' = total'
          BY <2>1, <4>1, <4>2
        <4>5. lost' <= keeps'
          BY <2>1, <4>1, <4>2
        <4> QED
          BY <4>3, <4>4, <4>5
      <3> QED
        BY <1>4, <2>2, <3>1, <3>2 DEF Counted
    <2>3. CASE ~pooled
      BY <1>1, <1>2, <1>4, <2>3 DEF Counted
    <2> QED
      BY <2>2, <2>3
  <1> QED
    BY <1>5, <1>6, <1>9, <1>10 DEF GstInv

(* Downstream gives a buffer back and keeps its memory.                    *)
LEMMA GstKeeps ==
  ASSUME GstInv, NEW f \in Frames, ReleaseDown(f, TRUE)
  PROVE  GstInv'
  <1>1. /\ f \in down /\ down' = down \ {f} /\ kept' = kept \cup {f} /\ keeps' = keeps + 1
        /\ Back(<<>>, 1)
        /\ UNCHANGED <<requests, pending, thread, olock, own, lost, old, strays, cqueue>>
    BY DEF ReleaseDown
  <1>2. GstTypes /\ Locking /\ Wraps /\ OnePlace /\ Counted /\ Drained /\ KeptFew
    BY DEF GstInv
  <1>3. /\ frames' = frames /\ pool' = (IF pooled THEN pool + 1 ELSE pool)
        /\ UNCHANGED <<pooled, total>>
    <2>1. frames \o <<>> = frames
      BY <1>2 DEF GstTypes
    <2> QED
      BY <1>1, <2>1 DEF Back, GiveBack
  <1>4. calloc' = calloc
    BY <1>1 DEF Back, DropAllocator, Held
  <1>5. /\ Cardinality(down') = Cardinality(down) - 1
        /\ Cardinality(kept') = Cardinality(kept) + 1
        /\ Cardinality(down) \in Nat /\ Cardinality(kept) \in Nat
    <2>1. down \subseteq Frames /\ kept \subseteq Frames /\ f \in Frames \ kept
      BY <1>1, <1>2 DEF GstTypes, OnePlace
    <2> QED
      BY <1>1, <2>1, FramesFinite
  <1>6. GstTypes' /\ Locking' /\ Wraps' /\ KeptFew'
    BY <1>1, <1>2, <1>3, <1>5 DEF GstTypes, Locking, Wraps, Unpushed, KeptFew
  <1>7. Drained'
    BY <1>1, <1>2, <1>4 DEF Drained
  <1>8. /\ ToSet(requests') = ToSet(requests) /\ ToSet(pending') = ToSet(pending)
        /\ OwnFrame' = OwnFrame /\ OwnCount' = OwnCount
        /\ ToSet(frames') = ToSet(frames)
    BY <1>1, <1>3 DEF OwnFrame, OwnCount
  <1>9. OnePlace'
    <2>1. IsInjective(requests') /\ IsInjective(pending') /\ IsInjective(frames')
      BY <1>1, <1>2, <1>3 DEF OnePlace
    <2> HIDE DEF OwnFrame
    <2> QED
      BY <1>1, <1>2, <1>8, <2>1 DEF OnePlace
  <1>10. Counted'
    <2>1. /\ total \in Nat /\ keeps \in Nat
          /\ Len(frames) \in Nat /\ Len(requests) \in Nat /\ Len(pending) \in Nat
          /\ OwnCount \in Nat /\ pool \in Nat /\ lost \in Nat
      BY <1>2, GstAssumption DEF GstTypes, OwnCount
    <2> HIDE DEF OwnFrame, OwnCount
    <2>2. CASE pooled
      <3>1. ToSet(frames') \cup ToSet(requests') \cup ToSet(pending') \cup OwnFrame'
              \cup down' \cup kept' = 1 .. total'
        BY <1>1, <1>2, <1>3, <1>8, <2>2 DEF Counted
      <3>2. /\ Len(frames') + Len(requests') + Len(pending') + OwnCount'
                + Cardinality(down') + Cardinality(kept') = total'
            /\ pool' + Len(requests') + Len(pending') + OwnCount'
                + Cardinality(down') + lost' = total'
            /\ lost' <= keeps'
        <4>1. /\ Len(frames) + Len(requests) + Len(pending) + OwnCount
                  + Cardinality(down) + Cardinality(kept) = total
              /\ pool + Len(requests) + Len(pending) + OwnCount
                  + Cardinality(down) + lost = total
              /\ lost <= keeps
          BY <1>2, <2>2 DEF Counted
        <4>2. /\ Len(frames') = Len(frames) /\ pool' = pool + 1
              /\ Len(requests') = Len(requests) /\ Len(pending') = Len(pending)
              /\ OwnCount' = OwnCount /\ total' = total
              /\ Cardinality(down') = Cardinality(down) - 1
              /\ Cardinality(kept') = Cardinality(kept) + 1
              /\ lost' = lost /\ keeps' = keeps + 1
          BY <1>1, <1>2, <1>3, <1>5, <1>8, <2>1, <2>2
        <4>3. Len(frames') + Len(requests') + Len(pending') + OwnCount'
                + Cardinality(down') + Cardinality(kept') = total'
          BY <2>1, <1>5, <4>1, <4>2
        <4>4. pool' + Len(requests') + Len(pending') + OwnCount'
                + Cardinality(down') + lost' = total'
          BY <2>1, <1>5, <4>1, <4>2
        <4>5. lost' <= keeps'
          BY <2>1, <4>1, <4>2
        <4> QED
          BY <4>3, <4>4, <4>5
      <3> QED
        BY <1>3, <2>2, <3>1, <3>2 DEF Counted
    <2>3. CASE ~pooled
      BY <1>1, <1>2, <1>3, <2>3 DEF Counted
    <2> QED
      BY <2>2, <2>3
  <1> QED
    BY <1>6, <1>7, <1>9, <1>10 DEF GstInv

(* Downstream gives up the memory it kept.                                 *)
LEMMA GstReleasesMemory ==
  ASSUME GstInv, NEW f \in Frames, ReleaseMemory(f)
  PROVE  GstInv'
  <1>1. /\ f \in kept /\ kept' = kept \ {f} /\ Back(<<f>>, 0)
        /\ UNCHANGED <<keeps, down, requests, pending, thread, olock, own, lost,
                       old, strays, cqueue>>
    BY DEF ReleaseMemory
  <1>2. GstTypes /\ Locking /\ Wraps /\ OnePlace /\ Counted /\ Drained /\ KeptFew
    BY DEF GstInv
  <1>3. f \notin ToSet(frames) /\ requests' \in Seq(Frames) /\ pending' \in Seq(Frames)
    BY <1>1, <1>2 DEF OnePlace, GstTypes
  <1>4. /\ frames' \in Seq(Frames) /\ IsInjective(frames') /\ pool' \in Nat
        /\ UNCHANGED <<pooled, total>>
        /\ pooled => /\ ToSet(frames') = ToSet(frames) \cup {f}
                     /\ Len(frames') = Len(frames) + 1 /\ pool' = pool + 0
        /\ ~pooled => frames' = <<>> /\ pool' = 0
        /\ calloc' = calloc \/ Drained'
    BY <1>1, <1>3, GivenBack
  <1>5. /\ Cardinality(kept') = Cardinality(kept) - 1
        /\ Cardinality(down) \in Nat /\ Cardinality(kept) \in Nat
    <2>1. down \subseteq Frames /\ kept \subseteq Frames
      BY <1>2 DEF GstTypes
    <2> QED
      BY <1>1, <2>1, FramesFinite
  <1>6. GstTypes' /\ Locking' /\ Wraps' /\ KeptFew'
    BY <1>1, <1>2, <1>4, <1>5 DEF GstTypes, Locking, Wraps, Unpushed, KeptFew
  <1>7. Drained'
    BY <1>1, <1>2, <1>4 DEF Drained
  <1>8. /\ ToSet(requests') = ToSet(requests) /\ ToSet(pending') = ToSet(pending)
        /\ OwnFrame' = OwnFrame /\ OwnCount' = OwnCount /\ ToSet(<<>>) = {}
    BY <1>1 DEF OwnFrame, OwnCount, ToSet
  <1>9. OnePlace'
    <2>1. ToSet(frames') \subseteq ToSet(frames) \cup {f}
      BY <1>4, <1>8
    <2>2. IsInjective(requests') /\ IsInjective(pending')
      BY <1>1, <1>2 DEF OnePlace
    <2> HIDE DEF OwnFrame
    <2> QED
      BY <1>1, <1>2, <1>4, <1>8, <2>1, <2>2 DEF OnePlace
  <1>10. Counted'
    <2>1. /\ total \in Nat /\ Len(frames) \in Nat /\ Len(requests) \in Nat
          /\ Len(pending) \in Nat /\ OwnCount \in Nat /\ pool \in Nat /\ lost \in Nat
      BY <1>2, GstAssumption DEF GstTypes, OwnCount
    <2> HIDE DEF OwnFrame, OwnCount
    <2>2. CASE pooled
      <3>1. ToSet(frames') \cup ToSet(requests') \cup ToSet(pending') \cup OwnFrame'
              \cup down' \cup kept' = 1 .. total'
        BY <1>1, <1>2, <1>4, <1>8, <2>2 DEF Counted
      <3>2. /\ Len(frames') + Len(requests') + Len(pending') + OwnCount'
                + Cardinality(down') + Cardinality(kept') = total'
            /\ pool' + Len(requests') + Len(pending') + OwnCount'
                + Cardinality(down') + lost' = total'
            /\ lost' <= keeps'
        <4>1. /\ Len(frames) + Len(requests) + Len(pending) + OwnCount
                  + Cardinality(down) + Cardinality(kept) = total
              /\ pool + Len(requests) + Len(pending) + OwnCount
                  + Cardinality(down) + lost = total
              /\ lost <= keeps
          BY <1>2, <2>2 DEF Counted
        <4>2. /\ Len(frames') = Len(frames) + 1 /\ pool' = pool
              /\ Len(requests') = Len(requests) /\ Len(pending') = Len(pending)
              /\ OwnCount' = OwnCount /\ total' = total
              /\ Cardinality(down') = Cardinality(down)
              /\ Cardinality(kept') = Cardinality(kept) - 1
              /\ lost' = lost /\ keeps' = keeps
          BY <1>1, <1>2, <1>4, <1>5, <1>8, <2>1, <2>2
        <4>3. Len(frames') + Len(requests') + Len(pending') + OwnCount'
                + Cardinality(down') + Cardinality(kept') = total'
          BY <2>1, <1>5, <4>1, <4>2
        <4>4. pool' + Len(requests') + Len(pending') + OwnCount'
                + Cardinality(down') + lost' = total'
          BY <2>1, <1>5, <4>1, <4>2
        <4>5. lost' <= keeps'
          BY <2>1, <4>1, <4>2
        <4> QED
          BY <4>3, <4>4, <4>5
      <3> QED
        BY <1>4, <2>2, <3>1, <3>2 DEF Counted
    <2>3. CASE ~pooled
      BY <1>1, <1>2, <1>4, <2>3 DEF Counted
    <2> QED
      BY <2>2, <2>3
  <1> QED
    BY <1>6, <1>7, <1>9, <1>10 DEF GstInv

(* The task sets up the allocator and the pool.  The one before is gone,   *)
(* and everything that was in it.                                          *)
LEMMA GstSetsUp ==
  ASSUME GstInv, NEW n \in {0, NumFrames}, EnterSetsUp(n)
  PROVE  GstInv'
  <1>1. /\ thread = "enter" /\ thread' = "start" /\ calloc \in {"none", "new"}
        /\ calloc' \notin {"none", "new"} /\ pooled' = TRUE /\ total' = n
        /\ frames' = [i \in 1 .. n |-> i] /\ pool' = n
        /\ UNCHANGED <<olock, own, requests, pending, down, kept, keeps, lost,
                       old, strays, cqueue>>
    BY DEF EnterSetsUp, MayConfigure
  <1>2. GstTypes /\ Locking /\ Wraps /\ OnePlace /\ Counted /\ Drained /\ KeptFew
    BY DEF GstInv
  <1>3. /\ ~pooled /\ requests = <<>> /\ pending = <<>> /\ down = {} /\ kept = {}
        /\ own = 0 /\ lost = 0
    BY <1>1, <1>2 DEF Drained, Locking, Counted
  <1>4. n \in Nat /\ 1 .. n \subseteq Frames
    BY GstAssumption DEF Frames
  <1>5. /\ frames' \in Seq(Frames) /\ Len(frames') = n /\ ToSet(frames') = 1 .. n
        /\ IsInjective(frames')
    <2>1. frames' \in [1 .. n -> Frames]
      BY <1>1, <1>4
    <2>2. frames' \in Seq(Frames) /\ Len(frames') = n
      BY <1>4, <2>1
    <2> QED
      BY <1>1, <2>2 DEF ToSet, IsInjective
  <1>6. GstTypes' /\ Locking' /\ Wraps' /\ KeptFew' /\ Drained'
    BY <1>1, <1>2, <1>3, <1>4, <1>5 DEF GstTypes, Locking, Wraps, Unpushed, KeptFew, Drained
  <1>7. ToSet(<<>>) = {} /\ IsInjective(<<>>) /\ Len(<<>>) = 0
    BY DEF ToSet, IsInjective
  <1>8. /\ requests' = <<>> /\ pending' = <<>> /\ OwnFrame' = {} /\ OwnCount' = 0
        /\ down' = {} /\ kept' = {}
    BY <1>1, <1>3 DEF OwnFrame, OwnCount
  <1>9. OnePlace'
    <2> HIDE DEF OwnFrame
    <2> QED
      BY <1>5, <1>7, <1>8 DEF OnePlace
  <1>10. Counted'
    <2>1. Cardinality({}) = 0
      BY FS_EmptySet
    <2> HIDE DEF OwnFrame, OwnCount
    <2>2. ToSet(frames') \cup ToSet(requests') \cup ToSet(pending') \cup OwnFrame'
            \cup down' \cup kept' = 1 .. total'
      BY <1>1, <1>5, <1>7, <1>8
    <2>3. /\ Len(requests') = 0 /\ Len(pending') = 0 /\ Cardinality(down') = 0
          /\ Cardinality(kept') = 0
      BY <1>7, <1>8, <2>1
    <2>4. /\ Len(frames') + Len(requests') + Len(pending') + OwnCount'
              + Cardinality(down') + Cardinality(kept') = total'
          /\ pool' + Len(requests') + Len(pending') + OwnCount'
              + Cardinality(down') + lost' = total'
          /\ lost' <= keeps'
      BY <1>1, <1>2, <1>3, <1>4, <1>5, <1>8, <2>3 DEF GstTypes
    <2> QED
      BY <1>1, <2>2, <2>4 DEF Counted
  <1> QED
    BY <1>6, <1>9, <1>10 DEF GstInv

(* The task takes a GstBuffer and a frame for it.  Where there is no frame *)
(* the GstBuffer is lost, which the number of frames that are kept bounds. *)
LEMMA GstAcquires ==
  ASSUME GstInv, TaskAcquire
  PROVE  GstInv'
  <1> DEFINE got == pool > 0 /\ frames # <<>>
  <1>1. /\ thread = "acquire" /\ own' = (IF got THEN Head(frames) ELSE 0)
        /\ frames' = (IF got THEN Tail(frames) ELSE frames)
        /\ pool' = (IF pool > 0 THEN pool - 1 ELSE pool)
        /\ lost' = (IF pool > 0 /\ ~got THEN lost + 1 ELSE lost)
        /\ thread' = (IF got THEN "queue" ELSE "push")
        /\ UNCHANGED <<olock, pooled, total, requests, pending, down, kept, keeps,
                       old, strays, cqueue, calloc>>
    BY DEF TaskAcquire, cameraVars
  <1>2. GstTypes /\ Locking /\ Wraps /\ OnePlace /\ Counted /\ Drained /\ KeptFew
    BY DEF GstInv
  <1>3. own = 0 /\ OwnFrame = {} /\ OwnCount = 0
    BY <1>1, <1>2 DEF Locking, OwnFrame, OwnCount
  <1>4. /\ Cardinality(down) \in Nat /\ Cardinality(kept) \in Nat /\ total \in Nat
        /\ Len(frames) \in Nat /\ Len(requests) \in Nat /\ Len(pending) \in Nat
        /\ pool \in Nat /\ lost \in Nat /\ keeps \in Nat /\ frames \in Seq(Frames)
        /\ (pool > 0 => pooled)
    BY <1>2, FramesFinite, GstAssumption DEF GstTypes, Counted
  <1>5. Drained' /\ KeptFew' /\ Wraps'
    BY <1>1, <1>2 DEF Drained, KeptFew, Wraps, Unpushed
  <1>6. CASE got
    <2> DEFINE h == Head(frames)
               t == Tail(frames)
    <2>1. frames # <<>> /\ pooled /\ pool # 0 /\ pool > 0
      BY <1>4, <1>6
    <2>2. /\ own' = h /\ frames' = t /\ pool' = pool - 1 /\ lost' = lost /\ thread' = "queue"
      BY <1>1, <1>6
    <2>3. IsInjective(frames)
      BY <1>2 DEF OnePlace
    <2>4. /\ h \in Frames /\ t \in Seq(Frames) /\ ToSet(frames) = {h} \cup ToSet(t)
          /\ IsInjective(t) /\ h \notin ToSet(t)
      BY <1>4, <2>1, <2>3, PopFront
    <2>5. Len(t) = Len(frames) - 1
      BY <1>4, <2>1
    <2> HIDE DEF h, t, got
    <2>6. h # 0
      BY <2>4, GstAssumption DEF Frames
    <2>7. OwnFrame' = {h} /\ OwnCount' = 1
      BY <2>2, <2>6 DEF OwnFrame, OwnCount
    <2>8. GstTypes' /\ Locking'
      BY <1>1, <1>2, <1>4, <2>1, <2>2, <2>4, <2>6 DEF GstTypes, Locking
    <2> HIDE DEF OwnFrame, OwnCount
    <2>9. OnePlace'
      <3>1. /\ IsInjective(requests') /\ IsInjective(pending') /\ IsInjective(frames')
            /\ ToSet(requests') = ToSet(requests) /\ ToSet(pending') = ToSet(pending)
            /\ ToSet(frames') = ToSet(t)
        BY <1>1, <1>2, <2>2, <2>4 DEF OnePlace
      <3> QED
        BY <1>1, <1>2, <1>3, <2>2, <2>4, <2>7, <3>1 DEF OnePlace
    <2>10. Counted'
      <3>1. ToSet(frames') \cup ToSet(requests') \cup ToSet(pending') \cup OwnFrame'
              \cup down' \cup kept' = 1 .. total'
        BY <1>1, <1>2, <1>3, <2>1, <2>2, <2>4, <2>7 DEF Counted
      <3>2. Len(frames') + Len(requests') + Len(pending') + OwnCount'
                + Cardinality(down') + Cardinality(kept') = total'
        BY <1>1, <1>2, <1>3, <1>4, <2>1, <2>2, <2>5, <2>7 DEF Counted
      <3>3. pool' + Len(requests') + Len(pending') + OwnCount'
                + Cardinality(down') + lost' = total'
        BY <1>1, <1>2, <1>3, <1>4, <2>1, <2>2, <2>7 DEF Counted
      <3>4. lost' <= keeps'
        BY <1>1, <1>2, <2>1, <2>2 DEF Counted
      <3> QED
        BY <1>1, <2>1, <3>1, <3>2, <3>3, <3>4 DEF Counted
    <2> QED
      BY <1>5, <2>8, <2>9, <2>10 DEF GstInv
  <1>7. CASE ~got
    <2>1. /\ own' = own /\ frames' = frames /\ thread' = "push"
          /\ OwnFrame' = {} /\ OwnCount' = 0
      BY <1>1, <1>3, <1>7 DEF OwnFrame, OwnCount
    <2> HIDE DEF got
    <2>2. Locking'
      BY <1>1, <1>2, <1>3, <2>1 DEF Locking
    <2> HIDE DEF OwnFrame, OwnCount
    <2>3. OnePlace'
      BY <1>1, <1>2, <1>3, <2>1 DEF OnePlace
    <2>4. CASE pool > 0
      <3>1. pool' = pool - 1 /\ lost' = lost + 1 /\ pooled /\ frames = <<>> /\ Len(frames) = 0
        BY <1>1, <1>4, <1>7, <2>4 DEF got
      <3>2. GstTypes'
        BY <1>1, <1>2, <1>4, <2>1, <2>4, <3>1 DEF GstTypes
      <3>3. ToSet(frames') \cup ToSet(requests') \cup ToSet(pending') \cup OwnFrame'
              \cup down' \cup kept' = 1 .. total'
        BY <1>1, <1>2, <1>3, <2>1, <3>1 DEF Counted
      <3>4. /\ Len(frames') + Len(requests') + Len(pending') + OwnCount'
                + Cardinality(down') + Cardinality(kept') = total'
            /\ pool' + Len(requests') + Len(pending') + OwnCount'
                + Cardinality(down') + lost' = total'
        BY <1>1, <1>2, <1>3, <1>4, <2>1, <3>1 DEF Counted
      <3>5. lost + 1 <= Cardinality(kept)
        BY <1>2, <1>3, <1>4, <2>4, <3>1 DEF Counted
      <3>6. lost' <= keeps'
        BY <1>1, <1>2, <1>4, <3>1, <3>5 DEF KeptFew
      <3> QED
        BY <1>1, <1>5, <2>2, <2>3, <3>1, <3>2, <3>3, <3>4, <3>6 DEF GstInv, Counted
    <2>5. CASE ~(pool > 0)
      <3>1. pool' = pool /\ lost' = lost
        BY <1>1, <1>7, <2>5 DEF got
      <3>2. GstTypes' /\ Counted'
        BY <1>1, <1>2, <1>3, <2>1, <3>1 DEF GstTypes, Counted
      <3> QED
        BY <1>5, <2>2, <2>3, <3>2 DEF GstInv
    <2> QED
      BY <2>4, <2>5
  <1> QED
    BY <1>6, <1>7

(* The task queues the request, under the object lock.                     *)
LEMMA GstQueues ==
  ASSUME GstInv, TaskQueueRequest
  PROVE  GstInv'
  <1>1. /\ thread = "queue" /\ thread' = "wrap" /\ olock' = "task"
        /\ UNCHANGED <<pool, frames, pooled, total, own, requests, pending, down, kept,
                       keeps, lost, old, calloc>>
    BY DEF TaskQueueRequest
  <1>2. \/ cqueue' = Append(cqueue, own) /\ strays' = strays
        \/ cqueue' = cqueue /\ strays' = strays + 1
    BY DEF TaskQueueRequest, QueueRequest, Enqueue
  <1>3. GstTypes /\ Locking /\ Wraps /\ OnePlace /\ Counted /\ Drained /\ KeptFew
    BY DEF GstInv
  <1>4. /\ own # 0 /\ own \in Frames /\ cqueue \in Seq(Frames) /\ strays \in Nat
        /\ old.wraps \in Nat /\ Len(requests) \in Nat
    BY <1>1, <1>3 DEF Locking, GstTypes
  <1>5. GstTypes'
    <2>1. cqueue' \in Seq(Frames) /\ strays' \in Nat
      BY <1>2, <1>4
    <2> QED
      BY <1>1, <1>3, <2>1 DEF GstTypes
  <1>6. Locking'
    BY <1>1, <1>3 DEF Locking
  <1>7. Wraps'
    <2>1. /\ old.wraps + Len(requests) = Len(cqueue) + strays
          /\ strays = 0 => cqueue = requests
      BY <1>1, <1>3, <1>4 DEF Wraps, Unpushed
    <2>2. CASE cqueue' = Append(cqueue, own) /\ strays' = strays
      <3>1. Len(cqueue') = Len(cqueue) + 1 /\ Len(cqueue) \in Nat
        BY <1>4, <2>2
      <3>2. old'.wraps + Len(requests') + 1 = Len(cqueue') + strays'
        BY <1>1, <1>4, <2>1, <2>2, <3>1
      <3>3. strays' = 0 => cqueue' = Append(requests', own')
        BY <1>1, <2>1, <2>2
      <3> QED
        BY <1>1, <3>2, <3>3 DEF Wraps, Unpushed
    <2>3. CASE cqueue' = cqueue /\ strays' = strays + 1
      <3>1. Len(cqueue) \in Nat
        BY <1>4
      <3>2. old'.wraps + Len(requests') + 1 = Len(cqueue') + strays' /\ strays' # 0
        BY <1>1, <1>4, <2>1, <2>3, <3>1
      <3> QED
        BY <1>1, <3>2 DEF Wraps, Unpushed
    <2> QED
      BY <1>2, <2>2, <2>3
  <1>8. OnePlace' /\ Counted' /\ Drained' /\ KeptFew'
    BY <1>1, <1>3 DEF OnePlace, Counted, OwnFrame, OwnCount, Drained, KeptFew
  <1> QED
    BY <1>5, <1>6, <1>7, <1>8 DEF GstInv

(* The task pushes the wrap and releases the object lock.                  *)
LEMMA GstPushesWrap ==
  ASSUME GstInv, TaskPushWrap
  PROVE  GstInv'
  <1> DEFINE r == Append(requests, own)
  <1>1. /\ thread = "wrap" /\ thread' = "push" /\ olock' = "free"
        /\ requests' = r /\ own' = 0
        /\ UNCHANGED <<pool, frames, pooled, total, pending, down, kept, keeps, lost,
                       old, strays, cqueue, calloc>>
    BY DEF TaskPushWrap, cameraVars
  <1>2. GstTypes /\ Locking /\ Wraps /\ OnePlace /\ Counted /\ Drained /\ KeptFew
    BY DEF GstInv
  <1>3. own # 0 /\ own \in Frames /\ pooled /\ requests \in Seq(Frames)
    BY <1>1, <1>2 DEF Locking, GstTypes
  <1>4. OwnFrame = {own} /\ OwnCount = 1 /\ OwnFrame' = {} /\ OwnCount' = 0
    BY <1>1, <1>3 DEF OwnFrame, OwnCount
  <1>5. r \in Seq(Frames) /\ Len(r) = Len(requests) + 1
    BY <1>3
  <1>6. IsInjective(requests) /\ own \notin ToSet(requests)
    BY <1>2, <1>4 DEF OnePlace
  <1>7. ToSet(r) = ToSet(requests) \cup {own} /\ IsInjective(r)
    BY <1>3, <1>6, AppendInjectiveNew
  <1>8. Wraps'
    <2>1. old.wraps + Len(requests) + 1 = Len(cqueue) + strays /\ (strays = 0 => cqueue = r)
      BY <1>1, <1>2 DEF Wraps, Unpushed
    <2>2. old.wraps \in Nat /\ Len(requests) \in Nat
      BY <1>2 DEF GstTypes
    <2> QED
      BY <1>1, <1>5, <2>1, <2>2 DEF Wraps, Unpushed
  <1> HIDE DEF r
  <1>9. GstTypes' /\ Locking' /\ KeptFew'
    BY <1>1, <1>2, <1>3, <1>5 DEF GstTypes, Locking, KeptFew
  <1>10. Drained'
    BY <1>1, <1>2, <1>3 DEF Drained
  <1> HIDE DEF OwnFrame, OwnCount
  <1>11. OnePlace'
    <2>1. /\ IsInjective(requests') /\ IsInjective(pending') /\ IsInjective(frames')
          /\ ToSet(requests') = ToSet(r) /\ ToSet(pending') = ToSet(pending)
          /\ ToSet(frames') = ToSet(frames)
      BY <1>1, <1>2, <1>7 DEF OnePlace
    <2> QED
      BY <1>1, <1>2, <1>4, <1>7, <2>1 DEF OnePlace
  <1>12. Counted'
    <2>1. /\ Cardinality(down) \in Nat /\ Cardinality(kept) \in Nat /\ total \in Nat
          /\ Len(frames) \in Nat /\ Len(requests) \in Nat /\ Len(pending) \in Nat
          /\ pool \in Nat /\ lost \in Nat
      BY <1>2, FramesFinite, GstAssumption DEF GstTypes
    <2>2. ToSet(frames') \cup ToSet(requests') \cup ToSet(pending') \cup OwnFrame'
            \cup down' \cup kept' = 1 .. total'
      BY <1>1, <1>2, <1>3, <1>4, <1>7 DEF Counted
    <2>3. /\ Len(frames') + Len(requests') + Len(pending') + OwnCount'
              + Cardinality(down') + Cardinality(kept') = total'
          /\ pool' + Len(requests') + Len(pending') + OwnCount'
              + Cardinality(down') + lost' = total'
          /\ lost' <= keeps'
      BY <1>1, <1>2, <1>3, <1>4, <1>5, <2>1 DEF Counted
    <2> QED
      BY <1>1, <1>3, <2>2, <2>3 DEF Counted
  <1> QED
    BY <1>8, <1>9, <1>10, <1>11, <1>12 DEF GstInv

(* The task pushes a completed buffer: downstream takes it, or it goes     *)
(* back to the pool.                                                       *)
LEMMA GstPushes ==
  ASSUME GstInv, TaskPush
  PROVE  GstInv'
  <1>1. /\ thread = "push" /\ thread' = "decide"
        /\ pending' = (IF pending = <<>> THEN <<>> ELSE Tail(pending))
        /\ UNCHANGED <<requests, kept, olock, own, keeps, lost, old, strays, cqueue>>
    BY DEF TaskPush
  <1>2. GstTypes /\ Locking /\ Wraps /\ OnePlace /\ Counted /\ Drained /\ KeptFew
    BY DEF GstInv
  <1>3. /\ Cardinality(down) \in Nat /\ Cardinality(kept) \in Nat /\ total \in Nat
        /\ Len(frames) \in Nat /\ Len(requests) \in Nat /\ Len(pending) \in Nat
        /\ OwnCount \in Nat /\ pool \in Nat /\ lost \in Nat
        /\ pending \in Seq(Frames) /\ requests \in Seq(Frames) /\ frames \in Seq(Frames)
        /\ down \subseteq Frames
    BY <1>2, FramesFinite, GstAssumption DEF GstTypes, OwnCount
  <1>4. OwnFrame' = OwnFrame /\ OwnCount' = OwnCount
    BY <1>1 DEF OwnFrame, OwnCount
  <1>5. Wraps' /\ KeptFew'
    BY <1>1, <1>2 DEF Wraps, Unpushed, KeptFew
  <1>6. ASSUME pooled' = pooled
        PROVE  Locking'
    BY <1>1, <1>2, <1>6 DEF Locking
  <1>7. CASE pending = <<>>
    <2>1. UNCHANGED <<down, frames, pool, pooled, total, calloc>> /\ pending' = pending
      BY <1>1, <1>7 DEF TaskPush
    <2>2. GstTypes' /\ Drained'
      BY <1>1, <1>2, <2>1 DEF GstTypes, Drained
    <2> HIDE DEF OwnFrame, OwnCount
    <2>3. OnePlace' /\ Counted'
      BY <1>1, <1>2, <1>4, <2>1 DEF OnePlace, Counted
    <2> QED
      BY <1>5, <1>6, <2>1, <2>2, <2>3 DEF GstInv
  <1>8. CASE pending # <<>>
    <2> DEFINE h == Head(pending)
               t == Tail(pending)
    <2>1. pending' = t
      BY <1>1, <1>8
    <2>2. IsInjective(pending)
      BY <1>2 DEF OnePlace
    <2>3. /\ h \in Frames /\ t \in Seq(Frames) /\ ToSet(pending) = {h} \cup ToSet(t)
          /\ IsInjective(t) /\ h \notin ToSet(t)
      BY <1>3, <1>8, <2>2, PopFront
    <2>4. Len(t) = Len(pending) - 1 /\ Len(t) \in Nat
      BY <1>3, <1>8, <2>3
    <2>5. \/ /\ down' = down \cup {h}
             /\ UNCHANGED <<frames, pool, pooled, total, calloc>>
          \/ down' = down /\ Back(<<h>>, 1)
      BY <1>8 DEF TaskPush
    <2> HIDE DEF h, t
    <2>6. /\ h \notin ToSet(frames) /\ h \notin ToSet(requests) /\ h \notin OwnFrame
          /\ h \notin down /\ h \notin kept
      BY <1>2, <2>3 DEF OnePlace
    <2> HIDE DEF OwnFrame, OwnCount
    <2>7. IsInjective(requests') /\ IsInjective(pending')
      BY <1>1, <1>2, <2>1, <2>3 DEF OnePlace
    <2>8. /\ ToSet(requests') = ToSet(requests) /\ ToSet(pending') = ToSet(t)
          /\ Len(requests') = Len(requests) /\ Len(pending') = Len(t)
      BY <1>1, <2>1
    <2>9. CASE down' = down \cup {h} /\ UNCHANGED <<frames, pool, pooled, total, calloc>>
      <3>1. Cardinality(down') = Cardinality(down) + 1
        BY <1>3, <2>3, <2>6, <2>9, FramesFinite
      <3>2. GstTypes'
        BY <1>1, <1>2, <2>1, <2>3, <2>9 DEF GstTypes
      <3>3. Drained'
        BY <1>1, <1>2, <1>8, <2>9 DEF Drained
      <3>4. OnePlace'
        <4>1. IsInjective(frames') /\ ToSet(frames') = ToSet(frames) /\ kept' = kept
          BY <1>1, <1>2, <2>9 DEF OnePlace
        <4> QED
          BY <1>2, <1>4, <2>3, <2>6, <2>7, <2>8, <2>9, <4>1 DEF OnePlace
      <3>5. CASE pooled
        <4>1. ToSet(frames') \cup ToSet(requests') \cup ToSet(pending') \cup OwnFrame'
                \cup down' \cup kept' = 1 .. total'
          BY <1>1, <1>2, <1>4, <2>3, <2>8, <2>9, <3>5 DEF Counted
        <4>2. /\ Len(frames') + Len(requests') + Len(pending') + OwnCount'
                  + Cardinality(down') + Cardinality(kept') = total'
              /\ pool' + Len(requests') + Len(pending') + OwnCount'
                  + Cardinality(down') + lost' = total'
              /\ lost' <= keeps'
          <5>1. /\ Len(frames) + Len(requests) + Len(pending) + OwnCount
                    + Cardinality(down) + Cardinality(kept) = total
                /\ pool + Len(requests) + Len(pending) + OwnCount
                    + Cardinality(down) + lost = total
                /\ lost <= keeps
            BY <1>2, <3>5 DEF Counted
          <5>2. UNCHANGED <<kept, keeps, lost>>
            BY <1>1
          <5>3. /\ Len(frames') = Len(frames) /\ pool' = pool
                /\ Cardinality(down') = Cardinality(down) + 1
                /\ Len(requests') = Len(requests) /\ Len(pending') = Len(pending) - 1
                /\ OwnCount' = OwnCount /\ total' = total
                /\ Cardinality(kept') = Cardinality(kept)
                /\ lost' = lost /\ keeps' = keeps
            BY <1>4, <2>4, <2>8, <2>9, <3>1, <5>2
          <5>4. /\ Cardinality(down) \in Nat /\ Cardinality(kept) \in Nat /\ total \in Nat
                /\ Len(frames) \in Nat /\ Len(requests) \in Nat /\ Len(pending) \in Nat
                /\ OwnCount \in Nat /\ pool \in Nat /\ lost \in Nat
            BY <1>3
          <5>5. Len(frames') + Len(requests') + Len(pending') + OwnCount'
                  + Cardinality(down') + Cardinality(kept') = total'
            BY <5>1, <5>3, <5>4
          <5>6. pool' + Len(requests') + Len(pending') + OwnCount'
                  + Cardinality(down') + lost' = total'
            BY <5>1, <5>3, <5>4
          <5> QED
            BY <5>1, <5>3, <5>5, <5>6
        <4>3. Counted'
          BY <2>9, <3>5, <4>1, <4>2 DEF Counted
        <4> QED
          BY <1>5, <1>6, <2>9, <3>2, <3>3, <3>4, <4>3 DEF GstInv
      <3>6. CASE ~pooled
        <4>1. Counted'
          BY <1>1, <1>2, <2>9, <3>6 DEF Counted
        <4> QED
          BY <1>5, <1>6, <2>9, <3>2, <3>3, <3>4, <4>1 DEF GstInv
      <3> QED
        BY <3>5, <3>6
    <2>10. CASE down' = down /\ Back(<<h>>, 1)
      <3>1. requests' \in Seq(Frames) /\ pending' \in Seq(Frames)
        BY <1>1, <1>3, <2>1, <2>3
      <3>2. /\ frames' \in Seq(Frames) /\ IsInjective(frames') /\ pool' \in Nat
            /\ UNCHANGED <<pooled, total>>
            /\ pooled => /\ ToSet(frames') = ToSet(frames) \cup {h}
                         /\ Len(frames') = Len(frames) + 1 /\ pool' = pool + 1
            /\ ~pooled => frames' = <<>> /\ pool' = 0
            /\ calloc' = calloc \/ Drained'
        BY <2>3, <2>6, <2>10, <3>1, GivenBack
      <3>3. GstTypes'
        BY <1>1, <1>2, <2>10, <3>1, <3>2 DEF GstTypes
      <3>4. Drained'
        BY <1>1, <1>2, <1>8, <2>10, <3>2 DEF Drained
      <3>5. OnePlace'
        <4>1. ToSet(<<>>) = {}
          BY DEF ToSet
        <4>2. ToSet(frames') \subseteq ToSet(frames) \cup {h} /\ kept' = kept
          BY <1>1, <3>2, <4>1
        <4> QED
          BY <1>2, <1>4, <2>3, <2>6, <2>7, <2>8, <2>10, <3>2, <4>2 DEF OnePlace
      <3>6. CASE pooled
        <4>1. ToSet(frames') \cup ToSet(requests') \cup ToSet(pending') \cup OwnFrame'
                \cup down' \cup kept' = 1 .. total'
          BY <1>1, <1>2, <1>4, <2>3, <2>8, <2>10, <3>2, <3>6 DEF Counted
        <4>2. /\ Len(frames') + Len(requests') + Len(pending') + OwnCount'
                  + Cardinality(down') + Cardinality(kept') = total'
              /\ pool' + Len(requests') + Len(pending') + OwnCount'
                  + Cardinality(down') + lost' = total'
              /\ lost' <= keeps'
          <5>1. /\ Len(frames) + Len(requests) + Len(pending) + OwnCount
                    + Cardinality(down) + Cardinality(kept) = total
                /\ pool + Len(requests) + Len(pending) + OwnCount
                    + Cardinality(down) + lost = total
                /\ lost <= keeps
            BY <1>2, <3>6 DEF Counted
          <5>2. UNCHANGED <<kept, keeps, lost>>
            BY <1>1
          <5>3. /\ Len(frames') = Len(frames) + 1 /\ pool' = pool + 1
                /\ Cardinality(down') = Cardinality(down)
                /\ Len(requests') = Len(requests) /\ Len(pending') = Len(pending) - 1
                /\ OwnCount' = OwnCount /\ total' = total
                /\ Cardinality(kept') = Cardinality(kept)
                /\ lost' = lost /\ keeps' = keeps
            BY <1>4, <2>4, <2>8, <2>10, <3>2, <3>6, <5>2
          <5>4. /\ Cardinality(down) \in Nat /\ Cardinality(kept) \in Nat /\ total \in Nat
                /\ Len(frames) \in Nat /\ Len(requests) \in Nat /\ Len(pending) \in Nat
                /\ OwnCount \in Nat /\ pool \in Nat /\ lost \in Nat
            BY <1>3
          <5> QED
            BY <5>1, <5>3, <5>4
        <4>3. Counted'
          BY <3>2, <3>6, <4>1, <4>2 DEF Counted
        <4> QED
          BY <1>5, <1>6, <3>2, <3>3, <3>4, <3>5, <4>3 DEF GstInv
      <3>7. CASE ~pooled
        <4>1. Counted'
          BY <1>1, <1>2, <3>2, <3>7 DEF Counted
        <4> QED
          BY <1>5, <1>6, <3>2, <3>3, <3>4, <3>5, <4>1 DEF GstInv
      <3> QED
        BY <3>6, <3>7
    <2> QED
      BY <2>5, <2>9, <2>10
  <1> QED
    BY <1>7, <1>8

(* A buffer of an earlier camera is pushed, or given back by downstream.   *)
LEMMA GstOld ==
  ASSUME GstInv, TaskPushOld \/ ReleaseOld
  PROVE  GstInv'
  <1>1. /\ UNCHANGED <<olock, pool, frames, pooled, total, own, requests, pending,
                       down, kept, keeps, lost, strays, cqueue, calloc>>
        /\ thread' = thread \/ (thread = "push" /\ thread' = "decide")
    BY DEF TaskPushOld, ReleaseOld, cameraVars
  <1>2. old \in [wraps : Nat, pending : Nat, down : Nat]
    BY DEF GstInv, GstTypes
  <1>3. /\ old' \in [wraps : Nat, pending : Nat, down : Nat]
        /\ old'.wraps = old.wraps
    <2>1. /\ old.wraps \in Nat /\ old.pending \in Nat /\ old.down \in Nat
          /\ old.down + 1 \in Nat
      BY <1>2
    <2>2. \/ /\ old.pending > 0
             /\ old' = [old EXCEPT !.pending = @ - 1, !.down = @ + 1]
          \/ old.pending > 0 /\ old' = [old EXCEPT !.pending = @ - 1]
          \/ old.down > 0 /\ old' = [old EXCEPT !.down = @ - 1]
      BY DEF TaskPushOld, ReleaseOld
    <2>3. CASE /\ old.pending > 0
               /\ old' = [old EXCEPT !.pending = @ - 1, !.down = @ + 1]
      <3>1. old.pending - 1 \in Nat
        BY <2>1, <2>3
      <3> QED
        BY <1>2, <2>1, <2>3, <3>1
    <2>4. CASE old.pending > 0 /\ old' = [old EXCEPT !.pending = @ - 1]
      <3>1. old.pending - 1 \in Nat
        BY <2>1, <2>4
      <3> QED
        BY <1>2, <2>1, <2>4, <3>1
    <2>5. CASE old.down > 0 /\ old' = [old EXCEPT !.down = @ - 1]
      <3>1. old.down - 1 \in Nat
        BY <2>1, <2>5
      <3> QED
        BY <1>2, <2>1, <2>5, <3>1
    <2> QED
      BY <2>2, <2>3, <2>4, <2>5
  <1>4. GstTypes' /\ Locking' /\ Drained' /\ KeptFew'
    BY <1>1, <1>3 DEF GstInv, GstTypes, Locking, Drained, KeptFew
  <1>5. Wraps'
    BY <1>1, <1>3 DEF GstInv, Wraps, Unpushed
  <1>6. OnePlace' /\ Counted'
    BY <1>1 DEF GstInv, OnePlace, Counted, OwnFrame, OwnCount
  <1> QED
    BY <1>4, <1>5, <1>6 DEF GstInv

(* What is left of a list from some place on.                              *)
LEMMA Rest ==
  ASSUME NEW S, NEW s \in Seq(S), NEW n \in Nat
  PROVE  /\ SubSeq(s, n + 1, Len(s)) \in Seq(S)
         /\ ToSet(SubSeq(s, n + 1, Len(s))) \subseteq ToSet(s)
         /\ IsInjective(s) => IsInjective(SubSeq(s, n + 1, Len(s)))
         /\ Len(s) <= n => SubSeq(s, n + 1, Len(s)) = <<>>
         /\ n <= Len(s) => Len(SubSeq(s, n + 1, Len(s))) = Len(s) - n
  <1> DEFINE r == SubSeq(s, n + 1, Len(s))
             m == Len(s)
  <1>1. m \in Nat /\ (\A j \in 1 .. m : s[j] \in S) /\ DOMAIN s = 1 .. m
    OBVIOUS
  <1>2. /\ r \in Seq(S) /\ Len(r) = (IF n < m THEN m - n ELSE 0)
        /\ \A j \in 1 .. Len(r) : r[j] = s[n + j]
    <2>1. \A j \in (n + 1) .. m : s[j] \in S
      BY <1>1
    <2>2. Len(r) = (IF n + 1 <= m THEN m - (n + 1) + 1 ELSE 0)
      BY <1>1, <2>1, SubSeqProperties
    <2>3. r \in Seq(S)
      BY <1>1, <2>1, SubSeqProperties
    <2>4. \A j \in 1 .. (m - (n + 1) + 1) : r[j] = s[(n + 1) + j - 1]
      BY <1>1, <2>1, SubSeqProperties
    <2> QED
      BY <1>1, <2>2, <2>3, <2>4
  <1> HIDE DEF r, m
  <1>3. Len(r) \in Nat /\ DOMAIN r = 1 .. Len(r)
    BY <1>2
  <1>4. \A j \in 1 .. Len(r) : n + j \in 1 .. m
    BY <1>1, <1>2, <1>3
  <1>5. ToSet(r) \subseteq ToSet(s)
    BY <1>1, <1>2, <1>3, <1>4 DEF ToSet
  <1>6. IsInjective(s) => IsInjective(r)
    BY <1>1, <1>2, <1>3, <1>4 DEF IsInjective
  <1>7. m <= n => r = <<>>
    BY <1>1, <1>2
  <1> QED
    BY <1>1, <1>2, <1>5, <1>6, <1>7 DEF r, m

(* The wraps that are left, of an earlier camera (a) and of this one (b),  *)
(* when n of those the camera has (c) are dropped.                         *)
LEMMA WrapsLeft ==
  ASSUME NEW a \in Nat, NEW b \in Nat, NEW c \in Nat, NEW d \in Nat,
         NEW n \in Nat, n <= c, a + b = c + d
  PROVE  Left(a, n) + (b - Left(n, a)) = d + c - n /\ Left(n, a) <= b
  BY DEF Left

(* Leaving stops the camera, which drops the wraps of its requests, and    *)
(* gives up the pool.                                                      *)
LEMMA GstLeaves ==
  ASSUME GstInv, NEW n \in 0 .. Len(cqueue), TaskLeave(n)
  PROVE  GstInv'
  <1> DEFINE k == Left(n, old.wraps)
             r == SubSeq(requests, k + 1, Len(requests))
  <1>1. /\ thread = "leave" /\ thread' = "none" /\ cqueue' = <<>> /\ requests' = r
        /\ pooled' = FALSE /\ total' = 0 /\ frames' = <<>> /\ pool' = 0 /\ lost' = 0
        /\ old' = [old EXCEPT !.wraps = Left(@, n)]
        /\ strays' = strays + Len(cqueue) - n
        /\ UNCHANGED <<pending, down, kept, olock, own, keeps>>
    BY DEF TaskLeave, Cancel
  <1>2. calloc' = calloc \/ (calloc' = "none" /\ Held(requests', pending, down, kept) = {})
    BY <1>1 DEF TaskLeave, DropAllocator
  <1>3. GstTypes /\ Locking /\ Wraps /\ OnePlace /\ Counted /\ Drained /\ KeptFew
    BY DEF GstInv
  <1>4. /\ requests \in Seq(Frames) /\ cqueue \in Seq(Frames) /\ pending \in Seq(Frames)
        /\ Len(cqueue) \in Nat /\ IsInjective(requests) /\ n \in Nat
        /\ old.wraps \in Nat /\ Len(requests) \in Nat /\ strays \in Nat
        /\ old \in [wraps : Nat, pending : Nat, down : Nat]
    BY <1>3 DEF GstTypes, OnePlace
  <1>a. k \in Nat
    BY <1>4 DEF Left
  <1> HIDE DEF k
  <1>5. /\ r \in Seq(Frames) /\ ToSet(r) \subseteq ToSet(requests) /\ IsInjective(r)
        /\ (Len(requests) <= k => r = <<>>)
        /\ (k <= Len(requests) => Len(r) = Len(requests) - k)
    BY <1>4, <1>a, Rest
  <1> HIDE DEF r
  <1>b. /\ old.wraps + Len(requests) = Len(cqueue) + strays
        /\ strays = 0 => cqueue = requests
    BY <1>1, <1>3, <1>4 DEF Wraps, Unpushed
  <1>c. /\ old' \in [wraps : Nat, pending : Nat, down : Nat]
        /\ old'.wraps = Left(old.wraps, n) /\ strays' \in Nat
    <2>1. Left(old.wraps, n) \in Nat
      BY <1>4 DEF Left
    <2> QED
      BY <1>1, <1>4, <2>1
  <1>6. own = 0
    BY <1>1, <1>3 DEF Locking
  <1>7. Wraps'
    <2>1. k <= Len(requests)
      BY <1>4, <1>b DEF k, Left
    <2>2. Len(r) = Len(requests) - k /\ Len(<<>>) = 0
      BY <1>5, <2>1
    <2>3. Left(old.wraps, n) + (Len(requests) - k) = strays + Len(cqueue) - n
      <3> DEFINE a == old.wraps
                 b == Len(requests)
                 c == Len(cqueue)
      <3>1. /\ a \in Nat /\ b \in Nat /\ c \in Nat /\ strays \in Nat /\ n \in Nat
            /\ n <= c /\ a + b = c + strays
        BY <1>4, <1>b
      <3> HIDE DEF a, b, c
      <3>2. Left(a, n) + (b - Left(n, a)) = strays + c - n
        BY <3>1, WrapsLeft
      <3> QED
        BY <3>2 DEF a, b, c, k
    <2>4. old'.wraps + Len(requests') = Len(cqueue') + strays'
      BY <1>1, <1>4, <1>c, <2>2, <2>3
    <2>5. ASSUME strays' = 0 PROVE r = <<>>
      <3>1. strays = 0 /\ n = Len(cqueue)
        BY <1>1, <1>4, <2>5
      <3>2. cqueue = requests /\ old.wraps = 0
        BY <1>4, <1>b, <3>1
      <3>3. k = Len(requests)
        BY <1>4, <3>1, <3>2 DEF k, Left
      <3> QED
        BY <1>4, <1>5, <3>3
    <2>6. old'.wraps \in Nat /\ Len(requests') \in Nat
      BY <1>1, <1>5, <1>c
    <2> QED
      BY <1>1, <2>4, <2>5, <2>6 DEF Wraps, Unpushed
  <1>8. Drained'
    <2>1. CASE calloc' = calloc
      <3>1. SUFFICES ASSUME calloc' \in {"none", "new"}
                     PROVE  r = <<>> /\ pending = <<>> /\ down = {} /\ kept = {}
        BY <1>1 DEF Drained
      <3>2. requests = <<>> /\ pending = <<>> /\ down = {} /\ kept = {}
        BY <1>3, <2>1, <3>1 DEF Drained
      <3>3. Len(requests) <= k
        BY <1>4, <1>a, <3>2
      <3> QED
        BY <1>5, <3>2, <3>3
    <2>2. CASE Held(requests', pending, down, kept) = {}
      <3>1. ToSet(r) = {} /\ ToSet(pending) = {} /\ down = {} /\ kept = {}
        BY <1>1, <2>2 DEF Held, Range, ToSet
      <3>2. DOMAIN r = {} /\ DOMAIN pending = {}
        BY <3>1 DEF ToSet
      <3>3. Len(r) = 0 /\ Len(pending) = 0
        BY <1>4, <1>5, <3>2
      <3>4. r = <<>> /\ pending = <<>>
        BY <1>4, <1>5, <3>3
      <3> QED
        BY <1>1, <3>1, <3>4 DEF Drained
    <2> QED
      BY <1>2, <2>1, <2>2
  <1>9. GstTypes'
    <2>1. <<>> \in Seq(Frames)
      OBVIOUS
    <2> QED
      BY <1>1, <1>3, <1>5, <1>c, <2>1 DEF GstTypes
  <1>10. Locking' /\ KeptFew' /\ Counted'
    BY <1>1, <1>3, <1>6 DEF Locking, KeptFew, Counted
  <1>11. OnePlace'
    <2>1. ToSet(<<>>) = {} /\ IsInjective(<<>>)
      BY DEF ToSet, IsInjective
    <2>2. OwnFrame' = OwnFrame
      BY <1>1 DEF OwnFrame
    <2>3. IsInjective(frames') /\ IsInjective(requests') /\ IsInjective(pending')
      BY <1>1, <1>3, <1>5, <2>1 DEF OnePlace
    <2>4. /\ ToSet(frames') = {} /\ ToSet(requests') \subseteq ToSet(requests)
          /\ ToSet(pending') = ToSet(pending) /\ down' = down /\ kept' = kept
      BY <1>1, <1>5, <2>1
    <2> HIDE DEF OwnFrame
    <2> QED
      BY <1>3, <2>2, <2>3, <2>4 DEF OnePlace
  <1> QED
    BY <1>7, <1>8, <1>9, <1>10, <1>11 DEF GstInv

(* A request completes.  Its buffer is pending if the wrap in front is     *)
(* that of the request, and goes back to the pool otherwise.               *)
LEMMA GstCompletes ==
  ASSUME GstInv, RequestCompleted, old.wraps = 0
  PROVE  GstInv'
  <1> DEFINE h == Head(requests)
             t == Tail(requests)
             p == Append(pending, h)
  <1>1. /\ cqueue # <<>> /\ olock = "free" /\ requests # <<>>
        /\ cqueue' = Tail(cqueue) /\ requests' = t
        /\ UNCHANGED <<thread, olock, own, down, kept, keeps, lost, old, strays>>
        /\ \/ pending' = p /\ UNCHANGED <<frames, pool, pooled, total, calloc>>
           \/ pending' = pending /\ Back(<<h>>, 1)
    BY DEF RequestCompleted
  <1>2. GstTypes /\ Locking /\ Wraps /\ OnePlace /\ Counted /\ Drained /\ KeptFew
    BY DEF GstInv
  <1>3. /\ requests \in Seq(Frames) /\ cqueue \in Seq(Frames) /\ pending \in Seq(Frames)
        /\ IsInjective(requests) /\ IsInjective(pending)
    BY <1>2 DEF GstTypes, OnePlace
  <1>4. /\ Cardinality(down) \in Nat /\ Cardinality(kept) \in Nat /\ total \in Nat
        /\ Len(frames) \in Nat /\ Len(requests) \in Nat /\ Len(pending) \in Nat
        /\ OwnCount \in Nat /\ pool \in Nat /\ lost \in Nat
    BY <1>2, FramesFinite, GstAssumption DEF GstTypes, OwnCount
  <1>5. /\ h \in Frames /\ t \in Seq(Frames) /\ ToSet(requests) = {h} \cup ToSet(t)
        /\ IsInjective(t) /\ h \notin ToSet(t)
    BY <1>1, <1>3, PopFront
  <1>6. Len(t) = Len(requests) - 1
    BY <1>1, <1>3
  <1>7. cqueue' \in Seq(Frames)
    BY <1>1, <1>3
  <1>8. Wraps'
    <2>1. Len(cqueue') = Len(cqueue) - 1 /\ Len(cqueue) \in Nat
      BY <1>1, <1>3
    <2>2. /\ old.wraps + Len(requests) = Len(cqueue) + strays
          /\ strays = 0 => cqueue = requests
      BY <1>1, <1>2, <1>4 DEF Wraps, Unpushed, Locking, GstTypes
    <2>3. thread' # "wrap" /\ strays \in Nat /\ old.wraps \in Nat
      BY <1>1, <1>2 DEF Locking, GstTypes
    <2>4. old'.wraps + Len(requests') = Len(cqueue') + strays'
      BY <1>1, <1>4, <1>6, <2>1, <2>2, <2>3
    <2>5. strays' = 0 => cqueue' = requests'
      BY <1>1, <2>2
    <2> HIDE DEF t, h, p
    <2>6. old'.wraps + Len(requests') + 0 = Len(cqueue') + strays'
      BY <1>1, <1>4, <1>6, <2>1, <2>3, <2>4
    <2> QED
      BY <2>3, <2>5, <2>6 DEF Wraps, Unpushed
  <1> HIDE DEF h, t, p
  <1>9. /\ h \notin ToSet(frames) /\ h \notin ToSet(pending) /\ h \notin OwnFrame
        /\ h \notin down /\ h \notin kept
    BY <1>2, <1>5 DEF OnePlace
  <1>10. KeptFew' /\ OwnFrame' = OwnFrame /\ OwnCount' = OwnCount
    BY <1>1, <1>2 DEF KeptFew, OwnFrame, OwnCount
  <1>11. calloc \notin {"none", "new"}
    BY <1>1, <1>2 DEF Drained
  <1> HIDE DEF OwnFrame, OwnCount
  <1>12. CASE pending' = p /\ UNCHANGED <<frames, pool, pooled, total, calloc>>
    <2>1. p \in Seq(Frames) /\ Len(p) = Len(pending) + 1
      BY <1>3, <1>5 DEF p
    <2>2. ToSet(p) = ToSet(pending) \cup {h} /\ IsInjective(p)
      BY <1>3, <1>5, <1>9, AppendInjectiveNew DEF p
    <2>3. GstTypes' /\ Drained' /\ Locking'
      BY <1>1, <1>2, <1>5, <1>7, <1>11, <1>12, <2>1 DEF GstTypes, Drained, Locking
    <2>4. OnePlace'
      <3>1. /\ IsInjective(frames') /\ IsInjective(requests') /\ IsInjective(pending')
            /\ ToSet(frames') = ToSet(frames) /\ ToSet(requests') = ToSet(t)
            /\ ToSet(pending') = ToSet(pending) \cup {h}
            /\ down' = down /\ kept' = kept
        BY <1>1, <1>2, <1>5, <1>12, <2>2 DEF OnePlace
      <3> QED
        BY <1>2, <1>5, <1>9, <1>10, <3>1 DEF OnePlace
    <2>5. Counted'
      <3>1. CASE pooled
        <4>1. ToSet(frames') \cup ToSet(requests') \cup ToSet(pending') \cup OwnFrame'
                \cup down' \cup kept' = 1 .. total'
          BY <1>1, <1>2, <1>5, <1>10, <1>12, <2>2, <3>1 DEF Counted
        <4>2. /\ Len(frames) + Len(requests) + Len(pending) + OwnCount
                  + Cardinality(down) + Cardinality(kept) = total
              /\ pool + Len(requests) + Len(pending) + OwnCount
                  + Cardinality(down) + lost = total
              /\ lost <= keeps
          BY <1>2, <3>1 DEF Counted
        <4>3. /\ Len(frames') = Len(frames) /\ pool' = pool
              /\ Len(requests') = Len(requests) - 1 /\ Len(pending') = Len(pending) + 1
              /\ OwnCount' = OwnCount /\ total' = total
              /\ Cardinality(down') = Cardinality(down)
              /\ Cardinality(kept') = Cardinality(kept)
              /\ lost' = lost /\ keeps' = keeps
          BY <1>1, <1>6, <1>10, <1>12, <2>1
        <4>4. Len(frames') + Len(requests') + Len(pending') + OwnCount'
                + Cardinality(down') + Cardinality(kept') = total'
          BY <1>4, <4>2, <4>3
        <4>5. pool' + Len(requests') + Len(pending') + OwnCount'
                + Cardinality(down') + lost' = total'
          BY <1>4, <4>2, <4>3
        <4> QED
          BY <1>12, <3>1, <4>1, <4>2, <4>3, <4>4, <4>5 DEF Counted
      <3>2. CASE ~pooled
        BY <1>1, <1>2, <1>12, <3>2 DEF Counted
      <3> QED
        BY <3>1, <3>2
    <2> QED
      BY <1>8, <1>10, <2>3, <2>4, <2>5 DEF GstInv
  <1>13. CASE pending' = pending /\ Back(<<h>>, 1)
    <2>1. requests' \in Seq(Frames) /\ pending' \in Seq(Frames)
      BY <1>1, <1>3, <1>5, <1>13
    <2>2. /\ frames' \in Seq(Frames) /\ IsInjective(frames') /\ pool' \in Nat
          /\ UNCHANGED <<pooled, total>>
          /\ pooled => /\ ToSet(frames') = ToSet(frames) \cup {h}
                       /\ Len(frames') = Len(frames) + 1 /\ pool' = pool + 1
          /\ ~pooled => frames' = <<>> /\ pool' = 0
          /\ calloc' = calloc \/ Drained'
      BY <1>5, <1>9, <1>13, <2>1, GivenBack
    <2>3. GstTypes'
      BY <1>1, <1>2, <1>7, <1>13, <2>1, <2>2 DEF GstTypes
    <2>4. Drained'
      BY <1>11, <2>2 DEF Drained
    <2>5. Locking'
      BY <1>1, <1>2, <2>2 DEF Locking
    <2>6. OnePlace'
      <3>1. ToSet(<<>>) = {}
        BY DEF ToSet
      <3>2. /\ IsInjective(frames') /\ IsInjective(requests') /\ IsInjective(pending')
            /\ ToSet(frames') \subseteq ToSet(frames) \cup {h}
            /\ ToSet(requests') = ToSet(t) /\ ToSet(pending') = ToSet(pending)
            /\ down' = down /\ kept' = kept
        BY <1>1, <1>3, <1>5, <1>13, <2>2, <3>1
      <3> QED
        BY <1>2, <1>5, <1>9, <1>10, <3>2 DEF OnePlace
    <2>7. Counted'
      <3>1. CASE pooled
        <4>1. ToSet(frames') \cup ToSet(requests') \cup ToSet(pending') \cup OwnFrame'
                \cup down' \cup kept' = 1 .. total'
          BY <1>1, <1>2, <1>5, <1>10, <1>13, <2>2, <3>1 DEF Counted
        <4>2. /\ Len(frames) + Len(requests) + Len(pending) + OwnCount
                  + Cardinality(down) + Cardinality(kept) = total
              /\ pool + Len(requests) + Len(pending) + OwnCount
                  + Cardinality(down) + lost = total
              /\ lost <= keeps
          BY <1>2, <3>1 DEF Counted
        <4>3. /\ Len(frames') = Len(frames) + 1 /\ pool' = pool + 1
              /\ Len(requests') = Len(requests) - 1 /\ Len(pending') = Len(pending)
              /\ OwnCount' = OwnCount /\ total' = total
              /\ Cardinality(down') = Cardinality(down)
              /\ Cardinality(kept') = Cardinality(kept)
              /\ lost' = lost /\ keeps' = keeps
          BY <1>1, <1>6, <1>10, <1>13, <2>2, <3>1
        <4>4. Len(frames') + Len(requests') + Len(pending') + OwnCount'
                + Cardinality(down') + Cardinality(kept') = total'
          BY <1>4, <4>2, <4>3
        <4>5. pool' + Len(requests') + Len(pending') + OwnCount'
                + Cardinality(down') + lost' = total'
          BY <1>4, <4>2, <4>3
        <4> QED
          BY <2>2, <3>1, <4>1, <4>2, <4>3, <4>4, <4>5 DEF Counted
      <3>2. CASE ~pooled
        BY <1>1, <1>2, <2>2, <3>2 DEF Counted
      <3> QED
        BY <3>1, <3>2
    <2> QED
      BY <1>8, <1>10, <2>3, <2>4, <2>5, <2>6, <2>7 DEF GstInv
  <1> QED
    BY <1>1, <1>12, <1>13

(* A request completes, and a wrap of an earlier camera is dropped.        *)
LEMMA GstCompletesOld ==
  ASSUME GstInv, RequestCompleted, old.wraps # 0
  PROVE  GstInv'
  <1>1. /\ cqueue # <<>> /\ olock = "free" /\ cqueue' = Tail(cqueue)
        /\ old' = [old EXCEPT !.wraps = @ - 1]
        /\ UNCHANGED <<thread, olock, pool, frames, pooled, total, own, requests,
                       pending, down, kept, keeps, lost, strays, calloc>>
    BY DEF RequestCompleted
  <1>2. /\ old \in [wraps : Nat, pending : Nat, down : Nat] /\ cqueue \in Seq(Frames)
        /\ Len(requests) \in Nat /\ strays \in Nat
    BY DEF GstInv, GstTypes
  <1>3. /\ old' \in [wraps : Nat, pending : Nat, down : Nat]
        /\ old'.wraps = old.wraps - 1
    BY <1>1, <1>2
  <1>4. /\ cqueue' \in Seq(Frames) /\ Len(cqueue') = Len(cqueue) - 1
        /\ Len(cqueue) \in Nat
    BY <1>1, <1>2
  <1>5. GstTypes' /\ Locking' /\ Drained' /\ KeptFew'
    BY <1>1, <1>3, <1>4 DEF GstInv, GstTypes, Locking, Drained, KeptFew
  <1>6. Wraps'
    <2>1. /\ thread # "wrap" /\ old.wraps + Len(requests) = Len(cqueue) + strays
          /\ strays = 0 => cqueue = requests
      BY <1>1, <1>2 DEF GstInv, Wraps, Unpushed, Locking
    <2>2. strays # 0 /\ old.wraps \in Nat
      BY <1>2, <1>4, <2>1
    <2>4. Len(requests') = Len(requests) /\ strays' = strays
      BY <1>1
    <2>3. old'.wraps + Len(requests') + 0 = Len(cqueue') + strays'
      BY <1>2, <1>3, <1>4, <2>1, <2>2, <2>4
    <2> QED
      BY <1>1, <2>1, <2>2, <2>3 DEF Wraps, Unpushed
  <1>7. OnePlace' /\ Counted'
    BY <1>1 DEF GstInv, OnePlace, Counted, OwnFrame, OwnCount
  <1> QED
    BY <1>5, <1>6, <1>7 DEF GstInv

(* Where the threads are.                                                  *)
LEMMA GstIdle ==
  ASSUME Idle, GstNext
  PROVE  Idle'
  <1> USE DEF Idle
  <1>1. CASE \/ NullToReady \/ ReadyToPaused \/ PausedToPlaying
             \/ PlayingToPaused \/ PausedToReady \/ JoinStops \/ JoinReturns
             \/ ReadyToNull
    BY <1>1 DEF NullToReady, ReadyToPaused, PausedToPlaying, PlayingToPaused,
           PausedToReady, JoinStops, JoinReturns, ReadyToNull, SetTask,
           bufferVars, cameraVars
  <1>2. CASE TaskStep
    <2>1. ASSUME NEW n \in {0, NumFrames}, EnterSetsUp(n) PROVE Idle'
      BY <2>1 DEF EnterSetsUp
    <2>2. ASSUME NEW n \in 0 .. Len(cqueue), TaskLeave(n) PROVE Idle'
      BY <2>2 DEF TaskLeave, Cancel
    <2>3. ASSUME NEW ok \in BOOLEAN, NEW refused \in BOOLEAN,
                 EnterStarts(ok, refused)
          PROVE  Idle'
      BY <2>3 DEF EnterStarts, bufferVars
    <2>4. CASE EnterStops \/ TaskLoop \/ TaskDecide
      BY <2>4 DEF EnterStops, TaskLoop, TaskDecide, bufferVars, cameraVars
    <2>5. CASE TaskAcquire \/ TaskQueueRequest \/ TaskPushWrap
      BY <2>5 DEF TaskAcquire, TaskQueueRequest, TaskPushWrap, cameraVars
    <2>6. CASE TaskPush \/ TaskPushOld
      BY <2>6 DEF TaskPush, TaskPushOld, Back, cameraVars
    <2> QED
      BY <1>2, <2>1, <2>2, <2>3, <2>4, <2>5, <2>6 DEF TaskStep
  <1>3. CASE RequestCompleted \/ ReleaseOld
    BY <1>3 DEF RequestCompleted, ReleaseOld, Back, cameraVars
  <1>4. ASSUME NEW f \in Frames, ReleaseMemory(f) PROVE Idle'
    BY <1>4 DEF ReleaseMemory, Back
  <1>5. ASSUME NEW f \in Frames, NEW keep \in BOOLEAN, ReleaseDown(f, keep)
        PROVE  Idle'
    BY <1>5 DEF ReleaseDown, Back
  <1> QED
    BY <1>1, <1>2, <1>3, <1>4, <1>5 DEF GstNext

(* Every step of the application, the task, the camera and downstream.     *)
LEMMA GstStep ==
  ASSUME GstInv, Idle, GstNext
  PROVE  GstInv'
  <1>1. CASE \E f \in Frames : ReleaseMemory(f) \/ \E keep \in BOOLEAN : ReleaseDown(f, keep)
    <2>1. PICK f \in Frames : ReleaseMemory(f) \/ ReleaseDown(f, TRUE) \/ ReleaseDown(f, FALSE)
      BY <1>1
    <2> QED
      BY <2>1, GstReleasesMemory, GstKeeps, GstReleases
  <1>2. CASE \E n \in {0, NumFrames} : EnterSetsUp(n)
    BY <1>2, GstSetsUp
  <1>3. CASE \/ EnterStops \/ (\E ok, refused \in BOOLEAN : EnterStarts(ok, refused))
             \/ TaskLoop \/ TaskDecide
    BY <1>3, GstCourse
  <1>4. CASE \/ ReadyToPaused \/ PausedToPlaying \/ PlayingToPaused
             \/ PausedToReady \/ JoinStops \/ JoinReturns \/ ReadyToNull
    BY <1>4, GstCalls
  <1>5. CASE \/ NullToReady \/ TaskAcquire \/ TaskQueueRequest \/ TaskPushWrap
             \/ TaskPush \/ TaskPushOld \/ ReleaseOld
    BY <1>5, GstOpens, GstAcquires, GstQueues, GstPushesWrap, GstPushes, GstOld
  <1>6. CASE RequestCompleted
    BY <1>6, GstCompletes, GstCompletesOld
  <1>7. CASE \E n \in 0 .. Len(cqueue) : TaskLeave(n)
    BY <1>7, GstLeaves
  <1> QED
    BY <1>1, <1>2, <1>3, <1>4, <1>5, <1>6, <1>7 DEF GstNext, TaskStep

(* In the beginning.                                                       *)
LEMMA GstFirst ==
  ASSUME CameraInit, GstInit
  PROVE  GstInv /\ Idle
  <1> USE DEF CameraInit, GstInit
  <1>1. <<>> \in Seq(Frames) /\ ToSet(<<>>) = {} /\ IsInjective(<<>>)
    BY DEF ToSet, IsInjective
  <1>2. GstTypes
    BY <1>1 DEF GstTypes
  <1>3. Locking /\ Wraps /\ Counted /\ Drained
    BY DEF Locking, Wraps, Unpushed, Counted, Drained
  <1>4. OnePlace
    BY <1>1 DEF OnePlace, OwnFrame
  <1>5. KeptFew
    BY FS_EmptySet DEF KeptFew
  <1> QED
    BY <1>2, <1>3, <1>4, <1>5 DEF GstInv, Idle

(* libcamerasrc: whenever the completion handler may run there is a wrap   *)
(* for each of the camera's requests, theirs in their order while none was *)
(* refused, dropped or forgotten, and every frame and GstBuffer is         *)
(* accounted for, for every number of frames and of buffers downstream     *)
(* holds, however often the element is stopped and opened again.           *)
THEOREM WrapsAndFrames == Spec => []GstConsistent
  <1> DEFINE Inv == client = "gstreamer" => GstInv /\ Idle
  <1>1. Init => Inv
    BY GstFirst DEF Init
  <1>2. Inv /\ [Next]_vars => Inv'
    <2> SUFFICES ASSUME Inv, [Next]_vars, client' = "gstreamer"
                 PROVE  (GstInv /\ Idle)'
      OBVIOUS
    <2>1. CASE Gst(GstNext)
      BY <2>1, GstStep, GstIdle DEF Gst, Only
    <2>2. CASE UNCHANGED vars
      <3>1. client' = client /\ UNCHANGED cameraVars /\ UNCHANGED gstVars
        BY <2>2 DEF vars
      <3>2. /\ UNCHANGED bufferVars /\ UNCHANGED cqueue /\ calloc' = calloc
            /\ thread' = thread /\ olock' = olock
        BY <3>1 DEF cameraVars, gstVars
      <3>3. GstInv => Locking'
        BY <3>2 DEF GstInv, Locking, bufferVars
      <3>4. Idle => Idle'
        BY <3>1, <3>2 DEF Idle, gstVars, bufferVars
      <3> QED
        BY <3>1, <3>2, <3>3, <3>4, GstKept
    <2>3. client' = client
      BY <2>2 DEF Next, Gst, V4L2, Hal, Metadata, App, Only, vars
    <2> QED
      BY <2>1, <2>2, <2>3 DEF Next, V4L2, Hal, Metadata, App, Only
  <1>3. Inv => GstConsistent
    BY GstInvImplies DEF GstConsistent
  <1> QED
    BY <1>1, <1>2, <1>3, PTL DEF Spec
-----------------------------------------------------------------------------
(***************************************************************************)
(* The Android HAL.                                                        *)
(***************************************************************************)

Frame == Nat \ {0}

Sent == {"shutter", "error", "result"} \X Frame

(* What was sent is in order, but for a message about frame c at the end.  *)
InSequence(s, c) ==
    /\ \A i, j \in DOMAIN s :
         i < j => \/ s[i][2] < s[j][2]
                  \/ s[i][2] = s[j][2] /\ s[i][1] # "result"
    /\ \A i \in DOMAIN s :
         IF s[i][1] = "result"
         THEN i > 1 /\ s[i - 1][2] = s[i][2]
         ELSE IF i < Len(s) THEN s[i + 1][2] = s[i][2]
         ELSE c = s[i][2]

About(s) == {s[i][2] : i \in DOMAIN s}

Results(s) == {s[i][2] : i \in {k \in DOMAIN s : s[k][1] = "result"}}

(* What is sent later is about a later frame.                              *)
Before(s, t) == \A x \in About(s), y \in About(t) : x < y

(* What follows in order upon what is complete is in order.                *)
LEMMA SentConcat ==
  ASSUME NEW s \in Seq(Sent), NEW t \in Seq(Sent), NEW c,
         InSequence(s, 0), InSequence(t, c), Before(s, t)
  PROVE  /\ s \o t \in Seq(Sent) /\ InSequence(s \o t, c)
         /\ About(s \o t) = About(s) \cup About(t)
         /\ Results(s \o t) = Results(s) \cup Results(t)
  <1> DEFINE u == s \o t
             m == Len(s)
             n == Len(t)
  <1>1. /\ u \in Seq(Sent) /\ Len(u) = m + n
        /\ \A i \in 1 .. m + n : u[i] = IF i <= m THEN s[i] ELSE t[i - m]
    BY ConcatProperties
  <1>2. /\ m \in Nat /\ n \in Nat /\ DOMAIN s = 1 .. m /\ DOMAIN t = 1 .. n
        /\ DOMAIN u = 1 .. m + n
        /\ \A i \in 1 .. m : s[i] \in Sent
        /\ \A i \in 1 .. n : t[i] \in Sent
    BY <1>1
  <1>3. \A i \in 1 .. m : u[i] = s[i] /\ i \in 1 .. m + n
    BY <1>1, <1>2
  <1>4. \A i \in 1 .. n : u[m + i] = t[i] /\ m + i \in 1 .. m + n
    BY <1>1, <1>2
  <1>5. \A i \in 1 .. m + n : i \in 1 .. m \/ \E k \in 1 .. n : i = m + k
    <2> TAKE i \in 1 .. m + n
    <2>1. CASE i <= m
      BY <1>2, <2>1
    <2>2. CASE ~(i <= m)
      <3>1. i - m \in 1 .. n /\ i = m + (i - m)
        BY <1>2, <2>2
      <3> QED
        BY <3>1
    <2> QED
      BY <2>1, <2>2
  <1>6. \A i \in 1 .. m : s[i][2] \in About(s) /\ s[i][2] \in Frame
    BY <1>2 DEF About, Sent
  <1>7. \A i \in 1 .. n : t[i][2] \in About(t) /\ t[i][2] \in Frame
    BY <1>2 DEF About, Sent
  <1> HIDE DEF u, m, n
  <1>8. About(u) = About(s) \cup About(t)
    <2>1. ASSUME NEW i \in 1 .. m + n PROVE u[i][2] \in About(s) \cup About(t)
      BY <1>3, <1>4, <1>5, <1>6, <1>7
    <2>2. ASSUME NEW i \in 1 .. m PROVE s[i][2] \in About(u)
      BY <1>2, <1>3 DEF About
    <2>3. ASSUME NEW i \in 1 .. n PROVE t[i][2] \in About(u)
      BY <1>2, <1>4 DEF About
    <2>4. \A x \in About(u) : x \in About(s) \cup About(t)
      BY <1>2, <2>1 DEF About
    <2>5. \A x \in About(s) \cup About(t) : x \in About(u)
      BY <1>2, <2>2, <2>3 DEF About
    <2> QED
      BY <2>4, <2>5
  <1>9. Results(u) = Results(s) \cup Results(t)
    <2>1. ASSUME NEW i \in 1 .. m + n, u[i][1] = "result"
          PROVE  u[i][2] \in Results(s) \cup Results(t)
      <3>1. CASE i \in 1 .. m
        BY <1>2, <1>3, <2>1, <3>1 DEF Results
      <3>2. ASSUME NEW k \in 1 .. n, i = m + k
            PROVE  u[i][2] \in Results(t)
        BY <1>2, <1>4, <2>1, <3>2 DEF Results
      <3> QED
        BY <1>5, <3>1, <3>2
    <2>2. ASSUME NEW i \in 1 .. m, s[i][1] = "result" PROVE s[i][2] \in Results(u)
      BY <1>2, <1>3, <2>2 DEF Results
    <2>3. ASSUME NEW i \in 1 .. n, t[i][1] = "result" PROVE t[i][2] \in Results(u)
      BY <1>2, <1>4, <2>3 DEF Results
    <2>4. \A x \in Results(u) : x \in Results(s) \cup Results(t)
      BY <1>2, <2>1 DEF Results
    <2>5. \A x \in Results(s) \cup Results(t) : x \in Results(u)
      BY <1>2, <2>2, <2>3 DEF Results
    <2> QED
      BY <2>4, <2>5
  <1>10. ASSUME NEW i \in 1 .. m + n, NEW j \in 1 .. m + n, i < j
         PROVE  \/ u[i][2] < u[j][2]
                \/ u[i][2] = u[j][2] /\ u[i][1] # "result"
    <2>1. CASE i \in 1 .. m /\ j \in 1 .. m
      BY <1>2, <1>3, <1>10, <2>1 DEF InSequence
    <2>2. ASSUME i \in 1 .. m, NEW k \in 1 .. n, j = m + k
          PROVE  u[i][2] < u[j][2]
      <3>1. u[i][2] \in About(s) /\ u[j][2] \in About(t)
        BY <1>3, <1>4, <1>6, <1>7, <2>2
      <3> QED
        BY <3>1 DEF Before
    <2>3. ASSUME NEW k \in 1 .. n, NEW l \in 1 .. n, i = m + k, j = m + l
          PROVE  \/ u[i][2] < u[j][2]
                 \/ u[i][2] = u[j][2] /\ u[i][1] # "result"
      <3>1. k < l
        BY <1>2, <1>10, <2>3
      <3>2. \/ t[k][2] < t[l][2]
            \/ t[k][2] = t[l][2] /\ t[k][1] # "result"
        BY <1>2, <3>1 DEF InSequence
      <3> QED
        BY <1>4, <2>3, <3>2
    <2>4. ASSUME NEW k \in 1 .. n, i = m + k, j \in 1 .. m PROVE FALSE
      BY <1>2, <1>10, <2>4
    <2> QED
      BY <1>5, <2>1, <2>2, <2>3, <2>4
  <1>11. ASSUME NEW i \in 1 .. m + n
         PROVE  IF u[i][1] = "result"
                THEN i > 1 /\ u[i - 1][2] = u[i][2]
                ELSE IF i < m + n THEN u[i + 1][2] = u[i][2]
                ELSE c = u[i][2]
    <2>1. CASE i \in 1 .. m /\ u[i][1] = "result"
      <3>1. i > 1 /\ s[i - 1][2] = s[i][2] /\ i - 1 \in 1 .. m
        <4>1. i > 1 /\ s[i - 1][2] = s[i][2]
          BY <1>2, <1>3, <2>1 DEF InSequence
        <4> QED
          BY <1>2, <2>1, <4>1
      <3> QED
        BY <1>3, <2>1, <3>1
    <2>2. CASE i \in 1 .. m /\ u[i][1] # "result"
      <3>1. IF i < m THEN s[i + 1][2] = s[i][2] ELSE 0 = s[i][2]
        BY <1>2, <1>3, <2>2 DEF InSequence, m
      <3>2. s[i][2] # 0
        BY <1>6, <2>2 DEF Frame
      <3>3. i < m /\ s[i + 1][2] = s[i][2]
        BY <3>1, <3>2
      <3>4. i + 1 \in 1 .. m /\ i < m + n
        BY <1>2, <2>2, <3>3
      <3> QED
        BY <1>3, <2>2, <3>3, <3>4
    <2>3. ASSUME NEW k \in 1 .. n, i = m + k, u[i][1] = "result"
          PROVE  i > 1 /\ u[i - 1][2] = u[i][2]
      <3>1. k > 1 /\ t[k - 1][2] = t[k][2]
        BY <1>2, <1>4, <2>3 DEF InSequence
      <3>2. k - 1 \in 1 .. n /\ i - 1 = m + (k - 1) /\ i > 1
        BY <1>2, <2>3, <3>1
      <3> QED
        BY <1>4, <2>3, <3>1, <3>2
    <2>4. ASSUME NEW k \in 1 .. n, i = m + k, u[i][1] # "result"
          PROVE  IF i < m + n THEN u[i + 1][2] = u[i][2] ELSE c = u[i][2]
      <3>1. IF k < n THEN t[k + 1][2] = t[k][2] ELSE c = t[k][2]
        BY <1>2, <1>4, <2>4 DEF InSequence, n
      <3>2. CASE k < n
        <4>1. k + 1 \in 1 .. n /\ i + 1 = m + (k + 1) /\ i < m + n
          BY <1>2, <2>4, <3>2
        <4> QED
          BY <1>4, <2>4, <3>1, <3>2, <4>1
      <3>3. CASE ~(k < n)
        <4>1. ~(i < m + n)
          BY <1>2, <2>4, <3>3
        <4> QED
          BY <1>4, <2>4, <3>1, <3>3, <4>1
      <3> QED
        BY <3>2, <3>3
    <2> QED
      BY <1>5, <2>1, <2>2, <2>3, <2>4
  <1>12. InSequence(u, c)
    <2>1. Len(u) = m + n
      BY <1>1
    <2> QED
      BY <1>2, <1>10, <1>11, <2>1 DEF InSequence
  <1> QED
    BY <1>1, <1>8, <1>9, <1>12 DEF u

(* What is sent for a frame that completes.                                *)
LEMMA FrameSent ==
  ASSUME NEW f \in Frame, NEW s \in {<<<<"shutter", f>>, <<"result", f>>>>,
             <<<<"shutter", f>>, <<"error", f>>, <<"result", f>>>>}
  PROVE  /\ s \in Seq(Sent) /\ InSequence(s, 0)
         /\ About(s) = {f} /\ Results(s) = {f}
  <1>1. CASE s = <<<<"shutter", f>>, <<"result", f>>>>
    <2>1. /\ s \in Seq(Sent) /\ DOMAIN s = {1, 2} /\ Len(s) = 2
          /\ s[1] = <<"shutter", f>> /\ s[2] = <<"result", f>>
      BY <1>1 DEF Sent
    <2>2. InSequence(s, 0)
      BY <2>1 DEF InSequence, Frame
    <2>3. About(s) = {f} /\ Results(s) = {f}
      BY <2>1 DEF About, Results
    <2> QED
      BY <2>1, <2>2, <2>3
  <1>2. CASE s = <<<<"shutter", f>>, <<"error", f>>, <<"result", f>>>>
    <2>1. /\ s \in Seq(Sent) /\ DOMAIN s = {1, 2, 3} /\ Len(s) = 3
          /\ s[1] = <<"shutter", f>> /\ s[2] = <<"error", f>>
          /\ s[3] = <<"result", f>>
      BY <1>2 DEF Sent
    <2>2. InSequence(s, 0)
      BY <2>1 DEF InSequence, Frame
    <2>3. About(s) = {f} /\ Results(s) = {f}
      BY <2>1 DEF About, Results
    <2> QED
      BY <2>1, <2>2, <2>3
  <1> QED
    BY <1>1, <1>2

(* Odd and even.                                                           *)
LEMMA Halves ==
  ASSUME NEW k \in Nat \ {0}
  PROVE  /\ (k + 1) \div 2 \in Nat \ {0}
         /\ k % 2 = 1 => k = 2 * ((k + 1) \div 2) - 1
         /\ k % 2 # 1 => k = 2 * ((k + 1) \div 2) /\ k % 2 = 0
  OBVIOUS

(* The other way round.                                                    *)
LEMMA Doubles ==
  ASSUME NEW i \in Nat \ {0}
  PROVE  /\ (2 * i) % 2 = 0 /\ (2 * i + 1) \div 2 = i
         /\ (2 * i - 1) % 2 = 1 /\ (2 * i - 1 + 1) \div 2 = i
  OBVIOUS

(* What stop() has sent for the first n requests of an increasing list:    *)
(* the message and the result of each in turn.                             *)
LEMMA CancelledSent ==
  ASSUME cqueue \in Seq(Frame), NEW n \in 0 .. Len(cqueue),
         \A i, j \in 1 .. Len(cqueue) : i < j => cqueue[i] < cqueue[j]
  PROVE  /\ Cancelled(n) \in Seq(Sent) /\ InSequence(Cancelled(n), 0)
         /\ About(Cancelled(n)) = {cqueue[i] : i \in 1 .. n}
         /\ Results(Cancelled(n)) = {cqueue[i] : i \in 1 .. n}
  <1> DEFINE s == Cancelled(n)
             h(k) == (k + 1) \div 2
             F == {cqueue[i] : i \in 1 .. n}
  <1>1. n \in Nat /\ \A i \in 1 .. n : i \in 1 .. Len(cqueue) /\ cqueue[i] \in Frame
    OBVIOUS
  <1>2. \A k \in 1 .. 2 * n : /\ h(k) \in 1 .. n
                              /\ k % 2 = 1 => k = 2 * h(k) - 1
                              /\ k % 2 # 1 => k = 2 * h(k) /\ k % 2 = 0
    <2> TAKE k \in 1 .. 2 * n
    <2>1. k \in Nat \ {0}
      BY <1>1
    <2>2. /\ h(k) \in Nat \ {0}
          /\ k % 2 = 1 => k = 2 * h(k) - 1
          /\ k % 2 # 1 => k = 2 * h(k) /\ k % 2 = 0
      BY <2>1, Halves
    <2> HIDE DEF h
    <2>3. h(k) <= n
      BY <1>1, <2>2
    <2> QED
      BY <1>1, <2>2, <2>3
  <1>3. \A k \in 1 .. 2 * n :
           s[k] = <<IF k % 2 = 1 THEN "error" ELSE "result", cqueue[h(k)]>>
    BY DEF Cancelled
  <1>4. DOMAIN s = 1 .. 2 * n /\ s = [k \in 1 .. 2 * n |-> s[k]]
    BY DEF Cancelled
  <1>5. \A i \in 1 .. n : /\ 2 * i \in 1 .. 2 * n /\ 2 * i - 1 \in 1 .. 2 * n
                          /\ (2 * i) % 2 = 0 /\ (2 * i - 1) % 2 = 1
                          /\ h(2 * i) = i /\ h(2 * i - 1) = i
    <2> TAKE i \in 1 .. n
    <2>1. i \in Nat \ {0}
      BY <1>1
    <2>2. 2 * i \in 1 .. 2 * n /\ 2 * i - 1 \in 1 .. 2 * n
      BY <1>1
    <2> QED
      BY <2>1, <2>2, Doubles
  <1> HIDE DEF s, h
  <1>6. \A k \in 1 .. 2 * n : /\ s[k] \in Sent /\ s[k][2] = cqueue[h(k)]
                              /\ s[k][1] = "result" <=> k % 2 # 1
    <2> TAKE k \in 1 .. 2 * n
    <2>1. cqueue[h(k)] \in Frame
      BY <1>1, <1>2
    <2>2. CASE k % 2 = 1
      <3>1. s[k] = <<"error", cqueue[h(k)]>>
        BY <1>3, <2>2
      <3> QED
        BY <2>1, <2>2, <3>1 DEF Sent
    <2>3. CASE k % 2 # 1
      <3>1. s[k] = <<"result", cqueue[h(k)]>>
        BY <1>3, <2>3
      <3> QED
        BY <2>1, <2>3, <3>1 DEF Sent
    <2> QED
      BY <2>2, <2>3
  <1>7. s \in Seq(Sent) /\ Len(s) = 2 * n
    <2>1. 2 * n \in Nat /\ s \in [1 .. 2 * n -> Sent]
      BY <1>1, <1>4, <1>6
    <2> QED
      BY <2>1
  <1>8. About(s) = F
    <2>1. \A x \in About(s) : x \in F
      BY <1>2, <1>4, <1>6 DEF About
    <2>2. \A i \in 1 .. n : s[2 * i][2] = cqueue[i]
      BY <1>5, <1>6
    <2>3. \A i \in 1 .. n : s[2 * i][2] \in About(s)
      BY <1>4, <1>5 DEF About
    <2>4. \A x \in F : x \in About(s)
      BY <2>2, <2>3
    <2> QED
      BY <2>1, <2>4
  <1>9. Results(s) = F
    <2>1. \A x \in Results(s) : x \in F
      BY <1>2, <1>4, <1>6 DEF Results
    <2>2. \A i \in 1 .. n : s[2 * i][2] = cqueue[i] /\ s[2 * i][1] = "result"
      <3> TAKE i \in 1 .. n
      <3>1. 2 * i \in 1 .. 2 * n /\ (2 * i) % 2 = 0 /\ h(2 * i) = i
        BY <1>5
      <3>2. (2 * i) % 2 # 1
        BY <3>1
      <3> QED
        BY <1>6, <3>1, <3>2
    <2>3. \A i \in 1 .. n : s[2 * i][2] \in Results(s)
      BY <1>4, <1>5, <2>2 DEF Results
    <2>4. \A x \in F : x \in Results(s)
      BY <2>2, <2>3
    <2> QED
      BY <2>1, <2>4
  <1>10. ASSUME NEW i \in 1 .. 2 * n, NEW j \in 1 .. 2 * n, i < j
         PROVE  \/ s[i][2] < s[j][2]
                \/ s[i][2] = s[j][2] /\ s[i][1] # "result"
    <2>1. h(i) \in 1 .. n /\ h(j) \in 1 .. n
      BY <1>2
    <2>2. s[i][2] = cqueue[h(i)] /\ s[j][2] = cqueue[h(j)]
      BY <1>6
    <2>3. h(i) < h(j) \/ (h(i) = h(j) /\ i % 2 = 1)
      <3>1. i = 2 * h(i) - 1 \/ (i = 2 * h(i) /\ i % 2 # 1)
        BY <1>2
      <3>2. j = 2 * h(j) - 1 \/ j = 2 * h(j)
        BY <1>2
      <3>3. i \in Nat /\ j \in Nat /\ h(i) \in Nat /\ h(j) \in Nat
        BY <1>1, <2>1
      <3>4. CASE h(i) < h(j)
        BY <3>4
      <3>5. CASE ~(h(i) < h(j))
        <4>1. h(i) >= h(j)
          BY <3>3, <3>5
        <4>2. i = 2 * h(i) - 1 /\ h(i) = h(j)
          BY <1>10, <3>1, <3>2, <3>3, <4>1
        <4>3. i # 2 * h(i)
          BY <3>3, <4>2
        <4> QED
          BY <1>2, <4>2, <4>3
      <3> QED
        BY <3>4, <3>5
    <2>4. CASE h(i) < h(j)
      BY <1>1, <2>1, <2>2, <2>4
    <2>5. CASE h(i) = h(j) /\ i % 2 = 1
      BY <1>6, <2>2, <2>5
    <2> QED
      BY <2>3, <2>4, <2>5
  <1>11. ASSUME NEW i \in 1 .. 2 * n
         PROVE  IF s[i][1] = "result"
                THEN i > 1 /\ s[i - 1][2] = s[i][2]
                ELSE IF i < Len(s) THEN s[i + 1][2] = s[i][2]
                ELSE 0 = s[i][2]
    <2> DEFINE a == h(i)
    <2>1. a \in 1 .. n /\ a \in Nat /\ i \in Nat
      BY <1>1, <1>2
    <2>2. /\ 2 * a \in 1 .. 2 * n /\ 2 * a - 1 \in 1 .. 2 * n
          /\ s[2 * a][2] = cqueue[a] /\ s[2 * a - 1][2] = cqueue[a]
      BY <1>5, <1>6, <2>1
    <2>3. CASE s[i][1] = "result"
      <3>1. i = 2 * a
        BY <1>2, <1>6, <2>3
      <3> HIDE DEF a
      <3>2. i > 1 /\ i - 1 = 2 * a - 1
        BY <2>1, <3>1
      <3> QED
        BY <2>2, <2>3, <3>1, <3>2
    <2>4. CASE s[i][1] # "result"
      <3>1. i = 2 * a - 1
        BY <1>2, <1>6, <2>4
      <3> HIDE DEF a
      <3>2. i + 1 = 2 * a /\ i < 2 * n
        BY <1>1, <2>1, <2>2, <3>1
      <3> QED
        BY <1>7, <2>2, <2>4, <3>1, <3>2
    <2> QED
      BY <2>3, <2>4
  <1>12. InSequence(s, 0)
    BY <1>4, <1>10, <1>11 DEF InSequence
  <1> QED
    BY <1>7, <1>8, <1>9, <1>12 DEF s

(* The camera has its requests in the order of their numbers, which are    *)
(* never used twice.                                                       *)
HalQueue ==
    /\ cqueue \in Seq(Frame) /\ frameNumber \in Nat
    /\ \A i, j \in 1 .. Len(cqueue) : i < j => cqueue[i] < cqueue[j]
    /\ \A x \in ToSet(cqueue) : x <= frameNumber
    /\ ~open => cqueue = <<>>

(* What was sent is about requests before those.                           *)
HalSent ==
    /\ sent \in Seq(Sent) /\ crashed \in Nat /\ InSequence(sent, crashed)
    /\ \A x \in About(sent) : x <= frameNumber
    /\ crashed = 0 => \A x \in About(sent), y \in ToSet(cqueue) : x < y

HalAccepted ==
    /\ accepted \subseteq 1 .. frameNumber /\ forgotten \subseteq accepted
    /\ Results(sent) = accepted \ (ToSet(cqueue) \cup forgotten \cup {crashed})
    /\ descriptors = accepted \ Results(sent)
    /\ ToSet(cqueue) \subseteq descriptors
    /\ ToSet(cqueue) \cap forgotten = {}

HalInv == HalQueue /\ HalSent /\ HalAccepted

(* What ResultsMatch asks for.                                             *)
LEMMA HalInvImplies ==
  ASSUME HalInv
  PROVE  ResultsMatch
  <1>1. Range(cqueue) = ToSet(cqueue)
    BY DEF Range, ToSet
  <1>2. Answered = Results(sent)
    BY DEF Answered, Results, IsResult
  <1>3. SentInOrder
    BY DEF HalInv, HalSent, InSequence, SentInOrder, IsResult
  <1> QED
    BY <1>1, <1>2, <1>3 DEF HalInv, HalQueue, HalAccepted, ResultsMatch

(* Opening and configuring the device leave the requests alone.            *)
LEMMA HalSetUp ==
  ASSUME HalInv, open => open',
         UNCHANGED <<cqueue, frameNumber, crashed, accepted, forgotten, sent,
                     descriptors>>
  PROVE  HalInv'
  <1>1. HalQueue'
    BY DEF HalInv, HalQueue
  <1>2. HalSent' /\ HalAccepted'
    BY DEF HalInv, HalSent, HalAccepted
  <1> QED
    BY <1>1, <1>2 DEF HalInv

(* The framework's request gets a number of its own.                       *)
LEMMA HalCapture ==
  ASSUME HalInv, NEW starts \in BOOLEAN, NEW keep \in BOOLEAN,
         CaptureRequest(starts, keep), crashed = 0
  PROVE  HalInv'
  <1> DEFINE f == frameNumber + 1
             c == Append(cqueue, f)
  <1>1. /\ open' = open /\ open /\ frameNumber' = f /\ UNCHANGED <<sent, crashed>>
    BY DEF CaptureRequest
  <1>2. \/ UNCHANGED <<cqueue, accepted, forgotten, descriptors>>
        \/ /\ accepted' = accepted \cup {f} /\ descriptors' = descriptors \cup {f}
           /\ \/ cqueue' = c /\ forgotten' = forgotten
              \/ cqueue' = cqueue /\ forgotten' = forgotten \cup {f}
    BY DEF CaptureRequest, Enqueue
  <1>3. /\ cqueue \in Seq(Frame) /\ frameNumber \in Nat
        /\ \A i, j \in 1 .. Len(cqueue) : i < j => cqueue[i] < cqueue[j]
        /\ \A x \in ToSet(cqueue) : x <= frameNumber
    BY DEF HalInv, HalQueue
  <1>4. f \in Frame /\ f \in Nat /\ f \notin accepted
    BY <1>3 DEF Frame, HalInv, HalAccepted
  <1>5. \A x \in ToSet(cqueue) : x \in Nat /\ x < f /\ x <= f
    <2>1. \A x \in ToSet(cqueue) : x \in Nat /\ x <= frameNumber
      BY <1>3 DEF ToSet, Frame
    <2> QED
      BY <1>3, <2>1
  <1>6. \A x \in About(sent) : x \in Nat /\ x < f /\ x <= f
    <2>1. \A x \in About(sent) : x \in Nat /\ x <= frameNumber
      BY DEF HalInv, HalSent, About, Sent, Frame
    <2> QED
      BY <1>3, <2>1
  <1>7. accepted \subseteq 1 .. f
    BY <1>3 DEF HalInv, HalAccepted
  <1> HIDE DEF f
  <1>8. /\ c \in Seq(Frame) /\ ToSet(c) = ToSet(cqueue) \cup {f}
        /\ \A i, j \in 1 .. Len(c) : i < j => c[i] < c[j]
    <2>1. /\ c \in Seq(Frame) /\ Len(c) = Len(cqueue) + 1 /\ Len(cqueue) \in Nat
          /\ \A i \in 1 .. Len(cqueue) : c[i] = cqueue[i]
          /\ c[Len(cqueue) + 1] = f
      BY <1>3, <1>4, AppendProperties
    <2>2. \A i \in 1 .. Len(cqueue) : cqueue[i] \in ToSet(cqueue)
      BY <1>3 DEF ToSet
    <2>3. ToSet(c) = ToSet(cqueue) \cup {f}
      BY <1>3, <1>4, AppendInjectiveNew
    <2> HIDE DEF c
    <2>4. ASSUME NEW i \in 1 .. Len(c), NEW j \in 1 .. Len(c), i < j
          PROVE  c[i] < c[j]
      <3>1. i \in 1 .. Len(cqueue)
        BY <2>1, <2>4
      <3>2. CASE j \in 1 .. Len(cqueue)
        BY <1>3, <2>1, <2>4, <3>1, <3>2
      <3>3. CASE j = Len(cqueue) + 1
        BY <1>5, <2>1, <2>2, <3>1, <3>3
      <3>4. j \in 1 .. Len(cqueue) \/ j = Len(cqueue) + 1
        BY <2>1
      <3> QED
        BY <3>2, <3>3, <3>4
    <2> QED
      BY <2>1, <2>3, <2>4
  <1> HIDE DEF c
  <1>9. \/ cqueue' = cqueue \/ cqueue' = c
    BY <1>2
  <1>10. HalQueue'
    <2>1. \A x \in ToSet(c) : x <= f
      BY <1>4, <1>5, <1>8
    <2>2. CASE cqueue' = cqueue
      BY <1>1, <1>3, <1>4, <1>5, <2>2 DEF HalQueue
    <2>3. CASE cqueue' = c
      BY <1>1, <1>4, <1>8, <2>1, <2>3 DEF HalQueue
    <2> QED
      BY <1>9, <2>2, <2>3
  <1>11. HalSent'
    <2>1. /\ sent \in Seq(Sent) /\ InSequence(sent, crashed)
          /\ \A x \in About(sent), y \in ToSet(cqueue) : x < y
      BY DEF HalInv, HalSent
    <2>2. \A x \in About(sent), y \in ToSet(cqueue') : x < y
      BY <1>6, <1>8, <1>9, <2>1
    <2> QED
      BY <1>1, <1>6, <2>1, <2>2 DEF HalInv, HalSent
  <1>12. HalAccepted'
    <2>1. /\ Results(sent) = accepted \ (ToSet(cqueue) \cup forgotten \cup {crashed})
          /\ descriptors = accepted \ Results(sent)
          /\ ToSet(cqueue) \subseteq descriptors /\ forgotten \subseteq accepted
          /\ ToSet(cqueue) \cap forgotten = {}
      BY DEF HalInv, HalAccepted
    <2>2. accepted' \subseteq 1 .. f /\ crashed # f
      <3>1. f \in 1 .. f /\ f # 0
        BY <1>4 DEF Frame
      <3>2. accepted' \subseteq accepted \cup {f}
        BY <1>2
      <3> QED
        BY <1>7, <3>1, <3>2
    <2>3. CASE UNCHANGED <<cqueue, accepted, forgotten, descriptors>>
      BY <1>1, <2>1, <2>2, <2>3 DEF HalAccepted
    <2>4. ASSUME accepted' = accepted \cup {f}, descriptors' = descriptors \cup {f},
                 cqueue' = c, forgotten' = forgotten
          PROVE  HalAccepted'
      <3>1. f \notin forgotten
        BY <1>4, <2>1
      <3> QED
        BY <1>1, <1>4, <1>8, <2>1, <2>2, <2>4, <3>1 DEF HalAccepted
    <2>5. ASSUME accepted' = accepted \cup {f}, descriptors' = descriptors \cup {f},
                 cqueue' = cqueue, forgotten' = forgotten \cup {f}
          PROVE  HalAccepted'
      <3>1. f \notin ToSet(cqueue)
        BY <1>4, <2>1
      <3> QED
        BY <1>1, <1>4, <2>1, <2>2, <2>5, <3>1 DEF HalAccepted
    <2> QED
      BY <1>2, <2>3, <2>4, <2>5
  <1> QED
    BY <1>10, <1>11, <1>12 DEF HalInv

(* The oldest request completes, or the process crashes over it.           *)
LEMMA HalCompletes ==
  ASSUME HalInv, NEW allocated \in BOOLEAN, HalRequestComplete(allocated),
         crashed = 0
  PROVE  HalInv'
  <1> DEFINE h == Head(cqueue)
             t == Tail(cqueue)
  <1>1. /\ cqueue # <<>> /\ cqueue' = t
        /\ UNCHANGED <<open, frameNumber, accepted, forgotten>>
    BY DEF HalRequestComplete
  <1>2. /\ cqueue \in Seq(Frame) /\ frameNumber \in Nat /\ open
        /\ \A i, j \in 1 .. Len(cqueue) : i < j => cqueue[i] < cqueue[j]
        /\ \A x \in ToSet(cqueue) : x <= frameNumber
    BY <1>1 DEF HalInv, HalQueue
  <1>3. /\ h \in Frame /\ t \in Seq(Frame) /\ Len(t) \in Nat /\ h = cqueue[1]
        /\ Len(cqueue) = Len(t) + 1 /\ \A i \in 1 .. Len(t) : t[i] = cqueue[i + 1]
    BY <1>1, <1>2
  <1> HIDE DEF h, t
  <1>4. \A i, j \in 1 .. Len(t) : i < j => t[i] < t[j]
    <2> SUFFICES ASSUME NEW i \in 1 .. Len(t), NEW j \in 1 .. Len(t), i < j
                 PROVE  t[i] < t[j]
      OBVIOUS
    <2>1. i + 1 \in 1 .. Len(cqueue) /\ j + 1 \in 1 .. Len(cqueue) /\ i + 1 < j + 1
      BY <1>3
    <2> QED
      BY <1>2, <1>3, <2>1
  <1>5. \A y \in ToSet(t) : h < y /\ y \in ToSet(cqueue)
    <2> SUFFICES ASSUME NEW i \in 1 .. Len(t) PROVE h < t[i] /\ t[i] \in ToSet(cqueue)
      BY <1>3 DEF ToSet
    <2>1. i + 1 \in 1 .. Len(cqueue) /\ 1 \in 1 .. Len(cqueue) /\ 1 < i + 1
      BY <1>3
    <2> QED
      BY <1>2, <1>3, <2>1 DEF ToSet
  <1>6. ToSet(cqueue) = {h} \cup ToSet(t) /\ h \notin ToSet(t)
    <2>1. \A i \in 1 .. Len(cqueue) : i = 1 \/ i - 1 \in 1 .. Len(t)
      BY <1>3
    <2>2. \A i \in 1 .. Len(cqueue) : cqueue[i] = h \/ cqueue[i] \in ToSet(t)
      <3> TAKE i \in 1 .. Len(cqueue)
      <3>1. CASE i = 1
        BY <1>3, <3>1
      <3>2. CASE i - 1 \in 1 .. Len(t)
        <4>1. t[i - 1] = cqueue[(i - 1) + 1] /\ (i - 1) + 1 = i
          BY <1>3, <3>2
        <4> QED
          BY <1>3, <3>2, <4>1 DEF ToSet
      <3> QED
        BY <2>1, <3>1, <3>2
    <2>3. h \in ToSet(cqueue)
      <3>1. 1 \in 1 .. Len(cqueue)
        BY <1>3
      <3> QED
        BY <1>2, <1>3, <3>1 DEF ToSet
    <2>4. \A x \in ToSet(cqueue) : x = h \/ x \in ToSet(t)
      BY <1>2, <2>2 DEF ToSet
    <2>5. h \notin ToSet(t)
      BY <1>3, <1>5 DEF Frame
    <2> QED
      BY <1>5, <2>3, <2>4, <2>5
  <1>7. HalQueue'
    BY <1>1, <1>2, <1>3, <1>4, <1>5 DEF HalQueue
  <1>8. /\ sent \in Seq(Sent) /\ InSequence(sent, 0)
        /\ \A x \in About(sent) : x <= frameNumber
        /\ \A x \in About(sent), y \in ToSet(cqueue) : x < y
    BY DEF HalInv, HalSent
  <1>9. /\ accepted \subseteq 1 .. frameNumber
        /\ Results(sent) = accepted \ (ToSet(cqueue) \cup forgotten \cup {0})
        /\ descriptors = accepted \ Results(sent)
        /\ ToSet(cqueue) \subseteq descriptors
        /\ ToSet(cqueue) \cap forgotten = {} /\ forgotten \subseteq accepted
    BY DEF HalInv, HalAccepted
  <1>10. h <= frameNumber /\ h # 0 /\ h \in Nat
    BY <1>2, <1>3, <1>6 DEF Frame
  <1>11. CASE allocated
    <2> DEFINE a == <<"shutter", h>>
               b == <<"error", h>>
               r == <<"result", h>>
               s == IF ResultMetadata THEN <<a, r>> ELSE <<a, b, r>>
    <2>1. /\ descriptors' = descriptors \ {h} /\ crashed' = crashed
      BY <1>11 DEF HalRequestComplete, h
    <2>2. s \in Seq(Sent) /\ InSequence(s, 0) /\ About(s) = {h} /\ Results(s) = {h}
      BY <1>3, FrameSent
    <2>3. sent' = sent \o s
      BY <1>11 DEF HalRequestComplete, h
    <2> HIDE DEF s, a, b, r
    <2>4. Before(sent, s)
      BY <1>6, <1>8, <2>2 DEF Before
    <2>5. /\ sent' \in Seq(Sent) /\ InSequence(sent', 0)
          /\ About(sent') = About(sent) \cup {h} /\ Results(sent') = Results(sent) \cup {h}
      <3>1. sent \in Seq(Sent) /\ s \in Seq(Sent)
        BY <1>8, <2>2
      <3> QED
        BY <1>8, <2>2, <2>3, <2>4, <3>1, SentConcat
    <2>6. HalSent'
      BY <1>1, <1>5, <1>8, <1>10, <2>1, <2>5 DEF HalSent
    <2>7. HalAccepted'
      <3>1. Results(sent') = accepted \ (ToSet(t) \cup forgotten \cup {0})
        BY <1>6, <1>9, <1>10, <2>5
      <3>2. descriptors' = accepted \ Results(sent')
        BY <1>9, <2>1, <2>5
      <3>3. ToSet(t) \subseteq descriptors' /\ ToSet(t) \cap forgotten = {}
        BY <1>6, <1>9, <2>1
      <3>4. crashed' = 0
        BY <2>1
      <3> QED
        BY <1>1, <1>9, <3>1, <3>2, <3>3, <3>4 DEF HalAccepted
    <2> QED
      BY <1>7, <2>6, <2>7 DEF HalInv
  <1>12. CASE ~allocated
    <2> DEFINE a == <<"shutter", h>>
               s == <<a>>
    <2>1. descriptors' = descriptors /\ crashed' = h /\ sent' = Append(sent, a)
      BY <1>12 DEF HalRequestComplete, h
    <2>2. s \in Seq(Sent) /\ InSequence(s, h) /\ About(s) = {h} /\ Results(s) = {}
      <3>1. /\ s \in Seq(Sent) /\ DOMAIN s = {1} /\ Len(s) = 1 /\ s[1] = a
            /\ a[1] = "shutter" /\ a[2] = h
        BY <1>3 DEF Sent
      <3> HIDE DEF s, a
      <3>2. InSequence(s, h)
        BY <3>1 DEF InSequence
      <3>3. About(s) = {h} /\ Results(s) = {}
        BY <3>1 DEF About, Results
      <3> QED
        BY <3>1, <3>2, <3>3
    <2>3. sent' = sent \o s
      <3>1. a \in Sent /\ sent \in Seq(Sent)
        BY <1>3, <1>8 DEF Sent
      <3> HIDE DEF a
      <3> QED
        BY <2>1, <3>1
    <2> HIDE DEF s, a
    <2>4. Before(sent, s)
      BY <1>6, <1>8, <2>2 DEF Before
    <2>5. /\ sent' \in Seq(Sent) /\ InSequence(sent', h)
          /\ About(sent') = About(sent) \cup {h} /\ Results(sent') = Results(sent)
      <3>1. sent \in Seq(Sent) /\ s \in Seq(Sent)
        BY <1>8, <2>2
      <3>2. /\ sent \o s \in Seq(Sent) /\ InSequence(sent \o s, h)
            /\ About(sent \o s) = About(sent) \cup About(s)
            /\ Results(sent \o s) = Results(sent) \cup Results(s)
        BY <1>8, <2>2, <2>4, <3>1, SentConcat
      <3> QED
        BY <2>2, <2>3, <3>2
    <2>6. HalSent'
      BY <1>1, <1>5, <1>8, <1>10, <2>1, <2>5 DEF HalSent
    <2>7. HalAccepted'
      <3>1. 0 \notin accepted
        BY <1>2, <1>9
      <3>2. Results(sent') = accepted \ (ToSet(t) \cup forgotten \cup {h})
        BY <1>6, <1>9, <1>10, <2>5, <3>1
      <3>3. ToSet(t) \subseteq descriptors /\ ToSet(t) \cap forgotten = {}
        BY <1>6, <1>9
      <3> QED
        BY <1>1, <1>9, <2>1, <2>5, <3>2, <3>3 DEF HalAccepted
    <2> QED
      BY <1>7, <2>6, <2>7 DEF HalInv
  <1> QED
    BY <1>11, <1>12

(* close() has the requests that are left cancelled, unless the camera     *)
(* forgets them.                                                           *)
LEMMA HalCloses ==
  ASSUME HalInv, NEW n \in 0 .. Len(cqueue), HalClose(n), crashed = 0
  PROVE  HalInv'
  <1> DEFINE s == Cancelled(n)
             A == {cqueue[i] : i \in 1 .. n}
             B == {cqueue[i] : i \in n + 1 .. Len(cqueue)}
  <1>1. /\ open' = FALSE /\ cqueue' = <<>> /\ sent' = sent \o s
        /\ descriptors' = descriptors \ A /\ forgotten' = forgotten \cup B
        /\ UNCHANGED <<frameNumber, accepted, crashed>>
    BY DEF HalClose, Cancel
  <1>2. /\ cqueue \in Seq(Frame) /\ frameNumber \in Nat /\ Len(cqueue) \in Nat
        /\ \A i, j \in 1 .. Len(cqueue) : i < j => cqueue[i] < cqueue[j]
        /\ \A x \in ToSet(cqueue) : x <= frameNumber
    BY DEF HalInv, HalQueue
  <1>3. s \in Seq(Sent) /\ InSequence(s, 0) /\ About(s) = A /\ Results(s) = A
    BY <1>2, CancelledSent
  <1>4. ToSet(cqueue) = A \cup B /\ A \cap B = {}
    <2>1. \A i \in 1 .. Len(cqueue) : i \in 1 .. n \/ i \in n + 1 .. Len(cqueue)
      BY <1>2
    <2>2. /\ \A i \in 1 .. n : i \in 1 .. Len(cqueue)
          /\ \A i \in n + 1 .. Len(cqueue) : i \in 1 .. Len(cqueue)
          /\ \A i \in 1 .. n, j \in n + 1 .. Len(cqueue) : i < j
      BY <1>2
    <2>3. \A i \in 1 .. Len(cqueue) : cqueue[i] \in Nat
      BY <1>2 DEF Frame
    <2>4. \A i \in 1 .. n, j \in n + 1 .. Len(cqueue) : cqueue[i] # cqueue[j]
      <3> TAKE i \in 1 .. n, j \in n + 1 .. Len(cqueue)
      <3>1. /\ i \in 1 .. Len(cqueue) /\ j \in 1 .. Len(cqueue)
            /\ cqueue[i] < cqueue[j] /\ cqueue[i] \in Nat /\ cqueue[j] \in Nat
        BY <1>2, <2>2, <2>3
      <3> QED
        BY <3>1
    <2>5. A \cap B = {}
      BY <2>4
    <2>6. ToSet(cqueue) = {cqueue[i] : i \in 1 .. Len(cqueue)}
      BY <1>2 DEF ToSet
    <2>7. /\ \A x \in ToSet(cqueue) : x \in A \cup B
          /\ \A x \in A \cup B : x \in ToSet(cqueue)
      BY <2>1, <2>2, <2>6
    <2> QED
      BY <2>5, <2>7
  <1> HIDE DEF s, A, B
  <1>5. /\ sent \in Seq(Sent) /\ InSequence(sent, 0)
        /\ \A x \in About(sent) : x <= frameNumber
        /\ \A x \in About(sent), y \in ToSet(cqueue) : x < y
    BY DEF HalInv, HalSent
  <1>6. Before(sent, s)
    BY <1>3, <1>4, <1>5 DEF Before
  <1>7. /\ sent' \in Seq(Sent) /\ InSequence(sent', 0)
        /\ About(sent') = About(sent) \cup A /\ Results(sent') = Results(sent) \cup A
    <2>1. sent \in Seq(Sent) /\ s \in Seq(Sent)
      BY <1>3, <1>5
    <2> QED
      BY <1>1, <1>3, <1>5, <1>6, <2>1, SentConcat
  <1>8. <<>> \in Seq(Frame) /\ ToSet(<<>>) = {} /\ Len(<<>>) = 0
    BY DEF ToSet
  <1>9. HalQueue'
    BY <1>1, <1>2, <1>8 DEF HalQueue
  <1>10. HalSent'
    <2>1. \A x \in About(sent') : x <= frameNumber
      BY <1>2, <1>4, <1>5, <1>7
    <2> QED
      BY <1>1, <1>7, <1>8, <2>1 DEF HalSent, HalInv
  <1>11. HalAccepted'
    <2>1. /\ accepted \subseteq 1 .. frameNumber /\ crashed = 0
          /\ Results(sent) = accepted \ (ToSet(cqueue) \cup forgotten \cup {crashed})
          /\ descriptors = accepted \ Results(sent)
          /\ ToSet(cqueue) \subseteq descriptors
          /\ ToSet(cqueue) \cap forgotten = {} /\ forgotten \subseteq accepted
      BY DEF HalInv, HalAccepted
    <2>2. 0 \notin accepted
      BY <1>2, <2>1
    <2>3. Results(sent') = accepted' \ (ToSet(cqueue') \cup forgotten' \cup {crashed'})
      BY <1>1, <1>4, <1>7, <1>8, <2>1, <2>2
    <2>4. descriptors' = accepted' \ Results(sent')
      BY <1>1, <1>7, <2>1
    <2>5. forgotten \cup B \subseteq accepted
      BY <1>4, <2>1
    <2>6. ToSet(cqueue') = {}
      BY <1>1, <1>8
    <2> QED
      BY <1>1, <2>1, <2>3, <2>4, <2>5, <2>6 DEF HalAccepted
  <1> QED
    BY <1>9, <1>10, <1>11 DEF HalInv

(* Every call of the framework and every completion.                       *)
LEMMA HalStep ==
  ASSUME HalInv, HalNext
  PROVE  HalInv'
  <1>1. crashed = 0
    BY DEF HalNext
  <1>2. CASE HalOpen \/ \E valid, ok \in BOOLEAN : ConfigureStreams(valid, ok)
    <2>1. /\ UNCHANGED <<cqueue, frameNumber, crashed, accepted, forgotten, sent,
                         descriptors>>
          /\ open => open'
      BY <1>2 DEF HalOpen, ConfigureStreams
    <2> QED
      BY <2>1, HalSetUp
  <1>3. CASE \E n \in 0 .. Len(cqueue) : HalClose(n)
    BY <1>1, <1>3, HalCloses
  <1>4. CASE \E starts, keep \in BOOLEAN : CaptureRequest(starts, keep)
    BY <1>1, <1>4, HalCapture
  <1>5. CASE \E allocated \in BOOLEAN : HalRequestComplete(allocated)
    BY <1>1, <1>5, HalCompletes
  <1> QED
    BY <1>2, <1>3, <1>4, <1>5 DEF HalNext

(* Android: the framework hears of its requests in their order, of each    *)
(* with messages and then one result; each accepted request has its        *)
(* result unless the camera has or forgot it or the process crashed over   *)
(* it, and close() leaves none with the camera, for any number of frames   *)
(* and sessions.                                                           *)
THEOREM ResultsInOrder == Spec => [](client = "android" => ResultsMatch)
  <1> DEFINE Inv == client = "android" => HalInv
  <1>1. Init => Inv
    <2>1. /\ <<>> \in Seq(Frame) /\ <<>> \in Seq(Sent) /\ ToSet(<<>>) = {}
          /\ About(<<>>) = {} /\ Results(<<>>) = {} /\ InSequence(<<>>, 0)
      BY DEF ToSet, About, Results, InSequence
    <2> SUFFICES ASSUME Init PROVE HalInv
      OBVIOUS
    <2>2. /\ cqueue = <<>> /\ sent = <<>> /\ accepted = {} /\ forgotten = {}
          /\ frameNumber = 0 /\ descriptors = {} /\ crashed = 0
      BY DEF Init, CameraInit, HalInit
    <2>3. HalQueue
      BY <2>1, <2>2 DEF HalQueue
    <2>4. HalSent /\ HalAccepted
      BY <2>1, <2>2 DEF HalSent, HalAccepted
    <2> QED
      BY <2>3, <2>4 DEF HalInv
  <1>2. Inv /\ [Next]_vars => Inv'
    <2> SUFFICES ASSUME Inv, [Next]_vars, client' = "android" PROVE HalInv'
      OBVIOUS
    <2>1. CASE Hal(HalNext)
      BY <2>1, HalStep DEF Hal, Only
    <2>2. CASE UNCHANGED vars
      <3>1. client' = client /\ UNCHANGED cameraVars /\ UNCHANGED halVars
        BY <2>2 DEF vars
      <3> QED
        BY <3>1, HalSetUp DEF cameraVars, halVars
    <2>3. client' = client
      BY <2>2 DEF Next, Gst, V4L2, Hal, Metadata, App, Only, vars
    <2> QED
      BY <2>1, <2>2, <2>3 DEF Next, Gst, V4L2, Metadata, App, Only
  <1>3. Inv => (client = "android" => ResultsMatch)
    BY HalInvImplies
  <1> QED
    BY <1>1, <1>2, <1>3, PTL DEF Spec

-----------------------------------------------------------------------------
(***************************************************************************)
(* The packets of metadata.  The data area is shared by the entries        *)
(* without gaps and overlaps (Laid); each way to change it (Cut, Put,      *)
(* Reordered, InPlace, Concat) keeps that, and a call is one or two of     *)
(* them.                                                                   *)
(***************************************************************************)

MetaEntry == [tag : MetaTags, count : Nat, data : Nat]

Granule == Nat \X Nat

Written == MetaTags \X Nat \X Nat

(* An entry holds, itself or in the data area, what was written to it.     *)
HoldsAt(e, d, w) ==
    /\ e \in MetaEntry /\ w \in Written /\ e.tag = w[1] /\ e.count = w[2]
    /\ SizeOf(e) > 0 =>
          /\ e.data + SizeOf(e) <= Len(d)
          /\ \A k \in 1 .. SizeOf(e) : d[e.data + k] = <<w[3], k>>
    /\ SizeOf(e) = 0 => e.data = IF e.count = 0 THEN 0 ELSE w[3]

(* The data of two entries do not overlap.                                 *)
Disjoint(e, f) ==
    SizeOf(e) > 0 /\ SizeOf(f) > 0 =>
        e.data + SizeOf(e) <= f.data \/ f.data + SizeOf(f) <= e.data

(* Granule k is one of those of an entry.                                  *)
Covers(e, k) == SizeOf(e) > 0 /\ e.data < k /\ k <= e.data + SizeOf(e)

(* The entries es[i] with i in L hold w[i] and share the data area d.      *)
Laid(L, es, d, w) ==
    /\ \A i \in L : HoldsAt(es[i], d, w[i])
    /\ \A i, j \in L : i # j => Disjoint(es[i], es[j])
    /\ \A k \in 1 .. Len(d) : \E i \in L : Covers(es[i], k)

(* What the size of a value is.                                            *)
LEMMA DataSizeNat ==
  ASSUME NEW tag \in MetaTags, NEW count \in Nat
  PROVE  /\ DataSize(TagType[tag], count) \in Nat
         /\ count * TypeSize[TagType[tag]] > 4 <=> DataSize(TagType[tag], count) > 0
         /\ count = 0 => DataSize(TagType[tag], count) = 0
  <1> DEFINE t == TypeSize[TagType[tag]]
             b == count * t
  <1>1. TagType[tag] \in {"byte", "int32", "float", "int64", "double", "rational"}
    BY MetaAssumption DEF MetaTags
  <1>2. t \in {1, 4, 8}
    BY <1>1 DEF TypeSize
  <1> HIDE DEF t
  <1>3. b \in Nat /\ (count = 0 => b = 0)
    BY <1>2
  <1>4. DataSize(TagType[tag], count) = IF b <= 4 THEN 0 ELSE (b + 7) \div 8
    BY DEF DataSize, t
  <1> HIDE DEF b
  <1>5. b > 4 => (b + 7) \div 8 \in Nat /\ (b + 7) \div 8 > 0
    BY <1>3
  <1> QED
    BY <1>3, <1>4, <1>5 DEF b, t

(* And of an entry.                                                        *)
LEMMA Sizes ==
  ASSUME NEW e \in MetaEntry
  PROVE  /\ SizeOf(e) \in Nat /\ e.data \in Nat /\ e.count \in Nat /\ e.tag \in MetaTags
         /\ e.count * TypeSize[TagType[e.tag]] > 4 <=> SizeOf(e) > 0
         /\ e.count = 0 => SizeOf(e) = 0
         /\ \A n \in Nat : [e EXCEPT !.data = n] \in MetaEntry
                           /\ SizeOf([e EXCEPT !.data = n]) = SizeOf(e)
  <1>1. e.data \in Nat /\ e.count \in Nat /\ e.tag \in MetaTags
    BY DEF MetaEntry
  <1>2. ASSUME NEW n \in Nat
        PROVE  [e EXCEPT !.data = n] \in MetaEntry
               /\ SizeOf([e EXCEPT !.data = n]) = SizeOf(e)
    BY DEF MetaEntry, SizeOf
  <1> QED
    BY <1>1, <1>2, DataSizeNat DEF SizeOf

(* An entry after others were moved up by s granules.                      *)
Moved(e, o, s) ==
    IF SizeOf(e) > 0 /\ e.data > o THEN [e EXCEPT !.data = @ - s] ELSE e

(* What memmove() leaves of the data area.                                 *)
LEMMA WithoutDataIs ==
  ASSUME NEW d \in Seq(Granule), NEW o \in Nat, NEW s \in Nat, o + s <= Len(d)
  PROVE  LET r == WithoutData(d, o, s)
         IN  /\ r \in Seq(Granule) /\ Len(r) = Len(d) - s
             /\ \A k \in 1 .. Len(d) - s : r[k] = IF k <= o THEN d[k] ELSE d[k + s]
  <1> DEFINE a == SubSeq(d, 1, o)
             b == SubSeq(d, o + s + 1, Len(d))
             r == a \o b
  <1>1. Len(d) \in Nat /\ \A k \in 1 .. Len(d) : d[k] \in Granule
    OBVIOUS
  <1>2. a \in Seq(Granule) /\ Len(a) = o /\ \A k \in 1 .. o : a[k] = d[k]
    BY <1>1
  <1>3. /\ b \in Seq(Granule) /\ Len(b) = Len(d) - (o + s)
        /\ \A k \in 1 .. Len(d) - (o + s) : b[k] = d[o + s + k]
    BY <1>1
  <1> HIDE DEF a, b
  <1>4. /\ r \in Seq(Granule) /\ Len(r) = Len(a) + Len(b)
        /\ \A k \in 1 .. Len(a) + Len(b) : r[k] = IF k <= Len(a) THEN a[k] ELSE b[k - Len(a)]
    <2>1. a \in Seq(Granule) /\ b \in Seq(Granule)
      BY <1>2, <1>3
    <2> QED
      BY <2>1, ConcatProperties
  <1> HIDE DEF r
  <1>5. Len(r) = Len(d) - s
    BY <1>1, <1>2, <1>3, <1>4
  <1>6. ASSUME NEW k \in 1 .. Len(d) - s PROVE r[k] = IF k <= o THEN d[k] ELSE d[k + s]
    <2>1. CASE k <= o
      BY <1>1, <1>2, <1>3, <1>4, <2>1
    <2>2. CASE ~(k <= o)
      <3>1. k - o \in 1 .. Len(d) - (o + s) /\ o + s + (k - o) = k + s
        BY <1>1, <2>2
      <3>2. r[k] = b[k - o]
        BY <1>1, <1>2, <1>3, <1>4, <2>2
      <3> QED
        BY <1>3, <2>2, <3>1, <3>2
    <2> QED
      BY <2>1, <2>2
  <1>7. WithoutData(d, o, s) = r
    BY DEF WithoutData, a, b, r
  <1> QED
    BY <1>4, <1>5, <1>6, <1>7

(* The data of entry i are removed, and those that follow move up.          *)
Cut(L, es, d, w, i, es2, r) ==
    /\ d \in Seq(Granule) /\ Laid(L, es, d, w) /\ i \in L /\ SizeOf(es[i]) > 0
    /\ \A j \in L \ {i} : es2[j] = Moved(es[j], es[i].data, SizeOf(es[i]))
    /\ r = WithoutData(d, es[i].data, SizeOf(es[i]))

(* The data of an entry are removed from the data area.                    *)
LEMMA LaidCut ==
  ASSUME NEW L, NEW es, NEW d, NEW w, NEW i, NEW es2, NEW r,
         Cut(L, es, d, w, i, es2, r)
  PROVE  /\ r \in Seq(Granule) /\ Len(r) = Len(d) - SizeOf(es[i])
         /\ Laid(L \ {i}, es2, r, w)
  <1>a. /\ d \in Seq(Granule) /\ Laid(L, es, d, w) /\ i \in L /\ SizeOf(es[i]) > 0
        /\ \A j \in L \ {i} : es2[j] = Moved(es[j], es[i].data, SizeOf(es[i]))
        /\ r = WithoutData(d, es[i].data, SizeOf(es[i]))
    BY DEF Cut
  <1> USE <1>a
  <1> DEFINE o == es[i].data
             s == SizeOf(es[i])
             m == Len(d)
  <1>1. /\ es[i] \in MetaEntry /\ o \in Nat /\ s \in Nat /\ s > 0 /\ o + s <= m /\ m \in Nat
    <2>1. HoldsAt(es[i], d, w[i])
      BY DEF Laid
    <2>2. es[i] \in MetaEntry /\ o + s <= m
      BY <2>1 DEF HoldsAt
    <2> QED
      BY <2>2, Sizes
  <1> HIDE DEF o, s
  <1>2. /\ r \in Seq(Granule) /\ Len(r) = m - s
        /\ \A k \in 1 .. m - s : r[k] = IF k <= o THEN d[k] ELSE d[k + s]
    <2> DEFINE u == WithoutData(d, o, s)
    <2>1. /\ u \in Seq(Granule) /\ Len(u) = m - s
          /\ \A k \in 1 .. m - s : u[k] = IF k <= o THEN d[k] ELSE d[k + s]
      BY <1>1, WithoutDataIs
    <2>2. r = u
      BY DEF o, s
    <2> HIDE DEF u
    <2> QED
      BY <2>1, <2>2
  <1>3. ASSUME NEW j \in L \ {i}
        PROVE  /\ es[j] \in MetaEntry /\ es2[j] \in MetaEntry
               /\ es2[j].tag = es[j].tag /\ es2[j].count = es[j].count
               /\ SizeOf(es2[j]) = SizeOf(es[j])
               /\ SizeOf(es[j]) \in Nat /\ es[j].data \in Nat
               /\ SizeOf(es[j]) = 0 => es2[j] = es[j]
               /\ SizeOf(es[j]) > 0 => \/ es[j].data + SizeOf(es[j]) <= o /\ es2[j].data = es[j].data
                                       \/ o + s <= es[j].data /\ es2[j].data = es[j].data - s
    <2>1. es[j] \in MetaEntry /\ Disjoint(es[j], es[i])
      BY DEF Laid, HoldsAt
    <2>2. SizeOf(es[j]) \in Nat /\ es[j].data \in Nat
      BY <2>1, Sizes
    <2>3. es2[j] = IF SizeOf(es[j]) > 0 /\ es[j].data > o
                   THEN [es[j] EXCEPT !.data = @ - s] ELSE es[j]
      BY DEF Moved, o, s
    <2>4. SizeOf(es[j]) > 0 => es[j].data + SizeOf(es[j]) <= o \/ o + s <= es[j].data
      BY <1>1, <2>1 DEF Disjoint, o, s
    <2>5. CASE SizeOf(es[j]) > 0 /\ es[j].data > o
      <3>1. o + s <= es[j].data /\ es[j].data - s \in Nat
        BY <1>1, <2>2, <2>4, <2>5
      <3> DEFINE n == es[j].data - s
                 f == [es[j] EXCEPT !.data = n]
      <3>2. es2[j] = f
        BY <2>3, <2>5
      <3>3. f.tag = es[j].tag /\ f.count = es[j].count /\ f.data = n
        BY <2>1 DEF MetaEntry
      <3> HIDE DEF n
      <3>4. f \in MetaEntry /\ SizeOf(f) = SizeOf(es[j])
        BY <2>1, <3>1, Sizes DEF n
      <3> HIDE DEF f
      <3> QED
        BY <2>1, <2>2, <2>5, <3>1, <3>2, <3>3, <3>4 DEF n
    <2>6. CASE ~(SizeOf(es[j]) > 0 /\ es[j].data > o)
      <3>1. es2[j] = es[j]
        BY <2>3, <2>6
      <3> QED
        BY <1>1, <2>1, <2>2, <2>4, <2>6, <3>1
    <2> QED
      BY <2>5, <2>6
  <1>4. ASSUME NEW j \in L \ {i} PROVE HoldsAt(es2[j], r, w[j])
    <2> DEFINE e == es[j]
               f == es2[j]
               n == SizeOf(e)
    <2>1. HoldsAt(e, d, w[j])
      BY DEF Laid
    <2>2. /\ e \in MetaEntry /\ f \in MetaEntry /\ f.tag = e.tag /\ f.count = e.count
          /\ SizeOf(f) = n /\ n \in Nat /\ e.data \in Nat /\ (n = 0 => f = e)
          /\ n > 0 => \/ e.data + n <= o /\ f.data = e.data
                      \/ o + s <= e.data /\ f.data = e.data - s
      BY <1>3
    <2>3. CASE n = 0
      <3>1. f = e /\ ~(SizeOf(f) > 0)
        BY <2>2, <2>3
      <3> QED
        BY <2>1, <3>1 DEF HoldsAt
    <2>4. CASE n > 0
      <3>1. e.data + n <= m /\ \A k \in 1 .. n : d[e.data + k] = <<w[j][3], k>>
        BY <2>1, <2>4 DEF HoldsAt
      <3>2. f.data + n <= Len(r)
        BY <1>1, <1>2, <2>2, <2>4, <3>1
      <3>3. ASSUME NEW k \in 1 .. n PROVE r[f.data + k] = d[e.data + k]
        <4>1. CASE e.data + n <= o /\ f.data = e.data
          <5>1. f.data + k \in 1 .. m - s /\ f.data + k <= o
            BY <1>1, <2>2, <4>1
          <5> QED
            BY <1>2, <4>1, <5>1
        <4>2. CASE o + s <= e.data /\ f.data = e.data - s
          <5> DEFINE x == e.data
                     y == f.data
          <5>1. /\ x \in Nat /\ n \in Nat /\ y = x - s /\ o + s <= x /\ x + n <= m
                /\ k \in 1 .. n /\ m \in Nat
            BY <1>1, <2>2, <3>1, <4>2
          <5> HIDE DEF x, y, n, m, e, f
          <5>2. y + k \in 1 .. m - s /\ ~(y + k <= o) /\ (y + k) + s = x + k
            BY <1>1, <5>1
          <5>3. r[y + k] = d[x + k]
            BY <1>2, <5>2
          <5> QED
            BY <5>3 DEF x, y
        <4> QED
          BY <2>2, <2>4, <4>1, <4>2
      <3>4. \A k \in 1 .. SizeOf(f) : r[f.data + k] = <<w[j][3], k>>
        BY <2>2, <3>1, <3>3
      <3>5. ~(SizeOf(f) = 0)
        BY <2>2, <2>4
      <3> QED
        BY <2>1, <2>2, <3>2, <3>4, <3>5 DEF HoldsAt
    <2> QED
      BY <2>2, <2>3, <2>4
  <1>5. ASSUME NEW j \in L \ {i}, NEW k \in L \ {i}, j # k
        PROVE  Disjoint(es2[j], es2[k])
    <2>1. Disjoint(es[j], es[k])
      BY <1>5 DEF Laid
    <2> SUFFICES ASSUME SizeOf(es2[j]) > 0, SizeOf(es2[k]) > 0
                 PROVE  \/ es2[j].data + SizeOf(es2[j]) <= es2[k].data
                        \/ es2[k].data + SizeOf(es2[k]) <= es2[j].data
      BY DEF Disjoint
    <2>2. /\ SizeOf(es2[j]) = SizeOf(es[j]) /\ SizeOf(es[j]) \in Nat /\ es[j].data \in Nat
          /\ \/ es[j].data + SizeOf(es[j]) <= o /\ es2[j].data = es[j].data
             \/ o + s <= es[j].data /\ es2[j].data = es[j].data - s
      BY <1>3
    <2>3. /\ SizeOf(es2[k]) = SizeOf(es[k]) /\ SizeOf(es[k]) \in Nat /\ es[k].data \in Nat
          /\ \/ es[k].data + SizeOf(es[k]) <= o /\ es2[k].data = es[k].data
             \/ o + s <= es[k].data /\ es2[k].data = es[k].data - s
      BY <1>3
    <2>4. es[j].data + SizeOf(es[j]) <= es[k].data \/ es[k].data + SizeOf(es[k]) <= es[j].data
      BY <2>1, <2>2, <2>3 DEF Disjoint
    <2> DEFINE a == es[j].data
               b == es[k].data
               x == SizeOf(es[j])
               y == SizeOf(es[k])
    <2> HIDE DEF a, b, x, y
    <2>5. /\ a \in Nat /\ b \in Nat /\ x \in Nat /\ y \in Nat
          /\ a + x <= b \/ b + y <= a
      BY <2>2, <2>3, <2>4 DEF a, b, x, y
    <2>6. \/ a + x <= o /\ es2[j].data = a
          \/ o + s <= a /\ es2[j].data = a - s
      BY <2>2 DEF a, x
    <2>7. \/ b + y <= o /\ es2[k].data = b
          \/ o + s <= b /\ es2[k].data = b - s
      BY <2>3 DEF b, y
    <2>8. es2[j].data + x <= es2[k].data \/ es2[k].data + y <= es2[j].data
      BY <1>1, <2>5, <2>6, <2>7
    <2> QED
      BY <2>2, <2>3, <2>8 DEF x, y
  <1>6. ASSUME NEW k \in 1 .. Len(r) PROVE \E j \in L \ {i} : Covers(es2[j], k)
    <2> DEFINE q == IF k <= o THEN k ELSE k + s
    <2>1. q \in 1 .. m /\ ~(o < q /\ q <= o + s)
      BY <1>1, <1>2
    <2> HIDE DEF q
    <2>2. PICK j \in L : Covers(es[j], q)
      BY <2>1 DEF Laid
    <2>3. j # i
      BY <2>1, <2>2 DEF Covers, o, s
    <2>4. SizeOf(es[j]) > 0 /\ es[j].data < q /\ q <= es[j].data + SizeOf(es[j])
      BY <2>2 DEF Covers
    <2>5. /\ SizeOf(es2[j]) = SizeOf(es[j]) /\ SizeOf(es[j]) \in Nat /\ es[j].data \in Nat
          /\ \/ es[j].data + SizeOf(es[j]) <= o /\ es2[j].data = es[j].data
             \/ o + s <= es[j].data /\ es2[j].data = es[j].data - s
      BY <1>3, <2>3, <2>4
    <2>6. SizeOf(es2[j]) > 0 /\ es2[j].data < k /\ k <= es2[j].data + SizeOf(es2[j])
      BY <1>1, <1>2, <2>4, <2>5 DEF q
    <2> QED
      BY <2>3, <2>6 DEF Covers
  <1>7. Laid(L \ {i}, es2, r, w)
    BY <1>4, <1>5, <1>6 DEF Laid
  <1> QED
    BY <1>2, <1>7 DEF o, s

(* An entry for y whose data, if it has any, go to the end of n granules.   *)
Fresh(f, y, n) ==
    /\ f \in MetaEntry /\ y \in Written /\ f.tag = y[1] /\ f.count = y[2]
    /\ SizeOf(f) > 0 => f.data = n
    /\ SizeOf(f) = 0 => f.data = IF f.count = 0 THEN 0 ELSE y[3]

(* Entry i is new, or written anew.                                        *)
Put(L, es, d, w, i, es2, r, w2) ==
    /\ d \in Seq(Granule) /\ Laid(L, es, d, w) /\ i \notin L
    /\ \A j \in L : es2[j] = es[j] /\ w2[j] = w[j]
    /\ Fresh(es2[i], w2[i], Len(d))
    /\ r = d \o Payload(w2[i][3], SizeOf(es2[i]))

(* What is moved by the same distance keeps its order.                     *)
LEMMA ShiftBoth ==
  ASSUME NEW a \in Nat, NEW s \in Nat, NEW c \in Nat, NEW p \in Nat
  PROVE  a + s <= c => (a + p) + s <= c + p
  OBVIOUS

(* What is moved behind p is behind all that was before p.                 *)
LEMMA ShiftAbove ==
  ASSUME NEW a \in Nat, NEW c \in Nat, NEW p \in Nat
  PROVE  a <= p => a <= c + p
  OBVIOUS

(* An entry is added, its data at the end of the data area.                *)
LEMMA LaidPut ==
  ASSUME NEW L, NEW es, NEW d, NEW w, NEW i, NEW es2, NEW r, NEW w2,
         Put(L, es, d, w, i, es2, r, w2)
  PROVE  /\ r \in Seq(Granule) /\ Len(r) = Len(d) + SizeOf(es2[i])
         /\ Laid(L \cup {i}, es2, r, w2)
  <1>a. /\ d \in Seq(Granule) /\ Laid(L, es, d, w) /\ i \notin L
        /\ \A j \in L : es2[j] = es[j] /\ w2[j] = w[j]
        /\ Fresh(es2[i], w2[i], Len(d))
        /\ r = d \o Payload(w2[i][3], SizeOf(es2[i]))
    BY DEF Put
  <1> USE <1>a
  <1> DEFINE f == es2[i]
             y == w2[i]
             s == SizeOf(f)
             v == y[3]
             p == Payload(v, s)
             m == Len(d)
  <1>0. f \in MetaEntry /\ y \in Written /\ f.tag = y[1] /\ f.count = y[2] /\ v \in Nat
    BY DEF Fresh, Written
  <1>1. s \in Nat /\ m \in Nat /\ f.data \in Nat
    BY <1>0, Sizes
  <1>2. /\ s > 0 => f.data = m
        /\ s = 0 => f.data = IF f.count = 0 THEN 0 ELSE v
        /\ r = d \o p
    BY DEF Fresh
  <1> HIDE DEF s, v
  <1>3. p \in Seq(Granule) /\ Len(p) = s /\ \A k \in 1 .. s : p[k] = <<v, k>>
    <2>1. p = [k \in 1 .. s |-> <<v, k>>]
      BY DEF Payload
    <2>2. \A k \in 1 .. s : <<v, k>> \in Granule
      BY <1>0, <1>1 DEF Granule
    <2>3. p \in [1 .. s -> Granule] /\ \A k \in 1 .. s : p[k] = <<v, k>>
      BY <2>1, <2>2
    <2> HIDE DEF p
    <2> QED
      BY <1>1, <2>3
  <1> HIDE DEF p
  <1>4. /\ r \in Seq(Granule) /\ Len(r) = m + s
        /\ \A k \in 1 .. m + s : r[k] = IF k <= m THEN d[k] ELSE p[k - m]
    <2> DEFINE u == d \o p
    <2>1. /\ u \in Seq(Granule) /\ Len(u) = Len(d) + Len(p)
          /\ \A k \in 1 .. Len(d) + Len(p) : u[k] = IF k <= Len(d) THEN d[k] ELSE p[k - Len(d)]
      BY <1>3, ConcatProperties
    <2>2. r = u
      BY <1>2
    <2> HIDE DEF u
    <2> QED
      BY <1>3, <2>1, <2>2
  <1>5. ASSUME NEW j \in L PROVE HoldsAt(es2[j], r, w2[j])
    <2>1. HoldsAt(es[j], d, w[j]) /\ es2[j] = es[j] /\ w2[j] = w[j]
      BY DEF Laid
    <2>2. es[j] \in MetaEntry
      BY <2>1 DEF HoldsAt
    <2>3. SizeOf(es[j]) \in Nat /\ es[j].data \in Nat
      BY <2>2, Sizes
    <2>4. ASSUME SizeOf(es[j]) > 0
          PROVE  /\ es[j].data + SizeOf(es[j]) <= Len(r)
                 /\ \A k \in 1 .. SizeOf(es[j]) : r[es[j].data + k] = <<w[j][3], k>>
      <3>1. /\ es[j].data + SizeOf(es[j]) <= m
            /\ \A k \in 1 .. SizeOf(es[j]) : d[es[j].data + k] = <<w[j][3], k>>
        BY <2>1, <2>4 DEF HoldsAt
      <3>2. ASSUME NEW k \in 1 .. SizeOf(es[j]) PROVE r[es[j].data + k] = d[es[j].data + k]
        <4>1. es[j].data + k \in 1 .. m + s /\ es[j].data + k <= m
          BY <1>1, <2>3, <3>1
        <4> QED
          BY <1>4, <4>1
      <3>3. es[j].data + SizeOf(es[j]) <= Len(r)
        BY <1>1, <1>4, <2>3, <3>1
      <3> QED
        BY <3>1, <3>2, <3>3
    <2> QED
      BY <2>1, <2>4 DEF HoldsAt
  <1>6. HoldsAt(f, r, w2[i])
    <2>2. ASSUME s > 0
          PROVE  /\ f.data + s <= Len(r)
                 /\ \A k \in 1 .. s : r[f.data + k] = <<v, k>>
      <3>1. f.data = m
        BY <1>2, <2>2
      <3>2. ASSUME NEW k \in 1 .. s PROVE r[m + k] = <<v, k>>
        <4>1. m + k \in 1 .. m + s /\ ~(m + k <= m) /\ (m + k) - m = k
          BY <1>1
        <4> QED
          BY <1>3, <1>4, <4>1
      <3>3. f.data + s <= Len(r)
        BY <1>1, <1>4, <3>1
      <3> QED
        BY <3>1, <3>2, <3>3
    <2> QED
      BY <1>0, <1>2, <2>2 DEF HoldsAt, s, v
  <1>7. ASSUME NEW j \in L PROVE Disjoint(es2[j], f) /\ Disjoint(f, es2[j])
    <2>1. HoldsAt(es[j], d, w[j]) /\ es2[j] = es[j]
      BY DEF Laid
    <2>2. SizeOf(es[j]) > 0 => es[j].data + SizeOf(es[j]) <= m
      BY <2>1 DEF HoldsAt
    <2> QED
      BY <1>2, <2>1, <2>2 DEF Disjoint, s
  <1>8. \A j, k \in L \cup {i} : j # k => Disjoint(es2[j], es2[k])
    BY <1>7 DEF Laid
  <1>9. ASSUME NEW k \in 1 .. Len(r) PROVE \E j \in L \cup {i} : Covers(es2[j], k)
    <2>1. CASE k <= m
      <3>1. k \in 1 .. m
        BY <1>1, <1>4, <2>1
      <3>2. PICK j \in L : Covers(es[j], k)
        BY <3>1 DEF Laid
      <3> QED
        BY <3>2
    <2>2. CASE ~(k <= m)
      <3>1. s > 0 /\ m < k /\ k <= m + s
        BY <1>1, <1>4, <2>2
      <3>2. Covers(f, k)
        BY <1>2, <3>1 DEF Covers, s
      <3> QED
        BY <3>2
    <2> QED
      BY <2>1, <2>2
  <1>10. \A j \in L \cup {i} : HoldsAt(es2[j], r, w2[j])
    BY <1>5, <1>6
  <1>11. Laid(L \cup {i}, es2, r, w2)
    BY <1>8, <1>9, <1>10 DEF Laid
  <1> QED
    BY <1>4, <1>11 DEF s

(* The entries are taken in the order g.                                   *)
Reordered(L, es, d, w, K, g, es2, w2) ==
    /\ d \in Seq(Granule) /\ Laid(L, es, d, w) /\ g \in [K -> L]
    /\ \A a, b \in K : g[a] = g[b] => a = b
    /\ \A i \in L : \E a \in K : g[a] = i
    /\ \A a \in K : es2[a] = es[g[a]] /\ w2[a] = w[g[a]]

(* The entries in another order, or in other places.                       *)
LEMMA LaidReordered ==
  ASSUME NEW L, NEW es, NEW d, NEW w, NEW K, NEW g, NEW es2, NEW w2,
         Reordered(L, es, d, w, K, g, es2, w2)
  PROVE  Laid(K, es2, d, w2)
  <1>a. /\ d \in Seq(Granule) /\ Laid(L, es, d, w) /\ g \in [K -> L]
        /\ \A a, b \in K : g[a] = g[b] => a = b
        /\ \A i \in L : \E a \in K : g[a] = i
        /\ \A a \in K : es2[a] = es[g[a]] /\ w2[a] = w[g[a]]
    BY DEF Reordered
  <1> USE <1>a
  <1>1. \A a \in K : HoldsAt(es2[a], d, w2[a])
    BY DEF Laid
  <1>2. ASSUME NEW a \in K, NEW b \in K, a # b PROVE Disjoint(es2[a], es2[b])
    <2>1. g[a] \in L /\ g[b] \in L /\ g[a] # g[b]
      BY <1>2
    <2> QED
      BY <2>1 DEF Laid
  <1>3. ASSUME NEW k \in 1 .. Len(d) PROVE \E a \in K : Covers(es2[a], k)
    <2>1. PICK i \in L : Covers(es[i], k)
      BY DEF Laid
    <2>2. PICK a \in K : g[a] = i
      OBVIOUS
    <2> QED
      BY <2>1, <2>2
  <1> QED
    BY <1>1, <1>2, <1>3 DEF Laid

(* What an entry without data elsewhere has in its four bytes.             *)
Inline(count, v) == IF count = 0 THEN 0 ELSE v

(* Entry i gets a value of the size it has.                                *)
InPlace(L, es, d, w, i, es2, r, w2, count, v) ==
    /\ d \in Seq(Granule) /\ Laid(L, es, d, w) /\ i \in L
    /\ count \in Nat /\ v \in Nat
    /\ \A j \in L \ {i} : es2[j] = es[j] /\ w2[j] = w[j]
    /\ DataSize(TagType[es[i].tag], count) = SizeOf(es[i])
    /\ es2[i] = [tag |-> es[i].tag, count |-> count,
                 data |-> IF SizeOf(es[i]) = 0 THEN Inline(count, v) ELSE es[i].data]
    /\ w2[i] = <<es[i].tag, count, v>>
    /\ r = [k \in DOMAIN d |-> IF k - es[i].data \in 1 .. SizeOf(es[i])
                               THEN <<v, k - es[i].data>> ELSE d[k]]

(* A value is replaced by one of the same size.                            *)
LEMMA LaidInPlace ==
  ASSUME NEW L, NEW es, NEW d, NEW w, NEW i, NEW es2, NEW r, NEW w2,
         NEW count, NEW v,
         InPlace(L, es, d, w, i, es2, r, w2, count, v)
  PROVE  r \in Seq(Granule) /\ Len(r) = Len(d) /\ Laid(L, es2, r, w2)
  <1>a. /\ d \in Seq(Granule) /\ Laid(L, es, d, w) /\ i \in L
        /\ count \in Nat /\ v \in Nat
        /\ \A j \in L \ {i} : es2[j] = es[j] /\ w2[j] = w[j]
        /\ DataSize(TagType[es[i].tag], count) = SizeOf(es[i])
        /\ es2[i] = [tag |-> es[i].tag, count |-> count,
                     data |-> IF SizeOf(es[i]) = 0 THEN Inline(count, v) ELSE es[i].data]
        /\ w2[i] = <<es[i].tag, count, v>>
        /\ r = [k \in DOMAIN d |-> IF k - es[i].data \in 1 .. SizeOf(es[i])
                                   THEN <<v, k - es[i].data>> ELSE d[k]]
    BY DEF InPlace
  <1> USE <1>a
  <1> DEFINE o == es[i].data
             s == SizeOf(es[i])
             m == Len(d)
             f == es2[i]
  <1>1. HoldsAt(es[i], d, w[i])
    BY DEF Laid
  <1>2. es[i] \in MetaEntry /\ (s > 0 => o + s <= m) /\ m \in Nat /\ DOMAIN d = 1 .. m
    BY <1>1 DEF HoldsAt
  <1>3. o \in Nat /\ s \in Nat /\ es[i].tag \in MetaTags
    BY <1>2, Sizes
  <1>4. /\ f \in MetaEntry /\ SizeOf(f) = s /\ f.tag = es[i].tag /\ f.count = count
        /\ f.data = IF s = 0 THEN Inline(count, v) ELSE o
    <2>0. Inline(count, v) \in Nat
      BY DEF Inline
    <2>1. f = [tag |-> es[i].tag, count |-> count,
               data |-> IF s = 0 THEN Inline(count, v) ELSE o]
      OBVIOUS
    <2> HIDE DEF f
    <2>2. SizeOf(f) = DataSize(TagType[es[i].tag], count)
      BY <2>1 DEF SizeOf
    <2> HIDE DEF s, o
    <2>3. f \in MetaEntry
      BY <1>3, <2>0, <2>1 DEF MetaEntry
    <2> QED
      BY <2>1, <2>2, <2>3 DEF s
  <1>5. /\ DOMAIN r = 1 .. m
        /\ \A k \in 1 .. m : r[k] = IF k - o \in 1 .. s THEN <<v, k - o>> ELSE d[k]
    BY <1>2
  <1> HIDE DEF o, s, f, m
  <1>6. r \in Seq(Granule) /\ Len(r) = m
    <2>1. ASSUME NEW k \in 1 .. m PROVE r[k] \in Granule
      <3>1. d[k] \in Granule
        BY <1>2
      <3>2. CASE k - o \in 1 .. s
        <4>1. k - o \in Nat
          BY <1>3, <3>2
        <4>2. r[k] = <<v, k - o>>
          BY <1>5, <3>2
        <4> HIDE <1>a
        <4>3. v \in Nat
          BY <1>a
        <4> QED
          BY <4>1, <4>2, <4>3 DEF Granule
      <3> QED
        BY <1>5, <3>1, <3>2
    <2>2. r = [k \in 1 .. m |-> r[k]]
      BY <1>2, <1>5
    <2>3. r \in [1 .. m -> Granule]
      BY <2>1, <2>2
    <2> QED
      BY <1>2, <2>3
  <1>7. ASSUME NEW j \in L \ {i} PROVE HoldsAt(es2[j], r, w2[j])
    <2> DEFINE n == SizeOf(es[j])
               x == es[j].data
    <2>1. HoldsAt(es[j], d, w[j]) /\ es2[j] = es[j] /\ w2[j] = w[j] /\ Disjoint(es[j], es[i])
      BY DEF Laid
    <2>2. es[j] \in MetaEntry
      BY <2>1 DEF HoldsAt
    <2>3. n \in Nat /\ x \in Nat
      BY <2>2, Sizes
    <2>4. ASSUME n > 0
          PROVE  x + n <= Len(r) /\ \A k \in 1 .. n : r[x + k] = <<w[j][3], k>>
      <3>1. x + n <= m /\ \A k \in 1 .. n : d[x + k] = <<w[j][3], k>>
        BY <2>1, <2>4 DEF HoldsAt, m
      <3>2. s > 0 => x + n <= o \/ o + s <= x
        BY <2>1, <2>4 DEF Disjoint, o, s
      <3> HIDE DEF n, x
      <3>3. ASSUME NEW k \in 1 .. n PROVE r[x + k] = d[x + k]
        <4>1. x + k \in 1 .. m /\ ~((x + k) - o \in 1 .. s)
          BY <1>2, <1>3, <2>3, <3>1, <3>2
        <4> QED
          BY <1>5, <4>1
      <3> QED
        BY <1>6, <3>1, <3>3
    <2> QED
      BY <2>1, <2>4 DEF HoldsAt
  <1>8. HoldsAt(f, r, w2[i])
    <2>1. w2[i] \in Written /\ w2[i][1] = es[i].tag /\ w2[i][2] = count /\ w2[i][3] = v
      BY <1>3 DEF Written
    <2>2. ASSUME s > 0
          PROVE  f.data + s <= Len(r) /\ \A k \in 1 .. s : r[f.data + k] = <<v, k>>
      <3>1. f.data = o /\ o + s <= m
        BY <1>2, <1>3, <1>4, <2>2
      <3>2. ASSUME NEW k \in 1 .. s PROVE r[o + k] = <<v, k>>
        <4>1. o + k \in 1 .. m /\ (o + k) - o = k
          BY <1>2, <1>3, <3>1
        <4> QED
          BY <1>5, <4>1
      <3> QED
        BY <1>6, <3>1, <3>2
    <2>3. s = 0 => f.data = IF f.count = 0 THEN 0 ELSE v
      BY <1>4 DEF Inline
    <2> QED
      BY <1>4, <2>1, <2>2, <2>3 DEF HoldsAt
  <1>9. \A j \in L : HoldsAt(es2[j], r, w2[j])
    BY <1>7, <1>8 DEF f
  <1>10. \A j \in L : SizeOf(es2[j]) = SizeOf(es[j]) /\ (SizeOf(es[j]) > 0 => es2[j].data = es[j].data)
    <2>1. s > 0 => f.data = o
      BY <1>3, <1>4
    <2> QED
      BY <1>4, <2>1 DEF f, o, s
  <1>11. \A j, k \in L : j # k => Disjoint(es2[j], es2[k])
    <2> SUFFICES ASSUME NEW j \in L, NEW k \in L, j # k PROVE Disjoint(es2[j], es2[k])
      OBVIOUS
    <2>1. Disjoint(es[j], es[k])
      BY DEF Laid
    <2> QED
      BY <1>10, <2>1 DEF Disjoint
  <1>12. ASSUME NEW k \in 1 .. Len(r) PROVE \E j \in L : Covers(es2[j], k)
    <2>1. PICK j \in L : Covers(es[j], k)
      BY <1>6 DEF Laid, m
    <2> QED
      BY <1>10, <2>1 DEF Covers
  <1> QED
    BY <1>6, <1>9, <1>11, <1>12 DEF Laid, m

(* The entries of a second packet follow those of the first.               *)
Concat(m, es, d, w, n, fs, b, x, es2, w2) ==
    /\ m \in Nat /\ d \in Seq(Granule) /\ Laid(1 .. m, es, d, w)
    /\ n \in Nat /\ b \in Seq(Granule) /\ Laid(1 .. n, fs, b, x)
    /\ \A i \in 1 .. m : es2[i] = es[i] /\ w2[i] = w[i]
    /\ \A i \in 1 .. n :
          /\ w2[m + i] = x[i]
          /\ es2[m + i] = IF SizeOf(fs[i]) > 0
                          THEN [fs[i] EXCEPT !.data = @ + Len(d)] ELSE fs[i]

(* One packet's entries and data after another's.                          *)
LEMMA LaidConcat ==
  ASSUME NEW m, NEW es, NEW d, NEW w, NEW n, NEW fs, NEW b, NEW x, NEW es2, NEW w2,
         Concat(m, es, d, w, n, fs, b, x, es2, w2)
  PROVE  /\ d \o b \in Seq(Granule) /\ Len(d \o b) = Len(d) + Len(b)
         /\ Laid(1 .. m + n, es2, d \o b, w2)
  <1>a. /\ m \in Nat /\ d \in Seq(Granule) /\ Laid(1 .. m, es, d, w)
        /\ n \in Nat /\ b \in Seq(Granule) /\ Laid(1 .. n, fs, b, x)
        /\ \A i \in 1 .. m : es2[i] = es[i] /\ w2[i] = w[i]
        /\ \A i \in 1 .. n :
              /\ w2[m + i] = x[i]
              /\ es2[m + i] = IF SizeOf(fs[i]) > 0
                              THEN [fs[i] EXCEPT !.data = @ + Len(d)] ELSE fs[i]
    BY DEF Concat
  <1> USE <1>a
  <1> DEFINE r == d \o b
             p == Len(d)
             q == Len(b)
  <1>1. p \in Nat /\ q \in Nat
    OBVIOUS
  <1>2. /\ r \in Seq(Granule) /\ Len(r) = p + q
        /\ \A k \in 1 .. p + q : r[k] = IF k <= p THEN d[k] ELSE b[k - p]
    BY ConcatProperties
  <1> HIDE DEF r, p, q
  <1>3. ASSUME NEW i \in 1 .. m
        PROVE  /\ HoldsAt(es2[i], r, w2[i]) /\ es2[i] \in MetaEntry
               /\ SizeOf(es2[i]) > 0 => es2[i].data + SizeOf(es2[i]) <= p
    <2> DEFINE e == es[i]
               s == SizeOf(e)
               o == e.data
    <2>1. HoldsAt(e, d, w[i]) /\ es2[i] = e /\ w2[i] = w[i]
      BY DEF Laid
    <2>2. e \in MetaEntry
      BY <2>1 DEF HoldsAt
    <2>3. s \in Nat /\ o \in Nat
      BY <2>2, Sizes
    <2>4. ASSUME s > 0
          PROVE  o + s <= p /\ o + s <= Len(r) /\ \A k \in 1 .. s : r[o + k] = <<w[i][3], k>>
      <3>1. o + s <= p /\ \A k \in 1 .. s : d[o + k] = <<w[i][3], k>>
        BY <2>1, <2>4 DEF HoldsAt, p
      <3> HIDE DEF o, s, e
      <3>2. ASSUME NEW k \in 1 .. s PROVE r[o + k] = d[o + k]
        <4>1. o + k \in 1 .. p + q /\ o + k <= p
          BY <1>1, <2>3, <3>1
        <4> QED
          BY <1>2, <4>1
      <3>3. o + s <= Len(r)
        BY <1>1, <1>2, <2>3, <3>1
      <3> QED
        BY <3>1, <3>2, <3>3
    <2> QED
      BY <2>1, <2>2, <2>4 DEF HoldsAt
  <1>4. ASSUME NEW i \in 1 .. n
        PROVE  /\ fs[i] \in MetaEntry /\ es2[m + i] \in MetaEntry
               /\ SizeOf(es2[m + i]) = SizeOf(fs[i]) /\ SizeOf(fs[i]) \in Nat /\ fs[i].data \in Nat
               /\ es2[m + i].tag = fs[i].tag /\ es2[m + i].count = fs[i].count
               /\ SizeOf(fs[i]) > 0 => es2[m + i].data = fs[i].data + p
               /\ SizeOf(fs[i]) = 0 => es2[m + i] = fs[i]
    <2> DEFINE e == fs[i]
               f == es2[m + i]
               k == e.data + p
               g == [e EXCEPT !.data = k]
    <2>1. HoldsAt(e, b, x[i])
      BY DEF Laid
    <2>2. e \in MetaEntry
      BY <2>1 DEF HoldsAt
    <2>3. SizeOf(e) \in Nat /\ e.data \in Nat
      BY <2>2, Sizes
    <2>4. k \in Nat
      BY <1>1, <2>3
    <2>5. f = IF SizeOf(e) > 0 THEN g ELSE e
      BY DEF p
    <2> HIDE DEF f, e
    <2>6. g.tag = e.tag /\ g.count = e.count /\ g.data = k
      BY <2>2 DEF MetaEntry
    <2> HIDE DEF k
    <2>7. g \in MetaEntry /\ SizeOf(g) = SizeOf(e)
      BY <2>2, <2>4, Sizes
    <2> HIDE DEF g
    <2>8. /\ e \in MetaEntry /\ f \in MetaEntry /\ SizeOf(f) = SizeOf(e) /\ SizeOf(e) \in Nat
          /\ e.data \in Nat /\ f.tag = e.tag /\ f.count = e.count
          /\ SizeOf(e) > 0 => f.data = k
          /\ SizeOf(e) = 0 => f = e
      BY <2>2, <2>3, <2>5, <2>6, <2>7
    <2> QED
      BY <2>8 DEF e, f, k
  <1>5. ASSUME NEW i \in 1 .. n PROVE HoldsAt(es2[m + i], r, w2[m + i])
    <2> DEFINE e == fs[i]
               f == es2[m + i]
               s == SizeOf(e)
               o == e.data
    <2>1. HoldsAt(e, b, x[i]) /\ w2[m + i] = x[i]
      BY DEF Laid
    <2>2. /\ e \in MetaEntry /\ f \in MetaEntry /\ SizeOf(f) = s /\ s \in Nat /\ o \in Nat
          /\ f.tag = e.tag /\ f.count = e.count
          /\ s > 0 => f.data = o + p
          /\ s = 0 => f = e
      BY <1>4
    <2>3. ASSUME s > 0
          PROVE  f.data + s <= Len(r) /\ \A k \in 1 .. s : r[f.data + k] = <<x[i][3], k>>
      <3>1. o + s <= q /\ \A k \in 1 .. s : b[o + k] = <<x[i][3], k>>
        BY <2>1, <2>3 DEF HoldsAt, q
      <3> HIDE DEF o, s, e, f
      <3>2. ASSUME NEW k \in 1 .. s PROVE r[(o + p) + k] = b[o + k]
        <4>1. (o + p) + k \in 1 .. p + q /\ ~((o + p) + k <= p) /\ ((o + p) + k) - p = o + k
          BY <1>1, <2>2, <3>1
        <4> QED
          BY <1>2, <4>1
      <3>3. (o + p) + s <= Len(r)
        BY <1>1, <1>2, <2>2, <3>1
      <3> QED
        BY <2>2, <2>3, <3>1, <3>2, <3>3
    <2> QED
      BY <2>1, <2>2, <2>3 DEF HoldsAt
  <1>6. \A i \in 1 .. m + n : i \in 1 .. m \/ (i - m \in 1 .. n /\ m + (i - m) = i)
    OBVIOUS
  <1>7. ASSUME NEW i \in 1 .. m + n PROVE HoldsAt(es2[i], r, w2[i])
    BY <1>3, <1>5, <1>6
  <1>8. ASSUME NEW i \in 1 .. n, NEW j \in 1 .. n, i # j PROVE Disjoint(es2[m + i], es2[m + j])
    <2>1. Disjoint(fs[i], fs[j])
      BY <1>8 DEF Laid
    <2> DEFINE a == fs[i].data
               c == fs[j].data
               s == SizeOf(fs[i])
               t == SizeOf(fs[j])
    <2>2. /\ a \in Nat /\ c \in Nat /\ s \in Nat /\ t \in Nat
          /\ SizeOf(es2[m + i]) = s /\ SizeOf(es2[m + j]) = t
          /\ s > 0 => es2[m + i].data = a + p
          /\ t > 0 => es2[m + j].data = c + p
          /\ s > 0 /\ t > 0 => a + s <= c \/ c + t <= a
      BY <1>4, <2>1 DEF Disjoint
    <2> HIDE DEF a, c, s, t
    <2>3. s > 0 /\ t > 0 => (a + p) + s <= c + p \/ (c + p) + t <= a + p
      <3>1. p \in Nat
        BY <1>1
      <3>2. /\ a + s <= c => (a + p) + s <= c + p
            /\ c + t <= a => (c + p) + t <= a + p
        BY <2>2, <3>1, ShiftBoth
      <3> QED
        BY <2>2, <3>2
    <2> QED
      BY <2>2, <2>3 DEF Disjoint
  <1>9. ASSUME NEW i \in 1 .. m, NEW j \in 1 .. n
        PROVE  Disjoint(es2[i], es2[m + j]) /\ Disjoint(es2[m + j], es2[i])
    <2> DEFINE c == fs[j].data
               a == es2[i].data + SizeOf(es2[i])
    <2>1. /\ c \in Nat
          /\ SizeOf(es2[m + j]) > 0 => es2[m + j].data = c + p
      BY <1>4
    <2>2. SizeOf(es2[i]) > 0 => a <= p
      BY <1>3
    <2>3. a \in Nat
      BY <1>3, Sizes
    <2> HIDE DEF c
    <2> HIDE DEF a
    <2>4. SizeOf(es2[i]) > 0 /\ SizeOf(es2[m + j]) > 0 => a <= es2[m + j].data
      <3>1. p \in Nat
        BY <1>1
      <3>2. a <= p => a <= c + p
        BY <2>1, <2>3, <3>1, ShiftAbove
      <3> QED
        BY <2>1, <2>2, <3>2
    <2> USE DEF a
    <2> QED
      BY <2>4 DEF Disjoint
  <1>10. ASSUME NEW i \in 1 .. m + n, NEW j \in 1 .. m + n, i # j PROVE Disjoint(es2[i], es2[j])
    <2>1. CASE i \in 1 .. m /\ j \in 1 .. m
      BY <1>10, <2>1 DEF Laid
    <2>2. CASE i \in 1 .. m /\ j \notin 1 .. m
      BY <1>6, <1>9, <2>2
    <2>3. CASE i \notin 1 .. m /\ j \in 1 .. m
      BY <1>6, <1>9, <2>3
    <2>4. CASE i \notin 1 .. m /\ j \notin 1 .. m
      <3>1. i - m \in 1 .. n /\ j - m \in 1 .. n /\ i - m # j - m
        BY <1>6, <1>10, <2>4
      <3> QED
        BY <1>6, <1>8, <2>4, <3>1
    <2> QED
      BY <2>1, <2>2, <2>3, <2>4
  <1>11. ASSUME NEW k \in 1 .. Len(r) PROVE \E i \in 1 .. m + n : Covers(es2[i], k)
    <2>1. CASE k <= p
      <3>1. k \in 1 .. p
        BY <1>1, <1>2, <2>1
      <3>2. PICK i \in 1 .. m : Covers(es[i], k)
        BY <3>1 DEF Laid, p
      <3>3. i \in 1 .. m + n
        OBVIOUS
      <3> QED
        BY <3>2, <3>3
    <2>2. CASE ~(k <= p)
      <3>1. k - p \in 1 .. q /\ k \in Nat
        BY <1>1, <1>2, <2>2
      <3>2. PICK i \in 1 .. n : Covers(fs[i], k - p)
        BY <3>1 DEF Laid, q
      <3> DEFINE s == SizeOf(fs[i])
                 c == fs[i].data
      <3>3. /\ s > 0 /\ c < k - p /\ k - p <= c + s /\ s \in Nat /\ c \in Nat
            /\ SizeOf(es2[m + i]) = s /\ es2[m + i].data = c + p
        BY <1>4, <3>2 DEF Covers
      <3> HIDE DEF s, c
      <3>4. c + p < k /\ k <= (c + p) + s
        BY <1>1, <3>1, <3>3
      <3>5. Covers(es2[m + i], k)
        BY <3>3, <3>4 DEF Covers
      <3>6. m + i \in 1 .. m + n
        OBVIOUS
      <3> QED
        BY <3>5, <3>6
    <2> QED
      BY <2>1, <2>2
  <1>12. Laid(1 .. m + n, es2, r, w2)
    BY <1>7, <1>10, <1>11 DEF Laid
  <1> QED
    BY <1>2, <1>12 DEF r, p, q

MetaPacket == [entries : Seq(MetaEntry), data : Seq(Granule), sorted : BOOLEAN,
               entryCapacity : Nat, dataCapacity : Nat]

PacketFields == {"entries", "data", "sorted", "entryCapacity", "dataCapacity"}

(* The entries of a packet that is marked sorted are sorted.               *)
MarkHolds(m) ==
    m.sorted =>
        \A i, j \in DOMAIN m.entries : i < j => m.entries[i].tag <= m.entries[j].tag

(* A packet within its capacities in which w was written.                  *)
Holds(m, w) ==
    /\ m \in MetaPacket /\ w \in Seq(Written) /\ Len(w) = Len(m.entries)
    /\ Len(m.entries) <= m.entryCapacity /\ Len(m.data) <= m.dataCapacity
    /\ Laid(1 .. Len(m.entries), m.entries, m.data, w)

(* An assertion fails when, and only when, an entry was emptied; until     *)
(* then the packets are in order.                                          *)
MetaInv ==
    /\ calls \in Nat /\ (aborted <=> emptied)
    /\ packet = [p \in Packets |-> packet[p]] /\ written = [p \in Packets |-> written[p]]
    /\ ~aborted => \A p \in Packets :
                      /\ Holds(packet[p], written[p])
                      /\ p \notin mismarked => MarkHolds(packet[p])

(* The fields of a packet.                                                 *)
LEMMA PacketHas ==
  ASSUME NEW m, NEW w, Holds(m, w)
  PROVE  /\ m = [f \in PacketFields |-> m[f]]
         /\ m.entries \in Seq(MetaEntry) /\ m.data \in Seq(Granule) /\ m.sorted \in BOOLEAN
         /\ m.entryCapacity \in Nat /\ m.dataCapacity \in Nat
         /\ w \in Seq(Written) /\ Len(w) = Len(m.entries)
         /\ Len(m.entries) <= m.entryCapacity /\ Len(m.data) <= m.dataCapacity
         /\ Len(m.entries) \in Nat /\ Len(m.data) \in Nat
         /\ DOMAIN m.entries = 1 .. Len(m.entries) /\ DOMAIN w = 1 .. Len(m.entries)
         /\ DOMAIN m.data = 1 .. Len(m.data)
         /\ Laid(1 .. Len(m.entries), m.entries, m.data, w)
  <1>1. /\ m \in MetaPacket /\ w \in Seq(Written) /\ Len(w) = Len(m.entries)
        /\ Len(m.entries) <= m.entryCapacity /\ Len(m.data) <= m.dataCapacity
        /\ Laid(1 .. Len(m.entries), m.entries, m.data, w)
    BY DEF Holds
  <1>2. /\ m.entries \in Seq(MetaEntry) /\ m.data \in Seq(Granule) /\ m.sorted \in BOOLEAN
        /\ m.entryCapacity \in Nat /\ m.dataCapacity \in Nat
    BY <1>1 DEF MetaPacket
  <1>3. /\ Len(m.entries) \in Nat /\ Len(m.data) \in Nat
        /\ DOMAIN m.entries = 1 .. Len(m.entries) /\ DOMAIN m.data = 1 .. Len(m.data)
    BY <1>2
  <1>4. DOMAIN w = 1 .. Len(m.entries)
    BY <1>1
  <1>5. m = [f \in PacketFields |-> m[f]]
    BY <1>1 DEF MetaPacket, PacketFields
  <1> QED
    BY <1>1, <1>2, <1>3, <1>4, <1>5

(* A packet made of its fields.                                            *)
LEMMA PacketMade ==
  ASSUME NEW m, m = [f \in PacketFields |-> m[f]],
         NEW es \in Seq(MetaEntry), NEW d \in Seq(Granule), NEW w \in Seq(Written),
         m.entries = es, m.data = d, m.sorted \in BOOLEAN,
         m.entryCapacity \in Nat, m.dataCapacity \in Nat, Len(w) = Len(es),
         Len(es) <= m.entryCapacity, Len(d) <= m.dataCapacity, Laid(1 .. Len(es), es, d, w)
  PROVE  Holds(m, w)
  <1>1. m = [entries |-> m.entries, data |-> m.data, sorted |-> m.sorted,
             entryCapacity |-> m.entryCapacity, dataCapacity |-> m.dataCapacity]
    BY DEF PacketFields
  <1>2. m \in MetaPacket
    BY <1>1 DEF MetaPacket
  <1> QED
    BY <1>2 DEF Holds

(* A new packet.                                                           *)
LEMMA AllocatedHolds ==
  ASSUME NEW ec \in Nat, NEW dc \in Nat
  PROVE  Holds(Allocated(ec, dc), <<>>) /\ MarkHolds(Allocated(ec, dc))
  <1>1. /\ <<>> \in Seq(MetaEntry) /\ <<>> \in Seq(Granule) /\ <<>> \in Seq(Written)
        /\ Len(<<>>) = 0 /\ 0 <= ec /\ 0 <= dc /\ FALSE \in BOOLEAN
    OBVIOUS
  <1>2. Laid(1 .. 0, <<>>, <<>>, <<>>)
    BY DEF Laid
  <1> DEFINE m == Allocated(ec, dc)
             e == <<>>
  <1>3. /\ m = [f \in PacketFields |-> m[f]] /\ m.entries = e /\ m.data = e
        /\ m.sorted = FALSE /\ m.entryCapacity = ec /\ m.dataCapacity = dc
    BY DEF Allocated, PacketFields
  <1> HIDE DEF m, e
  <1>4. /\ e \in Seq(MetaEntry) /\ e \in Seq(Granule) /\ e \in Seq(Written)
        /\ Len(e) = 0 /\ Laid(1 .. 0, e, e, e)
    BY <1>1, <1>2 DEF e
  <1>5. m.sorted \in BOOLEAN
    BY <1>3
  <1>6. Len(e) <= m.entryCapacity /\ Len(e) <= m.dataCapacity
    BY <1>1, <1>3, <1>4
  <1>7. MarkHolds(m)
    BY <1>3 DEF MarkHolds
  <1>8. Holds(m, e)
    BY <1>3, <1>4, <1>5, <1>6, PacketMade
  <1> QED
    BY <1>7, <1>8 DEF m, e

(* What a packet in order promises.                                        *)
LEMMA HoldsImplies ==
  ASSUME NEW m, NEW w, Holds(m, w)
  PROVE  Valid(m) /\ ReadsBack(m, w) /\ Dense(m)
  <1> DEFINE es == m.entries
             d == m.data
             n == Len(es)
  <1>1. /\ es \in Seq(MetaEntry) /\ d \in Seq(Granule)
        /\ m.entryCapacity \in Nat /\ m.dataCapacity \in Nat
        /\ w \in Seq(Written) /\ Len(w) = n /\ n <= m.entryCapacity
        /\ Len(d) <= m.dataCapacity /\ n \in Nat /\ Len(d) \in Nat
        /\ DOMAIN es = 1 .. n /\ DOMAIN d = 1 .. Len(d) /\ Laid(1 .. n, es, d, w)
    BY PacketHas
  <1>2. ASSUME NEW i \in 1 .. n
        PROVE  /\ HoldsAt(es[i], d, w[i]) /\ es[i] \in MetaEntry /\ w[i] \in Written
               /\ SizeOf(es[i]) \in Nat /\ es[i].data \in Nat
               /\ es[i].count * TypeSize[TagType[es[i].tag]] > 4 <=> SizeOf(es[i]) > 0
               /\ es[i].count = 0 => SizeOf(es[i]) = 0
    <2>1. HoldsAt(es[i], d, w[i]) /\ es[i] \in MetaEntry /\ w[i] \in Written
      BY <1>1 DEF Laid, HoldsAt
    <2> QED
      BY <2>1, Sizes
  <1>3. Valid(m)
    <2>1. ASSUME NEW i \in DOMAIN m.entries
          PROVE  /\ SizeOf(es[i]) > 0 => es[i].data + SizeOf(es[i]) <= m.dataCapacity
                 /\ es[i].count = 0 => es[i].data = 0
      <3>1. i \in 1 .. n
        BY <1>1
      <3>2. /\ SizeOf(es[i]) > 0 => es[i].data + SizeOf(es[i]) <= Len(d)
            /\ SizeOf(es[i]) = 0 => es[i].data = IF es[i].count = 0 THEN 0 ELSE w[i][3]
        BY <1>2, <3>1 DEF HoldsAt
      <3>3. es[i].count = 0 => es[i].data = 0
        BY <1>2, <3>1, <3>2
      <3>4. SizeOf(es[i]) \in Nat /\ es[i].data \in Nat
        BY <1>2, <3>1
      <3> QED
        BY <1>1, <3>2, <3>3, <3>4
    <2> QED
      BY <1>1, <2>1 DEF Valid
  <1>4. ReadsBack(m, w)
    <2> SUFFICES ASSUME NEW i \in 1 .. n
                 PROVE  LET size == DataSize(TagType[w[i][1]], w[i][2]) IN
                        ReadMetadata(m, i) =
                          <<w[i][1], w[i][2], IF size > 0 THEN Payload(w[i][3], size)
                                              ELSE IF w[i][2] = 0 THEN <<0>> ELSE <<w[i][3]>>>>
      BY <1>1 DEF ReadsBack
    <2> DEFINE e == es[i]
               s == SizeOf(e)
               o == e.data
               v == w[i][3]
    <2>1. /\ e.tag = w[i][1] /\ e.count = w[i][2]
          /\ s > 0 => o + s <= Len(d) /\ \A k \in 1 .. s : d[o + k] = <<v, k>>
          /\ s = 0 => o = IF e.count = 0 THEN 0 ELSE v
      BY <1>2 DEF HoldsAt
    <2>2. s = DataSize(TagType[w[i][1]], w[i][2])
      BY <2>1 DEF SizeOf
    <2>3. s \in Nat /\ o \in Nat
      BY <1>2
    <2>4. ReadMetadata(m, i) = <<e.tag, e.count, IF s > 0 THEN SubSeq(d, o + 1, o + s) ELSE <<o>>>>
      BY <1>2 DEF ReadMetadata
    <2>5. CASE s > 0
      <3> DEFINE a == SubSeq(d, o + 1, o + s)
                 b == Payload(v, s)
      <3>1. o + s <= Len(d) /\ \A k \in 1 .. s : d[o + k] = <<v, k>>
        BY <2>1, <2>5
      <3> HIDE DEF o, s, v
      <3>2. \A k \in o + 1 .. o + s : d[k] \in Granule
        BY <1>1, <2>3, <3>1
      <3>3. /\ a \in Seq(Granule) /\ Len(a) = s /\ \A k \in 1 .. s : a[k] = d[o + k]
        BY <1>1, <2>3, <3>1
      <3>4. b = [k \in 1 .. s |-> <<v, k>>]
        BY DEF Payload
      <3> HIDE DEF a, b
      <3>5. a = [k \in 1 .. s |-> a[k]]
        BY <2>3, <3>3
      <3>6. a = b
        BY <3>1, <3>3, <3>4, <3>5
      <3> QED
        BY <2>1, <2>2, <2>4, <2>5, <3>6 DEF a, b, v
    <2>6. CASE s = 0
      <3>1. ~(s > 0) /\ o = IF e.count = 0 THEN 0 ELSE v
        BY <2>1, <2>6
      <3> QED
        BY <2>1, <2>2, <2>4, <3>1
    <2> QED
      BY <2>3, <2>5, <2>6
  <1>5. Dense(m)
    <2> SUFFICES ASSUME NEW k \in 1 .. Len(d)
                 PROVE  \E i \in 1 .. n :
                           /\ SizeOf(es[i]) > 0
                           /\ k \in es[i].data + 1 .. es[i].data + SizeOf(es[i])
                           /\ \A j \in 1 .. n \ {i} : SizeOf(es[j]) > 0 =>
                                 k \notin es[j].data + 1 .. es[j].data + SizeOf(es[j])
      BY <1>1 DEF Dense
    <2>1. PICK i \in 1 .. n : Covers(es[i], k)
      BY <1>1 DEF Laid
    <2>2. /\ SizeOf(es[i]) > 0 /\ es[i].data < k /\ k <= es[i].data + SizeOf(es[i])
          /\ es[i].data \in Nat /\ SizeOf(es[i]) \in Nat
      BY <1>2, <2>1 DEF Covers
    <2>3. k \in es[i].data + 1 .. es[i].data + SizeOf(es[i])
      BY <2>2
    <2>4. ASSUME NEW j \in 1 .. n \ {i}, SizeOf(es[j]) > 0
          PROVE  k \notin es[j].data + 1 .. es[j].data + SizeOf(es[j])
      <3>1. Disjoint(es[i], es[j])
        BY <1>1 DEF Laid
      <3>2. es[j].data \in Nat /\ SizeOf(es[j]) \in Nat
        BY <1>2
      <3>3. \/ es[i].data + SizeOf(es[i]) <= es[j].data
            \/ es[j].data + SizeOf(es[j]) <= es[i].data
        BY <2>2, <2>4, <3>1 DEF Disjoint
      <3> QED
        BY <2>2, <3>2, <3>3
    <2> QED
      BY <2>2, <2>3, <2>4
  <1> QED
    BY <1>3, <1>4, <1>5

(* A call that leaves a packet in order.                                   *)
LEMMA CallKeeps ==
  ASSUME MetaInv, NEW p \in Packets, NEW m, NEW w, NEW bad, Call(p, m, w, bad),
         Holds(m, w), ~bad => MarkHolds(m), emptied' <=> emptied
  PROVE  MetaInv'
  <1>1. /\ calls' = calls + 1 /\ packet' = [packet EXCEPT ![p] = m]
        /\ written' = [written EXCEPT ![p] = w] /\ ~aborted
        /\ aborted' = ~Valid(m)
        /\ mismarked' = IF bad THEN mismarked \cup {p} ELSE mismarked \ {p}
    BY DEF Call
  <1>2. /\ packet' = [q \in Packets |-> packet'[q]] /\ written' = [q \in Packets |-> written'[q]]
        /\ packet'[p] = m /\ written'[p] = w
        /\ \A q \in Packets \ {p} : packet'[q] = packet[q] /\ written'[q] = written[q]
    BY <1>1 DEF MetaInv
  <1>3. calls' \in Nat
    BY <1>1 DEF MetaInv
  <1>4. ~aborted' /\ ~emptied'
    <2>1. Valid(m)
      BY HoldsImplies
    <2> QED
      BY <1>1, <2>1 DEF MetaInv
  <1>5. \A q \in Packets : Holds(packet[q], written[q])
    BY <1>1 DEF MetaInv
  <1>6. \A q \in Packets : Holds(packet'[q], written'[q])
    BY <1>2, <1>5
  <1>7. ASSUME NEW q \in Packets, q \notin mismarked' PROVE MarkHolds(packet'[q])
    <2>1. CASE q = p
      <3>1. ~bad
        BY <1>1, <1>7, <2>1
      <3> QED
        BY <1>2, <2>1, <3>1
    <2>2. CASE q # p
      <3>1. q \notin mismarked
        BY <1>1, <1>7, <2>2
      <3>2. MarkHolds(packet[q])
        BY <1>1, <3>1 DEF MetaInv
      <3> QED
        BY <1>2, <2>2, <3>2
    <2> QED
      BY <2>1, <2>2
  <1> QED
    BY <1>2, <1>3, <1>4, <1>6, <1>7 DEF MetaInv

(* A call that fails the assertion at its end.                             *)
LEMMA CallAborts ==
  ASSUME MetaInv, NEW p \in Packets, NEW m, NEW w, NEW bad, Call(p, m, w, bad),
         NEW i \in DOMAIN m.entries, m.entries[i].count = 0, m.entries[i].data # 0,
         emptied'
  PROVE  MetaInv'
  <1>1. /\ calls' = calls + 1 /\ packet' = [packet EXCEPT ![p] = m]
        /\ written' = [written EXCEPT ![p] = w] /\ aborted' = ~Valid(m)
    BY DEF Call
  <1>2. /\ packet' = [q \in Packets |-> packet'[q]] /\ written' = [q \in Packets |-> written'[q]]
    BY <1>1 DEF MetaInv
  <1>2a. calls' \in Nat
    BY <1>1 DEF MetaInv
  <1>3. ~Valid(m)
    BY DEF Valid
  <1> QED
    BY <1>1, <1>2, <1>2a, <1>3 DEF MetaInv

(* add_camera_metadata_entry()                                             *)
LEMMA MetaAdds ==
  ASSUME MetaInv, NEW p \in Packets, NEW tag \in MetaTags, NEW count \in MetaCounts,
         AddMetadata(p, tag, count)
  PROVE  MetaInv'
  <1> DEFINE m == packet[p]
             w == written[p]
             v == Value
             size == DataSize(TagType[tag], count)
             entry == [tag |-> tag, count |-> count,
                       data |-> IF size > 0 THEN Len(m.data)
                                ELSE IF count = 0 THEN 0 ELSE v]
             es == Append(m.entries, entry)
             d == m.data \o Payload(v, size)
             x == Append(w, <<tag, count, v>>)
             n == Len(m.entries)
  <1>1. Holds(m, w) /\ v \in Nat
    BY DEF MetaInv, Value, AddMetadata, Call
  <1>2. count \in Nat
    BY MetaAssumption
  <1>3. /\ n # m.entryCapacity /\ Len(m.data) + size <= m.dataCapacity
        /\ Call(p, [m EXCEPT !.entries = es, !.data = d, !.sorted = FALSE], x, FALSE)
        /\ emptied' = emptied
    BY DEF AddMetadata
  <1>4. /\ m.entries \in Seq(MetaEntry) /\ m.data \in Seq(Granule)
        /\ m.entryCapacity \in Nat /\ m.dataCapacity \in Nat
        /\ w \in Seq(Written) /\ Len(w) = n /\ n <= m.entryCapacity
        /\ n \in Nat /\ Len(m.data) \in Nat
        /\ Laid(1 .. n, m.entries, m.data, w)
    BY <1>1, PacketHas
  <1>5. m = [f \in PacketFields |-> m[f]]
    BY <1>1, PacketHas
  <1>6. size \in Nat
    BY <1>2, DataSizeNat
  <1> HIDE DEF m, w, v, size
  <1>7. entry \in MetaEntry
    BY <1>1, <1>2, <1>4, <1>6 DEF MetaEntry
  <1>8. <<tag, count, v>> \in Written
    BY <1>1, <1>2 DEF Written
  <1> DEFINE y == <<tag, count, v>>
  <1> HIDE DEF entry, n, y
  <1>9. /\ es \in Seq(MetaEntry) /\ Len(es) = n + 1 /\ es[n + 1] = entry
        /\ \A j \in 1 .. n : es[j] = m.entries[j]
    BY <1>4, <1>7, AppendProperties DEF n
  <1>10. /\ x \in Seq(Written) /\ Len(x) = n + 1 /\ x[n + 1] = y
         /\ \A j \in 1 .. n : x[j] = w[j]
    <2>1. x = Append(w, y) /\ y \in Written
      BY <1>8 DEF y
    <2> HIDE DEF x
    <2> QED
      BY <1>4, <2>1, AppendProperties
  <1> HIDE DEF es, x
  <1>11. /\ d \in Seq(Granule) /\ Len(d) = Len(m.data) + size
         /\ Laid(1 .. n \cup {n + 1}, es, d, x)
    <2>1. n + 1 \notin 1 .. n /\ \A j \in 1 .. n : es[j] = m.entries[j] /\ x[j] = w[j]
      BY <1>4, <1>9, <1>10
    <2>2. /\ entry.tag = tag /\ entry.count = count /\ SizeOf(entry) = size
          /\ size > 0 => entry.data = Len(m.data)
          /\ size = 0 => entry.data = IF count = 0 THEN 0 ELSE v
      BY <1>6 DEF entry, SizeOf, size
    <2>3. y \in Written /\ y[1] = tag /\ y[2] = count /\ y[3] = v
      BY <1>8 DEF y
    <2>4. Fresh(es[n + 1], x[n + 1], Len(m.data))
      BY <1>7, <1>9, <1>10, <2>2, <2>3 DEF Fresh
    <2>5. d = m.data \o Payload(x[n + 1][3], SizeOf(es[n + 1]))
      BY <1>9, <1>10, <2>2, <2>3
    <2>6. Put(1 .. n, m.entries, m.data, w, n + 1, es, d, x)
      BY <1>4, <2>1, <2>4, <2>5 DEF Put
    <2> HIDE DEF d
    <2>7. /\ d \in Seq(Granule) /\ Len(d) = Len(m.data) + SizeOf(es[n + 1])
          /\ Laid(1 .. n \cup {n + 1}, es, d, x)
      BY <2>6, LaidPut
    <2> QED
      BY <1>9, <2>2, <2>7
  <1>12. 1 .. n \cup {n + 1} = 1 .. Len(es) /\ Len(es) <= m.entryCapacity /\ Len(x) = Len(es)
    BY <1>3, <1>4, <1>9, <1>10
  <1> HIDE DEF d
  <1> DEFINE k == [m EXCEPT !.entries = es, !.data = d, !.sorted = FALSE]
  <1>13. /\ k = [f \in PacketFields |-> k[f]] /\ k.entries = es /\ k.data = d
         /\ k.sorted = FALSE /\ k.entryCapacity = m.entryCapacity
         /\ k.dataCapacity = m.dataCapacity
    BY <1>5 DEF PacketFields
  <1>14. Call(p, k, x, FALSE)
    BY <1>3
  <1> HIDE DEF k
  <1>15. Holds(k, x)
    <2>1. Len(d) <= m.dataCapacity /\ Laid(1 .. Len(es), es, d, x) /\ k.sorted \in BOOLEAN
      BY <1>3, <1>11, <1>12, <1>13
    <2> QED
      BY <1>4, <1>9, <1>10, <1>11, <1>12, <1>13, <2>1, PacketMade
  <1>16. MarkHolds(k)
    BY <1>13 DEF MarkHolds
  <1> QED
    BY <1>3, <1>14, <1>15, <1>16, CallKeeps

(* The mark says nothing about what is not a tag.                          *)
LEMMA MarkKept ==
  ASSUME NEW m, NEW k, MarkHolds(m), k.sorted = m.sorted, DOMAIN k.entries = DOMAIN m.entries,
         \A i \in DOMAIN m.entries : k.entries[i].tag = m.entries[i].tag
  PROVE  MarkHolds(k)
  BY DEF MarkHolds

(* The entries and the data that are left without those of entry i.        *)
LeftEntries(m, i) ==
    IF SizeOf(m.entries[i]) = 0 THEN m.entries
    ELSE Shifted(m.entries, m.entries[i].data, SizeOf(m.entries[i]))

LeftData(m, i) ==
    IF SizeOf(m.entries[i]) = 0 THEN m.data
    ELSE WithoutData(m.data, m.entries[i].data, SizeOf(m.entries[i]))

(* They hold what the other entries held.                                  *)
LEMMA MetaLeft ==
  ASSUME NEW m, NEW w, Holds(m, w), NEW i \in 1 .. Len(m.entries)
  PROVE  /\ LeftEntries(m, i) \in Seq(MetaEntry) /\ Len(LeftEntries(m, i)) = Len(m.entries)
         /\ LeftEntries(m, i)[i] = m.entries[i]
         /\ \A j \in 1 .. Len(m.entries) : LeftEntries(m, i)[j].tag = m.entries[j].tag
         /\ LeftData(m, i) \in Seq(Granule)
         /\ SizeOf(m.entries[i]) \in Nat /\ m.entries[i] \in MetaEntry
         /\ Len(LeftData(m, i)) = Len(m.data) - SizeOf(m.entries[i])
         /\ Laid(1 .. Len(m.entries) \ {i}, LeftEntries(m, i), LeftData(m, i), w)
  <1> DEFINE es == m.entries
             d == m.data
             n == Len(es)
             o == es[i].data
             s == SizeOf(es[i])
             L == 1 .. n
  <1>1. /\ es \in Seq(MetaEntry) /\ d \in Seq(Granule) /\ n \in Nat /\ DOMAIN es = L
        /\ Len(d) \in Nat /\ Laid(L, es, d, w)
    BY PacketHas
  <1>2. es[i] \in MetaEntry
    BY <1>1
  <1>3. s \in Nat /\ o \in Nat
    BY <1>2, Sizes
  <1>4. CASE s = 0
    <2>1. LeftEntries(m, i) = es /\ LeftData(m, i) = d
      BY <1>4 DEF LeftEntries, LeftData
    <2>2. Laid(L \ {i}, es, d, w)
      <3>1. ~(s > 0)
        BY <1>3, <1>4
      <3>2. \A k \in 1 .. Len(d) : \E j \in L \ {i} : Covers(es[j], k)
        BY <1>1, <3>1 DEF Laid, Covers
      <3> QED
        BY <1>1, <3>2 DEF Laid
    <2>3. Len(d) = Len(d) - s
      BY <1>1, <1>4
    <2> QED
      BY <1>1, <1>2, <1>3, <2>1, <2>2, <2>3
  <1>5. CASE s # 0
    <2> DEFINE fs == Shifted(es, o, s)
               r == WithoutData(d, o, s)
    <2>1. LeftEntries(m, i) = fs /\ LeftData(m, i) = r
      BY <1>5 DEF LeftEntries, LeftData
    <2>2. \A j \in L : fs[j] = Moved(es[j], o, s)
      BY <1>1 DEF Shifted, Moved
    <2>3. fs = [j \in L |-> fs[j]]
      BY <1>1 DEF Shifted
    <2> HIDE DEF fs, r, s, o
    <2>4. s > 0
      BY <1>3, <1>5
    <2>5. Cut(L, es, d, w, i, fs, r)
      BY <1>1, <2>2, <2>4 DEF Cut, r, s, o
    <2>6. /\ r \in Seq(Granule) /\ Len(r) = Len(d) - SizeOf(es[i])
          /\ Laid(L \ {i}, fs, r, w)
      BY <2>5, LaidCut
    <2>7. fs[i] = es[i]
      <3>1. ~(o > o)
        BY <1>3
      <3> QED
        BY <2>2, <3>1 DEF Moved, o
    <2>8. \A j \in L : fs[j] \in MetaEntry
      BY <1>2, <2>6, <2>7 DEF Laid, HoldsAt
    <2>9. fs \in [1 .. n -> MetaEntry]
      BY <2>3, <2>8
    <2>10. fs \in Seq(MetaEntry) /\ Len(fs) = n
      BY <1>1, <2>9
    <2>11. \A j \in L : fs[j].tag = es[j].tag
      <3> SUFFICES ASSUME NEW j \in L PROVE Moved(es[j], o, s).tag = es[j].tag
        BY <2>2
      <3>1. es[j] \in MetaEntry
        BY <1>1
      <3>2. \A y : [es[j] EXCEPT !.data = y].tag = es[j].tag
        BY <3>1 DEF MetaEntry
      <3> QED
        BY <3>2 DEF Moved
    <2> QED
      BY <1>2, <1>3, <2>1, <2>6, <2>7, <2>10, <2>11 DEF s
  <1> QED
    BY <1>4, <1>5

(* A list without one of its entries is the others in their order.         *)
LEMMA RemovedReorders ==
  ASSUME NEW n \in Nat, NEW i \in 1 .. n
  PROVE  LET g == [j \in 1 .. n - 1 |-> IF j < i THEN j ELSE j + 1]
         IN  /\ g \in [1 .. n - 1 -> 1 .. n \ {i}]
             /\ \A a, b \in 1 .. n - 1 : g[a] = g[b] => a = b
             /\ \A k \in 1 .. n \ {i} : \E a \in 1 .. n - 1 : g[a] = k
  <1> DEFINE g == [j \in 1 .. n - 1 |-> IF j < i THEN j ELSE j + 1]
  <1>1. \A j \in 1 .. n - 1 : (IF j < i THEN j ELSE j + 1) \in 1 .. n \ {i}
    OBVIOUS
  <1>2. \A a, b \in 1 .. n - 1 : g[a] = g[b] => a = b
    OBVIOUS
  <1>3. ASSUME NEW k \in 1 .. n \ {i} PROVE \E a \in 1 .. n - 1 : g[a] = k
    <2>1. CASE k < i
      <3>1. k \in 1 .. n - 1 /\ g[k] = k
        BY <2>1
      <3> QED
        BY <3>1
    <2>2. CASE ~(k < i)
      <3>1. k - 1 \in 1 .. n - 1 /\ ~(k - 1 < i) /\ (k - 1) + 1 = k
        BY <2>2
      <3>2. g[k - 1] = k
        BY <3>1
      <3> QED
        BY <3>1, <3>2
    <2> QED
      BY <2>1, <2>2
  <1> QED
    BY <1>1, <1>2, <1>3

(* delete_camera_metadata_entry()                                          *)
LEMMA MetaDeletes ==
  ASSUME MetaInv, NEW p \in Packets, NEW i \in DOMAIN packet[p].entries, DeleteMetadata(p, i)
  PROVE  MetaInv'
  <1> DEFINE m == packet[p]
             w == written[p]
             n == Len(m.entries)
             fs == LeftEntries(m, i)
             r == LeftData(m, i)
             rest == IF SizeOf(m.entries[i]) = 0 THEN m
                     ELSE [m EXCEPT !.entries = Shifted(@, m.entries[i].data, SizeOf(m.entries[i])),
                                    !.data = WithoutData(@, m.entries[i].data, SizeOf(m.entries[i]))]
             es == RemoveAt(fs, i)
             x == RemoveAt(w, i)
             k == [rest EXCEPT !.entries = RemoveAt(@, i)]
  <1>1. Holds(m, w) /\ (p \notin mismarked => MarkHolds(m))
    BY DEF MetaInv, DeleteMetadata, Call
  <1>2. Call(p, k, x, p \in mismarked) /\ emptied' = emptied
    BY DEF DeleteMetadata
  <1>3. /\ m = [f \in PacketFields |-> m[f]] /\ m.sorted \in BOOLEAN
        /\ m.entryCapacity \in Nat /\ m.dataCapacity \in Nat
        /\ w \in Seq(Written) /\ Len(w) = n /\ n <= m.entryCapacity
        /\ Len(m.data) <= m.dataCapacity /\ n \in Nat /\ Len(m.data) \in Nat
        /\ DOMAIN m.entries = 1 .. n
    BY <1>1, PacketHas
  <1> HIDE DEF m, w
  <1>4. i \in 1 .. n
    BY <1>3 DEF m
  <1>5. /\ fs \in Seq(MetaEntry) /\ Len(fs) = n /\ r \in Seq(Granule)
        /\ SizeOf(m.entries[i]) \in Nat /\ Len(r) = Len(m.data) - SizeOf(m.entries[i])
        /\ Laid(1 .. n \ {i}, fs, r, w)
        /\ \A j \in 1 .. n : fs[j].tag = m.entries[j].tag
    BY <1>1, <1>4, MetaLeft
  <1>6. /\ rest = [f \in PacketFields |-> rest[f]] /\ rest.entries = fs /\ rest.data = r
        /\ rest.sorted = m.sorted /\ rest.entryCapacity = m.entryCapacity
        /\ rest.dataCapacity = m.dataCapacity
    <2>1. CASE SizeOf(m.entries[i]) = 0
      BY <1>3, <2>1 DEF LeftEntries, LeftData
    <2>2. CASE SizeOf(m.entries[i]) # 0
      BY <1>3, <2>2 DEF LeftEntries, LeftData, PacketFields
    <2> QED
      BY <2>1, <2>2
  <1> HIDE DEF rest, fs, r, n
  <1>7. /\ k = [f \in PacketFields |-> k[f]] /\ k.entries = es /\ k.data = r
        /\ k.sorted = m.sorted /\ k.entryCapacity = m.entryCapacity
        /\ k.dataCapacity = m.dataCapacity
    BY <1>6 DEF PacketFields
  <1>8. /\ es \in Seq(MetaEntry) /\ Len(es) = n - 1
        /\ \A j \in 1 .. n - 1 : es[j] = IF j < i THEN fs[j] ELSE fs[j + 1]
    <2>1. i \in 1 .. Len(fs)
      BY <1>4, <1>5
    <2> QED
      BY <1>5, <2>1, RemoveAtProperties
  <1>9. /\ x \in Seq(Written) /\ Len(x) = n - 1
        /\ \A j \in 1 .. n - 1 : x[j] = IF j < i THEN w[j] ELSE w[j + 1]
    <2>1. i \in 1 .. Len(w)
      BY <1>3, <1>4
    <2> QED
      BY <1>3, <2>1, RemoveAtProperties
  <1> HIDE DEF es, x, k
  <1>10. Laid(1 .. n - 1, es, r, x)
    <2> DEFINE g == [j \in 1 .. n - 1 |-> IF j < i THEN j ELSE j + 1]
    <2>1. /\ g \in [1 .. n - 1 -> 1 .. n \ {i}]
          /\ \A a, b \in 1 .. n - 1 : g[a] = g[b] => a = b
          /\ \A c \in 1 .. n \ {i} : \E a \in 1 .. n - 1 : g[a] = c
      BY <1>3, <1>4, RemovedReorders
    <2>2. \A a \in 1 .. n - 1 : es[a] = fs[g[a]] /\ x[a] = w[g[a]]
      BY <1>8, <1>9
    <2> HIDE DEF g
    <2>3. Reordered(1 .. n \ {i}, fs, r, w, 1 .. n - 1, g, es, x)
      BY <1>5, <2>1, <2>2 DEF Reordered
    <2> QED
      BY <2>3, LaidReordered
  <1>11. /\ Len(es) <= k.entryCapacity /\ Len(r) <= k.dataCapacity /\ Len(x) = Len(es)
    BY <1>3, <1>5, <1>7, <1>8, <1>9
  <1>12. ASSUME MarkHolds(m) PROVE MarkHolds(k)
    <2>0. DOMAIN k.entries = 1 .. n - 1 /\ k.entries = es /\ k.sorted = m.sorted
      BY <1>7, <1>8
    <2> SUFFICES ASSUME m.sorted, NEW a \in 1 .. n - 1, NEW b \in 1 .. n - 1, a < b
                 PROVE  es[a].tag <= es[b].tag
      BY <2>0 DEF MarkHolds
    <2> DEFINE c == IF a < i THEN a ELSE a + 1
               e == IF b < i THEN b ELSE b + 1
    <2>1. c \in 1 .. n /\ e \in 1 .. n /\ c < e
      BY <1>3, <1>4
    <2>2. es[a] = fs[c] /\ es[b] = fs[e]
      BY <1>8
    <2> HIDE DEF c, e
    <2>3. m.entries[c].tag <= m.entries[e].tag
      BY <1>3, <1>12, <2>1 DEF MarkHolds
    <2> QED
      BY <1>5, <2>1, <2>2, <2>3
  <1>13. Holds(k, x)
    BY <1>3, <1>5, <1>7, <1>8, <1>9, <1>10, <1>11, PacketMade
  <1> QED
    BY <1>1, <1>2, <1>12, <1>13, CallKeeps

(* Packet k is m after an entry was written anew, with other entries and   *)
(* other data.                                                             *)
Rewritten(m, w, i, count, v, k) ==
    /\ Holds(m, w) /\ i \in 1 .. Len(m.entries) /\ count \in Nat /\ v \in Nat
    /\ k = [f \in PacketFields |-> k[f]] /\ k.sorted = m.sorted
    /\ k.entryCapacity = m.entryCapacity /\ k.dataCapacity = m.dataCapacity

(* update_camera_metadata_entry(), with a value of another size: entry i   *)
(* becomes e.                                                              *)
Resized(m, w, i, count, v, k, new, e) ==
    /\ Rewritten(m, w, i, count, v, k)
    /\ new = DataSize(TagType[m.entries[i].tag], count)
    /\ Len(m.data) + new - SizeOf(m.entries[i]) <= m.dataCapacity
    /\ e = [tag |-> m.entries[i].tag, count |-> count,
            data |-> IF new = 0 THEN Inline(count, v) ELSE Len(LeftData(m, i))]
    /\ k.data = LeftData(m, i) \o Payload(v, new)
    /\ k.entries = [LeftEntries(m, i) EXCEPT ![i] = e]

(* It is in order.                                                         *)
LEMMA MetaResizes ==
  ASSUME NEW m, NEW w, NEW i, NEW count, NEW v, NEW k, NEW new, NEW e,
         Resized(m, w, i, count, v, k, new, e)
  PROVE  /\ Holds(k, [w EXCEPT ![i] = <<m.entries[i].tag, count, v>>])
         /\ MarkHolds(m) => MarkHolds(k)
  <1>a. /\ Holds(m, w) /\ i \in 1 .. Len(m.entries) /\ count \in Nat /\ v \in Nat
        /\ k = [f \in PacketFields |-> k[f]] /\ k.sorted = m.sorted
        /\ k.entryCapacity = m.entryCapacity /\ k.dataCapacity = m.dataCapacity
        /\ new = DataSize(TagType[m.entries[i].tag], count)
        /\ Len(m.data) + new - SizeOf(m.entries[i]) <= m.dataCapacity
        /\ k.data = LeftData(m, i) \o Payload(v, new)
        /\ k.entries = [LeftEntries(m, i) EXCEPT ![i] = e]
    BY DEF Resized, Rewritten
  <1>b. e = [tag |-> m.entries[i].tag, count |-> count,
             data |-> IF new = 0 THEN Inline(count, v) ELSE Len(LeftData(m, i))]
    BY DEF Resized
  <1>d. count \in Nat /\ Inline(count, v) \in Nat
    BY <1>a DEF Inline
  <1>c. /\ LeftEntries(m, i) \in Seq(MetaEntry) /\ Len(LeftEntries(m, i)) = Len(m.entries)
        /\ LeftData(m, i) \in Seq(Granule)
        /\ SizeOf(m.entries[i]) \in Nat
        /\ Len(LeftData(m, i)) = Len(m.data) - SizeOf(m.entries[i])
        /\ Laid(1 .. Len(m.entries) \ {i}, LeftEntries(m, i), LeftData(m, i), w)
        /\ m.entries[i] \in MetaEntry
        /\ \A j \in 1 .. Len(m.entries) : LeftEntries(m, i)[j].tag = m.entries[j].tag
    <2>1. i \in 1 .. Len(m.entries) /\ Holds(m, w)
      BY <1>a
    <2> QED
      BY <2>1, MetaLeft
  <1> USE <1>a
  <1> DEFINE n == Len(m.entries)
             fs == LeftEntries(m, i)
             d == LeftData(m, i)
             tag == m.entries[i].tag
             y == <<tag, count, v>>
             es == [fs EXCEPT ![i] = e]
             x == [w EXCEPT ![i] = y]
             r == d \o Payload(v, new)
             L == 1 .. n \ {i}
  <1>1. /\ m.sorted \in BOOLEAN /\ m.entryCapacity \in Nat /\ m.dataCapacity \in Nat
        /\ w \in Seq(Written) /\ Len(w) = n /\ n <= m.entryCapacity
        /\ n \in Nat /\ Len(m.data) \in Nat /\ DOMAIN w = 1 .. n
        /\ DOMAIN m.entries = 1 .. n
    BY PacketHas
  <1>2. /\ fs \in Seq(MetaEntry) /\ Len(fs) = n /\ d \in Seq(Granule)
        /\ SizeOf(m.entries[i]) \in Nat /\ Len(d) = Len(m.data) - SizeOf(m.entries[i])
        /\ Laid(L, fs, d, w) /\ m.entries[i] \in MetaEntry
        /\ \A j \in 1 .. n : fs[j].tag = m.entries[j].tag
    BY <1>c
  <1>3. tag \in MetaTags
    BY <1>2, Sizes
  <1>4. new \in Nat /\ Len(d) \in Nat
    <2>1. new \in Nat
      BY <1>3, DataSizeNat
    <2>2. Len(d) \in Nat
      BY <1>2
    <2> QED
      BY <2>1, <2>2
  <1>5. k.data = r /\ k.entries = es
    OBVIOUS
  <1> HIDE DEF fs, d, n
  <1>6. /\ e \in MetaEntry /\ SizeOf(e) = new /\ e.tag = tag /\ e.count = count
        /\ e.data = IF new = 0 THEN Inline(count, v) ELSE Len(d)
    <2> HIDE <1>a
    <2>1. e = [tag |-> tag, count |-> count,
               data |-> IF new = 0 THEN Inline(count, v) ELSE Len(d)]
      BY <1>b DEF d
    <2>2. SizeOf(e) = new /\ count \in Nat /\ v \in Nat
      BY <1>a, <2>1 DEF SizeOf
    <2> QED
      BY <1>3, <1>4, <1>d, <2>1, <2>2 DEF MetaEntry
  <1>7. y \in Written /\ y[1] = tag /\ y[2] = count /\ y[3] = v
    BY <1>3 DEF Written
  <1> HIDE DEF y, tag
  <1>8. /\ es \in Seq(MetaEntry) /\ Len(es) = n /\ es[i] = e
        /\ \A j \in L : es[j] = fs[j]
    <2>1. i \in 1 .. Len(fs) /\ DOMAIN fs = 1 .. n
      BY <1>2 DEF n
    <2>2. fs \in Seq(MetaEntry) /\ Len(fs) = n /\ e \in MetaEntry
      BY <1>2, <1>6
    <2> HIDE <1>a
    <2> QED
      BY <2>1, <2>2, ExceptSeq
  <1>9. /\ x \in Seq(Written) /\ Len(x) = n /\ x[i] = y
        /\ \A j \in L : x[j] = w[j]
    <2>1. i \in 1 .. Len(w)
      BY <1>1 DEF n
    <2>2. w \in Seq(Written) /\ Len(w) = n /\ DOMAIN w = 1 .. n /\ y \in Written
      BY <1>1, <1>7
    <2> HIDE <1>a
    <2> QED
      BY <2>1, <2>2, ExceptSeq
  <1> HIDE DEF es, x
  <1>10. Fresh(es[i], x[i], Len(d))
    <2>1. Fresh(e, y, Len(d))
      <3> HIDE <1>a
      <3> QED
        BY <1>4, <1>6, <1>7, <1>d DEF Fresh, Inline
    <2> QED
      BY <1>8, <1>9, <2>1
  <1>11. r = d \o Payload(x[i][3], SizeOf(es[i]))
    BY <1>6, <1>7, <1>8, <1>9
  <1>12. Put(L, fs, d, w, i, es, r, x)
    BY <1>2, <1>8, <1>9, <1>10, <1>11 DEF Put
  <1> HIDE DEF r
  <1>13. /\ r \in Seq(Granule) /\ Len(r) = Len(d) + SizeOf(es[i])
         /\ Laid(L \cup {i}, es, r, x)
    BY <1>12, LaidPut
  <1>14. L \cup {i} = 1 .. Len(es)
    BY <1>1, <1>8 DEF n
  <1>15. Len(r) <= k.dataCapacity /\ Len(es) <= k.entryCapacity /\ Len(x) = Len(es)
    <2>1. Len(r) = Len(m.data) - SizeOf(m.entries[i]) + new
      BY <1>2, <1>6, <1>8, <1>13
    <2>2. Len(r) <= m.dataCapacity
      <3> DEFINE o == Len(m.data)
                 q == SizeOf(m.entries[i])
      <3>1. /\ o \in Nat /\ q \in Nat /\ new \in Nat /\ m.dataCapacity \in Nat
            /\ o + new - q <= m.dataCapacity /\ Len(r) = o - q + new
        BY <1>1, <1>2, <1>4, <2>1
      <3> HIDE <1>a
      <3> HIDE DEF o, q
      <3> QED
        BY <3>1
    <2> QED
      BY <1>1, <1>8, <1>9, <2>2
  <1>16. Laid(1 .. Len(es), es, r, x)
    BY <1>13, <1>14
  <1>17. ASSUME MarkHolds(m) PROVE MarkHolds(k)
    <2>1. \A j \in 1 .. n : k.entries[j].tag = m.entries[j].tag
      BY <1>2, <1>5, <1>6, <1>8 DEF tag
    <2>2. DOMAIN k.entries = 1 .. n
      BY <1>5, <1>8
    <2> QED
      BY <1>1, <1>17, <2>1, <2>2, MarkKept
  <1>18. Holds(k, x)
    BY <1>1, <1>5, <1>8, <1>9, <1>13, <1>15, <1>16, PacketMade
  <1> QED
    BY <1>17, <1>18 DEF x, y, tag

(* And with one of the same size.                                          *)
Replaced(m, w, i, count, v, k) ==
    /\ Rewritten(m, w, i, count, v, k)
    /\ DataSize(TagType[m.entries[i].tag], count) = SizeOf(m.entries[i])
    /\ k.data = [j \in DOMAIN m.data |->
                   IF j - m.entries[i].data \in 1 .. SizeOf(m.entries[i])
                   THEN <<v, j - m.entries[i].data>> ELSE m.data[j]]
    /\ k.entries = [m.entries EXCEPT
                      ![i] = [tag |-> m.entries[i].tag, count |-> count,
                              data |-> IF SizeOf(m.entries[i]) = 0 THEN Inline(count, v)
                                       ELSE m.entries[i].data]]

(* It is in order too.                                                     *)
LEMMA MetaRewrites ==
  ASSUME NEW m, NEW w, NEW i, NEW count, NEW v, NEW k,
         Replaced(m, w, i, count, v, k)
  PROVE  /\ Holds(k, [w EXCEPT ![i] = <<m.entries[i].tag, count, v>>])
         /\ MarkHolds(m) => MarkHolds(k)
  <1>a. /\ Holds(m, w) /\ i \in 1 .. Len(m.entries) /\ count \in Nat /\ v \in Nat
        /\ k = [f \in PacketFields |-> k[f]] /\ k.sorted = m.sorted
        /\ k.entryCapacity = m.entryCapacity /\ k.dataCapacity = m.dataCapacity
        /\ DataSize(TagType[m.entries[i].tag], count) = SizeOf(m.entries[i])
        /\ k.data = [j \in DOMAIN m.data |->
                       IF j - m.entries[i].data \in 1 .. SizeOf(m.entries[i])
                       THEN <<v, j - m.entries[i].data>> ELSE m.data[j]]
        /\ k.entries = [m.entries EXCEPT
                          ![i] = [tag |-> m.entries[i].tag, count |-> count,
                                  data |-> IF SizeOf(m.entries[i]) = 0 THEN Inline(count, v)
                                           ELSE m.entries[i].data]]
    BY DEF Replaced, Rewritten
  <1> USE <1>a
  <1> DEFINE n == Len(m.entries)
             fs == m.entries
             d == m.data
             tag == m.entries[i].tag
             e == [tag |-> tag, count |-> count,
                   data |-> IF SizeOf(fs[i]) = 0 THEN Inline(count, v) ELSE fs[i].data]
             y == <<tag, count, v>>
             es == [fs EXCEPT ![i] = e]
             x == [w EXCEPT ![i] = y]
             r == k.data
             L == 1 .. n
  <1>1. /\ m.sorted \in BOOLEAN /\ m.entryCapacity \in Nat /\ m.dataCapacity \in Nat
        /\ w \in Seq(Written) /\ Len(w) = n /\ n <= m.entryCapacity
        /\ n \in Nat /\ Len(m.data) \in Nat /\ DOMAIN w = 1 .. n
        /\ fs \in Seq(MetaEntry) /\ d \in Seq(Granule) /\ DOMAIN fs = 1 .. n
        /\ Len(d) <= m.dataCapacity /\ Laid(L, fs, d, w)
    BY PacketHas
  <1>2. fs[i] \in MetaEntry
    BY <1>1
  <1>3. tag \in MetaTags /\ SizeOf(fs[i]) \in Nat /\ fs[i].data \in Nat
    BY <1>2, Sizes
  <1>4. e \in MetaEntry /\ e.tag = tag
    BY <1>3 DEF MetaEntry, Inline
  <1>5. y \in Written
    BY <1>3 DEF Written
  <1>6. k.entries = es
    OBVIOUS
  <1>7. r = [j \in DOMAIN d |-> IF j - fs[i].data \in 1 .. SizeOf(fs[i])
                                THEN <<v, j - fs[i].data>> ELSE d[j]]
    OBVIOUS
  <1> HIDE DEF e, y, r
  <1>8. /\ es \in Seq(MetaEntry) /\ Len(es) = n /\ es[i] = e
        /\ \A j \in L \ {i} : es[j] = fs[j]
    <2>1. i \in 1 .. Len(fs)
      OBVIOUS
    <2> QED
      BY <1>1, <1>4, <2>1, ExceptSeq
  <1>9. /\ x \in Seq(Written) /\ Len(x) = n /\ x[i] = y
        /\ \A j \in L \ {i} : x[j] = w[j]
    <2>1. i \in 1 .. Len(w)
      BY <1>1
    <2> QED
      BY <1>1, <1>5, <2>1, ExceptSeq
  <1> HIDE DEF es, x
  <1>10. InPlace(L, fs, d, w, i, es, r, x, count, v)
    <2>1. /\ es[i] = [tag |-> fs[i].tag, count |-> count,
                      data |-> IF SizeOf(fs[i]) = 0 THEN Inline(count, v) ELSE fs[i].data]
          /\ x[i] = <<fs[i].tag, count, v>>
      BY <1>8, <1>9 DEF e, y
    <2> QED
      BY <1>1, <1>7, <1>8, <1>9, <2>1 DEF InPlace
  <1>11. r \in Seq(Granule) /\ Len(r) = Len(d) /\ Laid(L, es, r, x)
    BY <1>10, LaidInPlace
  <1>12. Len(r) <= k.dataCapacity /\ Len(es) <= k.entryCapacity /\ Len(x) = Len(es)
    BY <1>1, <1>8, <1>9, <1>11
  <1>13. ASSUME MarkHolds(m) PROVE MarkHolds(k)
    <2>1. \A j \in 1 .. n : k.entries[j].tag = m.entries[j].tag
      BY <1>4, <1>6, <1>8
    <2>2. DOMAIN k.entries = 1 .. n
      BY <1>6, <1>8
    <2> QED
      BY <1>1, <1>13, <2>1, <2>2, MarkKept
  <1>14. Holds(k, x)
    BY <1>1, <1>6, <1>8, <1>9, <1>11, <1>12, PacketMade DEF r
  <1> QED
    BY <1>13, <1>14 DEF x, y

(* An entry with another count and other data.                             *)
LEMMA EntryChanged ==
  ASSUME NEW e \in MetaEntry, NEW c, NEW count
  PROVE  [[e EXCEPT !.data = c] EXCEPT !.count = count]
            = [tag |-> e.tag, count |-> count, data |-> c]
  <1> DEFINE f == [[e EXCEPT !.data = c] EXCEPT !.count = count]
             F == {"tag", "count", "data"}
  <1>1. e = [a \in F |-> e[a]]
    BY DEF MetaEntry
  <1>2. f = [a \in F |-> f[a]] /\ f.tag = e.tag /\ f.count = count /\ f.data = c
    BY <1>1
  <1> HIDE DEF f
  <1>3. f = [tag |-> e.tag, count |-> count, data |-> c]
    BY <1>2
  <1> QED
    BY <1>3 DEF f

(* update_camera_metadata_entry()                                          *)
LEMMA MetaUpdates ==
  ASSUME MetaInv, NEW p \in Packets, NEW i \in DOMAIN packet[p].entries,
         NEW count \in MetaCounts, UpdateMetadata(p, i, count)
  PROVE  MetaInv'
  <1> DEFINE m == packet[p]
             w == written[p]
             v == Value
             es == m.entries
             entry == es[i]
             was == SizeOf(entry)
             new == DataSize(TagType[entry.tag], count)
             moved == IF was = 0 THEN m
                      ELSE [m EXCEPT !.entries = Shifted(@, entry.data, was),
                                     !.data = WithoutData(@, entry.data, was)]
             x == [w EXCEPT ![i] = <<entry.tag, count, v>>]
             a == [moved EXCEPT
                     !.entries[i].data = Bytes(entry, count, new, v, Len(moved.data)),
                     !.entries[i].count = count,
                     !.data = @ \o Payload(v, new)]
             b == [m EXCEPT
                     !.entries[i].data = Bytes(entry, count, new, v, @),
                     !.entries[i].count = count,
                     !.data = [j \in DOMAIN @ |->
                                 IF j - entry.data \in 1 .. new
                                 THEN <<v, j - entry.data>> ELSE @[j]]]
  <1>1. Holds(m, w) /\ v \in Nat /\ ~aborted /\ (p \notin mismarked => MarkHolds(m))
    <2>1. ~aborted
      BY DEF UpdateMetadata, Call
    <2>2. v \in Nat
      BY DEF MetaInv, Value
    <2> QED
      BY <2>1, <2>2 DEF MetaInv
  <1>2. /\ new # was => Len(m.data) + new - was <= m.dataCapacity
        /\ Call(p, IF new # was THEN a ELSE b, x, p \in mismarked)
        /\ emptied' = (count = 0 /\ entry.data # 0)
    BY DEF UpdateMetadata
  <1>3. count \in Nat
    BY MetaAssumption
  <1>4. /\ m = [f \in PacketFields |-> m[f]] /\ es \in Seq(MetaEntry)
        /\ DOMAIN es = 1 .. Len(es) /\ Len(es) \in Nat
    BY <1>1, PacketHas
  <1> HIDE DEF m, w, v
  <1>5. i \in 1 .. Len(es)
    BY <1>4 DEF m
  <1>6. entry \in MetaEntry
    BY <1>4, <1>5
  <1>6a. new \in Nat /\ (count = 0 => new = 0)
    BY <1>3, <1>6, Sizes, DataSizeNat
  <1>6b. ASSUME NEW o
         PROVE  /\ count = 0 /\ entry.data # 0 => Bytes(entry, count, new, v, o) = entry.data
                /\ ~(count = 0 /\ entry.data # 0) =>
                      Bytes(entry, count, new, v, o) = IF new = 0 THEN Inline(count, v) ELSE o
    BY <1>6a DEF Bytes, Inline
  <1>6c. ~emptied
    BY <1>1 DEF MetaInv
  <1>7. CASE new # was
    <2> DEFINE fs == LeftEntries(m, i)
               d == LeftData(m, i)
               e == [tag |-> entry.tag, count |-> count,
                     data |-> IF new = 0 THEN Inline(count, v) ELSE Len(d)]
    <2>1. /\ moved = [f \in PacketFields |-> moved[f]] /\ moved.entries = fs /\ moved.data = d
          /\ moved.sorted = m.sorted /\ moved.entryCapacity = m.entryCapacity
          /\ moved.dataCapacity = m.dataCapacity
      <3>1. CASE was = 0
        BY <1>4, <3>1 DEF LeftEntries, LeftData
      <3>2. CASE was # 0
        BY <1>4, <3>2 DEF LeftEntries, LeftData, PacketFields
      <3> QED
        BY <3>1, <3>2
    <2>2. fs \in Seq(MetaEntry) /\ Len(fs) = Len(es) /\ fs[i] = entry
      BY <1>1, <1>5, MetaLeft
    <2>3. i \in DOMAIN fs
      BY <1>5, <2>2
    <2> DEFINE c == Bytes(entry, count, new, v, Len(moved.data))
               hs == [[fs EXCEPT ![i].data = c] EXCEPT ![i].count = count]
               t == Payload(v, new)
    <2> HIDE DEF moved, fs, d, new, c, t
    <2>4. /\ a = [f \in PacketFields |-> a[f]] /\ a.entries = hs
          /\ a.data = d \o t
          /\ a.sorted = m.sorted /\ a.entryCapacity = m.entryCapacity
          /\ a.dataCapacity = m.dataCapacity
      <3>1. a = [moved EXCEPT !.entries[i].data = c, !.entries[i].count = count,
                              !.data = @ \o t]
        BY DEF c, t
      <3> HIDE DEF a, entry
      <3>2. DOMAIN moved = PacketFields
        BY <2>1
      <3>3. a = [f \in PacketFields |-> a[f]]
        BY <3>1, <3>2
      <3>4. a.sorted = moved.sorted /\ a.entryCapacity = moved.entryCapacity
        BY <3>1, <3>2 DEF PacketFields
      <3>5. a.dataCapacity = moved.dataCapacity /\ a.data = moved.data \o t
        BY <3>1, <3>2 DEF PacketFields
      <3>6. a.entries = [[moved.entries EXCEPT ![i].data = c] EXCEPT ![i].count = count]
        BY <3>1, <3>2 DEF PacketFields
      <3> QED
        BY <2>1, <3>3, <3>4, <3>5, <3>6
    <2>5. hs = [fs EXCEPT ![i] = [tag |-> entry.tag, count |-> count, data |-> c]]
      <3>1. [[entry EXCEPT !.data = c] EXCEPT !.count = count]
               = [tag |-> entry.tag, count |-> count, data |-> c]
        <4> HIDE DEF entry
        <4> QED
          BY <1>6, EntryChanged
      <3>2. hs = [fs EXCEPT ![i] = [[fs[i] EXCEPT !.data = c] EXCEPT !.count = count]]
        BY <2>2, <2>3
      <3> QED
        BY <2>2, <3>1, <3>2
    <2> HIDE DEF a, hs
    <2>12. Call(p, a, x, p \in mismarked)
      BY <1>2, <1>7 DEF new
    <2>13. CASE count = 0 /\ entry.data # 0
      <3>1. c = entry.data
        BY <1>6b, <2>13 DEF c
      <3>2. i \in DOMAIN a.entries /\ a.entries[i].count = 0 /\ a.entries[i].data # 0
        <4> DEFINE f == [tag |-> entry.tag, count |-> count, data |-> c]
        <4>1. f.count = 0 /\ f.data # 0
          BY <2>13, <3>1
        <4> HIDE DEF f, entry
        <4>2. a.entries = [fs EXCEPT ![i] = f]
          BY <2>4, <2>5 DEF f, entry
        <4>3. i \in DOMAIN a.entries /\ a.entries[i] = f
          BY <2>3, <4>2
        <4> QED
          BY <4>1, <4>3
      <3> HIDE DEF x, entry
      <3>3. emptied'
        BY <1>2, <2>13 DEF entry
      <3> QED
        BY <2>12, <3>2, <3>3, CallAborts
    <2>14. ASSUME ~(count = 0 /\ entry.data # 0) PROVE MetaInv'
      <3>1. c = IF new = 0 THEN Inline(count, v) ELSE Len(d)
        BY <1>6b, <2>1, <2>14 DEF c
      <3>2. a.entries = [fs EXCEPT ![i] = e]
        BY <2>4, <2>5, <3>1
      <3>6. new = DataSize(TagType[m.entries[i].tag], count)
        BY DEF new
      <3>7. Len(m.data) + new - SizeOf(m.entries[i]) <= m.dataCapacity
        BY <1>2, <1>7 DEF new
      <3> HIDE DEF e
      <3>8. Rewritten(m, w, i, count, v, a)
        BY <1>1, <1>3, <1>5, <2>4 DEF Rewritten
      <3>9. Resized(m, w, i, count, v, a, new, e)
        BY <2>4, <3>2, <3>6, <3>7, <3>8 DEF Resized, fs, d, t, e
      <3>10. Holds(a, x) /\ (MarkHolds(m) => MarkHolds(a))
        BY <3>9, MetaResizes
      <3>11. emptied' <=> emptied
        BY <1>2, <1>6c, <2>14
      <3> HIDE DEF x, entry
      <3> QED
        BY <1>1, <2>12, <3>10, <3>11, CallKeeps
    <2> QED
      BY <2>13, <2>14
  <1>8. CASE new = was
    <2> DEFINE e == [tag |-> entry.tag, count |-> count,
                     data |-> IF was = 0 THEN Inline(count, v) ELSE entry.data]
               c == Bytes(entry, count, new, v, entry.data)
               hs == [[es EXCEPT ![i].data = c] EXCEPT ![i].count = count]
               r == [j \in DOMAIN m.data |-> IF j - entry.data \in 1 .. was
                                             THEN <<v, j - entry.data>> ELSE m.data[j]]
    <2>1. /\ b = [f \in PacketFields |-> b[f]] /\ b.entries = hs
          /\ b.data = r
          /\ b.sorted = m.sorted /\ b.entryCapacity = m.entryCapacity
          /\ b.dataCapacity = m.dataCapacity
      BY <1>4, <1>5, <1>8 DEF PacketFields
    <2>2. hs = [es EXCEPT ![i] = [tag |-> entry.tag, count |-> count, data |-> c]]
      <3>1. [[entry EXCEPT !.data = c] EXCEPT !.count = count]
               = [tag |-> entry.tag, count |-> count, data |-> c]
        <4> HIDE DEF entry, c
        <4> QED
          BY <1>6, EntryChanged
      <3>2. hs = [es EXCEPT ![i] = [[entry EXCEPT !.data = c] EXCEPT !.count = count]]
        BY <1>4, <1>5
      <3> QED
        BY <3>1, <3>2
    <2> HIDE DEF b, hs
    <2>4. Call(p, b, x, p \in mismarked)
      BY <1>2, <1>8
    <2>5. CASE count = 0 /\ entry.data # 0
      <3>1. c = entry.data
        BY <1>6b, <2>5
      <3> HIDE DEF c
      <3>2. i \in DOMAIN b.entries /\ b.entries[i].count = 0 /\ b.entries[i].data # 0
        BY <1>4, <1>5, <2>1, <2>2, <2>5, <3>1
      <3>3. emptied'
        BY <1>2, <2>5
      <3> HIDE DEF x, entry
      <3> QED
        BY <2>4, <3>2, <3>3, CallAborts
    <2>6. ASSUME ~(count = 0 /\ entry.data # 0) PROVE MetaInv'
      <3>1. c = IF was = 0 THEN Inline(count, v) ELSE entry.data
        BY <1>6b, <1>8, <2>6
      <3>2. b.entries = [es EXCEPT ![i] = e]
        <4> HIDE DEF c
        <4> QED
          BY <2>1, <2>2, <3>1
      <3>3. Holds(b, x) /\ (MarkHolds(m) => MarkHolds(b))
        <4>1. DataSize(TagType[m.entries[i].tag], count) = SizeOf(m.entries[i])
          BY <1>8
        <4>2. /\ b = [f \in PacketFields |-> b[f]] /\ b.sorted = m.sorted
              /\ b.entryCapacity = m.entryCapacity /\ b.dataCapacity = m.dataCapacity
              /\ b.data = [j \in DOMAIN m.data |->
                             IF j - m.entries[i].data \in 1 .. SizeOf(m.entries[i])
                             THEN <<v, j - m.entries[i].data>> ELSE m.data[j]]
              /\ b.entries = [m.entries EXCEPT
                    ![i] = [tag |-> m.entries[i].tag, count |-> count,
                            data |-> IF SizeOf(m.entries[i]) = 0 THEN Inline(count, v)
                                     ELSE m.entries[i].data]]
          BY <2>1, <3>2
        <4>3. Holds(m, w) /\ i \in 1 .. Len(m.entries) /\ count \in Nat /\ v \in Nat
          BY <1>1, <1>3, <1>5
        <4>4. Replaced(m, w, i, count, v, b)
          BY <4>1, <4>2, <4>3 DEF Replaced, Rewritten
        <4> QED
          BY <4>4, MetaRewrites
      <3>4. emptied' <=> emptied
        BY <1>2, <1>6c, <2>6
      <3> HIDE DEF x, entry
      <3> QED
        BY <1>1, <2>4, <3>3, <3>4, CallKeeps
    <2> QED
      BY <2>5, <2>6
  <1> QED
    BY <1>7, <1>8

(* Tags that do not decrease from one entry to the next.                   *)
LEMMA Ascending ==
  ASSUME NEW n \in Nat, NEW t \in [1 .. n -> Nat],
         \A i \in 1 .. n - 1 : t[i] <= t[i + 1]
  PROVE  \A i, j \in 1 .. n : i < j => t[i] <= t[j]
  <1> SUFFICES ASSUME NEW i \in 1 .. n PROVE \A j \in 1 .. n : i < j => t[i] <= t[j]
    OBVIOUS
  <1> DEFINE good == {j \in 0 .. n : j >= i => t[i] <= t[j]}
  <1>1. 0 \in good
    OBVIOUS
  <1>2. ASSUME NEW j \in 1 .. n, j - 1 \in good PROVE j \in good
    <2>1. CASE j > i
      <3>1. j - 1 \in 1 .. n - 1 /\ (j - 1) + 1 = j /\ j - 1 >= i
        BY <2>1
      <3>2. t[i] <= t[j - 1] /\ t[j - 1] <= t[j]
        BY <1>2, <3>1
      <3>3. t[i] \in Nat /\ t[j - 1] \in Nat /\ t[j] \in Nat
        BY <3>1
      <3>4. t[i] <= t[j]
        BY <3>2, <3>3
      <3> QED
        BY <3>4
    <2>2. CASE j = i
      <3>1. t[i] \in Nat
        OBVIOUS
      <3>2. t[i] <= t[j]
        BY <2>2, <3>1
      <3> QED
        BY <3>2
    <2>3. CASE j < i
      BY <2>3
    <2> QED
      BY <2>1, <2>2, <2>3
  <1> HIDE DEF good
  <1>3. \A j \in 0 .. n : j \in good
    BY <1>1, <1>2, UpTo
  <1> QED
    BY <1>3 DEF good

(* sort_camera_metadata()                                                  *)
LEMMA MetaSorts ==
  ASSUME MetaInv, NEW p \in Packets, SortMetadata(p)
  PROVE  MetaInv'
  <1> DEFINE m == packet[p]
             w == written[p]
             n == Len(m.entries)
             L == 1 .. n
  <1>1. Holds(m, w)
    BY DEF MetaInv, SortMetadata, Call
  <1>2. /\ m = [f \in PacketFields |-> m[f]] /\ m.entries \in Seq(MetaEntry)
        /\ m.data \in Seq(Granule) /\ m.entryCapacity \in Nat /\ m.dataCapacity \in Nat
        /\ w \in Seq(Written) /\ Len(w) = n /\ n <= m.entryCapacity
        /\ Len(m.data) <= m.dataCapacity /\ n \in Nat /\ DOMAIN w = 1 .. n
        /\ DOMAIN m.entries = 1 .. n /\ Laid(L, m.entries, m.data, w)
    BY <1>1, PacketHas
  <1>3. PICK order \in [L -> L] :
           /\ IsInjective(order)
           /\ \A i \in 1 .. n - 1 : m.entries[order[i]].tag <= m.entries[order[i + 1]].tag
           /\ Call(p, [m EXCEPT !.entries = [i \in L |-> @[order[i]]], !.sorted = TRUE],
                   [i \in L |-> w[order[i]]], FALSE)
           /\ emptied' = emptied
    BY DEF SortMetadata
  <1> DEFINE es == [i \in L |-> m.entries[order[i]]]
             x == [i \in L |-> w[order[i]]]
             k == [m EXCEPT !.entries = es, !.sorted = TRUE]
  <1>4. Call(p, k, x, FALSE) /\ emptied' = emptied
    BY <1>3
  <1> HIDE DEF m, w, n
  <1>5. \A a, c \in L : order[a] = order[c] => a = c
    BY <1>3 DEF IsInjective
  <1>6. \A i \in L : \E a \in L : order[a] = i
    <2>1. order \in Injection(L, L)
      BY <1>5 DEF Injection, IsInjective
    <2>2. IsFiniteSet(L)
      <3>1. 1 \in Int /\ n \in Int
        BY <1>2
      <3> QED
        BY <3>1, FS_Interval
    <2>3. order \in Surjection(L, L)
      BY <2>1, <2>2, FS_Injection
    <2> QED
      BY <2>3 DEF Surjection
  <1>7. es \in Seq(MetaEntry) /\ Len(es) = n /\ \A i \in L : es[i] = m.entries[order[i]]
    <2>1. \A i \in L : m.entries[order[i]] \in MetaEntry /\ es[i] = m.entries[order[i]]
      BY <1>2
    <2>2. es \in [1 .. n -> MetaEntry]
      BY <2>1
    <2> HIDE DEF es
    <2>3. n \in Nat
      BY <1>2
    <2>4. es \in Seq(MetaEntry) /\ Len(es) = n
      BY <2>2, <2>3
    <2> QED
      BY <2>1, <2>4
  <1>8. x \in Seq(Written) /\ Len(x) = n /\ \A i \in L : x[i] = w[order[i]]
    <2>1. \A i \in L : w[order[i]] \in Written /\ x[i] = w[order[i]]
      BY <1>2
    <2>2. x \in [1 .. n -> Written]
      BY <2>1
    <2> HIDE DEF x
    <2>3. n \in Nat
      BY <1>2
    <2>4. x \in Seq(Written) /\ Len(x) = n
      BY <2>2, <2>3
    <2> QED
      BY <2>1, <2>4
  <1> HIDE DEF es, x
  <1>9. Reordered(L, m.entries, m.data, w, L, order, es, x)
    BY <1>2, <1>5, <1>6, <1>7, <1>8 DEF Reordered
  <1>10. Laid(L, es, m.data, x)
    BY <1>9, LaidReordered
  <1>11. /\ k = [f \in PacketFields |-> k[f]] /\ k.entries = es /\ k.data = m.data
         /\ k.sorted = TRUE /\ k.entryCapacity = m.entryCapacity
         /\ k.dataCapacity = m.dataCapacity
    BY <1>2 DEF PacketFields
  <1>12. k.sorted \in BOOLEAN
    BY <1>11
  <1> HIDE DEF k
  <1>13. /\ Len(es) <= k.entryCapacity /\ Len(m.data) <= k.dataCapacity /\ Len(x) = Len(es)
         /\ Laid(1 .. Len(es), es, m.data, x)
    BY <1>2, <1>7, <1>8, <1>10, <1>11
  <1>14. \A i, j \in L : i < j => es[i].tag <= es[j].tag
    <2> DEFINE t == [i \in 1 .. n |-> es[i].tag]
    <2>1. ASSUME NEW i \in 1 .. n PROVE es[i].tag \in Nat
      <3>1. es[i] \in MetaEntry
        BY <1>2, <1>7
      <3>2. es[i].tag \in DOMAIN TagType
        BY <3>1 DEF MetaEntry, MetaTags
      <3> QED
        BY <3>2, MetaAssumption
    <2>2. t \in [1 .. n -> Nat]
      BY <2>1
    <2>3. ASSUME NEW i \in 1 .. n - 1 PROVE t[i] <= t[i + 1]
      <3>1. i \in 1 .. n /\ i + 1 \in 1 .. n
        BY <1>2
      <3> QED
        BY <1>3, <1>7, <3>1
    <2>4. \A i \in 1 .. n : t[i] = es[i].tag
      OBVIOUS
    <2> HIDE DEF t
    <2>5. \A i, j \in 1 .. n : i < j => t[i] <= t[j]
      BY <1>2, <2>2, <2>3, Ascending
    <2> QED
      BY <2>4, <2>5
  <1>15. MarkHolds(k)
    <2>1. DOMAIN k.entries = L /\ k.entries = es
      BY <1>7, <1>11
    <2> QED
      BY <1>14, <2>1 DEF MarkHolds
  <1>16. Holds(k, x)
    BY <1>2, <1>7, <1>8, <1>11, <1>12, <1>13, PacketMade
  <1> QED
    BY <1>4, <1>15, <1>16, CallKeeps

(* append_camera_metadata(), with room for the entries and their data.     *)
LEMMA AppendedHolds ==
  ASSUME NEW a, NEW w, Holds(a, w), NEW b, NEW x, Holds(b, x),
         Len(a.entries) + Len(b.entries) <= a.entryCapacity,
         Len(a.data) + Len(b.data) <= a.dataCapacity
  PROVE  /\ Holds(Appended(a, b), w \o x)
         /\ (IF a.entries = <<>> THEN (a.sorted => b.sorted) /\ MarkHolds(b)
             ELSE MarkHolds(a)) => MarkHolds(Appended(a, b))
  <1> DEFINE m == Len(a.entries)
             n == Len(b.entries)
             d == a.data
             fs == [i \in DOMAIN b.entries |->
                      IF SizeOf(b.entries[i]) > 0
                      THEN [b.entries[i] EXCEPT !.data = @ + Len(d)] ELSE b.entries[i]]
             es == a.entries \o fs
             r == d \o b.data
             y == w \o x
             c == IF a.entries = <<>> THEN a.sorted \/ b.sorted
                  ELSE a.sorted /\ b.entries = <<>>
             k == Appended(a, b)
  <1>1. /\ a = [f \in PacketFields |-> a[f]] /\ a.sorted \in BOOLEAN
        /\ a.entryCapacity \in Nat /\ a.dataCapacity \in Nat
        /\ a.entries \in Seq(MetaEntry) /\ d \in Seq(Granule)
        /\ w \in Seq(Written) /\ Len(w) = m /\ m \in Nat /\ Len(d) \in Nat
        /\ DOMAIN a.entries = 1 .. m /\ Laid(1 .. m, a.entries, d, w)
    BY PacketHas
  <1>2. /\ b.entries \in Seq(MetaEntry) /\ b.data \in Seq(Granule) /\ b.sorted \in BOOLEAN
        /\ x \in Seq(Written) /\ Len(x) = n /\ n \in Nat /\ Len(b.data) \in Nat
        /\ DOMAIN b.entries = 1 .. n /\ Laid(1 .. n, b.entries, b.data, x)
    BY PacketHas
  <1>3. c \in BOOLEAN
    BY <1>1, <1>2
  <1> DEFINE good == IF a.entries = <<>> THEN (a.sorted => b.sorted) /\ MarkHolds(b)
                     ELSE MarkHolds(a)
  <1>3a. c /\ good => \/ m = 0 /\ b.sorted /\ MarkHolds(b)
                      \/ n = 0 /\ a.sorted /\ MarkHolds(a)
    <2>1. /\ a.entries = <<>> => m = 0
          /\ b.entries = <<>> => n = 0
      OBVIOUS
    <2>2. CASE a.entries = <<>>
      <3>1. c <=> a.sorted \/ b.sorted
        BY <2>2
      <3>2. good <=> (a.sorted => b.sorted) /\ MarkHolds(b)
        BY <2>2
      <3> HIDE DEF m, n, c, good
      <3> QED
        BY <2>1, <2>2, <3>1, <3>2
    <2>3. CASE a.entries # <<>>
      <3>1. c <=> a.sorted /\ b.entries = <<>>
        BY <2>3
      <3>2. good <=> MarkHolds(a)
        BY <2>3
      <3> HIDE DEF m, n, c, good
      <3> QED
        BY <2>1, <3>1, <3>2
    <2> QED
      BY <2>2, <2>3
  <1>4. k = [a EXCEPT !.entries = es, !.data = r, !.sorted = c]
    BY DEF Appended
  <1> HIDE DEF c, d
  <1>5. ASSUME NEW i \in 1 .. n
        PROVE  /\ fs[i] = IF SizeOf(b.entries[i]) > 0
                          THEN [b.entries[i] EXCEPT !.data = @ + Len(d)] ELSE b.entries[i]
               /\ fs[i] \in MetaEntry /\ fs[i].tag = b.entries[i].tag
    <2> DEFINE e == b.entries[i]
               z == e.data + Len(d)
    <2>1. e \in MetaEntry
      BY <1>2
    <2>2. e.data \in Nat
      BY <2>1, Sizes
    <2>3. z \in Nat
      BY <1>1, <2>2
    <2>4. fs[i] = IF SizeOf(e) > 0 THEN [e EXCEPT !.data = z] ELSE e
      BY <1>2
    <2> HIDE DEF z, e, fs
    <2>5. [e EXCEPT !.data = z] \in MetaEntry
      BY <2>1, <2>3, Sizes
    <2>6. [e EXCEPT !.data = z].tag = e.tag
      BY <2>1 DEF MetaEntry
    <2> QED
      BY <2>1, <2>4, <2>5, <2>6 DEF e, z
  <1>6. fs \in Seq(MetaEntry) /\ Len(fs) = n
    <2>1. fs = [i \in 1 .. n |-> fs[i]]
      BY <1>2
    <2> HIDE DEF fs
    <2>2. fs \in [1 .. n -> MetaEntry]
      BY <1>5, <2>1
    <2>3. n \in Nat
      BY <1>2
    <2> QED
      BY <2>2, <2>3
  <1> HIDE DEF fs, m, n
  <1>7. /\ es \in Seq(MetaEntry) /\ Len(es) = m + n
        /\ \A i \in 1 .. m + n : es[i] = IF i <= m THEN a.entries[i] ELSE fs[i - m]
    <2> DEFINE t == a.entries
    <2>1. t \in Seq(MetaEntry) /\ Len(t) = m
      BY <1>1 DEF m
    <2> HIDE DEF t
    <2>2. fs \in Seq(MetaEntry) /\ Len(fs) = n
      BY <1>6
    <2>3. /\ t \o fs \in Seq(MetaEntry) /\ Len(t \o fs) = Len(t) + Len(fs)
          /\ \A i \in 1 .. Len(t) + Len(fs) :
                (t \o fs)[i] = IF i <= Len(t) THEN t[i] ELSE fs[i - Len(t)]
      BY <2>1, <2>2, ConcatProperties
    <2> QED
      BY <2>1, <2>2, <2>3 DEF t
  <1>8. /\ y \in Seq(Written) /\ Len(y) = m + n
        /\ \A i \in 1 .. m + n : y[i] = IF i <= m THEN w[i] ELSE x[i - m]
    BY <1>1, <1>2, ConcatProperties
  <1> HIDE DEF es, y
  <1>9. Concat(m, a.entries, d, w, n, b.entries, b.data, x, es, y)
    <2>1. ASSUME NEW i \in 1 .. m PROVE es[i] = a.entries[i] /\ y[i] = w[i]
      <3>1. i \in 1 .. m + n /\ i <= m
        BY <1>1, <1>2
      <3> QED
        BY <1>7, <1>8, <3>1
    <2>2. ASSUME NEW i \in 1 .. n PROVE es[m + i] = fs[i] /\ y[m + i] = x[i]
      <3>1. m + i \in 1 .. m + n /\ ~(m + i <= m) /\ (m + i) - m = i
        BY <1>1, <1>2
      <3> QED
        BY <1>7, <1>8, <3>1
    <2> QED
      BY <1>1, <1>2, <1>5, <2>1, <2>2 DEF Concat
  <1>10. /\ r \in Seq(Granule) /\ Len(r) = Len(d) + Len(b.data)
         /\ Laid(1 .. m + n, es, r, y)
    BY <1>9, LaidConcat
  <1> HIDE DEF r, k
  <1>11. /\ k = [f \in PacketFields |-> k[f]] /\ k.entries = es /\ k.data = r
         /\ k.sorted = c /\ k.entryCapacity = a.entryCapacity
         /\ k.dataCapacity = a.dataCapacity
    BY <1>1, <1>4 DEF PacketFields
  <1>12. /\ Len(es) <= k.entryCapacity /\ Len(r) <= k.dataCapacity /\ Len(y) = Len(es)
         /\ Laid(1 .. Len(es), es, r, y) /\ k.sorted \in BOOLEAN
    BY <1>3, <1>7, <1>8, <1>10, <1>11 DEF m, n, d
  <1> HIDE DEF good
  <1>13. ASSUME good PROVE MarkHolds(k)
    <2> SUFFICES ASSUME c, NEW i \in 1 .. m + n, NEW j \in 1 .. m + n, i < j
                 PROVE  es[i].tag <= es[j].tag
      BY <1>7, <1>11 DEF MarkHolds
    <2>1. CASE m = 0 /\ b.sorted /\ MarkHolds(b)
      <3>1. i \in 1 .. n /\ j \in 1 .. n /\ es[i] = fs[i] /\ es[j] = fs[j]
        BY <1>2, <1>7, <2>1
      <3>2. b.entries[i].tag <= b.entries[j].tag
        BY <1>2, <2>1, <3>1 DEF MarkHolds
      <3> QED
        BY <1>5, <3>1, <3>2
    <2>2. CASE n = 0 /\ a.sorted /\ MarkHolds(a)
      <3>0. m \in Nat /\ m + n = m
        BY <1>1, <2>2
      <3>1. i \in 1 .. m /\ j \in 1 .. m /\ i <= m /\ j <= m
        BY <3>0
      <3>2. es[i] = a.entries[i] /\ es[j] = a.entries[j]
        BY <1>7, <3>1
      <3> QED
        BY <1>1, <2>2, <3>1, <3>2 DEF MarkHolds
    <2> QED
      BY <1>3a, <1>13, <2>1, <2>2
  <1>14. Holds(k, y)
    BY <1>1, <1>7, <1>8, <1>10, <1>11, <1>12, PacketMade
  <1> QED
    BY <1>13, <1>14 DEF k, y, good

(* append_camera_metadata() and clone_camera_metadata()                    *)
LEMMA MetaAppends ==
  ASSUME MetaInv, NEW p \in Packets, AppendMetadata(p) \/ CloneMetadata(p)
  PROVE  MetaInv'
  <1> DEFINE q == Other(p)
             a == packet[p]
             b == packet[q]
  <1>1. q \in Packets
    BY DEF Other, Packets
  <1>2. /\ Holds(a, written[p]) /\ Holds(b, written[q])
        /\ p \notin mismarked => MarkHolds(a)
        /\ q \notin mismarked => MarkHolds(b)
    BY <1>1 DEF MetaInv, AppendMetadata, CloneMetadata, Call
  <1> HIDE DEF q
  <1>3. CASE AppendMetadata(p)
    <2>1. /\ Len(a.entries) + Len(b.entries) <= a.entryCapacity
          /\ Len(a.data) + Len(b.data) <= a.dataCapacity
          /\ Call(p, Appended(a, b), written[p] \o written[q], Misleads(p))
          /\ emptied' = emptied
      BY <1>3 DEF AppendMetadata, q
    <2>2. ~Misleads(p) => IF a.entries = <<>> THEN (a.sorted => b.sorted) /\ MarkHolds(b)
                          ELSE MarkHolds(a)
      BY <1>2 DEF Misleads, q
    <2> HIDE DEF a, b
    <2>3. /\ Holds(Appended(a, b), written[p] \o written[q])
          /\ (IF a.entries = <<>> THEN (a.sorted => b.sorted) /\ MarkHolds(b)
              ELSE MarkHolds(a)) => MarkHolds(Appended(a, b))
      BY <1>2, <2>1, AppendedHolds
    <2>4. ~Misleads(p) => MarkHolds(Appended(a, b))
      BY <2>2, <2>3
    <2> QED
      BY <2>1, <2>3, <2>4, CallKeeps
  <1>4. CASE CloneMetadata(p)
    <2> DEFINE n == Len(b.entries)
               s == Len(b.data)
               c == Allocated(n, s)
               e == <<>>
    <2>1. Call(p, Appended(c, b), written[q], q \in mismarked) /\ emptied' = emptied
      BY <1>4 DEF CloneMetadata, q
    <2> HIDE DEF b
    <2>2. n \in Nat /\ s \in Nat /\ written[q] \in Seq(Written)
      BY <1>2, PacketHas
    <2>3. /\ Len(c.entries) = 0 /\ Len(c.data) = 0
          /\ c.entryCapacity = n /\ c.dataCapacity = s
          /\ c.entries = <<>> /\ c.sorted = FALSE
      BY DEF Allocated
    <2> HIDE DEF n, s
    <2>4. Holds(c, e)
      BY <2>2, AllocatedHolds
    <2> HIDE DEF c, e
    <2>5. /\ Len(c.entries) + Len(b.entries) <= c.entryCapacity
          /\ Len(c.data) + Len(b.data) <= c.dataCapacity
      BY <2>2, <2>3 DEF n, s
    <2>6. /\ Holds(Appended(c, b), e \o written[q])
          /\ MarkHolds(b) => MarkHolds(Appended(c, b))
      <3>1. /\ Holds(Appended(c, b), e \o written[q])
            /\ (IF c.entries = <<>> THEN (c.sorted => b.sorted) /\ MarkHolds(b)
                ELSE MarkHolds(c)) => MarkHolds(Appended(c, b))
        BY <1>2, <2>4, <2>5, AppendedHolds
      <3> QED
        BY <2>3, <3>1
    <2>7. e \o written[q] = written[q]
      BY <2>2 DEF e
    <2> QED
      BY <1>2, <2>1, <2>6, <2>7, CallKeeps
  <1> QED
    BY <1>3, <1>4

(* Every call on a packet.                                                 *)
LEMMA MetaStep ==
  ASSUME MetaInv, MetaNext
  PROVE  MetaInv'
  BY MetaSorts, MetaAppends, MetaAdds, MetaDeletes, MetaUpdates DEF MetaNext

(* The packets at first.                                                   *)
LEMMA MetaFirst ==
  ASSUME MetaInit
  PROVE  MetaInv
  <1> DEFINE n == DataCapacity \div 8
             m == Allocated(EntryCapacity, n)
             e == <<>>
  <1>1. EntryCapacity \in Nat /\ n \in Nat
    BY MetaAssumption
  <1>2. /\ packet = [p \in Packets |-> m] /\ written = [p \in Packets |-> e] /\ calls = 0
        /\ aborted = FALSE /\ emptied = FALSE
    BY DEF MetaInit
  <1> HIDE DEF n
  <1>3. Holds(m, e) /\ MarkHolds(m)
    BY <1>1, AllocatedHolds
  <1> HIDE DEF m, e
  <1> QED
    BY <1>2, <1>3 DEF MetaInv

(* bsearch() on entries whose tags do not decrease.                        *)
LEMMA BinarySearch ==
  ASSUME NEW es \in Seq(MetaEntry), NEW tag \in Nat,
         \A i, j \in 1 .. Len(es) : i < j => es[i].tag <= es[j].tag
  PROVE  LET n == Len(es)
             found[r \in (1 .. n + 1) \X (0 .. n)] ==
                IF r[1] > r[2] THEN 0
                ELSE IF es[Middle(r)].tag = tag THEN Middle(r)
                ELSE IF es[Middle(r)].tag < tag THEN found[<<Middle(r) + 1, r[2]>>]
                ELSE found[<<r[1], Middle(r) - 1>>]
             i == found[<<1, n>>]
         IN  IF i = 0 THEN \A j \in 1 .. n : es[j].tag # tag
             ELSE i \in 1 .. n /\ es[i].tag = tag
  <1> DEFINE n == Len(es)
             D == (1 .. n + 1) \X (0 .. n)
             Up(r) == <<Middle(r) + 1, r[2]>>
             Down(r) == <<r[1], Middle(r) - 1>>
             Body(f, r) == IF r[1] > r[2] THEN 0
                           ELSE IF es[Middle(r)].tag = tag THEN Middle(r)
                           ELSE IF es[Middle(r)].tag < tag THEN f[Up(r)]
                           ELSE f[Down(r)]
             Within(w) == {r \in D : r[2] + 1 <= r[1] + w}
             Computed(f, w) == f = [r \in Within(w) |-> Body(f, r)]
             k == CHOOSE f : f = [r \in D |-> Body(f, r)]
  <1>1. n \in Nat /\ \A i \in 1 .. n : es[i].tag \in Nat
    <2>1. n \in Nat /\ \A i \in 1 .. n : es[i] \in MetaEntry
      OBVIOUS
    <2>2. \A i \in 1 .. n : es[i].tag \in DOMAIN TagType
      BY <2>1 DEF MetaEntry, MetaTags
    <2> QED
      BY <2>1, <2>2, MetaAssumption
  <1> HIDE DEF n
  <1>2. ASSUME NEW r \in D, r[1] <= r[2]
        PROVE  /\ Middle(r) \in 1 .. n /\ Middle(r) \in r[1] .. r[2]
               /\ Up(r) \in D /\ Up(r)[1] = Middle(r) + 1 /\ Up(r)[2] = r[2]
               /\ Down(r) \in D /\ Down(r)[1] = r[1] /\ Down(r)[2] = Middle(r) - 1
    <2>1. r[1] \in 1 .. n + 1 /\ r[2] \in 0 .. n
      OBVIOUS
    <2> DEFINE a == r[1]
               b == r[2]
               c == Middle(r)
    <2>2. c = (a + b) \div 2 /\ a \in 1 .. n + 1 /\ b \in 0 .. n /\ a <= b
      BY <1>2, <2>1 DEF Middle
    <2> HIDE DEF a, b, c
    <2>3. c \in a .. b
      BY <1>1, <2>2
    <2>4. c \in 1 .. n /\ c + 1 \in 1 .. n + 1 /\ c - 1 \in 0 .. n
      BY <1>1, <2>2, <2>3
    <2> QED
      BY <2>2, <2>3, <2>4 DEF a, b, c
  <1> HIDE DEF Up, Down
  <1>3. ASSUME NEW r \in D
        PROVE  r[1] \in Nat /\ r[2] \in Nat /\ (r[1] > r[2] \/ r[1] <= r[2]) /\ r[1] >= 1 /\ r[2] <= n
    <2>1. r[1] \in 1 .. n + 1 /\ r[2] \in 0 .. n
      OBVIOUS
    <2> QED
      BY <1>1, <2>1
  <1> HIDE DEF D
  <1>4. ASSUME NEW f, NEW r \in D
        PROVE  /\ r[1] > r[2] => Body(f, r) = 0
               /\ r[1] <= r[2] /\ es[Middle(r)].tag = tag => Body(f, r) = Middle(r)
               /\ r[1] <= r[2] /\ es[Middle(r)].tag < tag => Body(f, r) = f[Up(r)]
               /\ r[1] <= r[2] /\ es[Middle(r)].tag > tag => Body(f, r) = f[Down(r)]
               /\ \/ r[1] > r[2]
                  \/ r[1] <= r[2] /\ es[Middle(r)].tag = tag
                  \/ r[1] <= r[2] /\ es[Middle(r)].tag < tag
                  \/ r[1] <= r[2] /\ es[Middle(r)].tag > tag
    <2>1. r[1] \in Nat /\ r[2] \in Nat
      BY <1>3
    <2>2. r[1] <= r[2] => es[Middle(r)].tag \in Nat
      BY <1>1, <1>2
    <2>3. CASE r[1] > r[2]
      BY <2>1, <2>3
    <2>4. CASE r[1] <= r[2]
      BY <2>1, <2>2, <2>4
    <2> QED
      BY <2>1, <2>3, <2>4
  <1> HIDE DEF Body
  <1>5. ASSUME NEW f, NEW g, NEW r \in D,
               r[1] <= r[2] => f[Up(r)] = g[Up(r)] /\ f[Down(r)] = g[Down(r)]
        PROVE  Body(f, r) = Body(g, r)
    BY <1>4, <1>5
  <1>6. ASSUME NEW w \in 1 .. n, NEW r \in Within(w), r[1] <= r[2]
        PROVE  Up(r) \in Within(w - 1) /\ Down(r) \in Within(w - 1)
    <2>1. r \in D /\ r[2] + 1 <= r[1] + w /\ r[1] \in Nat /\ r[2] \in Nat
      BY <1>3
    <2>2. /\ Middle(r) \in r[1] .. r[2] /\ Up(r) \in D /\ Up(r)[1] = Middle(r) + 1 /\ Up(r)[2] = r[2]
          /\ Down(r) \in D /\ Down(r)[1] = r[1] /\ Down(r)[2] = Middle(r) - 1
      BY <1>2, <1>6, <2>1
    <2>3. r[2] + 1 <= (Middle(r) + 1) + (w - 1) /\ (Middle(r) - 1) + 1 <= r[1] + (w - 1)
      <3> DEFINE a == r[1]
                 b == r[2]
                 c == Middle(r)
      <3>1. a \in Nat /\ b \in Nat /\ c \in a .. b /\ b + 1 <= a + w /\ w \in Nat
        BY <1>1, <2>1, <2>2
      <3> HIDE DEF a, b, c
      <3>2. b + 1 <= (c + 1) + (w - 1) /\ (c - 1) + 1 <= a + (w - 1)
        BY <3>1
      <3> QED
        BY <3>2 DEF a, b, c
    <2> QED
      BY <2>2, <2>3
  <1>7. ASSUME NEW w \in 1 .. n PROVE Within(w - 1) \subseteq Within(w)
    <2> SUFFICES ASSUME NEW r \in Within(w - 1) PROVE r \in Within(w)
      OBVIOUS
    <2>1. r \in D /\ r[2] + 1 <= r[1] + (w - 1) /\ r[1] \in Nat /\ r[2] \in Nat
      BY <1>3
    <2>2. r[2] + 1 <= r[1] + w
      BY <1>1, <2>1
    <2> QED
      BY <2>1, <2>2
  <1>8. Within(n) = D
    <2> SUFFICES ASSUME NEW r \in D PROVE r[2] + 1 <= r[1] + n
      OBVIOUS
    <2> QED
      BY <1>1, <1>3
  <1>9. ASSUME NEW r \in Within(0) PROVE r \in D /\ r[1] > r[2]
    <2>1. r \in D /\ r[2] + 1 <= r[1] + 0
      OBVIOUS
    <2> QED
      BY <1>3, <2>1
  <1>10. \A w \in 0 .. n : \A r \in Within(w) : r \in D
    OBVIOUS
  <1> HIDE DEF Within
  <1>11. \E f : Computed(f, n)
    <2> DEFINE good == {w \in Nat : \E f : Computed(f, w)}
    <2>1. 0 \in good
      <3> DEFINE z == [r \in Within(0) |-> 0]
      <3>1. \A r \in Within(0) : z[r] = Body(z, r)
        BY <1>4, <1>9
      <3>2. z = [r \in Within(0) |-> z[r]]
        OBVIOUS
      <3> HIDE DEF z
      <3>3. Computed(z, 0)
        BY <3>1, <3>2
      <3> HIDE DEF Computed
      <3> QED
        BY <3>3
    <2>2. ASSUME NEW w \in 1 .. n, w - 1 \in good PROVE w \in good
      <3>1. PICK f : Computed(f, w - 1)
        BY <2>2
      <3>2. w \in Nat /\ w \in 0 .. n /\ w - 1 \in 0 .. n
        BY <1>1
      <3> DEFINE g == [r \in Within(w) |-> IF r \in Within(w - 1) THEN f[r] ELSE Body(f, r)]
      <3>3. \A r \in Within(w - 1) : f[r] = Body(f, r)
        <4>1. f = [r \in Within(w - 1) |-> Body(f, r)]
          BY <3>1
        <4> QED
          BY <4>1, Zenon
      <3>4. \A r \in Within(w - 1) : g[r] = f[r]
        BY <1>7
      <3>5. ASSUME NEW r \in Within(w) PROVE g[r] = Body(g, r)
        <4>1. g[r] = Body(f, r)
          BY <3>3
        <4>2. r \in D
          BY <1>10, <3>2
        <4> HIDE DEF g
        <4>3. r[1] <= r[2] => f[Up(r)] = g[Up(r)] /\ f[Down(r)] = g[Down(r)]
          BY <1>6, <3>4
        <4> QED
          BY <1>5, <4>1, <4>2, <4>3
      <3>6. g = [r \in Within(w) |-> g[r]]
        OBVIOUS
      <3> HIDE DEF g
      <3>7. Computed(g, w)
        BY <3>5, <3>6
      <3> HIDE DEF Computed
      <3> QED
        BY <3>2, <3>7
    <2> HIDE DEF good
    <2>3. \A w \in 0 .. n : w \in good
      BY <1>1, <2>1, <2>2, UpTo
    <2>4. n \in good
      BY <1>1, <2>3
    <2> HIDE DEF Computed
    <2> QED
      BY <2>4 DEF good
  <1>12. \A r \in D : k[r] = Body(k, r)
    <2>1. \E f : f = [r \in D |-> Body(f, r)]
      BY <1>8, <1>11
    <2>2. k = [r \in D |-> Body(k, r)]
      BY <2>1
    <2> HIDE DEF k
    <2> QED
      BY <2>2, Zenon
  <1> HIDE DEF k, Computed
  <1> DEFINE Right(r) == IF k[r] = 0 THEN \A j \in r[1] .. r[2] : es[j].tag # tag
                         ELSE k[r] \in r[1] .. r[2] /\ es[k[r]].tag = tag
             good == {w \in Nat : \A r \in Within(w) : Right(r)}
  <1>13. 0 \in good
    <2> SUFFICES ASSUME NEW r \in Within(0) PROVE Right(r)
      OBVIOUS
    <2>1. r \in D /\ r[1] > r[2] /\ r[1] \in Nat /\ r[2] \in Nat
      BY <1>3, <1>9
    <2>2. k[r] = 0
      BY <1>4, <1>12, <2>1
    <2> QED
      BY <2>1, <2>2
  <1>14. ASSUME NEW w \in 1 .. n, w - 1 \in good PROVE w \in good
    <2>1. w \in Nat /\ w \in 0 .. n
      BY <1>1
    <2> SUFFICES ASSUME NEW r \in Within(w) PROVE Right(r)
      BY <2>1
    <2> DEFINE c == Middle(r)
    <2>2. r \in D /\ r[1] \in Nat /\ r[2] \in Nat /\ r[1] >= 1 /\ r[2] <= n
      BY <1>3, <1>10, <2>1
    <2>3. k[r] = Body(k, r)
      BY <1>12, <2>2
    <2>4. CASE r[1] > r[2]
      <3>1. k[r] = 0
        BY <1>4, <2>2, <2>3, <2>4
      <3> QED
        BY <2>2, <2>4, <3>1
    <2>5. CASE r[1] <= r[2]
      <3>1. /\ c \in 1 .. n /\ c \in r[1] .. r[2]
            /\ Up(r)[1] = c + 1 /\ Up(r)[2] = r[2] /\ Down(r)[1] = r[1] /\ Down(r)[2] = c - 1
        BY <1>2, <2>2, <2>5
      <3>2. Right(Up(r)) /\ Right(Down(r))
        <4> HIDE DEF Right
        <4> QED
          BY <1>6, <1>14, <2>5
      <3> HIDE DEF c
      <3>3. \A j \in r[1] .. r[2] : es[j].tag \in Nat /\ j \in 1 .. n
        BY <1>1, <2>2
      <3>4. \A i, j \in 1 .. n : i < j => es[i].tag <= es[j].tag
        BY DEF n
      <3>5. CASE es[c].tag = tag
        <4>1. k[r] = c /\ c # 0
          BY <1>4, <2>2, <2>3, <2>5, <3>1, <3>5 DEF c
        <4> QED
          BY <3>1, <3>5, <4>1
      <3>6. CASE es[c].tag < tag
        <4>1. k[r] = k[Up(r)]
          BY <1>4, <2>2, <2>3, <2>5, <3>6 DEF c
        <4>2. \A j \in r[1] .. c : es[j].tag # tag
          <5> SUFFICES ASSUME NEW j \in r[1] .. c PROVE es[j].tag # tag
            OBVIOUS
          <5>1. j \in 1 .. n /\ j \in Nat /\ c \in Nat /\ es[j].tag \in Nat /\ es[c].tag \in Nat /\ (j = c \/ j < c)
            <6>1. j \in r[1] .. r[2] /\ j \in Nat /\ c \in Nat /\ (j = c \/ j < c)
              BY <2>2, <3>1
            <6> QED
              BY <3>1, <3>3, <6>1
          <5>2. es[j].tag <= es[c].tag
            BY <3>1, <3>4, <5>1
          <5> QED
            BY <3>6, <5>1, <5>2
        <4>3. \A j \in r[1] .. r[2] : j \in r[1] .. c \/ j \in c + 1 .. r[2]
          BY <2>2, <3>1
        <4>4. \A j \in c + 1 .. r[2] : j \in r[1] .. r[2]
          BY <2>2, <3>1
        <4>5. Right(Up(r)) <=> IF k[r] = 0 THEN \A j \in c + 1 .. r[2] : es[j].tag # tag
                               ELSE k[r] \in c + 1 .. r[2] /\ es[k[r]].tag = tag
          BY <3>1, <4>1
        <4> QED
          BY <3>2, <4>2, <4>3, <4>4, <4>5
      <3>7. CASE es[c].tag > tag
        <4>1. k[r] = k[Down(r)]
          BY <1>4, <2>2, <2>3, <2>5, <3>7 DEF c
        <4>2. \A j \in c .. r[2] : es[j].tag # tag
          <5> SUFFICES ASSUME NEW j \in c .. r[2] PROVE es[j].tag # tag
            OBVIOUS
          <5>1. j \in 1 .. n /\ j \in Nat /\ c \in Nat /\ es[j].tag \in Nat /\ es[c].tag \in Nat /\ (j = c \/ c < j)
            <6>1. j \in r[1] .. r[2] /\ j \in Nat /\ c \in Nat /\ (j = c \/ c < j)
              BY <2>2, <3>1
            <6> QED
              BY <3>1, <3>3, <6>1
          <5>2. es[c].tag <= es[j].tag
            BY <3>1, <3>4, <5>1
          <5> QED
            BY <3>7, <5>1, <5>2
        <4>3. \A j \in r[1] .. r[2] : j \in c .. r[2] \/ j \in r[1] .. c - 1
          BY <2>2, <3>1
        <4>4. \A j \in r[1] .. c - 1 : j \in r[1] .. r[2]
          BY <2>2, <3>1
        <4>5. Right(Down(r)) <=> IF k[r] = 0 THEN \A j \in r[1] .. c - 1 : es[j].tag # tag
                                 ELSE k[r] \in r[1] .. c - 1 /\ es[k[r]].tag = tag
          BY <3>1, <4>1
        <4> QED
          BY <3>2, <4>2, <4>3, <4>4, <4>5
      <3>8. es[c].tag \in Nat
        BY <1>1, <3>1
      <3> QED
        BY <3>5, <3>6, <3>7, <3>8
    <2> QED
      BY <2>2, <2>4, <2>5
  <1>15. n \in good
    <2> HIDE DEF good
    <2>1. \A w \in 0 .. n : w \in good
      BY <1>1, <1>13, <1>14, UpTo
    <2> QED
      BY <1>1, <2>1
  <1> DEFINE i == k[<<1, n>>]
  <1>16. IF i = 0 THEN \A j \in 1 .. n : es[j].tag # tag ELSE i \in 1 .. n /\ es[i].tag = tag
    <2>1. <<1, n>> \in D
      BY <1>1 DEF D
    <2>2. Right(<<1, n>>)
      <3> HIDE DEF Right
      <3> QED
        BY <1>8, <1>15, <2>1
    <2> QED
      BY <2>2
  <1> QED
    BY <1>16 DEF k, n, D, Body, Up, Down

(* A search finds whatever is in a packet.                                 *)
LEMMA HoldsFindable ==
  ASSUME NEW m, NEW w, Holds(m, w), MarkHolds(m)
  PROVE  Findable(m)
  <1> DEFINE es == m.entries
             n == Len(es)
  <1>1. /\ es \in Seq(MetaEntry) /\ n \in Nat /\ DOMAIN es = 1 .. n /\ m.sorted \in BOOLEAN
    BY PacketHas
  <1> SUFFICES ASSUME NEW tag \in MetaTags
               PROVE  LET i == FindMetadata(m, tag) IN
                      IF i = 0 THEN \A j \in 1 .. n : es[j].tag # tag
                      ELSE es[i].tag = tag
    BY <1>1 DEF Findable
  <1>2. tag \in Nat
    BY MetaAssumption DEF MetaTags
  <1>3. CASE m.sorted
    <2>1. \A i, j \in 1 .. Len(es) : i < j => es[i].tag <= es[j].tag
      BY <1>1, <1>3 DEF MarkHolds
    <2> DEFINE found[r \in (1 .. n + 1) \X (0 .. n)] ==
                  IF r[1] > r[2] THEN 0
                  ELSE IF es[Middle(r)].tag = tag THEN Middle(r)
                  ELSE IF es[Middle(r)].tag < tag THEN found[<<Middle(r) + 1, r[2]>>]
                  ELSE found[<<r[1], Middle(r) - 1>>]
               i == found[<<1, n>>]
    <2>2. IF i = 0 THEN \A j \in 1 .. n : es[j].tag # tag ELSE i \in 1 .. n /\ es[i].tag = tag
      <3>1. es \in Seq(MetaEntry)
        BY <1>1
      <3> HIDE DEF es
      <3> QED
        BY <1>2, <2>1, <3>1, BinarySearch
    <2>3. FindMetadata(m, tag) = i
      BY <1>3 DEF FindMetadata
    <2> HIDE DEF i
    <2> QED
      BY <2>2, <2>3
  <1>4. CASE ~m.sorted
    <2> DEFINE I == {i \in 1 .. n : es[i].tag = tag}
    <2>1. FindMetadata(m, tag) = IF I # {} THEN Min(I) ELSE 0
      BY <1>4 DEF FindMetadata, SelectInSeq
    <2>2. CASE I = {}
      BY <2>1, <2>2
    <2>3. CASE I # {}
      <3>1. I \subseteq Nat
        OBVIOUS
      <3> HIDE DEF I
      <3>2. Min(I) \in I
        BY <2>3, <3>1, LeastElement
      <3>3. Min(I) \in 1 .. n /\ es[Min(I)].tag = tag
        BY <3>2 DEF I
      <3> QED
        BY <2>1, <2>3, <3>3
    <2> QED
      BY <2>2, <2>3
  <1> QED
    BY <1>1, <1>3, <1>4

(* A step keeps the packets as they should be.                             *)
LEMMA PacketsKept ==
  Spec => [](client = "metadata" => MetaInv)
  <1> DEFINE Inv == client = "metadata" => MetaInv
  <1>1. Init => Inv
    BY MetaFirst DEF Init
  <1>2. Inv /\ [Next]_vars => Inv'
    <2> SUFFICES ASSUME Inv, [Next]_vars, client' = "metadata" PROVE MetaInv'
      OBVIOUS
    <2>1. CASE Metadata(MetaNext)
      BY <2>1, MetaStep DEF Metadata, Only
    <2>2. CASE UNCHANGED vars
      BY <2>2 DEF vars, metaVars, MetaInv
    <2>3. client' = client
      BY <2>2 DEF Next, Gst, V4L2, Hal, Metadata, App, Only, vars
    <2> QED
      BY <2>1, <2>2, <2>3 DEF Next, Gst, V4L2, Hal, App, Only
  <1> QED
    BY <1>1, <1>2, PTL DEF Spec

(* Android: whatever is added, deleted, resized, sorted, appended and      *)
(* cloned, every entry of a packet reads back what was written to it last, *)
(* and the data area has neither gaps nor overlaps, for packets of any     *)
(* capacity, any tags and any number of calls; and the assertion of        *)
(* validate_camera_metadata_structure() at the end of a call fails exactly *)
(* when update_camera_metadata_entry() is called without values for an     *)
(* entry whose four bytes are not zero.                                    *)
THEOREM PacketsInOrder == Spec => [](client = "metadata" => PacketsHold)
  <1>1. (client = "metadata" => MetaInv) => (client = "metadata" => PacketsHold)
    BY HoldsImplies DEF MetaInv, PacketsHold
  <1> QED
    BY <1>1, PacketsKept, PTL

(* Android: find_camera_metadata_entry() finds every tag that is in a      *)
(* packet as well, by a binary search if the packet is marked sorted, but  *)
(* for the packets that kept this mark from when they were empty, while    *)
(* append_camera_metadata() gave them entries that are not sorted, and the *)
(* copies of these.                                                        *)
THEOREM TagsFound == Spec => [](client = "metadata" => MetadataSound)
  <1>1. (client = "metadata" => MetaInv) => (client = "metadata" => MetadataSound)
    BY HoldsImplies, HoldsFindable DEF MetaInv, PacketsHold, MetadataSound
  <1> QED
    BY <1>1, PacketsKept, PTL

(* Android: the results and the packets together.  PacksFit has neither    *)
(* variables nor constants, and TLC evaluates it: given that the packs of  *)
(* the device have room for their contents, the HAL keeps its promises.    *)
THEOREM AndroidInOrder ==
  ASSUME PacksFit
  PROVE  Spec => []AndroidSound
  <1>1. (client = "android" => ResultsMatch) /\ (client = "metadata" => MetadataSound)
           => AndroidSound
    BY DEF AndroidSound
  <1> QED
    BY <1>1, TagsFound, ResultsInOrder, PTL
=============================================================================
